-------------------------- MODULE GraphSyncProofs ---------------------------
(***************************************************************************)
(* Proofs about GraphSync: which letter, or which job, each difference     *)
(* between PostgreSQL and the graph is due to.                             *)
(***************************************************************************)
EXTENDS GraphSync, SequenceTheorems, FiniteSetTheorems, TLAPS

-----------------------------------------------------------------------------
(* The inductive invariants.                                               *)

\* The call a job makes next.
Due(j) == IF j.plan = <<>> THEN "none" ELSE Head(j.plan)

\* The calls that are about an id, by the kind of the task.
CallsOf(kind) ==
    IF kind = "create" THEN {"create", "contain", "unrelate", "relate"}
    ELSE IF kind = "update" THEN {"set", "unrelate", "relate"}
    ELSE IF kind = "move" THEN {"leave", "contain", "place"}
    ELSE {"detach"}

CallOK(j, call) ==
    /\ call \notin {"next", "commit"} => j.id \in Ids
    /\ call \in GraphCalls => call \in CallsOf(j.kind)
    /\ call = "relate" => j.id \in Docs
    /\ call = "load" => /\ j.op \in {"create", "update", "replay"}
                       /\ j.kind \in {"create", "update", "move"}
    /\ call = "letter" => j.op # "replay"
    /\ call = "resolve" => j.op = "replay"

\* A plan is a single call, or calls to the graph.
CallsFor(j) == {call \in Calls : CallOK(j, call)}
Tasks(j)    == CallsFor(j) \cap GraphCalls
Plans(j)    == Seq(Tasks(j)) \cup {<<call>> : call \in CallsFor(j)}

JobOK(j) ==
    /\ j \in Job
    /\ j.op = "idle" => j = Idle
    /\ j.plan \in Plans(j)
    /\ j.todo \subseteq (IF j.op = "delete" THEN Ids
                         ELSE IF j.op = "replay" THEN 1..Len(letters) ELSE {})

Types == TypeOK /\ (\A g \in Jobs : JobOK(job[g])) /\ batchMoves <= requests

\* Requests one at a time, and beside none a replay.
OneAtATime ==
    \A g, h \in Jobs : g # h /\ job[g] # Idle /\ job[h] # Idle =>
        job[g].op = "replay" /\ job[h].op = "replay"

\* An id is used once, and only nodes that there are or were are in the graph.
Dead(n) == n \notin live /\ n \notin unused
Deletes == {"delDoc", "delFolder"}
IdsUsedOnce ==
    /\ gnodes \cap unused = {}
    /\ \A k \in 1..Len(letters) : letters[k].kind \in Deletes => Dead(letters[k].id)

\* Parents are there.
ParentsLive == \A n \in live : parent[n] \in live \cup {Top}

\* What a job has read is still so.
OpHolds(j) ==
    /\ j.op \in {"create", "update"} => j.kind = j.op /\ j.id \in live
    /\ j.op = "move" => j.kind = "move"
    /\ j.op = "delete" /\ Due(j) \notin {"commit", "next"} => j.kind \in Deletes
    /\ j.op = "delete" /\ Due(j) # "commit" => \A n \in j.todo : Dead(n)
CommitHolds(j) ==
    Due(j) = "commit" =>
        /\ j.op = "move" => j.id \in live /\ j.from = parent[j.id] /\ j.to \in live \cup {Top}
        /\ j.op = "delete" => j.roots \subseteq live /\ j.todo = Below(j.roots)
LetterHolds(j) ==
    j.op = "replay" /\ Due(j) # "next" =>
        /\ j.letter \in 1..Len(letters)
        /\ letters[j.letter].kind = j.kind /\ letters[j.letter].id = j.id
TextHolds(j) ==
    j.op # "idle" /\ Due(j) \notin {"load", "next", "commit"} =>
        /\ j.kind \in {"create", "update"} => j.id \in live /\ j.text = content[j.id]
        /\ j.kind \in Deletes => Dead(j.id)
ReadsHold(j) == OpHolds(j) /\ CommitHolds(j) /\ LetterHolds(j) /\ TextHolds(j)

\* What a task has written is in the graph: as long as nothing runs beside it but
\* replays, which write what PostgreSQL has, nothing takes it back.
DelKind(n) == IF n \in Docs THEN "delDoc" ELSE "delFolder"
WritesHold(j) ==
    /\ j.op # "idle" /\ j.kind = "create" /\ Due(j) \in {"contain", "unrelate", "relate", "resolve"} =>
         j.id \in gnodes
    /\ j.op # "idle" /\ j.kind = "update" /\ Due(j) \in {"unrelate", "relate", "resolve"} =>
         (j.id \in gnodes => gcontent[j.id] = content[j.id])
    /\ j.op # "idle" /\ Due(j) = "resolve" /\ j.kind \in Deletes /\ j.kind = DelKind(j.id) =>
         j.id \notin gnodes

\* A difference is due to a pending letter of the kind that would mend it, or to a
\* request whose goroutine is yet to.
Filed(n, kind) == \E k \in pending : letters[k].id = n /\ letters[k].kind = kind
Deleting(j, n) ==
    /\ j.op = "delete" /\ Due(j) # "commit"
    /\ \/ n \in j.todo
       \/ j.id = n /\ Due(j) \in {"detach", "letter"} /\ j.kind \in {"delDoc", DelKind(n)}
Explained(n) ==
    /\ n \in live /\ n \notin gnodes =>
         Filed(n, "create") \/ \E g \in Jobs : job[g].op = "create" /\ job[g].id = n
    /\ n \in live /\ n \in gnodes /\ gcontent[n] # content[n] =>
         Filed(n, "update") \/ \E g \in Jobs : job[g].op = "update" /\ job[g].id = n
    /\ n \notin live /\ n \in gnodes =>
         Filed(n, DelKind(n)) \/ \E g \in Jobs : Deleting(job[g], n)

SerialInv ==
    /\ Types /\ OneAtATime /\ IdsUsedOnce /\ ParentsLive
    /\ \A g \in Jobs : ReadsHold(job[g]) /\ WritesHold(job[g])
    /\ losses = 0 /\ crashes = 0 => \A n \in Ids : Explained(n)

\* As long as nothing fails the graph is, between the steps of a job too, what the
\* calls that were made make it.  No letter is written, so nothing is replayed.
Relations(n) == IF n \in Docs THEN <<"unrelate", "relate">> ELSE <<>>
Creating(j) ==
    /\ j.op = "create"
    /\ j.todo = {}
    /\ \A n \in live : Due(j) \in {"load", "create"} => parent[n] # j.id
    /\ Due(j) # "load" => j.to = parent[j.id]
    /\ \/ j.plan = <<"load">>
       \/ j.plan = <<"create">> \o (If(j.to # Top, "contain") \o Relations(j.id))
       \/ j.plan = <<"contain">> \o Relations(j.id) /\ j.to # Top
       \/ j.plan \in {<<"unrelate", "relate">>, <<"relate">>} /\ j.id \in Docs
Updating(j) ==
    /\ j.op = "update"
    /\ \/ j.plan = <<"load">>
       \/ j.plan = <<"set">> \o Relations(j.id)
       \/ j.plan \in {<<"unrelate", "relate">>, <<"relate">>} /\ j.id \in Docs
Place(n) == If(n \in Folders, "place")
Moving(j) ==
    /\ j.op = "move" /\ j.id \in live
    /\ Due(j) # "commit" => j.to = parent[j.id] /\ j.to # j.from
    /\ \/ j.plan = <<"commit">>
       \/ j.plan = <<"leave">> \o (If(j.to # Top, "contain") \o Place(j.id)) /\ j.from # Top
       \/ j.plan = <<"contain">> \o Place(j.id) /\ j.to # Top
       \/ j.plan = <<"place">>
Removing(j) ==
    /\ j.op = "delete" /\ j.plan \in {<<"commit">>, <<"next">>, <<"detach">>}
    /\ Due(j) = "detach" => j.id \notin j.todo

NodesFit(j) ==
    \A n \in Ids : n \in gnodes <=>
        /\ n \in live \/ Deleting(j, n)
        /\ ~(j.op = "create" /\ Due(j) \in {"load", "create"} /\ n = j.id)
TextsFit(j) ==
    \A n \in gnodes : gcontent[n] = content[n]
                      \/ (j.op = "update" /\ Due(j) \in {"load", "set"} /\ n = j.id)
Linked(j, f, n) ==
    IF n = j.id /\ \/ j.op = "create" /\ Due(j) \in {"load", "create", "contain"}
                   \/ j.op = "move" /\ Due(j) = "contain"
    THEN FALSE
    ELSE IF n = j.id /\ j.op = "move" /\ Due(j) = "leave" THEN f = j.from
    ELSE n \in gnodes /\ f \in gnodes /\ parent[n] = f
FoldersFit(j) ==
    \A f \in Folders, n \in Ids : contains[f][n] = IF Linked(j, f, n) THEN 1 ELSE 0
PairsFit(j) ==
    \A m, n \in Docs : m # n =>
        IF j.id \in {m, n} /\ j.op \in {"create", "update"}
        THEN Due(j) = "relate" \/ j.op = "create" => {m, n} \notin related
        ELSE {m, n} \in related <=> m \in gnodes /\ n \in gnodes /\ gcontent[m] = gcontent[n]
Fits(j) == NodesFit(j) /\ TextsFit(j) /\ FoldersFit(j) /\ PairsFit(j)
Calm == faults = 0 /\ losses = 0 /\ crashes = 0 /\ batchMoves = 0
CalmInv ==
    SerialInv /\
    (Calm => /\ letters = <<>>
             /\ Quiet => Fits(Idle)
             /\ \A g \in Jobs : job[g] # Idle =>
                  /\ Fits(job[g])
                  /\ Creating(job[g]) \/ Updating(job[g]) \/ Moving(job[g]) \/ Removing(job[g]))

-----------------------------------------------------------------------------
(* Plans, and what becomes of a job.                                       *)

\* A sequence that begins with a known call.
LEMMA Cons ==
  ASSUME NEW S, NEW c \in S, NEW s \in Seq(S)
  PROVE  LET p == <<c>> \o s
         IN /\ p \in Seq(S) /\ p # <<>> /\ Head(p) = c /\ Tail(p) = s
            /\ Len(s) \in Nat /\ Len(p) = Len(s) + 1 /\ (Len(p) > 1 <=> s # <<>>)
<1> DEFINE p == <<c>> \o s
<1>1. <<c>> \in Seq(S) /\ Len(<<c>>) = 1 /\ <<c>>[1] = c
  OBVIOUS
<1>2. /\ p \in Seq(S) /\ Len(p) = 1 + Len(s) /\ Len(s) \in Nat
      /\ \A i \in 1..(1 + Len(s)) : p[i] = IF i <= 1 THEN c ELSE s[i - 1]
  BY <1>1, ConcatProperties, LenProperties
<1> HIDE DEF p
<1>3. p # <<>>
  BY <1>2, EmptySeq
<1>4. Head(p) = c
  BY <1>2, <1>3
<1>5. Tail(p) = s
  <2>1. /\ Tail(p) \in Seq(S) /\ Len(Tail(p)) = Len(p) - 1
        /\ \A i \in 1..Len(Tail(p)) : Tail(p)[i] = p[i + 1]
    BY <1>2, <1>3, HeadTailProperties
  <2>2. Len(Tail(p)) = Len(s)
    BY <1>2, <2>1
  <2>3. \A i \in 1..Len(s) : Tail(p)[i] = s[i]
    BY <1>2, <2>1, <2>2
  <2> QED
    BY <2>1, <2>2, <2>3, SeqEqual
<1>6. Len(s) > 0 <=> s # <<>>
  BY <1>2, EmptySeq
<1> QED
  BY <1>2, <1>3, <1>4, <1>5, <1>6 DEF p

LEMMA IfTyped ==
  ASSUME NEW S, NEW cond, NEW c, cond => c \in S
  PROVE  If(cond, c) \in Seq(S)
<1>1. CASE cond
  <2>1. c \in S
    BY <1>1
  <2> QED
    BY <1>1, <2>1 DEF If
<1>2. CASE ~cond
  BY <1>2, EmptySeq DEF If
<1> QED
  BY <1>1, <1>2

\* The plan of a task, from its first call on.
LEMMA PlanIs ==
  ASSUME NEW j, NEW S, Calls \subseteq S
  PROVE  /\ j.kind = "create" =>
              Plan(j) = <<"create">> \o (If(j.to # Top, "contain") \o Relations(j.id))
         /\ j.kind = "update" => Plan(j) = <<"set">> \o Relations(j.id)
         /\ j.kind = "move" =>
              Plan(j) = If(j.from # Top, "leave") \o (If(j.to # Top, "contain") \o Place(j.id))
         /\ j.kind \in Deletes => Plan(j) = <<"detach">>
         /\ If(j.to # Top, "contain") \in Seq(S) /\ If(j.from # Top, "leave") \in Seq(S)
         /\ Relations(j.id) \in Seq(S) /\ Place(j.id) \in Seq(S)
<1>1. /\ If(j.to # Top, "contain") \in Seq(S) /\ If(j.from # Top, "leave") \in Seq(S)
      /\ Relations(j.id) \in Seq(S) /\ Place(j.id) \in Seq(S)
      /\ <<"create">> \in Seq(S)
  <2>1. {"contain", "leave", "place", "unrelate", "relate", "create"} \subseteq S
    BY DEF Calls
  <2>2. If(j.to # Top, "contain") \in Seq(S) /\ If(j.from # Top, "leave") \in Seq(S)
        /\ Place(j.id) \in Seq(S)
    BY <2>1, IfTyped DEF Place
  <2>3. Relations(j.id) \in Seq(S) /\ <<"create">> \in Seq(S)
    BY <2>1 DEF Relations
  <2> QED
    BY <2>2, <2>3
<1>2. Plan(j) = PlanWith(j, Relations(j.id))
  BY DEF Plan, Relations
<1>3. ASSUME j.kind = "create"
      PROVE  Plan(j) = <<"create">> \o (If(j.to # Top, "contain") \o Relations(j.id))
  <2>1. Plan(j) = (<<"create">> \o If(j.to # Top, "contain")) \o Relations(j.id)
    BY <1>2, <1>3 DEF PlanWith
  <2> QED
    BY <1>1, <2>1, ConcatAssociative
<1>4. ASSUME j.kind = "move"
      PROVE  Plan(j) = If(j.from # Top, "leave") \o (If(j.to # Top, "contain") \o Place(j.id))
  <2>1. Plan(j) = (If(j.from # Top, "leave") \o If(j.to # Top, "contain")) \o Place(j.id)
    BY <1>2, <1>4 DEF PlanWith, Place
  <2> QED
    BY <1>1, <2>1, ConcatAssociative
<1>5. /\ j.kind = "update" => Plan(j) = <<"set">> \o Relations(j.id)
      /\ j.kind \in Deletes => Plan(j) = <<"detach">>
  BY <1>2 DEF PlanWith, Deletes
<1> QED
  BY <1>1, <1>3, <1>4, <1>5

LEMMA PlanTyped ==
  ASSUME NEW j, j.kind \in Kinds, j.id \in Ids
  PROVE  Plan(j) \in Seq(Tasks(j))
<1> DEFINE S == Tasks(j)
<1>1. /\ j.kind = "create" => {"create", "contain", "unrelate"} \subseteq S
      /\ j.kind = "update" => {"set", "unrelate"} \subseteq S
      /\ j.kind = "move" => {"leave", "contain", "place"} \subseteq S
      /\ j.kind \in Deletes => "detach" \in S
      /\ j.kind \in {"create", "update"} /\ j.id \in Docs => "relate" \in S
  BY DEF Tasks, GraphCalls, CallsFor, CallOK, CallsOf, Calls, Deletes
<1> HIDE DEF S
<1>2. ASSUME j.kind \in {"create", "update"} PROVE Relations(j.id) \in Seq(S)
  BY <1>1, <1>2 DEF Relations
<1>3. CASE j.kind = "create"
  <2>1. If(j.to # Top, "contain") \in Seq(S)
    BY <1>1, <1>3, IfTyped
  <2>2. If(j.to # Top, "contain") \o Relations(j.id) \in Seq(S)
    BY <1>2, <1>3, <2>1, ConcatProperties
  <2>3. <<"create">> \o (If(j.to # Top, "contain") \o Relations(j.id)) \in Seq(S)
    BY <1>1, <1>3, <2>2, Cons
  <2> QED
    BY <1>3, <2>3, PlanIs DEF S
<1>4. CASE j.kind = "update"
  <2>1. <<"set">> \o Relations(j.id) \in Seq(S)
    BY <1>1, <1>2, <1>4, Cons
  <2> QED
    BY <1>4, <2>1, PlanIs DEF S
<1>5. CASE j.kind = "move"
  <2>1. /\ If(j.to # Top, "contain") \in Seq(S) /\ If(j.from # Top, "leave") \in Seq(S)
        /\ Place(j.id) \in Seq(S)
    BY <1>1, <1>5, IfTyped DEF Place
  <2>2. If(j.to # Top, "contain") \o Place(j.id) \in Seq(S)
    BY <2>1, ConcatProperties
  <2>3. If(j.from # Top, "leave") \o (If(j.to # Top, "contain") \o Place(j.id)) \in Seq(S)
    BY <2>1, <2>2, ConcatProperties
  <2> QED
    BY <1>5, <2>3, PlanIs DEF S
<1>6. CASE j.kind \in Deletes
  <2>1. Plan(j) = <<"detach">>
    BY <1>6, PlanIs
  <2> QED
    BY <1>1, <1>6, <2>1 DEF S
<1> QED
  BY <1>3, <1>4, <1>5, <1>6 DEF Kinds, Deletes

\* A job as it is but for its plan, and for what counts the attempts and the kind.
Kept(j, k) ==
    /\ k.op = j.op /\ k.id = j.id /\ k.from = j.from /\ k.to = j.to /\ k.text = j.text
    /\ k.roots = j.roots /\ k.todo = j.todo /\ k.letter = j.letter

LEMMA IdleIs ==
  /\ JobOK(Idle) /\ Idle \in Job /\ Idle.op = "idle" /\ Due(Idle) = "none" /\ Idle.todo = {}
  /\ Idle.plan = <<>> /\ Idle.id = NoNode
<1>1. Blank \in Contents
  BY GraphSyncAssumption DEF Blank
<1>2. <<>> \in Seq(Calls) /\ <<>> \in Plans(Idle)
  BY EmptySeq DEF Plans
<1>3. Idle \in Job
  BY <1>1, <1>2, GraphSyncAssumption DEF Idle, Job, Kinds, Parents
<1> QED
  BY <1>2, <1>3 DEF JobOK, Idle, Due

LEMMA JobFields ==
  ASSUME NEW j \in Job
  PROVE  /\ j.op \in {"idle", "create", "update", "move", "delete", "replay"}
         /\ j.kind \in Kinds /\ j.id \in Ids \cup {NoNode} /\ j.from \in Parents /\ j.to \in Parents
         /\ j.text \in Contents /\ j.plan \in Seq(Calls) /\ j.attempt \in 1..MaxAttempts
         /\ j.roots \in SUBSET Ids /\ j.todo \in SUBSET (Ids \cup Nat) /\ j.letter \in Nat
  BY DEF Job

LEMMA Planned ==
  ASSUME NEW j \in Job, NEW p \in Seq(Calls)
  PROVE  LET k == [j EXCEPT !.plan = p]
         IN k \in Job /\ Kept(j, k) /\ k.kind = j.kind /\ k.attempt = j.attempt /\ k.plan = p
  BY DEF Job, Kept

\* What is known of a plan.
LEMMA PlansAre ==
  ASSUME NEW j, NEW p \in Plans(j)
  PROVE  /\ p \in Seq(CallsFor(j)) /\ p \in Seq(Calls) /\ Len(p) \in Nat
         /\ (p = <<>> <=> Len(p) = 0)
         /\ p # <<>> => Head(p) \in CallsFor(j)
         /\ Len(p) > 1 => p \in Seq(Tasks(j))
<1>1. p \in Seq(CallsFor(j))
  <2>1. CASE p \in Seq(Tasks(j))
    BY <2>1, SeqMonotonic DEF Tasks
  <2>2. CASE p \in {<<call>> : call \in CallsFor(j)}
    BY <2>2
  <2> QED
    BY <2>1, <2>2 DEF Plans
<1>2. p \in Seq(Calls)
  BY <1>1, SeqMonotonic DEF CallsFor
<1>3. Len(p) \in Nat /\ (p = <<>> <=> Len(p) = 0)
  BY <1>1, EmptySeq
<1>4. ASSUME Len(p) > 1 PROVE p \in Seq(Tasks(j))
  <2>1. CASE p \in {<<call>> : call \in CallsFor(j)}
    <3>1. Len(p) = 1
      BY <2>1
    <3> QED
      BY <1>4, <3>1
  <2> QED
    BY <2>1 DEF Plans
<1>5. p # <<>> => Head(p) \in CallsFor(j)
  BY <1>1, HeadTailProperties
<1> QED
  BY <1>1, <1>2, <1>3, <1>4, <1>5

\* The call that is due is the first of the plan.
LEMMA DueIs ==
  ASSUME NEW j, JobOK(j), Due(j) # "none"
  PROVE  /\ j.plan # <<>> /\ Due(j) = Head(j.plan) /\ Due(j) \in Calls /\ CallOK(j, Due(j))
         /\ j.op # "idle"
<1>1. j.plan # <<>> /\ Due(j) = Head(j.plan)
  BY DEF Due
<1>2. Head(j.plan) \in CallsFor(j)
  BY <1>1, PlansAre DEF JobOK
<1>3. j.op # "idle"
  BY <1>1, IdleIs DEF JobOK
<1> QED
  BY <1>1, <1>2, <1>3 DEF CallsFor

LEMMA CallsKept ==
  ASSUME NEW j, NEW k, k.op = j.op, k.id = j.id, k.kind = j.kind
  PROVE  CallsFor(j) = CallsFor(k) /\ Tasks(j) = Tasks(k) /\ Plans(j) = Plans(k)
<1>1. CallsFor(j) = CallsFor(k)
  BY DEF CallsFor, CallOK
<1> QED
  BY <1>1 DEF Tasks, Plans

\* A job whose plan is another one that suits it.
LEMMA OKPlanned ==
  ASSUME NEW j, JobOK(j), j.op # "idle", NEW p \in Plans(j)
  PROVE  LET k == [j EXCEPT !.plan = p]
         IN JobOK(k) /\ Kept(j, k) /\ k.kind = j.kind /\ k.plan = p
<1> DEFINE k == [j EXCEPT !.plan = p]
<1>1. p \in Seq(Calls)
  BY PlansAre
<1>2. k \in Job /\ Kept(j, k) /\ k.kind = j.kind /\ k.plan = p
  BY <1>1, Planned DEF JobOK
<1> HIDE DEF k
<1>3. Plans(j) = Plans(k)
  BY <1>2, CallsKept DEF Kept
<1> QED
  BY <1>2, <1>3 DEF JobOK, Kept, k

LEMMA OneCall ==
  ASSUME NEW j, NEW call \in Calls, CallOK(j, call)
  PROVE  <<call>> \in Plans(j) /\ <<call>> # <<>> /\ Head(<<call>>) = call
  BY DEF CallsFor, Plans

LEMMA NewCall ==
  ASSUME NEW j, JobOK(j), j.op # "idle", NEW call \in Calls, CallOK(j, call)
  PROVE  LET k == [j EXCEPT !.plan = <<call>>]
         IN JobOK(k) /\ Kept(j, k) /\ k.kind = j.kind /\ k.plan = <<call>> /\ Due(k) = call
<1> DEFINE p == <<call>>
<1>1. p \in Plans(j) /\ p # <<>> /\ Head(p) = call
  BY OneCall
<1> HIDE DEF p
<1>2. LET k == [j EXCEPT !.plan = p]
      IN JobOK(k) /\ Kept(j, k) /\ k.kind = j.kind /\ k.plan = p
  BY <1>1, OKPlanned
<1>3. Due([j EXCEPT !.plan = p]) = call
  BY <1>1, <1>2 DEF Due
<1> QED
  BY <1>2, <1>3 DEF p

LEMMA OnwardIs ==
  ASSUME NEW j, JobOK(j), j.op # "idle", j.id \in Ids
  PROVE  LET k == Onward(j)
         IN /\ JobOK(k)
            /\ \/ /\ j.op = "delete" /\ j.kind = "delDoc"
                  /\ Kept(j, k) /\ k.kind = "delFolder" /\ k.plan = <<"detach">> /\ Due(k) = "detach"
               \/ /\ ~(j.op = "delete" /\ j.kind = "delDoc") /\ j.todo = {} /\ k = Idle
               \/ /\ ~(j.op = "delete" /\ j.kind = "delDoc") /\ j.todo # {}
                  /\ Kept(j, k) /\ k.kind = j.kind /\ k.plan = <<"next">> /\ Due(k) = "next"
<1>1. CASE j.op = "delete" /\ j.kind = "delDoc"
  <2> DEFINE d == [j EXCEPT !.kind = "delFolder", !.attempt = 1]
             k == [d EXCEPT !.plan = <<"detach">>]
  <2>1. 1 \in 1..MaxAttempts /\ "delFolder" \in Kinds /\ "detach" \in Calls
    BY GraphSyncAssumption DEF Kinds, Calls
  <2>2. d \in Job /\ Kept(j, d) /\ d.kind = "delFolder"
    BY <2>1 DEF JobOK, Job, Kept
  <2>3. Onward(j) = k
    BY <1>1 DEF Onward
  <2> HIDE DEF d
  <2>4. <<"detach">> \in Seq(Calls) /\ <<"detach">> # <<>> /\ Head(<<"detach">>) = "detach"
    BY <2>1
  <2>5. k \in Job /\ Kept(d, k) /\ k.kind = "delFolder" /\ k.plan = <<"detach">>
    BY <2>2, <2>4, Planned
  <2> HIDE DEF k
  <2>6. Kept(j, k)
    BY <2>2, <2>5 DEF Kept
  <2>7. CallOK(k, "detach")
    BY <2>5, <2>6 DEF CallOK, CallsOf, Kept
  <2>8. <<"detach">> \in Plans(k)
    BY <2>1, <2>7, OneCall
  <2>9. JobOK(k)
    BY <2>5, <2>6, <2>8 DEF JobOK, Kept
  <2> QED
    BY <1>1, <2>3, <2>4, <2>5, <2>6, <2>9 DEF Due
<1>2. CASE ~(j.op = "delete" /\ j.kind = "delDoc") /\ j.todo = {}
  BY <1>2, IdleIs DEF Onward
<1>3. CASE ~(j.op = "delete" /\ j.kind = "delDoc") /\ j.todo # {}
  <2> DEFINE k == [j EXCEPT !.plan = <<"next">>]
  <2>1. Onward(j) = k
    BY <1>3 DEF Onward
  <2>2. "next" \in Calls /\ CallOK(j, "next")
    BY DEF Calls, CallOK, GraphCalls
  <2> QED
    BY <1>3, <2>1, <2>2, NewCall
<1> QED
  BY <1>1, <1>2, <1>3

\* An attempt starts with its plan, or with reading the node.
LEMMA StartIs ==
  ASSUME NEW j, j.kind \in Kinds, j.id \in Ids
  PROVE  /\ Start(j) \in Plans(j)
         /\ Start(j) = Plan(j) \/ (j.op = "replay" /\ Start(j) = <<"load">>)
         /\ j.op = "replay" /\ j.kind \in {"create", "update"} => Start(j) = <<"load">>
<1>1. j.op = "replay" /\ Loads(j) => <<"load">> \in Plans(j)
  BY OneCall DEF Calls, CallOK, Loads, GraphCalls
<1>2. j.kind \in {"create", "update"} => Loads(j)
  BY DEF Loads
<1>3. Plan(j) \in Plans(j)
  BY PlanTyped DEF Plans
<1> QED
  BY <1>1, <1>2, <1>3 DEF Start

LEMMA AgainIs ==
  ASSUME NEW j, JobOK(j), j.op # "idle", j.id \in Ids
  PROVE  JobOK(Again(j)) /\ Kept(j, Again(j)) /\ Again(j).kind = j.kind /\ Again(j).plan = Start(j)
  BY StartIs, OKPlanned DEF Again, JobOK, Job

LEMMA RetriedIs ==
  ASSUME NEW j, JobOK(j), j.op # "idle", j.id \in Ids
  PROVE  LET k == Retried(j)
         IN /\ JobOK(k)
            /\ \/ Kept(j, k) /\ k.kind = j.kind /\ k.plan = Start(j)
               \/ /\ j.op # "replay"
                  /\ Kept(j, k) /\ k.kind = j.kind /\ k.plan = <<"letter">> /\ Due(k) = "letter"
               \/ j.op = "replay" /\ k = Onward(j)
<1>1. CASE j.attempt < MaxAttempts
  <2> DEFINE a == Again(j)
             k == [a EXCEPT !.attempt = @ + 1]
  <2>1. JobOK(a) /\ Kept(j, a) /\ a.kind = j.kind /\ a.plan = Start(j) /\ a.attempt = j.attempt
    BY AgainIs DEF Again, JobOK, Job
  <2>2. Retried(j) = k
    BY <1>1 DEF Retried, Counted
  <2> HIDE DEF a
  <2>3. a.attempt + 1 \in 1..MaxAttempts
    BY <1>1, <2>1, GraphSyncAssumption DEF JobOK, Job
  <2>4. k \in Job /\ Kept(a, k) /\ k.kind = a.kind /\ k.plan = a.plan
    BY <2>1, <2>3 DEF JobOK, Job, Kept
  <2> HIDE DEF k
  <2>5. Plans(a) = Plans(k)
    BY <2>4, CallsKept DEF Kept
  <2>6. JobOK(k)
    BY <2>1, <2>4, <2>5 DEF JobOK, Kept
  <2> QED
    BY <2>1, <2>2, <2>4, <2>6 DEF Kept
<1>2. CASE ~(j.attempt < MaxAttempts) /\ j.op = "replay"
  BY <1>2, OnwardIs DEF Retried, GivenUp
<1>3. CASE ~(j.attempt < MaxAttempts) /\ j.op # "replay"
  <2>1. Retried(j) = [j EXCEPT !.plan = <<"letter">>]
    BY <1>3 DEF Retried, GivenUp
  <2>2. "letter" \in Calls /\ CallOK(j, "letter")
    BY <1>3 DEF Calls, CallOK, GraphCalls
  <2> QED
    BY <1>3, <2>1, <2>2, NewCall
<1> QED
  BY <1>1, <1>2, <1>3

LEMMA DoneIs ==
  ASSUME NEW j, JobOK(j), j.plan # <<>>, j.id \in Ids
  PROVE  LET k == Done(j)
         IN /\ JobOK(k)
            /\ \/ /\ Kept(j, k) /\ k.kind = j.kind
                  /\ k.plan = Tail(j.plan) /\ k.plan \in Seq(Tasks(j)) /\ k.plan # <<>>
                  /\ Due(k) \in GraphCalls
               \/ /\ Len(j.plan) = 1 /\ j.op = "replay"
                  /\ Kept(j, k) /\ k.kind = j.kind /\ k.plan = <<"resolve">> /\ Due(k) = "resolve"
               \/ Len(j.plan) = 1 /\ j.op # "replay" /\ k = Onward(j)
<1>1. j.op # "idle"
  BY IdleIs DEF JobOK
<1> DEFINE t == Tail(j.plan)
<1>2. Len(j.plan) \in Nat \ {0}
  BY PlansAre DEF JobOK
<1>3. CASE Len(j.plan) > 1
  <2>1. t \in Seq(Tasks(j)) /\ t # <<>>
    <3>1. j.plan \in Seq(Tasks(j))
      BY <1>3, PlansAre DEF JobOK
    <3>2. t \in Seq(Tasks(j)) /\ Len(t) = Len(j.plan) - 1
      BY <3>1, HeadTailProperties
    <3> HIDE DEF t
    <3>3. t = <<>> <=> Len(t) = 0
      BY <3>2, EmptySeq
    <3> QED
      BY <1>2, <1>3, <3>2, <3>3
  <2>2. Head(t) \in GraphCalls
    BY <2>1, HeadTailProperties DEF Tasks
  <2>3. Done(j) = [j EXCEPT !.plan = t]
    BY <1>3 DEF Done
  <2> HIDE DEF t
  <2>4. JobOK(Done(j)) /\ Kept(j, Done(j)) /\ Done(j).kind = j.kind /\ Done(j).plan = t
    BY <1>1, <2>1, <2>3, OKPlanned DEF Plans
  <2>5. Due(Done(j)) \in GraphCalls
    BY <2>1, <2>2, <2>4 DEF Due
  <2> QED
    BY <2>1, <2>4, <2>5 DEF t
<1>4. CASE Len(j.plan) = 1 /\ j.op = "replay"
  <2>1. Done(j) = [j EXCEPT !.plan = <<"resolve">>]
    BY <1>4 DEF Done
  <2>2. "resolve" \in Calls /\ CallOK(j, "resolve")
    BY <1>4 DEF Calls, CallOK, GraphCalls
  <2> QED
    BY <1>1, <1>4, <2>1, <2>2, NewCall
<1>5. CASE Len(j.plan) = 1 /\ j.op # "replay"
  <2>1. Done(j) = Onward(j)
    BY <1>5 DEF Done
  <2> QED
    BY <1>1, <1>5, <2>1, OnwardIs
<1>6. Len(j.plan) > 1 \/ Len(j.plan) = 1
  <2> DEFINE n == Len(j.plan)
  <2>1. n \in Nat \ {0}
    BY <1>2
  <2> HIDE DEF n
  <2>2. n > 1 \/ n = 1
    BY <2>1
  <2> QED
    BY <2>2 DEF n
<1> QED
  BY <1>3, <1>4, <1>5, <1>6

-----------------------------------------------------------------------------
(* Every variable keeps its type.                                          *)

\* TypeOK by the groups of variables that a step leaves alone together.
RowsOK == /\ live \subseteq Ids /\ unused \subseteq Ids /\ live \cap unused = {}
          /\ content \in [Ids -> Contents] /\ parent \in [Ids -> Parents]
LettersOK == letters \in Seq(Letter) /\ pending \subseteq 1..Len(letters)
GraphOK == /\ gnodes \subseteq Ids /\ gcontent \in [Ids -> Contents]
           /\ contains \in [Folders -> [Ids -> Nat]]
           /\ \A x \in related : \E m, n \in Docs : m # n /\ x = {m, n}
JobsOK == job \in [Jobs -> Job] /\ \A g \in Jobs : JobOK(job[g])
CountsOK == /\ requests \in 0..MaxRequests /\ replays \in 0..MaxReplays
            /\ batchMoves \in 0..MaxRequests /\ faults \in 0..MaxFaults
            /\ losses \in 0..MaxLosses /\ crashes \in 0..MaxCrashes
            /\ batchMoves <= requests

LEMMA TypesParts ==
  /\ Types <=> RowsOK /\ LettersOK /\ GraphOK /\ JobsOK /\ CountsOK
  /\ Types' <=> RowsOK' /\ LettersOK' /\ GraphOK' /\ JobsOK' /\ CountsOK'
  BY DEF Types, TypeOK, RowsOK, LettersOK, GraphOK, JobsOK, CountsOK

LEMMA RowsKept == ASSUME RowsOK, UNCHANGED pgVars PROVE RowsOK'
  BY DEF RowsOK, pgVars

LEMMA LettersKept == ASSUME LettersOK, UNCHANGED letterVars PROVE LettersOK'
  BY DEF LettersOK, letterVars

LEMMA GraphKept == ASSUME GraphOK, UNCHANGED graphVars PROVE GraphOK'
  BY DEF GraphOK, graphVars

LEMMA CountsKept == ASSUME CountsOK, UNCHANGED countVars PROVE CountsOK'
  BY DEF CountsOK, countVars

\* One job changes.
LEMMA Becomes ==
  ASSUME JobsOK, NEW g \in Jobs, NEW k, Become(g, k)
  PROVE  job'[g] = k /\ \A h \in Jobs : h # g => job'[h] = job[h]
  BY DEF Become, JobsOK

LEMMA OneBecomes ==
  ASSUME JobsOK, NEW g \in Jobs, NEW k, JobOK(k), Become(g, k),
         Len(letters) \in Nat, Len(letters') \in Nat, Len(letters') >= Len(letters)
  PROVE  JobsOK'
<1>1. 1..Len(letters) \subseteq 1..Len(letters')
  OBVIOUS
<1>2. job' \in [Jobs -> Job]
  BY DEF Become, JobsOK, JobOK
<1>3. ASSUME NEW h \in Jobs PROVE JobOK(job[h])'
  <2>1. JobOK(job'[h])
    BY Becomes DEF JobsOK
  <2> QED
    BY <1>1, <2>1 DEF JobOK
<1> QED
  BY <1>2, <1>3 DEF JobsOK

LEMMA LettersLen == ASSUME LettersOK PROVE Len(letters) \in Nat
  BY DEF LettersOK

\* The same while the letters stay.
LEMMA JobBecomes ==
  ASSUME JobsOK, LettersOK, NEW g \in Jobs, NEW k, JobOK(k), Become(g, k), UNCHANGED letterVars
  PROVE  JobsOK'
<1>1. Len(letters') = Len(letters) /\ Len(letters) \in Nat
  BY LettersLen DEF letterVars
<1> QED
  BY <1>1, OneBecomes

LEMMA BelowIds == ASSUME NEW S PROVE Below(S) \subseteq Ids
  BY DEF Below

LEMMA InitTypes == ASSUME Init PROVE Types
<1> USE DEF Init
<1>1. Blank \in Contents
  BY GraphSyncAssumption DEF Blank
<1>2. RowsOK
  BY <1>1 DEF RowsOK, Parents
<1>3. LettersOK
  BY DEF LettersOK
<1>4. GraphOK
  BY <1>1 DEF GraphOK
<1>5. JobsOK
  BY IdleIs DEF JobsOK, JobOK
<1>6. CountsOK
  BY GraphSyncAssumption DEF CountsOK
<1> QED
  BY <1>2, <1>3, <1>4, <1>5, <1>6, TypesParts

\* The job a request starts.
LEMMA RequestedTypes ==
  ASSUME Types, NEW g \in Jobs, NEW j, JobOK(j), Free(g), Requested(g, j), RowsOK'
  PROVE  Types'
<1>1. RowsOK /\ LettersOK /\ GraphOK /\ JobsOK /\ CountsOK
  BY TypesParts
<1>2. UNCHANGED <<letterVars, graphVars>> /\ Become(g, j)
  BY DEF Requested
<1>3. CountsOK'
  BY <1>1, GraphSyncAssumption DEF Free, Requested, CountsOK
<1>4. LettersOK' /\ GraphOK'
  BY <1>1, <1>2, LettersKept, GraphKept
<1>5. JobsOK'
  BY <1>1, <1>2, JobBecomes
<1> QED
  BY <1>3, <1>4, <1>5, TypesParts

\* A new or changed job with a plan that suits it ...
LEMMA NewPlan ==
  ASSUME NEW i \in Job, i.op # "idle",
         i.todo \subseteq (IF i.op = "delete" THEN Ids
                          ELSE IF i.op = "replay" THEN 1..Len(letters) ELSE {}),
         NEW p \in Plans(i)
  PROVE  LET j == [i EXCEPT !.plan = p]
         IN JobOK(j) /\ Kept(i, j) /\ j.kind = i.kind /\ j.plan = p
<1> DEFINE j == [i EXCEPT !.plan = p]
<1>1. p \in Seq(Calls)
  BY PlansAre
<1>2. j \in Job /\ Kept(i, j) /\ j.kind = i.kind /\ j.plan = p
  BY <1>1, Planned
<1> HIDE DEF j
<1>3. Plans(i) = Plans(j)
  BY <1>2, CallsKept DEF Kept
<1>4. JobOK(j)
  BY <1>2, <1>3 DEF JobOK, Kept
<1> QED
  BY <1>2, <1>4 DEF j

\* ... and one that is yet to read a node, to commit, or to take up its first task.
LEMMA NewJob ==
  ASSUME NEW i \in Job, i.op # "idle",
         i.todo \subseteq (IF i.op = "delete" THEN Ids
                          ELSE IF i.op = "replay" THEN 1..Len(letters) ELSE {}),
         NEW call \in {"load", "commit", "next", "detach"}, call = "load" => i.id \in Ids /\ i.op \in {"create", "update", "replay"} /\ i.kind \in {"create", "update", "move"},
         call = "detach" => i.id \in Ids /\ i.kind \in Deletes
  PROVE  LET j == [i EXCEPT !.plan = <<call>>]
         IN JobOK(j) /\ Kept(i, j) /\ j.kind = i.kind /\ j.plan = <<call>> /\ Due(j) = call
<1> DEFINE p == <<call>>
           j == [i EXCEPT !.plan = p]
<1>1. call \in Calls /\ CallOK(i, call)
  BY DEF Calls, CallOK, CallsOf, Deletes, GraphCalls
<1>2. p \in Plans(i) /\ p # <<>> /\ Head(p) = call
  BY <1>1, OneCall
<1> HIDE DEF p
<1>3. JobOK(j) /\ Kept(i, j) /\ j.kind = i.kind /\ j.plan = p
  BY <1>2, NewPlan
<1> HIDE DEF j
<1>4. Due(j) = call
  BY <1>2, <1>3 DEF Due
<1> QED
  BY <1>3, <1>4 DEF j, p

\* The jobs that requests start.
Started(op, n) == [Idle EXCEPT !.op = op, !.kind = op, !.id = n, !.plan = <<"load">>]
MoveOf(n, from, to) == [Idle EXCEPT !.op = "move", !.kind = "move", !.id = n,
                                    !.from = from, !.to = to, !.plan = <<"commit">>]
DeletionOf(S) == [Idle EXCEPT !.op = "delete", !.roots = S, !.todo = Below(S), !.plan = <<"commit">>]

LEMMA StartedIs ==
  ASSUME NEW op \in {"create", "update"}, NEW n \in Ids
  PROVE  LET j == Started(op, n)
         IN JobOK(j) /\ j.op = op /\ j.kind = op /\ j.id = n /\ j.todo = {} /\ j.plan = <<"load">>
            /\ Due(j) = "load"
<1> DEFINE i == [Idle EXCEPT !.op = op, !.kind = op, !.id = n]
           j == [i EXCEPT !.plan = <<"load">>]
<1>1. i \in Job /\ i.op = op /\ i.kind = op /\ i.id = n /\ i.todo = {}
  BY IdleIs DEF Job, Idle, Kinds
<1>2. Started(op, n) = j
  BY DEF Started
<1> HIDE DEF i
<1>3. JobOK(j) /\ Kept(i, j) /\ j.kind = i.kind /\ j.plan = <<"load">> /\ Due(j) = "load"
  BY <1>1, NewJob
<1> HIDE DEF j
<1> QED
  BY <1>1, <1>2, <1>3 DEF Kept

LEMMA MoveOfIs ==
  ASSUME NEW n \in Ids, NEW from \in Parents, NEW to \in Parents
  PROVE  LET j == MoveOf(n, from, to)
         IN JobOK(j) /\ j.op = "move" /\ j.kind = "move" /\ j.id = n /\ j.todo = {}
            /\ j.from = from /\ j.to = to /\ j.plan = <<"commit">> /\ Due(j) = "commit"
<1> DEFINE i == [Idle EXCEPT !.op = "move", !.kind = "move", !.id = n, !.from = from, !.to = to]
           j == [i EXCEPT !.plan = <<"commit">>]
<1>1. i \in Job /\ i.op = "move" /\ i.kind = "move" /\ i.id = n /\ i.from = from /\ i.to = to
      /\ i.todo = {}
  BY IdleIs DEF Job, Idle, Kinds
<1>2. MoveOf(n, from, to) = j
  BY DEF MoveOf
<1> HIDE DEF i
<1>3. JobOK(j) /\ Kept(i, j) /\ j.kind = i.kind /\ j.plan = <<"commit">> /\ Due(j) = "commit"
  BY <1>1, NewJob
<1> HIDE DEF j
<1> QED
  BY <1>1, <1>2, <1>3 DEF Kept

LEMMA DeletionOfIs ==
  ASSUME NEW S \in SUBSET Ids
  PROVE  LET j == DeletionOf(S)
         IN JobOK(j) /\ j.op = "delete" /\ j.kind = "update" /\ j.id = NoNode /\ j.todo = Below(S)
            /\ j.roots = S /\ j.plan = <<"commit">> /\ Due(j) = "commit"
<1> DEFINE i == [Idle EXCEPT !.op = "delete", !.roots = S, !.todo = Below(S)]
           j == [i EXCEPT !.plan = <<"commit">>]
<1>1. i \in Job /\ i.op = "delete" /\ i.kind = "update" /\ i.id = NoNode /\ i.roots = S
      /\ i.todo = Below(S) /\ Below(S) \subseteq Ids
  BY IdleIs, BelowIds DEF Job, Idle
<1>2. DeletionOf(S) = j
  BY DEF DeletionOf
<1> HIDE DEF i
<1>3. JobOK(j) /\ Kept(i, j) /\ j.kind = i.kind /\ j.plan = <<"commit">> /\ Due(j) = "commit"
  BY <1>1, NewJob
<1> HIDE DEF j
<1> QED
  BY <1>1, <1>2, <1>3 DEF Kept
LEMMA CreateTypes ==
  ASSUME Types, NEW g \in Jobs, NEW n \in Ids, NEW p \in Parents, NEW c \in Contents,
         Create(g, n, p, c)
  PROVE  Types'
<1>1. Requested(g, Started("create", n)) /\ Free(g)
  BY DEF Create, Started
<1>2. JobOK(Started("create", n))
  BY StartedIs
<1>3. RowsOK'
  BY TypesParts DEF Create, RowsOK
<1> QED
  BY <1>1, <1>2, <1>3, RequestedTypes

LEMMA UpdateTypes ==
  ASSUME Types, NEW g \in Jobs, NEW n \in Ids, NEW c \in Contents, Update(g, n, c)
  PROVE  Types'
<1>1. Requested(g, Started("update", n)) /\ Free(g)
  BY DEF Update, Started
<1>2. JobOK(Started("update", n))
  BY StartedIs
<1>3. RowsOK'
  BY TypesParts DEF Update, RowsOK
<1> QED
  BY <1>1, <1>2, <1>3, RequestedTypes

LEMMA MoveReadsTypes ==
  ASSUME Types, NEW g \in Jobs, NEW n \in Ids, NEW p \in Parents, MoveReads(g, n, p)
  PROVE  Types'
<1>1. Requested(g, MoveOf(n, parent[n], p)) /\ Free(g) /\ UNCHANGED pgVars
  BY DEF MoveReads, MoveOf
<1>2. parent[n] \in Parents
  BY TypesParts DEF RowsOK
<1>3. JobOK(MoveOf(n, parent[n], p))
  BY <1>2, MoveOfIs
<1> QED
  BY <1>1, <1>3, TypesParts, RowsKept, RequestedTypes

LEMMA DeleteReadsTypes ==
  ASSUME Types, NEW g \in Jobs, NEW S \in SUBSET Ids, DeleteReads(g, S)
  PROVE  Types'
<1>1. Requested(g, DeletionOf(S)) /\ Free(g) /\ UNCHANGED pgVars
  BY DEF DeleteReads, DeletionOf
<1>2. JobOK(DeletionOf(S))
  BY DeletionOfIs
<1> QED
  BY <1>1, <1>2, TypesParts, RowsKept, RequestedTypes

\* The id of a job that is past its commit, or of one that has none.
LEMMA JobIs ==
  ASSUME Types, NEW g \in Jobs, NEW call, At(g, call)
  PROVE  /\ JobOK(job[g]) /\ job[g] \in Job /\ job[g].op # "idle" /\ Due(job[g]) = call
         /\ job[g].plan # <<>> /\ Head(job[g].plan) = call /\ CallOK(job[g], call)
         /\ call \notin {"next", "commit"} => job[g].id \in Ids
<1>1. JobOK(job[g]) /\ job[g] \in Job /\ job[g].plan # <<>> /\ Head(job[g].plan) = call
  BY DEF Types, JobOK, At
<1>2. Head(job[g].plan) \in CallsFor(job[g])
  BY <1>1, PlansAre DEF JobOK
<1>3. job[g].op # "idle"
  BY <1>1, IdleIs DEF JobOK
<1> QED
  BY <1>1, <1>2, <1>3 DEF Due, CallsFor, CallOK

\* A step of a job that changes nothing else, or only the letters and the graph.
LEMMA JobStepTypes ==
  ASSUME Types, NEW g \in Jobs, NEW k, JobOK(k), Become(g, k),
         RowsOK', GraphOK', CountsOK', UNCHANGED letterVars
  PROVE  Types'
  BY TypesParts, LettersKept, JobBecomes

LEMMA MoveCommitsTypes ==
  ASSUME Types, NEW g \in Jobs, MoveCommits(g)
  PROVE  Types'
<1> DEFINE j == job[g]
<1>1. At(g, "commit") /\ j.op = "move" /\ UNCHANGED <<letterVars, graphVars, countVars>>
      /\ UNCHANGED <<live, unused, content>>
  BY DEF MoveCommits
<1>2. JobOK(j) /\ j \in Job /\ j.op # "idle"
  BY <1>1, JobIs
<1>3. RowsOK'
  BY <1>1, <1>2, TypesParts, JobFields DEF MoveCommits, RowsOK
<1>4. GraphOK' /\ CountsOK'
  BY <1>1, TypesParts, GraphKept, CountsKept
<1>5. ASSUME j.id \in live PROVE JobOK([j EXCEPT !.plan = Plan(j)])
  <2>1. j.id \in Ids /\ j.kind \in Kinds
    BY <1>2, <1>5, TypesParts, JobFields DEF RowsOK
  <2> QED
    BY <1>2, <2>1, PlanTyped, OKPlanned DEF Plans
<1>6. \/ Become(g, Idle)
      \/ j.id \in live /\ Become(g, [j EXCEPT !.plan = Plan(j)])
  BY DEF MoveCommits
<1> QED
  BY <1>1, <1>3, <1>4, <1>5, <1>6, IdleIs, JobStepTypes

LEMMA DeleteCommitsTypes ==
  ASSUME Types, NEW g \in Jobs, NEW queued \in BOOLEAN, DeleteCommits(g, queued), CountsOK'
  PROVE  Types'
<1> DEFINE j == job[g]
<1>1. At(g, "commit") /\ j.op = "delete" /\ UNCHANGED <<letterVars, graphVars>>
  BY DEF DeleteCommits
<1>2. JobOK(j) /\ j.op # "idle"
  BY <1>1, JobIs
<1>3. JobOK([j EXCEPT !.plan = <<"next">>])
  <2>1. "next" \in Calls /\ CallOK(j, "next")
    BY DEF Calls, CallOK, GraphCalls
  <2> HIDE DEF j
  <2> QED
    BY <1>2, <2>1, NewCall
<1>4. RowsOK'
  BY TypesParts DEF DeleteCommits, RowsOK
<1>5. GraphOK'
  BY <1>1, TypesParts, GraphKept
<1>6. Become(g, Idle) \/ Become(g, [j EXCEPT !.plan = <<"next">>])
  BY DEF DeleteCommits
<1> QED
  BY <1>1, <1>3, <1>4, <1>5, <1>6, IdleIs, JobStepTypes

LEMMA BatchMoveTypes ==
  ASSUME Types, NEW S \in SUBSET Ids, NEW p \in Parents, BatchMove(S, p)
  PROVE  Types'
<1>1. RowsOK'
  BY TypesParts DEF BatchMove, RowsOK
<1>2. LettersOK' /\ GraphOK'
  BY TypesParts, LettersKept, GraphKept DEF BatchMove
<1>3. JobsOK'
  BY TypesParts DEF BatchMove, JobsOK, JobOK, letterVars
<1>4. CountsOK'
  BY TypesParts, GraphSyncAssumption DEF BatchMove, CountsOK
<1> QED
  BY <1>1, <1>2, <1>3, <1>4, TypesParts
\* The job of a replay that starts, of a deletion that takes up an id, of a replay
\* that takes up a letter, and of a task that has read its node.
LEMMA ReplayIs ==
  ASSUME Types
  PROVE  LET j == [Idle EXCEPT !.op = "replay", !.todo = pending, !.plan = <<"next">>]
         IN /\ JobOK(j) /\ j.op = "replay" /\ Due(j) = "next" /\ j.kind = "update"
            /\ j.id = NoNode /\ j.todo = pending
<1> DEFINE i == [Idle EXCEPT !.op = "replay", !.todo = pending]
           j == [i EXCEPT !.plan = <<"next">>]
<1>1. pending \subseteq 1..Len(letters) /\ pending \subseteq Nat
  BY TypesParts, LettersLen DEF LettersOK
<1>2. i \in Job /\ i.op = "replay" /\ i.kind = "update" /\ i.id = NoNode /\ i.todo = pending
  BY <1>1, IdleIs DEF JobOK, Job, Idle
<1> HIDE DEF i
<1>3. JobOK(j) /\ Kept(i, j) /\ j.kind = i.kind /\ Due(j) = "next"
  BY <1>1, <1>2, NewJob
<1>4. /\ JobOK(j) /\ j.op = "replay" /\ Due(j) = "next" /\ j.kind = "update"
      /\ j.id = NoNode /\ j.todo = pending
  BY <1>2, <1>3 DEF Kept
<1> QED
  BY <1>4 DEF i

Taken(j, n) == [j EXCEPT !.todo = @ \ {n}, !.id = n, !.kind = "delDoc",
                         !.attempt = 1, !.plan = <<"detach">>]

LEMMA NextDeleteIs ==
  ASSUME NEW j, JobOK(j), j.op = "delete", NEW n \in j.todo
  PROVE  LET k == Taken(j, n)
         IN /\ JobOK(k) /\ k.op = "delete" /\ k.kind = "delDoc" /\ k.id = n /\ n \in Ids
            /\ k.todo = j.todo \ {n} /\ k.plan = <<"detach">> /\ Due(k) = "detach"
<1> DEFINE i == [j EXCEPT !.todo = @ \ {n}, !.id = n, !.kind = "delDoc", !.attempt = 1]
           k == [i EXCEPT !.plan = <<"detach">>]
<1>1. n \in Ids /\ j \in Job /\ j.todo \subseteq Ids /\ 1 \in 1..MaxAttempts
  BY GraphSyncAssumption DEF JobOK
<1>2. i \in Job /\ i.op = "delete" /\ i.kind = "delDoc" /\ i.id = n /\ i.todo = j.todo \ {n}
  BY <1>1 DEF Job, Kinds
<1>3. Taken(j, n) = k
  BY DEF Taken
<1> HIDE DEF i
<1>4. JobOK(k) /\ Kept(i, k) /\ k.kind = i.kind /\ k.plan = <<"detach">> /\ Due(k) = "detach"
  BY <1>1, <1>2, NewJob DEF Deletes
<1> HIDE DEF k
<1> QED
  BY <1>1, <1>2, <1>3, <1>4 DEF Kept

LEMMA NextLetterIs ==
  ASSUME Types, NEW g \in Jobs, NEW k \in job[g].todo, NextLetter(g, k)
  PROVE  \E j : /\ Become(g, j) /\ JobOK(j) /\ j.op = "replay" /\ j.letter = k
                /\ k \in 1..Len(letters) /\ letters[k] \in Letter
                /\ j.id = letters[k].id /\ j.kind = letters[k].kind
                /\ j.to = letters[k].to /\ j.from = letters[k].from
                /\ j.plan = Plan(j) \/ j.plan = <<"load">>
                /\ j.kind \in {"create", "update"} => j.plan = <<"load">>
<1> DEFINE x == letters[k]
           i == [job[g] EXCEPT !.todo = @ \ {k}, !.letter = k, !.attempt = 1,
                               !.kind = x.kind, !.id = x.id, !.from = x.from, !.to = x.to]
           j == [i EXCEPT !.plan = Start(i)]
<1>1. job[g].op = "replay" /\ At(g, "next") /\ Become(g, j)
  BY DEF NextLetter
<1>2. JobOK(job[g])
  BY DEF Types
<1>3. k \in 1..Len(letters) /\ letters \in Seq(Letter) /\ job[g] \in Job
      /\ job[g].todo \subseteq 1..Len(letters)
  BY <1>1, <1>2, TypesParts DEF LettersOK, JobOK
<1>4. x \in Letter
  BY <1>3, ElementOfSeq
<1>5. /\ x.kind \in Kinds /\ x.id \in Ids /\ x.from \in Parents /\ x.to \in Parents
      /\ 1 \in 1..MaxAttempts /\ k \in Nat
  BY <1>3, <1>4, LettersLen, TypesParts, GraphSyncAssumption DEF Letter
<1> HIDE DEF x
<1>6. /\ i \in Job /\ i.op = "replay" /\ i.letter = k /\ i.id = x.id /\ i.kind = x.kind
      /\ i.to = x.to /\ i.from = x.from /\ i.todo \subseteq 1..Len(letters)
  BY <1>1, <1>3, <1>5 DEF Job
<1> HIDE DEF i
<1>7. /\ Start(i) \in Plans(i) /\ (Start(i) = Plan(i) \/ Start(i) = <<"load">>)
      /\ i.kind \in {"create", "update"} => Start(i) = <<"load">>
  BY <1>5, <1>6, StartIs
<1>8. JobOK(j) /\ Kept(i, j) /\ j.kind = i.kind /\ j.plan = Start(i)
  <2> DEFINE p == Start(i)
  <2>1. p \in Plans(i) /\ i.op # "idle" /\ i.op # "delete"
    BY <1>6, <1>7
  <2> HIDE DEF p
  <2>2. LET k2 == [i EXCEPT !.plan = p]
        IN JobOK(k2) /\ Kept(i, k2) /\ k2.kind = i.kind /\ k2.plan = p
    BY <1>6, <2>1, NewPlan
  <2> QED
    BY <2>2 DEF p
<1> HIDE DEF j
<1>9. Plan(i) = Plan(j)
  BY <1>8 DEF Plan, PlanWith, Kept
<1> QED
  BY <1>1, <1>3, <1>4, <1>6, <1>7, <1>8, <1>9 DEF Kept, x

LEMMA LoadIs ==
  ASSUME Types, NEW j, JobOK(j), j.op # "idle", j.id \in live
  PROVE  LET n == [j EXCEPT !.text = content[j.id],
                            !.to = IF j.kind \in {"create", "move"} THEN parent[j.id] ELSE j.to]
             k == [n EXCEPT !.plan = Plan(n)]
         IN /\ JobOK(k) /\ k.op = j.op /\ k.id = j.id /\ k.kind = j.kind /\ k.from = j.from
            /\ k.roots = j.roots /\ k.todo = j.todo /\ k.letter = j.letter
            /\ k.text = content[j.id] /\ k.plan = Plan(k)
            /\ k.to = (IF j.kind \in {"create", "move"} THEN parent[j.id] ELSE j.to)
<1> DEFINE n == [j EXCEPT !.text = content[j.id],
                          !.to = IF j.kind \in {"create", "move"} THEN parent[j.id] ELSE j.to]
           k == [n EXCEPT !.plan = Plan(n)]
<1>1. j \in Job /\ j.id \in Ids /\ content[j.id] \in Contents /\ parent[j.id] \in Parents
  BY TypesParts DEF RowsOK, JobOK
<1>2. /\ n \in Job /\ n.op = j.op /\ n.id = j.id /\ n.kind = j.kind /\ n.from = j.from
      /\ n.roots = j.roots /\ n.todo = j.todo /\ n.letter = j.letter
      /\ n.text = content[j.id]
      /\ n.to = (IF j.kind \in {"create", "move"} THEN parent[j.id] ELSE j.to)
  BY <1>1 DEF Job
<1> HIDE DEF n
<1>3. Plan(n) \in Plans(n)
  BY <1>1, <1>2, JobFields, PlanTyped DEF Plans
<1>4. n.todo \subseteq (IF n.op = "delete" THEN Ids
                        ELSE IF n.op = "replay" THEN 1..Len(letters) ELSE {})
  BY <1>2 DEF JobOK
<1>5. JobOK(k) /\ Kept(n, k) /\ k.kind = n.kind /\ k.plan = Plan(n)
  BY <1>2, <1>3, <1>4, NewPlan
<1> HIDE DEF k
<1>6. Plan(n) = Plan(k)
  BY <1>5 DEF Plan, PlanWith, Kept
<1>7. /\ JobOK(k) /\ k.op = j.op /\ k.id = j.id /\ k.kind = j.kind /\ k.from = j.from
      /\ k.roots = j.roots /\ k.todo = j.todo /\ k.letter = j.letter
      /\ k.text = content[j.id] /\ k.plan = Plan(k)
      /\ k.to = (IF j.kind \in {"create", "move"} THEN parent[j.id] ELSE j.to)
  BY <1>2, <1>5, <1>6 DEF Kept
<1> QED
  BY <1>7 DEF k, n
\* A call to the graph keeps the graph's types.
LEMMA EffectTypes ==
  ASSUME GraphOK, NEW j \in Job, j.id \in Ids, NEW call, call = "relate" => j.id \in Docs,
         Effect(j, call)
  PROVE  GraphOK'
<1> USE DEF GraphOK
<1> j.text \in Contents /\ Blank \in Contents
  BY JobFields, GraphSyncAssumption DEF Blank
<1>1. CASE UNCHANGED graphVars
  BY <1>1 DEF graphVars
<1>2. CASE call = "create" /\ gnodes' = gnodes \cup {j.id} /\ Write(j)
  BY <1>2 DEF Write
<1>3. CASE call = "set" /\ UNCHANGED gnodes /\ Write(j)
  BY <1>3 DEF Write
<1>4. CASE Detach(j)
  <2>1. contains' \in [Folders -> [Ids -> Nat]]
    BY <1>4 DEF Detach
  <2>2. gnodes' \subseteq Ids /\ gcontent' \in [Ids -> Contents]
    BY <1>4 DEF Detach
  <2>3. related' \subseteq related
    BY <1>4 DEF Detach
  <2> QED
    BY <2>1, <2>2, <2>3
<1>5. ASSUME NEW f, NEW count \in Nat, Contain(f, j.id, count) PROVE GraphOK'
  <2>1. contains' = [contains EXCEPT ![f][j.id] = count] /\ UNCHANGED <<gnodes, gcontent, related>>
    BY <1>5 DEF Contain
  <2>2. contains' \in [Folders -> [Ids -> Nat]]
    BY <2>1
  <2> QED
    BY <2>1, <2>2
<1>6. CASE Contain(j.from, j.id, 0)
  BY <1>5, <1>6
<1>7. CASE Matches(j, call) /\ call = "contain" /\ Contain(j.to, j.id, contains[j.to][j.id] + 1)
  <2>1. j.to \in gnodes /\ j.to \in Parents
    BY <1>7, JobFields DEF Matches
  <2>2. j.to \in Folders
    BY <2>1, GraphSyncAssumption DEF Parents
  <2>3. contains[j.to][j.id] + 1 \in Nat
    BY <2>2
  <2> QED
    BY <1>5, <1>7, <2>3
<1>8. CASE Relate(Unrelated(j.id))
  BY <1>8 DEF Relate, Unrelated
<1>9. CASE call = "relate" /\ Relate(related \cup Similar(j.id))
  <2>1. \A x \in Similar(j.id) : \E m, n \in Docs : m # n /\ x = {m, n}
    BY <1>9 DEF Similar
  <2> QED
    BY <1>9, <2>1 DEF Relate
<1> QED
  BY <1>1, <1>2, <1>3, <1>4, <1>6, <1>7, <1>8, <1>9 DEF Effect

\* A job that is about to call the graph.
LEMMA CallIs ==
  ASSUME Types, NEW g \in Jobs, job[g].plan # <<>>, Head(job[g].plan) \in GraphCalls
  PROVE  /\ JobOK(job[g]) /\ job[g] \in Job /\ job[g].op # "idle" /\ job[g].id \in Ids
         /\ Due(job[g]) = Head(job[g].plan) /\ CallOK(job[g], Due(job[g]))
         /\ Due(job[g]) = "relate" => job[g].id \in Docs
<1>1. At(g, Head(job[g].plan))
  BY DEF At
<1>2. /\ JobOK(job[g]) /\ job[g] \in Job /\ job[g].op # "idle"
      /\ Due(job[g]) = Head(job[g].plan) /\ CallOK(job[g], Head(job[g].plan))
      /\ job[g].id \in Ids
  BY <1>1, JobIs DEF GraphCalls
<1> QED
  BY <1>2 DEF CallOK, GraphCalls

LEMMA CallGraphTypes ==
  ASSUME Types, NEW g \in Jobs, CallGraph(g)
  PROVE  Types'
<1> DEFINE j == job[g]
<1>1. j.plan # <<>> /\ Head(j.plan) \in GraphCalls /\ UNCHANGED <<pgVars, letterVars, countVars>>
  BY DEF CallGraph
<1>2. RowsOK' /\ CountsOK'
  BY <1>1, TypesParts, RowsKept, CountsKept
<1>3. GraphOK'
  BY <1>1, CallIs, TypesParts, GraphKept, EffectTypes DEF CallGraph
<1>4. Become(g, Retried(j)) \/ Become(g, Done(j))
  BY DEF CallGraph
<1>5. JobOK(Retried(j)) /\ JobOK(Done(j))
  BY <1>1, CallIs, RetriedIs, DoneIs
<1> QED
  BY <1>1, <1>2, <1>3, <1>4, <1>5, JobStepTypes

LEMMA GraphFailsTypes ==
  ASSUME Types, NEW g \in Jobs, GraphFails(g)
  PROVE  Types'
<1> DEFINE j == job[g]
<1>1. j.plan # <<>> /\ Head(j.plan) \in GraphCalls /\ UNCHANGED <<pgVars, letterVars>>
      /\ Become(g, Retried(j))
  BY DEF GraphFails
<1>2. RowsOK'
  BY <1>1, TypesParts, RowsKept
<1>3. CountsOK'
  BY TypesParts, GraphSyncAssumption DEF GraphFails, CountsOK
<1>4. GraphOK'
  BY <1>1, CallIs, TypesParts, GraphKept, EffectTypes DEF GraphFails
<1>5. JobOK(Retried(j))
  BY <1>1, CallIs, RetriedIs
<1> QED
  BY <1>1, <1>2, <1>3, <1>4, <1>5, JobStepTypes

LEMMA LoadTypes ==
  ASSUME Types, NEW g \in Jobs, Load(g)
  PROVE  Types'
<1> DEFINE j == job[g]
           n == [j EXCEPT !.text = content[j.id],
                          !.to = IF j.kind \in {"create", "move"} THEN parent[j.id] ELSE j.to]
<1>1. At(g, "load") /\ UNCHANGED <<pgVars, letterVars, graphVars, countVars>>
      /\ Become(g, IF j.id \in live THEN [n EXCEPT !.plan = Plan(n)]
                   ELSE IF j.op = "replay" THEN Retried(j) ELSE Idle)
  BY DEF Load
<1>2. JobOK(j) /\ j.op # "idle" /\ j.id \in Ids
  BY <1>1, JobIs
<1>3. j.id \in live => JobOK([n EXCEPT !.plan = Plan(n)])
  BY <1>2, LoadIs
<1>4. JobOK(Retried(j)) /\ JobOK(Idle)
  BY <1>2, RetriedIs, IdleIs
<1>5. RowsOK' /\ CountsOK' /\ GraphOK'
  BY <1>1, TypesParts, RowsKept, CountsKept, GraphKept
<1> HIDE DEF n
<1> QED
  BY <1>1, <1>3, <1>4, <1>5, JobStepTypes

LEMMA NextDeleteTypes ==
  ASSUME Types, NEW g \in Jobs, NEW n \in job[g].todo, NextDelete(g, n)
  PROVE  Types'
<1>1. JobOK(job[g]) /\ job[g].op = "delete" /\ UNCHANGED <<pgVars, letterVars, graphVars, countVars>>
  BY DEF NextDelete, Types
<1>2. RowsOK' /\ CountsOK' /\ GraphOK'
  BY <1>1, TypesParts, RowsKept, CountsKept, GraphKept
<1>3. Become(g, Taken(job[g], n))
  BY DEF NextDelete, Taken
<1>4. JobOK(Taken(job[g], n))
  BY <1>1, NextDeleteIs
<1> QED
  BY <1>1, <1>2, <1>3, <1>4, JobStepTypes

LEMMA NextLetterTypes ==
  ASSUME Types, NEW g \in Jobs, NEW k \in job[g].todo, NextLetter(g, k)
  PROVE  Types'
<1>1. UNCHANGED <<pgVars, letterVars, graphVars, countVars>>
  BY DEF NextLetter
<1>2. RowsOK' /\ CountsOK' /\ GraphOK'
  BY <1>1, TypesParts, RowsKept, CountsKept, GraphKept
<1>3. PICK j : Become(g, j) /\ JobOK(j)
  BY NextLetterIs
<1> QED
  BY <1>1, <1>2, <1>3, JobStepTypes

LEMMA ReplayTypes ==
  ASSUME Types, NEW g \in Jobs, Replay(g)
  PROVE  Types'
<1>1. UNCHANGED <<pgVars, letterVars, graphVars>>
  BY DEF Replay
<1>2. RowsOK' /\ GraphOK'
  BY <1>1, TypesParts, RowsKept, GraphKept
<1>3. CountsOK'
  BY TypesParts, GraphSyncAssumption DEF Replay, CountsOK
<1> QED
  BY <1>1, <1>2, <1>3, ReplayIs, JobStepTypes DEF Replay
\* A letter is put behind those there are.
LEMMA Appended ==
  ASSUME LettersOK, NEW x \in Letter, letters' = Append(letters, x)
  PROVE  /\ letters' \in Seq(Letter) /\ Len(letters) \in Nat /\ Len(letters') = Len(letters) + 1
         /\ letters'[Len(letters) + 1] = x
         /\ \A k \in 1..Len(letters) : letters'[k] = letters[k]
  BY AppendProperties, LenProperties DEF LettersOK

LEMMA LetterIs ==
  ASSUME Types, NEW g \in Jobs, WriteLetter(g)
  PROVE  LET j == job[g]
         IN /\ JobOK(j) /\ j.op # "idle" /\ j.id \in Ids /\ Due(j) = "letter"
            /\ letters' \in Seq(Letter) /\ Len(letters) \in Nat /\ Len(letters') = Len(letters) + 1
            /\ letters'[Len(letters) + 1].kind = j.kind /\ letters'[Len(letters) + 1].id = j.id
            /\ \A k \in 1..Len(letters) : letters'[k] = letters[k]
            /\ pending' = pending \cup {Len(letters) + 1}
<1> DEFINE j == job[g]
           x == [kind |-> j.kind, id |-> j.id, from |-> IF j.kind = "move" THEN j.from ELSE Top,
                 to |-> IF j.kind = "move" THEN j.to ELSE Top]
<1>1. At(g, "letter") /\ letters' = Append(letters, x) /\ pending' = pending \cup {Len(letters) + 1}
  BY DEF WriteLetter
<1>2. JobOK(j) /\ j.op # "idle" /\ j.id \in Ids /\ Due(j) = "letter" /\ j \in Job
  BY <1>1, JobIs
<1>3. x \in Letter
  BY <1>2, JobFields DEF Letter, Parents
<1>4. x.kind = j.kind /\ x.id = j.id
  OBVIOUS
<1> HIDE DEF x
<1> QED
  BY <1>1, <1>2, <1>3, <1>4, Appended, TypesParts

LEMMA WriteLetterTypes ==
  ASSUME Types, NEW g \in Jobs, WriteLetter(g)
  PROVE  Types'
<1>1. UNCHANGED <<pgVars, graphVars, countVars>> /\ Become(g, Onward(job[g]))
  BY DEF WriteLetter
<1>2. RowsOK' /\ CountsOK' /\ GraphOK'
  BY <1>1, TypesParts, RowsKept, CountsKept, GraphKept
<1>3. LettersOK'
  BY LetterIs, TypesParts DEF LettersOK
<1>4. JobOK(Onward(job[g]))
  BY LetterIs, OnwardIs
<1>5. Len(letters') \in Nat /\ Len(letters') >= Len(letters)
  BY LetterIs
<1>6. JobsOK'
  BY <1>1, <1>4, <1>5, LetterIs, TypesParts, OneBecomes
<1> QED
  BY <1>2, <1>3, <1>6, TypesParts

LEMMA MarkResolvedTypes ==
  ASSUME Types, NEW g \in Jobs, MarkResolved(g)
  PROVE  Types'
<1>1. UNCHANGED <<pgVars, graphVars, countVars>> /\ Become(g, Onward(job[g])) /\ At(g, "resolve")
  BY DEF MarkResolved
<1>2. RowsOK' /\ CountsOK' /\ GraphOK'
  BY <1>1, TypesParts, RowsKept, CountsKept, GraphKept
<1>3. LettersOK' /\ Len(letters') = Len(letters)
  BY TypesParts DEF MarkResolved, LettersOK
<1>4. JobOK(Onward(job[g]))
  BY <1>1, JobIs, OnwardIs
<1>5. JobsOK'
  BY <1>1, <1>3, <1>4, TypesParts, LettersLen, OneBecomes
<1> QED
  BY <1>2, <1>3, <1>5, TypesParts

LEMMA StoreFailsTypes ==
  ASSUME Types, NEW g \in Jobs, StoreFails(g)
  PROVE  Types'
<1> DEFINE j == job[g]
<1>1. UNCHANGED <<pgVars, letterVars, graphVars>>
  BY DEF StoreFails
<1>2. RowsOK' /\ GraphOK'
  BY <1>1, TypesParts, RowsKept, GraphKept
<1>3. CountsOK'
  BY TypesParts, GraphSyncAssumption DEF StoreFails, CountsOK
<1>4. JobOK(Idle)
  BY IdleIs
<1>5. CASE At(g, "load") /\ Become(g, IF j.op = "replay" THEN Retried(j) ELSE Idle)
  <2>1. JobOK(Retried(j))
    BY <1>5, JobIs, RetriedIs
  <2> QED
    BY <1>1, <1>2, <1>3, <1>4, <1>5, <2>1, JobStepTypes
<1>6. CASE (At(g, "letter") \/ At(g, "resolve")) /\ Become(g, Onward(j))
  <2>1. JobOK(Onward(j))
    BY <1>6, JobIs, OnwardIs
  <2> QED
    BY <1>1, <1>2, <1>3, <1>6, <2>1, JobStepTypes
<1>7. CASE Become(g, Idle)
  BY <1>1, <1>2, <1>3, <1>4, <1>7, JobStepTypes
<1> QED
  BY <1>5, <1>6, <1>7 DEF StoreFails

LEMMA QueueFailsTypes ==
  ASSUME Types, NEW g \in Jobs, QueueFails(g)
  PROVE  Types'
<1>1. CountsOK'
  BY TypesParts, GraphSyncAssumption DEF QueueFails, CountsOK
<1> QED
  BY <1>1, DeleteCommitsTypes DEF QueueFails

LEMMA CrashTypes ==
  ASSUME Types, Crash
  PROVE  Types'
<1>1. UNCHANGED <<pgVars, letterVars, graphVars>>
  BY DEF Crash
<1>2. RowsOK' /\ GraphOK' /\ LettersOK'
  BY <1>1, TypesParts, RowsKept, GraphKept, LettersKept
<1>3. CountsOK'
  BY TypesParts, GraphSyncAssumption DEF Crash, CountsOK
<1>4. JobsOK'
  <2>1. JobOK(Idle) /\ Idle \in Job
    BY IdleIs DEF JobOK
  <2>2. job' = [h \in Jobs |-> Idle]
    BY DEF Crash
  <2> QED
    BY <2>1, <2>2, <1>1 DEF JobsOK, JobOK, letterVars
<1> QED
  BY <1>2, <1>3, <1>4, TypesParts

LEMMA NextTypes ==
  ASSUME Types, [Next]_vars
  PROVE  Types'
<1>1. CASE UNCHANGED vars
  <2>1. UNCHANGED <<pgVars, letterVars, graphVars, job, countVars>>
    BY <1>1 DEF vars
  <2>2. RowsOK' /\ CountsOK' /\ GraphOK' /\ LettersOK'
    BY <2>1, TypesParts, RowsKept, CountsKept, GraphKept, LettersKept
  <2>3. JobsOK'
    BY <2>1, TypesParts DEF JobsOK, JobOK, letterVars
  <2> QED
    BY <2>2, <2>3, TypesParts
<1>2. ASSUME NEW g \in Jobs, Request(g) PROVE Types'
  BY <1>2, CreateTypes, UpdateTypes, MoveReadsTypes, DeleteReadsTypes DEF Request
<1>3. ASSUME NEW g \in Jobs, Progress(g) PROVE Types'
  <2>1. CASE DeleteCommits(g, TRUE) /\ UNCHANGED countVars
    BY <2>1, TypesParts, CountsKept, DeleteCommitsTypes
  <2> QED
    BY <1>3, <2>1, MoveCommitsTypes, LoadTypes, CallGraphTypes, WriteLetterTypes,
       MarkResolvedTypes, NextDeleteTypes, NextLetterTypes DEF Progress
<1>4. ASSUME NEW g \in Jobs, Replay(g) \/ GraphFails(g) \/ StoreFails(g) \/ QueueFails(g) PROVE Types'
  BY <1>4, ReplayTypes, GraphFailsTypes, StoreFailsTypes, QueueFailsTypes
<1>5. CASE \E S \in SUBSET Ids, p \in Parents : BatchMove(S, p)
  BY <1>5, BatchMoveTypes
<1>6. CASE Crash
  BY <1>6, CrashTypes
<1> QED
  BY <1>1, <1>2, <1>3, <1>4, <1>5, <1>6 DEF Next

\* Whatever overlaps, fails or is cut off: plans hold calls that suit their task,
\* what is left of a replay are letters that exist, and two documents are similar,
\* never one with itself.
THEOREM TypeCorrect == Spec => []TypeOK
<1>1. Init => Types
  BY InitTypes
<1>2. Types /\ [Next]_vars => Types'
  BY NextTypes
<1>3. Types => TypeOK
  BY DEF Types
<1> QED
  BY <1>1, <1>2, <1>3, PTL DEF Spec
-----------------------------------------------------------------------------
(* Requests that do not overlap.                                           *)

\* What a call may do to the nodes of the graph: remove what was deleted, add what
\* there is, and write the text that there is.
Sound ==
    \A n \in Ids :
        /\ n \in gnodes /\ n \notin gnodes' => Dead(n)
        /\ n \notin gnodes /\ n \in gnodes' => n \in live /\ gcontent'[n] = content[n]
        /\ n \in gnodes /\ n \in gnodes' => gcontent'[n] \in {gcontent[n], content[n]}

\* What each call does to them.
LEMMA EffectIs ==
  ASSUME GraphOK, NEW j \in Job, j.id \in Ids, NEW call, Effect(j, call)
  PROVE  /\ \A n \in Ids \ {j.id} : (n \in gnodes' <=> n \in gnodes) /\ gcontent'[n] = gcontent[n]
         /\ call = "create" => j.id \in gnodes' /\ gcontent'[j.id] = j.text
         /\ call = "set" => /\ j.id \in gnodes' <=> j.id \in gnodes
                            /\ j.id \in gnodes => gcontent'[j.id] = j.text
         /\ call = "detach" =>
              /\ j.id \in gnodes' => j.id \in gnodes /\ gcontent'[j.id] = gcontent[j.id]
              /\ j.id \in (IF j.kind = "delDoc" THEN Docs ELSE Folders) => j.id \notin gnodes'
         /\ call \notin {"create", "set", "detach"} => gnodes' = gnodes /\ gcontent' = gcontent
<1> USE DEF GraphOK
<1>1. CASE ~Matches(j, call) /\ UNCHANGED graphVars
  <2>1. gnodes' = gnodes /\ gcontent' = gcontent
    BY <1>1 DEF graphVars
  <2>2. call # "create"
    BY <1>1 DEF Matches
  <2>3. /\ call = "set" => j.id \notin gnodes
        /\ call = "detach" /\ j.id \in gnodes => j.id \notin (IF j.kind = "delDoc" THEN Docs ELSE Folders)
    <3> DEFINE D == IF j.kind = "delDoc" THEN Docs ELSE Folders
    <3>1. ~(/\ j.id \in gnodes \/ call = "create"
            /\ call = "detach" => j.id \in D
            /\ call = "contain" => j.to \in gnodes)
      BY <1>1 DEF Matches
    <3> HIDE DEF D
    <3>2. /\ call = "set" => j.id \notin gnodes
          /\ call = "detach" /\ j.id \in gnodes => j.id \notin D
      BY <3>1
    <3> QED
      BY <3>2 DEF D
  <2> QED
    BY <2>1, <2>2, <2>3
<1>2. CASE call = "create" /\ gnodes' = gnodes \cup {j.id} /\ Write(j)
  BY <1>2 DEF Write
<1>3. CASE call = "set" /\ UNCHANGED gnodes /\ Write(j)
  BY <1>3 DEF Write
<1>4. CASE call = "detach" /\ Detach(j)
  BY <1>4 DEF Detach
<1>5. CASE /\ call \in {"leave", "contain", "place", "unrelate", "relate"}
           /\ gnodes' = gnodes /\ gcontent' = gcontent
  BY <1>5
<1> QED
  BY <1>1, <1>2, <1>3, <1>4, <1>5 DEF Effect, Contain, Relate, graphVars

\* A job writes what PostgreSQL has.
LEMMA CallSound ==
  ASSUME GraphOK, NEW j \in Job, JobOK(j), j.op # "idle", j.id \in Ids, TextHolds(j),
         Due(j) \in GraphCalls, CallOK(j, Due(j)),
         UNCHANGED graphVars \/ Effect(j, Due(j))
  PROVE  Sound
<1>1. CASE UNCHANGED graphVars
  BY <1>1 DEF Sound, graphVars
<1>2. CASE Effect(j, Due(j))
  <2> DEFINE c == Due(j)
  <2>1. /\ c = "create" => j.kind = "create"
        /\ c = "set" => j.kind = "update"
        /\ c = "detach" => j.kind \in Deletes
    BY JobFields DEF CallOK, CallsOf, GraphCalls, Kinds, Deletes
  <2>2. /\ j.kind \in {"create", "update"} => j.id \in live /\ j.text = content[j.id]
        /\ j.kind \in Deletes => Dead(j.id)
    BY DEF TextHolds, GraphCalls
  <2> HIDE DEF c
  <2>3. Effect(j, c) /\ c \in GraphCalls
    BY <1>2 DEF c
  <2>4. ASSUME NEW n \in Ids, n # j.id
        PROVE  (n \in gnodes' <=> n \in gnodes) /\ gcontent'[n] = gcontent[n]
    BY <2>3, <2>4, EffectIs
  <2>5. /\ j.id \in gnodes /\ j.id \notin gnodes' => Dead(j.id)
        /\ j.id \notin gnodes /\ j.id \in gnodes' => j.id \in live /\ gcontent'[j.id] = content[j.id]
        /\ j.id \in gnodes /\ j.id \in gnodes' => gcontent'[j.id] \in {gcontent[j.id], content[j.id]}
    <3>1. CASE c = "create"
      BY <2>1, <2>2, <2>3, <3>1, EffectIs
    <3>2. CASE c = "set"
      BY <2>1, <2>2, <2>3, <3>2, EffectIs
    <3>3. CASE c = "detach"
      BY <2>1, <2>2, <2>3, <3>3, EffectIs
    <3>4. CASE c \notin {"create", "set", "detach"}
      BY <2>3, <3>4, EffectIs
    <3> QED
      BY <3>1, <3>2, <3>3, <3>4
  <2> QED
    BY <2>4, <2>5 DEF Sound
<1> QED
  BY <1>1, <1>2

\* The descendants of live nodes are live, and hold the nodes in them; the search
\* finds the same as long as the tree stays.
LEMMA BelowLive ==
  ASSUME RowsOK, NEW S, S \subseteq live
  PROVE  Below(S) \subseteq live
<1>1. live \in SUBSET Ids /\ S \subseteq live /\ \A n \in live : parent[n] \in live => n \in live
  BY DEF RowsOK
<1> QED
  BY <1>1 DEF Below

LEMMA BelowClosed ==
  ASSUME RowsOK, NEW S, NEW n \in live, parent[n] \in Below(S)
  PROVE  n \in Below(S)
<1>1. n \in Ids
  BY DEF RowsOK
<1>2. ASSUME NEW T \in SUBSET Ids, S \subseteq T, \A m \in live : parent[m] \in T => m \in T
      PROVE  n \in T
  <2>1. parent[n] \in T
    BY <1>2 DEF Below
  <2> QED
    BY <1>2, <2>1
<1> QED
  BY <1>1, <1>2 DEF Below

LEMMA BelowSame ==
  ASSUME live' = live, parent' = parent, NEW S
  PROVE  Below(S)' = Below(S)
  BY DEF Below

\* An idle job holds nothing.
LEMMA IdleHolds ==
  /\ ReadsHold(Idle) /\ WritesHold(Idle)
  /\ \A n : ~Deleting(Idle, n)
  BY IdleIs DEF ReadsHold, OpHolds, CommitHolds, LetterHolds, TextHolds, WritesHold, Deleting
\* The other jobs, while a request or its goroutine does a step.
Alone(g) == \A h \in Jobs : h # g => job[h] = Idle

LEMMA SerialParts ==
  ASSUME SerialInv
  PROVE  /\ Types /\ RowsOK /\ LettersOK /\ GraphOK /\ JobsOK /\ OneAtATime /\ IdsUsedOnce /\ ParentsLive
         /\ \A g \in Jobs : /\ JobOK(job[g]) /\ job[g] \in Job
                            /\ OpHolds(job[g]) /\ CommitHolds(job[g]) /\ LetterHolds(job[g])
                            /\ TextHolds(job[g]) /\ ReadsHold(job[g]) /\ WritesHold(job[g])
  BY TypesParts DEF SerialInv, ReadsHold, JobsOK

LEMMA OthersIdle ==
  ASSUME SerialInv, NEW g \in Jobs, job[g].op \notin {"idle", "replay"}
  PROVE  Alone(g)
  BY IdleIs DEF SerialInv, OneAtATime, Alone

LEMMA KeepOne ==
  ASSUME JobsOK, OneAtATime, NEW g \in Jobs, NEW k, Become(g, k), job[g].op # "idle",
         k = Idle \/ k.op = job[g].op
  PROVE  OneAtATime'
  BY Becomes, IdleIs DEF OneAtATime

LEMMA AloneOne ==
  ASSUME JobsOK, NEW g \in Jobs, NEW k, Become(g, k), Alone(g)
  PROVE  OneAtATime'
  BY Becomes DEF OneAtATime, Alone

LEMMA ReadsNext ==
  ASSUME NEW h \in Jobs, NEW k, job'[h] = k, ReadsHold(k), UNCHANGED pgVars,
         letters' = letters \/ k.op # "replay"
  PROVE  ReadsHold(job[h])'
<1>1. live' = live /\ unused' = unused /\ content' = content /\ parent' = parent
  BY DEF pgVars
<1>2. OpHolds(job[h])'
  BY <1>1 DEF ReadsHold, OpHolds, Dead
<1>3. CommitHolds(job[h])'
  <2>1. Below(k.roots)' = Below(k.roots)
    BY <1>1, BelowSame
  <2>2. Below(job[h].roots)' = Below(k.roots)
    BY <1>1 DEF Below
  <2> QED
    BY <1>1, <2>2 DEF ReadsHold, CommitHolds
<1>4. LetterHolds(job[h])' /\ TextHolds(job[h])'
  BY <1>1 DEF ReadsHold, LetterHolds, TextHolds, Dead
<1> QED
  BY <1>2, <1>3, <1>4 DEF ReadsHold

\* What k has written, in the graph after a step.
Wrote(k) ==
    /\ k.op # "idle" /\ k.kind = "create" /\ Due(k) \in {"contain", "unrelate", "relate", "resolve"} =>
         k.id \in gnodes'
    /\ k.op # "idle" /\ k.kind = "update" /\ Due(k) \in {"unrelate", "relate", "resolve"} =>
         (k.id \in gnodes' => gcontent'[k.id] = content[k.id])
    /\ k.op # "idle" /\ Due(k) = "resolve" /\ k.kind \in Deletes /\ k.kind = DelKind(k.id) =>
         k.id \notin gnodes'

LEMMA WritesNext ==
  ASSUME NEW h \in Jobs, NEW k, job'[h] = k, Wrote(k), content' = content
  PROVE  WritesHold(job[h])'
  BY DEF WritesHold, Wrote

LEMMA WritesStay ==
  ASSUME RowsOK, Sound, NEW k, TextHolds(k), WritesHold(k), JobOK(k)
  PROVE  Wrote(k)
<1> SUFFICES ASSUME k.op # "idle", Due(k) \in {"contain", "unrelate", "relate", "resolve"}
             PROVE  Wrote(k)
  BY DEF Wrote
<1>1. k.id \in Ids
  BY DueIs DEF CallOK
<1>2. /\ k.kind \in {"create", "update"} => k.id \in live
      /\ k.kind \in Deletes => Dead(k.id)
  BY DEF TextHolds
<1>3. /\ k.id \in live => ~Dead(k.id)
      /\ k.id \in gnodes /\ k.id \notin gnodes' => Dead(k.id)
      /\ k.id \notin gnodes /\ k.id \in gnodes' => k.id \in live /\ gcontent'[k.id] = content[k.id]
      /\ k.id \in gnodes /\ k.id \in gnodes' => gcontent'[k.id] \in {gcontent[k.id], content[k.id]}
  BY <1>1 DEF Sound, Dead
<1> QED
  BY <1>2, <1>3 DEF WritesHold, Wrote

LEMMA OthersHoldAlone ==
  ASSUME JobsOK, NEW g \in Jobs, NEW k, Become(g, k), Alone(g), NEW h \in Jobs, h # g
  PROVE  ReadsHold(job[h])' /\ WritesHold(job[h])'
<1>1. job'[h] = Idle
  BY Becomes DEF Alone
<1> QED
  BY <1>1, IdleIs DEF ReadsHold, OpHolds, CommitHolds, LetterHolds, TextHolds, WritesHold

LEMMA OthersHold ==
  ASSUME SerialInv, NEW g \in Jobs, NEW k, Become(g, k), UNCHANGED pgVars, letters' = letters, Sound,
         NEW h \in Jobs, h # g
  PROVE  ReadsHold(job[h])' /\ WritesHold(job[h])'
<1>1. job'[h] = job[h]
  BY SerialParts, Becomes
<1>2. Wrote(job[h]) /\ ReadsHold(job[h]) /\ content' = content
  BY SerialParts, WritesStay DEF pgVars
<1> QED
  BY <1>1, <1>2, ReadsNext, WritesNext
\* The differences that a letter or job j explained are explained by a letter or what
\* becomes of j, or are no more.
ExplainsOn(j, k) ==
    \A n \in Ids :
        /\ n \in live /\ n \notin gnodes' /\ (Filed(n, "create") \/ (j.op = "create" /\ j.id = n)) =>
             Filed(n, "create")' \/ (k.op = "create" /\ k.id = n)
        /\ n \in live /\ n \in gnodes' /\ gcontent'[n] # content[n]
             /\ (Filed(n, "update") \/ (j.op = "update" /\ j.id = n)) =>
             Filed(n, "update")' \/ (k.op = "update" /\ k.id = n)
        /\ n \notin live /\ n \in gnodes' /\ (Filed(n, DelKind(n)) \/ Deleting(j, n)) =>
             Filed(n, DelKind(n))' \/ Deleting(k, n)

LEMMA ExplainedNext ==
  ASSUME RowsOK, JobsOK, NEW g \in Jobs, NEW k, Become(g, k), UNCHANGED pgVars, Sound,
         \A n \in Ids : Explained(n), ExplainsOn(job[g], k)
  PROVE  (\A n \in Ids : Explained(n))'
<1> SUFFICES ASSUME NEW n \in Ids PROVE Explained(n)'
  OBVIOUS
<1>1. live' = live /\ content' = content
  BY DEF pgVars
<1>2. job'[g] = k /\ \A h \in Jobs : h # g => job'[h] = job[h]
  BY Becomes
<1>3. /\ n \in live => ~Dead(n)
      /\ n \in gnodes /\ n \notin gnodes' => Dead(n)
      /\ n \notin gnodes /\ n \in gnodes' => n \in live /\ gcontent'[n] = content[n]
      /\ n \in gnodes /\ n \in gnodes' => gcontent'[n] \in {gcontent[n], content[n]}
  BY DEF Sound, Dead
<1>4. n \in live /\ n \notin gnodes' =>
        Filed(n, "create")' \/ \E h \in Jobs : job'[h].op = "create" /\ job'[h].id = n
  <2> HAVE n \in live /\ n \notin gnodes'
  <2>1. Filed(n, "create") \/ \E h \in Jobs : job[h].op = "create" /\ job[h].id = n
    BY <1>3 DEF Explained
  <2> QED
    BY <1>2, <2>1 DEF ExplainsOn
<1>5. n \in live /\ n \in gnodes' /\ gcontent'[n] # content[n] =>
        Filed(n, "update")' \/ \E h \in Jobs : job'[h].op = "update" /\ job'[h].id = n
  <2> HAVE n \in live /\ n \in gnodes' /\ gcontent'[n] # content[n]
  <2>1. Filed(n, "update") \/ \E h \in Jobs : job[h].op = "update" /\ job[h].id = n
    BY <1>3 DEF Explained
  <2> QED
    BY <1>2, <2>1 DEF ExplainsOn
<1>6. n \notin live /\ n \in gnodes' =>
        Filed(n, DelKind(n))' \/ \E h \in Jobs : Deleting(job'[h], n)
  <2> HAVE n \notin live /\ n \in gnodes'
  <2>1. Filed(n, DelKind(n)) \/ \E h \in Jobs : Deleting(job[h], n)
    BY <1>3 DEF Explained
  <2> QED
    BY <1>2, <2>1 DEF ExplainsOn
<1> QED
  BY <1>1, <1>4, <1>5, <1>6 DEF Explained

\* The same while the letters stay as they are.
Ends(j, k) ==
    \A n \in Ids :
        /\ n \in live /\ j.op = "create" /\ j.id = n => n \in gnodes' \/ (k.op = "create" /\ k.id = n)
        /\ n \in live /\ j.op = "update" /\ j.id = n /\ n \in gnodes' =>
             gcontent'[n] = content[n] \/ (k.op = "update" /\ k.id = n)
        /\ n \notin live /\ Deleting(j, n) => n \notin gnodes' \/ Deleting(k, n)

LEMMA EndsExplain ==
  ASSUME NEW j, NEW k, Ends(j, k), UNCHANGED letterVars
  PROVE  ExplainsOn(j, k)
<1>1. letters' = letters /\ pending' = pending
  BY DEF letterVars
<1>2. \A n, kind : Filed(n, kind)' <=> Filed(n, kind)
  BY <1>1 DEF Filed
<1> QED
  BY <1>2 DEF ExplainsOn, Ends

\* A step of a job that changes neither the rows nor what the letters say.
LEMMA JobStepSerial ==
  ASSUME SerialInv, Types', NEW g \in Jobs, NEW k, Become(g, k),
         UNCHANGED pgVars, letters' = letters, OneAtATime', Sound, ReadsHold(k), Wrote(k),
         losses' = 0 /\ crashes' = 0 => losses = 0 /\ crashes = 0 /\ ExplainsOn(job[g], k)
  PROVE  SerialInv'
<1>1. RowsOK /\ JobsOK /\ Sound /\ IdsUsedOnce /\ ParentsLive
  BY SerialParts
<1>2. live' = live /\ unused' = unused /\ content' = content /\ parent' = parent
  BY DEF pgVars
<1>3. IdsUsedOnce'
  <2>1. gnodes' \subseteq gnodes \cup live
    BY TypesParts DEF Sound, GraphOK
  <2> QED
    BY <1>1, <1>2, <2>1 DEF IdsUsedOnce, Dead, RowsOK
<1>4. ParentsLive'
  BY <1>1, <1>2 DEF ParentsLive
<1>5. job'[g] = k
  BY <1>1, Becomes
<1>6. ASSUME NEW h \in Jobs PROVE ReadsHold(job[h])' /\ WritesHold(job[h])'
  <2>1. CASE h = g
    BY <1>2, <1>5, <2>1, ReadsNext, WritesNext
  <2>2. CASE h # g
    BY <2>2, OthersHold
  <2> QED
    BY <2>1, <2>2
<1>7. ASSUME losses' = 0, crashes' = 0 PROVE (\A n \in Ids : Explained(n))'
  BY <1>1, <1>7, ExplainedNext DEF SerialInv
<1> QED
  BY <1>3, <1>4, <1>6, <1>7 DEF SerialInv
\* The first call of a plan.
LEMMA PlanDue ==
  ASSUME NEW j, j.kind \in Kinds, j.id \in Ids, NEW k, k.plan = Plan(j)
  PROVE  /\ j.kind = "create" => Due(k) = "create"
         /\ j.kind = "update" => Due(k) = "set"
         /\ j.kind \in Deletes => Due(k) = "detach"
         /\ Due(k) \in GraphCalls \cup {"none"}
<1>1. ASSUME j.kind = "create" PROVE Due(k) = "create"
  <2> DEFINE t == If(j.to # Top, "contain") \o Relations(j.id)
  <2>1. Plan(j) = <<"create">> \o t
    BY <1>1, PlanIs
  <2>2. t \in Seq(Calls) /\ "create" \in Calls
    <3>1. If(j.to # Top, "contain") \in Seq(Calls) /\ Relations(j.id) \in Seq(Calls)
      BY PlanIs
    <3> QED
      BY <3>1, ConcatProperties DEF Calls
  <2> HIDE DEF t
  <2> DEFINE p == <<"create">> \o t
  <2>3. p # <<>> /\ Head(p) = "create"
    BY <2>2, Cons
  <2> QED
    BY <2>1, <2>3 DEF Due
<1>2. ASSUME j.kind = "update" PROVE Due(k) = "set"
  <2> DEFINE t == Relations(j.id)
             p == <<"set">> \o t
  <2>1. Plan(j) = p /\ t \in Seq(Calls) /\ "set" \in Calls
    BY <1>2, PlanIs DEF Calls
  <2> HIDE DEF t
  <2>2. p # <<>> /\ Head(p) = "set"
    BY <2>1, Cons
  <2> QED
    BY <2>1, <2>2 DEF Due
<1>3. ASSUME j.kind \in Deletes PROVE Due(k) = "detach"
  <2>1. Plan(j) = <<"detach">>
    BY <1>3, PlanIs
  <2> QED
    BY <2>1 DEF Due
<1>4. Due(k) \in GraphCalls \cup {"none"}
  <2>1. Plan(j) \in Seq(Tasks(j))
    BY PlanTyped
  <2>2. Plan(j) # <<>> => Head(Plan(j)) \in Tasks(j)
    BY <2>1, HeadTailProperties
  <2> QED
    BY <2>2 DEF Due, Tasks
<1> QED
  BY <1>1, <1>2, <1>3, <1>4

\* What holds of a job whose call has been made, or has failed.
LEMMA KeptHolds ==
  ASSUME NEW j, ReadsHold(j), NEW k, Kept(j, k), k.kind = j.kind,
         j.op # "idle", Due(j) \notin {"commit", "next"}, Due(k) \notin {"commit", "next"},
         Due(j) = "load" => Due(k) = "load" \/ j.kind = "move"
  PROVE  ReadsHold(k)
<1>1. OpHolds(k)
  BY DEF Kept, ReadsHold, OpHolds
<1>2. CommitHolds(k) /\ LetterHolds(k)
  BY DEF Kept, ReadsHold, CommitHolds, LetterHolds
<1>3. TextHolds(k)
  BY DEF Kept, ReadsHold, TextHolds, Deletes
<1> QED
  BY <1>1, <1>2, <1>3 DEF ReadsHold

LEMMA OnwardHolds ==
  ASSUME NEW j, JobOK(j), ReadsHold(j), j.op # "idle", j.id \in Ids,
         Due(j) \notin {"commit", "next"}, Due(j) = "load" => j.op = "replay"
  PROVE  LET k == Onward(j)
         IN /\ ReadsHold(k) /\ (k = Idle \/ k.op = j.op)
            /\ k = Idle \/ Due(k) \in {"detach", "next"}
            /\ \A n \in Ids : Deleting(j, n) => Deleting(k, n) \/ (n = j.id /\ j.kind = DelKind(n))
<1> DEFINE k == Onward(j)
<1>1. CASE /\ j.op = "delete" /\ j.kind = "delDoc"
           /\ Kept(j, k) /\ k.kind = "delFolder" /\ k.plan = <<"detach">> /\ Due(k) = "detach"
  <2> HIDE DEF k
  <2>1. Dead(j.id) /\ \A n \in j.todo : Dead(n)
    BY <1>1 DEF ReadsHold, OpHolds, TextHolds, Deletes
  <2>2. ReadsHold(k)
    BY <1>1, <2>1 DEF ReadsHold, OpHolds, CommitHolds, LetterHolds, TextHolds, Deletes, Kept
  <2>3. \A n \in Ids : Deleting(j, n) => Deleting(k, n) \/ (n = j.id /\ j.kind = DelKind(n))
    BY <1>1 DEF Deleting, Kept, DelKind
  <2> QED
    BY <1>1, <2>2, <2>3 DEF k, Kept
<1>2. CASE ~(j.op = "delete" /\ j.kind = "delDoc") /\ j.todo = {} /\ k = Idle
  <2>1. \A n \in Ids : Deleting(j, n) => n = j.id /\ j.kind = DelKind(n)
    BY <1>2 DEF Deleting
  <2> QED
    BY <1>2, <2>1, IdleHolds
<1>3. CASE /\ ~(j.op = "delete" /\ j.kind = "delDoc") /\ j.todo # {}
           /\ Kept(j, k) /\ k.kind = j.kind /\ k.plan = <<"next">> /\ Due(k) = "next"
  <2> HIDE DEF k
  <2>1. j.op \in {"delete", "replay"}
    BY <1>3, JobFields DEF JobOK
  <2>2. ReadsHold(k)
    BY <1>3, <2>1 DEF ReadsHold, OpHolds, CommitHolds, LetterHolds, TextHolds, Kept
  <2>3. \A n \in Ids : Deleting(j, n) => Deleting(k, n) \/ (n = j.id /\ j.kind = DelKind(n))
    BY <1>3 DEF Deleting, Kept
  <2> QED
    BY <1>3, <2>2, <2>3 DEF k, Kept
<1> QED
  BY <1>1, <1>2, <1>3, OnwardIs

LEMMA RetriedHolds ==
  ASSUME NEW j, JobOK(j), ReadsHold(j), j.op # "idle", j.id \in Ids,
         Due(j) \in GraphCalls \cup {"load"}, CallOK(j, Due(j)), Due(j) = "load" => j.op = "replay"
  PROVE  LET k == Retried(j)
         IN /\ ReadsHold(k) /\ (k = Idle \/ k.op = j.op)
            /\ j.op # "replay" => Kept(j, k) /\ k.kind = j.kind
            /\ j.op # "replay" /\ j.kind \in Deletes => Due(k) \in {"detach", "letter"}
            /\ j.op # "replay" => Due(k) # "commit"
            /\ Wrote(k)
<1> DEFINE k == Retried(j)
<1>0. j.kind \in Kinds
  BY DEF JobOK, Job
<1>1. CASE Kept(j, k) /\ k.kind = j.kind /\ k.plan = Start(j)
  <2> HIDE DEF k
  <2>1. /\ Start(j) = Plan(j) \/ (j.op = "replay" /\ Start(j) = <<"load">>)
        /\ j.op = "replay" /\ j.kind \in {"create", "update"} => Start(j) = <<"load">>
    BY <1>0, StartIs
  <2>2. k.plan = <<"load">> => Due(k) = "load"
    BY DEF Due
  <2>3. k.plan = Plan(j) => /\ j.kind = "create" => Due(k) = "create"
                            /\ j.kind = "update" => Due(k) = "set"
                            /\ j.kind \in Deletes => Due(k) = "detach"
                            /\ Due(k) \in GraphCalls \cup {"none"}
    BY <1>0, PlanDue
  <2>4. Due(j) = "load" => j.kind \in {"create", "update", "move"}
    BY DEF CallOK
  <2>5. Due(j) \notin {"commit", "next"} /\ Due(k) \notin {"commit", "next", "resolve"}
    BY <1>1, <2>1, <2>2, <2>3 DEF GraphCalls
  <2>6. Due(j) = "load" => Due(k) = "load" \/ j.kind = "move"
    BY <1>1, <2>1, <2>2, <2>4
  <2>7. ReadsHold(k)
    BY <1>1, <2>5, <2>6, KeptHolds
  <2>8. Wrote(k)
    BY <1>1, <2>1, <2>2, <2>3, <2>5 DEF Wrote
  <2> QED
    BY <1>1, <2>1, <2>3, <2>5, <2>7, <2>8 DEF k, Kept
<1>2. CASE /\ j.op # "replay"
           /\ Kept(j, k) /\ k.kind = j.kind /\ k.plan = <<"letter">> /\ Due(k) = "letter"
  <2> HIDE DEF k
  <2>1. ReadsHold(k)
    BY <1>2, KeptHolds DEF GraphCalls
  <2>2. Wrote(k)
    BY <1>2 DEF Wrote
  <2> QED
    BY <1>2, <2>1, <2>2 DEF k, Kept
<1>3. CASE j.op = "replay" /\ k = Onward(j)
  <2>1. ReadsHold(k) /\ (k = Idle \/ k.op = j.op) /\ (k = Idle \/ Due(k) \in {"detach", "next"})
    BY <1>3, OnwardHolds DEF GraphCalls
  <2> HIDE DEF k
  <2>2. Wrote(k)
    BY <2>1, IdleIs DEF Wrote
  <2> QED
    BY <1>3, <2>1, <2>2 DEF k
<1> QED
  BY <1>1, <1>2, <1>3, RetriedIs

\* A task whose call was made: what it is to write is in the graph.
Written(j) ==
    /\ j.kind = "create" => j.id \in gnodes'
    /\ j.kind = "update" /\ j.id \in gnodes' => gcontent'[j.id] = content[j.id]
    /\ j.kind \in Deletes /\ j.kind = DelKind(j.id) => j.id \notin gnodes'

LEMMA CallWrites ==
  ASSUME RowsOK, GraphOK, NEW j \in Job, JobOK(j), ReadsHold(j), WritesHold(j), j.op # "idle",
         j.id \in Ids, Due(j) \in GraphCalls, CallOK(j, Due(j)), Effect(j, Due(j))
  PROVE  Written(j)
<1> DEFINE c == Due(j)
<1>1. Wrote(j)
  BY CallSound, WritesStay DEF ReadsHold
<1>2. TextHolds(j)
  BY DEF ReadsHold
<1>3. CASE j.kind = "create"
  <2>1. c \in {"create", "contain", "unrelate", "relate"}
    BY <1>3 DEF CallOK, CallsOf
  <2>2. c = "create" => j.id \in gnodes'
    BY EffectIs
  <2> QED
    BY <1>1, <1>3, <2>1, <2>2 DEF Wrote, Written, Deletes
<1>4. CASE j.kind = "update"
  <2>1. c \in {"set", "unrelate", "relate"}
    BY <1>4 DEF CallOK, CallsOf
  <2>2. j.text = content[j.id]
    BY <1>2, <1>4 DEF TextHolds, GraphCalls
  <2>3. c = "set" /\ j.id \in gnodes' => gcontent'[j.id] = j.text
    BY EffectIs
  <2> QED
    BY <1>1, <1>4, <2>1, <2>2, <2>3 DEF Wrote, Written, Deletes
<1>5. CASE j.kind \in Deletes
  <2>1. c = "detach"
    BY <1>5 DEF CallOK, CallsOf, Deletes
  <2>2. j.id \in (IF j.kind = "delDoc" THEN Docs ELSE Folders) => j.id \notin gnodes'
    BY <2>1, EffectIs
  <2>3. j.kind = DelKind(j.id) => j.id \in (IF j.kind = "delDoc" THEN Docs ELSE Folders)
    BY DEF DelKind, Ids
  <2> QED
    BY <1>5, <2>2, <2>3 DEF Written, Deletes
<1>6. CASE j.kind = "move"
  BY <1>6 DEF Written, Deletes
<1> QED
  BY <1>3, <1>4, <1>5, <1>6, JobFields DEF Kinds, Deletes
\* A call to the graph that succeeded.
LEMMA DoneHolds ==
  ASSUME RowsOK, GraphOK, NEW j \in Job, JobOK(j), ReadsHold(j), WritesHold(j), j.op # "idle",
         j.id \in Ids, j.plan # <<>>, Due(j) \in GraphCalls, CallOK(j, Due(j)), Effect(j, Due(j))
  PROVE  LET k == Done(j)
         IN ReadsHold(k) /\ (k = Idle \/ k.op = j.op) /\ Wrote(k) /\ Ends(j, k)
<1> DEFINE k == Done(j)
<1>1. Written(j) /\ Due(j) \notin {"commit", "next", "load"}
  BY CallWrites DEF GraphCalls
<1>2. /\ OpHolds(j)
      /\ j.op \in {"create", "update"} => j.kind = j.op
  BY DEF ReadsHold, OpHolds
<1>3. /\ j.op = "create" => j.id \in gnodes'
      /\ j.op = "update" /\ j.id \in gnodes' => gcontent'[j.id] = content[j.id]
      /\ j.op = "delete" => j.kind \in Deletes
      /\ j.op = "delete" /\ j.kind = DelKind(j.id) => j.id \notin gnodes'
  BY <1>1, <1>2 DEF Written, OpHolds
<1>4. ASSUME Kept(j, k), k.kind = j.kind, Due(k) \in GraphCalls \cup {"resolve"},
             JobOK(k), Due(k) = "resolve" => j.op = "replay"
      PROVE  ReadsHold(k) /\ (k = Idle \/ k.op = j.op) /\ Wrote(k) /\ Ends(j, k)
  <2> HIDE DEF k
  <2>1. ReadsHold(k)
    BY <1>1, <1>4, KeptHolds DEF GraphCalls
  <2>2. Wrote(k)
    BY <1>1, <1>4 DEF Wrote, Written, Kept
  <2>3. CallOK(k, Due(k))
    BY <1>4, DueIs DEF GraphCalls
  <2>4. j.op = "delete" => Due(k) = "detach"
    BY <1>3, <1>4, <2>3 DEF CallOK, CallsOf, Deletes
  <2>5. \A n \in Ids : Deleting(j, n) => Deleting(k, n)
    BY <1>4, <2>4 DEF Deleting, Kept
  <2>6. Ends(j, k)
    BY <1>3, <2>5 DEF Ends
  <2> QED
    BY <1>4, <2>1, <2>2, <2>6 DEF Kept
<1>5. CASE k = Onward(j)
  <2>1. /\ ReadsHold(k) /\ (k = Idle \/ k.op = j.op)
        /\ k = Idle \/ Due(k) \in {"detach", "next"}
        /\ \A n \in Ids : Deleting(j, n) => Deleting(k, n) \/ (n = j.id /\ j.kind = DelKind(n))
    BY <1>1, <1>5, OnwardHolds
  <2> HIDE DEF k
  <2>2. Wrote(k)
    BY <2>1, IdleIs DEF Wrote
  <2>3. \A n \in Ids : Deleting(j, n) => Deleting(k, n) \/ n \notin gnodes'
    BY <1>3, <2>1 DEF Deleting
  <2>4. Ends(j, k)
    BY <1>3, <2>3 DEF Ends
  <2> QED
    BY <2>1, <2>2, <2>4 DEF k
<1>6. JobOK(k) /\ (\/ /\ Kept(j, k) /\ k.kind = j.kind
                      /\ Due(k) \in GraphCalls \cup {"resolve"}
                      /\ Due(k) = "resolve" => j.op = "replay"
                   \/ k = Onward(j))
  <2>1. "resolve" \notin GraphCalls
    BY DEF GraphCalls
  <2> QED
    BY <2>1, DoneIs
<1> QED
  BY <1>4, <1>5, <1>6

LEMMA RetriedEnds ==
  ASSUME NEW j, JobOK(j), ReadsHold(j), j.op # "idle", j.id \in Ids,
         Due(j) \in GraphCalls \cup {"load"}, CallOK(j, Due(j)), Due(j) = "load" => j.op = "replay"
  PROVE  Ends(j, Retried(j))
<1> DEFINE k == Retried(j)
<1>1. /\ j.op # "replay" => Kept(j, k) /\ k.kind = j.kind
      /\ j.op # "replay" /\ j.kind \in Deletes => Due(k) \in {"detach", "letter"}
      /\ j.op # "replay" => Due(k) # "commit"
  BY RetriedHolds
<1>2. j.op = "delete" => j.kind \in Deletes
  BY DEF ReadsHold, OpHolds, GraphCalls
<1> HIDE DEF k
<1>3. \A n \in Ids : Deleting(j, n) => Deleting(k, n)
  BY <1>1, <1>2 DEF Deleting, Kept
<1>4. j.op \in {"create", "update"} => k.op = j.op /\ k.id = j.id
  BY <1>1 DEF Kept
<1> QED
  BY <1>3, <1>4 DEF Ends, k

LEMMA SameSound == ASSUME UNCHANGED graphVars PROVE Sound
  BY DEF Sound, graphVars

\* The jobs that call the graph.
LEMMA CallerIs ==
  ASSUME SerialInv, NEW g \in Jobs, job[g].plan # <<>>, Head(job[g].plan) \in GraphCalls
  PROVE  LET j == job[g]
         IN /\ JobOK(j) /\ j \in Job /\ j.op # "idle" /\ j.id \in Ids
            /\ Due(j) = Head(j.plan) /\ CallOK(j, Due(j))
            /\ ReadsHold(j) /\ TextHolds(j) /\ WritesHold(j)
            /\ RowsOK /\ GraphOK /\ JobsOK /\ OneAtATime
  BY SerialParts, CallIs

LEMMA CallGraphSerial ==
  ASSUME SerialInv, Types', NEW g \in Jobs, CallGraph(g)
  PROVE  SerialInv'
<1> DEFINE j == job[g]
<1>1. /\ j.plan # <<>> /\ Head(j.plan) \in GraphCalls
      /\ UNCHANGED pgVars /\ UNCHANGED letterVars /\ letters' = letters
      /\ losses' = losses /\ crashes' = crashes
  BY DEF CallGraph, letterVars, countVars
<1>2. /\ JobOK(j) /\ j \in Job /\ j.op # "idle" /\ j.id \in Ids
      /\ Due(j) = Head(j.plan) /\ CallOK(j, Due(j))
      /\ ReadsHold(j) /\ TextHolds(j) /\ WritesHold(j)
      /\ RowsOK /\ GraphOK /\ JobsOK /\ OneAtATime
  BY <1>1, CallerIs
<1>3. CASE Refused(j)
  <2> DEFINE k == Retried(j)
  <2>1. UNCHANGED graphVars /\ Become(g, k)
    BY <1>3 DEF CallGraph
  <2>2. ReadsHold(k) /\ (k = Idle \/ k.op = j.op) /\ Wrote(k)
    BY <1>1, <1>2, RetriedHolds DEF GraphCalls
  <2>3. Ends(j, k)
    BY <1>1, <1>2, RetriedEnds DEF GraphCalls
  <2>4. Sound
    BY <2>1, SameSound
  <2> HIDE DEF k
  <2>5. OneAtATime'
    BY <1>2, <2>1, <2>2, KeepOne
  <2>6. ExplainsOn(j, k)
    BY <1>1, <2>3, EndsExplain
  <2> QED
    BY <1>1, <2>1, <2>2, <2>4, <2>5, <2>6, JobStepSerial
<1>4. CASE ~Refused(j)
  <2> DEFINE k == Done(j)
  <2>1. Effect(j, Due(j)) /\ Become(g, k)
    BY <1>2, <1>4 DEF CallGraph
  <2>2. ReadsHold(k) /\ (k = Idle \/ k.op = j.op) /\ Wrote(k) /\ Ends(j, k)
    BY <1>1, <1>2, <2>1, DoneHolds
  <2>3. Sound
    BY <1>1, <1>2, <2>1, CallSound
  <2> HIDE DEF k
  <2>4. OneAtATime'
    BY <1>2, <2>1, <2>2, KeepOne
  <2>5. ExplainsOn(j, k)
    BY <1>1, <2>2, EndsExplain
  <2> QED
    BY <1>1, <2>1, <2>2, <2>3, <2>4, <2>5, JobStepSerial
<1> QED
  BY <1>3, <1>4

LEMMA GraphFailsSerial ==
  ASSUME SerialInv, Types', NEW g \in Jobs, GraphFails(g)
  PROVE  SerialInv'
<1> DEFINE j == job[g]
           k == Retried(j)
<1>1. /\ j.plan # <<>> /\ Head(j.plan) \in GraphCalls
      /\ UNCHANGED pgVars /\ UNCHANGED letterVars /\ letters' = letters
      /\ losses' = losses /\ crashes' = crashes /\ Become(g, k)
      /\ UNCHANGED graphVars \/ Effect(j, Head(j.plan))
  BY DEF GraphFails, letterVars
<1>2. /\ JobOK(j) /\ j \in Job /\ j.op # "idle" /\ j.id \in Ids
      /\ Due(j) = Head(j.plan) /\ CallOK(j, Due(j))
      /\ ReadsHold(j) /\ TextHolds(j) /\ WritesHold(j)
      /\ RowsOK /\ GraphOK /\ JobsOK /\ OneAtATime
  BY <1>1, CallerIs
<1>3. ReadsHold(k) /\ (k = Idle \/ k.op = j.op) /\ Wrote(k)
  BY <1>1, <1>2, RetriedHolds DEF GraphCalls
<1>4. Ends(j, k)
  BY <1>1, <1>2, RetriedEnds DEF GraphCalls
<1>5. Sound
  BY <1>1, <1>2, CallSound
<1> HIDE DEF k
<1>6. OneAtATime'
  BY <1>1, <1>2, <1>3, KeepOne
<1>7. ExplainsOn(j, k)
  BY <1>1, <1>4, EndsExplain
<1> QED
  BY <1>1, <1>3, <1>5, <1>6, <1>7, JobStepSerial
LEMMA LoadSerial ==
  ASSUME SerialInv, Types', NEW g \in Jobs, Load(g)
  PROVE  SerialInv'
<1> DEFINE j == job[g]
           n == [j EXCEPT !.text = content[j.id],
                          !.to = IF j.kind \in {"create", "move"} THEN parent[j.id] ELSE j.to]
           l == [n EXCEPT !.plan = Plan(n)]
<1>1. /\ At(g, "load") /\ UNCHANGED <<pgVars, letterVars, graphVars, countVars>>
      /\ letters' = letters /\ losses' = losses /\ crashes' = crashes
      /\ Become(g, IF j.id \in live THEN l ELSE IF j.op = "replay" THEN Retried(j) ELSE Idle)
  BY DEF Load, letterVars, countVars
<1>2. /\ JobOK(j) /\ j.op # "idle" /\ j.id \in Ids /\ Due(j) = "load" /\ CallOK(j, "load")
      /\ JobsOK /\ OneAtATime /\ Types /\ ReadsHold(j) /\ OpHolds(j) /\ LetterHolds(j)
  BY <1>1, SerialParts, JobIs
<1>3. j.op \in {"create", "update", "replay"} /\ j.kind \in {"create", "update", "move"}
  BY <1>2 DEF CallOK
<1>4. j.op \in {"create", "update"} => j.id \in live /\ j.kind = j.op
  BY <1>2 DEF OpHolds
<1>5. Sound
  BY <1>1, SameSound
<1>6. CASE j.id \in live
  <2>1. /\ JobOK(l) /\ l.op = j.op /\ l.id = j.id /\ l.kind = j.kind
        /\ l.todo = j.todo /\ l.letter = j.letter /\ l.text = content[j.id] /\ l.plan = Plan(l)
    BY <1>2, <1>6, LoadIs
  <2> HIDE DEF l
  <2>2. /\ j.kind = "create" => Due(l) = "create"
        /\ j.kind = "update" => Due(l) = "set"
        /\ Due(l) \in GraphCalls \cup {"none"}
    BY <1>2, <1>3, <2>1, PlanDue DEF Kinds
  <2>3. ReadsHold(l)
    <3>1. OpHolds(l) /\ CommitHolds(l)
      BY <1>2, <1>3, <2>1, <2>2 DEF OpHolds, CommitHolds, GraphCalls
    <3>2. LetterHolds(l)
      BY <1>2, <2>1 DEF LetterHolds
    <3>3. TextHolds(l)
      BY <1>3, <1>6, <2>1 DEF TextHolds, Deletes
    <3> QED
      BY <3>1, <3>2, <3>3 DEF ReadsHold
  <2>4. Wrote(l)
    BY <1>3, <2>1, <2>2 DEF Wrote, Deletes, GraphCalls
  <2>5. Ends(j, l)
    BY <1>3, <2>1 DEF Ends, Deleting
  <2>6. ExplainsOn(j, l)
    BY <1>1, <2>5, EndsExplain
  <2>7. OneAtATime'
    BY <1>1, <1>2, <1>6, <2>1, KeepOne
  <2> QED
    BY <1>1, <1>5, <1>6, <2>3, <2>4, <2>6, <2>7, JobStepSerial
<1>7. CASE j.id \notin live
  <2> DEFINE k == Retried(j)
  <2>1. j.op = "replay" /\ Become(g, k)
    BY <1>1, <1>3, <1>4, <1>7
  <2>2. ReadsHold(k) /\ (k = Idle \/ k.op = j.op) /\ Wrote(k)
    BY <1>2, <2>1, RetriedHolds
  <2>3. Ends(j, k)
    BY <1>2, <2>1, RetriedEnds
  <2> HIDE DEF k
  <2>4. OneAtATime'
    BY <1>2, <2>1, <2>2, KeepOne
  <2>5. ExplainsOn(j, k)
    BY <1>1, <2>3, EndsExplain
  <2> QED
    BY <1>1, <1>5, <2>1, <2>2, <2>4, <2>5, JobStepSerial
<1> QED
  BY <1>6, <1>7

LEMMA NextDeleteSerial ==
  ASSUME SerialInv, Types', NEW g \in Jobs, NEW n \in job[g].todo, NextDelete(g, n)
  PROVE  SerialInv'
<1> DEFINE j == job[g]
           k == Taken(j, n)
<1>1. /\ j.op = "delete" /\ At(g, "next") /\ Become(g, k)
      /\ UNCHANGED <<pgVars, letterVars, graphVars, countVars>>
      /\ letters' = letters /\ losses' = losses /\ crashes' = crashes
  BY DEF NextDelete, Taken, letterVars, countVars
<1>2. JobOK(j) /\ Due(j) = "next" /\ JobsOK /\ OneAtATime /\ OpHolds(j)
  BY <1>1, SerialParts, JobIs
<1>3. /\ k.op = "delete" /\ k.kind = "delDoc" /\ k.id = n /\ k.todo = j.todo \ {n} /\ Due(k) = "detach"
  BY <1>1, <1>2, NextDeleteIs
<1> HIDE DEF k
<1>4. Dead(n) /\ \A m \in j.todo : Dead(m)
  BY <1>1, <1>2 DEF OpHolds
<1>5. ReadsHold(k)
  BY <1>3, <1>4 DEF ReadsHold, OpHolds, CommitHolds, LetterHolds, TextHolds, Deletes
<1>6. Wrote(k)
  BY <1>3 DEF Wrote
<1>7. Ends(j, k)
  <2>1. \A m \in Ids : Deleting(j, m) => Deleting(k, m)
    BY <1>2, <1>3 DEF Deleting
  <2> QED
    BY <1>1, <2>1 DEF Ends
<1>8. ExplainsOn(j, k)
  BY <1>1, <1>7, EndsExplain
<1>9. OneAtATime'
  BY <1>1, <1>2, <1>3, KeepOne
<1> QED
  BY <1>1, <1>5, <1>6, <1>8, <1>9, SameSound, JobStepSerial

LEMMA NextLetterSerial ==
  ASSUME SerialInv, Types', NEW g \in Jobs, NEW i \in job[g].todo, NextLetter(g, i)
  PROVE  SerialInv'
<1> DEFINE j == job[g]
<1>1. /\ j.op = "replay" /\ At(g, "next")
      /\ UNCHANGED <<pgVars, letterVars, graphVars, countVars>>
      /\ letters' = letters /\ losses' = losses /\ crashes' = crashes
  BY DEF NextLetter, letterVars, countVars
<1>2. Types /\ JobsOK /\ OneAtATime /\ IdsUsedOnce
  BY SerialParts
<1>3. PICK k : /\ Become(g, k) /\ JobOK(k) /\ k.op = "replay" /\ k.letter = i
               /\ i \in 1..Len(letters) /\ letters[i] \in Letter
               /\ k.id = letters[i].id /\ k.kind = letters[i].kind
               /\ k.to = letters[i].to /\ k.from = letters[i].from
               /\ k.plan = Plan(k) \/ k.plan = <<"load">>
               /\ k.kind \in {"create", "update"} => k.plan = <<"load">>
  BY <1>2, NextLetterIs
<1>4. k.kind \in Kinds /\ k.id \in Ids
  BY <1>3 DEF Letter
<1>5. k.plan = <<"load">> => Due(k) = "load"
  BY DEF Due
<1>6. k.plan = Plan(k) => /\ k.kind \in Deletes => Due(k) = "detach"
                          /\ Due(k) \in GraphCalls \cup {"none"}
  BY <1>4, PlanDue
<1>7. k.kind \in Deletes => Dead(k.id)
  BY <1>2, <1>3 DEF IdsUsedOnce
<1>8. ReadsHold(k)
  <2>1. OpHolds(k) /\ CommitHolds(k)
    BY <1>3, <1>5, <1>6 DEF OpHolds, CommitHolds, GraphCalls
  <2>2. LetterHolds(k)
    BY <1>3 DEF LetterHolds
  <2>3. TextHolds(k)
    BY <1>3, <1>5, <1>7 DEF TextHolds
  <2> QED
    BY <2>1, <2>2, <2>3 DEF ReadsHold
<1>9. Wrote(k)
  BY <1>3, <1>5, <1>6 DEF Wrote, Deletes, GraphCalls
<1>10. Ends(j, k)
  BY <1>1 DEF Ends, Deleting
<1>11. ExplainsOn(j, k)
  BY <1>1, <1>10, EndsExplain
<1>12. OneAtATime'
  BY <1>1, <1>2, <1>3, KeepOne
<1> QED
  BY <1>1, <1>3, <1>8, <1>9, <1>11, <1>12, SameSound, JobStepSerial

LEMMA ReplaySerial ==
  ASSUME SerialInv, Types', Serial, NEW g \in Jobs, Replay(g)
  PROVE  SerialInv'
<1> DEFINE k == [Idle EXCEPT !.op = "replay", !.todo = pending, !.plan = <<"next">>]
<1>1. /\ job[g] = Idle /\ Become(g, k)
      /\ UNCHANGED <<pgVars, letterVars, graphVars>>
      /\ letters' = letters /\ losses' = losses /\ crashes' = crashes
  BY DEF Replay, letterVars
<1>2. Types /\ JobsOK /\ OneAtATime
  BY SerialParts
<1>3. k.op = "replay" /\ Due(k) = "next"
  BY <1>2, ReplayIs
<1> HIDE DEF k
<1>4. ReadsHold(k)
  BY <1>3 DEF ReadsHold, OpHolds, CommitHolds, LetterHolds, TextHolds
<1>5. Wrote(k)
  BY <1>3 DEF Wrote
<1>6. Ends(job[g], k)
  BY <1>1, IdleIs DEF Ends, Deleting
<1>7. ExplainsOn(job[g], k)
  BY <1>1, <1>6, EndsExplain
<1>8. OneAtATime'
  <2>1. job'[g] = k /\ k # Idle /\ \A h \in Jobs : h # g => job'[h] = job[h]
    BY <1>1, <1>2, <1>3, Becomes, IdleIs
  <2>2. \A h \in Jobs : job[h] # Idle => job[h].op = "replay"
    BY <1>1, <2>1 DEF Serial
  <2> QED
    BY <1>2, <1>3, <2>1, <2>2 DEF OneAtATime
<1> QED
  BY <1>1, <1>4, <1>5, <1>7, <1>8, SameSound, JobStepSerial
LEMMA MarkResolvedSerial ==
  ASSUME SerialInv, Types', NEW g \in Jobs, MarkResolved(g)
  PROVE  SerialInv'
<1> DEFINE j == job[g]
           k == Onward(j)
<1>1. /\ At(g, "resolve") /\ Become(g, k) /\ pending' = pending \ {j.letter} /\ letters' = letters
      /\ UNCHANGED <<pgVars, graphVars>> /\ losses' = losses /\ crashes' = crashes
  BY DEF MarkResolved, countVars
<1>2. /\ JobOK(j) /\ j.op = "replay" /\ j.id \in Ids /\ Due(j) = "resolve"
      /\ JobsOK /\ OneAtATime /\ ReadsHold(j) /\ LetterHolds(j) /\ WritesHold(j)
  BY <1>1, SerialParts, JobIs DEF CallOK
<1>3. /\ ReadsHold(k) /\ (k = Idle \/ k.op = j.op)
      /\ k = Idle \/ Due(k) \in {"detach", "next"}
  BY <1>2, OnwardHolds
<1> HIDE DEF k
<1>4. Wrote(k)
  BY <1>3, IdleIs DEF Wrote
<1>5. letters[j.letter].kind = j.kind /\ letters[j.letter].id = j.id
  BY <1>2 DEF LetterHolds
<1>6. /\ j.kind = "create" => j.id \in gnodes
      /\ j.kind = "update" /\ j.id \in gnodes => gcontent[j.id] = content[j.id]
      /\ j.kind \in Deletes /\ j.kind = DelKind(j.id) => j.id \notin gnodes
  BY <1>2 DEF WritesHold
<1>7. gnodes' = gnodes /\ gcontent' = gcontent
  BY <1>1 DEF graphVars
<1>8. ExplainsOn(j, k)
  <2>1. \A n \in Ids : \A kind : Filed(n, kind) => Filed(n, kind)' \/ (n = j.id /\ kind = j.kind)
    BY <1>1, <1>5 DEF Filed
  <2>2. \A n \in Ids : DelKind(n) \in Deletes
    BY DEF DelKind, Deletes
  <2>3. \A n \in Ids : ~Deleting(j, n)
    BY <1>2 DEF Deleting
  <2> QED
    BY <1>2, <1>6, <1>7, <2>1, <2>2, <2>3 DEF ExplainsOn
<1>9. OneAtATime'
  BY <1>1, <1>2, <1>3, KeepOne
<1> QED
  BY <1>1, <1>3, <1>4, <1>8, <1>9, SameSound, JobStepSerial

LEMMA StoreFailsSerial ==
  ASSUME SerialInv, Types', NEW g \in Jobs, StoreFails(g)
  PROVE  SerialInv'
<1> DEFINE j == job[g]
<1>1. /\ UNCHANGED <<pgVars, graphVars>> /\ letters' = letters /\ losses' # 0
  BY SerialParts DEF StoreFails, letterVars, Types, TypeOK
<1>2. JobsOK /\ OneAtATime /\ ReadsHold(j)
  BY SerialParts
<1>3. ASSUME NEW k, Become(g, k), ReadsHold(k), Wrote(k), k = Idle \/ k.op = j.op, j.op # "idle"
      PROVE  SerialInv'
  <2>1. OneAtATime'
    BY <1>2, <1>3, KeepOne
  <2> QED
    BY <1>1, <1>3, <2>1, SameSound, JobStepSerial
<1>4. ReadsHold(Idle) /\ Wrote(Idle)
  BY IdleHolds, IdleIs DEF Wrote
<1>5. ASSUME NEW call, At(g, call)
      PROVE  /\ JobOK(j) /\ j.op # "idle" /\ Due(j) = call /\ CallOK(j, call)
             /\ call \notin {"next", "commit"} => j.id \in Ids
  BY <1>5, SerialParts, JobIs
<1>6. CASE At(g, "load") /\ Become(g, IF j.op = "replay" THEN Retried(j) ELSE Idle)
  <2>1. JobOK(j) /\ j.op # "idle" /\ Due(j) = "load" /\ CallOK(j, "load") /\ j.id \in Ids
    BY <1>5, <1>6
  <2>2. CASE j.op = "replay"
    <3> DEFINE k == Retried(j)
    <3>1. ReadsHold(k) /\ (k = Idle \/ k.op = j.op) /\ Wrote(k)
      BY <1>2, <2>1, <2>2, RetriedHolds
    <3>2. Become(g, k)
      BY <1>6, <2>2
    <3> HIDE DEF k
    <3> QED
      BY <1>3, <2>1, <3>1, <3>2
  <2>3. CASE j.op # "replay"
    BY <1>3, <1>4, <1>6, <2>1, <2>3
  <2> QED
    BY <2>2, <2>3
<1>7. CASE (At(g, "letter") \/ At(g, "resolve")) /\ Become(g, Onward(j))
  <2> DEFINE k == Onward(j)
  <2>1. JobOK(j) /\ j.op # "idle" /\ Due(j) \in {"letter", "resolve"} /\ j.id \in Ids
    BY <1>5, <1>7
  <2>2. ReadsHold(k) /\ (k = Idle \/ k.op = j.op) /\ (k = Idle \/ Due(k) \in {"detach", "next"})
    BY <1>2, <2>1, OnwardHolds
  <2>3. Become(g, k)
    BY <1>7
  <2> HIDE DEF k
  <2>4. Wrote(k)
    BY <2>2, IdleIs DEF Wrote
  <2> QED
    BY <1>3, <2>1, <2>2, <2>3, <2>4
<1>8. CASE At(g, "commit") /\ Become(g, Idle)
  BY <1>3, <1>4, <1>5, <1>8
<1> QED
  BY <1>6, <1>7, <1>8 DEF StoreFails

LEMMA CrashSerial ==
  ASSUME SerialInv, Types', Crash
  PROVE  SerialInv'
<1>1. /\ UNCHANGED <<pgVars, letterVars, graphVars>> /\ crashes' # 0
      /\ \A h \in Jobs : job'[h] = Idle
  BY SerialParts DEF Crash, Types, TypeOK
<1>2. OneAtATime'
  BY <1>1 DEF OneAtATime
<1>3. IdsUsedOnce' /\ ParentsLive'
  BY <1>1, SerialParts DEF IdsUsedOnce, ParentsLive, Dead, pgVars, letterVars, graphVars
<1>4. ASSUME NEW h \in Jobs PROVE ReadsHold(job[h])' /\ WritesHold(job[h])'
  BY <1>1, IdleIs DEF ReadsHold, OpHolds, CommitHolds, LetterHolds, TextHolds, WritesHold
<1> QED
  BY <1>1, <1>2, <1>3, <1>4 DEF SerialInv
\* A step of a job beside which nothing runs.
LEMMA AloneSerial ==
  ASSUME SerialInv, Types', NEW g \in Jobs, NEW k, Become(g, k), Alone(g),
         IdsUsedOnce', ParentsLive', ReadsHold(job[g])', WritesHold(job[g])',
         losses' = 0 /\ crashes' = 0 => (\A n \in Ids : Explained(n))'
  PROVE  SerialInv'
<1>1. JobsOK
  BY SerialParts
<1>2. OneAtATime'
  BY <1>1, AloneOne
<1>3. ASSUME NEW h \in Jobs PROVE ReadsHold(job[h])' /\ WritesHold(job[h])'
  BY <1>1, OthersHoldAlone
<1> QED
  BY <1>2, <1>3 DEF SerialInv

LEMMA WriteLetterSerial ==
  ASSUME SerialInv, Types', NEW g \in Jobs, WriteLetter(g)
  PROVE  SerialInv'
<1> DEFINE j == job[g]
           k == Onward(j)
           m == Len(letters) + 1
<1>1. /\ At(g, "letter") /\ Become(g, k) /\ UNCHANGED pgVars
      /\ gnodes' = gnodes /\ gcontent' = gcontent /\ losses' = losses /\ crashes' = crashes
  BY DEF WriteLetter, countVars, graphVars
<1>2. /\ JobOK(j) /\ j.op \notin {"idle", "replay"} /\ j.id \in Ids /\ Due(j) = "letter"
      /\ JobsOK /\ ReadsHold(j) /\ OpHolds(j) /\ TextHolds(j) /\ RowsOK
  BY <1>1, SerialParts, JobIs DEF CallOK
<1>3. Alone(g)
  BY <1>2, OthersIdle
<1>4. /\ ReadsHold(k) /\ (k = Idle \/ k.op = j.op)
      /\ k = Idle \/ Due(k) \in {"detach", "next"}
      /\ \A n \in Ids : Deleting(j, n) => Deleting(k, n) \/ (n = j.id /\ j.kind = DelKind(n))
  BY <1>2, OnwardHolds
<1> HIDE DEF k
<1>5. /\ Len(letters) \in Nat /\ Len(letters') = m
      /\ letters'[m].kind = j.kind /\ letters'[m].id = j.id
      /\ \A i \in 1..Len(letters) : letters'[i] = letters[i]
      /\ pending' = pending \cup {m} /\ pending \subseteq 1..Len(letters)
  BY SerialParts, LetterIs DEF LettersOK
<1> HIDE DEF m
<1>6. job'[g] = k /\ k.op # "replay" /\ Wrote(k)
  BY <1>1, <1>2, <1>4, Becomes, IdleIs DEF Wrote
<1>7. live' = live /\ unused' = unused /\ content' = content /\ parent' = parent
  BY <1>1 DEF pgVars
<1>8. ReadsHold(job[g])' /\ WritesHold(job[g])'
  BY <1>1, <1>4, <1>6, <1>7, ReadsNext, WritesNext
<1>9. IdsUsedOnce'
  <2>1. \A i \in 1..Len(letters') : i \in 1..Len(letters) \/ i = m
    BY <1>5 DEF m
  <2>2. j.kind \in Deletes => Dead(j.id)
    BY <1>2 DEF TextHolds
  <2>3. IdsUsedOnce
    BY SerialParts
  <2> QED
    BY <1>1, <1>5, <1>7, <2>1, <2>2, <2>3 DEF IdsUsedOnce, Dead
<1>10. ParentsLive'
  BY <1>7, SerialParts DEF ParentsLive
<1>11. ASSUME losses' = 0, crashes' = 0 PROVE (\A n \in Ids : Explained(n))'
  <2>1. \A n \in Ids : Explained(n)
    BY <1>1, <1>11 DEF SerialInv
  <2>2. \A n \in Ids : \A kind : Filed(n, kind) => Filed(n, kind)'
    BY <1>5 DEF Filed
  <2>3. \A n \in Ids : \A kind : n = j.id /\ kind = j.kind => Filed(n, kind)'
    BY <1>5 DEF Filed
  <2>4. j.op \in {"create", "update"} => j.kind = j.op
    BY <1>2 DEF OpHolds
  <2>5. ExplainsOn(j, k)
    <3>1. \A n \in Ids : Deleting(j, n) => Deleting(k, n) \/ Filed(n, DelKind(n))'
      BY <1>4, <2>3
    <3> QED
      BY <2>2, <2>3, <2>4, <3>1 DEF ExplainsOn
  <2>6. Sound
    BY <1>1 DEF Sound
  <2> QED
    BY <1>1, <1>2, <2>1, <2>5, <2>6, ExplainedNext
<1> QED
  BY <1>1, <1>3, <1>8, <1>9, <1>10, <1>11, AloneSerial

\* A request that starts finds all other jobs idle, and what differs then has a letter.
LEMMA RequestAlone ==
  ASSUME JobsOK, Serial, NEW g \in Jobs, NEW k, job[g] = Idle, Become(g, k),
         k.op \notin {"idle", "replay"}
  PROVE  Quiet /\ Alone(g)
<1>1. job'[g] = k /\ k # Idle
  BY Becomes, IdleIs
<1>2. \A h \in Jobs : job[h] = Idle
  BY <1>1 DEF Serial
<1> QED
  BY <1>2 DEF Quiet, Alone

LEMMA QuietExplained ==
  ASSUME Quiet, NEW n, Explained(n)
  PROVE  /\ n \in live /\ n \notin gnodes => Filed(n, "create")
         /\ n \in live /\ n \in gnodes /\ gcontent[n] # content[n] => Filed(n, "update")
         /\ n \notin live /\ n \in gnodes => Filed(n, DelKind(n))
  BY IdleHolds, IdleIs DEF Quiet, Explained

\* The variables that a request leaves alone.
LEMMA RequestedIs ==
  ASSUME JobsOK, NEW g \in Jobs, NEW k, Requested(g, k)
  PROVE  /\ Become(g, k) /\ job'[g] = k
         /\ letters' = letters /\ pending' = pending /\ gnodes' = gnodes /\ gcontent' = gcontent
         /\ losses' = losses /\ crashes' = crashes
         /\ \A n, kind : Filed(n, kind)' <=> Filed(n, kind)
<1>1. /\ Become(g, k)
      /\ letters' = letters /\ pending' = pending /\ gnodes' = gnodes /\ gcontent' = gcontent
      /\ losses' = losses /\ crashes' = crashes
  BY DEF Requested, letterVars, graphVars
<1> QED
  BY <1>1, Becomes DEF Filed

LEMMA CreateSerial ==
  ASSUME SerialInv, Types', Serial,
         NEW g \in Jobs, NEW n \in Ids, NEW p \in Parents, NEW c \in Contents, Create(g, n, p, c)
  PROVE  SerialInv'
<1> DEFINE k == Started("create", n)
<1>1. /\ job[g] = Idle /\ n \in unused /\ p \in live \cup {Top}
      /\ unused' = unused \ {n} /\ live' = live \cup {n}
      /\ content' = [content EXCEPT ![n] = c] /\ parent' = [parent EXCEPT ![n] = p]
      /\ Requested(g, k)
  BY DEF Create, Free, Started
<1>2. JobsOK /\ RowsOK /\ GraphOK /\ IdsUsedOnce /\ ParentsLive
  BY SerialParts
<1>3. k.op = "create" /\ k.kind = "create" /\ k.id = n /\ Due(k) = "load"
  BY StartedIs
<1> HIDE DEF k
<1>4. /\ Become(g, k) /\ job'[g] = k
      /\ letters' = letters /\ gnodes' = gnodes /\ gcontent' = gcontent
      /\ losses' = losses /\ crashes' = crashes
      /\ \A m, kind : Filed(m, kind)' <=> Filed(m, kind)
  BY <1>1, <1>2, RequestedIs
<1>5. Quiet /\ Alone(g)
  BY <1>1, <1>2, <1>3, <1>4, RequestAlone
<1>6. n \notin live /\ n \notin gnodes
  BY <1>1, <1>2 DEF RowsOK, IdsUsedOnce
<1>7. IdsUsedOnce'
  BY <1>1, <1>2, <1>4 DEF IdsUsedOnce, Dead
<1>8. ParentsLive'
  BY <1>1, <1>2 DEF ParentsLive, RowsOK
<1>9. ReadsHold(job[g])' /\ WritesHold(job[g])'
  BY <1>1, <1>3, <1>4 DEF ReadsHold, OpHolds, CommitHolds, LetterHolds, TextHolds, WritesHold
<1>10. ASSUME losses' = 0, crashes' = 0 PROVE (\A m \in Ids : Explained(m))'
  <2>1. ASSUME NEW m \in Ids, m # n PROVE Explained(m)'
    <3>1. Explained(m)
      BY <1>4, <1>10 DEF SerialInv
    <3>2. content'[m] = content[m] /\ (m \in live' <=> m \in live)
      BY <1>1, <1>2, <2>1 DEF RowsOK
    <3> QED
      BY <1>4, <1>5, <3>1, <3>2, QuietExplained DEF Explained
  <2>2. Explained(n)'
    BY <1>1, <1>3, <1>4, <1>6 DEF Explained
  <2> QED
    BY <2>1, <2>2
<1> QED
  BY <1>4, <1>5, <1>7, <1>8, <1>9, <1>10, AloneSerial

LEMMA UpdateSerial ==
  ASSUME SerialInv, Types', Serial,
         NEW g \in Jobs, NEW n \in Ids, NEW c \in Contents, Update(g, n, c)
  PROVE  SerialInv'
<1> DEFINE k == Started("update", n)
<1>1. /\ job[g] = Idle /\ n \in live /\ content' = [content EXCEPT ![n] = c]
      /\ live' = live /\ unused' = unused /\ parent' = parent /\ Requested(g, k)
  BY DEF Update, Free, Started
<1>2. JobsOK /\ RowsOK /\ GraphOK /\ IdsUsedOnce /\ ParentsLive
  BY SerialParts
<1>3. k.op = "update" /\ k.kind = "update" /\ k.id = n /\ Due(k) = "load"
  BY StartedIs
<1> HIDE DEF k
<1>4. /\ Become(g, k) /\ job'[g] = k
      /\ letters' = letters /\ gnodes' = gnodes /\ gcontent' = gcontent
      /\ losses' = losses /\ crashes' = crashes
      /\ \A m, kind : Filed(m, kind)' <=> Filed(m, kind)
  BY <1>1, <1>2, RequestedIs
<1>5. Quiet /\ Alone(g)
  BY <1>1, <1>2, <1>3, <1>4, RequestAlone
<1>6. IdsUsedOnce' /\ ParentsLive'
  BY <1>1, <1>2, <1>4 DEF IdsUsedOnce, Dead, ParentsLive
<1>7. ReadsHold(job[g])' /\ WritesHold(job[g])'
  BY <1>1, <1>3, <1>4 DEF ReadsHold, OpHolds, CommitHolds, LetterHolds, TextHolds, WritesHold
<1>8. ASSUME losses' = 0, crashes' = 0, NEW m \in Ids PROVE Explained(m)'
  <2>1. Explained(m)
    BY <1>4, <1>8 DEF SerialInv
  <2>2. m # n => content'[m] = content[m]
    BY <1>1, <1>2 DEF RowsOK
  <2> QED
    BY <1>1, <1>3, <1>4, <1>5, <2>1, <2>2, QuietExplained DEF Explained
<1> QED
  BY <1>4, <1>5, <1>6, <1>7, <1>8, AloneSerial

\* A request that changes nothing yet.
LEMMA ReadsSerial ==
  ASSUME SerialInv, Types', Serial, NEW g \in Jobs, NEW k, job[g] = Idle, Requested(g, k),
         UNCHANGED pgVars, k.op \in {"move", "delete"}, Due(k) = "commit", ReadsHold(k)
  PROVE  SerialInv'
<1>1. JobsOK /\ RowsOK /\ IdsUsedOnce /\ ParentsLive
  BY SerialParts
<1>2. /\ Become(g, k) /\ job'[g] = k
      /\ letters' = letters /\ gnodes' = gnodes /\ gcontent' = gcontent
      /\ losses' = losses /\ crashes' = crashes
      /\ \A m, kind : Filed(m, kind)' <=> Filed(m, kind)
  BY <1>1, RequestedIs
<1>3. Quiet /\ Alone(g)
  BY <1>1, <1>2, RequestAlone
<1>4. live' = live /\ unused' = unused /\ content' = content /\ parent' = parent
  BY DEF pgVars
<1>5. IdsUsedOnce' /\ ParentsLive'
  BY <1>1, <1>2, <1>4 DEF IdsUsedOnce, Dead, ParentsLive
<1>6. ReadsHold(job[g])'
  BY <1>2, ReadsNext
<1>7. WritesHold(job[g])'
  BY <1>2 DEF WritesHold
<1>8. ASSUME losses' = 0, crashes' = 0, NEW m \in Ids PROVE Explained(m)'
  <2>1. Explained(m)
    BY <1>2, <1>8 DEF SerialInv
  <2> QED
    BY <1>2, <1>3, <1>4, <2>1, QuietExplained DEF Explained
<1> QED
  BY <1>2, <1>3, <1>5, <1>6, <1>7, <1>8, AloneSerial

LEMMA MoveReadsSerial ==
  ASSUME SerialInv, Types', Serial, NEW g \in Jobs, NEW n \in Ids, NEW p \in Parents,
         MoveReads(g, n, p)
  PROVE  SerialInv'
<1> DEFINE k == MoveOf(n, parent[n], p)
<1>1. job[g] = Idle /\ n \in live /\ p \in live \cup {Top} /\ Requested(g, k) /\ UNCHANGED pgVars
  BY DEF MoveReads, MoveOf, Free
<1>2. parent[n] \in Parents
  BY SerialParts DEF RowsOK
<1>3. k.op = "move" /\ k.kind = "move" /\ k.id = n /\ k.from = parent[n] /\ k.to = p /\ Due(k) = "commit"
  BY <1>2, MoveOfIs
<1> HIDE DEF k
<1>4. ReadsHold(k)
  BY <1>1, <1>3 DEF ReadsHold, OpHolds, CommitHolds, LetterHolds, TextHolds
<1> QED
  BY <1>1, <1>3, <1>4, ReadsSerial

LEMMA DeleteReadsSerial ==
  ASSUME SerialInv, Types', Serial, NEW g \in Jobs, NEW S \in SUBSET Ids, DeleteReads(g, S)
  PROVE  SerialInv'
<1> DEFINE k == DeletionOf(S)
<1>1. job[g] = Idle /\ S \subseteq live /\ Requested(g, k) /\ UNCHANGED pgVars
  BY DEF DeleteReads, DeletionOf, Free
<1>2. k.op = "delete" /\ k.todo = Below(S) /\ k.roots = S /\ Due(k) = "commit"
  BY DeletionOfIs
<1> HIDE DEF k
<1>3. ReadsHold(k)
  BY <1>1, <1>2 DEF ReadsHold, OpHolds, CommitHolds, LetterHolds, TextHolds
<1> QED
  BY <1>1, <1>2, <1>3, ReadsSerial
LEMMA MoveCommitsSerial ==
  ASSUME SerialInv, Types', NEW g \in Jobs, MoveCommits(g)
  PROVE  SerialInv'
<1> DEFINE j == job[g]
<1>1. /\ j.op = "move" /\ At(g, "commit")
      /\ live' = live /\ unused' = unused /\ content' = content
      /\ letters' = letters /\ pending' = pending /\ gnodes' = gnodes /\ gcontent' = gcontent
      /\ losses' = losses /\ crashes' = crashes
  BY DEF MoveCommits, letterVars, graphVars, countVars
<1>2. JobsOK /\ RowsOK /\ IdsUsedOnce /\ ParentsLive /\ JobOK(j) /\ j.op # "idle" /\ Due(j) = "commit"
      /\ OpHolds(j) /\ CommitHolds(j)
  BY <1>1, SerialParts, JobIs
<1>3. Alone(g)
  BY <1>1, OthersIdle
<1>4. j.id \in live /\ j.to \in live \cup {Top} /\ j.kind = "move" /\ j.id \in Ids
  BY <1>1, <1>2 DEF CommitHolds, OpHolds, RowsOK
<1>5. parent' = [parent EXCEPT ![j.id] = j.to]
  BY <1>4 DEF MoveCommits
<1>6. PICK k : Become(g, k) /\ (k = Idle \/ (Kept(j, k) /\ k.kind = "move" /\ Due(k) \in GraphCalls \cup {"none"}))
  <2> DEFINE p == Plan(j)
             k == [j EXCEPT !.plan = p]
  <2>1. Become(g, k) \/ Become(g, Idle)
    BY <1>4 DEF MoveCommits
  <2>2. p \in Plans(j)
    BY <1>4, PlanTyped DEF Plans, Kinds
  <2>3. Kept(j, k) /\ k.kind = j.kind /\ k.plan = Plan(j)
    <3> HIDE DEF p
    <3>1. Kept(j, k) /\ k.kind = j.kind /\ k.plan = p
      BY <1>2, <2>2, OKPlanned
    <3> QED
      BY <3>1 DEF p
  <2> HIDE DEF k
  <2>4. Due(k) \in GraphCalls \cup {"none"}
    BY <1>4, <2>3, PlanDue DEF Kinds
  <2> QED
    BY <1>4, <2>1, <2>3, <2>4
<1>7. job'[g] = k
  BY <1>2, <1>6, Becomes
<1>8. IdsUsedOnce'
  BY <1>1, <1>2 DEF IdsUsedOnce, Dead
<1>9. ParentsLive'
  BY <1>1, <1>2, <1>4, <1>5 DEF ParentsLive, RowsOK
<1>10. ReadsHold(job[g])' /\ WritesHold(job[g])'
  BY <1>1, <1>6, <1>7, IdleIs
     DEF ReadsHold, OpHolds, CommitHolds, LetterHolds, TextHolds, WritesHold, GraphCalls, Kept, Deletes
<1>11. ASSUME losses' = 0, crashes' = 0, NEW m \in Ids PROVE Explained(m)'
  <2>1. Explained(m)
    BY <1>1, <1>11 DEF SerialInv
  <2>2. \A kind : Filed(m, kind)' <=> Filed(m, kind)
    BY <1>1 DEF Filed
  <2>3. \A h \in Jobs : /\ job[h].op \notin {"create", "update"}
                        /\ ~Deleting(job[h], m)
    BY <1>1, <1>3, IdleIs, IdleHolds DEF Alone, Deleting
  <2> QED
    BY <1>1, <2>1, <2>2, <2>3 DEF Explained
<1> QED
  BY <1>3, <1>6, <1>8, <1>9, <1>10, <1>11, AloneSerial

LEMMA DeleteCommitsSerial ==
  ASSUME SerialInv, Types', NEW g \in Jobs, NEW queued \in BOOLEAN, DeleteCommits(g, queued),
         crashes' = crashes, queued => losses' = losses, ~queued => losses' # 0
  PROVE  SerialInv'
<1> DEFINE j == job[g]
           p == [j EXCEPT !.plan = <<"next">>]
<1>1. /\ j.op = "delete" /\ At(g, "commit") /\ live' = live \ Below(j.roots)
      /\ unused' = unused /\ content' = content /\ parent' = parent
      /\ letters' = letters /\ pending' = pending /\ gnodes' = gnodes /\ gcontent' = gcontent
      /\ Become(g, IF queued THEN p ELSE Idle)
  BY DEF DeleteCommits, letterVars, graphVars
<1>2. JobsOK /\ RowsOK /\ IdsUsedOnce /\ ParentsLive /\ JobOK(j) /\ j.op # "idle" /\ Due(j) = "commit"
      /\ OpHolds(j) /\ CommitHolds(j)
  BY <1>1, SerialParts, JobIs
<1>3. Alone(g)
  BY <1>1, OthersIdle
<1>4. j.roots \subseteq live /\ j.todo = Below(j.roots) /\ Below(j.roots) \subseteq live
  BY <1>1, <1>2, BelowLive DEF CommitHolds
<1>5. Kept(j, p) /\ p.kind = j.kind /\ Due(p) = "next"
  <2>1. "next" \in Calls /\ CallOK(j, "next")
    BY DEF Calls, CallOK, GraphCalls
  <2> HIDE DEF j
  <2> QED
    BY <1>2, <2>1, NewCall
<1> HIDE DEF p
<1>6. job'[g] = IF queued THEN p ELSE Idle
  BY <1>1, <1>2, Becomes
<1>7. IdsUsedOnce'
  BY <1>1, <1>2 DEF IdsUsedOnce, Dead
<1>8. ParentsLive'
  <2> SUFFICES ASSUME NEW n \in live, n \notin Below(j.roots)
               PROVE  parent[n] \in live' \cup {Top}
    BY <1>1 DEF ParentsLive
  <2>1. parent[n] \in live \cup {Top}
    BY <1>2 DEF ParentsLive
  <2>2. parent[n] \notin Below(j.roots)
    BY <1>2, BelowClosed
  <2> QED
    BY <1>1, <2>1, <2>2
<1>9. ReadsHold(job[g])' /\ WritesHold(job[g])'
  <2>1. CASE queued
    <3>1. job'[g] = p /\ p.op = "delete" /\ p.todo = j.todo
      BY <1>1, <1>5, <1>6, <2>1 DEF Kept
    <3>2. \A n \in j.todo : n \notin live' /\ n \notin unused'
      BY <1>1, <1>2, <1>4 DEF RowsOK
    <3> QED
      BY <1>5, <3>1, <3>2
         DEF ReadsHold, OpHolds, CommitHolds, LetterHolds, TextHolds, WritesHold, Dead
  <2>2. CASE ~queued
    BY <1>6, <2>2, IdleIs
       DEF ReadsHold, OpHolds, CommitHolds, LetterHolds, TextHolds, WritesHold
  <2> QED
    BY <2>1, <2>2
<1>10. ASSUME losses' = 0, crashes' = 0, NEW m \in Ids PROVE Explained(m)'
  <2>1. Explained(m) /\ queued
    BY <1>10 DEF SerialInv
  <2>2. \A kind : Filed(m, kind)' <=> Filed(m, kind)
    BY <1>1 DEF Filed
  <2>3. \A h \in Jobs : /\ job[h].op \notin {"create", "update"}
                        /\ ~Deleting(job[h], m)
    BY <1>1, <1>2, <1>3, IdleIs, IdleHolds DEF Alone, Deleting
  <2>4. m \in Below(j.roots) => Deleting(job'[g], m)
    BY <1>1, <1>4, <1>5, <1>6, <2>1 DEF Deleting, Kept
  <2>5. m \in live' => m \in live
    BY <1>1
  <2>6. /\ m \in live /\ m \notin gnodes => Filed(m, "create")
        /\ m \in live /\ m \in gnodes /\ gcontent[m] # content[m] => Filed(m, "update")
        /\ m \notin live /\ m \in gnodes => Filed(m, DelKind(m))
    BY <2>1, <2>3 DEF Explained
  <2>7. m \notin live' /\ m \in gnodes' => Filed(m, DelKind(m))' \/ Deleting(job'[g], m)
    BY <1>1, <2>2, <2>4, <2>6
  <2> QED
    BY <1>1, <2>2, <2>5, <2>6, <2>7 DEF Explained
<1> QED
  BY <1>1, <1>3, <1>7, <1>8, <1>9, <1>10, AloneSerial

LEMMA BatchMoveSerial ==
  ASSUME SerialInv, Types', Serial, NEW S \in SUBSET Ids, NEW p \in Parents, BatchMove(S, p)
  PROVE  SerialInv'
<1>1. /\ p \in live \cup {Top} /\ job' = job
      /\ parent' = [n \in Ids |-> IF n \in S THEN p ELSE parent[n]]
      /\ live' = live /\ unused' = unused /\ content' = content
      /\ letters' = letters /\ pending' = pending /\ gnodes' = gnodes /\ gcontent' = gcontent
      /\ losses' = losses /\ crashes' = crashes
  BY DEF BatchMove, letterVars, graphVars
<1>2. Types /\ RowsOK /\ OneAtATime /\ IdsUsedOnce /\ ParentsLive
  BY SerialParts
<1>3. \A h \in Jobs : job[h] = Idle
  <2>1. batchMoves' # batchMoves
    BY <1>2, GraphSyncAssumption DEF BatchMove, Types, TypeOK
  <2> QED
    BY <2>1 DEF Serial, Quiet
<1>4. OneAtATime' /\ IdsUsedOnce'
  BY <1>1, <1>2 DEF OneAtATime, IdsUsedOnce, Dead
<1>5. ParentsLive'
  BY <1>1, <1>2 DEF ParentsLive, RowsOK
<1>6. ASSUME NEW h \in Jobs PROVE ReadsHold(job[h])' /\ WritesHold(job[h])'
  BY <1>1, <1>3, IdleIs DEF ReadsHold, OpHolds, CommitHolds, LetterHolds, TextHolds, WritesHold
<1>7. ASSUME losses' = 0, crashes' = 0, NEW m \in Ids PROVE Explained(m)'
  <2>1. Explained(m)
    BY <1>1, <1>7 DEF SerialInv
  <2>2. \A kind : Filed(m, kind)' <=> Filed(m, kind)
    BY <1>1 DEF Filed
  <2> QED
    BY <1>1, <2>1, <2>2 DEF Explained
<1> QED
  BY <1>4, <1>5, <1>6, <1>7 DEF SerialInv

LEMMA StutterSerial ==
  ASSUME SerialInv, Types', UNCHANGED vars
  PROVE  SerialInv'
<1>1. UNCHANGED <<pgVars, letterVars, graphVars, job, losses, crashes>>
  BY DEF vars, countVars
<1>2. /\ live' = live /\ unused' = unused /\ content' = content /\ parent' = parent
      /\ letters' = letters /\ pending' = pending /\ gnodes' = gnodes /\ gcontent' = gcontent
      /\ job' = job /\ losses' = losses /\ crashes' = crashes
  BY <1>1 DEF pgVars, letterVars, graphVars
<1>3. OneAtATime' /\ IdsUsedOnce' /\ ParentsLive'
  BY <1>2, SerialParts DEF OneAtATime, IdsUsedOnce, ParentsLive, Dead
<1>4. ASSUME NEW h \in Jobs PROVE ReadsHold(job[h])' /\ WritesHold(job[h])'
  BY <1>1, <1>2, SerialParts, ReadsNext DEF WritesHold
<1>5. ASSUME losses' = 0, crashes' = 0, NEW m \in Ids PROVE Explained(m)'
  <2>1. Explained(m)
    BY <1>2, <1>5 DEF SerialInv
  <2>2. \A kind : Filed(m, kind)' <=> Filed(m, kind)
    BY <1>2 DEF Filed
  <2> QED
    BY <1>2, <2>1, <2>2 DEF Explained
<1> QED
  BY <1>3, <1>4, <1>5 DEF SerialInv

LEMMA InitSerial == ASSUME Init PROVE SerialInv
<1>1. \A g \in Jobs : job[g] = Idle
  BY DEF Init
<1>2. Types
  BY InitTypes
<1>3. OneAtATime
  BY <1>1 DEF OneAtATime
<1>4. IdsUsedOnce /\ ParentsLive
  BY DEF Init, IdsUsedOnce, ParentsLive
<1>5. \A g \in Jobs : ReadsHold(job[g]) /\ WritesHold(job[g])
  BY <1>1, IdleHolds
<1>6. \A n \in Ids : Explained(n)
  BY DEF Init, Explained
<1> QED
  BY <1>2, <1>3, <1>4, <1>5, <1>6 DEF SerialInv

LEMMA NextSerial ==
  ASSUME SerialInv, [Next /\ Serial]_vars
  PROVE  SerialInv'
<1>1. Types'
  BY SerialParts, NextTypes
<1>2. CASE UNCHANGED vars
  BY <1>1, <1>2, StutterSerial
<1>3. CASE Next /\ Serial
  <2>1. ASSUME NEW g \in Jobs, Request(g) PROVE SerialInv'
    BY <1>1, <1>3, <2>1, CreateSerial, UpdateSerial, MoveReadsSerial, DeleteReadsSerial DEF Request
  <2>2. ASSUME NEW g \in Jobs, Progress(g) PROVE SerialInv'
    <3>1. CASE DeleteCommits(g, TRUE) /\ UNCHANGED countVars
      <4>1. losses' = losses /\ crashes' = crashes
        BY <3>1 DEF countVars
      <4> QED
        BY <1>1, <3>1, <4>1, DeleteCommitsSerial
    <3> QED
      BY <1>1, <2>2, <3>1, MoveCommitsSerial, LoadSerial, CallGraphSerial, WriteLetterSerial,
         MarkResolvedSerial, NextDeleteSerial, NextLetterSerial DEF Progress
  <2>3. ASSUME NEW g \in Jobs, QueueFails(g) PROVE SerialInv'
    <3>1. losses' # 0 /\ crashes' = crashes /\ DeleteCommits(g, FALSE)
      <4>1. losses \in 0..MaxLosses
        BY SerialParts DEF Types, TypeOK
      <4>2. losses' = losses + 1
        BY <2>3 DEF QueueFails
      <4>3. losses' # 0
        BY <4>1, <4>2
      <4>4. crashes' = crashes /\ DeleteCommits(g, FALSE)
        BY <2>3 DEF QueueFails
      <4> QED
        BY <4>3, <4>4
    <3> QED
      BY <1>1, <3>1, DeleteCommitsSerial
  <2>4. ASSUME NEW g \in Jobs, Replay(g) \/ GraphFails(g) \/ StoreFails(g) PROVE SerialInv'
    BY <1>1, <1>3, <2>4, ReplaySerial, GraphFailsSerial, StoreFailsSerial
  <2>5. CASE \E S \in SUBSET Ids, p \in Parents : BatchMove(S, p)
    BY <1>1, <1>3, <2>5, BatchMoveSerial
  <2>6. CASE Crash
    BY <1>1, <2>6, CrashSerial
  <2> QED
    BY <1>3, <2>1, <2>2, <2>3, <2>4, <2>5, <2>6 DEF Next
<1> QED
  BY <1>2, <1>3

\* A node that the graph does not show as PostgreSQL has it, when everything has come
\* to rest, has a letter that an administrator sees among the pending ones: of
\* requests that do not overlap, runWithRetry and failGraphSyncTask lose no task,
\* however its calls fail, succeed unseen, are retried and replayed.
THEOREM EveryDivergenceOnRecord == SerialSpec => []DivergenceOnRecord
<1>1. Init => SerialInv
  BY InitSerial
<1>2. SerialInv /\ [Next /\ Serial]_vars => SerialInv'
  BY NextSerial
<1>3. SerialInv => DivergenceOnRecord
  <2> SUFFICES ASSUME SerialInv, Quiet, losses = 0, crashes = 0, NEW n \in Ids,
                      \A k \in pending : letters[k].id # n
               PROVE  Mirrored(n)
    BY DEF DivergenceOnRecord
  <2>1. Explained(n)
    BY DEF SerialInv
  <2>2. \A kind : ~Filed(n, kind)
    BY DEF Filed
  <2> QED
    BY <2>1, <2>2, QuietExplained DEF Mirrored
<1> QED
  BY <1>1, <1>2, <1>3, PTL DEF SerialSpec
-----------------------------------------------------------------------------
(* Without failures.                                                       *)

Shape(j) == Creating(j) \/ Updating(j) \/ Moving(j) \/ Removing(j)

\* That the graph after a step is what k is to see of it.
NodesNext(k) ==
    \A n \in Ids : n \in gnodes' <=>
        /\ n \in live' \/ Deleting(k, n)
        /\ ~(k.op = "create" /\ Due(k) \in {"load", "create"} /\ n = k.id)
TextsNext(k) ==
    \A n \in gnodes' : gcontent'[n] = content'[n]
                       \/ (k.op = "update" /\ Due(k) \in {"load", "set"} /\ n = k.id)
LinkedNext(k, f, n) ==
    IF n = k.id /\ \/ k.op = "create" /\ Due(k) \in {"load", "create", "contain"}
                   \/ k.op = "move" /\ Due(k) = "contain"
    THEN FALSE
    ELSE IF n = k.id /\ k.op = "move" /\ Due(k) = "leave" THEN f = k.from
    ELSE n \in gnodes' /\ f \in gnodes' /\ parent'[n] = f
FoldersNext(k) ==
    \A f \in Folders, n \in Ids : contains'[f][n] = IF LinkedNext(k, f, n) THEN 1 ELSE 0
PairsNext(k) ==
    \A m, n \in Docs : m # n =>
        IF k.id \in {m, n} /\ k.op \in {"create", "update"}
        THEN Due(k) = "relate" \/ k.op = "create" => {m, n} \notin related'
        ELSE {m, n} \in related' <=> m \in gnodes' /\ n \in gnodes' /\ gcontent'[m] = gcontent'[n]
FitsNext(k) == NodesNext(k) /\ TextsNext(k) /\ FoldersNext(k) /\ PairsNext(k)

LEMMA FitsBecomes ==
  ASSUME NEW g \in Jobs, NEW k, job'[g] = k, FitsNext(k)
  PROVE  Fits(job[g])'
<1>1. NodesFit(job[g])' /\ TextsFit(job[g])'
  BY DEF FitsNext, NodesNext, TextsNext, NodesFit, TextsFit
<1>2. FoldersFit(job[g])'
  BY DEF FitsNext, FoldersNext, LinkedNext, FoldersFit, Linked
<1>3. PairsFit(job[g])'
  BY DEF FitsNext, PairsNext, PairsFit
<1> QED
  BY <1>1, <1>2, <1>3 DEF Fits

\* The graph and the job before a step ...
LEMMA CalmPre ==
  ASSUME CalmInv, Calm, NEW g \in Jobs, Alone(g)
  PROVE  /\ letters = <<>> /\ pending = {}
         /\ NodesFit(job[g]) /\ TextsFit(job[g]) /\ FoldersFit(job[g]) /\ PairsFit(job[g])
         /\ job[g] = Idle \/ Shape(job[g])
<1>1. letters = <<>> /\ (job[g] = Idle => Quiet)
  BY DEF CalmInv, Quiet, Alone
<1>2. pending = {}
  <2>1. pending \subseteq 1..Len(letters)
    BY SerialParts DEF CalmInv, LettersOK
  <2>2. Len(<<>>) = 0
    OBVIOUS
  <2> QED
    BY <1>1, <2>1, <2>2
<1>3. Fits(job[g])
  BY <1>1 DEF CalmInv, Quiet
<1> QED
  BY <1>1, <1>2, <1>3 DEF CalmInv, Shape, Fits

\* ... and after it.
LEMMA CalmStep ==
  ASSUME CalmInv, SerialInv', NEW g \in Jobs, NEW k, Become(g, k), Alone(g), letters' = letters,
         Calm' => Calm /\ FitsNext(k) /\ (k = Idle \/ Shape(job[g])')
  PROVE  CalmInv'
<1> SUFFICES ASSUME Calm'
             PROVE  /\ letters' = <<>>
                    /\ Quiet' => Fits(Idle)'
                    /\ \A h \in Jobs : job'[h] # Idle =>
                         /\ Fits(job[h])'
                         /\ (Creating(job[h]) \/ Updating(job[h]) \/ Moving(job[h]) \/ Removing(job[h]))'
  BY DEF CalmInv
<1>1. job'[g] = k /\ \A h \in Jobs : h # g => job'[h] = Idle
  <2>1. JobsOK
    BY SerialParts DEF CalmInv
  <2> QED
    BY <2>1, Becomes DEF Alone
<1>2. Fits(job[g])'
  BY <1>1, FitsBecomes
<1>3. ASSUME Quiet' PROVE Fits(Idle)'
  <2>1. FitsNext(Idle)
    BY <1>1, <1>3 DEF Quiet
  <2>2. NodesFit(Idle)' /\ TextsFit(Idle)'
    BY <2>1 DEF FitsNext, NodesNext, TextsNext, NodesFit, TextsFit
  <2>3. FoldersFit(Idle)'
    BY <2>1 DEF FitsNext, FoldersNext, LinkedNext, FoldersFit, Linked
  <2>4. PairsFit(Idle)'
    BY <2>1 DEF FitsNext, PairsNext, PairsFit
  <2> QED
    BY <2>2, <2>3, <2>4 DEF Fits
<1>4. letters' = <<>>
  BY DEF CalmInv
<1> QED
  BY <1>1, <1>2, <1>3, <1>4 DEF Shape

\* What the graph is beside an idle job, or one that has written nothing.
LEMMA Untouched ==
  ASSUME NEW j, NodesFit(j), TextsFit(j), FoldersFit(j), PairsFit(j),
         j.op = "idle" \/ (j.op \in {"move", "delete"} /\ Due(j) = "commit")
  PROVE  /\ \A n \in Ids : n \in gnodes <=> n \in live
         /\ \A n \in gnodes : gcontent[n] = content[n]
         /\ \A f \in Folders, n \in Ids :
              contains[f][n] = IF n \in gnodes /\ f \in gnodes /\ parent[n] = f THEN 1 ELSE 0
         /\ \A m, n \in Docs : m # n =>
              ({m, n} \in related <=> m \in gnodes /\ n \in gnodes /\ gcontent[m] = gcontent[n])
  BY DEF NodesFit, TextsFit, FoldersFit, Linked, PairsFit, Deleting

LEMMA CreateCalm ==
  ASSUME CalmInv, SerialInv', Serial,
         NEW g \in Jobs, NEW n \in Ids, NEW p \in Parents, NEW c \in Contents, Create(g, n, p, c)
  PROVE  CalmInv'
<1> DEFINE k == Started("create", n)
<1>1. /\ job[g] = Idle /\ n \in unused /\ p \in live \cup {Top}
      /\ live' = live \cup {n}
      /\ content' = [content EXCEPT ![n] = c] /\ parent' = [parent EXCEPT ![n] = p]
      /\ Requested(g, k)
  BY DEF Create, Free, Started
<1>2. JobsOK /\ RowsOK /\ GraphOK /\ IdsUsedOnce /\ ParentsLive
  BY SerialParts DEF CalmInv
<1>3. k.op = "create" /\ k.kind = "create" /\ k.id = n /\ Due(k) = "load" /\ k.plan = <<"load">>
      /\ k.todo = {}
  BY StartedIs
<1> HIDE DEF k
<1>4. /\ Become(g, k) /\ job'[g] = k /\ letters' = letters
      /\ gnodes' = gnodes /\ gcontent' = gcontent /\ contains' = contains /\ related' = related
      /\ Calm' => Calm
  BY <1>1, <1>2, RequestedIs DEF Requested, graphVars, Calm
<1>5. Quiet /\ Alone(g)
  BY <1>1, <1>2, <1>3, <1>4, RequestAlone
<1>6. n \notin live /\ n \notin gnodes /\ n # Top
  BY <1>1, <1>2, GraphSyncAssumption DEF RowsOK, IdsUsedOnce
<1>7. ASSUME Calm PROVE FitsNext(k)
  <2>1. NodesFit(Idle) /\ TextsFit(Idle) /\ FoldersFit(Idle) /\ PairsFit(Idle)
    BY <1>1, <1>5, <1>7, CalmPre
  <2>2. /\ \A m \in Ids : m \in gnodes <=> m \in live
        /\ \A m \in gnodes : gcontent[m] = content[m]
        /\ \A f \in Folders, m \in Ids :
             contains[f][m] = IF m \in gnodes /\ f \in gnodes /\ parent[m] = f THEN 1 ELSE 0
        /\ \A m, q \in Docs : m # q =>
             ({m, q} \in related <=> m \in gnodes /\ q \in gnodes /\ gcontent[m] = gcontent[q])
    BY <2>1, IdleIs, Untouched
  <2>3. NodesNext(k)
    BY <1>1, <1>3, <1>4, <1>6, <2>2 DEF NodesNext, Deleting
  <2>4. TextsNext(k)
    BY <1>1, <1>2, <1>4, <1>6, <2>2 DEF TextsNext, RowsOK, GraphOK
  <2>5. FoldersNext(k)
    <3> SUFFICES ASSUME NEW f \in Folders, NEW m \in Ids
                 PROVE  contains'[f][m] = IF LinkedNext(k, f, m) THEN 1 ELSE 0
      BY DEF FoldersNext
    <3>1. CASE m = n
      BY <1>3, <1>4, <1>6, <2>2, <3>1 DEF LinkedNext
    <3>2. CASE m # n
      <4>1. parent'[m] = parent[m]
        BY <1>1, <1>2, <3>2 DEF RowsOK
      <4> QED
        BY <1>3, <1>4, <2>2, <3>2, <4>1 DEF LinkedNext
    <3> QED
      BY <3>1, <3>2
  <2>6. PairsNext(k)
    BY <1>3, <1>4, <1>6, <2>2 DEF PairsNext
  <2> QED
    BY <2>3, <2>4, <2>5, <2>6 DEF FitsNext
<1>8. Shape(job[g])'
  <2>1. \A m \in live' : parent'[m] # n
    BY <1>1, <1>2, <1>6 DEF ParentsLive, RowsOK
  <2>2. Creating(job[g])'
    BY <1>3, <1>4, <2>1 DEF Creating
  <2> QED
    BY <2>2 DEF Shape
<1> QED
  BY <1>4, <1>5, <1>7, <1>8, CalmStep

LEMMA UpdateCalm ==
  ASSUME CalmInv, SerialInv', Serial,
         NEW g \in Jobs, NEW n \in Ids, NEW c \in Contents, Update(g, n, c)
  PROVE  CalmInv'
<1> DEFINE k == Started("update", n)
<1>1. /\ job[g] = Idle /\ n \in live /\ content' = [content EXCEPT ![n] = c]
      /\ live' = live /\ parent' = parent /\ Requested(g, k)
  BY DEF Update, Free, Started
<1>2. JobsOK /\ RowsOK /\ GraphOK
  BY SerialParts DEF CalmInv
<1>3. k.op = "update" /\ k.kind = "update" /\ k.id = n /\ Due(k) = "load" /\ k.plan = <<"load">>
  BY StartedIs
<1> HIDE DEF k
<1>4. /\ Become(g, k) /\ job'[g] = k /\ letters' = letters
      /\ gnodes' = gnodes /\ gcontent' = gcontent /\ contains' = contains /\ related' = related
      /\ Calm' => Calm
  BY <1>1, <1>2, RequestedIs DEF Requested, graphVars, Calm
<1>5. Quiet /\ Alone(g)
  BY <1>1, <1>2, <1>3, <1>4, RequestAlone
<1>6. ASSUME Calm PROVE FitsNext(k)
  <2>1. NodesFit(Idle) /\ TextsFit(Idle) /\ FoldersFit(Idle) /\ PairsFit(Idle)
    BY <1>1, <1>5, <1>6, CalmPre
  <2>2. /\ \A m \in Ids : m \in gnodes <=> m \in live
        /\ \A m \in gnodes : gcontent[m] = content[m]
        /\ \A f \in Folders, m \in Ids :
             contains[f][m] = IF m \in gnodes /\ f \in gnodes /\ parent[m] = f THEN 1 ELSE 0
        /\ \A m, q \in Docs : m # q =>
             ({m, q} \in related <=> m \in gnodes /\ q \in gnodes /\ gcontent[m] = gcontent[q])
    BY <2>1, IdleIs, Untouched
  <2>3. NodesNext(k)
    BY <1>1, <1>3, <1>4, <2>2 DEF NodesNext, Deleting
  <2>4. TextsNext(k)
    BY <1>1, <1>2, <1>3, <1>4, <2>2 DEF TextsNext, RowsOK, GraphOK
  <2>5. FoldersNext(k)
    BY <1>1, <1>3, <1>4, <2>2 DEF FoldersNext, LinkedNext
  <2>6. PairsNext(k)
    BY <1>3, <1>4, <2>2 DEF PairsNext
  <2> QED
    BY <2>3, <2>4, <2>5, <2>6 DEF FitsNext
<1>7. Shape(job[g])'
  BY <1>3, <1>4 DEF Shape, Updating
<1> QED
  BY <1>4, <1>5, <1>6, <1>7, CalmStep
\* A step that leaves the graph alone, to a job that sees of it what an idle one sees.
LEMMA UntouchedNext ==
  ASSUME NEW k, gnodes' = gnodes, gcontent' = gcontent, contains' = contains, related' = related,
         content' = content, parent' = parent,
         \A n \in Ids : n \in gnodes <=> n \in live' \/ Deleting(k, n),
         k.op \notin {"create", "update"}, k.op = "move" => Due(k) \notin {"leave", "contain"},
         \A n \in gnodes : gcontent[n] = content[n],
         \A f \in Folders, n \in Ids :
           contains[f][n] = IF n \in gnodes /\ f \in gnodes /\ parent[n] = f THEN 1 ELSE 0,
         \A m, n \in Docs : m # n =>
           ({m, n} \in related <=> m \in gnodes /\ n \in gnodes /\ gcontent[m] = gcontent[n])
  PROVE  FitsNext(k)
<1>1. NodesNext(k) /\ TextsNext(k)
  BY DEF NodesNext, TextsNext
<1>2. FoldersNext(k)
  BY DEF FoldersNext, LinkedNext
<1>3. PairsNext(k)
  BY DEF PairsNext
<1> QED
  BY <1>1, <1>2, <1>3 DEF FitsNext

LEMMA ReadsCalm ==
  ASSUME CalmInv, SerialInv', Serial, NEW g \in Jobs, NEW k, job[g] = Idle, Requested(g, k),
         UNCHANGED pgVars, k.op \in {"move", "delete"}, Due(k) = "commit", Shape(job[g])'
  PROVE  CalmInv'
<1>1. JobsOK
  BY SerialParts DEF CalmInv
<1>2. /\ Become(g, k) /\ job'[g] = k /\ letters' = letters
      /\ gnodes' = gnodes /\ gcontent' = gcontent /\ contains' = contains /\ related' = related
      /\ live' = live /\ content' = content /\ parent' = parent
      /\ Calm' => Calm
  BY <1>1, RequestedIs DEF Requested, graphVars, pgVars, Calm
<1>3. Alone(g)
  BY <1>1, <1>2, RequestAlone
<1>4. ASSUME Calm PROVE FitsNext(k)
  <2>1. NodesFit(Idle) /\ TextsFit(Idle) /\ FoldersFit(Idle) /\ PairsFit(Idle)
    BY <1>3, <1>4, CalmPre
  <2>2. /\ \A m \in Ids : m \in gnodes <=> m \in live
        /\ \A m \in gnodes : gcontent[m] = content[m]
        /\ \A f \in Folders, m \in Ids :
             contains[f][m] = IF m \in gnodes /\ f \in gnodes /\ parent[m] = f THEN 1 ELSE 0
        /\ \A m, q \in Docs : m # q =>
             ({m, q} \in related <=> m \in gnodes /\ q \in gnodes /\ gcontent[m] = gcontent[q])
    BY <2>1, IdleIs, Untouched
  <2>3. \A m \in Ids : ~Deleting(k, m)
    BY DEF Deleting
  <2>4. \A m \in Ids : m \in gnodes <=> m \in live' \/ Deleting(k, m)
    BY <1>2, <2>2, <2>3
  <2> QED
    BY <1>2, <2>2, <2>4, UntouchedNext
<1> QED
  BY <1>2, <1>3, <1>4, CalmStep

LEMMA MoveReadsCalm ==
  ASSUME CalmInv, SerialInv', Serial, NEW g \in Jobs, NEW n \in Ids, NEW p \in Parents,
         MoveReads(g, n, p)
  PROVE  CalmInv'
<1> DEFINE k == MoveOf(n, parent[n], p)
<1>1. job[g] = Idle /\ n \in live /\ Requested(g, k) /\ UNCHANGED pgVars
  BY DEF MoveReads, MoveOf, Free
<1>2. parent[n] \in Parents /\ JobsOK
  BY SerialParts DEF RowsOK, CalmInv
<1>3. k.op = "move" /\ k.id = n /\ Due(k) = "commit" /\ k.plan = <<"commit">>
  BY <1>2, MoveOfIs
<1> HIDE DEF k
<1>4. job'[g] = k /\ live' = live
  BY <1>1, <1>2, RequestedIs DEF pgVars
<1>5. Shape(job[g])'
  BY <1>1, <1>3, <1>4 DEF Shape, Moving
<1> QED
  BY <1>1, <1>3, <1>5, ReadsCalm

LEMMA DeleteReadsCalm ==
  ASSUME CalmInv, SerialInv', Serial, NEW g \in Jobs, NEW S \in SUBSET Ids, DeleteReads(g, S)
  PROVE  CalmInv'
<1> DEFINE k == DeletionOf(S)
<1>1. job[g] = Idle /\ Requested(g, k) /\ UNCHANGED pgVars
  BY DEF DeleteReads, DeletionOf, Free
<1>2. JobsOK
  BY SerialParts DEF CalmInv
<1>3. k.op = "delete" /\ Due(k) = "commit" /\ k.plan = <<"commit">>
  BY DeletionOfIs
<1> HIDE DEF k
<1>4. job'[g] = k
  BY <1>1, <1>2, RequestedIs
<1>5. Shape(job[g])'
  BY <1>3, <1>4 DEF Shape, Removing
<1> QED
  BY <1>1, <1>3, <1>5, ReadsCalm

\* The job that does a step: alone, and with the graph as it is to see it.
LEMMA Stepping ==
  ASSUME CalmInv, Calm, NEW g \in Jobs, NEW call, At(g, call)
  PROVE  LET j == job[g]
         IN /\ Alone(g) /\ letters = <<>> /\ pending = {} /\ Shape(j)
            /\ JobOK(j) /\ j \in Job /\ j.op \notin {"idle", "replay"} /\ Due(j) = call
            /\ call \notin {"next", "commit"} => j.id \in Ids
            /\ j.plan # <<>> /\ Head(j.plan) = call
            /\ NodesFit(j) /\ TextsFit(j) /\ FoldersFit(j) /\ PairsFit(j)
            /\ OpHolds(j) /\ CommitHolds(j) /\ TextHolds(j)
            /\ RowsOK /\ GraphOK /\ JobsOK /\ ParentsLive
<1> DEFINE j == job[g]
<1>1. /\ RowsOK /\ GraphOK /\ JobsOK /\ ParentsLive /\ Types
      /\ OpHolds(j) /\ CommitHolds(j) /\ TextHolds(j)
  BY SerialParts DEF CalmInv
<1>2. /\ JobOK(j) /\ j \in Job /\ j.op # "idle" /\ Due(j) = call
      /\ call \notin {"next", "commit"} => j.id \in Ids
      /\ j.plan # <<>> /\ Head(j.plan) = call
  BY <1>1, JobIs
<1>3. Shape(j)
  BY <1>2, IdleIs DEF CalmInv, Shape
<1>4. j.op # "replay"
  BY <1>3 DEF Shape, Creating, Updating, Moving, Removing
<1>5. Alone(g)
  BY <1>2, <1>4, OthersIdle DEF CalmInv
<1> HIDE DEF j
<1> QED
  BY <1>1, <1>2, <1>3, <1>4, <1>5, CalmPre DEF j

LEMMA DeleteCommitsCalm ==
  ASSUME CalmInv, SerialInv', NEW g \in Jobs, DeleteCommits(g, TRUE), UNCHANGED countVars
  PROVE  CalmInv'
<1> DEFINE j == job[g]
           k == [j EXCEPT !.plan = <<"next">>]
<1>1. /\ j.op = "delete" /\ At(g, "commit") /\ live' = live \ Below(j.roots)
      /\ content' = content /\ parent' = parent /\ letters' = letters
      /\ gnodes' = gnodes /\ gcontent' = gcontent /\ contains' = contains /\ related' = related
      /\ Become(g, k) /\ (Calm' => Calm)
  BY DEF DeleteCommits, letterVars, graphVars, countVars, Calm
<1>2. JobsOK /\ RowsOK /\ JobOK(j) /\ Due(j) = "commit" /\ j.op # "idle" /\ CommitHolds(j)
  BY <1>1, SerialParts, JobIs DEF CalmInv
<1>3. Alone(g)
  BY <1>1, OthersIdle DEF CalmInv
<1>4. j.todo = Below(j.roots) /\ Below(j.roots) \subseteq live
  BY <1>1, <1>2, BelowLive DEF CommitHolds
<1>5. Kept(j, k) /\ k.kind = j.kind /\ Due(k) = "next" /\ k.plan = <<"next">>
  <2>1. "next" \in Calls /\ CallOK(j, "next")
    BY DEF Calls, CallOK, GraphCalls
  <2> HIDE DEF j
  <2> QED
    BY <1>2, <2>1, NewCall
<1> HIDE DEF k
<1>6. job'[g] = k
  BY <1>1, <1>2, Becomes
<1>7. Shape(job[g])'
  BY <1>1, <1>5, <1>6 DEF Shape, Removing, Kept
<1>8. ASSUME Calm PROVE FitsNext(k)
  <2>1. NodesFit(j) /\ TextsFit(j) /\ FoldersFit(j) /\ PairsFit(j)
    BY <1>3, <1>8, CalmPre
  <2>2. /\ \A m \in Ids : m \in gnodes <=> m \in live
        /\ \A m \in gnodes : gcontent[m] = content[m]
        /\ \A f \in Folders, m \in Ids :
             contains[f][m] = IF m \in gnodes /\ f \in gnodes /\ parent[m] = f THEN 1 ELSE 0
        /\ \A m, q \in Docs : m # q =>
             ({m, q} \in related <=> m \in gnodes /\ q \in gnodes /\ gcontent[m] = gcontent[q])
    BY <1>1, <1>2, <2>1, Untouched
  <2>3. \A m \in Ids : Deleting(k, m) <=> m \in Below(j.roots)
    BY <1>1, <1>4, <1>5 DEF Deleting, Kept
  <2>4. \A m \in Ids : m \in gnodes <=> m \in live' \/ Deleting(k, m)
    BY <1>1, <1>4, <2>2, <2>3
  <2>5. k.op = "delete"
    BY <1>1, <1>5 DEF Kept
  <2> QED
    BY <1>1, <2>2, <2>4, <2>5, UntouchedNext
<1> QED
  BY <1>1, <1>3, <1>7, <1>8, CalmStep

LEMMA NextDeleteCalm ==
  ASSUME CalmInv, SerialInv', NEW g \in Jobs, NEW n \in job[g].todo, NextDelete(g, n)
  PROVE  CalmInv'
<1> DEFINE j == job[g]
           k == Taken(j, n)
<1>1. /\ j.op = "delete" /\ At(g, "next") /\ Become(g, k)
      /\ live' = live /\ content' = content /\ parent' = parent /\ letters' = letters
      /\ gnodes' = gnodes /\ gcontent' = gcontent /\ contains' = contains /\ related' = related
      /\ (Calm' => Calm)
  BY DEF NextDelete, Taken, letterVars, countVars, pgVars, graphVars, Calm
<1>2. JobsOK /\ JobOK(j) /\ Due(j) = "next"
  BY <1>1, SerialParts, JobIs DEF CalmInv
<1>3. Alone(g)
  BY <1>1, OthersIdle DEF CalmInv
<1>4. /\ k.op = "delete" /\ k.kind = "delDoc" /\ k.id = n /\ k.todo = j.todo \ {n} /\ Due(k) = "detach"
      /\ k.plan = <<"detach">>
  BY <1>1, <1>2, NextDeleteIs
<1> HIDE DEF k
<1>5. job'[g] = k
  BY <1>1, <1>2, Becomes
<1>6. Shape(job[g])'
  BY <1>4, <1>5 DEF Shape, Removing
<1>7. ASSUME Calm PROVE FitsNext(k)
  <2>1. NodesFit(j) /\ TextsFit(j) /\ FoldersFit(j) /\ PairsFit(j)
    BY <1>3, <1>7, CalmPre
  <2>2. \A m \in Ids : Deleting(k, m) <=> Deleting(j, m)
    BY <1>1, <1>2, <1>4 DEF Deleting
  <2>3. NodesNext(k)
    BY <1>1, <1>4, <2>1, <2>2 DEF NodesNext, NodesFit
  <2>4. TextsNext(k)
    BY <1>1, <1>4, <2>1 DEF TextsNext, TextsFit
  <2>5. FoldersNext(k)
    BY <1>1, <1>4, <2>1 DEF FoldersNext, LinkedNext, FoldersFit, Linked
  <2>6. PairsNext(k)
    BY <1>1, <1>4, <2>1 DEF PairsNext, PairsFit
  <2> QED
    BY <2>3, <2>4, <2>5, <2>6 DEF FitsNext
<1> QED
  BY <1>1, <1>3, <1>6, <1>7, CalmStep

LEMMA LoadCalm ==
  ASSUME CalmInv, SerialInv', NEW g \in Jobs, Load(g)
  PROVE  CalmInv'
<1> DEFINE j == job[g]
           n == [j EXCEPT !.text = content[j.id],
                          !.to = IF j.kind \in {"create", "move"} THEN parent[j.id] ELSE j.to]
           k == [n EXCEPT !.plan = Plan(n)]
<1>1. /\ At(g, "load")
      /\ live' = live /\ content' = content /\ parent' = parent /\ letters' = letters
      /\ gnodes' = gnodes /\ gcontent' = gcontent /\ contains' = contains /\ related' = related
      /\ (Calm' <=> Calm)
      /\ Become(g, IF j.id \in live THEN k ELSE IF j.op = "replay" THEN Retried(j) ELSE Idle)
  BY DEF Load, letterVars, countVars, pgVars, graphVars, Calm
<1>2. ASSUME ~Calm' PROVE CalmInv'
  BY <1>2 DEF CalmInv
<1>3. ASSUME Calm PROVE CalmInv'
  <2>1. /\ Alone(g) /\ Shape(j) /\ JobOK(j) /\ j \in Job /\ j.op \notin {"idle", "replay"}
        /\ Due(j) = "load" /\ j.id \in Ids /\ CallOK(j, "load")
        /\ NodesFit(j) /\ TextsFit(j) /\ FoldersFit(j) /\ PairsFit(j)
        /\ OpHolds(j) /\ JobsOK /\ Types
    BY <1>1, <1>3, Stepping, SerialParts, JobIs DEF CalmInv
  <2>2. j.op \in {"create", "update"} /\ j.kind = j.op /\ j.id \in live
    BY <2>1 DEF CallOK, OpHolds
  <2>3. /\ JobOK(k) /\ k.op = j.op /\ k.id = j.id /\ k.kind = j.kind
        /\ k.todo = j.todo /\ k.plan = Plan(k)
        /\ k.to = (IF j.kind \in {"create", "move"} THEN parent[j.id] ELSE j.to)
    BY <2>1, <2>2, LoadIs
  <2>4. Become(g, k)
    BY <1>1, <2>2
  <2> HIDE DEF k
  <2>5. job'[g] = k
    BY <2>1, <2>4, Becomes
  <2>6. /\ k.kind = "create" =>
             Due(k) = "create" /\ k.plan = <<"create">> \o (If(k.to # Top, "contain") \o Relations(k.id))
        /\ k.kind = "update" => Due(k) = "set" /\ k.plan = <<"set">> \o Relations(k.id)
    <3>1. k.kind \in Kinds /\ k.id \in Ids
      BY <2>1, <2>2, <2>3 DEF Kinds
    <3>2. /\ k.kind = "create" => Due(k) = "create"
          /\ k.kind = "update" => Due(k) = "set"
      BY <2>3, <3>1, PlanDue
    <3> QED
      BY <2>3, <3>2, PlanIs
  <2>7. Shape(job[g])'
    <3>1. CASE j.op = "create"
      <4>1. Creating(j)
        BY <2>1, <3>1 DEF Shape, Creating, Updating, Moving, Removing
      <4>2. /\ k.op = "create" /\ k.todo = {} /\ k.to = parent[k.id]
            /\ \A m \in live : parent[m] # k.id
        BY <2>1, <2>2, <2>3, <3>1, <4>1 DEF Creating
      <4>3. k.plan = <<"create">> \o (If(k.to # Top, "contain") \o Relations(k.id))
        BY <2>2, <2>3, <2>6, <3>1
      <4>4. Creating(job[g])'
        BY <1>1, <2>5, <4>2, <4>3 DEF Creating
      <4> QED
        BY <4>4 DEF Shape
    <3>2. CASE j.op = "update"
      BY <2>2, <2>3, <2>5, <2>6, <3>2 DEF Shape, Updating
    <3> QED
      BY <2>2, <3>1, <3>2
  <2>8. FitsNext(k)
    <3>1. \A m \in Ids : ~Deleting(k, m) /\ ~Deleting(j, m)
      BY <2>2, <2>3 DEF Deleting
    <3>2. NodesNext(k)
      BY <1>1, <2>1, <2>2, <2>3, <2>6, <3>1 DEF NodesNext, NodesFit
    <3>3. TextsNext(k)
      BY <1>1, <2>1, <2>2, <2>3, <2>6 DEF TextsNext, TextsFit
    <3>4. FoldersNext(k)
      BY <1>1, <2>1, <2>2, <2>3, <2>6 DEF FoldersNext, LinkedNext, FoldersFit, Linked
    <3>5. PairsNext(k)
      BY <1>1, <2>1, <2>2, <2>3, <2>6 DEF PairsNext, PairsFit
    <3> QED
      BY <3>2, <3>3, <3>4, <3>5 DEF FitsNext
  <2> QED
    BY <1>1, <2>1, <2>4, <2>7, <2>8, CalmStep
<1> QED
  BY <1>1, <1>2, <1>3

\* The calls of a move that has been committed.
LEMMA MovePlanIs ==
  ASSUME NEW j, j.kind = "move", j.from # j.to
  PROVE  /\ j.from # Top => Plan(j) = <<"leave">> \o (If(j.to # Top, "contain") \o Place(j.id))
         /\ j.from = Top => j.to # Top /\ Plan(j) = <<"contain">> \o Place(j.id)
<1> DEFINE c == If(j.to # Top, "contain")
           p == Place(j.id)
<1>1. Plan(j) = If(j.from # Top, "leave") \o (c \o p) /\ c \in Seq(Calls) /\ p \in Seq(Calls)
  BY PlanIs
<1>2. c \o p \in Seq(Calls)
  BY <1>1, ConcatProperties
<1>3. ASSUME j.from # Top PROVE Plan(j) = <<"leave">> \o (c \o p)
  BY <1>1, <1>3 DEF If
<1>4. ASSUME j.from = Top PROVE j.to # Top /\ Plan(j) = <<"contain">> \o p
  <2>1. j.to # Top /\ c = <<"contain">> /\ If(j.from # Top, "leave") = <<>>
    BY <1>4 DEF If
  <2> HIDE DEF c, p
  <2>2. Plan(j) = c \o p
    BY <1>1, <1>2, <2>1, ConcatEmptySeq
  <2> QED
    BY <2>1, <2>2
<1> QED
  BY <1>3, <1>4

LEMMA MoveCommitsCalm ==
  ASSUME CalmInv, SerialInv', NEW g \in Jobs, MoveCommits(g)
  PROVE  CalmInv'
<1> DEFINE j == job[g]
           k == [j EXCEPT !.plan = Plan(j)]
<1>1. /\ j.op = "move" /\ At(g, "commit")
      /\ live' = live /\ content' = content /\ letters' = letters
      /\ gnodes' = gnodes /\ gcontent' = gcontent /\ contains' = contains /\ related' = related
      /\ (Calm' <=> Calm)
  BY DEF MoveCommits, letterVars, graphVars, countVars, Calm
<1>2. ASSUME ~Calm' PROVE CalmInv'
  BY <1>2 DEF CalmInv
<1>3. ASSUME Calm PROVE CalmInv'
  <2>1. /\ Alone(g) /\ JobOK(j) /\ j \in Job /\ j.op # "idle" /\ Due(j) = "commit"
        /\ NodesFit(j) /\ TextsFit(j) /\ FoldersFit(j) /\ PairsFit(j)
        /\ OpHolds(j) /\ CommitHolds(j) /\ JobsOK /\ RowsOK /\ ParentsLive
    BY <1>1, <1>3, Stepping
  <2>2. /\ j.id \in live /\ j.id \in Ids /\ j.from = parent[j.id] /\ j.to \in live \cup {Top}
        /\ j.kind = "move" /\ j.from \in Parents /\ j.to \in Parents
    BY <1>1, <2>1, JobFields DEF CommitHolds, OpHolds, RowsOK
  <2>3. /\ parent' = [parent EXCEPT ![j.id] = j.to]
        /\ Become(g, IF j.from # j.to THEN k ELSE Idle)
    BY <2>2 DEF MoveCommits
  <2>4. /\ \A n \in Ids : n \in gnodes <=> n \in live
        /\ \A n \in gnodes : gcontent[n] = content[n]
        /\ \A f \in Folders, n \in Ids :
             contains[f][n] = IF n \in gnodes /\ f \in gnodes /\ parent[n] = f THEN 1 ELSE 0
        /\ \A m, n \in Docs : m # n =>
             ({m, n} \in related <=> m \in gnodes /\ n \in gnodes /\ gcontent[m] = gcontent[n])
    BY <1>1, <2>1, Untouched
  <2>5. CASE j.from = j.to
    <3>1. parent' = parent
      BY <2>1, <2>2, <2>3, <2>5 DEF RowsOK
    <3>2. \A n \in Ids : n \in gnodes <=> n \in live' \/ Deleting(Idle, n)
      BY <1>1, <2>4, IdleHolds
    <3>3. Idle.op = "idle"
      BY IdleIs
    <3>4. FitsNext(Idle)
      BY <1>1, <2>4, <3>1, <3>2, <3>3, UntouchedNext
    <3> QED
      BY <1>1, <1>3, <2>1, <2>3, <2>5, <3>4, CalmStep
  <2>6. CASE j.from # j.to
    <3>1. Kept(j, k) /\ k.kind = j.kind /\ k.plan = Plan(j)
      <4> DEFINE p == Plan(j)
      <4>1. p \in Plans(j)
        BY <2>1, <2>2, PlanTyped DEF Plans, Kinds
      <4> HIDE DEF p
      <4>2. LET i == [j EXCEPT !.plan = p] IN Kept(j, i) /\ i.kind = j.kind /\ i.plan = p
        BY <2>1, <4>1, OKPlanned
      <4> QED
        BY <4>2 DEF p
    <3>2. Become(g, k)
      BY <2>3, <2>6
    <3> HIDE DEF k
    <3>3. job'[g] = k
      BY <2>1, <3>2, Becomes
    <3>4. k.op = "move" /\ k.id = j.id /\ k.from = j.from /\ k.to = j.to
      BY <1>1, <3>1 DEF Kept
    <3>5. \/ /\ j.from # Top /\ Due(k) = "leave"
             /\ k.plan = <<"leave">> \o (If(k.to # Top, "contain") \o Place(k.id))
          \/ /\ j.from = Top /\ k.to # Top /\ Due(k) = "contain"
             /\ k.plan = <<"contain">> \o Place(k.id)
      <4> DEFINE t == If(k.to # Top, "contain") \o Place(k.id)
                 u == Place(k.id)
      <4>1. t \in Seq(Calls) /\ u \in Seq(Calls) /\ "leave" \in Calls /\ "contain" \in Calls
        <5>1. If(k.to # Top, "contain") \in Seq(Calls) /\ u \in Seq(Calls)
          BY PlanIs
        <5> QED
          BY <5>1, ConcatProperties DEF Calls
      <4>2. /\ j.from # Top => k.plan = <<"leave">> \o t
            /\ j.from = Top => k.to # Top /\ k.plan = <<"contain">> \o u
        BY <2>2, <2>6, <3>1, <3>4, MovePlanIs
      <4> HIDE DEF t, u
      <4>3. ASSUME NEW c \in Calls, NEW s \in Seq(Calls), k.plan = <<c>> \o s PROVE Due(k) = c
        <5> DEFINE p == <<c>> \o s
        <5>1. p # <<>> /\ Head(p) = c
          BY Cons
        <5> QED
          BY <4>3, <5>1 DEF Due
      <4> QED
        BY <4>1, <4>2, <4>3 DEF t, u
    <3>6. parent'[j.id] = j.to /\ \A n \in Ids : n # j.id => parent'[n] = parent[n]
      BY <2>1, <2>2, <2>3 DEF RowsOK
    <3>7. Moving(job[g])'
      <4>1. k.op = "move" /\ k.id \in live /\ k.to = parent'[k.id] /\ k.to # k.from
        BY <2>2, <2>6, <3>4, <3>6
      <4>2. \/ k.plan = <<"leave">> \o (If(k.to # Top, "contain") \o Place(k.id)) /\ k.from # Top
            \/ k.plan = <<"contain">> \o Place(k.id) /\ k.to # Top
        BY <3>4, <3>5
      <4> QED
        BY <1>1, <3>3, <4>1, <4>2 DEF Moving
    <3>8. NodesNext(k) /\ TextsNext(k) /\ PairsNext(k)
      BY <1>1, <2>4, <3>4 DEF NodesNext, TextsNext, PairsNext, Deleting
    <3>9. FoldersNext(k)
      <4> SUFFICES ASSUME NEW f \in Folders, NEW n \in Ids
                   PROVE  contains'[f][n] = IF LinkedNext(k, f, n) THEN 1 ELSE 0
        BY DEF FoldersNext
      <4>1. contains'[f][n] = IF n \in gnodes /\ f \in gnodes /\ parent[n] = f THEN 1 ELSE 0
        BY <1>1, <2>4
      <4>2. f # Top /\ f \in Ids
        BY GraphSyncAssumption DEF Ids
      <4>3. CASE n = j.id
        <5>1. CASE Due(k) = "leave"
          <6>1. f = j.from => f \in gnodes /\ n \in gnodes
            BY <2>1, <2>2, <2>4, <4>2, <4>3 DEF ParentsLive
          <6>2. LinkedNext(k, f, n) <=> f = j.from
            BY <3>4, <4>3, <5>1 DEF LinkedNext
          <6> QED
            BY <2>2, <4>1, <4>3, <6>1, <6>2
        <5>2. CASE Due(k) = "contain" /\ j.from = Top
          <6>1. ~LinkedNext(k, f, n)
            BY <3>4, <4>3, <5>2 DEF LinkedNext
          <6> QED
            BY <2>2, <4>1, <4>2, <4>3, <5>2, <6>1
        <5> QED
          BY <3>5, <5>1, <5>2
      <4>4. CASE n # j.id
        BY <1>1, <3>4, <3>6, <4>1, <4>4 DEF LinkedNext
      <4> QED
        BY <4>3, <4>4
    <3> QED
      BY <1>1, <1>3, <2>1, <3>2, <3>7, <3>8, <3>9, CalmStep DEF Shape, FitsNext
  <2> QED
    BY <2>5, <2>6
<1> QED
  BY <1>1, <1>2, <1>3

\* What is left of a plan.
LEMMA RestIs ==
  ASSUME NEW j, JobOK(j), j.id \in Ids, j.op \in {"create", "update", "move"},
         NEW c \in Calls, NEW s \in Seq(Calls), j.plan = <<c>> \o s
  PROVE  LET k == Done(j)
         IN /\ Due(j) = c
            /\ s # <<>> => Kept(j, k) /\ k.kind = j.kind /\ k.plan = s /\ Due(k) = Head(s)
            /\ s = <<>> => k = Idle
<1> DEFINE p == <<c>> \o s
           k == Done(j)
<1>1. p # <<>> /\ Head(p) = c /\ Tail(p) = s /\ Len(s) \in Nat /\ Len(p) = Len(s) + 1
      /\ (Len(p) > 1 <=> s # <<>>)
  BY Cons
<1>2. j.plan = p /\ Due(j) = c
  BY <1>1 DEF Due
<1> HIDE DEF p
<1>3. j.todo = {} /\ j.op # "idle"
  BY DEF JobOK
<1>4. \/ Kept(j, k) /\ k.kind = j.kind /\ k.plan = s /\ k.plan # <<>>
      \/ Len(p) = 1 /\ k = Onward(j)
  BY <1>1, <1>2, DoneIs
<1>5. Onward(j) = Idle
  BY <1>3, OnwardIs
<1>6. s = <<>> => Len(p) = 1
  BY <1>1, EmptySeq
<1>7. s = <<>> => k = Idle
  BY <1>4, <1>5
<1>8. s # <<>> => Kept(j, k) /\ k.kind = j.kind /\ k.plan = s
  BY <1>1, <1>4
<1> HIDE DEF k
<1>9. s # <<>> => Due(k) = Head(s)
  BY <1>8 DEF Due
<1> QED
  BY <1>2, <1>7, <1>8, <1>9 DEF k

\* The calls that are left of each shape.
LEMMA RelationsLeft ==
  ASSUME NEW j, JobOK(j), j.id \in Ids, j.op \in {"create", "update"},
         NEW c \in Calls, j.plan = <<c>> \o Relations(j.id)
  PROVE  LET k == Done(j)
         IN /\ Due(j) = c
            /\ \/ /\ j.id \in Docs /\ Kept(j, k) /\ k.kind = j.kind
                  /\ k.plan = <<"unrelate", "relate">> /\ Due(k) = "unrelate"
               \/ j.id \notin Docs /\ k = Idle
<1> DEFINE s == Relations(j.id)
<1>1. /\ s \in Seq(Calls)
      /\ j.id \in Docs => s = <<"unrelate", "relate">> /\ s # <<>> /\ Head(s) = "unrelate"
      /\ j.id \notin Docs => s = <<>>
  <2>1. s \in Seq(Calls)
    BY PlanIs
  <2>2. /\ j.id \in Docs => s = <<"unrelate", "relate">>
        /\ j.id \notin Docs => s = <<>>
    BY DEF Relations
  <2>3. LET p == <<"unrelate", "relate">> IN p # <<>> /\ Head(p) = "unrelate"
    OBVIOUS
  <2> HIDE DEF s
  <2> QED
    BY <2>1, <2>2, <2>3
<1> HIDE DEF s
<1>2. LET k == Done(j)
      IN /\ Due(j) = c
         /\ s # <<>> => Kept(j, k) /\ k.kind = j.kind /\ k.plan = s /\ Due(k) = Head(s)
         /\ s = <<>> => k = Idle
  <2>1. j.plan = <<c>> \o s
    BY DEF s
  <2> QED
    BY <1>1, <2>1, RestIs
<1> QED
  BY <1>1, <1>2

LEMMA RelatesLeft ==
  ASSUME NEW j, JobOK(j), j.id \in Ids, j.op \in {"create", "update"},
         j.plan \in {<<"unrelate", "relate">>, <<"relate">>}
  PROVE  LET k == Done(j)
         IN \/ /\ Due(j) = "unrelate" /\ Kept(j, k) /\ k.kind = j.kind
               /\ k.plan = <<"relate">> /\ Due(k) = "relate"
            \/ Due(j) = "relate" /\ k = Idle
<1>1. "unrelate" \in Calls /\ "relate" \in Calls
  BY DEF Calls
<1>2. CASE j.plan = <<"unrelate", "relate">>
  <2> DEFINE s == <<"relate">>
  <2>1. s \in Seq(Calls) /\ j.plan = <<"unrelate">> \o s /\ s # <<>> /\ Head(s) = "relate"
    BY <1>1, <1>2
  <2> HIDE DEF s
  <2>2. LET k == Done(j)
        IN Due(j) = "unrelate" /\ Kept(j, k) /\ k.kind = j.kind /\ k.plan = s /\ Due(k) = "relate"
    BY <1>1, <2>1, RestIs
  <2> QED
    BY <2>2 DEF s
<1>3. CASE j.plan = <<"relate">>
  <2> DEFINE s == <<>>
  <2>1. s \in Seq(Calls) /\ j.plan = <<"relate">> \o s /\ s = <<>>
    BY <1>1, <1>3
  <2> HIDE DEF s
  <2> QED
    BY <1>1, <2>1, RestIs
<1> QED
  BY <1>2, <1>3

LEMMA CreateLeft ==
  ASSUME NEW j, JobOK(j), j.id \in Ids, Creating(j), Due(j) # "load"
  PROVE  LET k == Done(j)
         IN \/ /\ Due(j) = "create" /\ j.to # Top /\ Kept(j, k) /\ k.kind = j.kind
               /\ k.plan = <<"contain">> \o Relations(k.id) /\ Due(k) = "contain"
            \/ /\ (Due(j) = "create" /\ j.to = Top) \/ (Due(j) = "contain" /\ j.to # Top)
               /\ \/ /\ j.id \in Docs /\ Kept(j, k) /\ k.kind = j.kind
                     /\ k.plan = <<"unrelate", "relate">> /\ Due(k) = "unrelate"
                  \/ j.id \notin Docs /\ k = Idle
            \/ /\ Due(j) = "unrelate" /\ j.id \in Docs /\ Kept(j, k) /\ k.kind = j.kind
               /\ k.plan = <<"relate">> /\ Due(k) = "relate"
            \/ Due(j) = "relate" /\ j.id \in Docs /\ k = Idle
<1>1. j.op = "create" /\ "create" \in Calls /\ "contain" \in Calls
  BY DEF Creating, Calls
<1>2. CASE j.plan = <<"create">> \o (If(j.to # Top, "contain") \o Relations(j.id))
  <2> DEFINE r == Relations(j.id)
  <2>1. r \in Seq(Calls)
    BY PlanIs
  <2>2. CASE j.to # Top
    <3> DEFINE s == <<"contain">> \o r
    <3>1. j.plan = <<"create">> \o s
      BY <1>2, <2>2 DEF If
    <3> HIDE DEF r
    <3>2. s \in Seq(Calls) /\ s # <<>> /\ Head(s) = "contain"
      BY <1>1, <2>1, Cons
    <3> HIDE DEF s
    <3>3. LET k == Done(j)
          IN Due(j) = "create" /\ Kept(j, k) /\ k.kind = j.kind /\ k.plan = s /\ Due(k) = "contain"
      BY <1>1, <3>1, <3>2, RestIs
    <3> QED
      BY <2>2, <3>3 DEF Kept, s, r
  <2>3. CASE j.to = Top
    <3>1. If(j.to # Top, "contain") = <<>>
      BY <2>3 DEF If
    <3> HIDE DEF r
    <3>2. <<>> \o r = r
      BY <2>1, ConcatEmptySeq
    <3>3. j.plan = <<"create">> \o Relations(j.id)
      BY <1>2, <3>1, <3>2 DEF r
    <3> QED
      BY <1>1, <2>3, <3>3, RelationsLeft
  <2> QED
    BY <2>2, <2>3
<1>3. CASE j.plan = <<"contain">> \o Relations(j.id) /\ j.to # Top
  BY <1>1, <1>3, RelationsLeft
<1>4. CASE j.plan \in {<<"unrelate", "relate">>, <<"relate">>} /\ j.id \in Docs
  BY <1>1, <1>4, RelatesLeft
<1>5. j.plan # <<"load">>
  <2>1. <<"load">> # <<>> /\ Head(<<"load">>) = "load"
    OBVIOUS
  <2> QED
    BY <2>1 DEF Due
<1> QED
  BY <1>2, <1>3, <1>4, <1>5 DEF Creating

LEMMA UpdateLeft ==
  ASSUME NEW j, JobOK(j), j.id \in Ids, Updating(j), Due(j) # "load"
  PROVE  LET k == Done(j)
         IN \/ /\ Due(j) = "set"
               /\ \/ /\ j.id \in Docs /\ Kept(j, k) /\ k.kind = j.kind
                     /\ k.plan = <<"unrelate", "relate">> /\ Due(k) = "unrelate"
                  \/ j.id \notin Docs /\ k = Idle
            \/ /\ Due(j) = "unrelate" /\ j.id \in Docs /\ Kept(j, k) /\ k.kind = j.kind
               /\ k.plan = <<"relate">> /\ Due(k) = "relate"
            \/ Due(j) = "relate" /\ j.id \in Docs /\ k = Idle
<1>1. j.op = "update" /\ "set" \in Calls
  BY DEF Updating, Calls
<1>2. CASE j.plan = <<"set">> \o Relations(j.id)
  BY <1>1, <1>2, RelationsLeft
<1>3. CASE j.plan \in {<<"unrelate", "relate">>, <<"relate">>} /\ j.id \in Docs
  BY <1>1, <1>3, RelatesLeft
<1>4. j.plan # <<"load">>
  <2>1. <<"load">> # <<>> /\ Head(<<"load">>) = "load"
    OBVIOUS
  <2> QED
    BY <2>1 DEF Due
<1> QED
  BY <1>2, <1>3, <1>4 DEF Updating

LEMMA MoveLeft ==
  ASSUME NEW j, JobOK(j), j.id \in Ids, Moving(j), Due(j) # "commit"
  PROVE  LET k == Done(j)
         IN \/ /\ Due(j) = "leave" /\ j.from # Top /\ j.to # Top /\ Kept(j, k) /\ k.kind = j.kind
               /\ k.plan = <<"contain">> \o Place(k.id) /\ Due(k) = "contain"
            \/ /\ \/ Due(j) = "leave" /\ j.from # Top /\ j.to = Top
                  \/ Due(j) = "contain" /\ j.to # Top
               /\ \/ Kept(j, k) /\ k.kind = j.kind /\ k.plan = <<"place">> /\ Due(k) = "place"
                  \/ k = Idle
            \/ Due(j) = "place" /\ k = Idle
<1> DEFINE p == Place(j.id)
<1>1. j.op = "move" /\ "leave" \in Calls /\ "contain" \in Calls /\ "place" \in Calls
  BY DEF Moving, Calls
<1>2. p \in Seq(Calls) /\ (p = <<>> \/ p = <<"place">>)
  BY PlanIs DEF Place, If
<1>3. ASSUME NEW c \in Calls, j.plan = <<c>> \o p
      PROVE  LET k == Done(j)
             IN /\ Due(j) = c
                /\ \/ Kept(j, k) /\ k.kind = j.kind /\ k.plan = <<"place">> /\ Due(k) = "place"
                   \/ k = Idle
  <2> HIDE DEF p
  <2>1. p # <<>> => p = <<"place">> /\ Head(p) = "place"
    BY <1>2
  <2>2. LET k == Done(j)
        IN /\ Due(j) = c
           /\ p # <<>> => Kept(j, k) /\ k.kind = j.kind /\ k.plan = p /\ Due(k) = Head(p)
           /\ p = <<>> => k = Idle
    BY <1>1, <1>2, <1>3, RestIs
  <2> QED
    BY <2>1, <2>2
<1>4. CASE j.plan = <<"leave">> \o (If(j.to # Top, "contain") \o p) /\ j.from # Top
  <2>1. CASE j.to # Top
    <3> DEFINE s == <<"contain">> \o p
    <3>1. j.plan = <<"leave">> \o s
      BY <1>4, <2>1 DEF If
    <3> HIDE DEF p
    <3>2. s \in Seq(Calls) /\ s # <<>> /\ Head(s) = "contain"
      BY <1>1, <1>2, Cons
    <3> HIDE DEF s
    <3>3. LET k == Done(j)
          IN Due(j) = "leave" /\ Kept(j, k) /\ k.kind = j.kind /\ k.plan = s /\ Due(k) = "contain"
      BY <1>1, <3>1, <3>2, RestIs
    <3> QED
      BY <1>4, <2>1, <3>3 DEF Kept, s, p
  <2>2. CASE j.to = Top
    <3>1. If(j.to # Top, "contain") = <<>>
      BY <2>2 DEF If
    <3> HIDE DEF p
    <3>2. <<>> \o p = p
      BY <1>2, ConcatEmptySeq
    <3>3. j.plan = <<"leave">> \o p
      BY <1>4, <3>1, <3>2
    <3> QED
      BY <1>1, <1>3, <1>4, <2>2, <3>3
  <2> QED
    BY <2>1, <2>2
<1>5. CASE j.plan = <<"contain">> \o p /\ j.to # Top
  BY <1>1, <1>3, <1>5
<1>6. CASE j.plan = <<"place">>
  <2> DEFINE s == <<>>
  <2>1. s \in Seq(Calls) /\ j.plan = <<"place">> \o s /\ s = <<>>
    BY <1>1, <1>6
  <2> HIDE DEF s
  <2> QED
    BY <1>1, <2>1, RestIs
<1>7. j.plan # <<"commit">>
  <2>1. <<"commit">> # <<>> /\ Head(<<"commit">>) = "commit"
    OBVIOUS
  <2> QED
    BY <2>1 DEF Due
<1> QED
  BY <1>4, <1>5, <1>6, <1>7 DEF Moving

\* A call to the graph while nothing has failed.
Calling(j) ==
    /\ JobOK(j) /\ j \in Job /\ j.id \in Ids /\ OpHolds(j) /\ TextHolds(j)
    /\ RowsOK /\ GraphOK /\ ParentsLive
    /\ NodesFit(j) /\ TextsFit(j) /\ FoldersFit(j) /\ PairsFit(j)
    /\ live' = live /\ content' = content /\ parent' = parent
    /\ Effect(j, Due(j))

\* What the job is after it: at rest, or at the next call of the same task.
Goes(j, k) == k = Idle \/ (Kept(j, k) /\ k.kind = j.kind)

LEMMA CalledIs ==
  ASSUME CalmInv, Calm, NEW g \in Jobs, CallGraph(g)
  PROVE  LET j == job[g]
         IN /\ Calling(j) /\ Shape(j) /\ Alone(g) /\ JobsOK /\ Due(j) \in GraphCalls
            /\ j.plan # <<>>
            /\ Become(g, Done(j)) /\ letters' = letters /\ Calm'
<1> DEFINE j == job[g]
<1>1. /\ j.plan # <<>> /\ Head(j.plan) \in GraphCalls
      /\ live' = live /\ content' = content /\ parent' = parent /\ letters' = letters /\ Calm'
  BY DEF CallGraph, pgVars, letterVars, countVars, Calm
<1>2. At(g, Head(j.plan))
  BY <1>1 DEF At
<1>3. /\ Alone(g) /\ Shape(j) /\ JobOK(j) /\ j \in Job /\ j.op \notin {"idle", "replay"}
      /\ Due(j) = Head(j.plan)
      /\ NodesFit(j) /\ TextsFit(j) /\ FoldersFit(j) /\ PairsFit(j)
      /\ OpHolds(j) /\ TextHolds(j) /\ RowsOK /\ GraphOK /\ JobsOK /\ ParentsLive
  BY <1>2, Stepping
<1>4. j.id \in Ids /\ CallOK(j, Due(j))
  BY <1>1, SerialParts, CallIs DEF CalmInv
<1>5. ~Refused(j)
  <2> SUFFICES ASSUME Due(j) = "create" PROVE j.id \notin gnodes
    BY <1>3 DEF Refused
  <2>1. j.kind = "create"
    BY <1>3, <1>4, JobFields DEF CallOK, CallsOf, GraphCalls, Kinds
  <2>2. j.op = "create"
    BY <1>3, <2>1 DEF Shape, Creating, Updating, Moving, Removing, OpHolds, Deletes
  <2> QED
    BY <1>3, <1>4, <2>2 DEF NodesFit
<1>6. Effect(j, Due(j)) /\ Become(g, Done(j))
  BY <1>1, <1>3, <1>5 DEF CallGraph
<1> QED
  BY <1>1, <1>3, <1>4, <1>6 DEF Calling

\* What a job at rest, or at its next call, sees of the deletions: nothing.
LEMMA NotDeleting ==
  ASSUME NEW j, NEW k, j.op # "delete", Goes(j, k)
  PROVE  \A n : ~Deleting(j, n) /\ ~Deleting(k, n)
  BY IdleIs DEF Goes, Kept, Deleting

LEMMA CreateFits ==
  ASSUME NEW j, Calling(j), Creating(j), Due(j) = "create", NEW k, Goes(j, k),
         \/ j.to # Top /\ k # Idle /\ Due(k) = "contain"
         \/ j.to = Top /\ k # Idle /\ Due(k) = "unrelate"
         \/ j.to = Top /\ k = Idle /\ j.id \notin Docs
  PROVE  FitsNext(k)
<1>1. /\ j.op = "create" /\ j.to = parent[j.id] /\ j.id \in live /\ j.text = content[j.id]
      /\ j.id \in Ids /\ \A n \in live : parent[n] # j.id
  BY DEF Calling, Creating, OpHolds, TextHolds
<1>2. /\ gnodes' = gnodes \cup {j.id} /\ gcontent' = [gcontent EXCEPT ![j.id] = j.text]
      /\ contains' = contains /\ related' = related
  <2>1. Effect(j, "create") /\ Matches(j, "create")
    BY DEF Calling, Matches
  <2> QED
    BY <2>1 DEF Effect, Write
<1>3. k = Idle \/ (k.op = "create" /\ k.id = j.id)
  BY <1>1 DEF Goes, Kept
<1>4. Idle.op = "idle" /\ \A n : ~Deleting(j, n) /\ ~Deleting(k, n)
  BY <1>1, IdleIs, NotDeleting
<1>5. \A n \in Ids : n \in gnodes <=> n \in live /\ n # j.id
  BY <1>1, <1>4 DEF Calling, NodesFit
<1>6. \A n \in Ids : n \in gnodes' <=> n \in live
  BY <1>1, <1>2, <1>5
<1>7. NodesNext(k)
  BY <1>3, <1>4, <1>6 DEF Calling, NodesNext
<1>8. TextsNext(k)
  BY <1>1, <1>2 DEF Calling, TextsNext, TextsFit, GraphOK
<1>9. FoldersNext(k)
  <2> SUFFICES ASSUME NEW f \in Folders, NEW n \in Ids
               PROVE  contains'[f][n] = IF LinkedNext(k, f, n) THEN 1 ELSE 0
    BY DEF FoldersNext
  <2>1. f # Top /\ f \in Ids
    BY GraphSyncAssumption DEF Ids
  <2>2. contains'[f][n] = IF Linked(j, f, n) THEN 1 ELSE 0
    BY <1>2 DEF Calling, FoldersFit
  <2>3. CASE n = j.id
    <3>1. ~Linked(j, f, n)
      BY <1>1, <2>3 DEF Linked
    <3>2. ~LinkedNext(k, f, n)
      BY <1>1, <1>3, <1>4, <2>1, <2>3 DEF Calling, LinkedNext
    <3> QED
      BY <2>2, <3>1, <3>2
  <2>4. CASE n # j.id
    <3>1. Linked(j, f, n) <=> n \in gnodes /\ f \in gnodes /\ parent[n] = f
      BY <2>4 DEF Linked
    <3>2. LinkedNext(k, f, n) <=> n \in gnodes' /\ f \in gnodes' /\ parent[n] = f
      BY <1>3, <1>4, <2>4, IdleIs DEF Calling, LinkedNext
    <3> QED
      BY <1>1, <1>5, <1>6, <2>1, <2>2, <2>4, <3>1, <3>2
  <2> QED
    BY <2>3, <2>4
<1>10. PairsNext(k)
  <2> SUFFICES ASSUME NEW m \in Docs, NEW n \in Docs, m # n
               PROVE  IF k.id \in {m, n} /\ k.op \in {"create", "update"}
                      THEN Due(k) = "relate" \/ k.op = "create" => {m, n} \notin related'
                      ELSE {m, n} \in related' <=> m \in gnodes' /\ n \in gnodes' /\ gcontent'[m] = gcontent'[n]
    BY DEF PairsNext
  <2>1. IF j.id \in {m, n}
        THEN {m, n} \notin related
        ELSE {m, n} \in related <=> m \in gnodes /\ n \in gnodes /\ gcontent[m] = gcontent[n]
    BY <1>1 DEF Calling, PairsFit
  <2>2. CASE j.id \in {m, n}
    BY <1>2, <1>3, <2>1, <2>2
  <2>3. CASE j.id \notin {m, n}
    <3>1. gcontent'[m] = gcontent[m] /\ gcontent'[n] = gcontent[n]
      BY <1>2, <2>3 DEF Calling, GraphOK, Ids
    <3>2. ~(k.id \in {m, n} /\ k.op \in {"create", "update"})
      BY <1>3, <1>4, <2>3
    <3> QED
      BY <1>2, <2>1, <2>3, <3>1, <3>2
  <2> QED
    BY <2>2, <2>3
<1> QED
  BY <1>7, <1>8, <1>9, <1>10 DEF FitsNext

\* A CONTAINS that is added to a folder that has none to the node.
LEMMA ContainFits ==
  ASSUME NEW j, Calling(j), Creating(j) \/ Moving(j), Due(j) = "contain", j.to # Top,
         NEW k, Goes(j, k), j.op = "create" /\ k = Idle => j.id \notin Docs,
         k # Idle => Due(k) \in {"unrelate", "place"}
  PROVE  FitsNext(k)
<1>1. /\ j.op \in {"create", "move"} /\ j.to = parent[j.id] /\ j.id \in live /\ j.id \in Ids
  BY DEF Calling, Creating, Moving, OpHolds
<1>2. Idle.op = "idle" /\ \A n : ~Deleting(j, n) /\ ~Deleting(k, n)
  BY <1>1, IdleIs, NotDeleting
<1>3. \A n \in Ids : n \in gnodes <=> n \in live
  BY <1>1, <1>2 DEF Calling, NodesFit
<1>4. j.to \in Folders /\ j.to \in gnodes /\ j.id \in gnodes
  BY <1>1, <1>3 DEF Calling, ParentsLive, RowsOK, Parents
<1>5. /\ gnodes' = gnodes /\ gcontent' = gcontent /\ related' = related
      /\ contains' = [contains EXCEPT ![j.to][j.id] = contains[j.to][j.id] + 1]
  <2>1. Effect(j, "contain") /\ Matches(j, "contain")
    BY <1>4 DEF Calling, Matches
  <2> QED
    BY <2>1 DEF Effect, Contain
<1>6. k = Idle \/ (k.op = j.op /\ k.id = j.id)
  BY DEF Goes, Kept
<1>7. NodesNext(k) /\ TextsNext(k)
  BY <1>1, <1>2, <1>3, <1>5, <1>6 DEF Calling, NodesNext, TextsNext, TextsFit
<1>8. FoldersNext(k)
  <2> SUFFICES ASSUME NEW f \in Folders, NEW n \in Ids
               PROVE  contains'[f][n] = IF LinkedNext(k, f, n) THEN 1 ELSE 0
    BY DEF FoldersNext
  <2>1. contains[f][n] = IF Linked(j, f, n) THEN 1 ELSE 0
    BY DEF Calling, FoldersFit
  <2>2. LinkedNext(k, f, n) <=> n \in gnodes /\ f \in gnodes /\ parent[n] = f
    BY <1>2, <1>5, <1>6 DEF Calling, LinkedNext
  <2>3. CASE n = j.id
    <3>1. contains[f][n] = 0
      BY <1>1, <2>1, <2>3 DEF Linked
    <3>2. contains'[f][n] = IF f = j.to THEN 1 ELSE 0
      BY <1>1, <1>4, <1>5, <2>3, <3>1 DEF Calling, GraphOK
    <3> QED
      BY <1>1, <1>4, <2>2, <2>3, <3>2
  <2>4. CASE n # j.id
    <3>1. contains'[f][n] = contains[f][n]
      BY <1>1, <1>4, <1>5, <2>4 DEF Calling, GraphOK
    <3>2. Linked(j, f, n) <=> n \in gnodes /\ f \in gnodes /\ parent[n] = f
      BY <2>4 DEF Linked
    <3> QED
      BY <2>1, <2>2, <3>1, <3>2
  <2> QED
    BY <2>3, <2>4
<1>9. PairsNext(k)
  BY <1>1, <1>2, <1>5, <1>6 DEF Calling, PairsFit, PairsNext
<1> QED
  BY <1>7, <1>8, <1>9 DEF FitsNext

LEMMA SetFits ==
  ASSUME NEW j, Calling(j), j.op = "update", Due(j) = "set", NEW k, Goes(j, k),
         k = Idle => j.id \notin Docs, k # Idle => Due(k) = "unrelate"
  PROVE  FitsNext(k)
<1>1. j.id \in live /\ j.text = content[j.id] /\ j.id \in Ids
  BY DEF Calling, OpHolds, TextHolds
<1>2. Idle.op = "idle" /\ \A n : ~Deleting(j, n) /\ ~Deleting(k, n)
  BY IdleIs, NotDeleting
<1>3. \A n \in Ids : n \in gnodes <=> n \in live
  BY <1>2 DEF Calling, NodesFit
<1>4. /\ gnodes' = gnodes /\ gcontent' = [gcontent EXCEPT ![j.id] = j.text]
      /\ contains' = contains /\ related' = related
  <2>1. Effect(j, "set") /\ Matches(j, "set")
    BY <1>1, <1>3 DEF Calling, Matches
  <2> QED
    BY <2>1 DEF Effect, Write
<1>5. k = Idle \/ (k.op = "update" /\ k.id = j.id)
  BY DEF Goes, Kept
<1>6. NodesNext(k)
  BY <1>2, <1>3, <1>4, <1>5 DEF Calling, NodesNext
<1>7. TextsNext(k)
  BY <1>1, <1>4 DEF Calling, TextsNext, TextsFit, GraphOK
<1>8. FoldersNext(k)
  BY <1>2, <1>4, <1>5 DEF Calling, FoldersNext, LinkedNext, FoldersFit, Linked
<1>9. PairsNext(k)
  <2> SUFFICES ASSUME NEW m \in Docs, NEW n \in Docs, m # n
               PROVE  IF k.id \in {m, n} /\ k.op \in {"create", "update"}
                      THEN Due(k) = "relate" \/ k.op = "create" => {m, n} \notin related'
                      ELSE {m, n} \in related' <=> m \in gnodes' /\ n \in gnodes' /\ gcontent'[m] = gcontent'[n]
    BY DEF PairsNext
  <2>1. CASE j.id \in {m, n}
    BY <1>2, <1>5, <2>1
  <2>2. CASE j.id \notin {m, n}
    <3>1. {m, n} \in related <=> m \in gnodes /\ n \in gnodes /\ gcontent[m] = gcontent[n]
      BY <2>2 DEF Calling, PairsFit
    <3>2. gcontent'[m] = gcontent[m] /\ gcontent'[n] = gcontent[n]
      BY <1>4, <2>2 DEF Calling, GraphOK, Ids
    <3>3. ~(k.id \in {m, n} /\ k.op \in {"create", "update"})
      BY <1>2, <1>5, <2>2
    <3> QED
      BY <1>4, <3>1, <3>2, <3>3
  <2> QED
    BY <2>1, <2>2
<1> QED
  BY <1>6, <1>7, <1>8, <1>9 DEF FitsNext

LEMMA LeaveFits ==
  ASSUME NEW j, Calling(j), Moving(j), Due(j) = "leave", j.from # Top, NEW k, Goes(j, k),
         \/ j.to # Top /\ k # Idle /\ Due(k) = "contain"
         \/ j.to = Top /\ (k # Idle => Due(k) = "place")
  PROVE  FitsNext(k)
<1>1. /\ j.op = "move" /\ j.to = parent[j.id] /\ j.id \in live /\ j.id \in Ids
      /\ j.from \in Folders
  BY JobFields DEF Calling, Moving, Parents
<1>2. Idle.op = "idle" /\ \A n : ~Deleting(j, n) /\ ~Deleting(k, n)
  BY <1>1, IdleIs, NotDeleting
<1>3. \A n \in Ids : n \in gnodes <=> n \in live
  BY <1>1, <1>2 DEF Calling, NodesFit
<1>4. /\ gnodes' = gnodes /\ gcontent' = gcontent /\ related' = related
      /\ contains' = [contains EXCEPT ![j.from][j.id] = 0]
  <2>1. Effect(j, "leave") /\ Matches(j, "leave")
    BY <1>1, <1>3 DEF Calling, Matches
  <2> QED
    BY <2>1 DEF Effect, Contain
<1>5. k = Idle \/ (k.op = "move" /\ k.id = j.id)
  BY <1>1 DEF Goes, Kept
<1>6. NodesNext(k) /\ TextsNext(k)
  BY <1>1, <1>2, <1>3, <1>4, <1>5 DEF Calling, NodesNext, TextsNext, TextsFit
<1>7. FoldersNext(k)
  <2> SUFFICES ASSUME NEW f \in Folders, NEW n \in Ids
               PROVE  contains'[f][n] = IF LinkedNext(k, f, n) THEN 1 ELSE 0
    BY DEF FoldersNext
  <2>1. contains[f][n] = IF Linked(j, f, n) THEN 1 ELSE 0
    BY DEF Calling, FoldersFit
  <2>2. f # Top
    BY GraphSyncAssumption DEF Ids
  <2>3. CASE n = j.id
    <3>1. contains'[f][n] = IF f = j.from THEN 0 ELSE contains[f][n]
      BY <1>1, <1>4, <2>3 DEF Calling, GraphOK
    <3>2. Linked(j, f, n) <=> f = j.from
      BY <1>1, <2>3 DEF Linked
    <3>3. ~LinkedNext(k, f, n)
      BY <1>1, <1>2, <1>5, <2>2, <2>3 DEF Calling, LinkedNext
    <3> QED
      BY <2>1, <3>1, <3>2, <3>3
  <2>4. CASE n # j.id
    <3>1. contains'[f][n] = contains[f][n]
      BY <1>1, <1>4, <2>4 DEF Calling, GraphOK
    <3>2. Linked(j, f, n) <=> n \in gnodes /\ f \in gnodes /\ parent[n] = f
      BY <2>4 DEF Linked
    <3>3. LinkedNext(k, f, n) <=> n \in gnodes /\ f \in gnodes /\ parent[n] = f
      BY <1>2, <1>4, <1>5, <2>4 DEF Calling, LinkedNext
    <3> QED
      BY <2>1, <3>1, <3>2, <3>3
  <2> QED
    BY <2>3, <2>4
<1>8. PairsNext(k)
  BY <1>1, <1>2, <1>4, <1>5 DEF Calling, PairsFit, PairsNext
<1> QED
  BY <1>6, <1>7, <1>8 DEF FitsNext

LEMMA PlaceFits ==
  ASSUME NEW j, Calling(j), j.op = "move", Due(j) = "place"
  PROVE  FitsNext(Idle)
<1>1. gnodes' = gnodes /\ gcontent' = gcontent /\ contains' = contains /\ related' = related
  <2>1. Effect(j, "place")
    BY DEF Calling
  <2> QED
    BY <2>1 DEF Effect, graphVars
<1>2. Idle.op = "idle" /\ \A n : ~Deleting(j, n) /\ ~Deleting(Idle, n)
  BY IdleIs, IdleHolds DEF Deleting
<1>3. NodesNext(Idle) /\ TextsNext(Idle)
  BY <1>1, <1>2 DEF Calling, NodesNext, TextsNext, NodesFit, TextsFit
<1>4. FoldersNext(Idle)
  BY <1>1, <1>2 DEF Calling, FoldersNext, LinkedNext, FoldersFit, Linked
<1>5. PairsNext(Idle)
  BY <1>1, <1>2 DEF Calling, PairsNext, PairsFit
<1> QED
  BY <1>3, <1>4, <1>5 DEF FitsNext

\* The pairs of a document are removed and found again.
LEMMA RelationsFit ==
  ASSUME NEW j, Calling(j), j.op \in {"create", "update"}, j.id \in Docs, NEW k, Goes(j, k),
         \/ Due(j) = "unrelate" /\ k # Idle /\ Due(k) = "relate"
         \/ Due(j) = "relate" /\ k = Idle
  PROVE  FitsNext(k)
<1>1. j.id \in live /\ j.id \in Ids
  BY DEF Calling, OpHolds
<1>2. Idle.op = "idle" /\ \A n : ~Deleting(j, n) /\ ~Deleting(k, n)
  BY IdleIs, NotDeleting
<1>3. \A n \in Ids : n \in gnodes <=> n \in live
  BY <1>2 DEF Calling, NodesFit
<1>4. /\ gnodes' = gnodes /\ gcontent' = gcontent /\ contains' = contains
      /\ Due(j) = "unrelate" => related' = Unrelated(j.id)
      /\ Due(j) = "relate" => related' = related \cup Similar(j.id)
  <2>1. Effect(j, Due(j)) /\ Matches(j, Due(j))
    BY <1>1, <1>3 DEF Calling, Matches
  <2> QED
    BY <2>1 DEF Effect, Relate
<1>5. k = Idle \/ (k.op = j.op /\ k.id = j.id)
  BY DEF Goes, Kept
<1>6. NodesNext(k)
  BY <1>2, <1>3, <1>4, <1>5 DEF Calling, NodesNext
<1>7. TextsNext(k)
  BY <1>4 DEF Calling, TextsNext, TextsFit
<1>8. FoldersNext(k)
  BY <1>2, <1>4, <1>5 DEF Calling, FoldersNext, LinkedNext, FoldersFit, Linked
<1>9. PairsNext(k)
  <2> SUFFICES ASSUME NEW m \in Docs, NEW n \in Docs, m # n
               PROVE  IF k.id \in {m, n} /\ k.op \in {"create", "update"}
                      THEN Due(k) = "relate" \/ k.op = "create" => {m, n} \notin related'
                      ELSE {m, n} \in related' <=> m \in gnodes' /\ n \in gnodes' /\ gcontent'[m] = gcontent'[n]
    BY DEF PairsNext
  <2>1. CASE Due(j) = "unrelate"
    <3>1. {m, n} \in related' <=> {m, n} \in related /\ j.id \notin {m, n}
      BY <1>4, <2>1 DEF Unrelated
    <3>2. j.id \notin {m, n} =>
            ({m, n} \in related <=> m \in gnodes /\ n \in gnodes /\ gcontent[m] = gcontent[n])
      BY DEF Calling, PairsFit
    <3> QED
      BY <1>4, <1>5, <2>1, <3>1, <3>2
  <2>2. CASE Due(j) = "relate"
    <3>1. {m, n} \in Similar(j.id) <=>
            j.id \in {m, n} /\ m \in gnodes /\ n \in gnodes /\ gcontent[m] = gcontent[n]
      <4>1. j.id \in gnodes
        BY <1>1, <1>3
      <4>2. ASSUME {m, n} \in Similar(j.id)
            PROVE  j.id \in {m, n} /\ m \in gnodes /\ n \in gnodes /\ gcontent[m] = gcontent[n]
        <5>1. PICK d \in (gnodes \cap Docs) \ {j.id} :
                     gcontent[d] = gcontent[j.id] /\ {m, n} = {j.id, d}
          BY <4>2 DEF Similar
        <5> QED
          BY <4>1, <5>1
      <4>3. ASSUME NEW d \in Docs, d # j.id, d \in gnodes, gcontent[d] = gcontent[j.id]
            PROVE  {j.id, d} \in Similar(j.id)
        BY <4>3 DEF Similar
      <4>4. CASE j.id = m
        BY <4>2, <4>3, <4>4
      <4>5. CASE j.id = n
        <5>1. {m, n} = {n, m}
          OBVIOUS
        <5> QED
          BY <4>2, <4>3, <4>5, <5>1
      <4> QED
        BY <4>2, <4>4, <4>5
    <3>2. IF j.id \in {m, n} THEN {m, n} \notin related
          ELSE {m, n} \in related <=> m \in gnodes /\ n \in gnodes /\ gcontent[m] = gcontent[n]
      BY <2>2 DEF Calling, PairsFit
    <3>3. k = Idle
      BY <2>2
    <3> QED
      BY <1>2, <1>4, <2>2, <3>1, <3>2, <3>3
  <2> QED
    BY <2>1, <2>2
<1> QED
  BY <1>6, <1>7, <1>8, <1>9 DEF FitsNext

LEMMA DetachFits ==
  ASSUME NEW j, Calling(j), Removing(j), Due(j) = "detach", NEW k,
         \/ j.kind = "delDoc" /\ Kept(j, k) /\ k.kind = "delFolder" /\ Due(k) = "detach"
         \/ j.kind = "delFolder" /\ k = Idle /\ j.todo = {}
         \/ j.kind = "delFolder" /\ Kept(j, k) /\ Due(k) = "next"
  PROVE  FitsNext(k)
<1>1. /\ j.op = "delete" /\ j.id \in Ids /\ j.id \notin j.todo /\ j.kind \in Deletes
      /\ Dead(j.id) /\ j.id \notin live
  BY DEF Calling, Removing, OpHolds, TextHolds, Dead
<1>2. /\ k.op \in {"idle", "delete"}
      /\ j.kind = "delDoc" => /\ k.op = "delete" /\ k.id = j.id /\ k.todo = j.todo
                              /\ k.kind = "delFolder" /\ Due(k) = "detach"
      /\ j.kind # "delDoc" /\ k # Idle => k.op = "delete" /\ k.todo = j.todo /\ Due(k) = "next"
      /\ j.kind # "delDoc" /\ k = Idle => j.todo = {}
  BY <1>1, IdleIs DEF Kept
<1>3. \A n \in Ids : Deleting(j, n) <=>
        n \in j.todo \/ (j.id = n /\ j.kind \in {"delDoc", DelKind(n)})
  BY <1>1 DEF Deleting
<1>4. \A n \in Ids : Deleting(k, n) <=>
        n \in j.todo \/ (j.id = n /\ j.kind = "delDoc" /\ n \notin Docs)
  <2> TAKE n \in Ids
  <2>1. CASE j.kind = "delDoc"
    BY <1>2, <2>1 DEF Deleting, DelKind
  <2>2. CASE j.kind # "delDoc" /\ k # Idle
    BY <1>2, <2>2 DEF Deleting
  <2>3. CASE j.kind # "delDoc" /\ k = Idle
    BY <1>2, <2>3, IdleHolds
  <2> QED
    BY <2>1, <2>2, <2>3
<1>5. \A n \in Ids : n \in gnodes <=> n \in live \/ Deleting(j, n)
  BY <1>1 DEF Calling, NodesFit
<1>6. /\ \A f \in Folders, n \in Ids :
           contains[f][n] = IF n \in gnodes /\ f \in gnodes /\ parent[n] = f THEN 1 ELSE 0
      /\ \A m, n \in Docs : m # n =>
           ({m, n} \in related <=> m \in gnodes /\ n \in gnodes /\ gcontent[m] = gcontent[n])
      /\ \A n \in gnodes : gcontent[n] = content[n]
  BY <1>1 DEF Calling, FoldersFit, Linked, PairsFit, TextsFit
<1>7. Effect(j, "detach")
  BY DEF Calling
<1>8. CASE Matches(j, "detach")
  <2>1. j.id \in gnodes /\ j.id \in (IF j.kind = "delDoc" THEN Docs ELSE Folders)
    BY <1>8 DEF Matches
  <2>2. /\ gnodes' = gnodes \ {j.id}
        /\ gcontent' = [gcontent EXCEPT ![j.id] = Blank]
        /\ contains' = [f \in Folders |-> [n \in Ids |->
                          IF j.id \in {f, n} THEN 0 ELSE contains[f][n]]]
        /\ related' = {x \in related : j.id \notin x}
    BY <1>7, <1>8 DEF Effect, Detach
  <2>3. ~Deleting(k, j.id)
    BY <1>1, <1>4, <2>1 DEF Deletes
  <2>4. NodesNext(k)
    BY <1>1, <1>2, <1>3, <1>4, <1>5, <2>2, <2>3 DEF Calling, NodesNext
  <2>5. TextsNext(k)
    BY <1>6, <2>2 DEF Calling, TextsNext, GraphOK
  <2>6. FoldersNext(k)
    <3> SUFFICES ASSUME NEW f \in Folders, NEW n \in Ids
                 PROVE  contains'[f][n] = IF LinkedNext(k, f, n) THEN 1 ELSE 0
      BY DEF FoldersNext
    <3>1. contains'[f][n] = IF j.id \in {f, n} THEN 0 ELSE contains[f][n]
      BY <2>2
    <3>2. LinkedNext(k, f, n) <=> n \in gnodes' /\ f \in gnodes' /\ parent[n] = f
      BY <1>2 DEF Calling, LinkedNext
    <3> QED
      BY <1>6, <2>2, <3>1, <3>2
  <2>7. PairsNext(k)
    <3> SUFFICES ASSUME NEW m \in Docs, NEW n \in Docs, m # n
                 PROVE  {m, n} \in related' <=> m \in gnodes' /\ n \in gnodes' /\ gcontent'[m] = gcontent'[n]
      BY <1>2 DEF PairsNext
    <3>1. {m, n} \in related' <=> {m, n} \in related /\ j.id \notin {m, n}
      BY <2>2
    <3>2. j.id \notin {m, n} => gcontent'[m] = gcontent[m] /\ gcontent'[n] = gcontent[n]
      BY <2>2 DEF Calling, GraphOK, Ids
    <3> QED
      BY <1>6, <2>2, <3>1, <3>2
  <2> QED
    BY <2>4, <2>5, <2>6, <2>7 DEF FitsNext
<1>9. CASE ~Matches(j, "detach")
  <2>1. j.id \in gnodes => j.id \notin (IF j.kind = "delDoc" THEN Docs ELSE Folders)
    BY <1>9 DEF Matches
  <2>2. gnodes' = gnodes /\ gcontent' = gcontent /\ contains' = contains /\ related' = related
    BY <1>7, <1>9 DEF Effect, graphVars
  <2>3. \A n \in Ids : Deleting(k, n) <=> Deleting(j, n)
    <3>1. \A n \in Ids : j.id = n =>
            (j.kind \in {"delDoc", DelKind(n)} <=> j.kind = "delDoc" /\ n \notin Docs)
      <4>1. Deleting(j, j.id) <=> j.kind \in {"delDoc", DelKind(j.id)}
        BY <1>1, <1>3
      <4>2. j.id \in gnodes <=> Deleting(j, j.id)
        BY <1>1, <1>5
      <4> QED
        BY <1>1, <2>1, <4>1, <4>2, GraphSyncAssumption DEF DelKind, Deletes, Ids
    <3> QED
      BY <1>3, <1>4, <3>1
  <2>4. \A n \in Ids : n \in gnodes <=> n \in live' \/ Deleting(k, n)
    BY <1>5, <2>3 DEF Calling
  <2> QED
    BY <1>2, <1>6, <2>2, <2>4, UntouchedNext DEF Calling
<1> QED
  BY <1>8, <1>9

LEMMA NotCalm == ASSUME SerialInv', Calm' => FALSE PROVE CalmInv'
  BY DEF CalmInv

\* The job after a call to the graph.
LEMMA CallGraphShape ==
  ASSUME CalmInv, Calm, NEW g \in Jobs, CallGraph(g), NEW k, k = Done(job[g])
  PROVE  FitsNext(k) /\ (k = Idle \/ Shape(job[g])')
<1> DEFINE j == job[g]
<1>1. /\ Calling(j) /\ Shape(j) /\ JobsOK /\ Due(j) \in GraphCalls /\ j.plan # <<>>
      /\ Become(g, k)
  BY CalledIs
<1>2. job'[g] = k /\ JobOK(j) /\ j.id \in Ids /\ live' = live /\ parent' = parent
  BY <1>1, Becomes DEF Calling
<1>3. Due(j) \notin {"load", "commit", "next"} /\ k = Done(j)
  BY <1>1 DEF GraphCalls
<1> HIDE DEF j
<1>4. CASE Creating(j)
  <2>1. \/ /\ Due(j) = "create" /\ j.to # Top /\ Kept(j, k) /\ k.kind = j.kind
           /\ k.plan = <<"contain">> \o Relations(k.id) /\ Due(k) = "contain"
        \/ /\ (Due(j) = "create" /\ j.to = Top) \/ (Due(j) = "contain" /\ j.to # Top)
           /\ \/ /\ j.id \in Docs /\ Kept(j, k) /\ k.kind = j.kind
                 /\ k.plan = <<"unrelate", "relate">> /\ Due(k) = "unrelate"
              \/ j.id \notin Docs /\ k = Idle
        \/ /\ Due(j) = "unrelate" /\ j.id \in Docs /\ Kept(j, k) /\ k.kind = j.kind
           /\ k.plan = <<"relate">> /\ Due(k) = "relate"
        \/ Due(j) = "relate" /\ j.id \in Docs /\ k = Idle
    BY <1>2, <1>3, <1>4, CreateLeft
  <2>2. j.op = "create" /\ j.todo = {} /\ j.to = parent[j.id]
    BY <1>3, <1>4 DEF Creating
  <2>3. Goes(j, k)
    BY <2>1 DEF Goes
  <2>4. FitsNext(k)
    <3>1. CASE Due(j) = "create"
      BY <1>1, <1>4, <2>1, <2>3, <3>1, IdleIs, CreateFits
    <3>2. CASE Due(j) = "contain"
      <4>1. /\ j.to # Top /\ (k = Idle => j.id \notin Docs)
            /\ k # Idle => Due(k) \in {"unrelate", "place"}
        BY <2>1, <3>2, IdleIs
      <4> QED
        BY <1>1, <1>4, <2>3, <3>2, <4>1, ContainFits
    <3>3. CASE Due(j) = "unrelate"
      BY <1>1, <2>1, <2>2, <2>3, <3>3, IdleIs, RelationsFit
    <3>4. CASE Due(j) = "relate"
      BY <1>1, <2>1, <2>2, <2>3, <3>4, RelationsFit
    <3> QED
      BY <2>1, <3>1, <3>2, <3>3, <3>4
  <2>5. ASSUME k # Idle PROVE Creating(job[g])'
    <3>1. k.op = "create" /\ k.todo = {} /\ k.to = parent[k.id] /\ Due(k) \notin {"load", "create"}
      BY <2>1, <2>2, <2>5 DEF Kept
    <3>2. \/ k.plan = <<"contain">> \o Relations(k.id) /\ k.to # Top
          \/ k.plan \in {<<"unrelate", "relate">>, <<"relate">>} /\ k.id \in Docs
      BY <2>1, <2>5 DEF Kept
    <3> QED
      BY <1>2, <3>1, <3>2 DEF Creating
  <2> QED
    BY <2>4, <2>5 DEF Shape
<1>5. CASE Updating(j)
  <2>1. \/ /\ Due(j) = "set"
           /\ \/ /\ j.id \in Docs /\ Kept(j, k) /\ k.kind = j.kind
                 /\ k.plan = <<"unrelate", "relate">> /\ Due(k) = "unrelate"
              \/ j.id \notin Docs /\ k = Idle
        \/ /\ Due(j) = "unrelate" /\ j.id \in Docs /\ Kept(j, k) /\ k.kind = j.kind
           /\ k.plan = <<"relate">> /\ Due(k) = "relate"
        \/ Due(j) = "relate" /\ j.id \in Docs /\ k = Idle
    BY <1>2, <1>3, <1>5, UpdateLeft
  <2>2. j.op = "update"
    BY <1>5 DEF Updating
  <2>3. Goes(j, k)
    BY <2>1 DEF Goes
  <2>4. FitsNext(k)
    <3>1. CASE Due(j) = "set"
      BY <1>1, <2>1, <2>2, <2>3, <3>1, IdleIs, SetFits
    <3>2. CASE Due(j) = "unrelate"
      BY <1>1, <2>1, <2>2, <2>3, <3>2, IdleIs, RelationsFit
    <3>3. CASE Due(j) = "relate"
      BY <1>1, <2>1, <2>2, <2>3, <3>3, RelationsFit
    <3> QED
      BY <2>1, <3>1, <3>2, <3>3
  <2>5. ASSUME k # Idle PROVE Updating(job[g])'
    <3>1. k.op = "update" /\ k.plan \in {<<"unrelate", "relate">>, <<"relate">>} /\ k.id \in Docs
      BY <2>1, <2>2, <2>5 DEF Kept
    <3> QED
      BY <1>2, <3>1 DEF Updating
  <2> QED
    BY <2>4, <2>5 DEF Shape
<1>6. CASE Moving(j)
  <2>1. \/ /\ Due(j) = "leave" /\ j.from # Top /\ j.to # Top /\ Kept(j, k) /\ k.kind = j.kind
           /\ k.plan = <<"contain">> \o Place(k.id) /\ Due(k) = "contain"
        \/ /\ \/ Due(j) = "leave" /\ j.from # Top /\ j.to = Top
              \/ Due(j) = "contain" /\ j.to # Top
           /\ \/ Kept(j, k) /\ k.kind = j.kind /\ k.plan = <<"place">> /\ Due(k) = "place"
              \/ k = Idle
        \/ Due(j) = "place" /\ k = Idle
    BY <1>2, <1>3, <1>6, MoveLeft
  <2>2. j.op = "move" /\ j.id \in live /\ j.to = parent[j.id] /\ j.to # j.from
    BY <1>3, <1>6 DEF Moving
  <2>3. Goes(j, k)
    BY <2>1 DEF Goes
  <2>4. FitsNext(k)
    <3>1. CASE Due(j) = "leave"
      BY <1>1, <1>6, <2>1, <2>3, <3>1, IdleIs, LeaveFits
    <3>2. CASE Due(j) = "contain"
      BY <1>1, <1>6, <2>1, <2>2, <2>3, <3>2, ContainFits
    <3>3. CASE Due(j) = "place"
      BY <1>1, <2>1, <2>2, <3>3, PlaceFits
    <3> QED
      BY <2>1, <3>1, <3>2, <3>3
  <2>5. ASSUME k # Idle PROVE Moving(job[g])'
    <3>1. k.op = "move" /\ k.id \in live /\ k.to = parent[k.id] /\ k.to # k.from
      BY <2>1, <2>2, <2>5 DEF Kept
    <3>2. \/ k.plan = <<"contain">> \o Place(k.id) /\ k.to # Top
          \/ k.plan = <<"place">>
      BY <2>1, <2>5 DEF Kept
    <3> QED
      BY <1>2, <3>1, <3>2 DEF Moving
  <2> QED
    BY <2>4, <2>5 DEF Shape
<1>7. CASE Removing(j)
  <2>1. j.op = "delete" /\ j.plan = <<"detach">> /\ Due(j) = "detach" /\ j.id \notin j.todo
    <3>1. /\ j.plan = <<"commit">> => Due(j) = "commit"
          /\ j.plan = <<"next">> => Due(j) = "next"
          /\ j.plan = <<"detach">> => Due(j) = "detach"
      <4>1. ASSUME NEW c, j.plan = <<c>> PROVE Due(j) = c
        <5>1. <<c>> # <<>> /\ Head(<<c>>) = c
          OBVIOUS
        <5> QED
          BY <4>1, <5>1 DEF Due
      <4> QED
        BY <4>1
    <3> QED
      BY <1>3, <1>7, <3>1 DEF Removing
  <2>2. j.kind \in Deletes
    BY <1>1, <2>1 DEF Calling, OpHolds
  <2>3. k = Onward(j)
    <3>1. Len(<<"detach">>) = 1
      OBVIOUS
    <3> QED
      BY <1>3, <2>1, <3>1 DEF Done
  <2>4. \/ /\ j.kind = "delDoc"
           /\ Kept(j, k) /\ k.kind = "delFolder" /\ k.plan = <<"detach">> /\ Due(k) = "detach"
        \/ j.kind = "delFolder" /\ j.todo = {} /\ k = Idle
        \/ j.kind = "delFolder" /\ Kept(j, k) /\ k.plan = <<"next">> /\ Due(k) = "next"
    BY <1>2, <2>1, <2>2, <2>3, OnwardIs DEF Deletes
  <2>5. FitsNext(k)
    BY <1>1, <1>7, <2>1, <2>4, DetachFits
  <2>6. ASSUME k # Idle PROVE Removing(job[g])'
    <3>1. /\ k.op = "delete" /\ k.plan \in {<<"next">>, <<"detach">>}
          /\ Due(k) = "detach" => k.id \notin k.todo
      BY <2>1, <2>4, <2>6 DEF Kept
    <3> QED
      BY <1>2, <3>1 DEF Removing
  <2> QED
    BY <2>5, <2>6 DEF Shape
<1> QED
  BY <1>1, <1>4, <1>5, <1>6, <1>7 DEF Shape

LEMMA CallGraphCalm ==
  ASSUME CalmInv, SerialInv', NEW g \in Jobs, CallGraph(g)
  PROVE  CalmInv'
<1> DEFINE k == Done(job[g])
<1>1. Calm' => Calm
  BY DEF CallGraph, countVars, Calm
<1>2. CASE ~Calm
  BY <1>1, <1>2, NotCalm
<1>3. CASE Calm
  <2>1. Become(g, k) /\ Alone(g) /\ letters' = letters
    BY <1>3, CalledIs
  <2>2. FitsNext(k) /\ (k = Idle \/ Shape(job[g])')
    BY <1>3, CallGraphShape
  <2> HIDE DEF k
  <2> QED
    BY <1>1, <2>1, <2>2, CalmStep
<1> QED
  BY <1>2, <1>3

\* What does not happen as long as nothing fails: letters and replays.
LEMMA NoLetters ==
  ASSUME CalmInv, Calm, NEW g \in Jobs
  PROVE  /\ ~Replay(g) /\ ~WriteLetter(g) /\ ~MarkResolved(g)
         /\ \A x : ~NextLetter(g, x)
<1> DEFINE j == job[g]
<1>1. ~Replay(g)
  <2>1. letters = <<>> /\ pending \subseteq 1..Len(letters)
    BY SerialParts DEF CalmInv, LettersOK
  <2>2. Len(<<>>) = 0
    OBVIOUS
  <2> QED
    BY <2>1, <2>2 DEF Replay
<1>2. ASSUME WriteLetter(g) PROVE FALSE
  <2>1. At(g, "letter")
    BY <1>2 DEF WriteLetter
  <2>2. Shape(j) /\ JobOK(j) /\ j.id \in Ids /\ Due(j) = "letter" /\ Head(j.plan) = "letter"
    BY <2>1, Stepping
  <2> HIDE DEF j
  <2>3. ~Creating(j)
    BY <2>2, CreateLeft
  <2>4. ~Updating(j)
    BY <2>2, UpdateLeft
  <2>5. ~Moving(j)
    BY <2>2, MoveLeft
  <2>6. ~Removing(j)
    <3>1. \A c : Head(<<c>>) = c
      OBVIOUS
    <3> QED
      BY <2>2, <3>1 DEF Removing
  <2> QED
    BY <2>2, <2>3, <2>4, <2>5, <2>6 DEF Shape
<1>3. ASSUME MarkResolved(g) PROVE FALSE
  <2>1. At(g, "resolve")
    BY <1>3 DEF MarkResolved
  <2>2. j.op # "replay"
    BY <2>1, Stepping
  <2>3. CallOK(j, "resolve")
    BY <2>1, SerialParts, JobIs DEF CalmInv
  <2> QED
    BY <2>2, <2>3 DEF CallOK
<1>4. ASSUME NEW x, NextLetter(g, x) PROVE FALSE
  <2>1. At(g, "next") /\ j.op = "replay"
    BY <1>4 DEF NextLetter
  <2>2. j.op # "replay"
    BY <2>1, Stepping
  <2> QED
    BY <2>1, <2>2
<1> QED
  BY <1>1, <1>2, <1>3, <1>4

LEMMA StutterCalm == ASSUME CalmInv, SerialInv', UNCHANGED vars PROVE CalmInv'
<1>1. /\ live' = live /\ content' = content /\ parent' = parent /\ letters' = letters
      /\ gnodes' = gnodes /\ gcontent' = gcontent /\ contains' = contains /\ related' = related
      /\ job' = job /\ (Calm' <=> Calm)
  BY DEF vars, pgVars, letterVars, graphVars, countVars, Calm
<1>2. /\ Quiet' <=> Quiet
      /\ Fits(Idle)' <=> Fits(Idle)
      /\ \A g \in Jobs : /\ Fits(job[g])' <=> Fits(job[g])
                         /\ Creating(job[g])' <=> Creating(job[g])
                         /\ Updating(job[g])' <=> Updating(job[g])
                         /\ Moving(job[g])' <=> Moving(job[g])
                         /\ Removing(job[g])' <=> Removing(job[g])
  <2>1. Quiet' <=> Quiet
    BY <1>1 DEF Quiet
  <2>2. Fits(Idle)' <=> Fits(Idle)
    BY <1>1 DEF Fits, NodesFit, TextsFit, FoldersFit, PairsFit, Linked
  <2>3. ASSUME NEW g \in Jobs
        PROVE  /\ Fits(job[g])' <=> Fits(job[g])
               /\ Creating(job[g])' <=> Creating(job[g])
               /\ Updating(job[g])' <=> Updating(job[g])
               /\ Moving(job[g])' <=> Moving(job[g])
               /\ Removing(job[g])' <=> Removing(job[g])
    BY <1>1 DEF Fits, NodesFit, TextsFit, FoldersFit, PairsFit, Linked, Creating, Updating, Moving,
                Removing
  <2> QED
    BY <2>1, <2>2, <2>3
<1> QED
  BY <1>1, <1>2 DEF CalmInv

LEMMA InitCalm == ASSUME Init PROVE CalmInv
<1>1. SerialInv
  BY InitSerial
<1>2. /\ letters = <<>> /\ \A g \in Jobs : job[g] = Idle
  BY DEF Init
<1>3. NodesFit(Idle) /\ TextsFit(Idle) /\ PairsFit(Idle)
  BY IdleIs, IdleHolds DEF Init, NodesFit, TextsFit, PairsFit
<1>4. FoldersFit(Idle)
  BY IdleIs DEF Init, FoldersFit, Linked
<1> QED
  BY <1>1, <1>2, <1>3, <1>4 DEF CalmInv, Fits

\* A failure, and a move of several nodes, which the graph is not told of.
LEMMA FailuresCalm ==
  ASSUME SerialInv, SerialInv',
         \/ Crash
         \/ \E g \in Jobs : GraphFails(g) \/ StoreFails(g) \/ QueueFails(g)
         \/ \E S \in SUBSET Ids, p \in Parents : BatchMove(S, p)
  PROVE  CalmInv'
<1>1. faults \in Nat /\ losses \in Nat /\ crashes \in Nat /\ batchMoves \in Nat
  BY SerialParts, TypesParts DEF CountsOK
<1>2. \/ faults' = faults + 1 \/ losses' = losses + 1 \/ crashes' = crashes + 1
      \/ batchMoves' = batchMoves + 1
  BY DEF Crash, GraphFails, StoreFails, QueueFails, BatchMove
<1>3. ~Calm'
  BY <1>1, <1>2 DEF Calm
<1> QED
  BY <1>3, NotCalm

LEMMA NextCalm ==
  ASSUME CalmInv, [Next /\ Serial]_vars
  PROVE  CalmInv'
<1>1. SerialInv /\ SerialInv'
  BY NextSerial DEF CalmInv
<1>2. CASE UNCHANGED vars
  BY <1>1, <1>2, StutterCalm
<1>3. CASE Next /\ Serial
  <2>1. ASSUME NEW g \in Jobs, Request(g) PROVE CalmInv'
    BY <1>1, <1>3, <2>1, CreateCalm, UpdateCalm, MoveReadsCalm, DeleteReadsCalm DEF Request
  <2>2. ASSUME NEW g \in Jobs,
               Replay(g) \/ WriteLetter(g) \/ MarkResolved(g) \/ \E x \in job[g].todo : NextLetter(g, x)
        PROVE  CalmInv'
    <3>1. ~Calm
      BY <2>2, NoLetters
    <3>2. faults' = faults /\ losses' = losses /\ crashes' = crashes /\ batchMoves' = batchMoves
      BY <2>2 DEF Replay, WriteLetter, MarkResolved, NextLetter, countVars
    <3> QED
      BY <1>1, <3>1, <3>2, NotCalm DEF Calm
  <2>3. ASSUME NEW g \in Jobs, Progress(g) PROVE CalmInv'
    BY <1>1, <2>2, <2>3, MoveCommitsCalm, DeleteCommitsCalm, LoadCalm, CallGraphCalm, NextDeleteCalm
       DEF Progress
  <2>4. CASE \/ Crash
             \/ \E g \in Jobs : GraphFails(g) \/ StoreFails(g) \/ QueueFails(g)
             \/ \E S \in SUBSET Ids, p \in Parents : BatchMove(S, p)
    BY <1>1, <2>4, FailuresCalm
  <2> QED
    BY <1>3, <2>1, <2>2, <2>3, <2>4 DEF Next
<1> QED
  BY <1>2, <1>3

\* The pairs, as SimilarPairs has them.
LEMMA PairOfTwo ==
  ASSUME NEW m, NEW n
  PROVE  Cardinality({m, n}) = 2 <=> m # n
<1>1. CASE m = n
  <2>1. {m, n} = {m}
    BY <1>1
  <2>2. Cardinality({m}) = 1
    BY FS_Singleton
  <2> QED
    BY <1>1, <2>1, <2>2
<1>2. CASE m # n
  <2>1. IsFiniteSet({m}) /\ Cardinality({m}) = 1
    BY FS_Singleton
  <2>2. Cardinality({m} \cup {n}) = Cardinality({m}) + 1
    BY <1>2, <2>1, FS_AddElement
  <2>3. {m} \cup {n} = {m, n}
    OBVIOUS
  <2> QED
    BY <1>2, <2>1, <2>2, <2>3
<1> QED
  BY <1>1, <1>2

LEMMA SimilarPairIs ==
  ASSUME NEW m \in Docs, NEW n \in Docs
  PROVE  {m, n} \in SimilarPairs <=> m # n /\ m \in live /\ n \in live /\ content[m] = content[n]
<1>1. Cardinality({m, n}) = 2 <=> m # n
  BY PairOfTwo
<1>2. {m, n} \in {{a, b} : a, b \in live \cap Docs} <=> m \in live /\ n \in live
  <2>1. ASSUME NEW a \in live \cap Docs, NEW b \in live \cap Docs, {m, n} = {a, b}
        PROVE  m \in live /\ n \in live
    BY <2>1
  <2> QED
    BY <2>1
<1>3. (\A a, b \in {m, n} : content[a] = content[b]) <=> content[m] = content[n]
  OBVIOUS
<1>4. {m, n} \in SUBSET Docs
  OBVIOUS
<1> QED
  BY <1>1, <1>2, <1>3, <1>4 DEF SimilarPairs

\* As long as no call has failed and no batch move has been made, the calls of the
\* Sync functions leave in the graph exactly PostgreSQL's nodes, one CONTAINS for each
\* that is in a folder, and a relation for each pair of documents with similar texts,
\* whenever the requests, of which none overlaps another, have come to rest.
THEOREM CalmGraphMirrors == SerialSpec => []CalmMirror
<1>1. Init => CalmInv
  BY InitCalm
<1>2. CalmInv /\ [Next /\ Serial]_vars => CalmInv'
  BY NextCalm
<1>3. CalmInv => CalmMirror
  <2> SUFFICES ASSUME CalmInv, Quiet, Calm
               PROVE  /\ \A n \in Ids : Mirrored(n)
                      /\ \A f \in Folders, n \in Ids : contains[f][n] = IF Child(f, n) THEN 1 ELSE 0
                      /\ related = SimilarPairs
    BY DEF CalmMirror, Calm
  <2>1. RowsOK /\ GraphOK /\ ParentsLive
    BY SerialParts DEF CalmInv
  <2>2. NodesFit(Idle) /\ TextsFit(Idle) /\ FoldersFit(Idle) /\ PairsFit(Idle)
    BY DEF CalmInv, Fits
  <2>3. /\ \A n \in Ids : n \in gnodes <=> n \in live
        /\ \A n \in gnodes : gcontent[n] = content[n]
        /\ \A f \in Folders, n \in Ids :
             contains[f][n] = IF n \in gnodes /\ f \in gnodes /\ parent[n] = f THEN 1 ELSE 0
        /\ \A m, n \in Docs : m # n =>
             ({m, n} \in related <=> m \in gnodes /\ n \in gnodes /\ gcontent[m] = gcontent[n])
    BY <2>2, IdleIs, Untouched
  <2>4. \A n \in Ids : Mirrored(n)
    BY <2>3 DEF Mirrored
  <2>5. ASSUME NEW f \in Folders, NEW n \in Ids
        PROVE  contains[f][n] = IF Child(f, n) THEN 1 ELSE 0
    <3>1. f \in Ids /\ f # Top
      BY GraphSyncAssumption DEF Ids
    <3>2. n \in live /\ parent[n] = f => f \in live
      BY <2>1, <3>1 DEF ParentsLive
    <3> QED
      BY <2>3, <3>1, <3>2 DEF Child
  <2>6. related = SimilarPairs
    <3>1. \A m, n \in Docs : {m, n} \in SimilarPairs <=>
            m # n /\ m \in live /\ n \in live /\ content[m] = content[n]
      BY SimilarPairIs
    <3>2. \A m, n \in Docs : m # n => ({m, n} \in related <=> {m, n} \in SimilarPairs)
      BY <2>3, <3>1 DEF Ids
    <3>3. ASSUME NEW x \in related PROVE x \in SimilarPairs
      BY <2>1, <3>2 DEF GraphOK
    <3>4. ASSUME NEW x \in SimilarPairs PROVE x \in related
      <4>1. PICK m \in live \cap Docs, n \in live \cap Docs : x = {m, n}
        BY DEF SimilarPairs
      <4> QED
        BY <3>1, <3>2, <4>1
    <3> QED
      BY <3>3, <3>4
  <2> QED
    BY <2>4, <2>5, <2>6
<1> QED
  BY <1>1, <1>2, <1>3, PTL DEF SerialSpec
=============================================================================
