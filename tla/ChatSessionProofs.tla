------------------------- MODULE ChatSessionProofs --------------------------
(***************************************************************************)
(* Proofs about ChatSession: whose text, message id and rows an answer of  *)
(* the panel is made of, and who ends its spinner.                         *)
(***************************************************************************)
EXTENDS ChatSession, SequenceTheorems, TLAPS

-----------------------------------------------------------------------------
(* The inductive invariants.                                               *)

Used(r)   == ask[r].phase # "unused"
Newest(r) == Used(r) /\ \A s \in Asks : r < s => ~Used(s)

\* The panel shows the conversation of the URL, or questions that were asked.
Sound(l) == l \in Seq(Asks) /\ \A n \in 1..Len(l) : n <= l[n] /\ Used(l[n])

Notes == {"cancelled", "failed"}
Objects == [text : Seq(Asks \X (1..Data)), refs : Seq(Asks), note : SUBSET Notes,
            mid : Seq(Asks), fin : BOOLEAN, score : BOOLEAN]
Questions == [phase : {"unused", "timer", "captcha", "sent", "over"},
              conv : Seq(Asks), nonce : Seq(Asks)]
Jobs == [pc : {"idle", "received", "ask", "stream", "over"}, k : 0..Data,
         room : 0..Room, open : BOOLEAN, wire : Seq(Events)]
LogRows == {"user", "assistant"} \X Asks

ClientType ==
    /\ surface \in {"page", "widget"} /\ loading \in BOOLEAN
    /\ items = <<History>> \/ Sound(items)
    /\ obj \in [Items -> Objects]
    /\ convId \in Seq(Asks) /\ nonce \in Seq(Asks) /\ messageId \in Seq(Asks)
    /\ full \in Seq(Asks \X (1..Data))
    /\ ask \in [Asks -> Questions]
    /\ sub \in Items /\ buffer \in BOOLEAN
    /\ scoring # <<>> => /\ scoring \in Seq(Asks) \X Asks \X Seq(Asks)
                         /\ Sound(scoring[1]) /\ scoring[1] # <<>>
ServerType == /\ job \in [Asks -> Jobs] /\ log \in [Asks -> Seq(LogRows)]
              /\ convs \subseteq Asks /\ blocked \subseteq Asks
CountsType == /\ troubles \in 0..MaxTroubles
              /\ blame \subseteq {"cut", "overlap", "list", "unheard", "torn", "late", "behind", "unborn"}

\* Questions are asked in order, each with an item of its own.
InOrder == \A r \in Asks : /\ Used(r) => \A s \in 1..r : Used(s)
                           /\ ~Used(r) => obj[r] = Blank
Types == ClientType /\ ServerType /\ CountsType /\ InOrder

\* A request has a goroutine once it is sent, and a connection while the client
\* has it open.
Connected == \A r \in Asks : /\ ask[r].phase = "sent" <=> job[r].pc # "idle"
                             /\ job[r].open <=> sub = r
                             /\ job[r].open => ask[r].phase = "sent"
                             /\ ~job[r].open => job[r].wire = <<>>

\* What is on the wire: the pair of a new conversation, the message id, the
\* references and tokens, and, when the goroutine is over, one last event.
Ends == {"error", "done"}
Opening == {"conversation_id", "nonce"}
Body(pc, w) == IF pc = "over" THEN Len(w) - 1 ELSE Len(w)
Holds(w, type) == \E n \in 1..Len(w) : w[n].type = type
Shape(pc, k, w) ==
    /\ pc \in {"idle", "received"} => w = <<>>
    /\ pc \in {"idle", "received", "ask"} => k = 0 /\ \A n \in 1..Len(w) : w[n].type \in Opening
    /\ \A n \in 1..Len(w) :
         /\ w[n].type \in Ends <=> n > Body(pc, w)
         /\ w[n].type = "conversation_id" => n = 1 /\ Len(w) > 1 /\ w[2].type = "nonce"
         /\ w[n].type = "nonce" => n = 1 \/ (n = 2 /\ w[1].type = "conversation_id")
         /\ w[n].type = "message_id" => \A m \in 1..(n - 1) : w[m].type \in Opening
         /\ w[n].type = "done" => k = Data

\* The half line in the buffer meets the first event of a stream.
BufferFresh ==
    sub # 0 /\ buffer =>
        /\ job[sub].pc \in {"stream", "over"} => job[sub].wire # <<>>
        /\ job[sub].wire # <<>> => job[sub].wire[1].type \in {"conversation_id", "message_id", "error"}

\* A streaming answer has its question saved, and "done" tells of two rows.
Asking(r) == \E n \in 1..Len(log[ConversationOf(r)]) : log[ConversationOf(r)][n] = <<"user", r>>
RowsKnown == \A r \in Asks : /\ At(r, "stream") => Asking(r)
                             /\ Holds(job[r].wire, "done") => Saved(r)

ServerKnows == /\ Connected /\ BufferFresh /\ RowsKnown
               /\ \A r \in Asks : Shape(job[r].pc, job[r].k, job[r].wire)
WireInv == Types /\ ServerKnows

\* While no two questions overlap, what is under way is the newest one.
OneQuestion == "overlap" \notin blame => \A r \in InFlight : Newest(r)

\* While nothing mixes, the last item is that question's, and so is fullAnswer.
LastIsNewest == /\ items = <<History>> => \A r \in Asks : ~Used(r)
                /\ items # <<>> /\ items # <<History>> => Newest(Bottom)
                /\ \A n \in 1..Len(full) : Newest(full[n][1])
                /\ messageId # <<>> => \E r \in Asks : Newest(r) /\ messageId = <<r>>

OwnText(i)  == /\ \A n \in 1..Len(obj[i].text) : obj[i].text[n][1] = i
               /\ \A n \in 1..Len(obj[i].refs) : obj[i].refs[n] = i
OwnMid(i)   == /\ obj[i].mid \in {<<>>, <<i>>}
               /\ obj[i].fin /\ obj[i].mid = <<>> => "torn" \in blame \/ obj[i].note # {}
Finished(i) == obj[i].fin => obj[i].text = Answer(i) /\ Saved(i)
ItemsTrue   == /\ \A i \in Items : OwnText(i) /\ Finished(i)
               /\ \A i \in Asks : OwnMid(i)

\* The h tokens the client has and the data on the wire make up the k that the
\* goroutine has sent.
Ahead(pc, k, w, h) ==
    LET z == Body(pc, w)
    IN /\ h <= k /\ k - h <= z
       /\ \A n \in 1..z : /\ w[n].type = "data" <=> n > z - (k - h)
                          /\ w[n].type = "data" => w[n].k = k - (z - n)
Told(r) ==
    (At(r, "over") => job[r].wire # <<>>) =>
        /\ Ahead(job[r].pc, job[r].k, job[r].wire, Len(full))
        /\ \A n \in 1..Len(full) : full[n] = <<r, n>>
        /\ obj[r].text = full /\ ~obj[r].fin
IdTold(r) ==
    /\ job[r].pc \in {"idle", "received", "ask"} \/ Holds(job[r].wire, "message_id") =>
         messageId = <<>>
    /\ "torn" \notin blame /\ items # <<>> /\ (At(r, "stream") \/ Holds(job[r].wire, "done")) =>
         messageId = <<r>> \/ Holds(job[r].wire, "message_id")
AllTold == \A r \in InFlight : IdTold(r) /\ (items # <<>> => Told(r))

PanelInv == /\ WireInv /\ OneQuestion
            /\ blame \cap Mixes = {} => LastIsNewest /\ ItemsTrue /\ AllTold

\* The pair the client will send next is one the server issued, or is still
\* coming in.
Usable(c, n) ==
    \/ c = <<>> /\ n = <<>>
    \/ \E r \in Asks : c = <<r>> /\ n = <<r>> /\ (r \in convs \/ "unborn" \in blame)
Opened(r) == /\ ask[r].conv = <<>> /\ job[r].pc \notin {"idle", "received"}
             /\ At(r, "ask") \/ r \in convs \/ "unborn" \in blame
Starting(r, type) == job[r].wire # <<>> /\ job[r].wire[1].type = type
PairTold(r) ==
    \/ /\ ~Holds(job[r].wire, "conversation_id") /\ ~Holds(job[r].wire, "nonce")
       /\ \/ convId = <<>> /\ nonce = <<>>
          \/ convId = ask[r].conv /\ nonce = ask[r].nonce
          \/ convId = <<r>> /\ nonce = <<r>> /\ Opened(r)
    \/ Starting(r, "nonce") /\ convId = <<r>> /\ nonce = <<>> /\ Opened(r)
    \/ Starting(r, "conversation_id") /\ convId = <<>> /\ nonce = <<>> /\ Opened(r)
PairKnown == /\ ~buffer
             /\ InFlight = {} => Usable(convId, nonce)
             /\ \A r \in InFlight : Usable(ask[r].conv, ask[r].nonce) /\ PairTold(r)
PairInv == WireInv /\ OneQuestion /\ (blame \cap {"cut", "overlap"} = {} => PairKnown)

\* As long as no row is saved after its request has ended, an answer's row comes
\* right after its question's: of a question that is being answered, and of a
\* blocked one whose fixed answer is still to be saved.
PairsTrue(rows) == \A n \in 1..(Len(rows) - 1) :
    rows[n][1] = "user" /\ rows[n + 1][1] = "assistant" => rows[n][2] = rows[n + 1][2]
EndsWith(rows, x) == rows # <<>> /\ rows[Len(rows)] = x
Awaits(r) == At(r, "stream") \/ r \in blocked
RowsTrue == /\ \A c \in Asks : PairsTrue(log[c])
            /\ \A r \in Asks : Awaits(r) /\ job[r].open =>
                 EndsWith(log[ConversationOf(r)], <<"user", r>>)
            /\ \A r \in blocked : At(r, "over")
RowsInv == WireInv /\ (blame \cap {"late", "behind"} = {} => RowsTrue)

-----------------------------------------------------------------------------
(* Sequences, records and events.                                          *)

LEMMA AppendEach ==
  ASSUME NEW S, NEW s \in Seq(S), NEW x \in S
  PROVE  /\ Append(s, x) \in Seq(S) /\ Append(s, x) # <<>>
         /\ Len(s) \in Nat /\ Len(Append(s, x)) = Len(s) + 1
         /\ \A n \in 1..Len(s) : Append(s, x)[n] = s[n]
         /\ Append(s, x)[Len(s) + 1] = x
BY AppendProperties, LenProperties

LEMMA SeqEach ==
  ASSUME NEW S, NEW s \in Seq(S)
  PROVE  /\ Len(s) \in Nat /\ (s = <<>> <=> Len(s) = 0)
         /\ \A n \in 1..Len(s) : s[n] \in S
BY LenProperties, ElementOfSeq, EmptySeq

LEMMA TailEach ==
  ASSUME NEW S, NEW s \in Seq(S), s # <<>>
  PROVE  /\ Tail(s) \in Seq(S) /\ Head(s) = s[1] /\ s[1] \in S
         /\ Len(s) \in Nat \ {0} /\ Len(Tail(s)) = Len(s) - 1
         /\ \A n \in 1..Len(Tail(s)) : Tail(s)[n] = s[n + 1]
<1>1. Len(s) \in Nat \ {0}
  BY SeqEach
<1>2. Head(s) = s[1]
  OBVIOUS
<1>3. s[1] \in S
  BY <1>1, SeqEach
<1> QED
  BY <1>1, <1>2, <1>3, HeadTailProperties

LEMMA JoinEach ==
  ASSUME NEW S, NEW s \in Seq(S), NEW t \in Seq(S)
  PROVE  /\ s \o t \in Seq(S) /\ Len(s) \in Nat /\ Len(t) \in Nat
         /\ Len(s \o t) = Len(s) + Len(t)
         /\ \A n \in 1..Len(s) : (s \o t)[n] = s[n]
         /\ \A n \in 1..Len(t) : (s \o t)[Len(s) + n] = t[n]
<1>1. Len(s) \in Nat /\ Len(t) \in Nat
  BY LenProperties
<1>2. /\ s \o t \in Seq(S) /\ Len(s \o t) = Len(s) + Len(t)
      /\ \A n \in 1..Len(s) + Len(t) : (s \o t)[n] = IF n <= Len(s) THEN s[n] ELSE t[n - Len(s)]
  BY ConcatProperties
<1>3. ASSUME NEW n \in 1..Len(t)  PROVE (s \o t)[Len(s) + n] = t[n]
  <2>1. Len(s) + n \in 1..Len(s) + Len(t) /\ ~(Len(s) + n <= Len(s)) /\ Len(s) + n - Len(s) = n
    BY <1>1
  <2> QED
    BY <1>2, <2>1
<1> QED
  BY <1>1, <1>2, <1>3

LEMMA EventsType ==
  /\ \A t \in {"conversation_id", "nonce", "message_id", "chunk_result", "error", "done"} :
       Sees(t) \in Events /\ Sees(t).type = t
  /\ \A k \in 1..Data : [type |-> "data", k |-> k] \in Events
  /\ \A e \in Events : e.type = "data" => e.k \in 1..Data
BY DEF Events, Sees

\* What a step of the goroutine does to its request: it sends events, which the
\* handler passes on as long as the reader is there.
Sends(r, es, pc, k) ==
    /\ job'[r].pc = pc /\ job'[r].k = k /\ job'[r].open = job[r].open
    /\ job'[r].wire = IF job[r].open THEN job[r].wire \o es ELSE job[r].wire
    /\ \A s \in Asks : s # r => job'[s] = job[s]

\* The same for Emit.
LEMMA EmitSends ==
  ASSUME ServerType, BoundsAssumption, NEW r \in Asks, NEW es \in Seq(Events),
         NEW n \in Nat, CanEmit(r, n), NEW m \in 0..n, Len(es) = m,
         NEW pc \in {"idle", "received", "ask", "stream", "over"}, NEW k \in 0..Data,
         Emit(r, es, [job[r] EXCEPT !.pc = pc, !.k = k])
  PROVE  job' \in [Asks -> Jobs] /\ Sends(r, es, pc, k)
<1>1. /\ job \in [Asks -> Jobs] /\ job[r] \in Jobs /\ Len(es) \in Nat
      /\ job[r].wire \in Seq(Events) /\ job[r].room \in 0..Room /\ Room \in Nat
  BY LenProperties DEF ServerType, Jobs, BoundsAssumption
<1>2. CASE job[r].open
  <2>1. job' = [job EXCEPT ![r] = [job[r] EXCEPT !.pc = pc, !.k = k, !.wire = job[r].wire \o es]]
    BY <1>1, <1>2 DEF Emit, Jobs
  <2>2. job[r].wire \o es \in Seq(Events)
    BY <1>1, JoinEach
  <2> QED
    BY <1>1, <1>2, <2>1, <2>2 DEF Sends, Jobs
<1>3. CASE ~job[r].open
  <2>1. job' = [job EXCEPT ![r] = [job[r] EXCEPT !.pc = pc, !.k = k, !.room = job[r].room - Len(es)]]
    BY <1>1, <1>3 DEF Emit, Jobs
  <2>2. job[r].room - Len(es) \in 0..Room
    BY <1>1, <1>3 DEF CanEmit
  <2> QED
    BY <1>1, <1>3, <2>1, <2>2 DEF Sends, Jobs
<1> QED
  BY <1>2, <1>3

-----------------------------------------------------------------------------
(* The goroutine of a request.                                             *)

Late(r) == blame' = IF job[r].open THEN blame ELSE blame \cup {"late"}
Told1(t) == <<Sees(t)>>
Told2(t, u) == <<Sees(t), Sees(u)>>
Writes(r, rows) == log' = [log EXCEPT ![ConversationOf(r)] = @ \o rows]
Ask(r) == <<"user", r>>
Reply(r) == <<"assistant", r>>

\* The steps of the goroutine, by what they send and what they save.
Opens(r) ==
    /\ At(r, "received") /\ UNCHANGED <<log, convs, blame>>
    /\ \/ Sends(r, Told1("error"), "over", job[r].k)
       \/ ask[r].conv = <<>> /\ Sends(r, Told2("conversation_id", "nonce"), "ask", job[r].k)
       \/ ask[r].conv # <<>> /\ Sends(r, <<>>, "ask", job[r].k)
Fails(r) ==
    /\ At(r, "ask") /\ ask[r].conv = <<>> /\ UNCHANGED <<log, convs>>
    /\ Sends(r, Told1("error"), "over", job[r].k)
    /\ blame' = blame \cup {"unborn"}
Enters(r) ==
    /\ At(r, "ask") /\ convs' = convs \cup {ConversationOf(r)} /\ Late(r)
    /\ \/ Sends(r, Told2("message_id", "chunk_result"), "stream", job[r].k) /\ Writes(r, <<Ask(r)>>)
       \/ /\ Sends(r, Told2("message_id", "error"), "over", job[r].k)
          /\ UNCHANGED log \/ Writes(r, <<Ask(r)>>)
Speaks(r) ==
    /\ At(r, "stream") /\ job[r].k < Data /\ UNCHANGED <<log, convs, blame>>
    /\ Sends(r, <<[type |-> "data", k |-> job[r].k + 1]>>, "stream", job[r].k + 1)
Closes(r) ==
    /\ At(r, "stream") /\ UNCHANGED convs /\ Late(r)
    /\ \/ Sends(r, Told1("error"), "over", job[r].k) /\ (UNCHANGED log \/ Writes(r, <<Reply(r)>>))
       \/ /\ job[r].k = Data /\ Sends(r, Told1("done"), "over", job[r].k)
          /\ Writes(r, <<Reply(r)>>)
Served(r) == Opens(r) \/ Fails(r) \/ Enters(r) \/ Speaks(r) \/ Closes(r)

\* Whether a fixed answer is still to be saved, and what saving it does.
Refuses(r) == \/ UNCHANGED blocked
              \/ blocked' = blocked \cup {r} /\ Writes(r, <<Ask(r)>>) /\ job'[r].pc = "over"
Filed(r) == /\ r \in blocked /\ blocked' = blocked \ {r}
            /\ UNCHANGED <<surface, client, job, convs>>
            /\ \/ UNCHANGED <<log, blame>>
               \/ /\ Writes(r, <<Reply(r)>>)
                  /\ blame' = IF job[r].open THEN blame ELSE blame \cup {"behind"}

\* A step adds at most one row to the log.
AddsRow(r) == UNCHANGED log \/ Writes(r, <<Ask(r)>>) \/ Writes(r, <<Reply(r)>>)

EventTypes == {"conversation_id", "nonce", "message_id", "chunk_result", "error", "done"}

LEMMA ToldType ==
  /\ \A t \in EventTypes :
       Told1(t) \in Seq(Events) /\ Len(Told1(t)) = 1 /\ Told1(t)[1].type = t
  /\ \A t \in EventTypes, u \in EventTypes :
       /\ Told2(t, u) \in Seq(Events) /\ Len(Told2(t, u)) = 2
       /\ Told2(t, u)[1].type = t /\ Told2(t, u)[2].type = u
<1>1. \A t \in EventTypes : Sees(t) \in Events /\ Sees(t).type = t
  BY EventsType DEF EventTypes
<1>2. ASSUME NEW t \in EventTypes
      PROVE  Told1(t) \in Seq(Events) /\ Len(Told1(t)) = 1 /\ Told1(t)[1].type = t
  BY <1>1 DEF Told1
<1>3. ASSUME NEW t \in EventTypes, NEW u \in EventTypes
      PROVE  /\ Told2(t, u) \in Seq(Events) /\ Len(Told2(t, u)) = 2
             /\ Told2(t, u)[1].type = t /\ Told2(t, u)[2].type = u
  BY <1>1 DEF Told2
<1> QED
  BY <1>2, <1>3

LEMMA ConversationType ==
  ASSUME Types, NEW r \in Asks  PROVE ConversationOf(r) \in Asks
<1>1. ask[r].conv \in Seq(Asks)
  BY DEF Types, ClientType, Questions
<1>2. ask[r].conv # <<>> => Head(ask[r].conv) \in Asks
  BY <1>1, TailEach
<1> QED
  BY <1>2 DEF ConversationOf

LEMMA ServeMoves ==
  ASSUME Types, NEW r \in Asks, Serve(r)
  PROVE  /\ Served(r) /\ Refuses(r) /\ AddsRow(r) /\ UNCHANGED <<surface, client>>
         /\ job' \in [Asks -> Jobs] /\ troubles' \in 0..MaxTroubles
<1>0. /\ job \in [Asks -> Jobs] /\ job[r] \in Jobs /\ ServerType /\ troubles \in 0..MaxTroubles
      /\ MaxTroubles \in Nat /\ ConversationOf(r) \in Asks /\ log \in [Asks -> Seq(LogRows)]
      /\ Ask(r) \in LogRows /\ Reply(r) \in LogRows
  BY ConversationType, BoundsAssumption
     DEF Types, ServerType, CountsType, BoundsAssumption, LogRows, Ask, Reply
<1>1. troubles' \in 0..MaxTroubles
  <2>1. CallFails(r) => troubles' \in 0..MaxTroubles
    BY <1>0 DEF CallFails, Trouble
  <2>2. CallFails(r) \/ UNCHANGED troubles
    BY DEF Serve, Converse, SaveQuestion, Blocked, OnChunk, ModelFails, SaveAnswer
  <2> QED
    BY <1>0, <2>1, <2>2
<1>2. UNCHANGED <<surface, client>>
  BY DEF Serve, Converse, SaveQuestion, Blocked, OnChunk, ModelFails, SaveAnswer
<1>3. \A pc : To(r, pc) = [job[r] EXCEPT !.pc = pc, !.k = job[r].k]
  BY <1>0 DEF To, Jobs
<1>4. ASSUME NEW es \in Seq(Events), NEW n \in {1, 2}, CanEmit(r, n), NEW m \in 1..n, Len(es) = m,
             NEW pc \in {"ask", "stream", "over"}, Emit(r, es, To(r, pc))
      PROVE  job' \in [Asks -> Jobs] /\ Sends(r, es, pc, job[r].k)
  <2>1. Emit(r, es, [job[r] EXCEPT !.pc = pc, !.k = job[r].k])
    BY <1>3, <1>4
  <2>2. n \in Nat /\ m \in 0..n /\ job[r].k \in 0..Data
        /\ pc \in {"idle", "received", "ask", "stream", "over"}
    BY <1>0, <1>4 DEF Jobs
  <2> QED
    BY <1>0, <1>4, <2>1, <2>2, EmitSends, BoundsAssumption
<1>t. /\ Told2("conversation_id", "nonce") \in Seq(Events)
      /\ Len(Told2("conversation_id", "nonce")) = 2
      /\ Told2("message_id", "chunk_result") \in Seq(Events)
      /\ Len(Told2("message_id", "chunk_result")) = 2
      /\ Told2("message_id", "error") \in Seq(Events) /\ Len(Told2("message_id", "error")) = 2
      /\ Told1("error") \in Seq(Events) /\ Len(Told1("error")) = 1
      /\ Told1("done") \in Seq(Events) /\ Len(Told1("done")) = 1
  <2>1. /\ "conversation_id" \in EventTypes /\ "nonce" \in EventTypes /\ "message_id" \in EventTypes
        /\ "chunk_result" \in EventTypes /\ "error" \in EventTypes /\ "done" \in EventTypes
    BY DEF EventTypes
  <2> QED
    BY <2>1, ToldType
<1>5. ASSUME Fail(r), NEW n \in {1, 2}, CanEmit(r, n)
      PROVE  job' \in [Asks -> Jobs] /\ Sends(r, Told1("error"), "over", job[r].k)
  <2>1. Emit(r, Told1("error"), To(r, "over"))
    BY <1>5 DEF Fail, Told1, Sees
  <2>2. Told1("error") \in Seq(Events) /\ Len(Told1("error")) = 1 /\ 1 \in 1..n
    BY <1>t
  <2> QED
    BY <1>4, <1>5, <2>1, <2>2
<1>6. ASSUME NEW row \in LogRows
      PROVE  [log EXCEPT ![ConversationOf(r)] = Append(@, row)]
               = [log EXCEPT ![ConversationOf(r)] = @ \o <<row>>]
  BY <1>0, <1>6, AppendIsConcat
<1>7. \A bad : Blame(~bad, "late") => blame' = IF bad THEN blame ELSE blame \cup {"late"}
  BY DEF Blame
<1>8. ASSUME Converse(r)  PROVE Opens(r) /\ job' \in [Asks -> Jobs]
  <2>1. At(r, "received") /\ CanEmit(r, 2) /\ UNCHANGED <<log, convs, blame>>
    BY <1>8 DEF Converse
  <2>2. CASE Fail(r)
    BY <1>5, <2>1, <2>2 DEF Opens
  <2>3. CASE ask[r].conv = <<>> /\ Emit(r, Told2("conversation_id", "nonce"), To(r, "ask"))
    <3>1. Sends(r, Told2("conversation_id", "nonce"), "ask", job[r].k) /\ job' \in [Asks -> Jobs]
      BY <1>4, <1>t, <2>1, <2>3
    <3> QED
      BY <2>1, <2>3, <3>1 DEF Opens
  <2>4. CASE ask[r].conv # <<>> /\ job' = [job EXCEPT ![r].pc = "ask"]
    <3>1. job[r].wire \o <<>> = job[r].wire
      BY <1>0, ConcatEmptySeq DEF Jobs
    <3>2. Sends(r, <<>>, "ask", job[r].k) /\ job' \in [Asks -> Jobs]
      BY <1>0, <2>4, <3>1 DEF Sends, Jobs
    <3> QED
      BY <2>1, <2>4, <3>2 DEF Opens
  <2> QED
    BY <1>8, <2>2, <2>3, <2>4 DEF Converse, Told2
<1>9. ASSUME SaveQuestion(r)  PROVE (Enters(r) \/ Fails(r)) /\ job' \in [Asks -> Jobs]
  <2>1. At(r, "ask") /\ CanEmit(r, 2)
    BY <1>9 DEF SaveQuestion
  <2>2. CASE /\ convs' = convs \cup {ConversationOf(r)} /\ Blame(~job[r].open, "late")
             /\ log' = [log EXCEPT ![ConversationOf(r)] = Append(@, Ask(r))]
             /\ Emit(r, Told2("message_id", "chunk_result"), To(r, "stream"))
    <3>1. Sends(r, Told2("message_id", "chunk_result"), "stream", job[r].k) /\ job' \in [Asks -> Jobs]
      BY <1>4, <1>t, <2>1, <2>2
    <3> QED
      BY <1>0, <1>6, <1>7, <2>1, <2>2, <3>1 DEF Enters, Writes, Late
  <2>3. CASE ask[r].conv = <<>> /\ Fail(r) /\ Blame(TRUE, "unborn") /\ UNCHANGED <<convs, log>>
    BY <1>5, <2>1, <2>3 DEF Fails, Blame
  <2>4. CASE /\ convs' = convs \cup {ConversationOf(r)} /\ Blame(~job[r].open, "late")
             /\ log' \in {log, [log EXCEPT ![ConversationOf(r)] = Append(@, Ask(r))]}
             /\ Emit(r, Told2("message_id", "error"), To(r, "over"))
    <3>1. Sends(r, Told2("message_id", "error"), "over", job[r].k) /\ job' \in [Asks -> Jobs]
      BY <1>4, <1>t, <2>1, <2>4
    <3> QED
      BY <1>0, <1>6, <1>7, <2>1, <2>4, <3>1 DEF Enters, Writes, Late
  <2> QED
    BY <1>9, <2>2, <2>3, <2>4 DEF SaveQuestion, Told2, Ask
<1>10. ASSUME Blocked(r)
       PROVE  /\ Enters(r) /\ job' \in [Asks -> Jobs]
              /\ Writes(r, <<Ask(r)>>) /\ job'[r].pc = "over" /\ blocked' = blocked \cup {r}
  <2>0. /\ At(r, "ask") /\ CanEmit(r, 2) /\ Blame(~job[r].open, "late")
        /\ convs' = convs \cup {ConversationOf(r)} /\ blocked' = blocked \cup {r}
        /\ log' = [log EXCEPT ![ConversationOf(r)] = Append(@, Ask(r))]
        /\ Emit(r, Told2("message_id", "error"), To(r, "over"))
    BY <1>10 DEF Blocked, Told2, Ask
  <2>1. At(r, "ask") /\ CanEmit(r, 2) /\ Emit(r, Told2("message_id", "error"), To(r, "over"))
        /\ Writes(r, <<Ask(r)>>)
    BY <1>0, <1>6, <2>0 DEF Writes
  <2>2. Sends(r, Told2("message_id", "error"), "over", job[r].k) /\ job' \in [Asks -> Jobs]
    BY <1>4, <1>t, <2>1
  <2> QED
    BY <1>7, <2>0, <2>1, <2>2 DEF Enters, Late, Sends
<1>11. ASSUME OnChunk(r)  PROVE Speaks(r) /\ job' \in [Asks -> Jobs]
  <2> DEFINE e == [type |-> "data", k |-> job[r].k + 1]
  <2>1. /\ At(r, "stream") /\ job[r].k < Data /\ CanEmit(r, 1) /\ UNCHANGED <<log, convs, blame>>
        /\ Emit(r, <<e>>, [job[r] EXCEPT !.k = @ + 1])
    BY <1>11 DEF OnChunk
  <2>2. [job[r] EXCEPT !.k = @ + 1] = [job[r] EXCEPT !.pc = "stream", !.k = job[r].k + 1]
    BY <1>0, <2>1 DEF At, Jobs
  <2>3. job[r].k + 1 \in 1..Data /\ job[r].k + 1 \in 0..Data
    BY <1>0, <2>1, BoundsAssumption DEF Jobs, BoundsAssumption
  <2>4. e \in Events
    BY <2>3, EventsType
  <2>5. <<e>> \in Seq(Events) /\ Len(<<e>>) = 1
    BY <2>4
  <2>6. Emit(r, <<e>>, [job[r] EXCEPT !.pc = "stream", !.k = job[r].k + 1])
    BY <2>1, <2>2
  <2> HIDE DEF e
  <2>m. 1 \in Nat /\ 1 \in 0..1 /\ "stream" \in {"idle", "received", "ask", "stream", "over"}
    OBVIOUS
  <2>7. Sends(r, <<e>>, "stream", job[r].k + 1) /\ job' \in [Asks -> Jobs]
    BY <1>0, <2>1, <2>3, <2>5, <2>6, <2>m, EmitSends, BoundsAssumption
  <2> QED
    BY <2>1, <2>7 DEF Speaks, e
<1>12. ASSUME ModelFails(r)  PROVE Closes(r) /\ job' \in [Asks -> Jobs]
  <2>1. /\ At(r, "stream") /\ CanEmit(r, 1) /\ Fail(r) /\ Blame(~job[r].open, "late") /\ UNCHANGED convs
        /\ log' \in {log, [log EXCEPT ![ConversationOf(r)] = Append(@, Reply(r))]}
    BY <1>12 DEF ModelFails, Reply
  <2> QED
    BY <1>0, <1>5, <1>6, <1>7, <2>1 DEF Closes, Writes, Late
<1>13. ASSUME SaveAnswer(r)  PROVE Closes(r) /\ job' \in [Asks -> Jobs]
  <2>1. /\ At(r, "stream") /\ job[r].k = Data /\ CanEmit(r, 1) /\ Blame(~job[r].open, "late")
        /\ UNCHANGED convs /\ log' = [log EXCEPT ![ConversationOf(r)] = Append(@, Reply(r))]
        /\ Emit(r, Told1("done"), To(r, "over")) /\ Len(Told1("done")) = 1
    BY <1>t, <1>13 DEF SaveAnswer, Reply, Told1
  <2>2. Sends(r, Told1("done"), "over", job[r].k) /\ job' \in [Asks -> Jobs]
    BY <1>4, <1>t, <2>1
  <2> QED
    BY <1>0, <1>6, <1>7, <2>1, <2>2 DEF Closes, Writes, Late
<1>14. Refuses(r)
  <2>1. UNCHANGED blocked \/ Blocked(r)
    BY DEF Serve, Converse, SaveQuestion, OnChunk, ModelFails, SaveAnswer
  <2> QED
    BY <1>10, <2>1 DEF Refuses
<1>15. Served(r) /\ job' \in [Asks -> Jobs]
  BY <1>8, <1>9, <1>10, <1>11, <1>12, <1>13 DEF Serve, Served
<1>16. AddsRow(r)
  BY <1>15 DEF AddsRow, Served, Opens, Fails, Enters, Speaks, Closes
<1> QED
  BY <1>1, <1>2, <1>14, <1>15, <1>16

-----------------------------------------------------------------------------
(* Types.                                                                  *)

LEMMA LastItem ==
  ASSUME Types, items # <<>>
  PROVE  /\ Bottom \in Items /\ Len(items) \in Nat \ {0}
         /\ \/ Bottom = History /\ items = <<History>>
            \/ Bottom \in Asks /\ Used(Bottom) /\ items # <<History>> /\ Len(items) <= Bottom
<1>1. CASE items = <<History>>
  BY <1>1 DEF Bottom, Items
<1>2. CASE Sound(items)
  <2>1. Len(items) \in Nat \ {0} /\ items \in Seq(Asks)
    BY <1>2, SeqEach DEF Sound
  <2>2. Bottom \in Asks /\ Used(Bottom) /\ Len(items) <= Bottom
    BY <1>2, <2>1, SeqEach DEF Sound, Bottom
  <2>3. History \notin Asks
    BY DEF History, Asks
  <2>4. items # <<History>>
    BY <2>2, <2>3 DEF Bottom
  <2> QED
    BY <2>1, <2>2, <2>4 DEF Items
<1> QED
  BY <1>1, <1>2 DEF Types, ClientType

LEMMA SetLastMoves ==
  ASSUME Types, NEW item, items # <<>> => item \in Objects, SetLast(item)
  PROVE  /\ obj' \in [Items -> Objects]
         /\ \A r \in Asks : ~Used(r) => obj'[r] = obj[r]
         /\ \A i \in Items : obj'[i] = IF items # <<>> /\ i = Bottom THEN item ELSE obj[i]
<1>1. obj \in [Items -> Objects]
  BY DEF Types, ClientType
<1>2. CASE items = <<>>
  BY <1>1, <1>2 DEF SetLast, Items
<1>3. CASE items # <<>>
  <2>1. obj' = [obj EXCEPT ![Bottom] = item] /\ item \in Objects
    BY <1>3 DEF SetLast
  <2>2. Bottom = History \/ (Bottom \in Asks /\ Used(Bottom))
    BY <1>3, LastItem
  <2>3. \A r \in Asks : r \in Items /\ r # History
    BY DEF Items, Asks, History
  <2> QED
    BY <1>1, <1>3, <2>1, <2>2, <2>3
<1> QED
  BY <1>2, <1>3

LEMMA CancelledType ==
  ASSUME NEW item \in Objects, NEW mid \in Seq(Asks)
  PROVE  /\ Cancelled(item, mid) \in Objects
         /\ Cancelled(item, mid).text = item.text /\ Cancelled(item, mid).refs = item.refs
         /\ Cancelled(item, mid).fin = item.fin /\ Cancelled(item, mid).mid = mid
         /\ Cancelled(item, mid).note = item.note \cup {"cancelled"}
BY DEF Cancelled, Objects, Notes

LEMMA ClosedMoves ==
  ASSUME ServerType, NEW r \in Items
  PROVE  /\ Closed(job, r) \in [Asks -> Jobs]
         /\ \A s \in Asks : Closed(job, r)[s] =
              IF s = r THEN [job[s] EXCEPT !.open = FALSE, !.wire = <<>>] ELSE job[s]
<1>1. <<>> \in Seq(Events) /\ job \in [Asks -> Jobs] /\ 0 \notin Asks
  BY EmptySeq DEF ServerType, Asks
<1>2. CASE r = 0
  BY <1>1, <1>2 DEF Closed
<1>3. CASE r # 0
  <2>1. r \in Asks /\ job[r] \in Jobs
    BY <1>1, <1>3 DEF Items, History
  <2>2. [job[r] EXCEPT !.open = FALSE, !.wire = <<>>] \in Jobs
    BY <1>1, <2>1 DEF Jobs
  <2>3. Closed(job, r) = [job EXCEPT ![r] = [job[r] EXCEPT !.open = FALSE, !.wire = <<>>]]
    BY <1>1, <1>3, <2>1 DEF Closed, Jobs
  <2> QED
    BY <1>1, <2>1, <2>2, <2>3
<1> QED
  BY <1>2, <1>3

\* A question is asked: by the first number that is not used.
Asked1(r) == /\ r \in Asks /\ ask[r].phase = "unused"
             /\ \A s \in 1..(r - 1) : ask[s].phase # "unused"
             /\ ask' = [ask EXCEPT ![r] = [phase |-> "timer", conv |-> convId, nonce |-> nonce]]

LEMMA AskMoves ==
  ASSUME Types, NEW r, Asked1(r)
  PROVE  /\ ask' \in [Asks -> Questions] /\ ~Used(r)
         /\ ask'[r] = [phase |-> "timer", conv |-> convId, nonce |-> nonce]
         /\ \A s \in Asks : s # r => ask'[s] = ask[s]
         /\ \A s \in Asks : Used(s)' <=> Used(s) \/ s = r
         /\ \A s \in Asks : Used(s) <=> s < r
         /\ Newest(r)' /\ obj[r] = Blank
<1>1. /\ ask \in [Asks -> Questions] /\ convId \in Seq(Asks) /\ nonce \in Seq(Asks)
      /\ r \in Asks /\ r \in Nat /\ MaxAsks \in Nat
  BY BoundsAssumption DEF Types, ClientType, Asked1, Asks, BoundsAssumption
<1>2. ask' \in [Asks -> Questions]
  BY <1>1 DEF Asked1, Questions
<1>3. /\ ask'[r] = [phase |-> "timer", conv |-> convId, nonce |-> nonce]
      /\ \A s \in Asks : s # r => ask'[s] = ask[s]
  BY <1>1 DEF Asked1
<1>4. \A s \in Asks : Used(s)' <=> Used(s) \/ s = r
  BY <1>3 DEF Used
<1>5. ~Used(r)
  BY DEF Asked1, Used
<1>6. ASSUME NEW s \in Asks  PROVE Used(s) <=> s < r
  <2>1. s \in Nat /\ s >= 1
    BY DEF Asks
  <2>2. s < r => Used(s)
    BY <1>1, <2>1 DEF Asked1, Used
  <2>3. Used(s) => ~(r \in 1..s)
    BY <1>5 DEF Types, InOrder
  <2>4. r >= 1
    BY <1>1 DEF Asks
  <2> QED
    BY <1>1, <2>1, <2>2, <2>3, <2>4
<1>7. Newest(r)'
  BY <1>1, <1>4, <1>6 DEF Newest, Asks
<1>8. obj[r] = Blank
  BY <1>1, <1>5 DEF Types, InOrder
<1> QED
  BY <1>2, <1>3, <1>4, <1>5, <1>6, <1>7, <1>8

LEMMA SoundKept ==
  ASSUME NEW l, Sound(l), \A r \in Asks : Used(r) => Used(r)'
  PROVE  l \in Seq(Asks) /\ \A n \in 1..Len(l) : n <= l[n] /\ Used(l[n])'
BY SeqEach DEF Sound

\* What no step but a question and a feedback goes beyond.
LEMMA TypesKept ==
  ASSUME Types, surface' = surface, loading' \in BOOLEAN,
         items' \in {items, <<>>}, scoring' \in {scoring, <<>>},
         obj' \in [Items -> Objects], \A r \in Asks : ~Used(r) => obj'[r] = obj[r],
         ask' \in [Asks -> Questions], \A r \in Asks : Used(r)' <=> Used(r),
         convId' \in Seq(Asks), nonce' \in Seq(Asks), messageId' \in Seq(Asks),
         full' \in Seq(Asks \X (1..Data)), sub' \in Items, buffer' \in BOOLEAN,
         ServerType', CountsType'
  PROVE  Types'
<1>1. items' = <<History>> \/ Sound(items)'
  <2>1. CASE items' = <<>>
    BY <2>1, EmptySeq DEF Sound
  <2>2. CASE items' = items /\ Sound(items)
    BY <2>2, SoundKept DEF Sound
  <2> QED
    BY <2>1, <2>2 DEF Types, ClientType
<1>2. scoring' # <<>> => /\ scoring' \in Seq(Asks) \X Asks \X Seq(Asks)
                         /\ Sound(scoring[1])' /\ scoring'[1] # <<>>
  <2>1. CASE scoring' = scoring /\ scoring # <<>>
    <3>1. Sound(scoring[1])
      BY <2>1 DEF Types, ClientType
    <3> QED
      BY <2>1, <3>1, SoundKept DEF Types, ClientType, Sound
  <2> QED
    BY <2>1
<1>3. ClientType'
  BY <1>1, <1>2 DEF Types, ClientType
<1>4. InOrder'
  <2>1. \A r \in Asks : \A s \in 1..r : s \in Asks
    BY BoundsAssumption DEF Asks, BoundsAssumption
  <2>2. Blank' = Blank
    BY DEF Blank
  <2> QED
    BY <2>1, <2>2 DEF Types, InOrder
<1> QED
  BY <1>3, <1>4 DEF Types

LEMMA ServedMoves ==
  ASSUME Types, NEW r \in Asks, Served(r)
  PROVE  /\ log' \in [Asks -> Seq(LogRows)] /\ convs' \subseteq Asks
         /\ blame' \in {blame, blame \cup {"late"}, blame \cup {"unborn"}}
<1>1. /\ ConversationOf(r) \in Asks /\ log \in [Asks -> Seq(LogRows)] /\ convs \subseteq Asks
      /\ log[ConversationOf(r)] \in Seq(LogRows)
  BY ConversationType DEF Types, ServerType
<1>2. <<Ask(r)>> \in Seq(LogRows) /\ <<Reply(r)>> \in Seq(LogRows)
  <2>1. Ask(r) \in LogRows /\ Reply(r) \in LogRows
    BY DEF Ask, Reply, LogRows
  <2> QED
    BY <2>1
<1>3. ASSUME NEW rows \in Seq(LogRows), Writes(r, rows)  PROVE log' \in [Asks -> Seq(LogRows)]
  <2>1. log[ConversationOf(r)] \o rows \in Seq(LogRows)
    BY <1>1, ConcatProperties
  <2> QED
    BY <1>1, <1>3, <2>1 DEF Writes
<1>4. log' \in [Asks -> Seq(LogRows)]
  BY <1>1, <1>2, <1>3 DEF Served, Opens, Fails, Enters, Speaks, Closes
<1>5. convs' \subseteq Asks
  BY <1>1 DEF Served, Opens, Fails, Enters, Speaks, Closes
<1>6. blame' \in {blame, blame \cup {"late"}, blame \cup {"unborn"}}
  BY DEF Served, Opens, Fails, Enters, Speaks, Closes, Late
<1> QED
  BY <1>4, <1>5, <1>6

LEMMA FiledMoves ==
  ASSUME Types, NEW r \in Asks, SaveFixed(r)
  PROVE  /\ Filed(r) /\ AddsRow(r) /\ troubles' \in 0..MaxTroubles
         /\ log' \in [Asks -> Seq(LogRows)] /\ blocked' \subseteq Asks
<1>1. /\ ConversationOf(r) \in Asks /\ log \in [Asks -> Seq(LogRows)] /\ blocked \subseteq Asks
      /\ log[ConversationOf(r)] \in Seq(LogRows) /\ Reply(r) \in LogRows
      /\ troubles \in 0..MaxTroubles /\ MaxTroubles \in Nat
  BY ConversationType, BoundsAssumption
     DEF Types, ServerType, CountsType, BoundsAssumption, Reply, LogRows
<1>2. log' = [log EXCEPT ![ConversationOf(r)] = Append(@, Reply(r))]
        => Writes(r, <<Reply(r)>>) /\ log' \in [Asks -> Seq(LogRows)]
  <2>1. /\ Append(log[ConversationOf(r)], Reply(r)) = log[ConversationOf(r)] \o <<Reply(r)>>
        /\ Append(log[ConversationOf(r)], Reply(r)) \in Seq(LogRows)
    BY <1>1, AppendIsConcat, AppendEach
  <2> QED
    BY <1>1, <2>1 DEF Writes
<1>3. Blame(~job[r].open, "behind") =>
        blame' = IF job[r].open THEN blame ELSE blame \cup {"behind"}
  BY DEF Blame
<1>4. /\ r \in blocked /\ blocked' = blocked \ {r} /\ UNCHANGED <<surface, client, job, convs>>
      /\ \/ /\ log' = [log EXCEPT ![ConversationOf(r)] = Append(@, Reply(r))]
            /\ Blame(~job[r].open, "behind") /\ UNCHANGED troubles
         \/ Trouble /\ UNCHANGED <<log, blame>>
  BY DEF SaveFixed, Reply
<1>5. troubles' \in 0..MaxTroubles
  BY <1>1, <1>4 DEF Trouble
<1> QED
  BY <1>1, <1>2, <1>3, <1>4, <1>5 DEF Filed, AddsRow

LEMMA CountsKept ==
  ASSUME Types, Next
  PROVE  CountsType' /\ blame \subseteq blame'
<1> DEFINE Kinds == {"cut", "overlap", "list", "unheard", "torn", "late", "behind", "unborn"}
<1>1. blame \subseteq Kinds /\ troubles \in 0..MaxTroubles /\ MaxTroubles \in Nat
  BY BoundsAssumption DEF Types, CountsType, BoundsAssumption
<1>2. Trouble => troubles' \in 0..MaxTroubles
  BY <1>1 DEF Trouble
<1>3. ASSUME NEW bad, NEW kind \in Kinds, Blame(bad, kind)
      PROVE  blame' \subseteq Kinds /\ blame \subseteq blame'
  BY <1>1, <1>3 DEF Blame
<1>4. ASSUME NEW kinds \in SUBSET Kinds, blame' = blame \cup kinds
      PROVE  blame' \subseteq Kinds /\ blame \subseteq blame'
  BY <1>1, <1>4
<1>5. UNCHANGED blame => blame' \subseteq Kinds /\ blame \subseteq blame'
  BY <1>1
<1>6. UNCHANGED troubles => troubles' \in 0..MaxTroubles
  BY <1>1
<1>7. /\ "cut" \in Kinds /\ "overlap" \in Kinds /\ "list" \in Kinds /\ "unheard" \in Kinds
      /\ "torn" \in Kinds /\ {"unheard", "cut"} \in SUBSET Kinds /\ {"unheard"} \in SUBSET Kinds
      /\ {"overlap"} \cup {} \in SUBSET Kinds /\ {"late"} \in SUBSET Kinds /\ {"unborn"} \in SUBSET Kinds
      /\ {"behind"} \in SUBSET Kinds
  OBVIOUS
<1> HIDE DEF Kinds
<1> SUFFICES troubles' \in 0..MaxTroubles /\ blame' \subseteq Kinds /\ blame \subseteq blame'
  BY DEF CountsType, Kinds
<1>a. CASE Abort \/ Reset \/ ScoreDone \/ \E i \in Asks : Score(i)
  <2>1. (Trouble \/ UNCHANGED troubles)
    BY <1>a DEF Abort, Reset, ScoreDone, Score
  <2>2. Blame(TRUE, "cut") \/ Blame(InFlight # {}, "cut") \/ Blame(scoring[1] # items, "list")
        \/ UNCHANGED blame
    BY <1>a DEF Abort, Reset, ScoreDone, Score
  <2> QED
    BY <1>2, <1>3, <1>5, <1>6, <1>7, <2>1, <2>2
<1>b. ASSUME NEW r \in Asks, Send(r)  PROVE troubles' \in 0..MaxTroubles /\ blame' \subseteq Kinds /\ blame \subseteq blame'
  <2>1. UNCHANGED troubles /\ blame' = blame \cup (IF Pending # {} THEN {"overlap"} ELSE {})
                                             \cup (IF sub # 0 THEN {"cut"} ELSE {})
    BY <1>b DEF Send
  <2>2. (IF Pending # {} THEN {"overlap"} ELSE {}) \subseteq Kinds
        /\ (IF sub # 0 THEN {"cut"} ELSE {}) \subseteq Kinds
    BY DEF Kinds
  <2> QED
    BY <1>1, <1>6, <2>1, <2>2
<1>c. ASSUME NEW r \in Asks, NEW b, Enter(r, b) \/ WidgetReset(r, b)
      PROVE troubles' \in 0..MaxTroubles /\ blame' \subseteq Kinds /\ blame \subseteq blame'
  <2>1. Trouble \/ UNCHANGED troubles
    BY <1>c DEF Enter, WidgetReset
  <2>2. Blame(InFlight # {}, "cut") \/ Blame(InFlight # {}, "overlap")
    BY <1>c DEF Enter, WidgetReset
  <2> QED
    BY <1>2, <1>3, <1>6, <1>7, <2>1, <2>2
<1>d. ASSUME NEW r \in Asks, Start(r) \/ AnswerFails(r) \/ Subscribe(r)
      PROVE troubles' \in 0..MaxTroubles /\ blame' \subseteq Kinds /\ blame \subseteq blame'
  <2>1. Trouble \/ UNCHANGED troubles
    BY <1>d DEF Start, AnswerFails, Subscribe
  <2>2. Blame(sub # 0, "overlap") \/ UNCHANGED blame \/ blame' = blame \cup {"unheard"}
    BY <1>d DEF Start, AnswerFails, Subscribe
  <2> QED
    BY <1>2, <1>3, <1>4, <1>5, <1>6, <1>7, <2>1, <2>2
<1>e. CASE Timeout \/ StreamEnds \/ Disconnect \/ ProcessChunk
  <2>1. Trouble \/ UNCHANGED troubles
    BY <1>e DEF Timeout, StreamEnds, Disconnect, ProcessChunk
  <2>2. Blame(TRUE, "cut") \/ Blame(loading, "unheard") \/ blame' = blame \cup {"unheard", "cut"}
        \/ Blame(TRUE, "torn") \/ UNCHANGED blame
    BY <1>e DEF Timeout, StreamEnds, Disconnect, ProcessChunk
  <2> QED
    BY <1>2, <1>3, <1>4, <1>5, <1>6, <1>7, <2>1, <2>2
<1>f. ASSUME NEW r \in Asks, Serve(r)
      PROVE troubles' \in 0..MaxTroubles /\ blame' \subseteq Kinds /\ blame \subseteq blame'
  BY <1>f, <1>1, <1>4, <1>7, ServeMoves, ServedMoves
<1>g. ASSUME NEW r \in Asks, SaveFixed(r)
      PROVE troubles' \in 0..MaxTroubles /\ blame' \subseteq Kinds /\ blame \subseteq blame'
  BY <1>g, <1>1, <1>4, <1>7, FiledMoves DEF Filed
<1> QED
  BY <1>a, <1>b, <1>c, <1>d, <1>e, <1>f, <1>g DEF Next, Reader, Panel, Stream

LEMMA CutMoves ==
  ASSUME Types, Cut
  PROVE  job' = Closed(job, sub) /\ job' \in [Asks -> Jobs] /\ buffer' \in BOOLEAN
BY ClosedMoves DEF Types, ClientType, ServerType, Cut

LEMMA UnsubscribeMoves ==
  ASSUME Types, NEW mid \in Seq(Asks), Unsubscribe(mid)
  PROVE  /\ sub' = 0 /\ loading' = FALSE
         /\ job' = Closed(job, sub) /\ job' \in [Asks -> Jobs] /\ buffer' \in BOOLEAN
         /\ obj' \in [Items -> Objects] /\ \A r \in Asks : ~Used(r) => obj'[r] = obj[r]
         /\ \A i \in Items : obj'[i] = IF items # <<>> /\ i = Bottom THEN Cancelled(obj[i], mid) ELSE obj[i]
<1>1. items # <<>> => Cancelled(obj[Bottom], mid) \in Objects
  BY LastItem, CancelledType DEF Types, ClientType
<1>2. SetLast(Cancelled(obj[Bottom], mid))
  BY DEF Unsubscribe
<1>3. /\ obj' \in [Items -> Objects] /\ \A r \in Asks : ~Used(r) => obj'[r] = obj[r]
      /\ \A i \in Items : obj'[i] = IF items # <<>> /\ i = Bottom THEN Cancelled(obj[Bottom], mid) ELSE obj[i]
  BY <1>1, <1>2, SetLastMoves
<1> QED
  BY <1>3, CutMoves DEF Unsubscribe

\* The callback writes to the ids, to fullAnswer and to the last item.
LEMMA MessageMoves ==
  ASSUME Types, NEW r \in Asks, NEW e \in Events, OnMessage(r, e)
  PROVE  /\ obj' \in [Items -> Objects] /\ \A s \in Asks : ~Used(s) => obj'[s] = obj[s]
         /\ loading' \in BOOLEAN
         /\ convId' \in Seq(Asks) /\ nonce' \in Seq(Asks) /\ messageId' \in Seq(Asks)
         /\ full' \in Seq(Asks \X (1..Data))
<1>1. /\ obj \in [Items -> Objects] /\ loading \in BOOLEAN
      /\ convId \in Seq(Asks) /\ nonce \in Seq(Asks) /\ messageId \in Seq(Asks)
      /\ full \in Seq(Asks \X (1..Data))
  BY DEF Types, ClientType
<1>2. items # <<>> => obj[Bottom] \in Objects
  BY <1>1, LastItem
<1>3. \A ids \in Seq(Asks) : Append(ids, r) \in Seq(Asks)
  BY AppendEach
<1>4. CASE e.type \in {"conversation_id", "nonce", "message_id"}
  BY <1>1, <1>3, <1>4 DEF OnMessage
<1>5. CASE e.type = "error"
  <2>1. items # <<>> => [obj[Bottom] EXCEPT !.note = @ \cup {"failed"}] \in Objects
    BY <1>2 DEF Objects, Notes
  <2>2. SetLast([obj[Bottom] EXCEPT !.note = @ \cup {"failed"}])
    BY <1>5 DEF OnMessage
  <2>3. obj' \in [Items -> Objects] /\ \A s \in Asks : ~Used(s) => obj'[s] = obj[s]
    BY <2>1, <2>2, SetLastMoves
  <2> QED
    BY <1>1, <1>5, <2>3 DEF OnMessage
<1>6. CASE e.type = "chunk_result"
  <2>1. items # <<>> => [obj[Bottom] EXCEPT !.refs = Append(@, r)] \in Objects
    BY <1>2, <1>3 DEF Objects
  <2>2. SetLast([obj[Bottom] EXCEPT !.refs = Append(@, r)])
    BY <1>6 DEF OnMessage
  <2>3. obj' \in [Items -> Objects] /\ \A s \in Asks : ~Used(s) => obj'[s] = obj[s]
    BY <2>1, <2>2, SetLastMoves
  <2> QED
    BY <1>1, <1>6, <2>3 DEF OnMessage
<1>7. CASE e.type = "data"
  <2>0. e.k \in 1..Data
    BY <1>7, EventsType
  <2>a. full' = Append(full, <<r, e.k>>)
    BY <1>7 DEF OnMessage
  <2>b. <<r, e.k>> \in Asks \X (1..Data)
    BY <2>0
  <2>1. full' = Append(full, <<r, e.k>>) /\ full' \in Seq(Asks \X (1..Data))
    BY <1>1, <2>a, <2>b, AppendEach
  <2>2. items # <<>> => [obj[Bottom] EXCEPT !.text = full', !.note = {}] \in Objects
    BY <1>2, <2>1 DEF Objects
  <2>3. SetLast([obj[Bottom] EXCEPT !.text = full', !.note = {}])
    BY <1>7 DEF OnMessage
  <2>4. obj' \in [Items -> Objects] /\ \A s \in Asks : ~Used(s) => obj'[s] = obj[s]
    BY <2>2, <2>3, SetLastMoves
  <2> QED
    BY <1>1, <1>7, <2>1, <2>4 DEF OnMessage
<1>8. CASE e.type = "done"
  <2>1. items # <<>> => [obj[Bottom] EXCEPT !.mid = messageId, !.fin = TRUE] \in Objects
    BY <1>1, <1>2 DEF Objects
  <2>2. SetLast([obj[Bottom] EXCEPT !.mid = messageId, !.fin = TRUE])
    BY <1>8 DEF OnMessage
  <2>3. obj' \in [Items -> Objects] /\ \A s \in Asks : ~Used(s) => obj'[s] = obj[s]
    BY <2>1, <2>2, SetLastMoves
  <2> QED
    BY <1>1, <1>8, <2>3, EmptySeq DEF OnMessage
<1> QED
  BY <1>4, <1>5, <1>6, <1>7, <1>8 DEF OnMessage

\* What a feedback does to the items.
LEMMA ScoreMoves ==
  ASSUME Types, ScoreDone
  PROVE  /\ Sound(items') /\ items' # <<>> /\ scoring # <<>> /\ items' = scoring[1]
         /\ obj' \in [Items -> Objects]
         /\ \A i \in Items : \/ obj'[i] = obj[i]
                             \/ /\ obj'[i] = [obj[i] EXCEPT !.score = TRUE]
                                /\ \E n \in DOMAIN items' : items'[n] = i
<1>1. /\ obj \in [Items -> Objects] /\ scoring # <<>> /\ items' = scoring[1]
      /\ Sound(scoring[1]) /\ scoring[1] # <<>>
  BY DEF Types, ClientType, ScoreDone
<1>2. \A i \in Items : [obj[i] EXCEPT !.score = TRUE] \in Objects
  BY <1>1 DEF Objects
<1>3. obj' = [i \in Items |->
                  IF (\E n \in DOMAIN items' : items'[n] = i) /\ obj[i].mid = scoring[3]
                  THEN [obj[i] EXCEPT !.score = TRUE] ELSE obj[i]]
  BY DEF ScoreDone
<1> QED
  BY <1>1, <1>2, <1>3

LEMMA SearchMoves ==
  ASSUME Types, NEW r \in Asks, NEW reset, Search(r, reset)
  PROVE  /\ Asked1(r) /\ messageId' = <<>> /\ full' = <<>>
         /\ items' # <<>> /\ items'[Len(items')] = r
         /\ items' \in Seq(Asks)
         /\ \A n \in 1..Len(items') : items'[n] = r \/ (n \in 1..Len(items) /\ items'[n] = items[n])
         /\ Len(items') <= r
         /\ \A n \in 1..Len(items') : n <= items'[n] /\ Used(items[n])'
<1>1. Asked1(r) /\ messageId' = <<>> /\ full' = <<>>
  BY DEF Asked1, Search
<1>2. /\ \A s \in Asks : Used(s) <=> s < r
      /\ \A s \in Asks : Used(s)' <=> Used(s) \/ s = r
      /\ r \in Nat /\ r >= 1
  BY <1>1, AskMoves DEF Asks
<1>3. CASE items' = <<r>>
  <2>1. items' \in Seq(Asks) /\ Len(items') = 1 /\ items'[1] = r /\ items' # <<>>
    BY <1>3
  <2>2. ASSUME NEW n \in 1..Len(items')  PROVE items'[n] = r /\ n <= r /\ Used(items[n])'
    <3>1. n = 1
      BY <2>1
    <3>2. items'[n] = r
      BY <2>1, <3>1
    <3>3. Used(r)'
      BY <1>2
    <3>4. Used(items[n])'
      BY <3>2, <3>3 DEF Used
    <3> QED
      BY <1>2, <3>1, <3>2, <3>4
  <2> QED
    BY <1>1, <1>2, <2>1, <2>2
<1>4. CASE items' = Append(items, r) /\ Sound(items)
  <2>1. /\ items' \in Seq(Asks) /\ items' # <<>> /\ Len(items) \in Nat
        /\ Len(items') = Len(items) + 1 /\ items'[Len(items) + 1] = r
        /\ \A n \in 1..Len(items) : items'[n] = items[n]
    BY <1>4, AppendEach DEF Sound
  <2>2. Len(items) < r
    <3>1. CASE items = <<>>
      BY <1>2, <3>1
    <3>2. CASE items # <<>>
      <4>1. Sound(items) => History \notin {items[n] : n \in DOMAIN items}
        BY DEF Sound, History, Asks
      <4>2. Bottom \in Asks /\ Used(Bottom) /\ Len(items) <= Bottom
        BY <1>4, <3>2, <4>1, LastItem
      <4>3. Bottom \in Nat
        BY <4>2 DEF Asks
      <4> QED
        BY <1>2, <2>1, <4>2, <4>3
    <3> QED
      BY <3>1, <3>2
  <2>3. ASSUME NEW n \in 1..Len(items')
        PROVE  /\ items'[n] = r \/ (n \in 1..Len(items) /\ items'[n] = items[n])
               /\ n <= items'[n] /\ Used(items[n])'
    <3>1. CASE n = Len(items) + 1
      <4>1. items'[n] = r /\ n <= r
        BY <1>2, <2>1, <2>2, <3>1
      <4>2. Used(r)'
        BY <1>2
      <4> QED
        BY <4>1, <4>2 DEF Used
    <3>2. CASE n \in 1..Len(items)
      <4>1. items'[n] = items[n] /\ items[n] \in Asks /\ n <= items[n] /\ Used(items[n])
        BY <1>4, <2>1, <3>2, SeqEach DEF Sound
      <4>2. ask'[items[n]].phase # "unused"
        BY <1>2, <4>1 DEF Used
      <4> QED
        BY <3>2, <4>1, <4>2 DEF Used
    <3> QED
      BY <2>1, <3>1, <3>2
  <2> QED
    BY <1>1, <1>2, <2>1, <2>2, <2>3
<1>5. items' = <<r>> \/ (items' = Append(items, r) /\ Sound(items))
  <2>1. items = <<History>> => History \in {items[n] : n \in DOMAIN items}
    OBVIOUS
  <2> QED
    BY <2>1 DEF Search, Types, ClientType
<1> QED
  BY <1>3, <1>4, <1>5

LEMMA TypesAsked ==
  ASSUME Types, NEW r \in Asks, Asked1(r), surface' = surface, loading' \in BOOLEAN,
         items' \in Seq(Asks), \A n \in 1..Len(items') : n <= items'[n] /\ Used(items[n])',
         UNCHANGED scoring,
         obj' \in [Items -> Objects], \A s \in Asks : ~Used(s) => obj'[s] = obj[s],
         convId' \in Seq(Asks), nonce' \in Seq(Asks), messageId' \in Seq(Asks),
         full' \in Seq(Asks \X (1..Data)), sub' \in Items, buffer' \in BOOLEAN,
         ServerType', CountsType'
  PROVE  Types'
<1>1. /\ ask' \in [Asks -> Questions]
      /\ \A s \in Asks : Used(s)' <=> Used(s) \/ s = r
      /\ \A s \in Asks : Used(s) <=> s < r
  BY AskMoves
<1>2. Sound(items)'
  BY DEF Sound
<1>3. scoring' # <<>> => /\ scoring' \in Seq(Asks) \X Asks \X Seq(Asks)
                         /\ Sound(scoring[1])' /\ scoring'[1] # <<>>
  <2>1. CASE scoring # <<>>
    <3>1. Sound(scoring[1])
      BY <2>1 DEF Types, ClientType
    <3>2. \A s \in Asks : Used(s) => Used(s)'
      BY <1>1
    <3> QED
      BY <2>1, <3>1, <3>2, SoundKept DEF Types, ClientType, Sound
  <2> QED
    BY <2>1
<1>4. ClientType'
  BY <1>1, <1>2, <1>3 DEF Types, ClientType
<1>5. InOrder'
  <2>1. \A s \in Asks : \A q \in 1..s : q \in Asks /\ q \in Nat /\ s \in Nat /\ q <= s
    BY BoundsAssumption DEF Asks, BoundsAssumption
  <2>2. Blank' = Blank /\ r \in Nat
    BY DEF Blank, Asks
  <2>3. ASSUME NEW s \in Asks, Used(s)', NEW q \in 1..s  PROVE Used(q)'
    <3>1. q \in Asks /\ q \in Nat /\ s \in Nat /\ q <= s
      BY <2>1
    <3>2. s < r \/ s = r
      BY <1>1, <2>3
    <3>3. q < r \/ q = r
      BY <2>2, <3>1, <3>2
    <3> QED
      BY <1>1, <3>1, <3>3
  <2>4. ASSUME NEW s \in Asks, ~Used(s)'  PROVE obj'[s] = Blank
    BY <1>1, <2>4 DEF Types, InOrder
  <2> QED
    BY <2>2, <2>3, <2>4 DEF InOrder
<1> QED
  BY <1>4, <1>5 DEF Types

\* What a step keeps when it does not touch it.
LEMMA Facts ==
  ASSUME Types
  PROVE  /\ surface \in {"page", "widget"} /\ loading \in BOOLEAN
         /\ obj \in [Items -> Objects]
         /\ convId \in Seq(Asks) /\ nonce \in Seq(Asks) /\ messageId \in Seq(Asks)
         /\ full \in Seq(Asks \X (1..Data)) /\ ask \in [Asks -> Questions]
         /\ sub \in Items /\ buffer \in BOOLEAN
         /\ job \in [Asks -> Jobs] /\ log \in [Asks -> Seq(LogRows)] /\ convs \subseteq Asks
         /\ blocked \subseteq Asks /\ <<>> \in Seq(Asks) /\ <<>> \in Seq(Asks \X (1..Data)) /\ 0 \in Items
         /\ History \notin Asks /\ Asks \subseteq Items
BY EmptySeq DEF Types, ClientType, ServerType, Items, History, Asks

LEMMA PhaseMoves ==
  ASSUME Types, NEW r \in Asks, NEW phase \in {"captcha", "sent", "over"},
         ask[r].phase # "unused", ask' = [ask EXCEPT ![r].phase = phase]
  PROVE  /\ ask' \in [Asks -> Questions]
         /\ ask'[r].phase = phase /\ ask'[r].conv = ask[r].conv /\ ask'[r].nonce = ask[r].nonce
         /\ \A s \in Asks : s # r => ask'[s] = ask[s]
         /\ \A s \in Asks : Used(s)' <=> Used(s)
<1>1. ask \in [Asks -> Questions] /\ ask[r] \in Questions
  BY Facts
<1>2. ask' = [ask EXCEPT ![r] = [ask[r] EXCEPT !.phase = phase]]
  BY <1>1
<1>3. [ask[r] EXCEPT !.phase = phase] \in Questions
  BY <1>1 DEF Questions
<1>4. /\ ask' \in [Asks -> Questions]
      /\ ask'[r] = [ask[r] EXCEPT !.phase = phase] /\ \A s \in Asks : s # r => ask'[s] = ask[s]
  BY <1>1, <1>2, <1>3
<1>5. ask'[r].phase = phase /\ ask'[r].conv = ask[r].conv /\ ask'[r].nonce = ask[r].nonce
  BY <1>1, <1>4 DEF Questions
<1>6. phase # "unused"
  OBVIOUS
<1>7. \A s \in Asks : Used(s)' <=> Used(s)
  BY <1>4, <1>5, <1>6 DEF Used
<1> QED
  BY <1>4, <1>5, <1>7

LEMMA TypesStep ==
  ASSUME Types, Next
  PROVE  Types'
<1>0. CountsType' /\ Types
  BY CountsKept
<1>f. /\ surface \in {"page", "widget"} /\ loading \in BOOLEAN
      /\ obj \in [Items -> Objects]
      /\ convId \in Seq(Asks) /\ nonce \in Seq(Asks) /\ messageId \in Seq(Asks)
      /\ full \in Seq(Asks \X (1..Data)) /\ ask \in [Asks -> Questions]
      /\ sub \in Items /\ buffer \in BOOLEAN
      /\ job \in [Asks -> Jobs] /\ log \in [Asks -> Seq(LogRows)] /\ convs \subseteq Asks
      /\ blocked \subseteq Asks /\ <<>> \in Seq(Asks) /\ <<>> \in Seq(Asks \X (1..Data)) /\ 0 \in Items
      /\ History \notin Asks /\ Asks \subseteq Items
  BY Facts
<1>j. job' \in [Asks -> Jobs] /\ UNCHANGED <<log, convs, blocked>> => ServerType'
  BY <1>f DEF ServerType
<1>u. UNCHANGED ask => ask' \in [Asks -> Questions] /\ \A r \in Asks : Used(r)' <=> Used(r)
  BY <1>f DEF Used
<1>1. CASE Abort
  <2>1. /\ Unsubscribe(messageId) /\ UNCHANGED ask
        /\ UNCHANGED <<surface, items, convId, nonce, full, messageId, scoring, log, convs, blocked>>
    BY <1>1 DEF Abort
  <2>2. /\ sub' = 0 /\ loading' = FALSE /\ job' \in [Asks -> Jobs] /\ buffer' \in BOOLEAN
        /\ obj' \in [Items -> Objects] /\ \A r \in Asks : ~Used(r) => obj'[r] = obj[r]
    BY <1>f, <2>1, UnsubscribeMoves
  <2> QED
    BY <1>0, <1>f, <1>j, <1>u, <2>1, <2>2, TypesKept
<1>2. CASE Timeout
  <2>1. /\ Unsubscribe(messageId) /\ UNCHANGED ask
        /\ UNCHANGED <<surface, items, convId, nonce, full, messageId, scoring, log, convs, blocked>>
    BY <1>2 DEF Timeout
  <2>2. /\ sub' = 0 /\ loading' = FALSE /\ job' \in [Asks -> Jobs] /\ buffer' \in BOOLEAN
        /\ obj' \in [Items -> Objects] /\ \A r \in Asks : ~Used(r) => obj'[r] = obj[r]
    BY <1>f, <2>1, UnsubscribeMoves
  <2> QED
    BY <1>0, <1>f, <1>j, <1>u, <2>1, <2>2, TypesKept
<1>3. CASE StreamEnds
  <2>1. /\ sub' = 0 /\ job' = Closed(job, sub) /\ UNCHANGED ask
        /\ UNCHANGED <<surface, items, obj, loading, convId, nonce, full, messageId, buffer, scoring, log, convs, blocked>>
    BY <1>3 DEF StreamEnds
  <2>2. job' \in [Asks -> Jobs]
    BY <1>0, <1>f, <2>1, ClosedMoves DEF Types
  <2> QED
    BY <1>0, <1>f, <1>j, <1>u, <2>1, <2>2, TypesKept
<1>4. CASE Disconnect
  <2>1. /\ sub' = 0 /\ Cut /\ UNCHANGED ask
        /\ UNCHANGED <<surface, items, obj, loading, convId, nonce, full, messageId, scoring, log, convs, blocked>>
    BY <1>4 DEF Disconnect
  <2>2. job' \in [Asks -> Jobs] /\ buffer' \in BOOLEAN
    BY <2>1, CutMoves
  <2> QED
    BY <1>0, <1>f, <1>j, <1>u, <2>1, <2>2, TypesKept
<1>5. CASE ProcessChunk
  <2>1. /\ sub # 0 /\ job[sub].wire # <<>> /\ job' = [job EXCEPT ![sub].wire = Tail(@)]
        /\ buffer' = FALSE /\ UNCHANGED ask
        /\ UNCHANGED <<surface, items, sub, scoring, log, convs, blocked>>
        /\ \/ UNCHANGED <<obj, loading, convId, nonce, full, messageId>>
           \/ OnMessage(sub, Head(job[sub].wire))
    BY <1>5 DEF ProcessChunk
  <2>2. sub \in Asks /\ job[sub] \in Jobs /\ job[sub].wire \in Seq(Events)
    BY <1>f, <2>1 DEF Items, History, Jobs
  <2>3. Tail(job[sub].wire) \in Seq(Events) /\ Head(job[sub].wire) \in Events
    BY <2>1, <2>2, TailEach
  <2>4. job' \in [Asks -> Jobs]
    <3>1. job' = [job EXCEPT ![sub] = [job[sub] EXCEPT !.wire = Tail(job[sub].wire)]]
      BY <1>f, <2>1, <2>2
    <3>2. [job[sub] EXCEPT !.wire = Tail(job[sub].wire)] \in Jobs
      BY <2>2, <2>3 DEF Jobs
    <3> QED
      BY <1>f, <2>2, <3>1, <3>2
  <2>5. CASE UNCHANGED <<obj, loading, convId, nonce, full, messageId>>
    BY <1>0, <1>f, <1>j, <1>u, <2>1, <2>4, <2>5, TypesKept
  <2>6. CASE OnMessage(sub, Head(job[sub].wire))
    <3>1. /\ obj' \in [Items -> Objects] /\ \A s \in Asks : ~Used(s) => obj'[s] = obj[s]
          /\ loading' \in BOOLEAN
          /\ convId' \in Seq(Asks) /\ nonce' \in Seq(Asks) /\ messageId' \in Seq(Asks)
          /\ full' \in Seq(Asks \X (1..Data))
      BY <2>2, <2>3, <2>6, MessageMoves
    <3> QED
      BY <1>0, <1>f, <1>j, <1>u, <2>1, <2>4, <3>1, TypesKept
  <2> QED
    BY <2>1, <2>5, <2>6
<1>6. ASSUME NEW r \in Asks, NEW b, Enter(r, b)  PROVE Types'
  <2>1. /\ Search(r, b)
        /\ UNCHANGED <<surface, obj, loading, convId, nonce, sub, buffer, scoring, job, log, convs, blocked>>
    BY <1>6 DEF Enter, server
  <2>2. /\ Asked1(r) /\ messageId' = <<>> /\ full' = <<>> /\ items' \in Seq(Asks)
        /\ \A n \in 1..Len(items') : n <= items'[n] /\ Used(items[n])'
    BY <2>1, SearchMoves
  <2> QED
    BY <1>0, <1>f, <1>j, <2>1, <2>2, TypesAsked
<1>7. ASSUME NEW r \in Asks, Send(r)  PROVE Types'
  <2>1. /\ Search(r, FALSE)
        /\ UNCHANGED <<surface, convId, nonce, scoring, log, convs, blocked>>
    BY <1>7 DEF Send
  <2>2. PICK mid \in {messageId, <<>>} : Unsubscribe(mid)
    BY <1>7 DEF Send
  <2>3. /\ Asked1(r) /\ messageId' = <<>> /\ full' = <<>> /\ items' \in Seq(Asks)
        /\ \A n \in 1..Len(items') : n <= items'[n] /\ Used(items[n])'
    BY <2>1, SearchMoves
  <2>4. /\ sub' = 0 /\ loading' = FALSE /\ job' \in [Asks -> Jobs] /\ buffer' \in BOOLEAN
        /\ obj' \in [Items -> Objects] /\ \A s \in Asks : ~Used(s) => obj'[s] = obj[s]
    BY <1>f, <2>2, UnsubscribeMoves
  <2> QED
    BY <1>0, <1>f, <1>j, <2>1, <2>3, <2>4, TypesAsked
<1>8. CASE Reset
  <2>1. /\ items' = <<>> /\ convId' = <<>> /\ nonce' = <<>> /\ full' = <<>> /\ loading' = FALSE
        /\ messageId' = <<>> /\ UNCHANGED ask /\ UNCHANGED <<surface, scoring, log, convs, blocked>>
        /\ Unsubscribe(<<>>) \/ UNCHANGED <<sub, job, buffer, obj>>
    BY <1>8 DEF Reset, ClearPanel, Unsubscribe
  <2>2. /\ sub' \in Items /\ job' \in [Asks -> Jobs] /\ buffer' \in BOOLEAN
        /\ obj' \in [Items -> Objects] /\ \A r \in Asks : ~Used(r) => obj'[r] = obj[r]
    BY <1>f, <2>1, UnsubscribeMoves
  <2> QED
    BY <1>0, <1>f, <1>j, <1>u, <2>1, <2>2, TypesKept
<1>9. ASSUME NEW r \in Asks, NEW b, WidgetReset(r, b)  PROVE Types'
  <2>1. /\ items' = <<>> /\ convId' = <<>> /\ nonce' = <<>> /\ full' = <<>> /\ loading' = FALSE
        /\ UNCHANGED <<surface, scoring, log, convs, blocked>>
        /\ Unsubscribe(messageId) \/ UNCHANGED <<sub, job, buffer, obj>>
        /\ \/ UNCHANGED <<ask, messageId>>
           \/ Asked1(r) /\ messageId' = <<>>
    BY <1>9 DEF WidgetReset, ClearPanel, Unsubscribe, Asked1
  <2>2. /\ sub' \in Items /\ job' \in [Asks -> Jobs] /\ buffer' \in BOOLEAN
        /\ obj' \in [Items -> Objects] /\ \A s \in Asks : ~Used(s) => obj'[s] = obj[s]
    BY <1>f, <2>1, UnsubscribeMoves
  <2>3. CASE UNCHANGED <<ask, messageId>>
    BY <1>0, <1>f, <1>j, <1>u, <2>1, <2>2, <2>3, TypesKept
  <2>4. CASE Asked1(r) /\ messageId' = <<>>
    <3>1. Len(items') = 0
      BY <2>1
    <3>2. \A n \in 1..Len(items') : n <= items'[n] /\ Used(items[n])'
      BY <3>1
    <3>3. items' \in Seq(Asks) /\ messageId' \in Seq(Asks) /\ UNCHANGED scoring
      BY <1>f, <2>1, <2>4
    <3> QED
      BY <1>0, <1>f, <1>j, <2>1, <2>2, <2>4, <3>2, <3>3, TypesAsked
  <2> QED
    BY <2>1, <2>3, <2>4
<1>10. ASSUME NEW r \in Asks, Start(r)  PROVE Types'
  <2>1. /\ ask' = [ask EXCEPT ![r].phase = "captcha"] /\ ask[r].phase # "unused" /\ loading' = TRUE
        /\ UNCHANGED <<surface, items, obj, convId, nonce, full, messageId, sub, buffer, scoring, job, log, convs, blocked>>
    BY <1>10 DEF Start, server
  <2>2. ask' \in [Asks -> Questions] /\ \A s \in Asks : Used(s)' <=> Used(s)
    BY <2>1, PhaseMoves
  <2> QED
    BY <1>0, <1>f, <1>j, <2>1, <2>2, TypesKept
<1>11. ASSUME NEW r \in Asks, AnswerFails(r)  PROVE Types'
  <2>1. /\ ask' = [ask EXCEPT ![r].phase = "over"] /\ ask[r].phase # "unused" /\ loading' \in {loading, FALSE}
        /\ UNCHANGED <<surface, items, obj, convId, nonce, full, messageId, sub, buffer, scoring, job, log, convs, blocked>>
    BY <1>11 DEF AnswerFails, server
  <2>2. ask' \in [Asks -> Questions] /\ \A s \in Asks : Used(s)' <=> Used(s)
    BY <2>1, PhaseMoves
  <2> QED
    BY <1>0, <1>f, <1>j, <2>1, <2>2, TypesKept
<1>12. ASSUME NEW r \in Asks, Subscribe(r)  PROVE Types'
  <2>1. /\ ask' = [ask EXCEPT ![r].phase = "sent"] /\ ask[r].phase # "unused" /\ sub' = r
        /\ job' = [Closed(job, sub) EXCEPT ![r].pc = "received", ![r].open = TRUE]
        /\ buffer' \in {buffer, TRUE}
        /\ UNCHANGED <<surface, items, obj, loading, convId, nonce, full, messageId, scoring, log, convs, blocked>>
    BY <1>12 DEF Subscribe
  <2>2. ask' \in [Asks -> Questions] /\ \A s \in Asks : Used(s)' <=> Used(s)
    BY <2>1, PhaseMoves
  <2>3. job' \in [Asks -> Jobs]
    <3>1. Closed(job, sub) \in [Asks -> Jobs]
      BY <1>0, <1>f, ClosedMoves DEF Types
    <3> QED
      BY <2>1, <3>1 DEF Jobs
  <2> QED
    BY <1>0, <1>f, <1>j, <2>1, <2>2, <2>3, TypesKept
<1>13. ASSUME NEW i \in Asks, Score(i)  PROVE Types'
  <2>1. /\ scoring = <<>> /\ i \in {items[n] : n \in DOMAIN items} \ {History}
        /\ scoring' = <<items, i, obj[i].mid>>
        /\ UNCHANGED <<surface, items, obj, loading, convId, nonce, full, messageId, ask, sub, buffer,
                       job, log, convs, blocked, troubles, blame>>
    BY <1>13 DEF Score, server
  <2>2. Sound(items) /\ items # <<>>
    BY <1>f, <2>1 DEF Types, ClientType
  <2>3. obj[i].mid \in Seq(Asks)
    BY <1>f DEF Objects
  <2>4. /\ scoring' \in Seq(Asks) \X Asks \X Seq(Asks) /\ scoring'[1] = items
    BY <2>1, <2>2, <2>3 DEF Sound
  <2>5. Sound(scoring[1])' /\ scoring'[1] # <<>>
    BY <2>1, <2>2, <2>4 DEF Sound, Used
  <2>6. ClientType'
    BY <2>1, <2>4, <2>5 DEF Types, ClientType, Sound, Used
  <2>7. ServerType'
    BY <1>j, <1>f, <2>1
  <2>8. InOrder'
    BY <1>0, <2>1 DEF Types, InOrder, Used, Blank
  <2> QED
    BY <1>0, <2>6, <2>7, <2>8 DEF Types
<1>14. CASE ScoreDone
  <2>1. /\ scoring' = <<>> /\ UNCHANGED <<surface, loading, convId, nonce, full, messageId, ask, sub, buffer, job, log, convs, blocked>>
    BY <1>14 DEF ScoreDone, server
  <2>2. /\ Sound(items') /\ obj' \in [Items -> Objects]
        /\ \A i \in Items : obj'[i] = obj[i] \/ \E n \in DOMAIN items' : items'[n] = i
    BY <1>14, ScoreMoves
  <2>3. Sound(items)' /\ items' \in Seq(Asks)
    BY <2>1, <2>2 DEF Sound, Used
  <2>4. ASSUME NEW r \in Asks, ~Used(r)  PROVE obj'[r] = Blank
    <3>1. \A n \in DOMAIN items' : items'[n] # r
      BY <2>2, <2>4 DEF Sound
    <3> QED
      BY <1>f, <2>2, <2>4, <3>1 DEF Types, InOrder
  <2>5. ClientType'
    BY <2>1, <2>2, <2>3 DEF Types, ClientType
  <2> QED
    BY <1>0, <1>j, <1>f, <2>1, <2>4, <2>5 DEF Types, InOrder, Used, Blank
<1>15. ASSUME NEW r \in Asks, Serve(r)  PROVE Types'
  <2>1. job' \in [Asks -> Jobs] /\ UNCHANGED <<surface, client>> /\ Served(r)
    BY <1>15, ServeMoves
  <2>2. log' \in [Asks -> Seq(LogRows)] /\ convs' \subseteq Asks
    BY <2>1, ServedMoves
  <2>3. blocked' \subseteq Asks
    BY <1>15, <1>f, ServeMoves DEF Refuses
  <2> QED
    BY <1>0, <1>f, <1>u, <2>1, <2>2, <2>3, TypesKept DEF ServerType, client
<1>16. ASSUME NEW r \in Asks, SaveFixed(r)  PROVE Types'
  <2>1. /\ UNCHANGED <<surface, client, job, convs>>
        /\ log' \in [Asks -> Seq(LogRows)] /\ blocked' \subseteq Asks
    BY <1>0, <1>16, FiledMoves DEF Filed
  <2> QED
    BY <1>0, <1>f, <1>u, <2>1, TypesKept DEF ServerType, client
<1> QED
  BY <1>1, <1>2, <1>3, <1>4, <1>5, <1>6, <1>7, <1>8, <1>9, <1>10, <1>11, <1>12, <1>13, <1>14, <1>15,
     <1>16 DEF Next, Reader, Panel, Stream

LEMMA TypesStutter ==
  ASSUME Types, UNCHANGED vars  PROVE Types'
BY DEF vars, client, server, Types, ClientType, ServerType, CountsType, InOrder, Sound, Used, Blank

LEMMA TypesInit == Init => Types
<1> SUFFICES ASSUME Init  PROVE Types
  OBVIOUS
<1>1. /\ surface \in {"page", "widget"} /\ items \in {<<>>, <<History>>}
      /\ obj = [i \in Items |-> Blank] /\ loading = FALSE
      /\ convId = <<>> /\ nonce = <<>> /\ full = <<>> /\ messageId = <<>>
      /\ ask = [r \in Asks |-> [phase |-> "unused", conv |-> <<>>, nonce |-> <<>>]]
      /\ sub = 0 /\ buffer = FALSE /\ scoring = <<>>
      /\ job = [r \in Asks |-> [pc |-> "idle", k |-> 0, room |-> Room, open |-> FALSE, wire |-> <<>>]]
      /\ log = [c \in Asks |-> <<>>] /\ convs = {} /\ blocked = {} /\ troubles = 0 /\ blame = {}
  BY DEF Init
<1>2. /\ <<>> \in Seq(Asks) /\ <<>> \in Seq(Asks \X (1..Data)) /\ <<>> \in Seq(Events)
      /\ <<>> \in Seq(LogRows) /\ 0 \in Items /\ 0 \in 0..MaxTroubles
      /\ 0 \in 0..Data /\ Room \in 0..Room
  BY EmptySeq, BoundsAssumption DEF Items, History, BoundsAssumption
<1>3. Blank \in Objects
  BY <1>2 DEF Blank, Objects, Notes
<1>4. Sound(<<>>)
  BY <1>2 DEF Sound
<1>5. ClientType
  BY <1>1, <1>2, <1>3, <1>4 DEF ClientType, Questions
<1>6. ServerType
  BY <1>1, <1>2 DEF ServerType, Jobs
<1>7. CountsType
  BY <1>1, <1>2 DEF CountsType
<1>8. InOrder
  <2>1. \A r \in Asks : r \in Items /\ ~Used(r)
    BY <1>1 DEF Items, Used
  <2> QED
    BY <1>1, <2>1 DEF InOrder
<1> QED
  BY <1>5, <1>6, <1>7, <1>8 DEF Types

LEMMA TypesGive == Types => TypeOK
<1> SUFFICES ASSUME Types  PROVE TypeOK
  OBVIOUS
<1>1. items \in Seq(Items) /\ Len(items) <= MaxAsks + 1
  <2>1. MaxAsks \in Nat
    BY BoundsAssumption DEF BoundsAssumption
  <2>2. CASE items = <<History>>
    <3>1. <<History>> \in Seq(Items) /\ Len(<<History>>) = 1
      BY DEF Items
    <3> QED
      BY <2>1, <2>2, <3>1
  <2>3. CASE Sound(items) /\ items # <<>>
    <3>1. Len(items) \in Nat /\ Bottom \in Asks /\ Len(items) <= Bottom
      BY <2>3, LastItem, Facts DEF Sound, Bottom
    <3>2. items \in Seq(Items)
      BY <2>3, Facts DEF Sound
    <3> QED
      BY <2>1, <3>1, <3>2 DEF Asks
  <2>4. CASE items = <<>>
    BY <2>1, <2>4, EmptySeq
  <2> QED
    BY <2>2, <2>3, <2>4 DEF Types, ClientType
<1>2. \A i \in Items : obj[i] \in Objects
  BY Facts
<1>3. \A r \in Asks : ask[r] \in Questions /\ job[r] \in Jobs
  BY Facts
<1> QED
  BY <1>1, <1>2, <1>3, Facts DEF TypeOK, Types, CountsType, Objects, Notes, Questions, Jobs

\* The types of the session; the conversation never holds more items than there
\* were questions, whichever list a feedback puts back.
THEOREM TypeCorrect == Spec => []TypeOK
<1>1. Types /\ [Next]_vars => Types'
  BY TypesStep, TypesStutter
<1> QED
  BY TypesInit, TypesGive, <1>1, PTL DEF Spec

-----------------------------------------------------------------------------
(* What is on the wire.                                                    *)

LEMMA ShapeType ==
  ASSUME NEW pc, NEW w \in Seq(Events)
  PROVE  Body(pc, w) \in Int /\ Len(w) \in Nat
BY LenProperties DEF Body

LEMMA ShapeNone ==
  ASSUME NEW pc, NEW k, NEW w, Shape(pc, k, w)  PROVE Shape(pc, k, <<>>)
BY DEF Shape

LEMMA ShapeTail ==
  ASSUME NEW pc, NEW k, NEW w \in Seq(Events), w # <<>>, Shape(pc, k, w)
  PROVE  Shape(pc, k, Tail(w))
<1> DEFINE t == Tail(w)
<1>1. /\ t \in Seq(Events) /\ Len(w) \in Nat \ {0} /\ Len(t) = Len(w) - 1
      /\ \A n \in 1..Len(t) : t[n] = w[n + 1]
  BY TailEach
<1>2. Body(pc, t) = Body(pc, w) - 1 /\ Body(pc, w) \in Int
  BY <1>1 DEF Body
<1>3. pc \notin {"idle", "received"}
  BY DEF Shape
<1>4. /\ \A n \in 1..Len(t) : n + 1 \in 1..Len(w)
      /\ \A n \in 1..Len(t) : \A m \in 1..(n - 1) : m \in 1..Len(t) /\ m + 1 \in 1..n
  BY <1>1
<1> HIDE DEF t
<1>5. pc = "ask" => k = 0 /\ \A n \in 1..Len(t) : t[n].type \in Opening
  BY <1>1, <1>4 DEF Shape
<1>6. ASSUME NEW n \in 1..Len(t)
      PROVE  /\ t[n].type \in Ends <=> n > Body(pc, t)
             /\ t[n].type # "conversation_id"
             /\ t[n].type = "nonce" => n = 1
             /\ t[n].type = "message_id" => \A m \in 1..(n - 1) : t[m].type \in Opening
             /\ t[n].type = "done" => k = Data
  <2>1. n + 1 \in 1..Len(w) /\ t[n] = w[n + 1]
    BY <1>1, <1>4
  <2>2. t[n].type \in Ends <=> n > Body(pc, t)
    BY <1>2, <2>1 DEF Shape
  <2>3. t[n].type # "conversation_id" /\ (t[n].type = "nonce" => n = 1)
    BY <2>1 DEF Shape
  <2>4. ASSUME t[n].type = "message_id", NEW m \in 1..(n - 1)  PROVE t[m].type \in Opening
    <3>1. m \in 1..Len(t) /\ m + 1 \in 1..n
      BY <1>4
    <3>2. \A p \in 1..n : w[p].type \in Opening
      BY <2>1, <2>4 DEF Shape
    <3> QED
      BY <1>1, <3>1, <3>2
  <2>5. t[n].type = "done" => k = Data
    BY <2>1 DEF Shape
  <2> QED
    BY <2>2, <2>3, <2>4, <2>5
<1>7. Shape(pc, k, t)
  BY <1>3, <1>5, <1>6 DEF Shape
<1> QED
  BY <1>7 DEF t

LEMMA ShapeJoin ==
  ASSUME NEW pc \in {"ask", "stream"}, NEW k, NEW w \in Seq(Events), Shape(pc, k, w),
         NEW e \in Events, NEW pc2 \in {"stream", "over"}, NEW k2,
         e.type \in {"message_id", "chunk_result", "data", "error", "done"},
         e.type = "message_id" => pc = "ask",
         e.type \in Ends <=> pc2 = "over",
         e.type = "done" => k2 = Data
  PROVE  Shape(pc2, k2, w \o <<e>>)
<1> DEFINE t == w \o <<e>>
<1>1. /\ t \in Seq(Events) /\ Len(w) \in Nat /\ Len(t) = Len(w) + 1
      /\ \A n \in 1..Len(w) : t[n] = w[n]
      /\ t[Len(w) + 1] = e
  <2>1. <<e>> \in Seq(Events) /\ Len(<<e>>) = 1 /\ <<e>>[1] = e
    OBVIOUS
  <2> QED
    BY <2>1, JoinEach
<1>2. Body(pc, w) = Len(w) /\ Body(pc2, t) = IF pc2 = "over" THEN Len(w) ELSE Len(w) + 1
  BY <1>1 DEF Body
<1> HIDE DEF t
<1>3. pc2 \notin {"idle", "received", "ask"}
  OBVIOUS
<1>4. ASSUME NEW n \in 1..Len(t)
      PROVE  /\ t[n].type \in Ends <=> n > Body(pc2, t)
             /\ t[n].type = "conversation_id" => n = 1 /\ Len(t) > 1 /\ t[2].type = "nonce"
             /\ t[n].type = "nonce" => n = 1 \/ (n = 2 /\ t[1].type = "conversation_id")
             /\ t[n].type = "message_id" => \A m \in 1..(n - 1) : t[m].type \in Opening
             /\ t[n].type = "done" => k2 = Data
  <2>1. CASE n \in 1..Len(w)
    <3>1. t[n] = w[n] /\ ~(n > Len(w)) /\ w[n].type \notin Ends
      BY <1>1, <1>2, <2>1 DEF Shape
    <3>2. ~(n > Body(pc2, t))
      BY <1>1, <1>2, <2>1
    <3>3. t[n].type = "conversation_id" => n = 1 /\ Len(t) > 1 /\ t[2].type = "nonce"
      <4>1. t[n].type = "conversation_id" => n = 1 /\ Len(w) > 1 /\ w[2].type = "nonce"
        BY <2>1, <3>1 DEF Shape
      <4>2. Len(w) > 1 => Len(t) > 1 /\ t[2] = w[2]
        BY <1>1
      <4> QED
        BY <4>1, <4>2
    <3>4. t[n].type = "nonce" => n = 1 \/ (n = 2 /\ t[1].type = "conversation_id")
      <4>1. t[n].type = "nonce" => n = 1 \/ (n = 2 /\ w[1].type = "conversation_id")
        BY <2>1, <3>1 DEF Shape
      <4>2. 1 \in 1..Len(w) /\ t[1] = w[1]
        BY <1>1, <2>1
      <4> QED
        BY <4>1, <4>2
    <3>5. ASSUME t[n].type = "message_id", NEW m \in 1..(n - 1)  PROVE t[m].type \in Opening
      <4>1. w[m].type \in Opening
        BY <2>1, <3>1, <3>5 DEF Shape
      <4>2. m \in 1..Len(w)
        BY <1>1, <2>1
      <4> QED
        BY <1>1, <4>1, <4>2
    <3>6. "done" \in Ends
      BY DEF Ends
    <3> QED
      BY <3>1, <3>2, <3>3, <3>4, <3>5, <3>6
  <2>2. CASE n = Len(w) + 1
    <3>1. t[n] = e /\ (n > Body(pc2, t) <=> pc2 = "over")
      BY <1>1, <1>2, <2>2
    <3>2. e.type \notin Opening
      BY DEF Opening
    <3>3. ASSUME e.type = "message_id", NEW m \in 1..(n - 1)  PROVE t[m].type \in Opening
      <4>1. m \in 1..Len(w) /\ pc = "ask"
        BY <1>1, <2>2, <3>3
      <4> QED
        BY <1>1, <4>1 DEF Shape
    <3> QED
      BY <3>1, <3>2, <3>3 DEF Opening
  <2> QED
    BY <1>1, <2>1, <2>2
<1>5. Shape(pc2, k2, t)
  BY <1>3, <1>4 DEF Shape
<1> QED
  BY <1>5 DEF t

LEMMA ShapeOpens ==
  /\ \A k : Shape("over", k, Told1("error"))
  /\ Shape("ask", 0, Told2("conversation_id", "nonce"))
  /\ Shape("ask", 0, <<>>)
<1>1. /\ "error" \in EventTypes /\ "conversation_id" \in EventTypes /\ "nonce" \in EventTypes
  BY DEF EventTypes
<1>2. Len(Told1("error")) = 1 /\ Told1("error")[1].type = "error"
  BY <1>1, ToldType
<1>3. ASSUME NEW k  PROVE Shape("over", k, Told1("error"))
  BY <1>2 DEF Shape, Body, Ends
<1>4. /\ Len(Told2("conversation_id", "nonce")) = 2
      /\ Told2("conversation_id", "nonce")[1].type = "conversation_id"
      /\ Told2("conversation_id", "nonce")[2].type = "nonce"
  BY <1>1, ToldType
<1>5. ASSUME NEW n \in 1..2  PROVE n = 1 \/ n = 2
  OBVIOUS
<1>6. Shape("ask", 0, Told2("conversation_id", "nonce"))
  BY <1>4, <1>5 DEF Shape, Body, Ends, Opening
<1>7. Shape("ask", 0, <<>>)
  BY DEF Shape
<1> QED
  BY <1>3, <1>6, <1>7

LEMMA JoinFirst ==
  ASSUME NEW w \in Seq(Events), NEW t \in Seq(Events)
  PROVE  /\ w # <<>> => w \o t # <<>> /\ (w \o t)[1] = w[1]
         /\ w = <<>> => w \o t = t
         /\ t # <<>> => w \o t # <<>>
<1>1. /\ Len(w) \in Nat /\ Len(t) \in Nat /\ Len(w \o t) = Len(w) + Len(t)
      /\ \A n \in 1..Len(w) : (w \o t)[n] = w[n]
      /\ w \o t \in Seq(Events)
  BY JoinEach
<1>2. (w # <<>> <=> Len(w) # 0) /\ (t # <<>> <=> Len(t) # 0) /\ (w \o t # <<>> <=> Len(w \o t) # 0)
  BY <1>1, SeqEach
<1>3. w = <<>> => w \o t = t
  BY ConcatEmptySeq
<1>4. w # <<>> => (w \o t)[1] = w[1]
  BY <1>1, <1>2
<1> QED
  BY <1>1, <1>2, <1>3, <1>4

LEMMA JoinTwo ==
  ASSUME NEW w \in Seq(Events), NEW t \in EventTypes, NEW u \in EventTypes
  PROVE  /\ w \o Told2(t, u) = (w \o <<Sees(t)>>) \o <<Sees(u)>>
         /\ w \o <<Sees(t)>> \in Seq(Events)
<1>1. Sees(t) \in Events /\ Sees(u) \in Events
  BY EventsType DEF EventTypes
<1>2. <<Sees(t)>> \in Seq(Events) /\ <<Sees(u)>> \in Seq(Events)
      /\ Told2(t, u) = <<Sees(t)>> \o <<Sees(u)>>
  BY <1>1 DEF Told2
<1> QED
  BY <1>2, ConcatAssociative, JoinEach

-----------------------------------------------------------------------------
(* What a step does to the requests.                                       *)

\* Of the questions, only the new one may change, and no request is sent.
AskKept == /\ \A r \in Asks : ask'[r].phase = "sent" <=> ask[r].phase = "sent"
           /\ \A r \in Asks : Used(r) => /\ Used(r)' /\ ask'[r].conv = ask[r].conv
                                         /\ ask'[r].nonce = ask[r].nonce
Quiet == AskKept /\ UNCHANGED <<sub, job, buffer, log, convs, blocked>>
Hangs == AskKept /\ sub' = 0 /\ job' = Closed(job, sub) /\ UNCHANGED <<log, convs, blocked>>

LEMMA AskedKept ==
  ASSUME Types, NEW r, Asked1(r)  PROVE AskKept
<1>1. /\ ask'[r] = [phase |-> "timer", conv |-> convId, nonce |-> nonce] /\ ~Used(r)
      /\ \A s \in Asks : s # r => ask'[s] = ask[s]
  BY AskMoves
<1>2. ask'[r].phase # "sent" /\ ask[r].phase # "sent"
  BY <1>1 DEF Used
<1> QED
  BY <1>1, <1>2 DEF AskKept, Used

LEMMA PhaseKept ==
  ASSUME Types, NEW r \in Asks, NEW phase \in {"captcha", "over"},
         ask[r].phase \in {"timer", "captcha"}, ask' = [ask EXCEPT ![r].phase = phase]
  PROVE  AskKept
<1>1. /\ ask'[r].phase = phase /\ ask'[r].conv = ask[r].conv /\ ask'[r].nonce = ask[r].nonce
      /\ \A s \in Asks : s # r => ask'[s] = ask[s]
      /\ \A s \in Asks : Used(s)' <=> Used(s)
  <2>1. phase \in {"captcha", "sent", "over"} /\ ask[r].phase # "unused"
    OBVIOUS
  <2> QED
    BY <2>1, PhaseMoves
<1>2. ask'[r].phase # "sent" /\ ask[r].phase # "sent"
  BY <1>1
<1> QED
  BY <1>1, <1>2 DEF AskKept, Used

LEMMA Steps ==
  ASSUME Types, Next
  PROVE  \/ Quiet \/ Hangs \/ ProcessChunk
         \/ \E r \in Asks : Subscribe(r)
         \/ \E r \in Asks : Serve(r)
         \/ \E r \in Asks : SaveFixed(r)
<1>u. UNCHANGED ask => AskKept
  BY DEF AskKept, Used
<1>1. \A mid : Unsubscribe(mid) => sub' = 0 /\ job' = Closed(job, sub)
  BY DEF Unsubscribe, Cut
<1>2. CASE Abort
  BY <1>2, <1>1, <1>u DEF Abort, Hangs
<1>3. CASE Timeout
  BY <1>3, <1>1, <1>u DEF Timeout, Hangs
<1>4. CASE StreamEnds
  BY <1>4, <1>u DEF StreamEnds, Hangs
<1>5. CASE Disconnect
  BY <1>5, <1>u DEF Disconnect, Hangs, Cut
<1>6. ASSUME NEW r \in Asks, NEW b, Enter(r, b)  PROVE Quiet
  <2>1. Asked1(r) /\ UNCHANGED <<sub, job, buffer, log, convs, blocked>>
    BY <1>6 DEF Enter, Search, Asked1, server
  <2> QED
    BY <2>1, AskedKept DEF Quiet
<1>7. ASSUME NEW r \in Asks, Send(r)  PROVE Hangs
  <2>1. Asked1(r) /\ UNCHANGED <<log, convs, blocked>>
    BY <1>7 DEF Send, Search, Asked1
  <2>2. PICK mid \in {messageId, <<>>} : Unsubscribe(mid)
    BY <1>7 DEF Send
  <2> QED
    BY <1>1, <2>1, <2>2, AskedKept DEF Hangs
<1>8. CASE Reset
  <2>1. UNCHANGED <<ask, log, convs, blocked>>
        /\ ((sub' = 0 /\ Cut) \/ UNCHANGED <<sub, job, buffer>>)
    BY <1>8 DEF Reset
  <2> QED
    BY <1>u, <2>1 DEF Quiet, Hangs, Cut
<1>9. ASSUME NEW r \in Asks, NEW b, WidgetReset(r, b)  PROVE Quiet \/ Hangs
  <2>1. /\ UNCHANGED ask \/ Asked1(r)
        /\ (sub' = 0 /\ Cut) \/ UNCHANGED <<sub, job, buffer>>
        /\ UNCHANGED <<log, convs, blocked>>
    BY <1>9 DEF WidgetReset, Asked1
  <2> QED
    BY <1>u, <2>1, AskedKept DEF Quiet, Hangs, Cut
<1>10. ASSUME NEW r \in Asks, Start(r)  PROVE Quiet
  <2>1. /\ ask[r].phase \in {"timer", "captcha"} /\ ask' = [ask EXCEPT ![r].phase = "captcha"]
        /\ UNCHANGED <<sub, job, buffer, log, convs, blocked>>
    BY <1>10 DEF Start, server
  <2> QED
    BY <2>1, PhaseKept DEF Quiet
<1>11. ASSUME NEW r \in Asks, AnswerFails(r)  PROVE Quiet
  <2>1. /\ ask[r].phase \in {"timer", "captcha"} /\ ask' = [ask EXCEPT ![r].phase = "over"]
        /\ UNCHANGED <<sub, job, buffer, log, convs, blocked>>
    BY <1>11 DEF AnswerFails, server
  <2> QED
    BY <2>1, PhaseKept DEF Quiet
<1>12. ASSUME NEW i \in Asks, Score(i)  PROVE Quiet
  BY <1>12, <1>u DEF Score, Quiet, server
<1>13. CASE ScoreDone
  BY <1>13, <1>u DEF ScoreDone, Quiet, server
<1> QED
  BY <1>2, <1>3, <1>4, <1>5, <1>6, <1>7, <1>8, <1>9, <1>10, <1>11, <1>12, <1>13
     DEF Next, Reader, Panel, Stream

\* A goroutine belongs to a question, whose conversation stays its own.
LEMMA SentUsed ==
  ASSUME Types, Connected, NEW r \in Asks, job[r].pc # "idle"
  PROVE  Used(r) /\ (AskKept => ConversationOf(r)' = ConversationOf(r))
<1>1. ask[r].phase = "sent"
  BY DEF Connected
<1>2. Used(r)
  BY <1>1 DEF Used
<1> QED
  BY <1>2 DEF AskKept, ConversationOf

\* Rows are only added.
Grows(l, m) == /\ Len(l) <= Len(m) /\ \A n \in 1..Len(l) : m[n] = l[n]

LEMMA GrowsSame ==
  ASSUME NEW l \in Seq(LogRows)  PROVE Grows(l, l)
BY SeqEach DEF Grows

LEMMA LogGrows ==
  ASSUME Types, Types', NEW r \in Asks, AddsRow(r), NEW c \in Asks
  PROVE  Grows(log[c], log'[c]) /\ log'[c] \in Seq(LogRows)
<1>1. /\ ConversationOf(r) \in Asks /\ log \in [Asks -> Seq(LogRows)] /\ log' \in [Asks -> Seq(LogRows)]
  BY ConversationType DEF Types, ServerType
<1>2. ASSUME NEW rows \in Seq(LogRows), Writes(r, rows)  PROVE Grows(log[c], log'[c])
  <2>1. CASE c = ConversationOf(r)
    <3>1. log'[c] = log[c] \o rows /\ log[c] \in Seq(LogRows)
      BY <1>1, <1>2, <2>1 DEF Writes
    <3> QED
      BY <3>1, JoinEach DEF Grows
  <2>2. CASE c # ConversationOf(r)
    <3>1. log'[c] = log[c]
      BY <1>1, <1>2, <2>2 DEF Writes
    <3> QED
      BY <1>1, <3>1, GrowsSame
  <2> QED
    BY <2>1, <2>2
<1>3. UNCHANGED log => Grows(log[c], log'[c])
  BY <1>1, GrowsSame
<1>4. <<Ask(r)>> \in Seq(LogRows) /\ <<Reply(r)>> \in Seq(LogRows)
  <2>1. Ask(r) \in LogRows /\ Reply(r) \in LogRows
    BY DEF Ask, Reply, LogRows
  <2> QED
    BY <2>1
<1> QED
  BY <1>1, <1>2, <1>3, <1>4 DEF AddsRow

LEMMA SavedStays ==
  ASSUME Types, NEW r, \A c \in Asks : Grows(log[c], log'[c]), Types'
  PROVE  Saved(r) => Saved(r)'
<1> SUFFICES ASSUME Saved(r)  PROVE Saved(r)'
  OBVIOUS
<1>1. PICK c \in Asks : \E m, n \in DOMAIN log[c] :
        m < n /\ log[c][m] = <<"user", r>> /\ log[c][n] = <<"assistant", r>>
  BY DEF Saved
<1>2. /\ log[c] \in Seq(LogRows) /\ log'[c] \in Seq(LogRows)
      /\ DOMAIN log[c] = 1..Len(log[c]) /\ DOMAIN log'[c] = 1..Len(log'[c])
      /\ Len(log[c]) \in Nat /\ Len(log'[c]) \in Nat
  BY LenProperties, Facts DEF Types, ServerType
<1>3. \A n \in DOMAIN log[c] : n \in DOMAIN log'[c] /\ log'[c][n] = log[c][n]
  BY <1>2 DEF Grows
<1> QED
  BY <1>1, <1>3 DEF Saved

LEMMA AskingStays ==
  ASSUME Types, NEW r \in Asks, ConversationOf(r)' = ConversationOf(r),
         Grows(log[ConversationOf(r)], log'[ConversationOf(r)]), Types'
  PROVE  Asking(r) => Asking(r)'
<1> DEFINE c == ConversationOf(r)
<1>1. c \in Asks /\ ConversationOf(r)' = c
  BY ConversationType
<1>2. /\ log[c] \in Seq(LogRows) /\ log'[c] \in Seq(LogRows)
      /\ Len(log[c]) \in Nat /\ Len(log'[c]) \in Nat
  BY <1>1, LenProperties DEF Types, ServerType
<1>3. \A n \in 1..Len(log[c]) : n \in 1..Len(log'[c]) /\ log'[c][n] = log[c][n]
  BY <1>2 DEF Grows
<1> QED
  BY <1>1, <1>3 DEF Asking

LEMMA QuietWire ==
  ASSUME WireInv, Types', Quiet  PROVE ServerKnows'
<1>1. Connected'
  BY DEF WireInv, ServerKnows, Connected, Quiet, AskKept
<1>2. BufferFresh'
  BY DEF WireInv, ServerKnows, BufferFresh, Quiet
<1>3. RowsKnown'
  <2>1. ASSUME NEW r \in Asks  PROVE Holds(job[r].wire, "done")' => Saved(r)'
    BY <2>1 DEF WireInv, ServerKnows, RowsKnown, Quiet, Saved, Holds
  <2>2. ASSUME NEW r \in Asks, At(r, "stream")'  PROVE Asking(r)'
    <3>1. At(r, "stream") /\ job[r].pc # "idle"
      BY <2>2 DEF At, Quiet
    <3>2. ConversationOf(r)' = ConversationOf(r)
      BY <3>1, SentUsed DEF WireInv, ServerKnows, Quiet
    <3> QED
      BY <3>1, <3>2 DEF WireInv, ServerKnows, RowsKnown, Quiet, Asking
  <2> QED
    BY <2>1, <2>2 DEF RowsKnown
<1>4. \A r \in Asks : Shape(job[r].pc, job[r].k, job[r].wire)'
  BY DEF WireInv, ServerKnows, Quiet
<1> QED
  BY <1>1, <1>2, <1>3, <1>4 DEF ServerKnows

LEMMA HangsJob ==
  ASSUME Types, job' = Closed(job, sub), NEW r \in Asks
  PROVE  /\ job'[r].pc = job[r].pc /\ job'[r].k = job[r].k
         /\ r = sub => job'[r].open = FALSE /\ job'[r].wire = <<>>
         /\ r # sub => job'[r] = job[r]
<1>1. job[r] \in Jobs /\ sub \in Items /\ ServerType
  BY Facts DEF Types
<1>2. job'[r] = IF r = sub THEN [job[r] EXCEPT !.open = FALSE, !.wire = <<>>] ELSE job[r]
  BY <1>1, ClosedMoves
<1>3. /\ [job[r] EXCEPT !.open = FALSE, !.wire = <<>>].pc = job[r].pc
      /\ [job[r] EXCEPT !.open = FALSE, !.wire = <<>>].k = job[r].k
      /\ [job[r] EXCEPT !.open = FALSE, !.wire = <<>>].open = FALSE
      /\ [job[r] EXCEPT !.open = FALSE, !.wire = <<>>].wire = <<>>
  BY <1>1 DEF Jobs
<1> QED
  BY <1>2, <1>3

LEMMA HangsWire ==
  ASSUME WireInv, Types', Hangs  PROVE ServerKnows'
<1>0. Types /\ sub' = 0 /\ AskKept /\ job' = Closed(job, sub) /\ UNCHANGED log
  BY DEF WireInv, Hangs
<1>j. \A r \in Asks : /\ job'[r].pc = job[r].pc /\ job'[r].k = job[r].k
                      /\ r = sub => job'[r].open = FALSE /\ job'[r].wire = <<>>
                      /\ r # sub => job'[r] = job[r]
  BY <1>0, HangsJob
<1>1. Connected'
  <2>1. 0 \notin Asks
    BY DEF Asks
  <2> QED
    BY <1>0, <1>j, <2>1 DEF WireInv, ServerKnows, Connected, AskKept
<1>2. BufferFresh'
  BY <1>0 DEF BufferFresh
<1>3. RowsKnown'
  <2>1. ASSUME NEW r \in Asks, Holds(job[r].wire, "done")'  PROVE Saved(r)'
    <3>1. r # sub
      BY <1>j, <2>1 DEF Holds
    <3>2. Saved(r)
      BY <1>j, <2>1, <3>1 DEF WireInv, ServerKnows, RowsKnown
    <3> QED
      BY <1>0, <3>2 DEF Saved
  <2>2. ASSUME NEW r \in Asks, At(r, "stream")'  PROVE Asking(r)'
    <3>1. At(r, "stream") /\ job[r].pc # "idle"
      BY <1>j, <2>2 DEF At
    <3>2. ConversationOf(r)' = ConversationOf(r)
      BY <1>0, <3>1, SentUsed DEF WireInv, ServerKnows
    <3> QED
      BY <1>0, <3>1, <3>2 DEF WireInv, ServerKnows, RowsKnown, Asking
  <2> QED
    BY <2>1, <2>2 DEF RowsKnown
<1>4. ASSUME NEW r \in Asks  PROVE Shape(job[r].pc, job[r].k, job[r].wire)'
  <2>1. Shape(job[r].pc, job[r].k, job[r].wire)
    BY DEF WireInv, ServerKnows
  <2>2. Shape(job[r].pc, job[r].k, <<>>)
    BY <2>1, ShapeNone
  <2>3. Shape(job'[r].pc, job'[r].k, job'[r].wire)
    BY <1>j, <2>1, <2>2
  <2> QED
    BY <2>3 DEF Shape, Body
<1> QED
  BY <1>1, <1>2, <1>3, <1>4 DEF ServerKnows

\* The request that subscribe sends: its fetch is the one that is open.
LEMMA SubscribeJob ==
  ASSUME WireInv, NEW r \in Asks, Subscribe(r)
  PROVE  /\ sub' = r /\ UNCHANGED log
         /\ \A s \in Asks : Used(s) => Used(s)' /\ ask'[s].conv = ask[s].conv /\ ask'[s].nonce = ask[s].nonce
         /\ \A s \in Asks : s # r => (ask'[s].phase = "sent" <=> ask[s].phase = "sent")
         /\ ask'[r].phase = "sent" /\ Used(r)
         /\ job[r].pc = "idle" /\ job[r].k = 0
         /\ job'[r].pc = "received" /\ job'[r].k = 0 /\ job'[r].open /\ job'[r].wire = <<>>
         /\ \A s \in Asks : s # r => /\ job'[s].pc = job[s].pc /\ job'[s].k = job[s].k
                                     /\ s = sub => job'[s].open = FALSE /\ job'[s].wire = <<>>
                                     /\ s # sub => job'[s] = job[s]
<1>1. /\ ask[r].phase = "captcha" /\ ask' = [ask EXCEPT ![r].phase = "sent"] /\ sub' = r
      /\ job' = [Closed(job, sub) EXCEPT ![r].pc = "received", ![r].open = TRUE]
      /\ UNCHANGED log
  BY DEF Subscribe
<1>2. Types /\ Connected /\ ServerType /\ sub \in Items
      /\ Shape(job[r].pc, job[r].k, job[r].wire) /\ job \in [Asks -> Jobs]
  BY Facts DEF WireInv, ServerKnows, Types
<1>3. job[r].pc = "idle" /\ job[r].wire = <<>> /\ job[r].k = 0 /\ Used(r)
  BY <1>1, <1>2 DEF Connected, Shape, Used
<1>4. Closed(job, sub) \in [Asks -> Jobs]
      /\ \A s \in Asks : Closed(job, sub)[s] =
              IF s = sub THEN [job[s] EXCEPT !.open = FALSE, !.wire = <<>>] ELSE job[s]
  BY <1>2, ClosedMoves
<1>5. \A s \in Asks : /\ s # r => job'[s] = Closed(job, sub)[s]
                      /\ s = r => job'[s] = [Closed(job, sub)[s] EXCEPT !.pc = "received", !.open = TRUE]
  BY <1>1, <1>4
<1>6. /\ job'[r].pc = "received" /\ job'[r].k = 0 /\ job'[r].open /\ job'[r].wire = <<>>
  <2>1. Closed(job, sub)[r] \in Jobs /\ Closed(job, sub)[r].wire = <<>> /\ Closed(job, sub)[r].k = 0
    BY <1>2, <1>3, <1>4 DEF Jobs
  <2>2. job'[r] = [Closed(job, sub)[r] EXCEPT !.pc = "received", !.open = TRUE]
    BY <1>5
  <2> QED
    BY <2>1, <2>2 DEF Jobs
<1>7. ASSUME NEW s \in Asks, s # r
      PROVE  /\ job'[s].pc = job[s].pc /\ job'[s].k = job[s].k
             /\ s = sub => job'[s].open = FALSE /\ job'[s].wire = <<>>
             /\ s # sub => job'[s] = job[s]
  <2>1. job'[s] = IF s = sub THEN [job[s] EXCEPT !.open = FALSE, !.wire = <<>>] ELSE job[s]
    BY <1>4, <1>5, <1>7
  <2>2. /\ [job[s] EXCEPT !.open = FALSE, !.wire = <<>>].pc = job[s].pc
        /\ [job[s] EXCEPT !.open = FALSE, !.wire = <<>>].k = job[s].k
        /\ [job[s] EXCEPT !.open = FALSE, !.wire = <<>>].open = FALSE
        /\ [job[s] EXCEPT !.open = FALSE, !.wire = <<>>].wire = <<>>
    BY <1>2 DEF Jobs
  <2> QED
    BY <2>1, <2>2
<1>8. /\ ask'[r].phase = "sent" /\ ask'[r].conv = ask[r].conv /\ ask'[r].nonce = ask[r].nonce
      /\ \A s \in Asks : s # r => ask'[s] = ask[s]
      /\ \A s \in Asks : Used(s)' <=> Used(s)
  BY <1>1, <1>2, PhaseMoves
<1> QED
  BY <1>1, <1>3, <1>6, <1>7, <1>8

LEMMA SubscribeWire ==
  ASSUME WireInv, Types', NEW r \in Asks, Subscribe(r)  PROVE ServerKnows'
<1>1. /\ sub' = r /\ UNCHANGED log
      /\ \A s \in Asks : Used(s) => Used(s)' /\ ask'[s].conv = ask[s].conv /\ ask'[s].nonce = ask[s].nonce
      /\ \A s \in Asks : s # r => (ask'[s].phase = "sent" <=> ask[s].phase = "sent")
      /\ ask'[r].phase = "sent" /\ Used(r)
      /\ job'[r].pc = "received" /\ job'[r].k = 0 /\ job'[r].open /\ job'[r].wire = <<>>
      /\ \A s \in Asks : s # r => /\ job'[s].pc = job[s].pc /\ job'[s].k = job[s].k
                                  /\ s = sub => job'[s].open = FALSE /\ job'[s].wire = <<>>
                                  /\ s # sub => job'[s] = job[s]
  BY SubscribeJob
<1>2. Connected'
  BY <1>1 DEF WireInv, ServerKnows, Connected
<1>3. BufferFresh'
  BY <1>1 DEF BufferFresh
<1>4. RowsKnown'
  <2>1. ASSUME NEW s \in Asks, Holds(job[s].wire, "done")'  PROVE Saved(s)'
    <3>1. s # r /\ s # sub
      BY <1>1, <2>1 DEF Holds
    <3>2. Saved(s)
      BY <1>1, <2>1, <3>1 DEF WireInv, ServerKnows, RowsKnown
    <3> QED
      BY <1>1, <3>2 DEF Saved
  <2>2. ASSUME NEW s \in Asks, At(s, "stream")'  PROVE Asking(s)'
    <3>1. At(s, "stream") /\ job[s].pc # "idle"
      BY <1>1, <2>2 DEF At
    <3>2. Used(s)
      BY <3>1, SentUsed DEF WireInv, ServerKnows
    <3>3. ConversationOf(s)' = ConversationOf(s)
      BY <1>1, <3>2 DEF ConversationOf
    <3> QED
      <4>1. Asking(s)
        BY <3>1 DEF WireInv, ServerKnows, RowsKnown
      <4> QED
        BY <1>1, <3>3, <4>1 DEF Asking
  <2> QED
    BY <2>1, <2>2 DEF RowsKnown
<1>5. ASSUME NEW s \in Asks  PROVE Shape(job[s].pc, job[s].k, job[s].wire)'
  <2>1. Shape(job[s].pc, job[s].k, job[s].wire)
    BY DEF WireInv, ServerKnows
  <2>2. Shape(job[s].pc, job[s].k, <<>>)
    BY <2>1, ShapeNone
  <2>3. Shape("received", 0, <<>>)
    BY DEF Shape
  <2> QED
    BY <1>1, <2>1, <2>2, <2>3 DEF Shape, Body
<1> QED
  BY <1>2, <1>3, <1>4, <1>5 DEF ServerKnows

\* The client takes the next event off the wire.
LEMMA ChunkJob ==
  ASSUME WireInv, ProcessChunk
  PROVE  /\ sub \in Asks /\ UNCHANGED <<sub, ask, log, convs>> /\ ~buffer'
         /\ job[sub].wire # <<>> /\ job[sub].wire \in Seq(Events) /\ job[sub].wire[1] \in Events
         /\ job[sub].open
         /\ job'[sub].pc = job[sub].pc /\ job'[sub].k = job[sub].k /\ job'[sub].open
         /\ job'[sub].wire = Tail(job[sub].wire)
         /\ \A s \in Asks : s # sub => job'[s] = job[s]
         /\ ~buffer => OnMessage(sub, job[sub].wire[1]) /\ UNCHANGED blame
         /\ buffer => /\ blame' = blame \cup {"torn"}
                      /\ UNCHANGED <<obj, loading, convId, nonce, full, messageId>>
         /\ UNCHANGED <<surface, items, scoring, troubles>>
<1>1. Types /\ job \in [Asks -> Jobs] /\ sub \in Items /\ buffer \in BOOLEAN
  BY Facts DEF WireInv
<1>2. /\ sub # 0 /\ job[sub].wire # <<>> /\ job' = [job EXCEPT ![sub].wire = Tail(@)]
      /\ buffer' = FALSE /\ UNCHANGED <<sub, ask, log, convs, surface, items, scoring, troubles>>
      /\ IF buffer
         THEN /\ Blame(TRUE, "torn") /\ UNCHANGED <<obj, loading, convId, nonce, full, messageId>>
         ELSE OnMessage(sub, Head(job[sub].wire)) /\ UNCHANGED blame
  BY DEF ProcessChunk
<1>3. sub \in Asks /\ job[sub] \in Jobs /\ job[sub].wire \in Seq(Events)
  BY <1>1, <1>2 DEF Items, History, Jobs
<1>4. Head(job[sub].wire) = job[sub].wire[1] /\ job[sub].wire[1] \in Events
  BY <1>2, <1>3, TailEach
<1>5. job[sub].open
  BY <1>3 DEF WireInv, ServerKnows, Connected
<1>6. /\ job'[sub].pc = job[sub].pc /\ job'[sub].k = job[sub].k /\ job'[sub].open
      /\ job'[sub].wire = Tail(job[sub].wire)
      /\ \A s \in Asks : s # sub => job'[s] = job[s]
  BY <1>1, <1>2, <1>3, <1>5 DEF Jobs
<1> QED
  BY <1>2, <1>3, <1>4, <1>5, <1>6 DEF Blame

LEMMA HoldsTail ==
  ASSUME NEW w \in Seq(Events), w # <<>>, NEW t, Holds(Tail(w), t)  PROVE Holds(w, t)
<1>1. Len(w) \in Nat /\ Len(Tail(w)) = Len(w) - 1 /\ \A n \in 1..Len(Tail(w)) : Tail(w)[n] = w[n + 1]
  BY TailEach
<1>2. \A n \in 1..Len(Tail(w)) : n + 1 \in 1..Len(w)
  BY <1>1
<1> QED
  BY <1>1, <1>2 DEF Holds

LEMMA ChunkWire ==
  ASSUME WireInv, Types', ProcessChunk  PROVE ServerKnows'
<1>1. /\ sub \in Asks /\ UNCHANGED <<sub, ask, log>> /\ ~buffer'
      /\ job[sub].wire # <<>> /\ job[sub].wire \in Seq(Events)
      /\ job'[sub].pc = job[sub].pc /\ job'[sub].k = job[sub].k /\ job'[sub].open
      /\ job[sub].open /\ job'[sub].wire = Tail(job[sub].wire)
      /\ \A s \in Asks : s # sub => job'[s] = job[s]
  BY ChunkJob
<1>2. Connected'
  BY <1>1 DEF WireInv, ServerKnows, Connected
<1>3. BufferFresh'
  BY <1>1 DEF BufferFresh
<1>4. RowsKnown'
  <2>1. ASSUME NEW s \in Asks, Holds(job'[s].wire, "done")  PROVE Saved(s)'
    <3>1. Holds(job[s].wire, "done")
      BY <1>1, <2>1, HoldsTail
    <3>2. Saved(s)
      BY <3>1 DEF WireInv, ServerKnows, RowsKnown
    <3> QED
      BY <1>1, <3>2 DEF Saved
  <2>2. ASSUME NEW s \in Asks, At(s, "stream")'  PROVE Asking(s)'
    <3>1. At(s, "stream")
      BY <1>1, <2>2 DEF At
    <3> QED
      BY <1>1, <3>1 DEF WireInv, ServerKnows, RowsKnown, Asking, ConversationOf
  <2> QED
    BY <2>1, <2>2 DEF RowsKnown, Holds
<1>5. ASSUME NEW s \in Asks  PROVE Shape(job[s].pc, job[s].k, job[s].wire)'
  <2>1. Shape(job[s].pc, job[s].k, job[s].wire)
    BY DEF WireInv, ServerKnows
  <2>2. s = sub => Shape(job[s].pc, job[s].k, Tail(job[s].wire))
    BY <1>1, <2>1, ShapeTail
  <2>3. job'[s].pc = job[s].pc /\ job'[s].k = job[s].k
        /\ job'[s].wire = IF s = sub THEN Tail(job[s].wire) ELSE job[s].wire
    BY <1>1
  <2> QED
    BY <2>1, <2>2, <2>3 DEF Shape, Body
<1> QED
  BY <1>2, <1>3, <1>4, <1>5 DEF ServerKnows

LEMMA HoldsJoin ==
  ASSUME NEW w \in Seq(Events), NEW es \in Seq(Events), NEW t
  PROVE  Holds(w \o es, t) <=> Holds(w, t) \/ Holds(es, t)
<1>1. /\ Len(w) \in Nat /\ Len(es) \in Nat /\ Len(w \o es) = Len(w) + Len(es)
      /\ \A n \in 1..Len(w) : (w \o es)[n] = w[n]
      /\ \A n \in 1..Len(es) : (w \o es)[Len(w) + n] = es[n]
  BY JoinEach
<1>2. ASSUME NEW n \in 1..Len(w \o es)
      PROVE  \/ n \in 1..Len(w) /\ (w \o es)[n] = w[n]
             \/ \E m \in 1..Len(es) : (w \o es)[n] = es[m]
  <2>1. CASE n \in 1..Len(w)
    BY <1>1, <2>1
  <2>2. CASE n > Len(w)
    <3>1. n - Len(w) \in 1..Len(es) /\ Len(w) + (n - Len(w)) = n
      BY <1>1, <2>2
    <3>2. (w \o es)[n] = es[n - Len(w)]
      BY <1>1, <3>1
    <3> QED
      BY <3>1, <3>2
  <2> QED
    BY <1>1, <2>1, <2>2
<1>3. Holds(w \o es, t) => Holds(w, t) \/ Holds(es, t)
  BY <1>2 DEF Holds
<1>4. Holds(w, t) => Holds(w \o es, t)
  BY <1>1 DEF Holds
<1>5. ASSUME NEW n \in 1..Len(es), es[n].type = t  PROVE Holds(w \o es, t)
  <2>1. Len(w) + n \in 1..Len(w \o es) /\ (w \o es)[Len(w) + n] = es[n]
    BY <1>1
  <2> QED
    BY <1>5, <2>1 DEF Holds
<1> QED
  BY <1>3, <1>4, <1>5 DEF Holds

\* What the goroutine of r sends, by its state before and after: the events
\* join those on the wire in the shape of a stream.
Fits(r, es, pc, k) ==
    /\ Shape(pc, k, job[r].wire \o es) /\ Shape(pc, k, <<>>)
    /\ At(r, "received") \/ At(r, "ask") =>
         /\ es = <<>> => pc = "ask"
         /\ es # <<>> => es[1].type \in {"conversation_id", "message_id", "error"}
    /\ Holds(es, "done") => At(r, "stream") /\ Writes(r, <<Reply(r)>>)
    /\ pc = "stream" => At(r, "stream") \/ Writes(r, <<Ask(r)>>)

LEMMA OpensFits ==
  ASSUME Types, NEW r \in Asks, Opens(r), Shape(job[r].pc, job[r].k, job[r].wire)
  PROVE  \E es \in Seq(Events), pc \in {"ask", "stream", "over"}, k \in 0..Data :
           Sends(r, es, pc, k) /\ Fits(r, es, pc, k)
<1>1. /\ job[r].wire = <<>> /\ job[r].k = 0 /\ At(r, "received")
  BY DEF Opens, At, Shape
<1>2. 0 \in 0..Data /\ <<>> \in Seq(Events) /\ <<>> \o <<>> = <<>>
  BY BoundsAssumption, EmptySeq DEF BoundsAssumption
<1>t. "error" \in EventTypes /\ "conversation_id" \in EventTypes /\ "nonce" \in EventTypes
  BY DEF EventTypes
<1>3. CASE Sends(r, Told1("error"), "over", job[r].k)
  <2>1. Told1("error") \in Seq(Events) /\ Len(Told1("error")) = 1 /\ Told1("error")[1].type = "error"
    BY <1>t, ToldType
  <2>2. job[r].wire \o Told1("error") = Told1("error")
    BY <1>1, <1>2, <2>1, JoinFirst
  <2>3. Shape("over", 0, Told1("error")) /\ Shape("over", 0, <<>>)
    BY ShapeOpens, ShapeNone
  <2>4. ~Holds(Told1("error"), "done")
    BY <2>1 DEF Holds
  <2>5. Fits(r, Told1("error"), "over", 0)
    BY <1>1, <2>1, <2>2, <2>3, <2>4 DEF Fits
  <2> QED
    BY <1>1, <1>2, <1>3, <2>1, <2>5
<1>4. CASE Sends(r, Told2("conversation_id", "nonce"), "ask", job[r].k)
  <2> DEFINE es == Told2("conversation_id", "nonce")
  <2>1. es \in Seq(Events) /\ Len(es) = 2 /\ es[1].type = "conversation_id" /\ es[2].type = "nonce"
    BY <1>t, ToldType
  <2>2. Shape("ask", 0, es)
    BY ShapeOpens
  <2>s. Sends(r, es, "ask", 0)
    BY <1>1, <1>4
  <2> HIDE DEF es
  <2>3. job[r].wire \o es = es
    BY <1>1, <1>2, <2>1, JoinFirst
  <2>4. ~Holds(es, "done")
    <3>1. \A n \in 1..2 : n = 1 \/ n = 2
      OBVIOUS
    <3> QED
      BY <2>1, <3>1 DEF Holds
  <2>5. Fits(r, es, "ask", 0)
    BY <1>1, <2>1, <2>2, <2>3, <2>4, ShapeNone DEF Fits
  <2> QED
    BY <1>2, <2>1, <2>5, <2>s
<1>5. CASE Sends(r, <<>>, "ask", job[r].k)
  <2>1. job[r].wire \o <<>> = <<>> /\ ~Holds(<<>>, "done")
    BY <1>1, <1>2 DEF Holds
  <2>2. Fits(r, <<>>, "ask", 0)
    BY <1>1, <2>1, ShapeOpens DEF Fits
  <2> QED
    BY <1>1, <1>2, <1>5, <2>2
<1> QED
  BY <1>3, <1>4, <1>5 DEF Opens

\* One more event of a goroutine that has begun.
LEMMA OneFits ==
  ASSUME NEW r \in Asks, NEW pc \in {"ask", "stream"}, At(r, pc), job[r].wire \in Seq(Events),
         Shape(pc, job[r].k, job[r].wire),
         NEW e \in Events, e.type \in {"data", "error", "done"},
         NEW pc2 \in {"stream", "over"}, NEW k2 \in 0..Data,
         e.type \in Ends <=> pc2 = "over", e.type = "done" => k2 = Data /\ Writes(r, <<Reply(r)>>),
         pc = "ask" => e.type = "error"
  PROVE  Fits(r, <<e>>, pc2, k2) /\ <<e>> \in Seq(Events)
<1>1. <<e>> \in Seq(Events) /\ Len(<<e>>) = 1 /\ <<e>>[1] = e /\ <<e>> # <<>>
  OBVIOUS
<1>2. Shape(pc2, k2, job[r].wire \o <<e>>)
  BY ShapeJoin
<1>3. Holds(<<e>>, "done") => e.type = "done"
  BY <1>1 DEF Holds
<1>4. e.type = "error" \/ e.type = "done" => e.type \in Ends
  BY DEF Ends
<1> HIDE DEF Fits
<1> QED
  BY <1>1, <1>2, <1>3, <1>4, ShapeNone DEF Fits, At

LEMMA ServedFits ==
  ASSUME Types, NEW r \in Asks, Served(r), Shape(job[r].pc, job[r].k, job[r].wire)
  PROVE  \E es \in Seq(Events), pc \in {"ask", "stream", "over"}, k \in 0..Data :
           Sends(r, es, pc, k) /\ Fits(r, es, pc, k)
<1>1. job[r] \in Jobs /\ job[r].wire \in Seq(Events) /\ job[r].k \in 0..Data /\ Data \in Nat
  BY Facts, BoundsAssumption DEF Jobs, BoundsAssumption
<1>2. CASE Opens(r)
  BY <1>2, OpensFits
<1>t. /\ "error" \in EventTypes /\ "done" \in EventTypes /\ "message_id" \in EventTypes
      /\ "chunk_result" \in EventTypes
  BY DEF EventTypes
<1>s. /\ Sees("error") \in Events /\ Sees("error").type = "error"
      /\ Sees("done") \in Events /\ Sees("done").type = "done"
      /\ Sees("message_id") \in Events /\ Sees("message_id").type = "message_id"
      /\ Sees("chunk_result") \in Events /\ Sees("chunk_result").type = "chunk_result"
  BY EventsType
<1>e. "error" \in Ends /\ "done" \in Ends /\ "message_id" \notin Ends /\ "chunk_result" \notin Ends
      /\ "data" \notin Ends
  BY DEF Ends
<1>3. CASE Fails(r)
  <2>1. Fits(r, Told1("error"), "over", job[r].k) /\ Told1("error") \in Seq(Events)
    <3>1. At(r, "ask") /\ job[r].pc = "ask"
      BY <1>3 DEF Fails, At
    <3> QED
      BY <1>1, <1>s, <1>e, <3>1, OneFits DEF Told1
  <2> QED
    BY <1>1, <1>3, <2>1 DEF Fails
<1>4. CASE Closes(r)
  <2>0. At(r, "stream") /\ job[r].pc = "stream"
    BY <1>4 DEF Closes, At
  <2>1. Fits(r, Told1("error"), "over", job[r].k) /\ Told1("error") \in Seq(Events)
    BY <1>1, <1>s, <1>e, <2>0, OneFits DEF Told1
  <2>2. job[r].k = Data /\ Writes(r, <<Reply(r)>>)
          => Fits(r, Told1("done"), "over", job[r].k) /\ Told1("done") \in Seq(Events)
    BY <1>1, <1>s, <1>e, <2>0, OneFits DEF Told1
  <2> QED
    BY <1>1, <1>4, <2>1, <2>2 DEF Closes
<1>5. CASE Speaks(r)
  <2> DEFINE e == [type |-> "data", k |-> job[r].k + 1]
  <2>0. At(r, "stream") /\ job[r].pc = "stream" /\ job[r].k + 1 \in 0..Data /\ job[r].k + 1 \in 1..Data
    BY <1>1, <1>5 DEF Speaks, At
  <2>1. e \in Events /\ e.type = "data" /\ Sends(r, <<e>>, "stream", job[r].k + 1)
    BY <1>5, <2>0, EventsType DEF Speaks
  <2> HIDE DEF e
  <2>2. Fits(r, <<e>>, "stream", job[r].k + 1) /\ <<e>> \in Seq(Events)
    BY <1>1, <1>e, <2>0, <2>1, OneFits
  <2> QED
    BY <2>0, <2>1, <2>2
<1>6. CASE Enters(r)
  <2>0. At(r, "ask") /\ job[r].pc = "ask"
    BY <1>6 DEF Enters, At
  <2>1. /\ job[r].wire \o <<Sees("message_id")>> \in Seq(Events)
        /\ Shape("stream", job[r].k, job[r].wire \o <<Sees("message_id")>>)
    BY <1>1, <1>t, <1>s, <1>e, <2>0, ShapeJoin, JoinTwo
  <2>2. ASSUME NEW u \in EventTypes, u \in {"chunk_result", "error"}, NEW pc \in {"stream", "over"},
               Sends(r, Told2("message_id", u), pc, job[r].k),
               u = "error" <=> pc = "over", pc = "stream" => Writes(r, <<Ask(r)>>)
        PROVE  Fits(r, Told2("message_id", u), pc, job[r].k) /\ Told2("message_id", u) \in Seq(Events)
    <3>1. /\ Told2("message_id", u) \in Seq(Events) /\ Len(Told2("message_id", u)) = 2
          /\ Told2("message_id", u)[1].type = "message_id" /\ Told2("message_id", u)[2].type = u
      BY <1>t, <2>2, ToldType
    <3>2. Sees(u) \in Events /\ Sees(u).type = u /\ (u \in Ends <=> pc = "over")
      BY <1>s, <1>e, <2>2
    <3>3. Shape(pc, job[r].k, (job[r].wire \o <<Sees("message_id")>>) \o <<Sees(u)>>)
      <4>1. Sees(u).type \in {"message_id", "chunk_result", "data", "error", "done"}
            /\ Sees(u).type # "message_id" /\ Sees(u).type # "done"
            /\ (Sees(u).type \in Ends <=> pc = "over")
        BY <2>2, <3>2
      <4> DEFINE w == job[r].wire \o <<Sees("message_id")>>
                 e == Sees(u)
      <4>2. /\ w \in Seq(Events) /\ Shape("stream", job[r].k, w) /\ e \in Events
            /\ e.type \in {"message_id", "chunk_result", "data", "error", "done"}
            /\ e.type # "message_id" /\ e.type # "done" /\ (e.type \in Ends <=> pc = "over")
        BY <2>1, <3>2, <4>1
      <4>3. "stream" \in {"ask", "stream"} /\ pc \in {"stream", "over"}
        BY <2>2
      <4> HIDE DEF w, e
      <4>4. Shape(pc, job[r].k, w \o <<e>>)
        BY <4>2, <4>3, ShapeJoin
      <4> QED
        BY <4>4 DEF w, e
    <3>4. Shape(pc, job[r].k, job[r].wire \o Told2("message_id", u))
      BY <1>1, <1>t, <2>2, <3>3, JoinTwo
    <3>5. ~Holds(Told2("message_id", u), "done") /\ Told2("message_id", u) # <<>>
      <4>1. \A n \in 1..2 : n = 1 \/ n = 2
        OBVIOUS
      <4>2. u # "done"
        BY <2>2
      <4> QED
        BY <3>1, <4>1, <4>2 DEF Holds
    <3> QED
      BY <2>0, <2>2, <3>1, <3>4, <3>5, ShapeNone DEF Fits
  <2>3. CASE Sends(r, Told2("message_id", "chunk_result"), "stream", job[r].k) /\ Writes(r, <<Ask(r)>>)
    BY <1>1, <1>t, <2>2, <2>3
  <2>4. CASE Sends(r, Told2("message_id", "error"), "over", job[r].k)
    BY <1>1, <1>t, <2>2, <2>4
  <2> QED
    BY <1>6, <2>3, <2>4 DEF Enters
<1> QED
  BY <1>2, <1>3, <1>4, <1>5, <1>6 DEF Served

\* The row of the answer follows the row of the question.
LEMMA ReplySaves ==
  ASSUME Types, Types', NEW r \in Asks, Asking(r), Writes(r, <<Reply(r)>>)  PROVE Saved(r)'
<1> DEFINE c == ConversationOf(r)
<1>1. /\ c \in Asks /\ log[c] \in Seq(LogRows) /\ log'[c] \in Seq(LogRows)
      /\ Reply(r) \in LogRows /\ log'[c] = Append(log[c], Reply(r))
  <2>1. c \in Asks /\ log \in [Asks -> Seq(LogRows)] /\ log' \in [Asks -> Seq(LogRows)]
    BY ConversationType, Facts DEF Types, ServerType
  <2>2. Reply(r) \in LogRows
    BY DEF Reply, LogRows
  <2>3. log'[c] = log[c] \o <<Reply(r)>>
    BY <2>1 DEF Writes
  <2> QED
    BY <2>1, <2>2, <2>3, AppendIsConcat
<1>2. /\ Len(log[c]) \in Nat /\ Len(log'[c]) = Len(log[c]) + 1
      /\ \A n \in 1..Len(log[c]) : log'[c][n] = log[c][n]
      /\ log'[c][Len(log[c]) + 1] = <<"assistant", r>>
      /\ DOMAIN log'[c] = 1..Len(log'[c])
  BY <1>1, AppendEach, LenProperties DEF Reply
<1>3. PICK m \in 1..Len(log[c]) : log[c][m] = <<"user", r>>
  BY DEF Asking
<1> HIDE DEF c
<1>4. /\ m \in DOMAIN log'[c] /\ Len(log[c]) + 1 \in DOMAIN log'[c] /\ m < Len(log[c]) + 1
      /\ log'[c][m] = <<"user", r>>
  BY <1>2, <1>3
<1> QED
  BY <1>1, <1>2, <1>4 DEF Saved

LEMMA AskSaves ==
  ASSUME Types, Types', NEW r \in Asks, Writes(r, <<Ask(r)>>), UNCHANGED ask  PROVE Asking(r)'
<1> DEFINE c == ConversationOf(r)
<1>1. /\ c \in Asks /\ log[c] \in Seq(LogRows)
      /\ Ask(r) \in LogRows /\ log'[c] = Append(log[c], Ask(r))
  <2>1. c \in Asks /\ log \in [Asks -> Seq(LogRows)] /\ log' \in [Asks -> Seq(LogRows)]
    BY ConversationType, Facts DEF Types, ServerType
  <2>2. Ask(r) \in LogRows
    BY DEF Ask, LogRows
  <2>3. log'[c] = log[c] \o <<Ask(r)>>
    BY <2>1 DEF Writes
  <2> QED
    BY <2>1, <2>2, <2>3, AppendIsConcat
<1>2. /\ Len(log[c]) + 1 \in 1..Len(log'[c])
      /\ log'[c][Len(log[c]) + 1] = <<"user", r>>
  BY <1>1, AppendEach DEF Ask
<1>3. ConversationOf(r)' = c
  BY DEF ConversationOf
<1> HIDE DEF c
<1> QED
  BY <1>2, <1>3 DEF Asking

LEMMA ServedWire ==
  ASSUME WireInv, Types', NEW r \in Asks, Served(r), AddsRow(r), UNCHANGED client
  PROVE  ServerKnows'
<1>0. /\ Types /\ ServerKnows /\ UNCHANGED <<ask, sub, buffer>>
      /\ job[r].wire \in Seq(Events) /\ job[r].open \in BOOLEAN
      /\ Shape(job[r].pc, job[r].k, job[r].wire)
      /\ job[r].pc \in {"received", "ask", "stream"}
  BY Facts DEF WireInv, ServerKnows, client, Jobs, Served, Opens, Fails, Enters, Speaks, Closes, At
<1>1. PICK es \in Seq(Events), pc \in {"ask", "stream", "over"}, k \in 0..Data :
        Sends(r, es, pc, k) /\ Fits(r, es, pc, k)
  BY <1>0, ServedFits
<1>2. /\ job'[r].pc = pc /\ job'[r].k = k /\ job'[r].open = job[r].open
      /\ job[r].open => job'[r].wire = job[r].wire \o es
      /\ ~job[r].open => job'[r].wire = <<>> /\ job[r].wire = <<>>
      /\ \A s \in Asks : s # r => job'[s] = job[s]
  BY <1>0, <1>1 DEF Sends, ServerKnows, Connected
<1>3. \A s \in Asks : ConversationOf(s)' = ConversationOf(s) /\ ConversationOf(s) \in Asks
  BY <1>0, ConversationType DEF ConversationOf
<1>4. \A c \in Asks : Grows(log[c], log'[c])
  BY <1>0, LogGrows
<1>5. \A s \in Asks : (Saved(s) => Saved(s)') /\ (Asking(s) => Asking(s)')
  BY <1>0, <1>3, <1>4, SavedStays, AskingStays
<1>6. Connected'
  BY <1>0, <1>2 DEF ServerKnows, Connected
<1>7. BufferFresh'
  <2>1. SUFFICES ASSUME sub # 0, buffer
                 PROVE  /\ job'[sub].pc \in {"stream", "over"} => job'[sub].wire # <<>>
                        /\ job'[sub].wire # <<>> => job'[sub].wire[1].type \in {"conversation_id", "message_id", "error"}
    BY <1>0 DEF BufferFresh
  <2>2. /\ job[sub].pc \in {"stream", "over"} => job[sub].wire # <<>>
        /\ job[sub].wire # <<>> => job[sub].wire[1].type \in {"conversation_id", "message_id", "error"}
        /\ sub \in Asks
    BY <1>0, <2>1, Facts DEF ServerKnows, BufferFresh, Items, History
  <2>3. CASE sub # r
    BY <1>2, <2>2, <2>3
  <2>4. CASE sub = r
    <3>1. job'[r].wire = job[r].wire \o es
      BY <1>0, <1>2, <2>4 DEF ServerKnows, Connected
    <3>2. CASE job[r].wire # <<>>
      <4>1. job'[r].wire # <<>> /\ job'[r].wire[1] = job[r].wire[1]
        BY <1>0, <3>1, <3>2, JoinFirst
      <4> QED
        BY <2>2, <2>4, <3>2, <4>1
    <3>3. CASE job[r].wire = <<>>
      <4>1. job'[r].wire = es
        BY <1>0, <3>1, <3>3, JoinFirst
      <4>2. job[r].pc \in {"received", "ask"}
        BY <1>0, <2>2, <2>4, <3>3
      <4>3. /\ es = <<>> => pc = "ask"
            /\ es # <<>> => es[1].type \in {"conversation_id", "message_id", "error"}
        BY <1>1, <4>2 DEF Fits, At
      <4> QED
        BY <1>2, <2>4, <4>1, <4>3
    <3> QED
      BY <3>2, <3>3
  <2> QED
    BY <2>3, <2>4
<1>8. RowsKnown'
  <2>1. ASSUME NEW s \in Asks, Holds(job[s].wire, "done")'  PROVE Saved(s)'
    <3>1. CASE Holds(job[s].wire, "done")
      BY <1>0, <1>5, <3>1 DEF ServerKnows, RowsKnown
    <3>2. CASE ~Holds(job[s].wire, "done")
      <4>1. s = r /\ job[r].open /\ Holds(job[r].wire \o es, "done")
        BY <1>2, <2>1, <3>2 DEF Holds
      <4>2. Holds(es, "done")
        BY <1>0, <3>2, <4>1, HoldsJoin
      <4>3. At(r, "stream") /\ Writes(r, <<Reply(r)>>)
        BY <1>1, <4>2 DEF Fits
      <4>4. Asking(r)
        BY <1>0, <4>3 DEF ServerKnows, RowsKnown
      <4> QED
        BY <1>0, <4>1, <4>3, <4>4, ReplySaves
    <3> QED
      BY <3>1, <3>2
  <2>2. ASSUME NEW s \in Asks, At(s, "stream")'  PROVE Asking(s)'
    <3>1. CASE At(s, "stream")
      BY <1>0, <1>5, <3>1 DEF ServerKnows, RowsKnown
    <3>2. CASE ~At(s, "stream")
      <4>1. s = r /\ pc = "stream"
        BY <1>2, <2>2, <3>2 DEF At
      <4>2. Writes(r, <<Ask(r)>>)
        BY <1>1, <3>2, <4>1 DEF Fits
      <4> QED
        BY <1>0, <4>1, <4>2, AskSaves
    <3> QED
      BY <3>1, <3>2
  <2> QED
    BY <2>1, <2>2 DEF RowsKnown
<1>9. ASSUME NEW s \in Asks  PROVE Shape(job'[s].pc, job'[s].k, job'[s].wire)
  <2>1. CASE s = r
    BY <1>0, <1>1, <1>2, <2>1 DEF Fits
  <2>2. CASE s # r
    <3>1. Shape(job[s].pc, job[s].k, job[s].wire) /\ job'[s] = job[s]
      BY <1>0, <1>2, <2>2 DEF ServerKnows
    <3> QED
      BY <3>1
  <2> QED
    BY <2>1, <2>2
<1>10. \A s \in Asks : Shape(job[s].pc, job[s].k, job[s].wire)'
  BY <1>9 DEF Shape, Body
<1> QED
  BY <1>6, <1>7, <1>8, <1>10 DEF ServerKnows

LEMMA FiledWire ==
  ASSUME WireInv, Types', NEW r \in Asks, Filed(r), AddsRow(r)  PROVE ServerKnows'
<1>0. Types /\ ServerKnows /\ UNCHANGED <<ask, sub, buffer, job>>
  BY DEF WireInv, Filed, client
<1>1. \A s \in Asks : ConversationOf(s)' = ConversationOf(s) /\ ConversationOf(s) \in Asks
  BY <1>0, ConversationType DEF ConversationOf
<1>2. \A c \in Asks : Grows(log[c], log'[c])
  BY <1>0, LogGrows
<1>3. \A s \in Asks : (Saved(s) => Saved(s)') /\ (Asking(s) => Asking(s)')
  BY <1>0, <1>1, <1>2, SavedStays, AskingStays
<1>4. RowsKnown'
  BY <1>0, <1>3 DEF ServerKnows, RowsKnown, At, Holds
<1>5. Connected' /\ BufferFresh' /\ \A s \in Asks : Shape(job[s].pc, job[s].k, job[s].wire)'
  BY <1>0 DEF ServerKnows, Connected, BufferFresh
<1> QED
  BY <1>4, <1>5 DEF ServerKnows

LEMMA WireInit == Init => WireInv
<1> SUFFICES ASSUME Init  PROVE WireInv
  OBVIOUS
<1>1. Types
  BY TypesInit
<1>2. /\ \A r \in Asks : /\ ask[r].phase = "unused" /\ job[r].pc = "idle" /\ job[r].k = 0
                         /\ ~job[r].open /\ job[r].wire = <<>>
      /\ sub = 0 /\ 0 \notin Asks
  BY DEF Init, Asks
<1>3. Connected /\ BufferFresh
  BY <1>2 DEF Connected, BufferFresh
<1>4. RowsKnown
  BY <1>2 DEF RowsKnown, At, Holds
<1>5. Shape("idle", 0, <<>>)
  BY DEF Shape
<1> QED
  BY <1>1, <1>2, <1>3, <1>4, <1>5 DEF WireInv, ServerKnows

LEMMA WireStep ==
  ASSUME WireInv, [Next]_vars  PROVE WireInv'
<1>1. Types
  BY DEF WireInv
<1>2. CASE Next
  <2>1. Types'
    BY <1>1, <1>2, TypesStep
  <2>2. CASE Quiet
    BY <2>1, <2>2, QuietWire DEF WireInv
  <2>3. CASE Hangs
    BY <2>1, <2>3, HangsWire DEF WireInv
  <2>4. CASE ProcessChunk
    BY <2>1, <2>4, ChunkWire DEF WireInv
  <2>5. ASSUME NEW r \in Asks, Subscribe(r)  PROVE WireInv'
    BY <2>1, <2>5, SubscribeWire DEF WireInv
  <2>6. ASSUME NEW r \in Asks, Serve(r)  PROVE WireInv'
    BY <1>1, <2>1, <2>6, ServedWire, ServeMoves DEF WireInv
  <2>7. ASSUME NEW r \in Asks, SaveFixed(r)  PROVE WireInv'
    BY <1>1, <2>1, <2>7, FiledWire, FiledMoves DEF WireInv
  <2> QED
    BY <1>1, <1>2, <2>2, <2>3, <2>4, <2>5, <2>6, <2>7, Steps
<1>3. CASE UNCHANGED vars
  <2>1. Types'
    BY <1>1, <1>3, TypesStutter
  <2>2. Quiet
    BY <1>3 DEF vars, client, server, Quiet, AskKept, Used
  <2> QED
    BY <2>1, <2>2, QuietWire DEF WireInv
<1> QED
  BY <1>2, <1>3

-----------------------------------------------------------------------------
(* The rows of a conversation.                                             *)

LEMMA PairsAppend ==
  ASSUME NEW l \in Seq(LogRows), PairsTrue(l), NEW x \in LogRows,
         x[1] = "user" \/ EndsWith(l, <<"user", x[2]>>)
  PROVE  PairsTrue(l \o <<x>>) /\ EndsWith(l \o <<x>>, x) /\ l \o <<x>> \in Seq(LogRows)
<1> DEFINE m == l \o <<x>>
<1>1. /\ m \in Seq(LogRows) /\ Len(l) \in Nat /\ Len(m) = Len(l) + 1 /\ m # <<>>
      /\ \A n \in 1..Len(l) : m[n] = l[n]
      /\ m[Len(l) + 1] = x
  <2>1. m = Append(l, x)
    BY AppendIsConcat
  <2> QED
    BY <2>1, AppendEach
<1> HIDE DEF m
<1>2. ASSUME NEW n \in 1..(Len(m) - 1), m[n][1] = "user", m[n + 1][1] = "assistant"
      PROVE  m[n][2] = m[n + 1][2]
  <2>1. n \in 1..Len(l) /\ m[n] = l[n]
    BY <1>1
  <2>2. CASE n = Len(l)
    <3>1. m[n + 1] = x /\ l # <<>>
      BY <1>1, <2>2, <2>1, SeqEach
    <3>2. EndsWith(l, <<"user", x[2]>>)
      BY <1>2, <3>1
    <3>3. l[n] = <<"user", x[2]>>
      BY <2>2, <3>2 DEF EndsWith
    <3> QED
      BY <2>1, <3>1, <3>3
  <2>3. CASE n # Len(l)
    <3>1. n \in 1..(Len(l) - 1) /\ n + 1 \in 1..Len(l)
      BY <1>1, <2>1, <2>3
    <3>2. m[n + 1] = l[n + 1]
      BY <1>1, <3>1
    <3> QED
      BY <1>2, <2>1, <3>1, <3>2 DEF PairsTrue
  <2> QED
    BY <2>2, <2>3
<1>3. PairsTrue(m)
  BY <1>2 DEF PairsTrue
<1>4. EndsWith(m, x)
  BY <1>1 DEF EndsWith
<1> QED
  BY <1>1, <1>3, <1>4 DEF m

LEMMA RowsKept ==
  ASSUME WireInv, RowsTrue, UNCHANGED log, AskKept \/ UNCHANGED ask \/ \E q \in Asks : Subscribe(q),
         UNCHANGED blocked, \A r \in Asks : At(r, "over") => At(r, "over")',
         \A r \in Asks : Awaits(r)' /\ job'[r].open => Awaits(r) /\ job[r].open
  PROVE  RowsTrue'
<1>1. \A r \in Asks : Awaits(r) => ConversationOf(r)' = ConversationOf(r)
  <2> SUFFICES ASSUME NEW r \in Asks, Awaits(r)  PROVE ConversationOf(r)' = ConversationOf(r)
    OBVIOUS
  <2>1. Used(r) /\ (AskKept => ConversationOf(r)' = ConversationOf(r))
    BY SentUsed DEF WireInv, ServerKnows, RowsTrue, Awaits, At
  <2>2. UNCHANGED ask => ConversationOf(r)' = ConversationOf(r)
    BY DEF ConversationOf
  <2>3. ASSUME NEW q \in Asks, Subscribe(q)  PROVE ConversationOf(r)' = ConversationOf(r)
    BY <2>1, <2>3, SubscribeJob DEF ConversationOf
  <2> QED
    BY <2>1, <2>2, <2>3
<1>2. \A c \in Asks : PairsTrue(log[c])'
  BY DEF RowsTrue, PairsTrue
<1>3. ASSUME NEW r \in Asks, Awaits(r)', job'[r].open
      PROVE  EndsWith(log[ConversationOf(r)], <<"user", r>>)'
  <2>1. EndsWith(log[ConversationOf(r)], <<"user", r>>) /\ ConversationOf(r)' = ConversationOf(r)
    BY <1>1, <1>3 DEF RowsTrue
  <2> QED
    BY <2>1 DEF EndsWith
<1>4. \A r \in blocked' : At(r, "over")'
  BY DEF RowsTrue, WireInv, Types, ServerType
<1> QED
  BY <1>2, <1>3, <1>4 DEF RowsTrue

LEMMA RowsServed ==
  ASSUME WireInv, RowsTrue, NEW r \in Asks, Served(r), Refuses(r), AddsRow(r), UNCHANGED client,
         "late" \notin blame'
  PROVE  RowsTrue'
<1> DEFINE c == ConversationOf(r)
<1>0. /\ Types /\ Connected /\ UNCHANGED ask /\ c \in Asks
      /\ log \in [Asks -> Seq(LogRows)] /\ log[c] \in Seq(LogRows)
      /\ Ask(r) \in LogRows /\ Reply(r) \in LogRows
      /\ Ask(r)[1] = "user" /\ Ask(r)[2] = r /\ Reply(r)[2] = r /\ Ask(r) = <<"user", r>>
  BY ConversationType, Facts DEF WireInv, ServerKnows, client, Ask, Reply, LogRows
<1>1. \A s \in Asks : ConversationOf(s)' = ConversationOf(s)
  BY <1>0 DEF ConversationOf
<1>2. UNCHANGED log \/ job[r].open
  BY DEF Served, Opens, Fails, Enters, Speaks, Closes, Late
<1>3. \A s \in Asks : s # r => job'[s] = job[s]
  BY DEF Served, Opens, Fails, Enters, Speaks, Closes, Sends
<1>4. job'[r].open = job[r].open
  BY DEF Served, Opens, Fails, Enters, Speaks, Closes, Sends
<1>5. \/ UNCHANGED log
      \/ Writes(r, <<Ask(r)>>)
      \/ Writes(r, <<Reply(r)>>) /\ At(r, "stream") /\ job'[r].pc = "over"
  BY DEF Served, Opens, Fails, Enters, Speaks, Closes, Sends
<1>6. job'[r].pc = "stream" => \/ UNCHANGED log /\ At(r, "stream")
                               \/ Writes(r, <<Ask(r)>>)
  BY DEF Served, Opens, Fails, Enters, Speaks, Closes, Sends
<1>7. PairsTrue(log[c]) /\ (At(r, "stream") /\ job[r].open => EndsWith(log[c], <<"user", r>>))
  BY <1>0 DEF RowsTrue, Awaits
<1>b. r \notin blocked
  BY DEF RowsTrue, Served, Opens, Fails, Enters, Speaks, Closes, At
<1> HIDE DEF c
<1>8. \A rows : Writes(r, rows) => log'[c] = log[c] \o rows /\ \A d \in Asks : d # c => log'[d] = log[d]
  BY <1>0 DEF Writes, c
<1>9. Writes(r, <<Ask(r)>>) => PairsTrue(log'[c]) /\ EndsWith(log'[c], <<"user", r>>)
  BY <1>0, <1>7, <1>8, PairsAppend
<1>10. ASSUME Writes(r, <<Reply(r)>>), At(r, "stream")  PROVE PairsTrue(log'[c])
  <2>1. log' # log
    <3>1. log'[c] = Append(log[c], Reply(r))
      BY <1>0, <1>8, <1>10, AppendIsConcat
    <3> QED
      BY <1>0, <3>1, AppendEach
  <2>2. EndsWith(log[c], <<"user", Reply(r)[2]>>)
    BY <1>0, <1>2, <1>7, <1>10, <2>1
  <2> QED
    BY <1>0, <1>7, <1>8, <1>10, <2>2, PairsAppend
<1>12. ASSUME NEW d \in Asks  PROVE PairsTrue(log'[d])
  <2>1. CASE d = c
    BY <1>5, <1>7, <1>9, <1>10, <2>1
  <2>2. CASE d # c
    <3>1. log'[d] = log[d]
      BY <1>5, <1>8, <2>2
    <3> QED
      BY <3>1 DEF RowsTrue
  <2> QED
    BY <2>1, <2>2
<1>13. ASSUME NEW s \in Asks, Awaits(s)', job'[s].open
       PROVE  EndsWith(log'[ConversationOf(s)], <<"user", s>>)
  <2>1. CASE s = r
    <3>1. CASE UNCHANGED log /\ At(r, "stream")
      BY <1>4, <1>7, <1>13, <2>1, <3>1 DEF c
    <3>2. CASE Writes(r, <<Ask(r)>>)
      BY <1>9, <2>1, <3>2 DEF c
    <3>3. r \in blocked' => Writes(r, <<Ask(r)>>)
      BY <1>b DEF Refuses
    <3> QED
      BY <1>6, <1>13, <2>1, <3>1, <3>2, <3>3 DEF Awaits, At
  <2>2. CASE s # r
    <3>1. Awaits(s) /\ job[s].open
      BY <1>3, <1>13, <2>2 DEF Awaits, At, Refuses
    <3>2. ~job[r].open
      BY <1>0, <2>2, <3>1 DEF Connected
    <3>3. UNCHANGED log
      BY <1>2, <3>2
    <3> QED
      BY <3>1, <3>3 DEF RowsTrue
  <2> QED
    BY <2>1, <2>2
<1>14. \A d \in Asks : PairsTrue(log[d])'
  BY <1>12 DEF PairsTrue
<1>15. ASSUME NEW s \in Asks, Awaits(s)', job'[s].open
       PROVE  EndsWith(log[ConversationOf(s)], <<"user", s>>)'
  <2>1. EndsWith(log'[ConversationOf(s)], <<"user", s>>)
    BY <1>13, <1>15
  <2> QED
    BY <1>1, <2>1 DEF EndsWith
<1>16. ASSUME NEW s \in blocked'  PROVE At(s, "over")'
  <2>1. CASE s \in blocked
    <3>1. s # r /\ s \in Asks /\ At(s, "over")
      BY <1>0, <1>b, <2>1 DEF RowsTrue, Types, ServerType
    <3> QED
      BY <1>3, <3>1 DEF At
  <2>2. CASE s \notin blocked
    BY <1>16, <2>2 DEF Refuses, At
  <2> QED
    BY <2>1, <2>2
<1> QED
  BY <1>14, <1>15, <1>16 DEF RowsTrue

LEMMA RowsFiled ==
  ASSUME WireInv, RowsTrue, NEW r \in Asks, Filed(r), "behind" \notin blame'
  PROVE  RowsTrue'
<1> DEFINE c == ConversationOf(r)
<1>0. /\ Types /\ Connected /\ UNCHANGED <<ask, job>> /\ c \in Asks /\ r \in blocked
      /\ blocked' = blocked \ {r}
      /\ log \in [Asks -> Seq(LogRows)] /\ log[c] \in Seq(LogRows)
      /\ Reply(r) \in LogRows /\ Reply(r)[2] = r
  BY ConversationType, Facts DEF WireInv, ServerKnows, Filed, client, Reply, LogRows
<1>1. \A s \in Asks : ConversationOf(s)' = ConversationOf(s)
  BY <1>0 DEF ConversationOf
<1>2. \A s \in Asks : Awaits(s)' => Awaits(s) /\ s # r
  BY <1>0 DEF Awaits, At, RowsTrue
<1>3. \A s \in blocked' : At(s, "over")'
  BY <1>0 DEF At, RowsTrue
<1>4. CASE UNCHANGED log
  <2>1. \A d \in Asks : PairsTrue(log[d])'
    BY <1>4 DEF RowsTrue, PairsTrue
  <2>2. \A s \in Asks : Awaits(s)' /\ job'[s].open => EndsWith(log[ConversationOf(s)], <<"user", s>>)'
    BY <1>0, <1>1, <1>2, <1>4 DEF RowsTrue, EndsWith
  <2> QED
    BY <1>3, <2>1, <2>2 DEF RowsTrue
<1>5. CASE Writes(r, <<Reply(r)>>) /\ job[r].open
  <2>1. PairsTrue(log[c]) /\ EndsWith(log[c], <<"user", Reply(r)[2]>>)
    BY <1>0, <1>5 DEF RowsTrue, Awaits
  <2>2. log'[c] = log[c] \o <<Reply(r)>> /\ \A d \in Asks : d # c => log'[d] = log[d]
    BY <1>0, <1>5 DEF Writes
  <2> HIDE DEF c
  <2>3. PairsTrue(log'[c])
    BY <1>0, <2>1, <2>2, PairsAppend
  <2>4. ASSUME NEW d \in Asks  PROVE PairsTrue(log'[d])
    <3>1. d # c => PairsTrue(log'[d])
      BY <2>2 DEF RowsTrue
    <3> QED
      BY <2>3, <3>1
  <2>5. \A d \in Asks : PairsTrue(log[d])'
    BY <2>4 DEF PairsTrue
  <2>6. \A s \in Asks : s # r => ~job'[s].open
    BY <1>0, <1>5 DEF Connected
  <2> QED
    BY <1>2, <1>3, <2>5, <2>6 DEF RowsTrue
<1> QED
  BY <1>4, <1>5 DEF Filed

LEMMA RowsStep ==
  ASSUME RowsInv, [Next]_vars  PROVE RowsInv'
<1>1. WireInv /\ WireInv' /\ Types
  BY WireStep DEF RowsInv, WireInv
<1>2. blame' \cap {"late", "behind"} = {} => blame \cap {"late", "behind"} = {}
  BY <1>1, CountsKept DEF vars
<1> SUFFICES ASSUME blame' \cap {"late", "behind"} = {}  PROVE RowsTrue'
  BY <1>1 DEF RowsInv
<1>3. RowsTrue
  BY <1>2 DEF RowsInv
<1>4. ASSUME Quiet  PROVE RowsTrue'
  BY <1>1, <1>3, <1>4, RowsKept DEF Quiet, Awaits, At
<1>5. CASE Hangs
  <2>1. \A r \in Asks : /\ job'[r].pc = job[r].pc
                        /\ r = sub => job'[r].open = FALSE
                        /\ r # sub => job'[r] = job[r]
    BY <1>1, <1>5, HangsJob DEF Hangs
  <2> QED
    BY <1>1, <1>3, <1>5, <2>1, RowsKept DEF Hangs, Awaits, At
<1>6. CASE ProcessChunk
  <2>1. /\ UNCHANGED <<ask, log>> /\ job'[sub].pc = job[sub].pc /\ job[sub].open
        /\ \A s \in Asks : s # sub => job'[s] = job[s]
    BY <1>1, <1>6, ChunkJob
  <2>2. UNCHANGED blocked
    BY <1>6 DEF ProcessChunk
  <2> QED
    BY <1>1, <1>3, <2>1, <2>2, RowsKept DEF Awaits, At
<1>7. ASSUME NEW r \in Asks, Subscribe(r)  PROVE RowsTrue'
  <2>1. /\ UNCHANGED log /\ job'[r].pc = "received"
        /\ \A s \in Asks : s # r => /\ job'[s].pc = job[s].pc
                                    /\ s = sub => job'[s].open = FALSE
                                    /\ s # sub => job'[s] = job[s]
    BY <1>1, <1>7, SubscribeJob
  <2>2. UNCHANGED blocked /\ r \notin blocked /\ ~At(r, "over")
    BY <1>1, <1>3, <1>7 DEF Subscribe, RowsTrue, WireInv, ServerKnows, Connected, At
  <2> QED
    BY <1>1, <1>3, <1>7, <2>1, <2>2, RowsKept DEF Awaits, At
<1>8. ASSUME NEW r \in Asks, Serve(r)  PROVE RowsTrue'
  BY <1>1, <1>3, <1>8, ServeMoves, RowsServed
<1>10. ASSUME NEW r \in Asks, SaveFixed(r)  PROVE RowsTrue'
  BY <1>1, <1>3, <1>10, FiledMoves, RowsFiled
<1>9. UNCHANGED vars => Quiet
  BY DEF vars, client, server, Quiet, AskKept, Used
<1> QED
  BY <1>1, <1>4, <1>5, <1>6, <1>7, <1>8, <1>9, <1>10, Steps

\* A reload pairs each question with its own answer, unless a goroutine saved
\* a row after its request had ended, an answer's or the fixed one of a blocked
\* question: only the request that is open writes, and the row of its answer
\* lands right behind the row of its question.
THEOREM HistoryIsTrue == Spec => []HistoryPairsTrue
<1>1. Init => RowsInv
  <2>1. Init => blocked = {} /\ \A r \in Asks : job[r].pc = "idle" /\ log[r] = <<>>
    BY DEF Init
  <2>2. PairsTrue(<<>>)
    BY DEF PairsTrue
  <2> QED
    BY <2>1, <2>2, WireInit DEF RowsInv, RowsTrue, Awaits, At
<1>2. RowsInv /\ [Next]_vars => RowsInv'
  BY RowsStep
<1>3. RowsInv => HistoryPairsTrue
  BY DEF RowsInv, RowsTrue, PairsTrue, HistoryPairsTrue, HistoryPairs
<1> QED
  BY <1>1, <1>2, <1>3, PTL DEF Spec

-----------------------------------------------------------------------------
(* One question at a time.                                                 *)

\* A question is asked while none is under way, or nothing new is under way.
AskedAlone(r) == Asked1(r) /\ InFlight' = {r} /\ Pending = {}
NothingNew    == InFlight' \subseteq InFlight /\ \A s \in Asks : Used(s)' <=> Used(s)

LEMMA AskedFlight ==
  ASSUME Types, NEW r, Asked1(r), Pending = {}, sub' = 0  PROVE AskedAlone(r)
<1>1. /\ r \in Asks /\ ask'[r].phase = "timer" /\ \A s \in Asks : s # r => ask'[s] = ask[s]
  BY AskMoves DEF Asked1
<1>2. Pending' = {r}
  BY <1>1 DEF Pending
<1> QED
  BY <1>2 DEF AskedAlone, InFlight

LEMMA Flight ==
  ASSUME Types, Next, "overlap" \notin blame'
  PROVE  NothingNew \/ \E r \in Asks : AskedAlone(r)
<1>f. sub \in Items /\ InFlight \subseteq Asks
  BY Facts DEF InFlight, Pending, Items, History
<1>u. UNCHANGED ask /\ sub' \in {0, sub} => NothingNew
  BY DEF NothingNew, InFlight, Pending, Used
<1>b. Blame(InFlight # {}, "overlap") => InFlight = {} /\ Pending = {} /\ sub = 0
  BY DEF Blame, InFlight
<1>s. \A mid : Unsubscribe(mid) => sub' = 0
  BY DEF Unsubscribe
<1>1. CASE Abort \/ Timeout \/ StreamEnds \/ Disconnect \/ ProcessChunk
  BY <1>1, <1>u, <1>s DEF Abort, Timeout, StreamEnds, Disconnect, ProcessChunk
<1>2. ASSUME NEW r \in Asks, NEW b, Enter(r, b)  PROVE AskedAlone(r)
  <2>1. Asked1(r) /\ sub' = sub /\ Blame(InFlight # {}, "overlap")
    BY <1>2 DEF Enter, Search, Asked1
  <2> QED
    BY <1>b, <2>1, AskedFlight
<1>3. ASSUME NEW r \in Asks, Send(r)  PROVE AskedAlone(r)
  <2>1. Asked1(r) /\ blame' = blame \cup (IF Pending # {} THEN {"overlap"} ELSE {})
                      \cup (IF sub # 0 THEN {"cut"} ELSE {})
    BY <1>3 DEF Send, Search, Asked1
  <2>2. Pending = {}
    BY <2>1
  <2>3. sub' = 0
    BY <1>3, <1>s DEF Send
  <2> QED
    BY <2>1, <2>2, <2>3, AskedFlight
<1>4. CASE Reset
  BY <1>4, <1>u DEF Reset
<1>5. ASSUME NEW r \in Asks, NEW b, WidgetReset(r, b)  PROVE NothingNew \/ AskedAlone(r)
  <2>1. \/ UNCHANGED ask
        \/ Asked1(r) /\ Blame(InFlight # {}, "overlap")
    BY <1>5 DEF WidgetReset, Asked1
  <2>2. sub' \in {0, sub}
    BY <1>5 DEF WidgetReset
  <2>3. CASE UNCHANGED ask
    BY <1>u, <2>2, <2>3
  <2>4. CASE Asked1(r) /\ Blame(InFlight # {}, "overlap")
    BY <1>b, <2>2, <2>4, AskedFlight
  <2> QED
    BY <2>1, <2>3, <2>4
<1>6. ASSUME NEW r \in Asks, Start(r) \/ AnswerFails(r)  PROVE NothingNew
  <2>1. PICK phase \in {"captcha", "over"} : ask' = [ask EXCEPT ![r].phase = phase]
    BY <1>6 DEF Start, AnswerFails
  <2>2. ask[r].phase \in {"timer", "captcha"} /\ sub' = sub
    BY <1>6 DEF Start, AnswerFails
  <2>3. ask[r].phase # "unused" /\ phase \in {"captcha", "sent", "over"}
    BY <2>1, <2>2
  <2>4. (\A s \in Asks : s # r => ask'[s] = ask[s]) /\ \A s \in Asks : Used(s)' <=> Used(s)
    BY <2>1, <2>3, PhaseMoves
  <2> QED
    BY <2>2, <2>4 DEF NothingNew, InFlight, Pending
<1>7. ASSUME NEW r \in Asks, Subscribe(r)  PROVE NothingNew
  <2>1. /\ ask[r].phase = "captcha" /\ ask' = [ask EXCEPT ![r].phase = "sent"] /\ sub' = r
    BY <1>7 DEF Subscribe
  <2>2. ask[r].phase # "unused" /\ "sent" \in {"captcha", "sent", "over"}
    BY <2>1
  <2>3. /\ \A s \in Asks : s # r => ask'[s] = ask[s]
        /\ \A s \in Asks : Used(s)' <=> Used(s)
        /\ ask'[r].phase = "sent"
    BY <2>1, <2>2, PhaseMoves
  <2> QED
    BY <2>1, <2>3 DEF NothingNew, InFlight, Pending
<1>8. ASSUME NEW i \in Asks, Score(i)  PROVE NothingNew
  BY <1>8, <1>u DEF Score
<1>9. CASE ScoreDone
  BY <1>9, <1>u DEF ScoreDone
<1>10. ASSUME NEW r \in Asks, Serve(r)  PROVE NothingNew
  BY <1>10, <1>u, ServeMoves DEF client
<1>11. ASSUME NEW r \in Asks, SaveFixed(r)  PROVE NothingNew
  BY <1>11, <1>u DEF SaveFixed, client
<1> QED
  BY <1>1, <1>2, <1>3, <1>4, <1>5, <1>6, <1>7, <1>8, <1>9, <1>10, <1>11 DEF Next, Reader, Panel, Stream

LEMMA OneStep ==
  ASSUME Types, OneQuestion, [Next]_vars  PROVE OneQuestion'
<1>1. CASE Next
  <2> SUFFICES ASSUME "overlap" \notin blame', NEW r \in InFlight'  PROVE Newest(r)'
    BY DEF OneQuestion
  <2>1. "overlap" \notin blame
    BY <1>1, CountsKept
  <2>2. CASE NothingNew
    <3>1. Newest(r) /\ r \in Asks
      BY <2>1, <2>2, Facts DEF OneQuestion, NothingNew, InFlight, Pending, Items, History
    <3> QED
      BY <2>2, <3>1 DEF NothingNew, Newest
  <2>3. ASSUME NEW s \in Asks, AskedAlone(s)  PROVE Newest(r)'
    <3>1. r = s
      BY <2>3 DEF AskedAlone
    <3>2. Newest(s)'
      BY <2>3, AskMoves DEF AskedAlone
    <3> QED
      BY <3>1, <3>2
  <2> QED
    BY <1>1, <2>2, <2>3, Flight
<1>2. CASE UNCHANGED vars
  BY <1>2 DEF vars, client, OneQuestion, InFlight, Pending, Newest, Used
<1> QED
  BY <1>1, <1>2

LEMMA OneNewest ==
  ASSUME NEW r \in Asks, NEW s \in Asks, Newest(r), Newest(s)  PROVE r = s
<1>1. r \in Nat /\ s \in Nat
  BY DEF Asks
<1> QED
  BY <1>1 DEF Newest

LEMMA OneInFlight ==
  ASSUME Types, OneQuestion, "overlap" \notin blame
  PROVE  InFlight \subseteq Asks /\ \A r \in InFlight : \A s \in InFlight : r = s
<1>1. InFlight \subseteq Asks
  BY Facts DEF InFlight, Pending, Items, History
<1> QED
  BY <1>1, OneNewest DEF OneQuestion

-----------------------------------------------------------------------------
(* The pair the client sends.                                              *)

Calm == blame \cap {"cut", "overlap"} = {}

LEMMA UsableStays ==
  ASSUME NEW c, NEW n, Usable(c, n), convs \subseteq convs', blame \subseteq blame'
  PROVE  Usable(c, n)'
BY DEF Usable

LEMMA PairStays ==
  ASSUME NEW r, PairTold(r), UNCHANGED <<convId, nonce>>,
         ask'[r].conv = ask[r].conv, ask'[r].nonce = ask[r].nonce,
         job'[r].pc = job[r].pc, job'[r].wire = job[r].wire,
         convs \subseteq convs', blame \subseteq blame'
  PROVE  PairTold(r)'
BY DEF PairTold, Opened, Starting, At, Holds

\* Before its goroutine starts, a request knows the pair it was asked with.
LEMMA PairPending ==
  ASSUME WireInv, NEW r \in Asks, PairTold(r), job[r].pc \in {"idle", "received"}
  PROVE  /\ job[r].wire = <<>>
         /\ (convId = <<>> /\ nonce = <<>>) \/ (convId = ask[r].conv /\ nonce = ask[r].nonce)
<1>1. job[r].wire = <<>>
  BY DEF WireInv, ServerKnows, Shape
<1> QED
  BY <1>1 DEF PairTold, Opened, Starting

\* A step that leaves ids and requests as they are.
LEMMA PairQuiet ==
  ASSUME PairKnown, buffer' = buffer, UNCHANGED <<convId, nonce, convs>>, blame \subseteq blame',
         InFlight' = InFlight, InFlight \subseteq Asks,
         \A r \in InFlight : /\ ask'[r].conv = ask[r].conv /\ ask'[r].nonce = ask[r].nonce
                             /\ job'[r].pc = job[r].pc /\ job'[r].wire = job[r].wire
  PROVE  PairKnown'
<1>1. ASSUME NEW r \in InFlight  PROVE Usable(ask[r].conv, ask[r].nonce)' /\ PairTold(r)'
  <2>1. Usable(ask[r].conv, ask[r].nonce) /\ PairTold(r)
    BY DEF PairKnown
  <2>2. PairTold(r)'
    BY <2>1, PairStays
  <2> QED
    BY <2>1, <2>2 DEF Usable
<1> QED
  BY <1>1 DEF PairKnown, Usable

\* A question asked while nothing is under way takes the pair of the panel, or,
\* from the input of a widget that is reset, the pair it had.
LEMMA PairAsked ==
  ASSUME WireInv, PairKnown, NEW r \in Asks, AskedAlone(r), InFlight = {},
         buffer' = buffer, UNCHANGED convs, blame \subseteq blame', job'[r] = job[r],
         \/ UNCHANGED <<convId, nonce>>
         \/ convId' = <<>> /\ nonce' = <<>>
  PROVE  PairKnown'
<1>1. Usable(convId, nonce)
  BY DEF PairKnown
<1>2. ask'[r].conv = convId /\ ask'[r].nonce = nonce /\ ~Used(r)
  BY AskMoves DEF WireInv, AskedAlone
<1>3. job[r].pc = "idle" /\ job[r].wire = <<>>
  <2>1. ask[r].phase # "sent"
    BY <1>2 DEF Used
  <2> QED
    BY <2>1 DEF WireInv, ServerKnows, Connected, Shape
<1>4. PairTold(r)'
  BY <1>2, <1>3 DEF PairTold, Holds
<1>5. Usable(ask[r].conv, ask[r].nonce)'
  BY <1>1, <1>2 DEF Usable
<1>6. InFlight' = {r}
  BY DEF AskedAlone
<1> QED
  BY <1>4, <1>5, <1>6 DEF PairKnown

LEMMA PairServed ==
  ASSUME WireInv, Types', PairKnown, NEW r \in Asks, Served(r), UNCHANGED client, blame \subseteq blame',
         InFlight \subseteq Asks
  PROVE  PairKnown'
<1>0. /\ Types /\ ServerKnows /\ UNCHANGED <<ask, sub, buffer, convId, nonce>>
      /\ job[r].wire \in Seq(Events) /\ <<>> \in Seq(Events) /\ job[r].open \in BOOLEAN
      /\ Shape(job[r].pc, job[r].k, job[r].wire)
  BY Facts, EmptySeq DEF WireInv, ServerKnows, client, Jobs
<1>1. convs \subseteq convs'
  BY DEF Served, Opens, Fails, Enters, Speaks, Closes
<1>2. InFlight' = InFlight
  BY <1>0 DEF InFlight, Pending
<1>3. ASSUME NEW s \in InFlight  PROVE Usable(ask[s].conv, ask[s].nonce)'
  BY <1>0, <1>1, <1>3 DEF PairKnown, Usable
<1>4. InFlight = {} => Usable(convId, nonce)'
  BY <1>0, <1>1 DEF PairKnown, Usable
<1>5. ASSUME NEW s \in InFlight, s # r  PROVE PairTold(s)'
  <2>1. job'[s] = job[s]
    BY <1>5 DEF Served, Opens, Fails, Enters, Speaks, Closes, Sends
  <2>2. PairTold(s)
    BY DEF PairKnown
  <2> QED
    BY <1>0, <1>1, <2>1, <2>2, PairStays
<1>6. ASSUME r \in InFlight  PROVE PairTold(r)'
  <2>0. PairTold(r) /\ Usable(ask[r].conv, ask[r].nonce)
    BY <1>6 DEF PairKnown
  <2>1. job[r].open
    <3>1. job[r].pc # "idle"
      BY DEF Served, Opens, Fails, Enters, Speaks, Closes, At
    <3>2. r \notin Pending
      BY <1>0, <3>1 DEF ServerKnows, Connected, Pending
    <3> QED
      BY <1>0, <1>6, <3>2 DEF InFlight, ServerKnows, Connected
  <2>t. "error" \in EventTypes /\ "done" \in EventTypes /\ "message_id" \in EventTypes
        /\ "chunk_result" \in EventTypes /\ "conversation_id" \in EventTypes /\ "nonce" \in EventTypes
    BY DEF EventTypes
  <2>n. \A n \in 1..2 : n = 1 \/ n = 2
    OBVIOUS
  \* Events that are not of the pair leave what the client has of it alone.
  <2>2. ASSUME NEW es \in Seq(Events), NEW pc, NEW k, Sends(r, es, pc, k),
               ~Holds(es, "conversation_id"), ~Holds(es, "nonce"), Opened(r) => Opened(r)'
        PROVE  PairTold(r)'
    <3>1. job'[r].wire = job[r].wire \o es
      BY <2>1, <2>2 DEF Sends
    <3>2. \A t \in {"conversation_id", "nonce"} : Holds(job'[r].wire, t) <=> Holds(job[r].wire, t)
      BY <1>0, <2>2, <3>1, HoldsJoin
    <3>3. job[r].wire # <<>> => job'[r].wire # <<>> /\ job'[r].wire[1] = job[r].wire[1]
      BY <1>0, <3>1, JoinFirst
    <3>4. \A t : Starting(r, t) => Starting(r, t)'
      BY <3>3 DEF Starting
    <3>5. /\ Holds(job[r].wire, "conversation_id")' <=> Holds(job[r].wire, "conversation_id")
          /\ Holds(job[r].wire, "nonce")' <=> Holds(job[r].wire, "nonce")
      BY <3>2 DEF Holds
    <3> QED
      BY <1>0, <2>0, <2>2, <3>4, <3>5 DEF PairTold
  <2>3. CASE Opens(r)
    <3>1. /\ job[r].wire = <<>> /\ job[r].pc = "received"
          /\ (convId = <<>> /\ nonce = <<>>) \/ (convId = ask[r].conv /\ nonce = ask[r].nonce)
          /\ ~Opened(r)
      BY <2>0, <2>3, PairPending DEF Opens, At, Opened
    <3>2. CASE Sends(r, Told1("error"), "over", job[r].k)
      <4>1. Told1("error") \in Seq(Events) /\ Len(Told1("error")) = 1 /\ Told1("error")[1].type = "error"
        BY <2>t, ToldType
      <4>2. ~Holds(Told1("error"), "conversation_id") /\ ~Holds(Told1("error"), "nonce")
        BY <4>1 DEF Holds
      <4> QED
        BY <2>2, <3>1, <3>2, <4>1, <4>2
    <3>3. CASE Sends(r, <<>>, "ask", job[r].k)
      <4>1. ~Holds(<<>>, "conversation_id") /\ ~Holds(<<>>, "nonce")
        BY DEF Holds
      <4> QED
        BY <1>0, <2>2, <3>1, <3>3, <4>1
    <3>4. CASE ask[r].conv = <<>> /\ Sends(r, Told2("conversation_id", "nonce"), "ask", job[r].k)
      <4>1. /\ Told2("conversation_id", "nonce") \in Seq(Events)
            /\ Len(Told2("conversation_id", "nonce")) = 2
            /\ Told2("conversation_id", "nonce")[1].type = "conversation_id"
        BY <2>t, ToldType
      <4>2. job'[r].wire = Told2("conversation_id", "nonce") /\ job'[r].pc = "ask"
        <5>1. job'[r].wire = job[r].wire \o Told2("conversation_id", "nonce") /\ job'[r].pc = "ask"
          BY <2>1, <3>4 DEF Sends
        <5> QED
          BY <1>0, <3>1, <4>1, <5>1, JoinFirst
      <4>3. Starting(r, "conversation_id")'
        BY <4>1, <4>2 DEF Starting, Told2
      <4>4. convId = <<>> /\ nonce = <<>>
        BY <2>0, <3>1, <3>4 DEF Usable
      <4>5. Opened(r)'
        BY <1>0, <3>4, <4>2 DEF Opened, At
      <4> QED
        BY <1>0, <4>3, <4>4, <4>5 DEF PairTold
    <3> QED
      BY <2>3, <3>2, <3>3, <3>4 DEF Opens
  <2>4. CASE Fails(r)
    <3>1. Told1("error") \in Seq(Events) /\ Len(Told1("error")) = 1 /\ Told1("error")[1].type = "error"
      BY <2>t, ToldType
    <3>2. ~Holds(Told1("error"), "conversation_id") /\ ~Holds(Told1("error"), "nonce")
      BY <3>1 DEF Holds
    <3>3. Opened(r)' /\ Sends(r, Told1("error"), "over", job[r].k)
      BY <1>0, <2>4 DEF Fails, Opened, Sends, At
    <3> QED
      BY <2>2, <3>1, <3>2, <3>3
  <2>5. CASE Enters(r)
    <3>1. PICK u \in {"chunk_result", "error"}, pc \in {"stream", "over"} :
            Sends(r, Told2("message_id", u), pc, job[r].k)
      BY <2>5 DEF Enters
    <3>2. /\ Told2("message_id", u) \in Seq(Events) /\ Len(Told2("message_id", u)) = 2
          /\ Told2("message_id", u)[1].type = "message_id" /\ Told2("message_id", u)[2].type = u
      BY <2>t, <3>1, ToldType
    <3>3. ~Holds(Told2("message_id", u), "conversation_id") /\ ~Holds(Told2("message_id", u), "nonce")
      BY <2>n, <3>1, <3>2 DEF Holds
    <3>4. Opened(r) => Opened(r)'
      <4>1. job'[r].pc = pc /\ convs' = convs \cup {ConversationOf(r)}
        BY <2>5, <3>1 DEF Enters, Sends
      <4>2. Opened(r) => r \in convs'
        BY <4>1 DEF Opened, ConversationOf
      <4> QED
        BY <1>0, <3>1, <4>1, <4>2 DEF Opened, At
    <3> QED
      BY <2>2, <3>1, <3>2, <3>3, <3>4
  <2>6. CASE Speaks(r) \/ Closes(r)
    <3>0. job[r].k \in 0..Data /\ Data \in Nat /\ At(r, "stream") /\ UNCHANGED convs
      BY <1>0, <2>6, Facts, BoundsAssumption DEF Jobs, BoundsAssumption, Speaks, Closes
    <3>1. PICK e \in Events, pc \in {"stream", "over"}, k \in 0..Data :
            Sends(r, <<e>>, pc, k) /\ e.type \in {"data", "error", "done"}
      <4>1. CASE Closes(r)
        <5>1. Sees("error") \in Events /\ Sees("done") \in Events
              /\ Sees("error").type = "error" /\ Sees("done").type = "done"
          BY EventsType
        <5> QED
          BY <3>0, <4>1, <5>1 DEF Closes, Told1
      <4>2. CASE Speaks(r)
        <5>1. [type |-> "data", k |-> job[r].k + 1] \in Events /\ job[r].k + 1 \in 0..Data
          <6>1. job[r].k + 1 \in 1..Data /\ job[r].k + 1 \in 0..Data
            BY <3>0, <4>2 DEF Speaks
          <6> QED
            BY <6>1, EventsType
        <5> QED
          BY <4>2, <5>1 DEF Speaks
      <4> QED
        BY <2>6, <4>1, <4>2
    <3>2. <<e>> \in Seq(Events) /\ Len(<<e>>) = 1 /\ <<e>>[1] = e
      OBVIOUS
    <3>3. ~Holds(<<e>>, "conversation_id") /\ ~Holds(<<e>>, "nonce")
      BY <3>1, <3>2 DEF Holds
    <3>4. Opened(r) => Opened(r)'
      <4>1. job'[r].pc = pc
        BY <3>1 DEF Sends
      <4> QED
        BY <1>0, <3>0, <3>1, <4>1 DEF Opened, At
    <3> QED
      BY <2>2, <3>1, <3>2, <3>3, <3>4
  <2> QED
    BY <2>3, <2>4, <2>5, <2>6 DEF Served
<1>7. ~buffer'
  BY <1>0 DEF PairKnown
<1>8. ASSUME NEW s \in InFlight'  PROVE Usable(ask[s].conv, ask[s].nonce)' /\ PairTold(s)'
  <2>1. s \in InFlight
    BY <1>2, <1>8
  <2> QED
    BY <1>3, <1>5, <1>6, <2>1
<1> QED
  BY <1>2, <1>4, <1>7, <1>8 DEF PairKnown

\* The client reads the next event of the one stream there is.
LEMMA PairChunk ==
  ASSUME WireInv, PairKnown, ProcessChunk, \A s \in InFlight : s = sub, blame \subseteq blame'
  PROVE  PairKnown'
<1>0. /\ sub \in Asks /\ UNCHANGED <<sub, ask, convs>> /\ ~buffer'
      /\ job[sub].wire # <<>> /\ job[sub].wire \in Seq(Events) /\ job[sub].wire[1] \in Events
      /\ job'[sub].pc = job[sub].pc /\ job'[sub].wire = Tail(job[sub].wire)
      /\ ~buffer => OnMessage(sub, job[sub].wire[1]) /\ UNCHANGED blame
  BY ChunkJob
<1>1. ~buffer /\ InFlight' = InFlight /\ sub \in InFlight
  BY <1>0 DEF PairKnown, InFlight, Pending, Asks
<1>2. OnMessage(sub, job[sub].wire[1]) /\ UNCHANGED blame
  BY <1>0, <1>1
<1> DEFINE w == job[sub].wire
           t == Tail(w)
<1>3. /\ Len(w) \in Nat \ {0} /\ Len(t) = Len(w) - 1 /\ \A n \in 1..Len(t) : t[n] = w[n + 1]
      /\ t \in Seq(Events)
  BY <1>0, TailEach
<1>4. /\ \A n \in 1..Len(w) :
           /\ w[n].type = "conversation_id" => n = 1 /\ Len(w) > 1 /\ w[2].type = "nonce"
           /\ w[n].type = "nonce" => n = 1 \/ (n = 2 /\ w[1].type = "conversation_id")
      /\ 1 \in 1..Len(w)
  BY <1>0, <1>3 DEF WireInv, ServerKnows, Shape
<1>5. PairTold(sub) /\ Usable(ask[sub].conv, ask[sub].nonce) /\ (Opened(sub) <=> Opened(sub)')
  BY <1>0, <1>1, <1>2 DEF PairKnown, Opened, At
<1>6. /\ ~Holds(t, "conversation_id")
      /\ w[1].type # "conversation_id" => ~Holds(t, "nonce")
  <2>1. \A n \in 1..Len(t) : n + 1 \in 1..Len(w) /\ n + 1 # 1
    BY <1>3
  <2> QED
    BY <1>3, <1>4, <2>1 DEF Holds
<1>h. job'[sub].wire = t /\ w # <<>>
  BY <1>0
<1>o. OnMessage(sub, w[1])
  BY <1>2
<1>p. PairTold(sub) /\ w = job[sub].wire
  BY <1>5
<1> HIDE DEF w, t
<1>8. CASE w[1].type = "conversation_id"
  <2>1. Starting(sub, "conversation_id") /\ convId = <<>> /\ nonce = <<>> /\ Opened(sub)
    <3>1. Holds(w, "conversation_id")
      BY <1>4, <1>8 DEF Holds
    <3> QED
      BY <1>8, <1>p, <3>1 DEF PairTold, Starting
  <2>2. convId' = <<sub>> /\ nonce' = <<>>
    BY <1>8, <1>o, <2>1 DEF OnMessage
  <2>3. t # <<>> /\ t[1].type = "nonce"
    <3>1. Len(w) > 1 /\ w[2].type = "nonce"
      BY <1>4, <1>8
    <3>2. 1 \in 1..Len(t) /\ t[1] = w[2]
      BY <1>3, <3>1
    <3> QED
      BY <1>3, <3>1, <3>2, SeqEach
  <2> QED
    BY <1>0, <1>1, <1>5, <1>h, <2>1, <2>2, <2>3 DEF PairKnown, PairTold, Starting, Usable
<1>9. CASE w[1].type = "nonce"
  <2>1. convId = <<sub>> /\ nonce = <<>> /\ Opened(sub)
    <3>1. Holds(w, "nonce") /\ ~Starting(sub, "conversation_id")
      BY <1>4, <1>9, <1>p DEF Holds, Starting
    <3> QED
      BY <1>p, <3>1 DEF PairTold
  <2>2. convId' = <<sub>> /\ nonce' = <<sub>>
    BY <1>9, <1>o, <2>1 DEF OnMessage
  <2>3. ~Holds(t, "conversation_id") /\ ~Holds(t, "nonce")
    BY <1>6, <1>9
  <2>4. /\ ~Holds(job[sub].wire, "conversation_id")' /\ ~Holds(job[sub].wire, "nonce")'
    BY <1>0, <1>h, <2>3 DEF Holds
  <2>5. PairTold(sub)'
    BY <1>0, <1>5, <2>1, <2>2, <2>4 DEF PairTold
  <2> QED
    BY <1>0, <1>1, <1>2, <1>5, <2>5 DEF PairKnown, Usable
<1>10. CASE w[1].type \notin {"conversation_id", "nonce"}
  <2>1. UNCHANGED <<convId, nonce>>
    BY <1>10, <1>o DEF OnMessage
  <2>2. /\ ~Starting(sub, "conversation_id") /\ ~Starting(sub, "nonce")
    BY <1>10, <1>p DEF Starting
  <2>3. ~Holds(t, "conversation_id") /\ ~Holds(t, "nonce")
    BY <1>6, <1>10
  <2>4. /\ ~Holds(job[sub].wire, "conversation_id")' /\ ~Holds(job[sub].wire, "nonce")'
    BY <1>0, <1>h, <2>3 DEF Holds
  <2>5. PairTold(sub)'
    BY <1>0, <1>5, <1>p, <2>1, <2>2, <2>4 DEF PairTold
  <2> QED
    BY <1>0, <1>1, <1>2, <1>5, <2>5 DEF PairKnown, Usable
<1> QED
  BY <1>8, <1>9, <1>10

LEMMA PairStep ==
  ASSUME PairInv, [Next]_vars  PROVE PairInv'
<1>1. WireInv /\ WireInv' /\ OneQuestion /\ OneQuestion' /\ Types /\ Types'
  BY WireStep, OneStep DEF PairInv, WireInv
<1> SUFFICES ASSUME Calm'  PROVE PairKnown'
  BY <1>1 DEF PairInv, Calm
<1>c. "cut" \notin blame' /\ "overlap" \notin blame'
  BY DEF Calm
<1>2. CASE UNCHANGED vars
  BY <1>2 DEF vars, client, server, PairInv, Calm, PairKnown, InFlight, Pending, Usable,
              PairTold, Opened, Starting, At, Holds
<1>3. CASE Next
  <2>1. blame \subseteq blame'
    BY <1>1, <1>3, CountsKept
  <2>2. Calm /\ PairKnown /\ "overlap" \notin blame
    BY <1>c, <2>1 DEF PairInv, Calm
  <2>3. InFlight \subseteq Asks /\ \A r \in InFlight : \A s \in InFlight : r = s
    BY <1>1, <2>2, OneInFlight
  <2>f. sub \in Items /\ 0 \notin Asks /\ job \in [Asks -> Jobs]
    BY <1>1, Facts DEF Asks
  <2>4. ~Blame(TRUE, "cut") /\ (Blame(InFlight # {}, "cut") => InFlight = {} /\ sub = 0)
    BY <1>c DEF Blame, InFlight
  <2>5. Blame(InFlight # {}, "overlap") => InFlight = {} /\ Pending = {} /\ sub = 0
    BY <1>c DEF Blame, InFlight
  <2>6. sub = 0 /\ Cut => job' = job /\ buffer' = buffer
    BY DEF Cut, Closed
  <2>7. ~Abort /\ ~Timeout /\ ~Disconnect
    BY <1>c, <2>4 DEF Abort, Timeout, Disconnect
  <2>8. CASE StreamEnds
    <3>1. /\ sub # 0 /\ job[sub].wire = <<>> /\ job[sub].pc = "over" /\ sub' = 0
          /\ UNCHANGED <<convId, nonce, ask, buffer, convs>>
      BY <2>8 DEF StreamEnds
    <3>2. sub \in InFlight /\ sub \notin Pending
      <4>1. sub \in Asks
        BY <2>f, <3>1 DEF Items, History
      <4>2. ask[sub].phase = "sent"
        BY <1>1, <3>1, <4>1 DEF WireInv, ServerKnows, Connected
      <4> QED
        BY <3>1, <4>2 DEF InFlight, Pending
    <3>3. InFlight' = {}
      BY <2>3, <3>1, <3>2 DEF InFlight, Pending
    <3>4. Usable(convId, nonce)
      <4>1. PairTold(sub) /\ Usable(ask[sub].conv, ask[sub].nonce)
        BY <2>2, <3>2 DEF PairKnown
      <4>2. Opened(sub) => sub \in convs \/ "unborn" \in blame
        BY <3>1 DEF Opened, At
      <4>3. sub \in Asks
        BY <2>3, <3>2
      <4> QED
        BY <3>1, <4>1, <4>2, <4>3 DEF PairTold, Usable, Starting
    <3>5. Usable(convId, nonce)'
      BY <2>1, <3>1, <3>4 DEF Usable
    <3> QED
      BY <2>2, <3>1, <3>3, <3>5 DEF PairKnown
  <2>9. CASE ProcessChunk
    <3>1. sub \in InFlight
      BY <2>9 DEF ProcessChunk, InFlight
    <3> QED
      BY <1>1, <2>1, <2>2, <2>3, <2>9, <3>1, PairChunk
  <2>10. ASSUME NEW r \in Asks, NEW b, Enter(r, b)  PROVE PairKnown'
    <3>1. /\ Asked1(r) /\ InFlight = {} /\ Pending = {} /\ sub' = 0
          /\ UNCHANGED <<convId, nonce, buffer, job, convs>>
      BY <2>5, <2>10 DEF Enter, Search, Asked1, server
    <3> QED
      BY <1>1, <2>1, <2>2, <3>1, AskedFlight, PairAsked
  <2>11. ASSUME NEW r \in Asks, Send(r)  PROVE PairKnown'
    <3>1. /\ Asked1(r) /\ UNCHANGED <<convId, nonce, convs>>
          /\ blame' = blame \cup (IF Pending # {} THEN {"overlap"} ELSE {})
                      \cup (IF sub # 0 THEN {"cut"} ELSE {})
      BY <2>11 DEF Send, Search, Asked1
    <3>2. sub = 0 /\ Pending = {} /\ InFlight = {}
      BY <1>c, <3>1 DEF InFlight
    <3>3. sub' = 0 /\ job' = job /\ buffer' = buffer
      BY <2>6, <2>11, <3>2 DEF Send, Unsubscribe
    <3> QED
      BY <1>1, <2>1, <2>2, <3>1, <3>2, <3>3, AskedFlight, PairAsked
  <2>12. CASE Reset
    <3>1. /\ InFlight = {} /\ sub = 0 /\ convId' = <<>> /\ nonce' = <<>> /\ UNCHANGED ask
          /\ sub' = 0 /\ buffer' = buffer
      BY <2>4, <2>6, <2>12 DEF Reset, ClearPanel
    <3>2. InFlight' = {}
      BY <3>1 DEF InFlight, Pending
    <3> QED
      BY <2>2, <3>1, <3>2 DEF PairKnown, Usable
  <2>13. ASSUME NEW r \in Asks, NEW b, WidgetReset(r, b)  PROVE PairKnown'
    <3>1. /\ convId' = <<>> /\ nonce' = <<>> /\ UNCHANGED convs
          /\ (sub' = 0 /\ Cut) \/ UNCHANGED <<sub, job, buffer>>
          /\ \/ UNCHANGED ask /\ Blame(InFlight # {}, "cut")
             \/ Asked1(r) /\ Blame(InFlight # {}, "overlap")
      BY <2>13 DEF WidgetReset, ClearPanel, Asked1
    <3>2. InFlight = {} /\ sub = 0 /\ sub' = 0 /\ job' = job /\ buffer' = buffer /\ Pending = {}
      BY <2>4, <2>5, <2>6, <3>1 DEF InFlight
    <3>3. CASE UNCHANGED ask
      <4>1. InFlight' = {}
        BY <3>2, <3>3 DEF InFlight, Pending
      <4> QED
        BY <2>2, <3>1, <3>2, <4>1 DEF PairKnown, Usable
    <3>4. CASE Asked1(r)
      BY <1>1, <2>1, <2>2, <3>1, <3>2, <3>4, AskedFlight, PairAsked
    <3> QED
      BY <3>1, <3>3, <3>4
  <2>14. ASSUME NEW r \in Asks, Start(r)  PROVE PairKnown'
    <3>1. /\ ask[r].phase = "timer" /\ ask' = [ask EXCEPT ![r].phase = "captcha"]
          /\ UNCHANGED <<convId, nonce, sub, buffer, job, convs>>
      BY <2>14 DEF Start, server
    <3>2. ask[r].phase # "unused" /\ "captcha" \in {"captcha", "sent", "over"}
      BY <3>1
    <3>3. /\ ask'[r].phase = "captcha" /\ ask'[r].conv = ask[r].conv /\ ask'[r].nonce = ask[r].nonce
          /\ \A s \in Asks : s # r => ask'[s] = ask[s]
      BY <1>1, <3>1, <3>2, PhaseMoves
    <3>4. InFlight' = InFlight
      BY <3>1, <3>3 DEF InFlight, Pending
    <3> QED
      BY <2>1, <2>2, <2>3, <3>1, <3>3, <3>4, PairQuiet
  <2>15. ASSUME NEW r \in Asks, AnswerFails(r)  PROVE PairKnown'
    <3>1. /\ ask[r].phase = "captcha" /\ ask' = [ask EXCEPT ![r].phase = "over"]
          /\ UNCHANGED <<convId, nonce, sub, buffer, job, convs>>
      BY <2>15 DEF AnswerFails, server
    <3>2. ask[r].phase # "unused" /\ "over" \in {"captcha", "sent", "over"}
      BY <3>1
    <3>3. /\ ask'[r].phase = "over" /\ \A s \in Asks : s # r => ask'[s] = ask[s]
      BY <1>1, <3>1, <3>2, PhaseMoves
    <3>4. r \in InFlight /\ job[r].pc = "idle"
      BY <1>1, <3>1 DEF InFlight, Pending, WireInv, ServerKnows, Connected
    <3>5. PairTold(r) /\ Usable(ask[r].conv, ask[r].nonce)
      BY <2>2, <3>4 DEF PairKnown
    <3>6. Usable(convId, nonce)
      <4>1. (convId = <<>> /\ nonce = <<>>) \/ (convId = ask[r].conv /\ nonce = ask[r].nonce)
        BY <1>1, <3>4, <3>5, PairPending
      <4> QED
        BY <3>5, <4>1 DEF Usable
    <3>7. Usable(convId, nonce)'
      BY <2>1, <3>1, <3>6 DEF Usable
    <3>8. ASSUME NEW s \in InFlight'  PROVE FALSE
      <4>1. s \in InFlight
        BY <3>1, <3>3 DEF InFlight, Pending
      <4>2. s = r
        BY <2>3, <3>4, <4>1
      <4>3. sub = r
        BY <3>1, <3>3, <3>8, <4>2 DEF InFlight, Pending
      <4> QED
        BY <1>1, <3>1, <4>3 DEF WireInv, ServerKnows, Connected
    <3> QED
      BY <2>2, <3>1, <3>7, <3>8 DEF PairKnown
  <2>16. ASSUME NEW r \in Asks, Subscribe(r)  PROVE PairKnown'
    <3>1. /\ sub = 0 /\ buffer' = buffer /\ UNCHANGED <<convId, nonce, convs>> /\ ask[r].phase = "captcha"
      BY <1>c, <2>16 DEF Subscribe, Blame
    <3>2. /\ sub' = r /\ job[r].pc = "idle"
          /\ \A s \in Asks : Used(s) => ask'[s].conv = ask[s].conv /\ ask'[s].nonce = ask[s].nonce
          /\ Used(r) /\ job'[r].pc = "received" /\ job'[r].wire = <<>>
      BY <1>1, <2>16, SubscribeJob
    <3>3. r \in InFlight
      BY <3>1 DEF InFlight, Pending
    <3>4. InFlight' \subseteq {r} /\ r \in InFlight'
      <4>1. NothingNew
        <5>1. \A s \in Asks : ~AskedAlone(s)
          BY <3>1, <3>3 DEF AskedAlone, InFlight
        <5> QED
          BY <1>1, <1>3, <1>c, <5>1, Flight
      <4> QED
        BY <2>3, <2>f, <3>2, <3>3, <4>1 DEF NothingNew, InFlight
    <3>5. PairTold(r) /\ Usable(ask[r].conv, ask[r].nonce)
      BY <2>2, <3>3 DEF PairKnown
    <3>6. (convId = <<>> /\ nonce = <<>>) \/ (convId = ask[r].conv /\ nonce = ask[r].nonce)
      BY <1>1, <3>2, <3>5, PairPending
    <3>7. PairTold(r)'
      BY <3>1, <3>2, <3>6 DEF PairTold, Holds
    <3>8. Usable(ask[r].conv, ask[r].nonce)'
      BY <2>1, <3>1, <3>2, <3>5 DEF Usable
    <3> QED
      BY <2>2, <3>1, <3>4, <3>7, <3>8 DEF PairKnown
  <2>17. ASSUME (\E i \in Asks : Score(i)) \/ ScoreDone  PROVE PairKnown'
    <3>1. UNCHANGED <<convId, nonce, ask, sub, buffer, job, convs>>
      BY <2>17 DEF Score, ScoreDone, server
    <3>2. InFlight' = InFlight
      BY <3>1 DEF InFlight, Pending
    <3> QED
      BY <2>1, <2>2, <2>3, <3>1, <3>2, PairQuiet
  <2>18. ASSUME NEW r \in Asks, Serve(r)  PROVE PairKnown'
    BY <1>1, <2>1, <2>2, <2>3, <2>18, ServeMoves, PairServed
  <2>19. ASSUME NEW r \in Asks, SaveFixed(r)  PROVE PairKnown'
    <3>1. UNCHANGED <<convId, nonce, ask, sub, buffer, job, convs>>
      BY <2>19 DEF SaveFixed, client
    <3>2. InFlight' = InFlight
      BY <3>1 DEF InFlight, Pending
    <3> QED
      BY <2>1, <2>2, <2>3, <3>1, <3>2, PairQuiet
  <2> QED
    BY <1>3, <2>7, <2>8, <2>9, <2>10, <2>11, <2>12, <2>13, <2>14, <2>15, <2>16, <2>17, <2>18, <2>19
       DEF Next, Reader, Panel, Stream
<1> QED
  BY <1>2, <1>3

\* As long as no stream is cut and no two questions overlap, what the client
\* sends next is the pair of one conversation the server issued: neither id is
\* run together with an earlier one, and neither is missing.
THEOREM ConversationStaysUsable == Spec => []ConversationUsable
<1>1. Init => PairInv
  <2>1. Init => /\ ~buffer /\ InFlight = {} /\ convId = <<>> /\ nonce = <<>>
    BY DEF Init, InFlight, Pending
  <2> QED
    BY <2>1, WireInit DEF PairInv, OneQuestion, PairKnown, Usable
<1>2. PairInv /\ [Next]_vars => PairInv'
  BY PairStep
<1>3. PairInv => ConversationUsable
  BY DEF PairInv, PairKnown, Usable, ConversationUsable
<1> QED
  BY <1>1, <1>2, <1>3, PTL DEF Spec

-----------------------------------------------------------------------------
(* Tokens on the wire.                                                     *)

LEMMA AheadTail ==
  ASSUME NEW pc, NEW k \in Nat, NEW w \in Seq(Events), w # <<>>, NEW h \in Nat,
         Shape(pc, k, w), Ahead(pc, k, w, h), w[1].type \notin Ends
  PROVE  /\ w[1].type # "data" => Ahead(pc, k, Tail(w), h)
         /\ w[1].type = "data" => w[1].k = h + 1 /\ Ahead(pc, k, Tail(w), h + 1)
<1> DEFINE t == Tail(w)
           z == Body(pc, w)
<1>1. /\ t \in Seq(Events) /\ Len(w) \in Nat \ {0} /\ Len(t) = Len(w) - 1
      /\ \A n \in 1..Len(t) : t[n] = w[n + 1]
  BY TailEach
<1>2. Body(pc, t) = z - 1 /\ z \in Nat /\ z <= Len(w)
  BY <1>1 DEF Body
<1>3. 1 \in 1..z
  <2>1. 1 \in 1..Len(w)
    BY <1>1
  <2>2. ~(1 > z)
    BY <2>1 DEF Shape
  <2> QED
    BY <1>2, <2>2
<1>4. /\ h <= k /\ k - h <= z
      /\ \A n \in 1..z : /\ w[n].type = "data" <=> n > z - (k - h)
                         /\ w[n].type = "data" => w[n].k = k - (z - n)
  BY DEF Ahead
<1>5. \A n \in 1..(z - 1) : n + 1 \in 1..z /\ t[n] = w[n + 1]
  BY <1>1, <1>2
<1> HIDE DEF t, z
<1>6. ASSUME NEW n \in 1..(z - 1)
      PROVE  /\ t[n].type = "data" <=> n > (z - 1) - (k - h)
             /\ t[n].type = "data" => t[n].k = k - ((z - 1) - n)
  <2>1. n + 1 \in 1..z /\ t[n] = w[n + 1]
    BY <1>5
  <2>2. /\ t[n].type = "data" <=> n + 1 > z - (k - h)
        /\ t[n].type = "data" => t[n].k = k - (z - (n + 1))
    BY <1>4, <2>1
  <2> QED
    BY <1>2, <2>1, <2>2
<1>7. CASE w[1].type # "data"
  <2>1. ~(1 > z - (k - h))
    BY <1>3, <1>4, <1>7
  <2>2. k - h <= z - 1
    BY <1>2, <2>1
  <2>3. Ahead(pc, k, t, h)
    BY <1>2, <1>4, <1>6, <2>2 DEF Ahead
  <2> QED
    BY <1>7, <2>3 DEF t
<1>8. CASE w[1].type = "data"
  <2>1. 1 > z - (k - h) /\ w[1].k = k - (z - 1)
    BY <1>3, <1>4, <1>8
  <2>2. k - h = z /\ w[1].k = h + 1 /\ h + 1 <= k
    BY <1>2, <1>3, <1>4, <2>1
  <2>3. ASSUME NEW n \in 1..(z - 1)
        PROVE  /\ t[n].type = "data" <=> n > (z - 1) - (k - (h + 1))
               /\ t[n].type = "data" => t[n].k = k - ((z - 1) - n)
    <3>1. /\ t[n].type = "data" <=> n > (z - 1) - (k - h)
          /\ t[n].type = "data" => t[n].k = k - ((z - 1) - n)
      BY <1>6
    <3>2. n > (z - 1) - (k - h) /\ n > (z - 1) - (k - (h + 1))
      BY <1>2, <2>2
    <3> QED
      BY <3>1, <3>2
  <2>4. Ahead(pc, k, t, h + 1)
    BY <1>2, <2>2, <2>3 DEF Ahead
  <2> QED
    BY <2>2, <2>4, <1>8 DEF t
<1> QED
  BY <1>7, <1>8

LEMMA AheadJoin ==
  ASSUME NEW pc \in {"received", "ask", "stream"}, NEW k \in Nat, NEW w \in Seq(Events), NEW h \in Nat,
         Ahead(pc, k, w, h), NEW e \in Events, NEW pc2 \in {"received", "ask", "stream"}
  PROVE  /\ Ahead("over", k, w \o <<e>>, h)
         /\ e.type # "data" /\ k = h => Ahead(pc2, k, w \o <<e>>, h)
         /\ e.type = "data" /\ e.k = k + 1 => Ahead(pc2, k + 1, w \o <<e>>, h)
<1> DEFINE t == w \o <<e>>
           z == Len(w)
<1>1. /\ t \in Seq(Events) /\ z \in Nat /\ Len(t) = z + 1
      /\ \A n \in 1..z : t[n] = w[n]
      /\ t[z + 1] = e
  <2>1. <<e>> \in Seq(Events) /\ Len(<<e>>) = 1 /\ <<e>>[1] = e
    OBVIOUS
  <2> QED
    BY <2>1, JoinEach
<1>2. Body(pc, w) = z /\ Body("over", t) = z /\ Body(pc2, t) = z + 1
  BY <1>1 DEF Body
<1>3. /\ h <= k /\ k - h <= z
      /\ \A n \in 1..z : /\ w[n].type = "data" <=> n > z - (k - h)
                         /\ w[n].type = "data" => w[n].k = k - (z - n)
  BY <1>2 DEF Ahead
<1> HIDE DEF t, z
<1>4. Ahead("over", k, t, h)
  BY <1>1, <1>2, <1>3 DEF Ahead
<1>s. \A n \in 1..(z + 1) : n \in 1..z \/ n = z + 1
  BY <1>1
<1>5. ASSUME e.type # "data", k = h  PROVE Ahead(pc2, k, t, h)
  <2>0. \A n \in 1..z : w[n].type # "data" /\ t[n] = w[n]
    BY <1>1, <1>3, <1>5
  <2>1. \A n \in 1..(z + 1) : t[n].type # "data"
    BY <1>1, <1>5, <1>s, <2>0
  <2>2. \A n \in 1..(z + 1) : ~(n > (z + 1) - (k - h))
    BY <1>1, <1>5
  <2> QED
    BY <1>1, <1>2, <1>3, <2>1, <2>2 DEF Ahead
<1>6. ASSUME e.type = "data", e.k = k + 1  PROVE Ahead(pc2, k + 1, t, h)
  <2>1. ASSUME NEW n \in 1..(z + 1)
        PROVE  /\ t[n].type = "data" <=> n > (z + 1) - ((k + 1) - h)
               /\ t[n].type = "data" => t[n].k = (k + 1) - ((z + 1) - n)
    <3>1. CASE n \in 1..z
      <4>1. /\ t[n].type = "data" <=> n > z - (k - h)
            /\ t[n].type = "data" => t[n].k = k - (z - n)
        BY <1>1, <1>3, <3>1
      <4> QED
        BY <1>1, <3>1, <4>1
    <3>2. CASE n = z + 1
      <4>1. t[n].type = "data" /\ t[n].k = k + 1
        BY <1>1, <1>6, <3>2
      <4> QED
        BY <1>1, <1>3, <3>2, <4>1
    <3> QED
      BY <1>s, <3>1, <3>2
  <2>2. h <= k + 1 /\ (k + 1) - h <= z + 1
    BY <1>1, <1>3
  <2>3. \A n \in 1..(z + 1) : /\ t[n].type = "data" <=> n > (z + 1) - ((k + 1) - h)
                              /\ t[n].type = "data" => t[n].k = (k + 1) - ((z + 1) - n)
    BY <2>1
  <2> DEFINE y == z + 1
             j == k + 1
  <2>4. /\ Body(pc2, t) = y /\ h <= j /\ j - h <= y
        /\ \A n \in 1..y : /\ t[n].type = "data" <=> n > y - (j - h)
                           /\ t[n].type = "data" => t[n].k = j - (y - n)
    BY <1>2, <2>2, <2>3
  <2> HIDE DEF y, j
  <2>5. Ahead(pc2, j, t, h)
    BY <2>4 DEF Ahead
  <2> QED
    BY <2>5 DEF j
<1> QED
  BY <1>4, <1>5, <1>6 DEF t

LEMMA AheadServed ==
  ASSUME Types, NEW r \in Asks, Served(r), Shape(job[r].pc, job[r].k, job[r].wire), job[r].open,
         NEW h \in Nat, Ahead(job[r].pc, job[r].k, job[r].wire, h)
  PROVE  Ahead(job'[r].pc, job'[r].k, job'[r].wire, h)
<1> DEFINE w == job[r].wire
           k == job[r].k
<1>1. job[r] \in Jobs /\ w \in Seq(Events) /\ k \in 0..Data /\ Data \in Nat /\ k \in Nat
  BY Facts, BoundsAssumption DEF Jobs, BoundsAssumption
<1>2. \A es, pc, j : Sends(r, es, pc, j) => job'[r].pc = pc /\ job'[r].k = j /\ job'[r].wire = w \o es
  BY DEF Sends
<1>t. /\ "error" \in EventTypes /\ "done" \in EventTypes /\ "message_id" \in EventTypes
      /\ "chunk_result" \in EventTypes /\ "conversation_id" \in EventTypes /\ "nonce" \in EventTypes
  BY DEF EventTypes
<1>s. /\ Sees("error") \in Events /\ Sees("done") \in Events
      /\ Sees("message_id") \in Events /\ Sees("message_id").type # "data"
      /\ Sees("chunk_result") \in Events /\ Sees("chunk_result").type # "data"
      /\ Sees("conversation_id") \in Events /\ Sees("conversation_id").type # "data"
      /\ Sees("nonce") \in Events /\ Sees("nonce").type # "data"
  BY EventsType
<1>0. job[r].pc \in {"received", "ask", "stream"} /\ (At(r, "received") \/ At(r, "ask") => k = 0)
  BY DEF Served, Opens, Fails, Enters, Speaks, Closes, At, Shape
<1>a. Ahead(job[r].pc, k, w, h)
  OBVIOUS
<1>h. k = 0 => h = 0
  BY <1>1, <1>a DEF Ahead
<1>e. \A e \in Events : Ahead("over", k, w \o <<e>>, h)
  BY <1>0, <1>1, <1>a, AheadJoin
<1> HIDE DEF w, k
<1>b. ASSUME k = 0, NEW e \in Events, e.type # "data", NEW pc2 \in {"ask", "stream"}
      PROVE  Ahead(pc2, k, w \o <<e>>, h) /\ w \o <<e>> \in Seq(Events)
  <2>1. pc2 \in {"received", "ask", "stream"} /\ k = h
    BY <1>b, <1>h
  <2>2. <<e>> \in Seq(Events)
    OBVIOUS
  <2> QED
    BY <1>0, <1>1, <1>a, <1>b, <2>1, <2>2, AheadJoin, JoinEach
<1>3. CASE Sends(r, Told1("error"), "over", k) \/ Sends(r, Told1("done"), "over", k)
  BY <1>2, <1>3, <1>e, <1>s DEF Told1
<1>4. ASSUME k = 0, NEW t \in {"conversation_id", "message_id"},
             NEW u \in {"nonce", "chunk_result", "error"}, NEW pc \in {"ask", "stream", "over"},
             pc = "over" \/ u # "error", Sends(r, Told2(t, u), pc, k)
      PROVE  Ahead(job'[r].pc, job'[r].k, job'[r].wire, h)
  <2>1. w \o Told2(t, u) = (w \o <<Sees(t)>>) \o <<Sees(u)>> /\ Sees(u) \in Events
        /\ (u # "error" => Sees(u).type # "data")
    <3>1. t \in EventTypes /\ u \in EventTypes
      BY <1>4, <1>t
    <3> QED
      BY <1>1, <1>s, <1>4, <3>1, JoinTwo
  <2>2. Ahead("ask", k, w \o <<Sees(t)>>, h) /\ w \o <<Sees(t)>> \in Seq(Events)
    <3>1. Sees(t) \in Events /\ Sees(t).type # "data" /\ "ask" \in {"ask", "stream"}
      BY <1>s, <1>4
    <3> QED
      BY <1>b, <1>4, <3>1
  <2> DEFINE v == w \o <<Sees(t)>>
             e == Sees(u)
  <2>3. v \in Seq(Events) /\ Ahead("ask", k, v, h) /\ e \in Events /\ (u # "error" => e.type # "data")
    BY <2>1, <2>2
  <2>d. w \o Told2(t, u) = v \o <<e>>
    BY <2>1
  <2> HIDE DEF v, e
  <2>4. Ahead("over", k, v \o <<e>>, h)
    <3>1. "ask" \in {"received", "ask", "stream"}
      OBVIOUS
    <3> QED
      BY <1>1, <2>3, <3>1, AheadJoin
  <2>5. u # "error" => Ahead("ask", k, v \o <<e>>, h) /\ Ahead("stream", k, v \o <<e>>, h)
    <3>1. "ask" \in {"received", "ask", "stream"} /\ "stream" \in {"received", "ask", "stream"} /\ k = h
      BY <1>h, <1>4
    <3> QED
      BY <1>1, <2>3, <3>1, AheadJoin
  <2>6. Ahead(pc, k, v \o <<e>>, h)
    BY <1>4, <2>4, <2>5
  <2>7. job'[r].pc = pc /\ job'[r].k = k /\ job'[r].wire = v \o <<e>>
    BY <1>2, <1>4, <2>d
  <2> QED
    BY <2>6, <2>7
<1>5. CASE Opens(r)
  <2>1. k = 0 /\ w = <<>>
    BY <1>0, <1>5 DEF Opens, At, w, Shape
  <2>2. CASE Sends(r, Told2("conversation_id", "nonce"), "ask", k)
    BY <1>4, <2>1, <2>2
  <2>3. CASE Sends(r, <<>>, "ask", k)
    <3>1. job'[r].pc = "ask" /\ job'[r].k = 0 /\ job'[r].wire = <<>>
      BY <1>2, <2>1, <2>3, EmptySeq, ConcatEmptySeq
    <3>2. Ahead("ask", 0, <<>>, 0)
      BY DEF Ahead, Body
    <3> QED
      BY <1>h, <2>1, <3>1, <3>2
  <2> QED
    BY <1>3, <1>5, <2>2, <2>3 DEF Opens, k
<1>6. CASE Fails(r)
  BY <1>3, <1>6 DEF Fails, k
<1>7. CASE Enters(r)
  <2>1. k = 0
    BY <1>0, <1>7 DEF Enters
  <2>2. CASE Sends(r, Told2("message_id", "chunk_result"), "stream", k)
    BY <1>4, <2>1, <2>2
  <2>3. CASE Sends(r, Told2("message_id", "error"), "over", k)
    BY <1>4, <2>1, <2>3
  <2> QED
    BY <1>7, <2>2, <2>3 DEF Enters, k
<1>8. CASE Closes(r)
  BY <1>3, <1>8 DEF Closes, k
<1>9. CASE Speaks(r)
  <2> DEFINE e == [type |-> "data", k |-> k + 1]
  <2>1. Sends(r, <<e>>, "stream", k + 1) /\ k + 1 \in 1..Data /\ job[r].pc = "stream"
    BY <1>1, <1>9 DEF Speaks, At, k
  <2>2. e \in Events /\ e.type = "data" /\ e.k = k + 1
    BY <2>1, EventsType
  <2> HIDE DEF e
  <2>3. Ahead("stream", k + 1, w \o <<e>>, h)
    BY <1>0, <1>1, <1>a, <2>1, <2>2, AheadJoin
  <2>4. job'[r].pc = "stream" /\ job'[r].k = k + 1 /\ job'[r].wire = w \o <<e>>
    BY <1>2, <2>1
  <2> QED
    BY <2>3, <2>4
<1> QED
  BY <1>5, <1>6, <1>7, <1>8, <1>9 DEF Served

-----------------------------------------------------------------------------
(* The items of the panel.                                                 *)

Clean == blame \cap Mixes = {}
PanelTrue == LastIsNewest /\ ItemsTrue /\ AllTold

LEMMA NewestKept ==
  ASSUME Types, LastIsNewest, \A s \in Asks : Used(s)' <=> Used(s),
         items' \in {items, <<>>}, full' \in {full, <<>>}, messageId' \in {messageId, <<>>}
  PROVE  LastIsNewest'
<1>1. \A s \in Asks : Newest(s)' <=> Newest(s)
  BY DEF Newest
<1>2. items' = <<History>> => \A r \in Asks : ~Used(r)'
  BY DEF LastIsNewest
<1>3. items' # <<>> /\ items' # <<History>> => Newest(Bottom)'
  <2> SUFFICES ASSUME items' # <<>>, items' # <<History>>  PROVE Newest(Bottom)'
    OBVIOUS
  <2>1. items' = items /\ Newest(Bottom) /\ Bottom \in Asks
    BY LastItem DEF LastIsNewest
  <2>2. Bottom' = Bottom
    BY <2>1 DEF Bottom
  <2> QED
    BY <2>1, <2>2 DEF Newest
<1>4. ASSUME NEW n \in 1..Len(full')  PROVE Newest(full[n][1])'
  <2>1. full' = full /\ Newest(full[n][1])
    BY <1>4 DEF LastIsNewest
  <2>2. full[n][1] \in Asks
    BY <1>4, <2>1, SeqEach, Facts
  <2> QED
    BY <2>1, <2>2 DEF Newest
<1>5. messageId' # <<>> => \E r \in Asks : Newest(r)' /\ messageId' = <<r>>
  BY <1>1 DEF LastIsNewest
<1> QED
  BY <1>2, <1>3, <1>4, <1>5 DEF LastIsNewest

\* An item keeps its text; if it gets a message id it is its own.
ItemKept(i) ==
    /\ obj'[i].text = obj[i].text /\ obj'[i].refs = obj[i].refs /\ obj'[i].fin = obj[i].fin
    /\ \/ obj'[i].mid = obj[i].mid /\ (obj[i].note # {} => obj'[i].note # {})
       \/ (i \in Asks => obj'[i].mid \in {<<>>, <<i>>}) /\ obj'[i].note # {}

LEMMA TruthKept ==
  ASSUME Types, ItemsTrue, blame \subseteq blame', \A i \in Asks : Saved(i) => Saved(i)',
         Saved(History) => Saved(History)', \A i \in Items : ItemKept(i)
  PROVE  ItemsTrue'
<1>1. ASSUME NEW i \in Items  PROVE OwnText(i)' /\ Finished(i)'
  <2>1. OwnText(i) /\ Finished(i) /\ ItemKept(i) /\ (Saved(i) => Saved(i)')
    BY DEF ItemsTrue, Items
  <2> QED
    BY <2>1 DEF OwnText, Finished, ItemKept, Answer
<1>2. ASSUME NEW i \in Asks  PROVE OwnMid(i)'
  <2>1. OwnMid(i) /\ ItemKept(i)
    BY Facts DEF ItemsTrue
  <2> QED
    BY <2>1 DEF OwnMid, ItemKept
<1> QED
  BY <1>1, <1>2 DEF ItemsTrue

LEMMA SavedKept ==
  ASSUME UNCHANGED log  PROVE \A i : Saved(i) => Saved(i)'
BY DEF Saved

LEMMA ToldKept ==
  ASSUME AllTold, InFlight' \subseteq InFlight, blame \subseteq blame',
         UNCHANGED <<items, full, messageId>>,
         \A r \in InFlight' : /\ job'[r].pc = job[r].pc /\ job'[r].k = job[r].k
                              /\ job'[r].wire = job[r].wire
                              /\ obj'[r].text = obj[r].text /\ obj'[r].fin = obj[r].fin
  PROVE  AllTold'
<1> SUFFICES ASSUME NEW r \in InFlight'  PROVE IdTold(r)' /\ (items' # <<>> => Told(r)')
  BY DEF AllTold
<1>1. IdTold(r) /\ (items # <<>> => Told(r))
  BY DEF AllTold
<1>2. IdTold(r)'
  BY <1>1 DEF IdTold, At, Holds
<1>3. items' # <<>> => Told(r)'
  <2> SUFFICES ASSUME items' # <<>>, At(r, "over")' => job'[r].wire # <<>>  PROVE Told(r)'
    BY DEF Told
  <2>1. /\ Ahead(job[r].pc, job[r].k, job[r].wire, Len(full))
        /\ \A n \in 1..Len(full) : full[n] = <<r, n>>
        /\ obj[r].text = full /\ ~obj[r].fin
    BY <1>1 DEF Told, At
  <2>2. Ahead(job'[r].pc, job'[r].k, job'[r].wire, Len(full'))
    BY <2>1
  <2> QED
    BY <2>1, <2>2 DEF Told, Ahead, Body
<1> QED
  BY <1>2, <1>3

\* The last item, if a question is under way, is that of the question.
LEMMA BottomNewest ==
  ASSUME Types, LastIsNewest, items # <<>>, NEW r \in Asks, Newest(r)  PROVE Bottom = r
<1>1. items # <<History>>
  BY DEF LastIsNewest, Newest
<1>2. Newest(Bottom) /\ Bottom \in Asks
  BY <1>1, LastItem DEF LastIsNewest
<1> QED
  BY <1>2, OneNewest

\* The message id an item gets when it is cancelled is its own.
LEMMA CancelKeeps ==
  ASSUME Types, LastIsNewest, NEW mid \in {messageId, <<>>}, Unsubscribe(mid)
  PROVE  \A i \in Items : ItemKept(i)
<1> SUFFICES ASSUME NEW i \in Items  PROVE ItemKept(i)
  OBVIOUS
<1>0. mid \in Seq(Asks) /\ obj[i] \in Objects
  BY Facts
<1>1. obj'[i] = IF items # <<>> /\ i = Bottom THEN Cancelled(obj[i], mid) ELSE obj[i]
  BY <1>0, UnsubscribeMoves
<1>2. CASE items # <<>> /\ i = Bottom
  <2>1. /\ obj'[i].text = obj[i].text /\ obj'[i].refs = obj[i].refs /\ obj'[i].fin = obj[i].fin
        /\ obj'[i].mid = mid /\ obj'[i].note = obj[i].note \cup {"cancelled"}
    BY <1>0, <1>1, <1>2, CancelledType
  <2>2. i \in Asks => mid \in {<<>>, <<i>>}
    <3> SUFFICES ASSUME i \in Asks, mid # <<>>  PROVE mid = <<i>>
      OBVIOUS
    <3>1. PICK r \in Asks : Newest(r) /\ mid = <<r>>
      BY DEF LastIsNewest
    <3>2. i = r
      BY <1>2, <3>1, BottomNewest
    <3> QED
      BY <3>1, <3>2
  <2> QED
    BY <2>1, <2>2 DEF ItemKept
<1>3. CASE ~(items # <<>> /\ i = Bottom)
  BY <1>1, <1>3 DEF ItemKept
<1> QED
  BY <1>2, <1>3

\* A fetch ends, and nothing else of the requests changes.
LEMMA HangAlone ==
  ASSUME WireInv, sub' = 0, job' = Closed(job, sub), UNCHANGED ask
  PROVE  /\ InFlight' \subseteq InFlight /\ InFlight' = Pending
         /\ \A r \in InFlight' : r \in Asks /\ job'[r] = job[r]
<1>1. InFlight' = Pending /\ InFlight' \subseteq InFlight
  BY DEF InFlight, Pending
<1>2. ASSUME NEW r \in InFlight'  PROVE r \in Asks /\ job'[r] = job[r]
  <2>1. r \in Asks /\ ask[r].phase # "sent"
    BY <1>1, <1>2 DEF Pending
  <2>2. r # sub
    BY <2>1 DEF WireInv, ServerKnows, Connected
  <2> QED
    BY <2>1, <2>2, HangsJob DEF WireInv
<1> QED
  BY <1>1, <1>2

\* The fetch ends with onCancel (Abort, Timeout) or without (StreamEnds, Disconnect).
LEMMA PanelHangs ==
  ASSUME WireInv, PanelTrue, sub' = 0, job' = Closed(job, sub), blame \subseteq blame',
         UNCHANGED <<items, full, messageId, ask, log>>,
         UNCHANGED obj \/ Unsubscribe(messageId)
  PROVE  PanelTrue'
<1>1. Types /\ LastIsNewest /\ ItemsTrue /\ AllTold
  BY DEF PanelTrue, WireInv
<1>2. \A i \in Items : ItemKept(i)
  <2>1. CASE UNCHANGED obj
    BY <2>1 DEF ItemKept
  <2>2. CASE Unsubscribe(messageId)
    BY <1>1, <2>2, CancelKeeps
  <2> QED
    BY <2>1, <2>2
<1>3. /\ InFlight' \subseteq InFlight
      /\ \A r \in InFlight' : r \in Asks /\ job'[r] = job[r]
  BY HangAlone
<1>4. LastIsNewest'
  BY <1>1, NewestKept DEF Used
<1>5. ItemsTrue'
  BY <1>1, <1>2, SavedKept, TruthKept
<1>6. AllTold'
  <2>1. Asks \subseteq Items
    BY <1>1, Facts
  <2> QED
    BY <1>1, <1>2, <1>3, <2>1, ToldKept DEF ItemKept
<1> QED
  BY <1>4, <1>5, <1>6 DEF PanelTrue

\* A question that is asked alone: its item is the last and still blank, or
\* (WidgetReset) the panel is empty.
LEMMA PanelAsked ==
  ASSUME WireInv, PanelTrue, NEW r \in Asks, AskedAlone(r), blame \subseteq blame', UNCHANGED log,
         messageId' = <<>>, full' = <<>>, job'[r] = job[r],
         items' = <<>> \/ (items' # <<>> /\ items' # <<History>> /\ items'[Len(items')] = r),
         UNCHANGED obj \/ \E mid \in {messageId, <<>>} : Unsubscribe(mid)
  PROVE  PanelTrue'
<1>1. Types /\ LastIsNewest /\ ItemsTrue
  BY DEF PanelTrue, WireInv
<1>2. \A i \in Items : ItemKept(i)
  <2>1. CASE UNCHANGED obj
    BY <2>1 DEF ItemKept
  <2>2. ASSUME NEW mid \in {messageId, <<>>}, Unsubscribe(mid)  PROVE \A i \in Items : ItemKept(i)
    BY <1>1, <2>2, CancelKeeps
  <2> QED
    BY <2>1, <2>2
<1>3. Newest(r)' /\ ~Used(r) /\ obj[r] = Blank /\ InFlight' = {r}
  BY <1>1, AskMoves DEF AskedAlone
<1>4. job[r].pc = "idle" /\ job[r].k = 0 /\ job[r].wire = <<>>
  <2>1. job[r].pc = "idle"
    BY <1>3 DEF WireInv, ServerKnows, Connected, Used
  <2> QED
    BY <2>1 DEF WireInv, ServerKnows, Shape
<1>5. LastIsNewest'
  <2>1. items' # <<History>>
    OBVIOUS
  <2>2. items' # <<>> => Bottom' = r
    BY DEF Bottom
  <2>3. Newest(r)'
    BY <1>3
  <2>4. items' # <<>> => Newest(Bottom)'
    BY <2>2, <2>3 DEF Newest, Used
  <2> QED
    BY <2>1, <2>4 DEF LastIsNewest
<1>6. ItemsTrue'
  BY <1>1, <1>2, SavedKept, TruthKept
<1>7. obj'[r].text = <<>> /\ obj'[r].fin = FALSE
  <2>1. r \in Items
    BY <1>1, Facts
  <2> QED
    BY <1>2, <1>3, <2>1 DEF ItemKept, Blank
<1>8. IdTold(r)' /\ Told(r)'
  BY <1>4, <1>7 DEF IdTold, Told, Ahead, Body, At, Holds
<1>9. AllTold'
  BY <1>3, <1>8 DEF AllTold
<1> QED
  BY <1>5, <1>6, <1>9 DEF PanelTrue

\* The panel is emptied: what is still under way has no item to write to.
LEMMA PanelCleared ==
  ASSUME WireInv, PanelTrue, items' = <<>>, full' = <<>>, messageId' \in {messageId, <<>>},
         UNCHANGED <<ask, log>>, blame \subseteq blame',
         \/ UNCHANGED <<sub, job, obj>>
         \/ \E mid \in {messageId, <<>>} : Unsubscribe(mid)
  PROVE  PanelTrue'
<1>1. Types /\ LastIsNewest /\ ItemsTrue /\ AllTold
  BY DEF PanelTrue, WireInv
<1>2. \A i \in Items : ItemKept(i)
  <2>1. CASE UNCHANGED obj
    BY <2>1 DEF ItemKept
  <2>2. ASSUME NEW mid \in {messageId, <<>>}, Unsubscribe(mid)  PROVE \A i \in Items : ItemKept(i)
    BY <1>1, <2>2, CancelKeeps
  <2> QED
    BY <2>1, <2>2
<1>3. /\ InFlight' \subseteq InFlight /\ \A r \in InFlight' : job'[r] = job[r]
  <2>1. CASE UNCHANGED <<sub, job>>
    BY <2>1 DEF InFlight, Pending
  <2>2. ASSUME NEW mid, Unsubscribe(mid)
        PROVE InFlight' \subseteq InFlight /\ \A r \in InFlight' : job'[r] = job[r]
    BY <2>2, HangAlone DEF Unsubscribe, Cut
  <2> QED
    BY <2>1, <2>2
<1>4. LastIsNewest'
  BY <1>1, NewestKept DEF Used
<1>5. ItemsTrue'
  BY <1>1, <1>2, SavedKept, TruthKept
<1>6. ASSUME NEW r \in InFlight'  PROVE IdTold(r)'
  <2>1. IdTold(r) /\ job'[r] = job[r]
    BY <1>1, <1>3, <1>6 DEF AllTold
  <2> QED
    BY <2>1 DEF IdTold, At, Holds
<1>7. AllTold'
  BY <1>6 DEF AllTold
<1> QED
  BY <1>4, <1>5, <1>7 DEF PanelTrue

\* The first event of the wire and what stays behind it.
LEMMA FirstEvent ==
  ASSUME NEW pc, NEW k, NEW w \in Seq(Events), w # <<>>, Shape(pc, k, w)
  PROVE  /\ Tail(w) \in Seq(Events) /\ w[1] \in Events /\ pc \notin {"idle", "received"}
         /\ Holds(w, w[1].type)
         /\ w[1].type \in Ends => pc = "over" /\ Tail(w) = <<>> /\ Len(w) = 1
         /\ w[1].type = "message_id" => pc \notin {"idle", "received", "ask"} /\ ~Holds(Tail(w), "message_id")
         /\ w[1].type = "done" => k = Data /\ ~Holds(w, "message_id")
         /\ \A t : Holds(w, t) /\ t # w[1].type => Holds(Tail(w), t)
<1>1. /\ Tail(w) \in Seq(Events) /\ Len(w) \in Nat \ {0} /\ Len(Tail(w)) = Len(w) - 1
      /\ \A n \in 1..Len(Tail(w)) : Tail(w)[n] = w[n + 1]
      /\ w[1] \in Events /\ 1 \in 1..Len(w)
  BY TailEach
<1>2. pc \notin {"idle", "received"} /\ Holds(w, w[1].type)
  BY <1>1 DEF Shape, Holds
<1>3. ASSUME w[1].type \in Ends  PROVE pc = "over" /\ Tail(w) = <<>> /\ Len(w) = 1
  <2>1. 1 > Body(pc, w)
    BY <1>1, <1>3 DEF Shape
  <2>2. pc = "over" /\ Len(w) = 1
    BY <1>1, <2>1 DEF Body
  <2> QED
    BY <1>1, <2>2, SeqEach
<1>4. ASSUME w[1].type = "message_id"
      PROVE  pc \notin {"idle", "received", "ask"} /\ ~Holds(Tail(w), "message_id")
  <2>1. w[1].type \notin Opening
    BY <1>4 DEF Opening
  <2>2. pc # "ask"
    BY <1>1, <2>1 DEF Shape
  <2>3. ASSUME NEW n \in 1..Len(Tail(w)), Tail(w)[n].type = "message_id"  PROVE FALSE
    <3>1. n + 1 \in 1..Len(w) /\ w[n + 1].type = "message_id" /\ 1 \in 1..(n + 1 - 1)
      BY <1>1, <2>3
    <3>2. \A m \in 1..(n + 1 - 1) : w[m].type \in Opening
      BY <3>1 DEF Shape
    <3> QED
      BY <2>1, <3>1, <3>2
  <2> QED
    BY <1>2, <2>2, <2>3 DEF Holds
<1>5. w[1].type = "done" => k = Data
  BY <1>1 DEF Shape
<1>6. w[1].type = "done" => ~Holds(w, "message_id")
  <2> SUFFICES ASSUME w[1].type = "done", NEW n \in 1..Len(w), w[n].type = "message_id"  PROVE FALSE
    BY DEF Holds
  <2>1. Len(w) = 1
    BY <1>3 DEF Ends
  <2>2. n = 1
    BY <2>1
  <2> QED
    BY <2>2
<1>7. ASSUME NEW t, Holds(w, t), t # w[1].type  PROVE Holds(Tail(w), t)
  <2>1. PICK n \in 1..Len(w) : w[n].type = t
    BY <1>7 DEF Holds
  <2>2. n # 1
    BY <1>7, <2>1
  <2>3. n - 1 \in 1..Len(Tail(w)) /\ (n - 1) + 1 = n
    BY <1>1, <2>2
  <2>4. Tail(w)[n - 1].type = t
    BY <1>1, <2>1, <2>3
  <2> QED
    BY <2>3, <2>4 DEF Holds
<1> QED
  BY <1>1, <1>2, <1>3, <1>4, <1>5, <1>6, <1>7

\* An event that is no token and not the last one leaves the rest as told.
LEMMA ChunkPassive ==
  ASSUME WireInv, PanelTrue, NEW r \in Asks, r \in InFlight, InFlight' \subseteq {r},
         NEW w \in Seq(Events), w = job[r].wire, w # <<>>,
         job'[r].pc = job[r].pc, job'[r].k = job[r].k, job'[r].wire = Tail(w),
         w[1].type \notin Ends, w[1].type # "data", UNCHANGED <<items, full>>,
         obj'[r].text = obj[r].text, obj'[r].fin = obj[r].fin, blame \subseteq blame',
         \/ UNCHANGED messageId /\ (w[1].type # "message_id" \/ "torn" \in blame')
         \/ w[1].type = "message_id" /\ messageId' = <<r>>
  PROVE  AllTold'
<1>1. /\ Shape(job[r].pc, job[r].k, w) /\ job[r].k \in Nat /\ Len(full) \in Nat
  <2>1. job[r].k \in 0..Data /\ Data \in Nat
    BY Facts, BoundsAssumption DEF WireInv, Jobs, BoundsAssumption
  <2> QED
    BY <2>1, SeqEach, Facts DEF WireInv, ServerKnows
<1>2. IdTold(r) /\ (items # <<>> => Told(r))
  BY DEF PanelTrue, AllTold
<1>3. items # <<>> => Told(r)'
  <2> SUFFICES ASSUME items # <<>>  PROVE Told(r)'
    OBVIOUS
  <2>1. /\ Ahead(job[r].pc, job[r].k, w, Len(full))
        /\ \A n \in 1..Len(full) : full[n] = <<r, n>>
        /\ obj[r].text = full /\ ~obj[r].fin
    BY <1>2 DEF Told
  <2>2. Ahead(job[r].pc, job[r].k, Tail(w), Len(full))
    BY <1>1, <2>1, AheadTail
  <2> QED
    BY <2>1, <2>2 DEF Told, Ahead, Body
<1>4. IdTold(r)'
  <2>0. \A t : Holds(Tail(w), t) => Holds(w, t)
    BY HoldsTail
  <2>1. /\ \A t : Holds(w, t) /\ t # w[1].type => Holds(Tail(w), t)
        /\ w[1].type = "message_id" =>
             job[r].pc \notin {"idle", "received", "ask"} /\ ~Holds(Tail(w), "message_id")
    BY <1>1, FirstEvent
  <2>2. job[r].pc \in {"idle", "received", "ask"} \/ Holds(Tail(w), "message_id") => messageId' = <<>>
    BY <1>2, <2>0, <2>1 DEF IdTold
  <2>3. "torn" \notin blame' /\ items # <<>> /\ (At(r, "stream") \/ Holds(Tail(w), "done")) =>
          messageId' = <<r>> \/ Holds(Tail(w), "message_id")
    BY <1>2, <2>0, <2>1 DEF IdTold
  <2>4. \A t \in {"message_id", "done"} : Holds(job[r].wire, t)' <=> Holds(Tail(w), t)
    BY DEF Holds
  <2> QED
    BY <2>2, <2>3, <2>4 DEF IdTold, At
<1> QED
  BY <1>3, <1>4 DEF AllTold

\* After the last event nothing more is told.
LEMMA ChunkLast ==
  ASSUME NEW r, InFlight' \subseteq {r}, job'[r].pc = "over", job'[r].wire = <<>>
  PROVE  AllTold'
<1>1. IdTold(r)' /\ Told(r)'
  BY DEF IdTold, Told, At, Holds
<1> QED
  BY <1>1 DEF AllTold

\* What was finished stays as it is.
Stays == \A i \in Items : obj[i].fin => /\ obj'[i].fin /\ obj'[i].text = obj[i].text
                                        /\ obj'[i].refs = obj[i].refs

LEMMA KeptStays ==
  ASSUME \A i \in Items : ItemKept(i)  PROVE Stays
BY DEF ItemKept, Stays

LEMMA PanelChunk ==
  ASSUME WireInv, PanelTrue, ProcessChunk, \A s \in InFlight : s = sub, Newest(sub), blame \subseteq blame',
         NEW r \in Asks, sub = r, NEW w \in Seq(Events), job[r].wire = w
  PROVE  PanelTrue' /\ Stays
<1>0. /\ r \in Asks /\ UNCHANGED <<sub, ask, items, log>>
      /\ w # <<>> /\ w \in Seq(Events) /\ w[1] \in Events
      /\ job'[r].pc = job[r].pc /\ job'[r].k = job[r].k /\ job'[r].wire = Tail(w)
      /\ ~buffer => OnMessage(r, w[1]) /\ UNCHANGED blame
      /\ buffer => /\ blame' = blame \cup {"torn"}
                   /\ UNCHANGED <<obj, loading, convId, nonce, full, messageId>>
  BY ChunkJob
<1>1. /\ r \in InFlight /\ InFlight' \subseteq {r}
  BY <1>0 DEF InFlight, Pending, Asks
<1>2. /\ Types /\ LastIsNewest /\ ItemsTrue /\ AllTold /\ ServerKnows
      /\ obj \in [Items -> Objects] /\ full \in Seq(Asks \X (1..Data)) /\ messageId \in Seq(Asks)
      /\ Asks \subseteq Items /\ Data \in Nat
  BY Facts, BoundsAssumption DEF PanelTrue, WireInv, BoundsAssumption
<1>3. /\ Shape(job[r].pc, job[r].k, w) /\ job[r].k \in Nat /\ Len(full) \in Nat
  <2>1. job[r].k \in 0..Data
    BY <1>0, Facts DEF WireInv, Jobs
  <2> QED
    BY <1>0, <1>2, <2>1, SeqEach DEF ServerKnows
<1>4. /\ Holds(w, w[1].type) /\ Tail(w) \in Seq(Events)
      /\ w[1].type \in Ends => job[r].pc = "over" /\ Tail(w) = <<>> /\ Len(w) = 1
      /\ w[1].type = "message_id" => job[r].pc \notin {"idle", "received", "ask"}
      /\ w[1].type = "done" => job[r].k = Data /\ ~Holds(w, "message_id")
  BY <1>0, <1>3, FirstEvent
<1>5. IdTold(r) /\ (items # <<>> => Told(r))
  BY <1>1, <1>2 DEF AllTold
<1>6. items # <<>> => /\ Bottom = r /\ ~obj[r].fin /\ obj[r].text = full
                      /\ Ahead(job[r].pc, job[r].k, w, Len(full))
                      /\ \A n \in 1..Len(full) : full[n] = <<r, n>>
  BY <1>0, <1>2, <1>5, BottomNewest DEF Told
<1>a. Saved(r) => Saved(r)'
  BY <1>0 DEF Saved
<1>b. \A i \in Asks : Saved(i) => Saved(i)'
  BY <1>0 DEF Saved
<1>c. Saved(History) => Saved(History)'
  BY <1>0 DEF Saved
<1>n. \A s \in Asks : Newest(s)' <=> Newest(s)
  BY <1>0 DEF Newest, Used
<1>u. \A s \in Asks : Used(s)' <=> Used(s)
  BY <1>0 DEF Used
<1>e. "error" \in Ends /\ "done" \in Ends /\ "data" \notin Ends /\ "chunk_result" \notin Ends
      /\ "conversation_id" \notin Ends /\ "nonce" \notin Ends /\ "message_id" \notin Ends
  BY DEF Ends
\* Events that do not touch the items.
<1>7. CASE UNCHANGED <<obj, full>> /\ w[1].type # "data"
           /\ \/ UNCHANGED messageId /\ (w[1].type # "message_id" \/ "torn" \in blame')
              \/ w[1].type = "message_id" /\ messageId' = <<r>>
  <2>1. \A i \in Items : ItemKept(i)
    BY <1>7 DEF ItemKept
  <2>2. ItemsTrue'
    BY <1>2, <1>b, <1>c, <2>1, TruthKept
  <2>3. LastIsNewest'
    <3>1. CASE messageId' = messageId
      BY <1>0, <1>2, <1>7, <1>u, <3>1, NewestKept
    <3>2. CASE messageId' = <<r>>
      <4>1. Newest(r)
        OBVIOUS
      <4>2. \A n \in 1..Len(full) : full[n][1] \in Asks
        BY <1>2, SeqEach
      <4>3. items # <<>> => Bottom \in Items
        BY <1>2, LastItem
      <4>4. items' = <<History>> => \A s \in Asks : ~Used(s)'
        BY <1>0, <1>2, <1>u DEF LastIsNewest
      <4>6. ASSUME NEW n \in 1..Len(full)  PROVE Newest(full[n][1])'
        <5>1. full' = full /\ full[n][1] \in Asks /\ Newest(full[n][1])
          BY <1>2, <1>7, <4>2, <4>6 DEF LastIsNewest
        <5> QED
          BY <1>0, <5>1 DEF Newest, Used
      <4>5. items' # <<>> /\ items' # <<History>> => Newest(Bottom)'
        BY <1>0, <1>2 DEF LastIsNewest, Newest, Used, Bottom
      <4> QED
        BY <1>0, <1>7, <1>n, <3>2, <4>1, <4>4, <4>5, <4>6 DEF LastIsNewest
    <3> QED
      BY <1>7, <3>1, <3>2
  <2>4. AllTold'
    <3>1. CASE w[1].type \in Ends
      BY <1>0, <1>1, <1>4, <3>1, ChunkLast
    <3>2. CASE w[1].type \notin Ends
      <4>1. w = job[r].wire
        OBVIOUS
      <4>2. obj'[r].text = obj[r].text /\ obj'[r].fin = obj[r].fin /\ UNCHANGED <<items, full>>
        BY <1>0, <1>7
      <4> QED
        BY <1>0, <1>1, <1>7, <3>2, <4>1, <4>2, ChunkPassive
    <3> QED
      BY <3>1, <3>2
  <2> QED
    BY <2>1, <2>2, <2>3, <2>4, KeptStays DEF PanelTrue
<1>8. CASE buffer
  <2>1. w[1].type \in {"conversation_id", "message_id", "error"}
    BY <1>0, <1>2, <1>8 DEF ServerKnows, BufferFresh, Asks
  <2> QED
    BY <1>0, <1>7, <1>8, <2>1
<1>9. CASE ~buffer /\ w[1].type \in {"conversation_id", "nonce"}
  <2>1. UNCHANGED <<obj, full, messageId>>
    BY <1>0, <1>9 DEF OnMessage
  <2> QED
    BY <1>7, <1>9, <2>1
<1>10. CASE ~buffer /\ w[1].type = "message_id"
  <2>1. UNCHANGED <<obj, full>> /\ messageId' = Append(messageId, r)
    BY <1>0, <1>10 DEF OnMessage
  <2>2. messageId = <<>>
    BY <1>4, <1>5, <1>10 DEF IdTold
  <2>3. messageId' = <<r>>
    BY <2>1, <2>2
  <2> QED
    BY <1>7, <1>10, <2>1, <2>3
\* Events that write to the last item.
<1>s. \A item : SetLast(item) /\ (items # <<>> => item \in Objects) =>
        /\ items = <<>> => UNCHANGED obj
        /\ items # <<>> => obj'[r] = item /\ \A i \in Items : i # r => obj'[i] = obj[i]
  <2> SUFFICES ASSUME NEW item, SetLast(item), items # <<>> => item \in Objects
               PROVE  /\ items = <<>> => UNCHANGED obj
                      /\ items # <<>> => obj'[r] = item /\ \A i \in Items : i # r => obj'[i] = obj[i]
    OBVIOUS
  <2>1. \A i \in Items : obj'[i] = IF items # <<>> /\ i = Bottom THEN item ELSE obj[i]
    BY <1>2, SetLastMoves
  <2>2. items = <<>> => UNCHANGED obj
    BY DEF SetLast
  <2> QED
    BY <1>0, <1>2, <1>6, <2>1, <2>2
<1>o. items # <<>> => obj[Bottom] = obj[r] /\ obj[r] \in Objects
  BY <1>0, <1>2, <1>6
<1>11. CASE ~buffer /\ w[1].type = "error"
  <2> DEFINE item == [obj[Bottom] EXCEPT !.note = @ \cup {"failed"}]
  <2>1. SetLast(item) /\ UNCHANGED <<full, messageId>>
    BY <1>0, <1>11 DEF OnMessage
  <2>2. items # <<>> => /\ item \in Objects /\ item.text = obj[r].text /\ item.refs = obj[r].refs
                        /\ item.fin = obj[r].fin /\ item.mid = obj[r].mid /\ item.note # {}
    BY <1>o DEF Objects, Notes
  <2> HIDE DEF item
  <2>3. ASSUME NEW i \in Items  PROVE ItemKept(i)
    BY <1>s, <1>6, <2>1, <2>2 DEF ItemKept
  <2>4. ItemsTrue'
    BY <1>2, <1>b, <1>c, <2>3, TruthKept
  <2>5. LastIsNewest'
    BY <1>0, <1>2, <1>u, <2>1, NewestKept
  <2>6. AllTold'
    BY <1>0, <1>1, <1>4, <1>e, <1>11, ChunkLast
  <2> QED
    BY <2>3, <2>4, <2>5, <2>6, KeptStays DEF PanelTrue
<1>12. CASE ~buffer /\ w[1].type = "chunk_result"
  <2> DEFINE item == [obj[Bottom] EXCEPT !.refs = Append(@, r)]
  <2>1. SetLast(item) /\ UNCHANGED <<full, messageId>>
    BY <1>0, <1>12 DEF OnMessage
  <2>2. items # <<>> => /\ item \in Objects /\ item.text = obj[r].text
                        /\ item.refs = Append(obj[r].refs, r) /\ obj[r].refs \in Seq(Asks)
                        /\ item.fin = obj[r].fin /\ item.mid = obj[r].mid /\ item.note = obj[r].note
    <3> SUFFICES ASSUME items # <<>>
                 PROVE  /\ item \in Objects /\ item.text = obj[r].text
                        /\ item.refs = Append(obj[r].refs, r) /\ obj[r].refs \in Seq(Asks)
                        /\ item.fin = obj[r].fin /\ item.mid = obj[r].mid /\ item.note = obj[r].note
      OBVIOUS
    <3>1. obj[Bottom] = obj[r] /\ obj[r] \in Objects /\ obj[r].refs \in Seq(Asks)
      BY <1>o DEF Objects
    <3>2. Append(obj[r].refs, r) \in Seq(Asks)
      BY <1>0, <3>1, AppendEach
    <3> QED
      BY <3>1, <3>2 DEF Objects
  <2> HIDE DEF item
  <2>3. /\ items = <<>> => UNCHANGED obj
        /\ items # <<>> => obj'[r] = item /\ \A i \in Items : i # r => obj'[i] = obj[i]
    BY <1>s, <2>1, <2>2
  <2>4. ItemsTrue'
    <3>1. CASE items = <<>>
      <4>1. \A i \in Items : ItemKept(i)
        BY <2>3, <3>1 DEF ItemKept
      <4> QED
        BY <1>2, <1>b, <1>c, <4>1, TruthKept
    <3>2. CASE items # <<>>
      <4>1. ASSUME NEW i \in Items, i # r  PROVE OwnText(i)' /\ Finished(i)' /\ (i \in Asks => OwnMid(i)')
        <5>1. OwnText(i) /\ Finished(i) /\ (i \in Asks => OwnMid(i)) /\ obj'[i] = obj[i]
          BY <1>2, <2>3, <3>2, <4>1 DEF ItemsTrue
        <5>2. Saved(i) => Saved(i)'
          BY <1>0 DEF Saved
        <5> QED
          BY <5>1, <5>2 DEF OwnText, Finished, OwnMid, Answer
      <4>2. OwnText(r)'
        <5>1. OwnText(r)
          BY <1>0, <1>2 DEF ItemsTrue
        <5>2. /\ Len(obj'[r].refs) = Len(obj[r].refs) + 1 /\ Len(obj[r].refs) \in Nat
              /\ \A n \in 1..Len(obj[r].refs) : obj'[r].refs[n] = obj[r].refs[n]
              /\ obj'[r].refs[Len(obj[r].refs) + 1] = r
          <6>1. obj'[r].refs = Append(obj[r].refs, r) /\ obj[r].refs \in Seq(Asks)
            BY <2>2, <2>3, <3>2
          <6> QED
            BY <1>0, <6>1, AppendEach
        <5>3. \A n \in 1..Len(obj'[r].refs) : obj'[r].refs[n] = r
          <6>1. ASSUME NEW n \in 1..Len(obj'[r].refs)  PROVE obj'[r].refs[n] = r
            <7>1. n \in 1..Len(obj[r].refs) \/ n = Len(obj[r].refs) + 1
              BY <5>2
            <7> QED
              BY <5>1, <5>2, <7>1 DEF OwnText
          <6> QED
            BY <6>1
        <5>4. obj'[r].text = obj[r].text
          BY <1>0, <2>2, <2>3, <3>2
        <5> QED
          BY <5>1, <5>3, <5>4 DEF OwnText
      <4>3. Finished(r)' /\ OwnMid(r)'
        <5>1. Finished(r) /\ OwnMid(r)
          BY <1>0, <1>2 DEF ItemsTrue
        <5>2. obj'[r].text = obj[r].text /\ obj'[r].fin = obj[r].fin /\ obj'[r].mid = obj[r].mid
              /\ obj'[r].note = obj[r].note
          BY <1>0, <2>2, <2>3, <3>2
        <5> QED
          BY <1>a, <5>1, <5>2 DEF Finished, OwnMid, Answer, Saved
      <4>4. ASSUME NEW i \in Items  PROVE OwnText(i)' /\ Finished(i)' /\ (i \in Asks => OwnMid(i)')
        <5>1. CASE i = r
          BY <4>2, <4>3, <5>1
        <5> QED
          BY <4>1, <5>1
      <4> QED
        BY <1>2, <4>4 DEF ItemsTrue
    <3> QED
      BY <3>1, <3>2
  <2>5. LastIsNewest'
    BY <1>0, <1>2, <1>u, <2>1, NewestKept
  <2>6. AllTold'
    <3>1. w = job[r].wire
      OBVIOUS
    <3>2. obj'[r].text = obj[r].text /\ obj'[r].fin = obj[r].fin /\ UNCHANGED <<items, full, messageId>>
      BY <1>0, <2>1, <2>2, <2>3
    <3>3. w[1].type \notin Ends /\ w[1].type # "data" /\ w[1].type # "message_id"
      BY <1>e, <1>12
    <3> QED
      BY <1>0, <1>1, <3>1, <3>2, <3>3, ChunkPassive
  <2>7. Stays
    BY <1>6, <2>3 DEF Stays
  <2> QED
    BY <2>4, <2>5, <2>6, <2>7 DEF PanelTrue

<1>13. CASE ~buffer /\ w[1].type = "data"
  <2> DEFINE e == w[1]
             item == [obj[Bottom] EXCEPT !.text = full', !.note = {}]
  <2>1. SetLast(item) /\ full' = Append(full, <<r, e.k>>) /\ UNCHANGED messageId
    BY <1>0, <1>13 DEF OnMessage
  <2>2. e.k \in 1..Data
    BY <1>0, <1>13, EventsType
  <2>3. /\ full' \in Seq(Asks \X (1..Data)) /\ Len(full') = Len(full) + 1
        /\ \A n \in 1..Len(full) : full'[n] = full[n]
        /\ full'[Len(full) + 1] = <<r, e.k>>
    <3>1. <<r, e.k>> \in Asks \X (1..Data)
      BY <2>2
    <3> QED
      BY <1>2, <2>1, <3>1, AppendEach
  <2>c. \A n \in 1..Len(full') : n \in 1..Len(full) \/ n = Len(full) + 1
    BY <1>3, <2>3
  <2>4. items # <<>> => /\ item \in Objects /\ item.text = full' /\ item.refs = obj[r].refs
                        /\ item.fin = obj[r].fin /\ item.mid = obj[r].mid
    BY <1>o, <2>3 DEF Objects, Notes
  <2> HIDE DEF item
  <2>5. /\ items = <<>> => UNCHANGED obj
        /\ items # <<>> => obj'[r] = item /\ \A i \in Items : i # r => obj'[i] = obj[i]
    BY <1>s, <2>1, <2>4
  <2>6. items # <<>> => /\ e.k = Len(full) + 1 /\ Ahead(job[r].pc, job[r].k, Tail(w), Len(full) + 1)
                        /\ \A n \in 1..Len(full') : full'[n] = <<r, n>>
    <3> SUFFICES ASSUME items # <<>>
                 PROVE  /\ e.k = Len(full) + 1 /\ Ahead(job[r].pc, job[r].k, Tail(w), Len(full) + 1)
                        /\ \A n \in 1..Len(full') : full'[n] = <<r, n>>
      OBVIOUS
    <3>1. e.k = Len(full) + 1 /\ Ahead(job[r].pc, job[r].k, Tail(w), Len(full) + 1)
      BY <1>0, <1>3, <1>6, <1>e, <1>13, AheadTail
    <3> HIDE DEF e
    <3>2. ASSUME NEW n \in 1..Len(full')  PROVE full'[n] = <<r, n>>
      <4>1. CASE n \in 1..Len(full)
        BY <1>6, <2>3, <4>1
      <4>2. CASE n = Len(full) + 1
        BY <2>3, <3>1, <4>2
      <4> QED
        BY <2>c, <4>1, <4>2
    <3> QED
      BY <3>1, <3>2
  <2> HIDE DEF e
  <2>7. LastIsNewest'
    <3>1. ASSUME NEW n \in 1..Len(full')  PROVE Newest(full[n][1])'
      <4>1. CASE n \in 1..Len(full)
        <5>1. Newest(full[n][1]) /\ full[n][1] \in Asks /\ full'[n] = full[n]
          BY <1>2, <2>3, <4>1, SeqEach DEF LastIsNewest
        <5>2. full'[n][1] = full[n][1]
          BY <5>1
        <5> QED
          BY <1>0, <5>1, <5>2 DEF Newest, Used
      <4>2. CASE n = Len(full) + 1
        <5>1. full'[n][1] = r
          BY <2>3, <4>2
        <5> QED
          BY <1>0, <5>1 DEF Newest, Used
      <4> QED
        BY <2>c, <4>1, <4>2
    <3>2. items' = <<History>> => \A s \in Asks : ~Used(s)'
      BY <1>0, <1>2, <1>u DEF LastIsNewest
    <3>3. items' # <<>> /\ items' # <<History>> => Newest(Bottom)'
      BY <1>0, <1>2 DEF LastIsNewest, Newest, Used, Bottom
    <3>4. messageId' # <<>> => \E s \in Asks : Newest(s)' /\ messageId' = <<s>>
      BY <1>2, <1>n, <2>1 DEF LastIsNewest
    <3> QED
      BY <3>1, <3>2, <3>3, <3>4 DEF LastIsNewest
  <2>8. ASSUME NEW i \in Items  PROVE OwnText(i)' /\ Finished(i)' /\ (i \in Asks => OwnMid(i)')
    <3>0. OwnText(i) /\ Finished(i) /\ (i \in Asks => OwnMid(i))
      BY <1>2 DEF ItemsTrue
    <3>1. CASE items = <<>> \/ i # r
      <4>1. obj'[i] = obj[i]
        BY <2>5, <3>1
      <4>2. Saved(i) => Saved(i)'
        BY <1>0 DEF Saved
      <4> QED
        BY <3>0, <4>1, <4>2 DEF OwnText, Finished, OwnMid, Answer
    <3>2. CASE items # <<>> /\ i = r
      <4>1. /\ obj'[r].text = full' /\ obj'[r].refs = obj[r].refs /\ ~obj'[r].fin
            /\ obj'[r].mid = obj[r].mid
        BY <1>6, <2>4, <2>5, <3>2
      <4>2. \A n \in 1..Len(full') : full'[n][1] = r
        BY <2>6, <3>2
      <4> QED
        BY <3>0, <3>2, <4>1, <4>2 DEF OwnText, Finished, OwnMid
    <3> QED
      BY <3>1, <3>2
  <2>9. ItemsTrue'
    BY <1>2, <2>8 DEF ItemsTrue
  <2>10. items' # <<>> => Told(r)'
    <3> SUFFICES ASSUME items # <<>>  PROVE Told(r)'
      BY <1>0
    <3>1. obj'[r].text = full' /\ ~obj'[r].fin
      BY <1>6, <2>4, <2>5
    <3>2. Ahead(job[r].pc, job[r].k, job[r].wire, Len(full))'
      <4>1. job'[r].pc = job[r].pc /\ job'[r].k = job[r].k /\ job'[r].wire = Tail(w)
        BY <1>0
      <4>2. Len(full') = Len(full) + 1
        BY <2>3
      <4>3. Ahead(job[r].pc, job[r].k, Tail(w), Len(full) + 1)
        BY <2>6
      <4>4. Ahead(job'[r].pc, job'[r].k, job'[r].wire, Len(full'))
        BY <4>1, <4>2, <4>3
      <4> QED
        BY <4>4 DEF Ahead, Body
    <3> QED
      BY <2>6, <3>1, <3>2 DEF Told
  <2>11. IdTold(r)'
    <3>1. \A t : Holds(Tail(w), t) => Holds(w, t)
      BY <1>0, HoldsTail
    <3>2. Holds(w, "message_id") => Holds(Tail(w), "message_id")
      BY <1>0, <1>3, <1>13, FirstEvent
    <3>3. \A t \in {"message_id", "done"} : Holds(job[r].wire, t)' <=> Holds(Tail(w), t)
      BY <1>0 DEF Holds
    <3>4. "torn" \notin blame' => "torn" \notin blame
      OBVIOUS
    <3> QED
      BY <1>0, <1>5, <2>1, <3>1, <3>2, <3>3, <3>4 DEF IdTold, At
  <2>12. AllTold'
    BY <1>1, <2>10, <2>11 DEF AllTold
  <2>13. Stays
    BY <1>6, <2>5 DEF Stays
  <2> QED
    BY <2>7, <2>9, <2>12, <2>13 DEF PanelTrue
<1>14. CASE ~buffer /\ w[1].type = "done"
  <2> DEFINE item == [obj[Bottom] EXCEPT !.mid = messageId, !.fin = TRUE]
  <2>1. SetLast(item) /\ full' = <<>> /\ UNCHANGED messageId
    BY <1>0, <1>14 DEF OnMessage
  <2>2. items # <<>> => /\ item \in Objects /\ item.text = obj[r].text /\ item.refs = obj[r].refs
                        /\ item.fin = TRUE /\ item.mid = messageId /\ item.note = obj[r].note
    BY <1>2, <1>o DEF Objects
  <2> HIDE DEF item
  <2>3. /\ items = <<>> => UNCHANGED obj
        /\ items # <<>> => obj'[r] = item /\ \A i \in Items : i # r => obj'[i] = obj[i]
    BY <1>s, <2>1, <2>2
  <2>4. LastIsNewest'
    BY <1>0, <1>2, <1>u, <2>1, NewestKept
  <2>5. AllTold'
    BY <1>0, <1>1, <1>4, <1>e, <1>14, ChunkLast
  <2>6. items # <<>> => full = Answer(r)
    <3> SUFFICES ASSUME items # <<>>  PROVE full = Answer(r)
      OBVIOUS
    <3>1. Body(job[r].pc, w) = 0
      BY <1>4, <1>e, <1>14 DEF Body
    <3>2. Len(full) = Data
      <4>1. Len(full) <= job[r].k /\ job[r].k - Len(full) <= 0
        BY <1>6, <3>1 DEF Ahead
      <4>2. job[r].k = Data
        BY <1>4, <1>14
      <4> QED
        BY <1>2, <1>3, <4>1, <4>2
    <3>3. \A n \in 1..Data : full[n] = <<r, n>>
      BY <1>6, <3>2
    <3>4. full = [n \in 1..Len(full) |-> full[n]]
      BY <1>2
    <3> QED
      BY <3>2, <3>3, <3>4 DEF Answer
  <2>7. Saved(r)
    BY <1>2, <1>4, <1>14 DEF ServerKnows, RowsKnown
  <2>8. messageId \in {<<>>, <<r>>}
    <3>1. Newest(r)
      OBVIOUS
    <3> QED
      BY <1>2, <3>1, OneNewest DEF LastIsNewest
  <2>9. items # <<>> /\ "torn" \notin blame => messageId = <<r>>
    BY <1>4, <1>5, <1>14 DEF IdTold
  <2>10. ASSUME NEW i \in Items  PROVE OwnText(i)' /\ Finished(i)' /\ (i \in Asks => OwnMid(i)')
    <3>0. OwnText(i) /\ Finished(i) /\ (i \in Asks => OwnMid(i))
      BY <1>2 DEF ItemsTrue
    <3>1. CASE items = <<>> \/ i # r
      <4>1. obj'[i] = obj[i]
        BY <2>3, <3>1
      <4>2. Saved(i) => Saved(i)'
        BY <1>0 DEF Saved
      <4> QED
        BY <3>0, <4>1, <4>2 DEF OwnText, Finished, OwnMid, Answer
    <3>2. CASE items # <<>> /\ i = r
      <4>1. /\ obj'[r].text = obj[r].text /\ obj'[r].refs = obj[r].refs
            /\ obj'[r].mid = messageId
        BY <2>2, <2>3, <3>2
      <4>2. obj'[r].text = Answer(r)
        BY <1>6, <2>6, <3>2, <4>1
      <4>3. OwnText(r)'
        BY <3>0, <3>2, <4>1 DEF OwnText
      <4>4. Finished(r)'
        BY <1>a, <2>7, <4>2 DEF Finished, Answer
      <4>5. OwnMid(r)'
        <5>1. "torn" \in blame => "torn" \in blame'
          OBVIOUS
        <5> QED
          BY <2>8, <2>9, <3>2, <4>1, <5>1 DEF OwnMid
      <4> QED
        BY <3>2, <4>3, <4>4, <4>5
    <3> QED
      BY <3>1, <3>2
  <2>11. ItemsTrue'
    BY <1>2, <2>10 DEF ItemsTrue
  <2>12. Stays
    BY <2>2, <2>3 DEF Stays
  <2> QED
    BY <2>4, <2>5, <2>11, <2>12 DEF PanelTrue
<1>15. ~buffer => w[1].type \in {"conversation_id", "nonce", "message_id", "error", "chunk_result", "data", "done"}
  BY <1>0 DEF OnMessage
<1> QED
  BY <1>8, <1>9, <1>10, <1>11, <1>12, <1>13, <1>14, <1>15

\* A step of the goroutine adds to the wire and to the rows.
LEMMA PanelServed ==
  ASSUME WireInv, Types', PanelTrue, NEW q \in Asks, Served(q), UNCHANGED client,
         AddsRow(q), blame \subseteq blame', InFlight \subseteq Asks
  PROVE  PanelTrue' /\ Stays
<1>0. /\ Types /\ ServerKnows /\ LastIsNewest /\ ItemsTrue /\ AllTold
      /\ UNCHANGED <<items, obj, full, messageId, ask, sub>>
      /\ job[q].wire \in Seq(Events) /\ Shape(job[q].pc, job[q].k, job[q].wire) /\ Len(full) \in Nat
  BY SeqEach, Facts DEF WireInv, ServerKnows, PanelTrue, client, Jobs
<1>1. InFlight' = InFlight /\ \A s \in Asks : Used(s)' <=> Used(s)
  BY <1>0 DEF InFlight, Pending, Used
<1>2. \A i \in Items : ItemKept(i)
  BY <1>0 DEF ItemKept
<1>3. LastIsNewest'
  BY <1>0, <1>1, NewestKept
<1>4. ItemsTrue'
  <2>1. \A c \in Asks : Grows(log[c], log'[c])
    BY <1>0, LogGrows
  <2>2. \A i : Saved(i) => Saved(i)'
    BY <1>0, <2>1, SavedStays
  <2>3. (\A i \in Asks : Saved(i) => Saved(i)') /\ (Saved(History) => Saved(History)')
    BY <2>2
  <2> QED
    BY <1>0, <1>2, <2>3, TruthKept
<1>5. ASSUME NEW s \in InFlight, s # q  PROVE IdTold(s)' /\ (items' # <<>> => Told(s)')
  <2>1. job'[s] = job[s]
    BY <1>5 DEF Served, Opens, Fails, Enters, Speaks, Closes, Sends
  <2>2. IdTold(s) /\ (items # <<>> => Told(s))
    BY <1>0 DEF AllTold
  <2>3. IdTold(s)'
    BY <1>0, <2>1, <2>2 DEF IdTold, At, Holds
  <2>4. items' # <<>> => Told(s)'
    BY <1>0, <2>1, <2>2 DEF Told, Ahead, Body, At
  <2> QED
    BY <2>3, <2>4
<1>6. ASSUME q \in InFlight  PROVE IdTold(q)' /\ (items' # <<>> => Told(q)')
  <2>0. IdTold(q) /\ (items # <<>> => Told(q))
    BY <1>0, <1>6 DEF AllTold
  <2>1. job[q].open
    <3>1. job[q].pc # "idle"
      BY DEF Served, Opens, Fails, Enters, Speaks, Closes, At
    <3>2. q \notin Pending
      BY <1>0, <3>1 DEF ServerKnows, Connected, Pending
    <3> QED
      BY <1>0, <1>6, <3>2 DEF InFlight, ServerKnows, Connected
  <2>2. items' # <<>> => Told(q)'
    <3> SUFFICES ASSUME items # <<>>  PROVE Told(q)'
      BY <1>0
    <3>1. ~At(q, "over")
      BY DEF Served, Opens, Fails, Enters, Speaks, Closes, At
    <3>2. /\ Ahead(job[q].pc, job[q].k, job[q].wire, Len(full))
          /\ \A n \in 1..Len(full) : full[n] = <<q, n>>
          /\ obj[q].text = full /\ ~obj[q].fin
      BY <2>0, <3>1 DEF Told
    <3>3. Ahead(job'[q].pc, job'[q].k, job'[q].wire, Len(full))
      BY <1>0, <2>1, <3>2, AheadServed
    <3> QED
      BY <1>0, <3>2, <3>3 DEF Told, Ahead, Body
  <2>t. "error" \in EventTypes /\ "done" \in EventTypes /\ "message_id" \in EventTypes
        /\ "chunk_result" \in EventTypes /\ "conversation_id" \in EventTypes /\ "nonce" \in EventTypes
    BY DEF EventTypes
  <2>n. \A n \in 1..2 : n = 1 \/ n = 2
    OBVIOUS
  <2>h. \A t \in {"message_id", "done"} : Holds(job[q].wire, t)' <=> Holds(job'[q].wire, t)
    BY DEF Holds
  <2>3. IdTold(q)'
    <3>1. CASE Opens(q) \/ Fails(q)
      <4>1. messageId = <<>> /\ job[q].pc \in {"received", "ask"}
        BY <2>0, <3>1 DEF IdTold, Opens, Fails, At
      <4>2. ~Holds(job[q].wire, "done")
        BY <1>0, <4>1 DEF Shape, Holds, Opening
      <4>3. PICK es \in Seq(Events), pc \in {"ask", "over"} : Sends(q, es, pc, job[q].k) /\ ~Holds(es, "done")
        <5>1. Told1("error") \in Seq(Events) /\ ~Holds(Told1("error"), "done")
          BY <2>t, ToldType DEF Holds
        <5>2. Told2("conversation_id", "nonce") \in Seq(Events) /\ ~Holds(Told2("conversation_id", "nonce"), "done")
          <6> DEFINE two == Told2("conversation_id", "nonce")
          <6>1. /\ two \in Seq(Events) /\ Len(two) = 2
                /\ two[1].type = "conversation_id" /\ two[2].type = "nonce"
            BY <2>t, ToldType
          <6> HIDE DEF two
          <6>2. \A n \in 1..Len(two) : two[n].type \in {"conversation_id", "nonce"}
            BY <2>n, <6>1
          <6>3. two \in Seq(Events) /\ ~Holds(two, "done")
            BY <6>1, <6>2 DEF Holds
          <6> QED
            BY <6>3 DEF two
        <5>3. <<>> \in Seq(Events) /\ ~Holds(<<>>, "done")
          BY EmptySeq DEF Holds
        <5> QED
          BY <3>1, <5>1, <5>2, <5>3 DEF Opens, Fails
      <4>4. ~Holds(job'[q].wire, "done") /\ job'[q].pc # "stream"
        BY <1>0, <2>1, <4>2, <4>3, HoldsJoin DEF Sends
      <4> QED
        BY <1>0, <2>h, <4>1, <4>4 DEF IdTold, At
    <3>2. CASE Enters(q)
      <4>1. messageId = <<>>
        BY <2>0, <3>2 DEF IdTold, Enters, At
      <4>2. PICK es \in Seq(Events), pc \in {"stream", "over"} : Sends(q, es, pc, job[q].k) /\ Holds(es, "message_id")
        <5>1. \A t \in {"chunk_result", "error"} :
                Told2("message_id", t) \in Seq(Events) /\ Holds(Told2("message_id", t), "message_id")
          <6> SUFFICES ASSUME NEW t \in {"chunk_result", "error"}
                       PROVE  Told2("message_id", t) \in Seq(Events) /\ Holds(Told2("message_id", t), "message_id")
            OBVIOUS
          <6> DEFINE two == Told2("message_id", t)
          <6>1. two \in Seq(Events) /\ Len(two) = 2 /\ two[1].type = "message_id"
            BY <2>t, ToldType
          <6> HIDE DEF two
          <6>2. 1 \in 1..Len(two)
            BY <6>1
          <6>3. Holds(two, "message_id")
            BY <6>1, <6>2 DEF Holds
          <6> QED
            BY <6>1, <6>3 DEF two
        <5> QED
          BY <3>2, <5>1 DEF Enters
      <4>3. Holds(job'[q].wire, "message_id")
        BY <1>0, <2>1, <4>2, HoldsJoin DEF Sends
      <4> QED
        BY <1>0, <2>h, <4>1, <4>3 DEF IdTold
    <3>3. CASE Speaks(q) \/ Closes(q)
      <4>1. PICK es \in Seq(Events), pc \in {"stream", "over"}, k \in Nat :
              Sends(q, es, pc, k) /\ ~Holds(es, "message_id")
        <5>1. \A t \in {"error", "done"} : Told1(t) \in Seq(Events) /\ ~Holds(Told1(t), "message_id")
          BY <2>t, ToldType DEF Holds
        <5>2. job[q].k \in Nat /\ job[q].k + 1 \in Nat
          BY <1>0, Facts DEF Jobs
        <5>3. CASE Speaks(q)
          <6> DEFINE e == [type |-> "data", k |-> job[q].k + 1]
          <6>1. e \in Events
            BY <1>0, <5>3, Facts, EventsType, BoundsAssumption DEF Jobs, Speaks, BoundsAssumption
          <6>2. e.type = "data"
            OBVIOUS
          <6> HIDE DEF e
          <6>3. <<e>> \in Seq(Events) /\ Len(<<e>>) = 1 /\ <<e>>[1] = e
            BY <6>1
          <6>4. ~Holds(<<e>>, "message_id")
            BY <6>2, <6>3 DEF Holds
          <6>5. Sends(q, <<e>>, "stream", job[q].k + 1)
            BY <5>3 DEF Speaks, e
          <6> QED
            BY <5>2, <6>3, <6>4, <6>5
        <5>4. CASE Closes(q)
          BY <5>1, <5>2, <5>4 DEF Closes
        <5> QED
          BY <3>3, <5>3, <5>4
      <4>2. Holds(job'[q].wire, "message_id") <=> Holds(job[q].wire, "message_id")
        BY <1>0, <2>1, <4>1, HoldsJoin DEF Sends
      <4>3. At(q, "stream") /\ job'[q].pc \in {"stream", "over"}
        BY <3>3, <4>1 DEF Speaks, Closes, Sends
      <4>4. "torn" \notin blame' => "torn" \notin blame
        OBVIOUS
      <4> QED
        BY <1>0, <2>0, <2>h, <4>2, <4>3, <4>4 DEF IdTold, At
    <3> QED
      BY <3>1, <3>2, <3>3 DEF Served
  <2> QED
    BY <2>2, <2>3
<1>7. AllTold'
  BY <1>1, <1>5, <1>6 DEF AllTold
<1> QED
  BY <1>2, <1>3, <1>4, <1>7, KeptStays DEF PanelTrue

\* The request goes out: nothing has been told of its answer.
LEMMA PanelSubscribed ==
  ASSUME WireInv, PanelTrue, NEW r \in Asks, Subscribe(r), blame \subseteq blame',
         \A s \in InFlight : s = r
  PROVE  PanelTrue' /\ Stays
<1>0. /\ Types /\ ServerKnows /\ LastIsNewest /\ ItemsTrue /\ AllTold
      /\ UNCHANGED <<items, obj, full, messageId, log>>
  BY DEF WireInv, PanelTrue, Subscribe
<1>1. /\ sub' = r /\ job[r].pc = "idle" /\ job[r].k = 0
      /\ job'[r].pc = "received" /\ job'[r].k = 0 /\ job'[r].wire = <<>>
  BY SubscribeJob
<1>2. job[r].wire = <<>>
  BY <1>0, <1>1 DEF ServerKnows, Shape
<1>3. /\ r \in InFlight /\ InFlight' \subseteq {r} /\ \A s \in Asks : Used(s)' <=> Used(s)
  <2>1. ask[r].phase = "captcha" /\ ask' = [ask EXCEPT ![r].phase = "sent"]
    BY DEF Subscribe
  <2>2. ask[r].phase # "unused" /\ "sent" \in {"captcha", "sent", "over"}
    BY <2>1
  <2>3. /\ \A s \in Asks : s # r => ask'[s] = ask[s]
        /\ \A s \in Asks : Used(s)' <=> Used(s)
        /\ ask'[r].phase = "sent"
    BY <1>0, <2>1, <2>2, PhaseMoves
  <2> QED
    BY <1>1, <2>1, <2>3 DEF InFlight, Pending
<1>4. IdTold(r) /\ (items # <<>> => Told(r))
  BY <1>0, <1>3 DEF AllTold
<1>5. IdTold(r)'
  BY <1>0, <1>1, <1>4 DEF IdTold, At, Holds
<1>6. items' # <<>> => Told(r)'
  <2> SUFFICES ASSUME items # <<>>  PROVE Told(r)'
    BY <1>0
  <2>1. /\ Ahead("idle", 0, <<>>, Len(full)) /\ obj[r].text = full /\ ~obj[r].fin
        /\ \A n \in 1..Len(full) : full[n] = <<r, n>>
    BY <1>1, <1>2, <1>4 DEF Told, At
  <2>2. Ahead("received", 0, <<>>, Len(full))
    BY <2>1 DEF Ahead, Body
  <2>3. Ahead(job'[r].pc, job'[r].k, job'[r].wire, Len(full'))
    BY <1>0, <1>1, <2>2
  <2> QED
    BY <1>0, <2>1, <2>3 DEF Told, Ahead, Body
<1>7. AllTold'
  BY <1>3, <1>5, <1>6 DEF AllTold
<1>8. \A i \in Items : ItemKept(i)
  BY <1>0 DEF ItemKept
<1>9. LastIsNewest'
  BY <1>0, <1>3, NewestKept
<1>10. ItemsTrue'
  BY <1>0, <1>8, SavedKept, TruthKept
<1> QED
  BY <1>7, <1>8, <1>9, <1>10, KeptStays DEF PanelTrue

\* Nothing is asked by a step that leaves the same questions asked.
LEMMA NoneAsked ==
  ASSUME Types, Next, "overlap" \notin blame', \A s \in Asks : Used(s)' <=> Used(s)
  PROVE  NothingNew
<1>1. ASSUME NEW r \in Asks, AskedAlone(r)  PROVE FALSE
  <2>1. Asked1(r)
    BY <1>1 DEF AskedAlone
  <2>2. ~Used(r) /\ Newest(r)'
    BY <2>1, AskMoves
  <2>3. Used(r)'
    BY <2>2 DEF Newest
  <2> QED
    BY <2>2, <2>3
<1> QED
  BY <1>1, Flight

\* A step that tells nothing and writes to no item but its score.
LEMMA PanelIdle ==
  ASSUME WireInv, PanelTrue, NothingNew, UNCHANGED <<items, full, messageId, job>>,
         \A i : Saved(i) => Saved(i)', blame \subseteq blame',
         \A i \in Items : /\ obj'[i].text = obj[i].text /\ obj'[i].refs = obj[i].refs
                          /\ obj'[i].fin = obj[i].fin /\ obj'[i].mid = obj[i].mid
                          /\ obj'[i].note = obj[i].note
  PROVE  PanelTrue' /\ Stays
<1>0. /\ Types /\ LastIsNewest /\ ItemsTrue /\ AllTold
      /\ InFlight' \subseteq InFlight /\ \A s \in Asks : Used(s)' <=> Used(s)
  BY DEF WireInv, PanelTrue, NothingNew
<1>1. \A i \in Items : ItemKept(i)
  BY DEF ItemKept
<1>2. LastIsNewest'
  BY <1>0, NewestKept
<1>3. ItemsTrue'
  BY <1>0, <1>1, TruthKept
<1>4. AllTold'
  <2>1. InFlight \subseteq Items
    BY <1>0, Facts DEF InFlight, Pending
  <2> QED
    BY <1>0, <2>1, ToldKept
<1> QED
  BY <1>1, <1>2, <1>3, <1>4, KeptStays DEF PanelTrue

\* A question takes its item when it is asked: the last of the panel.
LEMMA SearchAlone ==
  ASSUME Types, NEW r \in Asks, NEW reset, Search(r, reset)
  PROVE  items' # <<>> /\ items' # <<History>> /\ items'[Len(items')] = r
<1>1. items' # <<>> /\ items'[Len(items')] = r
  BY SearchMoves
<1>2. CASE items' = <<History>>
  <2>1. items'[Len(items')] = History
    BY <1>2
  <2> QED
    BY <1>1, <2>1, Facts
<1> QED
  BY <1>1, <1>2

LEMMA PanelNext ==
  ASSUME WireInv, OneQuestion, PanelTrue, Next, Clean'
  PROVE  PanelTrue' /\ Stays
<1>0. /\ Types /\ blame \subseteq blame' /\ "overlap" \notin blame' /\ "list" \notin blame'
      /\ "overlap" \notin blame /\ sub \in Items /\ 0 \notin Asks /\ LastIsNewest
  BY CountsKept, Facts DEF WireInv, Clean, Mixes, Asks, PanelTrue
<1>1. InFlight \subseteq Asks /\ \A r \in InFlight : \A s \in InFlight : r = s
  BY <1>0, OneInFlight
<1>b. Blame(InFlight # {}, "overlap") => InFlight = {} /\ Pending = {} /\ sub = 0
  BY <1>0 DEF Blame, InFlight
<1>k. UNCHANGED obj \/ (\E mid \in {messageId, <<>>} : Unsubscribe(mid)) => Stays
  <2>1. CASE UNCHANGED obj
    BY <2>1 DEF Stays
  <2>2. ASSUME NEW mid \in {messageId, <<>>}, Unsubscribe(mid)  PROVE Stays
    BY <1>0, <2>2, CancelKeeps, KeptStays
  <2> QED
    BY <2>1, <2>2
<1>j. \A r \in Asks : ~Used(r) /\ job' = Closed(job, sub) => job'[r] = job[r]
  <2> SUFFICES ASSUME NEW r \in Asks, ~Used(r), job' = Closed(job, sub)  PROVE job'[r] = job[r]
    OBVIOUS
  <2>1. ask[r].phase # "sent"
    BY DEF Used
  <2>2. r # sub
    BY <2>1 DEF WireInv, ServerKnows, Connected
  <2> QED
    BY <1>0, <2>2, HangsJob
<1>2. CASE Abort \/ Timeout
  <2>1. /\ Unsubscribe(messageId) /\ UNCHANGED <<items, full, messageId, ask, log>>
    BY <1>2 DEF Abort, Timeout
  <2>2. sub' = 0 /\ job' = Closed(job, sub)
    BY <2>1 DEF Unsubscribe, Cut
  <2> QED
    BY <1>0, <1>k, <2>1, <2>2, PanelHangs
<1>3. CASE StreamEnds \/ Disconnect
  <2>1. /\ sub' = 0 /\ job' = Closed(job, sub)
        /\ UNCHANGED <<items, full, messageId, ask, log, obj>>
    BY <1>3 DEF StreamEnds, Disconnect, Cut
  <2> QED
    BY <1>0, <1>k, <2>1, PanelHangs
<1>4. CASE ProcessChunk
  <2>1. sub \in Asks
    BY <1>4, ChunkJob
  <2>2. sub \in InFlight
    BY <1>0, <2>1 DEF InFlight
  <2>3. Newest(sub) /\ \A s \in InFlight : s = sub
    BY <1>0, <1>1, <2>2 DEF OneQuestion
  <2>4. job[sub].wire \in Seq(Events)
    BY <1>4, ChunkJob
  <2> QED
    BY <1>0, <1>4, <2>1, <2>3, <2>4, PanelChunk
<1>5. ASSUME NEW r \in Asks, NEW b, Enter(r, b)  PROVE PanelTrue' /\ Stays
  <2>1. Asked1(r) /\ sub' = sub /\ Blame(InFlight # {}, "overlap") /\ UNCHANGED <<obj, job, log>>
        /\ Search(r, b)
    BY <1>5 DEF Enter, Search, Asked1, server
  <2>2. AskedAlone(r)
    BY <1>0, <1>b, <2>1, AskedFlight
  <2>3. items' # <<>> /\ items' # <<History>> /\ items'[Len(items')] = r
    BY <1>0, <2>1, SearchAlone
  <2>4. messageId' = <<>> /\ full' = <<>>
    BY <2>1 DEF Search
  <2> QED
    BY <1>0, <1>k, <2>1, <2>2, <2>3, <2>4, PanelAsked
<1>6. ASSUME NEW r \in Asks, Send(r)  PROVE PanelTrue' /\ Stays
  <2>1. Asked1(r) /\ UNCHANGED log /\ Search(r, FALSE)
        /\ blame' = blame \cup (IF Pending # {} THEN {"overlap"} ELSE {})
                      \cup (IF sub # 0 THEN {"cut"} ELSE {})
    BY <1>6 DEF Send, Search, Asked1
  <2>2. PICK mid \in {messageId, <<>>} : Unsubscribe(mid)
    BY <1>6 DEF Send
  <2>3. sub' = 0 /\ job' = Closed(job, sub) /\ Pending = {}
    BY <1>0, <2>1, <2>2 DEF Unsubscribe, Cut
  <2>4. AskedAlone(r)
    BY <1>0, <2>1, <2>3, AskedFlight
  <2>5. items' # <<>> /\ items' # <<History>> /\ items'[Len(items')] = r
    BY <1>0, <2>1, SearchAlone
  <2>6. messageId' = <<>> /\ full' = <<>>
    BY <2>1 DEF Search
  <2>7. job'[r] = job[r]
    BY <1>j, <2>1, <2>3 DEF Asked1, Used
  <2>8. \E m \in {messageId, <<>>} : Unsubscribe(m)
    BY <2>2
  <2> QED
    BY <1>0, <1>k, <2>1, <2>4, <2>5, <2>6, <2>7, <2>8, PanelAsked
<1>7. CASE Reset
  <2>1. /\ items' = <<>> /\ full' = <<>> /\ messageId' = <<>> /\ UNCHANGED <<ask, log>>
        /\ UNCHANGED <<sub, job, obj>> \/ Unsubscribe(<<>>)
    BY <1>7 DEF Reset, ClearPanel, Unsubscribe
  <2>2. UNCHANGED <<sub, job, obj>> \/ \E mid \in {messageId, <<>>} : Unsubscribe(mid)
    BY <2>1
  <2> QED
    BY <1>0, <1>k, <2>1, <2>2, PanelCleared
<1>8. ASSUME NEW r \in Asks, NEW b, WidgetReset(r, b)  PROVE PanelTrue' /\ Stays
  <2>1. /\ items' = <<>> /\ full' = <<>> /\ UNCHANGED log
        /\ UNCHANGED <<sub, job, obj>> \/ Unsubscribe(messageId)
    BY <1>8 DEF WidgetReset, ClearPanel, Unsubscribe
  <2>2. UNCHANGED <<sub, job, obj>> \/ \E mid \in {messageId, <<>>} : Unsubscribe(mid)
    BY <2>1
  <2>3. CASE UNCHANGED <<ask, messageId>>
    BY <1>0, <1>k, <2>1, <2>2, <2>3, PanelCleared
  <2>4. CASE b /\ ~loading
    <3>1. Asked1(r) /\ messageId' = <<>> /\ Blame(InFlight # {}, "overlap") /\ UNCHANGED <<sub, job, obj>>
      BY <1>8, <2>4 DEF WidgetReset, Asked1
    <3>2. AskedAlone(r)
      BY <1>0, <1>b, <3>1, AskedFlight
    <3> QED
      BY <1>0, <1>k, <2>1, <3>1, <3>2, PanelAsked
  <2>5. UNCHANGED <<ask, messageId>> \/ (b /\ ~loading)
    BY <1>8 DEF WidgetReset
  <2> QED
    BY <2>3, <2>4, <2>5
<1>9. ASSUME NEW r \in Asks, Start(r) \/ AnswerFails(r)  PROVE PanelTrue' /\ Stays
  <2>1. PICK phase \in {"captcha", "sent", "over"} : ask' = [ask EXCEPT ![r].phase = phase]
    BY <1>9 DEF Start, AnswerFails
  <2>2. /\ ask[r].phase # "unused" /\ UNCHANGED <<items, full, messageId, job, log, obj>>
    BY <1>9 DEF Start, AnswerFails, server
  <2>3. \A s \in Asks : Used(s)' <=> Used(s)
    BY <1>0, <2>1, <2>2, PhaseMoves
  <2>4. NothingNew
    BY <1>0, <2>3, NoneAsked
  <2> QED
    BY <1>0, <2>2, <2>4, SavedKept, PanelIdle
<1>10. ASSUME NEW r \in Asks, Subscribe(r)  PROVE PanelTrue' /\ Stays
  <2>1. r \in InFlight
    BY <1>10 DEF Subscribe, InFlight, Pending
  <2> QED
    BY <1>0, <1>1, <1>10, <2>1, PanelSubscribed
<1>11. ASSUME NEW i \in Asks, Score(i)  PROVE PanelTrue' /\ Stays
  <2>1. UNCHANGED <<items, full, messageId, job, log, obj, ask>>
    BY <1>11 DEF Score, server
  <2>2. NothingNew
    BY <1>0, <2>1, NoneAsked DEF Used
  <2> QED
    BY <1>0, <2>1, <2>2, SavedKept, PanelIdle
<1>12. CASE ScoreDone
  <2>1. UNCHANGED <<full, messageId, job, log, ask>> /\ items' = scoring[1]
        /\ Blame(scoring[1] # items, "list")
    BY <1>12 DEF ScoreDone, server
  <2>2. UNCHANGED items
    BY <1>0, <2>1 DEF Blame
  <2>3. NothingNew
    BY <1>0, <2>1, NoneAsked DEF Used
  <2>4. ASSUME NEW i \in Items
        PROVE  /\ obj'[i].text = obj[i].text /\ obj'[i].refs = obj[i].refs
               /\ obj'[i].fin = obj[i].fin /\ obj'[i].mid = obj[i].mid /\ obj'[i].note = obj[i].note
    <3>1. obj'[i] = obj[i] \/ obj'[i] = [obj[i] EXCEPT !.score = TRUE]
      BY <1>0, <1>12, ScoreMoves
    <3>2. obj[i] \in Objects
      BY <1>0, Facts
    <3> QED
      BY <3>1, <3>2 DEF Objects
  <2> QED
    BY <1>0, <2>1, <2>2, <2>3, <2>4, SavedKept, PanelIdle
<1>13. ASSUME NEW r \in Asks, Serve(r)  PROVE PanelTrue' /\ Stays
  <2>1. Types' /\ Served(r) /\ AddsRow(r) /\ UNCHANGED client
    BY <1>0, <1>13, ServeMoves, TypesStep
  <2> QED
    BY <1>0, <1>1, <2>1, PanelServed
<1>14. ASSUME NEW r \in Asks, SaveFixed(r)  PROVE PanelTrue' /\ Stays
  <2>1. Types' /\ AddsRow(r) /\ UNCHANGED <<items, full, messageId, job, obj, ask>>
    BY <1>0, <1>14, FiledMoves, TypesStep DEF Filed, client
  <2>2. \A c \in Asks : Grows(log[c], log'[c])
    BY <1>0, <2>1, LogGrows
  <2>3. \A i : Saved(i) => Saved(i)'
    BY <1>0, <2>1, <2>2, SavedStays
  <2>4. NothingNew
    BY <1>0, <2>1, NoneAsked DEF Used
  <2> QED
    BY <1>0, <2>1, <2>3, <2>4, PanelIdle
<1> QED
  BY <1>2, <1>3, <1>4, <1>5, <1>6, <1>7, <1>8, <1>9, <1>10, <1>11, <1>12, <1>13, <1>14
     DEF Next, Reader, Panel, Stream

LEMMA PanelStep ==
  ASSUME PanelInv, [Next]_vars  PROVE PanelInv' /\ (Clean' => Stays)
<1>1. WireInv /\ OneQuestion /\ Types /\ (Clean => PanelTrue)
  BY DEF PanelInv, WireInv, Clean, PanelTrue
<1>2. WireInv' /\ OneQuestion'
  BY <1>1, WireStep, OneStep
<1>3. ASSUME Clean'  PROVE PanelTrue' /\ Stays
  <2>1. CASE Next
    <3>1. Clean
      BY <1>1, <1>3, <2>1, CountsKept DEF Clean
    <3> QED
      BY <1>1, <1>3, <2>1, <3>1, PanelNext
  <2>2. CASE UNCHANGED vars
    <3>1. NothingNew /\ UNCHANGED <<items, full, messageId, job, log, obj, blame>>
      BY <2>2 DEF vars, client, server, NothingNew, InFlight, Pending, Used
    <3>2. PanelTrue
      BY <1>1, <1>3, <3>1 DEF Clean
    <3> QED
      BY <1>1, <3>1, <3>2, SavedKept, PanelIdle
  <2> QED
    BY <2>1, <2>2
<1> QED
  BY <1>2, <1>3 DEF PanelInv, Clean, PanelTrue

LEMMA PanelInit == Init => PanelInv
<1> SUFFICES ASSUME Init  PROVE PanelInv
  OBVIOUS
<1>1. WireInv /\ Types
  BY WireInit DEF WireInv
<1>2. /\ \A r \in Asks : ~Used(r)
      /\ items \in {<<>>, <<History>>} /\ full = <<>> /\ messageId = <<>>
      /\ \A i \in Items : obj[i] = Blank
      /\ InFlight = {}
  BY DEF Init, Used, InFlight, Pending
<1>3. OneQuestion /\ AllTold
  BY <1>2 DEF OneQuestion, AllTold
<1>4. LastIsNewest
  BY <1>2 DEF LastIsNewest
<1>5. ItemsTrue
  <2>1. \A i \in Items : OwnText(i) /\ Finished(i) /\ OwnMid(i)
    BY <1>2 DEF OwnText, Finished, OwnMid, Blank
  <2> QED
    BY <1>1, <2>1, Facts DEF ItemsTrue
<1> QED
  BY <1>1, <1>3, <1>4, <1>5 DEF PanelInv

LEMMA PanelShown ==
  ASSUME PanelInv, Clean
  PROVE  /\ Shown \subseteq Items /\ 0 \notin Asks
         /\ \A i \in Shown : OwnText(i) /\ Finished(i) /\ (i # History => OwnMid(i))
         /\ \A i \in Shown : /\ DOMAIN obj[i].text = 1..Len(obj[i].text)
                             /\ DOMAIN obj[i].refs = 1..Len(obj[i].refs)
<1>1. Types /\ ItemsTrue
  BY DEF PanelInv, WireInv, Clean
<1>2. items \in Seq(Items)
  BY <1>1, TypesGive DEF TypeOK
<1>3. DOMAIN items = 1..Len(items)
  BY <1>2, LenProperties
<1>4. Shown \subseteq Items
  BY <1>2, <1>3, SeqEach DEF Shown
<1>5. ASSUME NEW i \in Shown  PROVE /\ DOMAIN obj[i].text = 1..Len(obj[i].text)
                                    /\ DOMAIN obj[i].refs = 1..Len(obj[i].refs)
  <2>1. obj[i] \in Objects
    BY <1>1, <1>4, Facts
  <2>2. obj[i].text \in Seq(Asks \X (1..Data)) /\ obj[i].refs \in Seq(Asks)
    BY <2>1 DEF Objects
  <2> QED
    BY <2>2, LenProperties
<1>6. ASSUME NEW i \in Shown  PROVE OwnText(i) /\ Finished(i) /\ (i # History => OwnMid(i))
  <2>1. i \in Items /\ (i # History => i \in Asks)
    BY <1>4 DEF Items
  <2> QED
    BY <1>1, <2>1 DEF ItemsTrue
<1> QED
  BY <1>4, <1>5, <1>6 DEF Asks

\* The lines the callback writes to are those of the last item, which is the
\* newest question's; what arrives is of that question too.
THEOREM EachAnswerIsOwn == Spec => []OwnAnswer
<1>1. Init => PanelInv
  BY PanelInit
<1>2. PanelInv /\ [Next]_vars => PanelInv'
  BY PanelStep
<1>3. PanelInv => OwnAnswer
  <2> SUFFICES ASSUME PanelInv, Clean, NEW i \in Shown
               PROVE  /\ \A n \in DOMAIN obj[i].text : obj[i].text[n][1] = i
                      /\ \A n \in DOMAIN obj[i].refs : obj[i].refs[n] = i
    BY DEF OwnAnswer, Clean
  <2> QED
    BY PanelShown DEF OwnText
<1> QED
  BY <1>1, <1>2, <1>3, PTL DEF Spec

\* messageIdRef is empty when a question is asked and is written by the one
\* stream that is under way, before any line that can end the answer.
THEOREM FeedbackIsOwn == Spec => []FeedbackNamesOwnAnswer
<1>1. Init => PanelInv
  BY PanelInit
<1>2. PanelInv /\ [Next]_vars => PanelInv'
  BY PanelStep
<1>3. PanelInv => FeedbackNamesOwnAnswer
  <2> SUFFICES ASSUME PanelInv, Clean, NEW i \in Shown, i # History  PROVE OwnMid(i)
    BY DEF FeedbackNamesOwnAnswer, Clean, OwnMid
  <2> QED
    BY PanelShown
<1> QED
  BY <1>1, <1>2, <1>3, PTL DEF Spec

\* The goroutine sends "done" after every token and after both rows, and the
\* client has every token it sent.
THEOREM WhatIsSeenIsSaved == Spec => []SeenIsSaved
<1>1. Init => PanelInv
  BY PanelInit
<1>2. PanelInv /\ [Next]_vars => PanelInv'
  BY PanelStep
<1>3. PanelInv => SeenIsSaved
  <2> SUFFICES ASSUME PanelInv, Clean, NEW i \in Shown  PROVE Finished(i)
    BY DEF SeenIsSaved, Clean, Finished
  <2> QED
    BY PanelShown
<1> QED
  BY <1>1, <1>2, <1>3, PTL DEF Spec

\* While the spinner is shown the last item is not a finished answer.
SpinsOn == loading /\ items # <<>> => ~obj[Bottom].fin
FinInv  == PanelInv /\ (Clean => SpinsOn)

\* The item of a request that is under way is the last one, and not finished.
LEMMA UnderWay ==
  ASSUME PanelInv, Clean, NEW r \in Asks, r \in InFlight, items # <<>>,
         At(r, "over") => job[r].wire # <<>>
  PROVE  Bottom = r /\ ~obj[Bottom].fin
<1>1. Types /\ LastIsNewest /\ Newest(r) /\ Told(r)
  BY DEF PanelInv, WireInv, Clean, Mixes, OneQuestion, AllTold
<1>2. items # <<History>>
  BY <1>1 DEF LastIsNewest, Newest
<1>3. Newest(Bottom) /\ Bottom \in Asks
  BY <1>1, <1>2, LastItem DEF LastIsNewest
<1> QED
  BY <1>1, <1>3, OneNewest DEF Told

\* Only onCancel writes to a finished item: the send button calls it for an
\* answer that ended long ago.
Untouched(i) == obj'[i].note = obj[i].note /\ obj'[i].mid = obj[i].mid /\ obj'[i].fin = obj[i].fin
Handled == \A i \in Items : obj[i].fin =>
               Untouched(i) \/ (items # <<>> /\ i = Bottom /\ \E r \in Asks : Send(r))

LEMMA SendHandles ==
  ASSUME Types, NEW r \in Asks, Send(r)  PROVE Handled
<1>1. PICK mid \in {messageId, <<>>} : Unsubscribe(mid)
  BY DEF Send
<1>2. mid \in Seq(Asks)
  BY Facts
<1>3. \A i \in Items : obj'[i] = IF items # <<>> /\ i = Bottom THEN Cancelled(obj[i], mid) ELSE obj[i]
  BY <1>1, <1>2, UnsubscribeMoves
<1> QED
  BY <1>3 DEF Handled, Untouched

\* The last item is rewritten, and it is not finished.
LEMMA OnlyBottom ==
  ASSUME Types, items # <<>> => ~obj[Bottom].fin,
         \A i \in Items : ~(items # <<>> /\ i = Bottom) => obj'[i] = obj[i]
  PROVE  Handled
BY DEF Handled, Untouched

LEMMA CancelHandles ==
  ASSUME Types, NEW mid \in Seq(Asks), items # <<>> => ~obj[Bottom].fin,
         SetLast(Cancelled(obj[Bottom], mid))
  PROVE  Handled
<1>1. items # <<>> => Cancelled(obj[Bottom], mid) \in Objects
  BY LastItem, CancelledType, Facts
<1>2. \A i \in Items : ~(items # <<>> /\ i = Bottom) => obj'[i] = obj[i]
  BY <1>1, SetLastMoves
<1> QED
  BY <1>2, OnlyBottom

\* A message leaves the items before the last alone.
LEMMA MessageBottom ==
  ASSUME Types, NEW r \in Asks, NEW e \in Events, OnMessage(r, e)
  PROVE  /\ \A i \in Items : ~(items # <<>> /\ i = Bottom) => obj'[i] = obj[i]
         /\ loading' => loading
         /\ loading' /\ items # <<>> => obj'[Bottom].fin = obj[Bottom].fin
<1>1. /\ obj \in [Items -> Objects] /\ loading \in BOOLEAN /\ messageId \in Seq(Asks)
      /\ full \in Seq(Asks \X (1..Data))
      /\ items # <<>> => Bottom \in Items /\ obj[Bottom] \in Objects
  BY LastItem, Facts
<1>2. ASSUME NEW item \in Objects, SetLast(item)
      PROVE  /\ \A i \in Items : ~(items # <<>> /\ i = Bottom) => obj'[i] = obj[i]
             /\ items # <<>> => obj'[Bottom] = item
  BY <1>1, <1>2, SetLastMoves
<1>3. CASE e.type \in {"conversation_id", "nonce", "message_id"}
  BY <1>1, <1>3 DEF OnMessage
<1>4. CASE items = <<>>
  <2>1. SetLast(Blank) \/ UNCHANGED obj
    BY <1>4 DEF OnMessage, SetLast
  <2>2. obj' = obj
    BY <1>4, <2>1 DEF SetLast
  <2>3. loading' => loading
    BY <1>1 DEF OnMessage
  <2> QED
    BY <1>4, <2>2, <2>3
<1>5. CASE items # <<>> /\ e.type = "error"
  <2>1. [obj[Bottom] EXCEPT !.note = @ \cup {"failed"}] \in Objects
    BY <1>1, <1>5 DEF Objects, Notes
  <2>2. SetLast([obj[Bottom] EXCEPT !.note = @ \cup {"failed"}]) /\ loading' = FALSE
    BY <1>5 DEF OnMessage
  <2> QED
    BY <1>2, <2>1, <2>2
<1>6. CASE items # <<>> /\ e.type = "chunk_result"
  <2>0. Append(obj[Bottom].refs, r) \in Seq(Asks)
    BY <1>1, <1>6, AppendEach DEF Objects
  <2>1. /\ [obj[Bottom] EXCEPT !.refs = Append(@, r)] \in Objects
        /\ [obj[Bottom] EXCEPT !.refs = Append(@, r)].fin = obj[Bottom].fin
    BY <1>1, <1>6, <2>0 DEF Objects
  <2>2. SetLast([obj[Bottom] EXCEPT !.refs = Append(@, r)]) /\ loading' = loading
    BY <1>6 DEF OnMessage
  <2> QED
    BY <1>2, <2>1, <2>2
<1>7. CASE items # <<>> /\ e.type = "data"
  <2>1. full' = Append(full, <<r, e.k>>) /\ e.k \in 1..Data
    BY <1>7, EventsType DEF OnMessage
  <2>2. full' \in Seq(Asks \X (1..Data))
    BY <1>1, <2>1, AppendEach
  <2>3. /\ [obj[Bottom] EXCEPT !.text = full', !.note = {}] \in Objects
        /\ [obj[Bottom] EXCEPT !.text = full', !.note = {}].fin = obj[Bottom].fin
    BY <1>1, <1>7, <2>2 DEF Objects
  <2>4. SetLast([obj[Bottom] EXCEPT !.text = full', !.note = {}]) /\ loading' = loading
    BY <1>7 DEF OnMessage
  <2> QED
    BY <1>2, <2>3, <2>4
<1>8. CASE items # <<>> /\ e.type = "done"
  <2>1. [obj[Bottom] EXCEPT !.mid = messageId, !.fin = TRUE] \in Objects
    BY <1>1, <1>8 DEF Objects
  <2>2. SetLast([obj[Bottom] EXCEPT !.mid = messageId, !.fin = TRUE]) /\ loading' = FALSE
    BY <1>8 DEF OnMessage
  <2> QED
    BY <1>2, <2>1, <2>2
<1> QED
  BY <1>3, <1>4, <1>5, <1>6, <1>7, <1>8 DEF OnMessage

LEMMA FinNext ==
  ASSUME PanelInv, Clean, SpinsOn, Next, Clean'
  PROVE  SpinsOn' /\ Handled
<1>0. /\ Types /\ WireInv /\ LastIsNewest /\ messageId \in Seq(Asks) /\ <<>> \in Seq(Asks)
      /\ sub \in Items /\ 0 \notin Asks
  BY Facts DEF PanelInv, WireInv, Clean, Mixes, Asks
<1>i. UNCHANGED obj => Handled
  BY DEF Handled, Untouched
<1>k. UNCHANGED <<items, obj>> /\ (loading' => loading) => SpinsOn'
  BY DEF SpinsOn, Bottom
<1>l. loading' = FALSE => SpinsOn'
  BY DEF SpinsOn
<1>1. CASE Abort
  <2>1. loading /\ loading' = FALSE /\ SetLast(Cancelled(obj[Bottom], messageId))
    BY <1>1 DEF Abort, Unsubscribe
  <2>2. items # <<>> => ~obj[Bottom].fin
    BY <2>1 DEF SpinsOn
  <2> QED
    BY <1>0, <1>l, <2>1, <2>2, CancelHandles
<1>2. CASE Timeout
  <2>1. /\ loading' = FALSE /\ SetLast(Cancelled(obj[Bottom], messageId))
        /\ sub # 0 /\ job[sub].pc # "over"
    BY <1>2 DEF Timeout, Unsubscribe
  <2>2. items # <<>> => ~obj[Bottom].fin
    <3>1. sub \in Asks /\ sub \in InFlight
      BY <1>0, <2>1 DEF Items, History, InFlight
    <3> QED
      BY <2>1, <3>1, UnderWay DEF At
  <2> QED
    BY <1>0, <1>l, <2>1, <2>2, CancelHandles
<1>3. CASE ProcessChunk
  <2>1. /\ sub \in Asks /\ job[sub].wire # <<>> /\ job[sub].wire[1] \in Events /\ UNCHANGED items
        /\ ~buffer => OnMessage(sub, job[sub].wire[1])
        /\ buffer => UNCHANGED <<obj, loading>>
    BY <1>0, <1>3, ChunkJob
  <2>2. items # <<>> => ~obj[Bottom].fin
    <3>1. sub \in InFlight
      BY <1>0, <2>1 DEF InFlight
    <3> QED
      BY <2>1, <3>1, UnderWay
  <2>3. CASE buffer
    BY <1>i, <1>k, <2>1, <2>3
  <2>4. CASE ~buffer
    <3>1. /\ \A i \in Items : ~(items # <<>> /\ i = Bottom) => obj'[i] = obj[i]
          /\ loading' /\ items # <<>> => obj'[Bottom].fin = obj[Bottom].fin
      BY <1>0, <2>1, <2>4, MessageBottom
    <3>2. Handled
      BY <1>0, <2>2, <3>1, OnlyBottom
    <3>3. Bottom' = Bottom
      BY <2>1 DEF Bottom
    <3> QED
      BY <2>1, <2>2, <3>1, <3>2, <3>3 DEF SpinsOn
  <2> QED
    BY <2>3, <2>4, <1>0, Facts
<1>4. CASE StreamEnds \/ Disconnect \/ \E i \in Asks : Score(i)
  <2>1. UNCHANGED <<items, obj, loading>>
    BY <1>4 DEF StreamEnds, Disconnect, Score
  <2> QED
    BY <1>i, <1>k, <2>1
<1>5. ASSUME NEW r \in Asks, NEW b, Enter(r, b)  PROVE SpinsOn' /\ Handled
  <2>1. UNCHANGED <<obj, loading>> /\ ~loading
    BY <1>5 DEF Enter
  <2> QED
    BY <1>i, <2>1 DEF SpinsOn
<1>6. ASSUME NEW r \in Asks, Send(r)  PROVE SpinsOn' /\ Handled
  <2>1. loading' = FALSE
    BY <1>6 DEF Send, Unsubscribe
  <2> QED
    BY <1>0, <1>l, <1>6, <2>1, SendHandles
<1>7. ASSUME Reset \/ \E r \in Asks, b \in BOOLEAN : WidgetReset(r, b)  PROVE SpinsOn' /\ Handled
  <2>1. loading' = FALSE
    BY <1>7 DEF Reset, WidgetReset, ClearPanel
  <2>2. \/ UNCHANGED obj
        \/ loading /\ \E mid \in {messageId, <<>>} : SetLast(Cancelled(obj[Bottom], mid))
    BY <1>7 DEF Reset, WidgetReset
  <2>3. CASE loading /\ \E mid \in {messageId, <<>>} : SetLast(Cancelled(obj[Bottom], mid))
    <3>1. items # <<>> => ~obj[Bottom].fin
      BY <2>3 DEF SpinsOn
    <3>2. \A mid \in {messageId, <<>>} : mid \in Seq(Asks)
      BY <1>0
    <3> QED
      BY <1>0, <1>l, <2>1, <2>3, <3>1, <3>2, CancelHandles
  <2> QED
    BY <1>i, <1>l, <2>1, <2>2, <2>3
<1>8. ASSUME NEW r \in Asks, Start(r)  PROVE SpinsOn' /\ Handled
  <2>1. UNCHANGED <<items, obj>> /\ ask[r].phase = "timer"
    BY <1>8 DEF Start
  <2>2. r \in InFlight /\ ~At(r, "over")
    BY <1>0, <2>1 DEF InFlight, Pending, At, WireInv, ServerKnows, Connected
  <2>3. items # <<>> => ~obj[Bottom].fin
    BY <2>2, UnderWay
  <2>4. Bottom' = Bottom
    BY <2>1 DEF Bottom
  <2> QED
    BY <1>i, <2>1, <2>3, <2>4 DEF SpinsOn
<1>9. ASSUME NEW r \in Asks, AnswerFails(r) \/ Subscribe(r)  PROVE SpinsOn' /\ Handled
  <2>0. UNCHANGED <<items, obj>> /\ (loading' = FALSE \/ UNCHANGED loading)
    BY <1>9 DEF AnswerFails, Subscribe
  <2>1. UNCHANGED <<items, obj>> /\ (loading' => loading)
    BY <2>0
  <2> QED
    BY <1>i, <1>k, <2>1
<1>10. CASE ScoreDone
  <2>1. items' = scoring[1] /\ Blame(scoring[1] # items, "list") /\ UNCHANGED loading
    BY <1>10 DEF ScoreDone
  <2>2. UNCHANGED items
    BY <2>1 DEF Blame, Clean, Mixes
  <2>3. ASSUME NEW i \in Items  PROVE Untouched(i)
    <3>1. obj'[i] = obj[i] \/ obj'[i] = [obj[i] EXCEPT !.score = TRUE]
      BY <1>0, <1>10, ScoreMoves
    <3>2. obj[i] \in Objects
      BY <1>0, Facts
    <3> QED
      BY <3>1, <3>2 DEF Objects, Untouched
  <2>4. items # <<>> => Bottom \in Items /\ Bottom' = Bottom
    BY <1>0, <2>2, LastItem DEF Bottom
  <2>5. SpinsOn'
    BY <2>1, <2>2, <2>3, <2>4 DEF SpinsOn, Untouched
  <2> QED
    BY <2>3, <2>5 DEF Handled
<1>11. ASSUME NEW r \in Asks, Serve(r) \/ SaveFixed(r)  PROVE SpinsOn' /\ Handled
  <2>1. UNCHANGED client
    BY <1>0, <1>11, ServeMoves DEF SaveFixed
  <2> QED
    BY <1>i, <1>k, <2>1 DEF client
<1> QED
  BY <1>1, <1>2, <1>3, <1>4, <1>5, <1>6, <1>7, <1>8, <1>9, <1>10, <1>11
     DEF Next, Reader, Panel, Stream

LEMMA FinStep ==
  ASSUME FinInv, [Next]_vars
  PROVE  FinInv' /\ (Clean' /\ ~UNCHANGED vars => Stays /\ Handled)
<1>1. PanelInv /\ PanelInv' /\ (Clean' => Stays) /\ Types
  BY PanelStep DEF FinInv, PanelInv, WireInv
<1>2. CASE Next
  <2>1. Clean' => Clean
    BY <1>1, <1>2, CountsKept DEF Clean
  <2> QED
    BY <1>1, <1>2, <2>1, FinNext DEF FinInv
<1>3. CASE UNCHANGED vars
  BY <1>1, <1>3 DEF vars, client, FinInv, Clean, SpinsOn, Bottom
<1> QED
  BY <1>2, <1>3

\* A finished item is never the last one while a stream is under way or the
\* spinner is shown, so no stream, abort, reset or timer writes to it: only the
\* send button, which cancels the last answer whether or not it has ended.
THEOREM AFinishedAnswerStays == Spec => FinishedStays
<1> DEFINE Kept == blame' \cap Mixes = {} =>
              \A i \in Shown : obj[i].fin =>
                  /\ obj'[i].fin /\ obj'[i].text = obj[i].text /\ obj'[i].refs = obj[i].refs
                  /\ \/ obj'[i].note = obj[i].note /\ obj'[i].mid = obj[i].mid
                     \/ i = Bottom /\ \E r \in Asks : Send(r)
<1>1. Init => FinInv
  BY PanelInit DEF FinInv, SpinsOn, Init
<1>2. FinInv /\ [Next]_vars => FinInv'
  BY FinStep
<1>3. FinInv /\ [Next]_vars => [Kept]_vars
  <2> SUFFICES ASSUME FinInv, [Next]_vars, ~UNCHANGED vars, Clean', NEW i \in Shown, obj[i].fin
               PROVE  /\ obj'[i].fin /\ obj'[i].text = obj[i].text /\ obj'[i].refs = obj[i].refs
                      /\ \/ obj'[i].note = obj[i].note /\ obj'[i].mid = obj[i].mid
                         \/ i = Bottom /\ \E r \in Asks : Send(r)
    BY DEF Clean, Mixes
  <2>1. Stays /\ Handled
    BY FinStep
  <2>2. Shown \subseteq Items
    <3>1. items \in Seq(Items)
      BY TypesGive DEF FinInv, PanelInv, WireInv, TypeOK
    <3>2. DOMAIN items = 1..Len(items)
      BY <3>1, LenProperties
    <3> QED
      BY <3>1, <3>2, SeqEach DEF Shown
  <2> QED
    BY <2>1, <2>2 DEF Stays, Handled, Untouched
<1> QED
  BY <1>1, <1>2, <1>3, PTL DEF Spec, FinishedStays

-----------------------------------------------------------------------------
(* The spinner: the part of LoadingEnds that is about states.              *)

\* While the spinner is shown a question is still being prepared, or the client has a
\* request open, which ends with an event, with its stream or by the timer; unless a
\* failure was one that nobody hears of.
SpinnerOwed == loading /\ "unheard" \notin blame => InFlight # {}

\* A step that ends no request and no preparation, and does not set the spinner.
LEMMA SpinnerStays ==
  ASSUME SpinnerOwed, ask' = ask, sub' = sub, loading' => loading, blame \subseteq blame'
  PROVE  SpinnerOwed'
<1>1. InFlight' = InFlight
  BY DEF InFlight, Pending
<1> QED
  BY <1>1 DEF SpinnerOwed

\* Nothing of what happened is forgotten.
LEMMA BlameGrows == \A bad, what : Blame(bad, what) => blame \subseteq blame'
  BY DEF Blame

\* Every step keeps this.
LEMMA SpinnerStep ==
  ASSUME Types, SpinnerOwed, [Next]_vars
  PROVE  SpinnerOwed'
<1>1. CASE UNCHANGED vars
  BY <1>1, SpinnerStays DEF vars, client
<1>2. CASE Abort \/ Timeout \/ Reset \/ (\E r \in Asks : Send(r) \/ \E b \in BOOLEAN : WidgetReset(r, b))
  <2>1. loading' = FALSE
    BY <1>2 DEF Abort, Timeout, Reset, Send, WidgetReset, Unsubscribe, ClearPanel
  <2> QED
    BY <2>1 DEF SpinnerOwed
<1>3. CASE Disconnect
  BY <1>3 DEF Disconnect, SpinnerOwed
<1>4. CASE StreamEnds
  BY <1>4 DEF StreamEnds, Blame, SpinnerOwed
<1>5. CASE ProcessChunk
  <2>1. sub # 0 /\ sub' = sub
    BY <1>5 DEF ProcessChunk
  <2>2. sub' \in InFlight'
    BY <2>1 DEF InFlight
  <2> QED
    BY <2>2 DEF SpinnerOwed
<1>6. CASE \E r \in Asks, b \in BOOLEAN : Enter(r, b)
  <2>1. ~loading'
    BY <1>6 DEF Enter
  <2> QED
    BY <2>1 DEF SpinnerOwed
<1>7. CASE ScoreDone \/ \E i \in Asks : Score(i)
  BY <1>7, BlameGrows, SpinnerStays DEF ScoreDone, Score
<1>8. ASSUME NEW r \in Asks, Start(r) PROVE SpinnerOwed'
  <2>1. ask \in [Asks -> Questions]
    BY DEF Types, ClientType
  <2>2. ask'[r].phase = "captcha"
    BY <1>8, <2>1 DEF Start, Questions
  <2>3. r \in InFlight'
    BY <2>2 DEF InFlight, Pending
  <2> QED
    BY <2>3 DEF SpinnerOwed
<1>9. ASSUME NEW r \in Asks, AnswerFails(r) PROVE SpinnerOwed'
  <2>1. loading' = FALSE \/ "unheard" \in blame'
    BY <1>9 DEF AnswerFails
  <2> QED
    BY <2>1 DEF SpinnerOwed
<1>10. ASSUME NEW r \in Asks, Subscribe(r) PROVE SpinnerOwed'
  <2>1. sub' = r /\ r # 0
    BY <1>10 DEF Subscribe, Asks
  <2>2. r \in InFlight'
    BY <2>1 DEF InFlight
  <2> QED
    BY <2>2 DEF SpinnerOwed
<1>11. ASSUME NEW r \in Asks, Serve(r) PROVE SpinnerOwed'
  <2>1. ask' = ask /\ sub' = sub /\ loading' = loading
    BY <1>11 DEF Serve, Converse, SaveQuestion, Blocked, OnChunk, ModelFails, SaveAnswer, client
  <2>2. blame \subseteq blame'
    BY <1>11, BlameGrows DEF Serve, Converse, SaveQuestion, Blocked, OnChunk, ModelFails, SaveAnswer
  <2> QED
    BY <2>1, <2>2, SpinnerStays
<1>12. ASSUME NEW r \in Asks, SaveFixed(r) PROVE SpinnerOwed'
  <2>1. ask' = ask /\ sub' = sub /\ loading' = loading
    BY <1>12 DEF SaveFixed, client
  <2>2. blame \subseteq blame'
    BY <1>12, BlameGrows DEF SaveFixed
  <2> QED
    BY <2>1, <2>2, SpinnerStays
<1> QED
  BY <1>1, <1>2, <1>3, <1>4, <1>5, <1>6, <1>7, <1>8, <1>9, <1>10, <1>11, <1>12 DEF Next, Reader, Panel, Stream

\* The panel never shows a spinner that nothing is going to end (chatAnswer, subscribe,
\* onCancel), whatever is asked, aborted, reset or cut in between: as long as no
\* failure went unheard, a question or an open request is there.
THEOREM SpinnerIsOwed == Spec => []SpinnerOwed
<1>1. Init => SpinnerOwed
  BY DEF Init, SpinnerOwed
<1>2. Types /\ SpinnerOwed /\ [Next]_vars => SpinnerOwed'
  BY SpinnerStep
<1>3. Init => Types
  BY TypesInit
<1>4. Types /\ [Next]_vars => Types'
  BY TypesStep, TypesStutter
<1> QED
  BY <1>1, <1>2, <1>3, <1>4, PTL DEF Spec

=============================================================================
