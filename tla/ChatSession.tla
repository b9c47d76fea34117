---------------------------- MODULE ChatSession ----------------------------
(***************************************************************************)
(* One browser that asks a knowledge base, and the server that answers:    *)
(* the chat panel of the reader app (AiQaContent.tsx, as the page and as   *)
(* the embedded widget), its SSE client (utils/fetch.ts), the handler and  *)
(* the goroutine of ChatUsecase.Chat.                                      *)
(*                                                                         *)
(* A question, the request that carries it, the conversation it opens and  *)
(* the message id of its answer share one number.  Ids the client builds   *)
(* by `prev + content` are sequences, so that two of them run together     *)
(* show.  An answer is Data tokens <<r, 1>>, <<r, 2>>, ...                 *)
(***************************************************************************)
EXTENDS Naturals, Sequences, FiniteSets

CONSTANTS
    MaxAsks,    \* bound: questions asked in one behaviour
    Data,       \* events of type "data" in a complete answer
    Wire,       \* bound: events of one request on the wire
    Room,       \* capacity of eventCh (100 in the code)
    MaxTroubles \* bound: aborts, resets and failing calls in one behaviour

ASSUME BoundsAssumption == /\ MaxAsks \in Nat \ {0}
                           /\ Data \in Nat \ {0}
                           /\ Room \in Nat
                           /\ MaxTroubles \in Nat

Asks == 1..MaxAsks
History == 0                    \* the item of the conversation the URL names
Items == Asks \cup {History}

VARIABLES
    surface,    \* "page" or "widget", the two panels
    items,      \* conversation: a sequence of items, which are objects
    obj,        \* what each item object holds; arrays share the objects
    loading,
    convId, nonce, full, messageId, \* conversationId, nonce, fullAnswer, messageIdRef
    ask,        \* chatAnswer of each question: its phase and what its closure captured
    sub,        \* the request whose fetch the SSE client has open, 0 if none
    buffer,     \* whether the client's buffer holds half a line of a stream that was cut
    scoring,    \* a feedback on its way: <<>> or <<conversation, item, message id>>
    job,        \* ChatUsecase.Chat of each request, and its events on the wire
    log,        \* conversation_messages of each conversation, by created_at
    convs,      \* the conversations the database holds
    blocked,    \* requests refused for a blocked word, whose fixed answer is still to be saved
    troubles,   \* how many of those there were
    blame       \* what has happened that a reader or the network did, for the properties

client == <<items, obj, loading, convId, nonce, full, messageId, ask, sub, buffer, scoring>>
server == <<job, log, convs, blocked>>
vars == <<surface, client, server, troubles, blame>>

Events == [type : {"conversation_id", "nonce", "message_id", "chunk_result", "error", "done"}]
          \cup [type : {"data"}, k : 1..Data]
Blank == [text |-> <<>>, refs |-> <<>>, note |-> {}, mid |-> <<>>, fin |-> FALSE, score |-> FALSE]
Answer(r) == [k \in 1..Data |-> <<r, k>>]

Init ==
    /\ surface \in {"page", "widget"}
    /\ items \in {<<>>, <<History>>}
    /\ obj = [i \in Items |-> Blank]
    /\ loading = FALSE
    /\ convId = <<>> /\ nonce = <<>> /\ full = <<>> /\ messageId = <<>>
    /\ ask = [r \in Asks |-> [phase |-> "unused", conv |-> <<>>, nonce |-> <<>>]]
    /\ sub = 0 /\ buffer = FALSE /\ scoring = <<>>
    /\ job = [r \in Asks |-> [pc |-> "idle", k |-> 0, room |-> Room, open |-> FALSE, wire |-> <<>>]]
    /\ log = [c \in Asks |-> <<>>]
    /\ convs = {} /\ blocked = {}
    /\ troubles = 0
    /\ blame = {}

Pending == {r \in Asks : ask[r].phase \in {"timer", "captcha"}}
InFlight == Pending \cup ({sub} \ {0})
Trouble == troubles < MaxTroubles /\ troubles' = troubles + 1
Blame(bad, what) == blame' = IF bad THEN blame \cup {what} ELSE blame

-----------------------------------------------------------------------------
(* The SSE client.                                                         *)

\* What the server sees when the fetch of r ends.
Closed(j, r) == IF r = 0 THEN j ELSE [j EXCEPT ![r].open = FALSE, ![r].wire = <<>>]

\* The open fetch, if any, is cut: the last chunk that arrived may have ended
\* inside an event, and nothing ever empties the buffer of that half.
Cut == /\ job' = Closed(job, sub)
       /\ buffer' \in IF sub # 0 /\ job[sub].wire # <<>> THEN {buffer, TRUE} ELSE {buffer}

\* setConversation with a change of the last item; nothing without one.
Bottom == items[Len(items)]
SetLast(item) == obj' = IF items = <<>> THEN obj ELSE [obj EXCEPT ![Bottom] = item]

\* onCancel: the last item says so, whatever it is.
Cancelled(item, mid) == [item EXCEPT !.note = @ \cup {"cancelled"}, !.mid = mid]

\* unsubscribe: abort the fetch, then onCancel.
Unsubscribe(mid) ==
    /\ sub' = 0
    /\ Cut
    /\ SetLast(Cancelled(obj[Bottom], mid))
    /\ loading' = FALSE

\* handleSearchAbort, from the button shown while loading.
Abort ==
    /\ Trouble
    /\ loading
    /\ Unsubscribe(messageId)
    /\ Blame(TRUE, "cut")
    /\ UNCHANGED <<surface, items, convId, nonce, full, messageId, ask, scoring,
                   log, convs, blocked>>

\* Mutant: the timer only aborts the fetch.
TimeoutSilent ==
    /\ sub # 0
    /\ job[sub].wire = <<>> /\ job[sub].pc # "over"
    /\ sub' = 0 /\ Cut
    /\ Blame(TRUE, "cut")
    /\ UNCHANGED <<surface, items, obj, loading, convId, nonce, full, messageId, ask, scoring,
                   log, convs, blocked, troubles>>

\* The timer of subscribe: five minutes after the request, unless it ended;
\* what is on the wire has arrived by then.
Timeout ==
    /\ sub # 0
    /\ job[sub].wire = <<>> /\ job[sub].pc # "over"
    /\ Unsubscribe(messageId)
    /\ Blame(TRUE, "cut")
    /\ UNCHANGED <<surface, items, convId, nonce, full, messageId, ask, scoring,
                   log, convs, blocked, troubles>>

\* The reader reports the end of the stream.  No callback is given for it.
StreamEnds ==
    /\ sub # 0
    /\ job[sub].wire = <<>>
    /\ job[sub].pc = "over"
    /\ sub' = 0
    /\ job' = Closed(job, sub)
    /\ Blame(loading, "unheard")
    /\ UNCHANGED <<surface, items, obj, loading, convId, nonce, full, messageId, ask, buffer,
                   scoring, log, convs, blocked, troubles>>

\* The connection breaks or the status is not 200: no onError is given either.
Disconnect ==
    /\ sub # 0
    /\ Trouble
    /\ sub' = 0
    /\ Cut
    /\ blame' = blame \cup {"unheard", "cut"}
    /\ UNCHANGED <<surface, items, obj, loading, convId, nonce, full, messageId, ask,
                   scoring, log, convs, blocked>>

\* The callback of subscribe, by the type of the event.
OnMessage(r, e) ==
    \/ /\ e.type = "conversation_id"
       /\ convId' = Append(convId, r)
       /\ UNCHANGED <<obj, loading, nonce, full, messageId>>
    \/ /\ e.type = "nonce"
       /\ nonce' = Append(nonce, r)
       /\ UNCHANGED <<obj, loading, convId, full, messageId>>
    \/ /\ e.type = "message_id"
       /\ messageId' = Append(messageId, r)
       /\ UNCHANGED <<obj, loading, convId, nonce, full>>
    \/ /\ e.type = "error"
       /\ loading' = FALSE
       /\ SetLast([obj[Bottom] EXCEPT !.note = @ \cup {"failed"}])
       /\ UNCHANGED <<convId, nonce, full, messageId>>
    \/ /\ e.type = "chunk_result"
       /\ SetLast([obj[Bottom] EXCEPT !.refs = Append(@, r)])
       /\ UNCHANGED <<loading, convId, nonce, full, messageId>>
    \/ /\ e.type = "data"
       /\ full' = Append(full, <<r, e.k>>)
       /\ SetLast([obj[Bottom] EXCEPT !.text = full', !.note = {}])
       /\ UNCHANGED <<loading, convId, nonce, messageId>>
    \/ /\ e.type = "done"
       /\ SetLast([obj[Bottom] EXCEPT !.mid = messageId, !.fin = TRUE])
       /\ full' = <<>>
       /\ loading' = FALSE
       /\ UNCHANGED <<convId, nonce, messageId>>

\* A chunk completes the next event.  What an earlier stream left in the
\* buffer makes the line unreadable, and the event is dropped.
ProcessChunk ==
    /\ sub # 0
    /\ job[sub].wire # <<>>
    /\ job' = [job EXCEPT ![sub].wire = Tail(@)]
    /\ buffer' = FALSE
    /\ IF buffer
       THEN /\ Blame(TRUE, "torn")
            /\ UNCHANGED <<obj, loading, convId, nonce, full, messageId>>
       ELSE OnMessage(sub, Head(job[sub].wire)) /\ UNCHANGED blame
    /\ UNCHANGED <<surface, items, ask, sub, scoring, log, convs, blocked, troubles>>

-----------------------------------------------------------------------------
(* The panel.                                                              *)

\* Mutants: a question keeps what is left of the last answer; its message id;
\* the item of the question before.
Asked(r) ==
    /\ ask[r].phase = "unused"
    /\ \A s \in 1..(r - 1) : ask[s].phase # "unused"
    /\ ask' = [ask EXCEPT ![r] = [phase |-> "timer", conv |-> convId, nonce |-> nonce]]
SearchKeepsText(r, reset) ==
    /\ Asked(r)
    /\ items' = IF reset THEN <<r>> ELSE Append(items, r)
    /\ messageId' = <<>> /\ UNCHANGED full
SearchKeepsId(r, reset) ==
    /\ Asked(r)
    /\ items' = IF reset THEN <<r>> ELSE Append(items, r)
    /\ full' = <<>> /\ UNCHANGED messageId
SearchKeepsItem(r, reset) ==
    /\ Asked(r)
    /\ items' = IF items = <<>> THEN <<r>> ELSE items
    /\ full' = <<>> /\ messageId' = <<>>

\* onSearch: a new item, and chatAnswer behind setTimeout(0).  loading is set
\* only there.  The closure keeps the ids of this render.
Search(r, reset) ==
    /\ ask[r].phase = "unused"
    /\ \A s \in 1..(r - 1) : ask[s].phase # "unused"
    /\ items' = IF reset \/ History \in {items[n] : n \in DOMAIN items} THEN <<r>> ELSE Append(items, r)
    /\ ask' = [ask EXCEPT ![r] = [phase |-> "timer", conv |-> convId, nonce |-> nonce]]
    /\ messageId' = <<>>
    /\ full' = <<>>

\* Enter, a suggested question, or (reset) the preset question of a page.
Enter(r, reset) ==
    /\ ~loading
    /\ surface = "widget" => ~reset
    /\ Search(r, reset)
    /\ Blame(InFlight # {}, "overlap")
    /\ UNCHANGED <<surface, obj, loading, convId, nonce, sub, buffer, scoring,
                   server, troubles>>

\* The send button aborts first.  React runs the update of onCancel at once
\* or after the handler, which has emptied messageIdRef by then.
Send(r) ==
    /\ ~loading
    /\ \E mid \in {messageId, <<>>} : Unsubscribe(mid)
    /\ Search(r, FALSE)
    /\ blame' = blame \cup (IF Pending # {} THEN {"overlap"} ELSE {})
                      \cup (IF sub # 0 THEN {"cut"} ELSE {})
    /\ UNCHANGED <<surface, convId, nonce, scoring, log, convs, blocked, troubles>>

\* Mutant: the nonce of the old conversation stays.
ClearPanelKeepsNonce ==
    /\ items' = <<>>
    /\ convId' = <<>> /\ full' = <<>>
    /\ loading' = FALSE
    /\ UNCHANGED nonce

\* The common part of onReset; the page also empties messageIdRef.
ClearPanel ==
    /\ items' = <<>>
    /\ convId' = <<>> /\ nonce' = <<>> /\ full' = <<>>
    /\ loading' = FALSE

\* onReset of the page.
Reset ==
    /\ Trouble
    /\ surface = "page"
    /\ items # <<>>
    /\ ClearPanel
    /\ messageId' = <<>>
    /\ IF loading
       THEN sub' = 0 /\ Cut /\ SetLast(Cancelled(obj[Bottom], <<>>))
       ELSE UNCHANGED <<sub, job, buffer, obj>>
    /\ Blame(InFlight # {}, "cut")
    /\ UNCHANGED <<surface, ask, scoring, log, convs, blocked>>

\* onReset of the widget: a text in the input is sent as a question first,
\* to the old conversation, and its item is cleared with the others.
WidgetReset(r, input) ==
    /\ Trouble
    /\ surface = "widget"
    /\ items # <<>>
    /\ IF loading
       THEN sub' = 0 /\ Cut /\ SetLast(Cancelled(obj[Bottom], messageId))
       ELSE UNCHANGED <<sub, job, buffer, obj>>
    /\ IF input /\ ~loading
       THEN /\ ask[r].phase = "unused"
            /\ \A s \in 1..(r - 1) : ask[s].phase # "unused"
            /\ ask' = [ask EXCEPT ![r] = [phase |-> "timer", conv |-> convId, nonce |-> nonce]]
            /\ messageId' = <<>>
            /\ Blame(InFlight # {}, "overlap")
       ELSE /\ Blame(InFlight # {}, "cut")
            /\ UNCHANGED <<ask, messageId>>
    /\ ClearPanel
    /\ UNCHANGED <<surface, scoring, log, convs, blocked>>

\* chatAnswer begins with the spinner, then uploads the images of the
\* question, each behind a captcha, and solves one more for the question.
Start(r) ==
    /\ ask[r].phase = "timer"
    /\ ask' = [ask EXCEPT ![r].phase = "captcha"]
    /\ loading' = TRUE
    /\ UNCHANGED <<surface, items, obj, convId, nonce, full, messageId, sub, buffer, scoring, server, troubles, blame>>

\* One of these fails.  The page ends the spinner for a rejected upload and
\* for the last captcha; the captcha of an image is a promise returned, not
\* awaited, so the catch block of uploadAllImages does not see it.  The
\* widget, which uploads nothing, does not end it.
AnswerFails(r) ==
    /\ ask[r].phase = "captcha"
    /\ Trouble
    /\ ask' = [ask EXCEPT ![r].phase = "over"]
    /\ \/ surface = "page" /\ loading' = FALSE /\ UNCHANGED blame
       \/ UNCHANGED loading /\ blame' = blame \cup {"unheard"}
    /\ UNCHANGED <<surface, items, obj, convId, nonce, full, messageId, sub, buffer, scoring, server>>

\* The captcha is solved: subscribe aborts the open fetch without onCancel
\* and sends the request, whether or not the reader has given up on it.
Subscribe(r) ==
    /\ ask[r].phase = "captcha"
    /\ ask' = [ask EXCEPT ![r].phase = "sent"]
    /\ sub' = r
    /\ job' = [Closed(job, sub) EXCEPT ![r].pc = "received", ![r].open = TRUE]
    /\ buffer' \in IF sub # 0 /\ job[sub].wire # <<>> THEN {buffer, TRUE} ELSE {buffer}
    /\ Blame(sub # 0, "overlap")
    /\ UNCHANGED <<surface, items, obj, loading, convId, nonce, full, messageId, scoring, log, convs, blocked, troubles>>

Answered(r) == \E c \in Asks : \E n \in DOMAIN log[c] : log[c][n] = <<"assistant", r>>

\* handleScore: the list it will write back is the one of this render.  (A
\* message id the database does not hold is refused and nothing follows.)
Score(i) ==
    /\ scoring = <<>>
    /\ i \in {items[n] : n \in DOMAIN items} \ {History}
    /\ items[Len(items)] = i => ~loading
    /\ ~obj[i].score
    /\ \E r \in Asks : obj[i].mid = <<r>> /\ Answered(r)
    /\ scoring' = <<items, i, obj[i].mid>>
    /\ UNCHANGED <<surface, items, obj, loading, convId, nonce, full, messageId, ask, sub, buffer,
                   server, troubles, blame>>

\* The server has taken it; the client marks every item with that message id
\* and shows the old list again.
ScoreDone ==
    /\ scoring # <<>>
    /\ scoring' = <<>>
    /\ items' = scoring[1]
    /\ obj' = [i \in Items |->
                  IF (\E n \in DOMAIN items' : items'[n] = i) /\ obj[i].mid = scoring[3]
                  THEN [obj[i] EXCEPT !.score = TRUE] ELSE obj[i]]
    /\ Blame(scoring[1] # items, "list")
    /\ UNCHANGED <<surface, loading, convId, nonce, full, messageId, ask, sub, buffer, server, troubles>>

-----------------------------------------------------------------------------
(* ChatUsecase.Chat and the handler that writes its events.                *)

\* eventCh <- e: the handler passes it on while the connection is open; once
\* it has returned, events fill the channel and then block the goroutine.
CanEmitAlways(r, n) == TRUE    \* mutant: a send that never waits for room
CanEmit(r, n) == IF job[r].open THEN Len(job[r].wire) + n <= Wire ELSE job[r].room >= n
Emit(r, es, next) ==
    job' = [job EXCEPT ![r] = IF job[r].open THEN [next EXCEPT !.wire = @ \o es]
                              ELSE [next EXCEPT !.room = @ - Len(es)]]

At(r, pc) == job[r].pc = pc
To(r, pc) == [job[r] EXCEPT !.pc = pc]
Fail(r) == Emit(r, <<[type |-> "error"]>>, To(r, "over"))
Sees(type) == [type |-> type]

\* A call with the request's context fails when the reader has left and the
\* server knows, or by a fault.
CallFails(r) ==
    \/ ~job[r].open /\ UNCHANGED troubles
    \/ Trouble

\* The checks of the handler, of app and model, then the conversation: a new
\* id and nonce, told before the row exists, or the check of the pair sent.
Converse(r) ==
    /\ At(r, "received") /\ CanEmit(r, 2)
    /\ \/ Fail(r) /\ CallFails(r)
       \/ /\ ask[r].conv = <<>>
          /\ Emit(r, <<Sees("conversation_id"), Sees("nonce")>>, To(r, "ask"))
          /\ UNCHANGED troubles
       \/ /\ ask[r].conv # <<>>
          /\ IF \E c \in convs : ask[r].conv = <<c>> /\ ask[r].nonce = <<c>>
             THEN job' = [job EXCEPT ![r].pc = "ask"]
             ELSE Fail(r)
          /\ UNCHANGED troubles
    /\ UNCHANGED <<surface, client, log, convs, blocked, blame>>

ConversationOf(r) == IF ask[r].conv = <<>> THEN r ELSE Head(ask[r].conv)

\* CreateConversation if it is new, the message id, the question's row, then
\* retrieval and its references.
SaveQuestion(r) ==
    /\ At(r, "ask") /\ CanEmit(r, 2)
    /\ \/ /\ convs' = convs \cup {ConversationOf(r)}
          /\ log' = [log EXCEPT ![ConversationOf(r)] = Append(@, <<"user", r>>)]
          /\ Emit(r, <<Sees("message_id"), Sees("chunk_result")>>, To(r, "stream"))
          /\ Blame(~job[r].open, "late")
          /\ UNCHANGED troubles
       \/ /\ ask[r].conv = <<>>
          /\ Fail(r)
          /\ CallFails(r)
          /\ Blame(TRUE, "unborn")
          /\ UNCHANGED <<convs, log>>
       \/ /\ convs' = convs \cup {ConversationOf(r)}
          /\ log' \in {log, [log EXCEPT ![ConversationOf(r)] = Append(@, <<"user", r>>)]}
          /\ Emit(r, <<Sees("message_id"), Sees("error")>>, To(r, "over"))
          /\ CallFails(r)
          /\ Blame(~job[r].open, "late")
    /\ UNCHANGED <<surface, client, blocked>>

\* The question holds a blocked word: it is saved, and the error that tells the
\* reader so ends the request.
Blocked(r) ==
    /\ At(r, "ask") /\ CanEmit(r, 2)
    /\ convs' = convs \cup {ConversationOf(r)}
    /\ log' = [log EXCEPT ![ConversationOf(r)] = Append(@, <<"user", r>>)]
    /\ Emit(r, <<Sees("message_id"), Sees("error")>>, To(r, "over"))
    /\ blocked' = blocked \cup {r}
    /\ Blame(~job[r].open, "late")
    /\ UNCHANGED <<surface, client, troubles>>

\* Only then its fixed answer is saved, with a context that does not end with the
\* request.  If that fails, a second error goes to a channel nobody reads.
SaveFixed(r) ==
    /\ r \in blocked
    /\ blocked' = blocked \ {r}
    /\ \/ /\ log' = [log EXCEPT ![ConversationOf(r)] = Append(@, <<"assistant", r>>)]
          /\ Blame(~job[r].open, "behind")
          /\ UNCHANGED troubles
       \/ Trouble /\ UNCHANGED <<log, blame>>
    /\ UNCHANGED <<surface, client, job, convs>>

\* onChunk: one piece of the model's answer.
OnChunk(r) ==
    /\ At(r, "stream") /\ job[r].k < Data /\ CanEmit(r, 1)
    /\ Emit(r, <<[type |-> "data", k |-> job[r].k + 1]>>, [job[r] EXCEPT !.k = @ + 1])
    /\ UNCHANGED <<surface, client, log, convs, blocked, troubles, blame>>

\* The model fails, or the row of the answer or the usage cannot be written: the
\* answer, or what there is of it, is saved if it can be.
ModelFails(r) ==
    /\ At(r, "stream") /\ CanEmit(r, 1)
    /\ CallFails(r)
    /\ log' \in {log, [log EXCEPT ![ConversationOf(r)] = Append(@, <<"assistant", r>>)]}
    /\ Fail(r)
    /\ Blame(~job[r].open, "late")
    /\ UNCHANGED <<surface, client, convs, blocked>>

\* Mutant: "done" is sent although the row was not saved.
SaveAnswerTells(r) ==
    /\ At(r, "stream") /\ job[r].k = Data /\ CanEmit(r, 1)
    /\ Emit(r, <<Sees("done")>>, To(r, "over"))
    /\ \/ /\ log' = [log EXCEPT ![ConversationOf(r)] = Append(@, <<"assistant", r>>)]
          /\ Blame(~job[r].open, "late")
          /\ UNCHANGED troubles
       \/ CallFails(r) /\ UNCHANGED <<log, blame>>
    /\ UNCHANGED <<surface, client, convs, blocked>>

\* The answer's row, then "done".
SaveAnswer(r) ==
    /\ At(r, "stream") /\ job[r].k = Data /\ CanEmit(r, 1)
    /\ log' = [log EXCEPT ![ConversationOf(r)] = Append(@, <<"assistant", r>>)]
    /\ Emit(r, <<Sees("done")>>, To(r, "over"))
    /\ Blame(~job[r].open, "late")
    /\ UNCHANGED <<surface, client, convs, blocked, troubles>>

Serve(r) == Converse(r) \/ SaveQuestion(r) \/ Blocked(r) \/ OnChunk(r) \/ ModelFails(r)
            \/ SaveAnswer(r)

-----------------------------------------------------------------------------
Reader ==
    \/ Abort \/ Reset \/ ScoreDone
    \/ \E i \in Asks : Score(i)
    \/ \E r \in Asks : Send(r) \/ \E b \in BOOLEAN : Enter(r, b) \/ WidgetReset(r, b)
Panel == \E r \in Asks : Start(r) \/ AnswerFails(r) \/ Subscribe(r)
Stream == Timeout \/ StreamEnds \/ Disconnect \/ ProcessChunk

Next == Reader \/ Panel \/ Stream \/ \E r \in Asks : Serve(r) \/ SaveFixed(r)

\* Timers fire and promises settle; what the server wrote arrives or the
\* timer comes first.  Nothing is assumed of the reader or of the server,
\* whose model may never answer.
Fairness ==
    /\ \A r \in Asks : WF_vars(Start(r)) /\ WF_vars(AnswerFails(r) \/ Subscribe(r))
    /\ WF_vars(Timeout) /\ WF_vars(ProcessChunk) /\ WF_vars(StreamEnds)

Spec == Init /\ [][Next]_vars /\ Fairness

-----------------------------------------------------------------------------
(* Properties.                                                             *)

\* Types of the state; the ids the client runs together are sequences.
TypeOK ==
    /\ surface \in {"page", "widget"}
    /\ items \in Seq(Items) /\ Len(items) <= MaxAsks + 1
    /\ \A i \in Items : /\ obj[i].text \in Seq(Asks \X (1..Data))
                        /\ obj[i].refs \in Seq(Asks) /\ obj[i].mid \in Seq(Asks)
                        /\ obj[i].note \subseteq {"cancelled", "failed"}
                        /\ obj[i].fin \in BOOLEAN /\ obj[i].score \in BOOLEAN
    /\ loading \in BOOLEAN
    /\ {convId, nonce, messageId} \subseteq Seq(Asks)
    /\ \A r \in Asks : /\ ask[r].phase \in {"unused", "timer", "captcha", "sent", "over"}
                       /\ job[r].pc \in {"idle", "received", "ask", "stream", "over"}
                       /\ job[r].room \in 0..Room
                       /\ job[r].wire \in Seq(Events)
    /\ sub \in Items /\ buffer \in BOOLEAN
    /\ convs \subseteq Asks /\ blocked \subseteq Asks
    /\ troubles \in 0..MaxTroubles
    /\ blame \subseteq {"cut", "overlap", "list", "unheard", "torn", "late", "behind",
                       "unborn"}

Shown == {items[n] : n \in DOMAIN items}
Mixes == {"overlap", "list"}

\* The callback of a stream writes to whatever item is last.  Aborts in the
\* middle, resets, failures and the timer never put a piece of one answer
\* under another question; what can is a question asked while an earlier one
\* is still on its way, a feedback that lands after a later question, and a
\* history that lands after the first one.
OwnAnswer ==
    blame \cap Mixes = {} =>
        \A i \in Shown : /\ \A n \in DOMAIN obj[i].text : obj[i].text[n][1] = i
                         /\ \A n \in DOMAIN obj[i].refs : obj[i].refs[n] = i

\* The id and the nonce grow by appending, are cleared apart from the streams
\* that fill them, and are read by closures.  As long as no stream is cut and
\* no two questions overlap, what the client will send next is a pair the
\* server issued, for a conversation that exists unless its insert failed.
ConversationUsable ==
    (InFlight = {} /\ blame \cap {"cut", "overlap"} = {}) =>
        \/ convId = <<>> /\ nonce = <<>>
        \/ \E c \in Asks : /\ convId = <<c>> /\ nonce = <<c>>
                           /\ c \in convs \/ "unborn" \in blame

\* A feedback names a message by what messageIdRef held when the answer ended
\* or was cancelled: this is the item's own message or none, and none only
\* after a cancelled question or a half line left by an aborted stream.
FeedbackNamesOwnAnswer ==
    blame \cap Mixes = {} =>
        \A i \in Shown \ {History} :
            /\ obj[i].mid \in {<<>>, <<i>>}
            /\ (obj[i].fin /\ obj[i].mid = <<>>) => ("torn" \in blame \/ obj[i].note # {})

Saved(i) ==
    \E c \in Asks : \E m, n \in DOMAIN log[c] :
        m < n /\ log[c][m] = <<"user", i>> /\ log[c][n] = <<"assistant", i>>

\* An answer the reader sees finished is complete, and its question and it
\* are in the database in that order. (That a reload pairs them takes more: no
\* row may come between, which is HistoryPairsTrue's.)
SeenIsSaved ==
    blame \cap Mixes = {} =>
        \A i \in Shown : obj[i].fin => obj[i].text = Answer(i) /\ Saved(i)

\* Mutant: an answer goes to the nearest question before it that has none.
HistoryPairsFar(rows) ==
    {<<rows[p[1]][2], rows[p[2]][2]>> : p \in
        {x \in (DOMAIN rows) \X (DOMAIN rows) :
            /\ x[1] < x[2] /\ rows[x[1]][1] = "user" /\ rows[x[2]][1] = "assistant"
            /\ \A k \in (x[1] + 1)..(x[2] - 1) : rows[k][1] = "user"}}

\* How a reload pairs the rows of a conversation: an answer belongs to the
\* question right before it; other questions and answers show nothing.
HistoryPairs(rows) ==
    {<<rows[n][2], rows[n + 1][2]>> : n \in
        {m \in 1..(Len(rows) - 1) : rows[m][1] = "user" /\ rows[m + 1][1] = "assistant"}}

\* A reload pairs each question with its own answer, unless a row was saved after
\* its request had ended: by the goroutine of a reader who had left ("late"), or
\* as the fixed answer of a blocked question, whose reader has been told first
\* and may have asked the next one ("behind").
HistoryPairsTrue ==
    blame \cap {"late", "behind"} = {} =>
        \A c \in Asks : \A p \in HistoryPairs(log[c]) : p[1] = p[2]

\* No step changes an answer that was finished, its text, its references, what
\* is appended to them or its message id, whatever the reader does next, but for
\* the mixes above and for the send button: it cancels the answer before,
\* which is long finished, appends "Request canceled" to it and overwrites the
\* id its feedback needs.  The tokens stay even then.
FinishedStays ==
    [][blame' \cap Mixes = {} =>
        \A i \in Shown : obj[i].fin =>
            /\ obj'[i].fin /\ obj'[i].text = obj[i].text /\ obj'[i].refs = obj[i].refs
            /\ \/ obj'[i].note = obj[i].note /\ obj'[i].mid = obj[i].mid
               \/ i = Bottom /\ \E r \in Asks : Send(r)]_vars

\* The spinner ends although no callback is given for errors: by an event, by
\* the reader, or by the timer, unless a failure is one that nobody hears
\* of ("unheard": a captcha that fails where nothing catches it, a broken
\* connection, a stream that ends without its last event).
LoadingEnds == loading ~> (~loading \/ "unheard" \in blame)

=============================================================================
