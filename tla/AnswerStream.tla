---------------------------- MODULE AnswerStream ----------------------------
(***************************************************************************)
(* The answer to a question that was asked in WeChat or WeCom.  A          *)
(* goroutine (SendQuestionToAI) moves the pieces of the answer from the    *)
(* chat into a buffer that it shares with readers under a mutex.  A        *)
(* question from WeChat is answered with a link: whoever opens it follows  *)
(* the answer in a page (views/h5Chat), by a handler that sends the buffer *)
(* and then what comes on an unbuffered channel.  WeCom's bot polls.       *)
(*                                                                         *)
(* The pieces are numbered: an answer is 1, 2, ... as far as the chat told *)
(* it.                                                                     *)
(***************************************************************************)
EXTENDS Naturals, Sequences

CONSTANTS
    Pages,      \* visits of the link
    Polls,      \* requests of WeCom for what there is of the answer
    Pieces,     \* bound: pieces of an answer
    Room        \* pieces the channels hold between the chat and the goroutine

ASSUME BoundsAssumption == Pieces \in Nat /\ Room \in Nat \ {0}

VARIABLES
    way,        \* how the question came: "link" or "bot"
    told,       \* pieces the chat has sent
    outcome,    \* of the chat: "going", "done", "error"
    row,        \* what the database has: "none", "question", "answer"
    taken,      \* pieces the goroutine has received
    writer,     \* where the goroutine is
    mutex,      \* "free", "writer", or "lost": its holder returned without unlocking
    written,    \* pieces in Buffer
    visited, done, closed,  \* IsVisited, IsDone; NotificationChan is closed
    managed,    \* the state is in ConversationManager
    handler,    \* where GetWechatAnswer is for each page
    page,       \* what each page shows: its state and its text
    poll,       \* the requests of WeCom, with the text and the end they were told
    odd         \* history: what readers and network did

chat == <<way, told, outcome, row>>
state == <<mutex, written, visited, done, closed, managed>>
vars == <<chat, taken, writer, state, handler, page, poll, odd>>

Upto(n) == [k \in 1..n |-> k]       \* the first n pieces
Odd(bad, what) == odd' = IF bad THEN odd \cup {what} ELSE odd

Init ==
    /\ way \in {"link", "bot"}
    /\ told = 0 /\ outcome = "going" /\ row = "question"
    /\ taken = 0 /\ writer = "receive"
    /\ mutex = "free" /\ written = 0 /\ visited = FALSE /\ done = FALSE /\ closed = FALSE
    /\ managed = TRUE
    /\ handler = [p \in Pages |-> "away"]
    /\ page = [p \in Pages |-> [state |-> "away", text |-> <<>>]]
    /\ poll = [q \in Polls |-> [at |-> "away", text |-> <<>>, finish |-> FALSE, known |-> TRUE]]
    /\ odd = {}

-----------------------------------------------------------------------------
(* ChatUsecase.Chat, whose events come through channels with some room.    *)

Flows == outcome = "going" /\ told - taken < Room

Tell ==
    /\ Flows /\ told < Pieces
    /\ told' = told + 1
    /\ UNCHANGED <<way, outcome, row, taken, writer, state, handler, page, poll, odd>>

\* "done" comes after the row of the answer; an error at any point, with the
\* conversation, the question and the answer saved or not.
Finish ==
    /\ Flows
    /\ \/ outcome' = "done" /\ row' = "answer"
       \/ outcome' = "error" /\ row' \in {"none", "question", "answer"}
    /\ UNCHANGED <<way, told, taken, writer, state, handler, page, poll, odd>>

-----------------------------------------------------------------------------
(* SendQuestionToAI.                                                       *)

Take ==
    /\ writer = "receive" /\ taken < told
    /\ taken' = taken + 1
    /\ writer' = "lock"
    /\ UNCHANGED <<chat, state, handler, page, poll, odd>>

\* Mutant: the piece is in the buffer and the mutex free when it goes to the channel.
WriteUnlocked ==
    /\ writer = "lock" /\ mutex = "free"
    /\ written' = taken
    /\ writer' = IF visited THEN "send" ELSE "receive"
    /\ Odd(~visited /\ \E q \in Polls : poll[q].at \in {"flag", "answer"}, "slipped")
    /\ UNCHANGED <<chat, taken, mutex, visited, done, closed, managed, handler, page, poll>>

\* A piece goes to the channel first if a page follows, then to the buffer.
Write ==
    /\ writer = "lock" /\ mutex = "free"
    /\ IF visited
       THEN mutex' = "writer" /\ writer' = "send" /\ UNCHANGED <<written, odd>>
       ELSE /\ written' = taken /\ writer' = "receive"
            /\ Odd(\E q \in Polls : poll[q].at \in {"flag", "answer"}, "slipped")
            /\ UNCHANGED mutex
    /\ UNCHANGED <<chat, taken, visited, done, closed, managed, handler, page, poll>>

Follows(p) == handler[p] = "follow"
Open(p) == page[p].state = "loading"

\* Mutant: the mutex stays locked after a send.
SendKeepsLock(p) ==
    /\ writer = "send" /\ Follows(p) /\ Open(p)
    /\ page' = [page EXCEPT ![p].text = Append(@, taken)]
    /\ written' = taken /\ writer' = "receive"
    /\ UNCHANGED <<chat, taken, mutex, visited, done, closed, managed, handler, poll, odd>>

\* The channel has no room of its own: a handler takes the piece from the
\* goroutine, which goes on to the buffer and unlocks.  The handler's write
\* fails if its page is gone, sooner or later.
Send(p) ==
    /\ writer = "send" /\ Follows(p)
    /\ \/ /\ Open(p)
          /\ page' = [page EXCEPT ![p].text = Append(@, taken)]
          /\ UNCHANGED <<handler, odd>>
       \/ /\ ~Open(p)
          /\ UNCHANGED <<handler, page, odd>>
       \/ /\ ~Open(p)
          /\ handler' = [handler EXCEPT ![p] = "leave"]
          /\ Odd(TRUE, "broken")
          /\ UNCHANGED page
    /\ written' = taken /\ mutex' = "free" /\ writer' = "receive"
    /\ UNCHANGED <<chat, taken, visited, done, closed, managed, poll>>

\* The events are over: the channel is closed ...
Close ==
    /\ writer = "receive" /\ taken = told /\ outcome # "going"
    /\ closed' = TRUE
    /\ writer' = "closed"
    /\ UNCHANGED <<chat, taken, mutex, written, visited, done, managed, handler, page, poll, odd>>

\* ... and the state is forgotten (WeChat) or marked as done (WeCom).
Forget ==
    /\ writer = "closed" /\ way = "link"
    /\ managed' = FALSE
    /\ writer' = "over"
    /\ UNCHANGED <<chat, taken, mutex, written, visited, done, closed, handler, page, poll, odd>>

MarkDone ==
    /\ writer = "closed" /\ way = "bot" /\ mutex = "free"
    /\ done' = TRUE
    /\ writer' = "over"
    /\ UNCHANGED <<chat, taken, mutex, written, visited, closed, managed, handler, page, poll, odd>>

-----------------------------------------------------------------------------
(* The page and its handler, GetWechatAnswer.                              *)

\* The page subscribes; the handler looks the state up and sends the question.
Visit(p) ==
    /\ way = "link" /\ handler[p] = "away"
    /\ page' = [page EXCEPT ![p].state = "loading"]
    /\ handler' = [handler EXCEPT ![p] = IF managed THEN "lock" ELSE "database"]
    /\ UNCHANGED <<chat, taken, writer, state, poll, odd>>

\* The reader stops the answer or the five minutes are over: onCancel empties it.
Stop(p) ==
    /\ Open(p)
    /\ page' = [page EXCEPT ![p] = [state |-> "cancelled", text |-> <<>>]]
    /\ UNCHANGED <<chat, taken, writer, state, handler, poll, odd>>

\* The tab is closed, or the connection breaks; the page is not told.
Break(p) ==
    /\ Open(p)
    /\ page' = [page EXCEPT ![p].state = "broken"]
    /\ UNCHANGED <<chat, taken, writer, state, handler, poll, odd>>

\* An event that finds the page closed changes nothing.
Shows(p, s, text) ==
    page' = IF Open(p) THEN [page EXCEPT ![p] = [state |-> s, text |-> text]] ELSE page

\* The row of an answer, an error when there is none to read, and a handler that
\* panics when there is only a question.
FromDatabase(p) ==
    /\ handler[p] = "database"
    /\ handler' = [handler EXCEPT ![p] = "over"]
    /\ \/ row = "answer" /\ Shows(p, "done", Upto(told))
       \/ row = "question" /\ Shows(p, "broken", <<>>)
       \/ Shows(p, "error", <<>>)
    /\ UNCHANGED <<chat, taken, writer, state, poll, odd>>

Together(p) == \E o \in Pages \ {p} : handler[o] \in {"follow", "leave"}

\* Under the mutex: what the buffer holds, and that a page follows from here on.
CatchUp(p) ==
    /\ handler[p] = "lock" /\ mutex = "free"
    /\ Shows(p, "loading", Upto(written))
    /\ visited' = TRUE
    /\ handler' = [handler EXCEPT ![p] = "follow"]
    /\ Odd(Together(p), "together")
    /\ UNCHANGED <<chat, taken, writer, mutex, written, done, closed, managed, poll>>

\* The page is gone: the question cannot be sent, or the buffer, and then the
\* handler returns with the mutex locked.
Refused(p) ==
    /\ handler[p] = "lock" /\ ~Open(p)
    /\ handler' = [handler EXCEPT ![p] = "over"]
    /\ \/ UNCHANGED <<mutex, odd>>
       \/ mutex = "free" /\ mutex' = "lost" /\ Odd(TRUE, "broken")
    /\ UNCHANGED <<chat, taken, writer, written, visited, done, closed, managed, page, poll>>

\* The channel is closed: "done".
Done(p) ==
    /\ Follows(p) /\ closed
    /\ Shows(p, "done", page[p].text)
    /\ handler' = [handler EXCEPT ![p] = "leave"]
    /\ UNCHANGED <<chat, taken, writer, state, poll, odd>>

\* Mutant: the handler returns with the mutex locked.
LeaveLocked(p) ==
    /\ handler[p] = "leave" /\ mutex = "free"
    /\ visited' = FALSE /\ mutex' = "lost"
    /\ handler' = [handler EXCEPT ![p] = "over"]
    /\ UNCHANGED <<chat, taken, writer, written, done, closed, managed, page, poll, odd>>

\* The deferred function, whichever way the handler returns.
Leave(p) ==
    /\ handler[p] = "leave" /\ mutex = "free"
    /\ visited' = FALSE
    /\ handler' = [handler EXCEPT ![p] = "over"]
    /\ UNCHANGED <<chat, taken, writer, mutex, written, done, closed, managed, page, poll, odd>>

-----------------------------------------------------------------------------
(* A poll of WeCom: HandleMsg with a message of type "stream".             *)

PollLoads(q) ==
    /\ way = "bot" /\ poll[q].at = "away"
    /\ poll' = [poll EXCEPT ![q] = IF managed THEN [@ EXCEPT !.at = "text"]
                                   ELSE [@ EXCEPT !.at = "over", !.finish = TRUE, !.known = FALSE]]
    /\ UNCHANGED <<chat, taken, writer, state, handler, page, odd>>

PollReads(q) ==
    /\ poll[q].at = "text" /\ mutex = "free"
    /\ poll' = [poll EXCEPT ![q] = [@ EXCEPT !.at = "flag", !.text = Upto(written)]]
    /\ UNCHANGED <<chat, taken, writer, state, handler, page, odd>>

\* IsDone is read twice without the mutex: whether to forget the state and to
\* sign the answer, and what the answer says of its end.
PollForgets(q) ==
    /\ poll[q].at = "flag"
    /\ managed' = (managed /\ ~done)
    /\ poll' = [poll EXCEPT ![q].at = "answer"]
    /\ UNCHANGED <<chat, taken, writer, mutex, written, visited, done, closed, handler, page, odd>>

PollAnswers(q) ==
    /\ poll[q].at = "answer"
    /\ poll' = [poll EXCEPT ![q] = [@ EXCEPT !.at = "over", !.finish = done]]
    /\ UNCHANGED <<chat, taken, writer, state, handler, page, odd>>

-----------------------------------------------------------------------------
Goroutine == Take \/ Write \/ (\E p \in Pages : Send(p)) \/ Close \/ Forget \/ MarkDone
Handler(p) == FromDatabase(p) \/ CatchUp(p) \/ Refused(p) \/ Done(p) \/ Leave(p)
Reader(p) == Visit(p) \/ Stop(p) \/ Break(p)
Poll(q) == PollLoads(q) \/ PollReads(q) \/ PollForgets(q) \/ PollAnswers(q)

Next == \/ Tell \/ Finish \/ Goroutine
        \/ \E p \in Pages : Handler(p) \/ Reader(p)
        \/ \E q \in Polls : Poll(q)

\* Goroutines run, and a mutex that stays free is locked.  Nothing is assumed of
\* the language model, the readers and WeCom.
Fairness == WF_vars(Goroutine) /\ \A p \in Pages : WF_vars(Handler(p))
Spec == Init /\ [][Next]_vars
LiveSpec == Spec /\ Fairness

-----------------------------------------------------------------------------
Texts == Seq(1..Pieces)
PageType == [state : {"away", "loading", "done", "error", "cancelled", "broken"}, text : Texts]
PollType == [at : {"away", "text", "flag", "answer", "over"}, text : Texts,
             finish : BOOLEAN, known : BOOLEAN]

\* The types, and: the goroutine holds the mutex exactly while it sends, it has a
\* piece in hand exactly before it is in the buffer, and a page is there that follows.
TypeOK ==
    /\ way \in {"link", "bot"} /\ told \in 0..Pieces /\ outcome \in {"going", "done", "error"}
    /\ row \in {"none", "question", "answer"}
    /\ taken \in 0..told /\ writer \in {"receive", "lock", "send", "closed", "over"}
    /\ mutex \in {"free", "writer", "lost"}
    /\ visited \in BOOLEAN /\ done \in BOOLEAN /\ closed \in BOOLEAN /\ managed \in BOOLEAN
    /\ handler \in [Pages -> {"away", "lock", "follow", "leave", "database", "over"}]
    /\ page \in [Pages -> PageType] /\ poll \in [Polls -> PollType]
    /\ odd \subseteq {"together", "slipped", "broken"}
    /\ mutex = "writer" <=> writer = "send"
    /\ written \in Nat /\ taken = written + IF writer \in {"lock", "send"} THEN 1 ELSE 0
    /\ closed <=> writer \in {"closed", "over"}

Told(text) == outcome # "going" /\ text = Upto(told)

\* A page shows a beginning of the answer, and all of it when it is told that this
\* is the end, although the state, the channel and the row take turns, unless the handler of
\* another page has not returned.  And a poll that is told the end has the whole
\* answer, unless a piece came between its reading of the text and of the end.
WholeAnswer ==
    /\ "together" \notin odd =>
        \A p \in Pages : /\ page[p].text = Upto(Len(page[p].text))
                         /\ page[p].state = "done" => Told(page[p].text)
    /\ "slipped" \notin odd =>
        \A q \in Polls : poll[q].finish /\ poll[q].known => Told(poll[q].text)

\* The goroutine sends with the mutex locked, and handlers lock it to leave.  Once
\* the chat is over, nobody waits for ever, however many pages follow, unless the
\* page of a handler was gone when it wrote.
AllEnd ==
    (outcome # "going") ~>
        \/ "broken" \in odd
        \/ writer = "over" /\ \A p \in Pages : handler[p] \in {"away", "over"}
=============================================================================
