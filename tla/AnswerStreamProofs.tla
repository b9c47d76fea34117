------------------------ MODULE AnswerStreamProofs --------------------------
(***************************************************************************)
(* Proofs about AnswerStream: types, and that every reader who is told the *)
(* end of the answer has the whole of it.  WholeAnswer is not inductive:   *)
(* what a page has so far must go together with what the goroutine will do *)
(* next.  Answering says how.  And that nobody waits for ever on the mutex *)
(* or the channel.                                                         *)
(***************************************************************************)
EXTENDS AnswerStream, TLAPS, SequenceTheorems

\* A question with a link has pages, one of the bot has polls.
Ways ==
    /\ \A p \in Pages : handler[p] # "away" => way = "link"
    /\ \A q \in Polls : poll[q].at # "away" => way = "bot"

\* What the end of the goroutine tells everybody else.
Ends ==
    /\ closed => outcome # "going" /\ taken = told
    /\ done => closed
    /\ way = "link" /\ ~managed => closed
    /\ \A p \in Pages : handler[p] = "database" => closed

\* At most one page follows; the goroutine knows, and the page has what the buffer has.
PagesFollow ==
    /\ \A p, o \in Pages : handler[p] \in {"follow", "leave"} /\ handler[o] \in {"follow", "leave"} => p = o
    /\ \A p \in Pages : handler[p] = "follow" => visited
    /\ \A p \in Pages : handler[p] = "follow" /\ Open(p) => page[p].text = Upto(written)
    /\ \A p \in Pages : page[p].text = Upto(Len(page[p].text))
    /\ \A p \in Pages : page[p].state = "done" => Told(page[p].text)
Following == "together" \notin odd => PagesFollow

\* A poll has the buffer from when it reads it to when it answers.
Polling ==
    /\ \A q \in Polls : poll[q].finish => poll[q].at = "over"
    /\ "slipped" \notin odd =>
        /\ \A q \in Polls : poll[q].at \in {"flag", "answer"} => poll[q].text = Upto(written)
        /\ \A q \in Polls : poll[q].finish /\ poll[q].known => Told(poll[q].text)

Answering == TypeOK /\ Ways /\ Ends /\ Following /\ Polling

-----------------------------------------------------------------------------
(* The pieces so far.                                                      *)

\* The first n pieces are a text of n pieces.
LEMMA UptoType ==
    ASSUME NEW n \in 0..Pieces
    PROVE  /\ Upto(n) \in Texts /\ Len(Upto(n)) = n
           /\ \A k \in 1..n : Upto(n)[k] = k
  BY BoundsAssumption DEF Upto, Texts

\* No pieces are the empty text.
LEMMA UptoZero == Upto(0) = <<>>
  BY DEF Upto

\* The next piece behind the first ones.
LEMMA UptoNext ==
    ASSUME NEW n \in 0..Pieces, n + 1 \in 0..Pieces
    PROVE  Append(Upto(n), n + 1) = Upto(n + 1)
  <1>1. Upto(n) \in Seq(Nat) /\ Len(Upto(n)) = n /\ Upto(n + 1) \in Seq(Nat) /\ Len(Upto(n + 1)) = n + 1
    BY BoundsAssumption DEF Upto
  <1>2. Append(Upto(n), n + 1) \in Seq(Nat) /\ Len(Append(Upto(n), n + 1)) = n + 1
    BY <1>1, BoundsAssumption
  <1>3. \A k \in 1..n + 1 : Append(Upto(n), n + 1)[k] = Upto(n + 1)[k]
    BY <1>1, BoundsAssumption DEF Upto
  <1> QED
    BY <1>1, <1>2, <1>3, SeqEqual
-----------------------------------------------------------------------------
(* Types.                                                                  *)

\* Texts: none, some of the pieces, and one more.
LEMMA TextTypes ==
    /\ <<>> \in Texts
    /\ \A n \in 0..Pieces : Upto(n) \in Texts
    /\ \A t \in Texts, n \in 1..Pieces : Append(t, n) \in Texts
  <1>1. <<>> \in Texts /\ \A t \in Texts, n \in 1..Pieces : Append(t, n) \in Texts
    BY DEF Texts
  <1> QED
    BY <1>1, UptoType

\* The initial states have the types.
LEMMA TypeInit == Init => TypeOK
  <1> SUFFICES ASSUME Init PROVE TypeOK
    OBVIOUS
  <1>1. page \in [Pages -> PageType]
    BY TextTypes DEF Init, PageType
  <1>2. poll \in [Polls -> PollType]
    BY TextTypes DEF Init, PollType
  <1>3. odd \subseteq {"together", "slipped", "broken"} /\ way \in {"link", "bot"}
    BY DEF Init
  <1>4. told \in 0..Pieces /\ taken \in 0..told /\ written \in Nat
        /\ taken = written + IF writer \in {"lock", "send"} THEN 1 ELSE 0
    BY BoundsAssumption DEF Init
  <1>5. /\ outcome = "going" /\ row = "question" /\ writer = "receive" /\ mutex = "free"
        /\ visited = FALSE /\ done = FALSE /\ closed = FALSE /\ managed = TRUE
        /\ handler \in [Pages -> {"away", "lock", "follow", "leave", "database", "over"}]
    BY DEF Init
  <1> QED
    BY <1>1, <1>2, <1>3, <1>4, <1>5 DEF TypeOK

\* Every step keeps the types.
LEMMA TypeStep ==
    ASSUME TypeOK, [Next]_vars
    PROVE  TypeOK'
  <1>1. CASE Tell
    BY <1>1, BoundsAssumption, TextTypes DEF Tell, TypeOK, PageType, PollType, chat, state, Flows
  <1>2. CASE Finish
    BY <1>2, BoundsAssumption, TextTypes DEF Finish, TypeOK, PageType, PollType, chat, state, Flows
  <1>3. CASE Take
    BY <1>3, BoundsAssumption, TextTypes DEF Take, TypeOK, PageType, PollType, chat, state
  <1>4. CASE Write
    <2>1. CASE visited
      BY <1>4, <2>1 DEF Write, TypeOK, chat
    <2>2. CASE ~visited
      <3>1. odd' \subseteq {"together", "slipped", "broken"}
        BY <1>4, <2>2 DEF Write, TypeOK, Odd
      <3>2. written' = taken /\ taken \in Nat /\ mutex' = "free" /\ writer' = "receive"
        BY <1>4, <2>2, BoundsAssumption DEF Write, TypeOK
      <3> QED
        BY <1>4, <2>2, <3>1, <3>2 DEF Write, TypeOK, chat
    <2> QED
      BY <2>1, <2>2
  <1>5. CASE Close
    BY <1>5, BoundsAssumption, TextTypes DEF Close, TypeOK, PageType, PollType, chat, state
  <1>6. CASE Forget
    BY <1>6, BoundsAssumption, TextTypes DEF Forget, TypeOK, PageType, PollType, chat, state
  <1>7. CASE MarkDone
    BY <1>7, BoundsAssumption, TextTypes DEF MarkDone, TypeOK, PageType, PollType, chat, state
  <1>8. ASSUME NEW p \in Pages, Send(p) PROVE TypeOK'
    <2>1. written' = taken /\ taken \in 1..Pieces
      BY <1>8, BoundsAssumption DEF Send, TypeOK
    <2>2. page' \in [Pages -> PageType]
      <3>1. CASE Open(p)
        <4>1. Append(page[p].text, taken) \in Texts /\ page[p] \in PageType
          BY <2>1, TextTypes DEF TypeOK, PageType
        <4>2. [page[p] EXCEPT !.text = Append(page[p].text, taken)] \in PageType
          BY <4>1 DEF PageType
        <4> QED
          BY <1>8, <3>1, <4>2 DEF Send, TypeOK
      <3>2. CASE ~Open(p)
        BY <1>8, <3>2 DEF Send, TypeOK
      <3> QED
        BY <3>1, <3>2
    <2>3. handler' \in [Pages -> {"away", "lock", "follow", "leave", "database", "over"}]
      BY <1>8 DEF Send, TypeOK
    <2>4. odd' \subseteq {"together", "slipped", "broken"}
      BY <1>8 DEF Send, TypeOK, Odd
    <2> QED
      BY <1>8, <2>1, <2>2, <2>3, <2>4, BoundsAssumption DEF Send, TypeOK, chat
  <1>9. ASSUME NEW p \in Pages, Visit(p) PROVE TypeOK'
    BY <1>9, BoundsAssumption, TextTypes DEF Visit, TypeOK, PageType, PollType, chat, state
  <1>10. ASSUME NEW p \in Pages, Stop(p) PROVE TypeOK'
    BY <1>10, BoundsAssumption, TextTypes DEF Stop, TypeOK, PageType, PollType, chat, state, Open
  <1>11. ASSUME NEW p \in Pages, Break(p) PROVE TypeOK'
    BY <1>11, BoundsAssumption, TextTypes DEF Break, TypeOK, PageType, PollType, chat, state, Open
  <1>12. ASSUME NEW p \in Pages, FromDatabase(p) PROVE TypeOK'
    BY <1>12, BoundsAssumption, TextTypes DEF FromDatabase, TypeOK, PageType, PollType, chat, state, Shows, Open
  <1>13. ASSUME NEW p \in Pages, CatchUp(p) PROVE TypeOK'
    BY <1>13, BoundsAssumption, TextTypes DEF CatchUp, TypeOK, PageType, PollType, chat, state, Shows, Open, Odd
  <1>14. ASSUME NEW p \in Pages, Refused(p) PROVE TypeOK'
    BY <1>14, BoundsAssumption, TextTypes, ZenonT(40) DEF Refused, TypeOK, PageType, PollType, chat, state, Open, Odd
  <1>15. ASSUME NEW p \in Pages, Done(p) PROVE TypeOK'
    BY <1>15, BoundsAssumption, TextTypes DEF Done, TypeOK, PageType, PollType, chat, state, Shows, Open, Follows
  <1>16. ASSUME NEW p \in Pages, Leave(p) PROVE TypeOK'
    BY <1>16, BoundsAssumption, TextTypes DEF Leave, TypeOK, PageType, PollType, chat, state
  <1>17. ASSUME NEW q \in Polls, PollLoads(q) PROVE TypeOK'
    <2> DEFINE r == IF managed THEN [poll[q] EXCEPT !.at = "text"]
                    ELSE [poll[q] EXCEPT !.at = "over", !.finish = TRUE, !.known = FALSE]
    <2>1. poll[q] \in PollType /\ done \in BOOLEAN /\ Upto(written) \in Texts
      BY TextTypes, BoundsAssumption DEF TypeOK
    <2>2. r \in PollType
      BY <2>1 DEF PollType
    <2>3. poll' \in [Polls -> PollType]
      BY <1>17, <2>2 DEF PollLoads, TypeOK
    <2> QED
      BY <1>17, <2>3 DEF PollLoads, TypeOK, chat, state
  <1>18. ASSUME NEW q \in Polls, PollReads(q) PROVE TypeOK'
    <2> DEFINE r == [poll[q] EXCEPT !.at = "flag", !.text = Upto(written)]
    <2>1. poll[q] \in PollType /\ done \in BOOLEAN /\ Upto(written) \in Texts
      BY TextTypes, BoundsAssumption DEF TypeOK
    <2>2. r \in PollType
      BY <2>1 DEF PollType
    <2>3. poll' \in [Polls -> PollType]
      BY <1>18, <2>2 DEF PollReads, TypeOK
    <2> QED
      BY <1>18, <2>3 DEF PollReads, TypeOK, chat, state
  <1>19. ASSUME NEW q \in Polls, PollForgets(q) PROVE TypeOK'
    BY <1>19, BoundsAssumption, TextTypes DEF PollForgets, TypeOK, PageType, PollType, chat, state
  <1>20. ASSUME NEW q \in Polls, PollAnswers(q) PROVE TypeOK'
    <2> DEFINE r == [poll[q] EXCEPT !.at = "over", !.finish = done]
    <2>1. poll[q] \in PollType /\ done \in BOOLEAN /\ Upto(written) \in Texts
      BY TextTypes, BoundsAssumption DEF TypeOK
    <2>2. r \in PollType
      BY <2>1 DEF PollType
    <2>3. poll' \in [Polls -> PollType]
      BY <1>20, <2>2 DEF PollAnswers, TypeOK
    <2> QED
      BY <1>20, <2>3 DEF PollAnswers, TypeOK, chat, state
  <1>21. CASE UNCHANGED vars
    BY <1>21, BoundsAssumption, TextTypes DEF vars, chat, state, TypeOK, PageType, PollType
  <1> QED
    BY <1>1, <1>2, <1>3, <1>4, <1>5, <1>6, <1>7, <1>8, <1>9, <1>10, <1>11, <1>12, <1>13, <1>14, <1>15, <1>16, <1>17, <1>18, <1>19, <1>20, <1>21 DEF Next, Goroutine, Handler, Reader, Poll

-----------------------------------------------------------------------------
(* Who is where, and what the end tells.                                   *)

\* A question keeps its kind of readers.
LEMMA WaysStep ==
    ASSUME TypeOK, Ways, [Next]_vars
    PROVE  Ways'
  <1>1. CASE Tell
    BY <1>1 DEF Tell, Ways, TypeOK, chat, state, Flows
  <1>2. CASE Finish
    BY <1>2 DEF Finish, Ways, TypeOK, chat, state, Flows
  <1>3. CASE Take
    BY <1>3 DEF Take, Ways, TypeOK, chat, state
  <1>4. CASE Write
    BY <1>4 DEF Write, Ways, TypeOK, chat, state, Odd
  <1>5. CASE Close
    BY <1>5 DEF Close, Ways, TypeOK, chat, state
  <1>6. CASE Forget
    BY <1>6 DEF Forget, Ways, TypeOK, chat, state
  <1>7. CASE MarkDone
    BY <1>7 DEF MarkDone, Ways, TypeOK, chat, state
  <1>8. ASSUME NEW p \in Pages, Send(p) PROVE Ways'
    BY <1>8 DEF Send, Ways, TypeOK, chat, state, Odd, Follows, Open
  <1>9. ASSUME NEW p \in Pages, Visit(p) PROVE Ways'
    BY <1>9 DEF Visit, Ways, TypeOK, chat, state
  <1>10. ASSUME NEW p \in Pages, Stop(p) PROVE Ways'
    BY <1>10 DEF Stop, Ways, TypeOK, chat, state, Open
  <1>11. ASSUME NEW p \in Pages, Break(p) PROVE Ways'
    BY <1>11 DEF Break, Ways, TypeOK, chat, state, Open
  <1>12. ASSUME NEW p \in Pages, FromDatabase(p) PROVE Ways'
    BY <1>12 DEF FromDatabase, Ways, TypeOK, chat, state, Shows, Open
  <1>13. ASSUME NEW p \in Pages, CatchUp(p) PROVE Ways'
    BY <1>13 DEF CatchUp, Ways, TypeOK, chat, state, Shows, Open, Odd
  <1>14. ASSUME NEW p \in Pages, Refused(p) PROVE Ways'
    BY <1>14 DEF Refused, Ways, TypeOK, chat, state, Open, Odd
  <1>15. ASSUME NEW p \in Pages, Done(p) PROVE Ways'
    BY <1>15 DEF Done, Ways, TypeOK, chat, state, Shows, Open, Follows
  <1>16. ASSUME NEW p \in Pages, Leave(p) PROVE Ways'
    BY <1>16 DEF Leave, Ways, TypeOK, chat, state
  <1>17. ASSUME NEW q \in Polls, PollLoads(q) PROVE Ways'
    BY <1>17 DEF PollLoads, Ways, TypeOK, chat, state
  <1>18. ASSUME NEW q \in Polls, PollReads(q) PROVE Ways'
    BY <1>18 DEF PollReads, Ways, TypeOK, chat, state
  <1>19. ASSUME NEW q \in Polls, PollForgets(q) PROVE Ways'
    BY <1>19 DEF PollForgets, Ways, TypeOK, chat, state
  <1>20. ASSUME NEW q \in Polls, PollAnswers(q) PROVE Ways'
    BY <1>20 DEF PollAnswers, Ways, TypeOK, chat, state
  <1>21. CASE UNCHANGED vars
    BY <1>21 DEF vars, chat, state, Ways, TypeOK
  <1> QED
    BY <1>1, <1>2, <1>3, <1>4, <1>5, <1>6, <1>7, <1>8, <1>9, <1>10, <1>11, <1>12, <1>13, <1>14, <1>15, <1>16, <1>17, <1>18, <1>19, <1>20, <1>21 DEF Next, Goroutine, Handler, Reader, Poll

\* Nobody is told of an end that is not there.
LEMMA EndsStep ==
    ASSUME TypeOK, Ways, Ends, [Next]_vars
    PROVE  Ends'
  <1>1. CASE Tell
    BY <1>1, BoundsAssumption DEF Tell, Ends, Ways, TypeOK, chat, state, Flows
  <1>2. CASE Finish
    BY <1>2, BoundsAssumption DEF Finish, Ends, Ways, TypeOK, chat, state, Flows
  <1>3. CASE Take
    BY <1>3, BoundsAssumption DEF Take, Ends, Ways, TypeOK, chat, state
  <1>4. CASE Write
    BY <1>4, BoundsAssumption DEF Write, Ends, Ways, TypeOK, chat, state, Odd
  <1>5. CASE Close
    BY <1>5, BoundsAssumption DEF Close, Ends, Ways, TypeOK, chat, state
  <1>6. CASE Forget
    BY <1>6, BoundsAssumption DEF Forget, Ends, Ways, TypeOK, chat, state
  <1>7. CASE MarkDone
    BY <1>7, BoundsAssumption DEF MarkDone, Ends, Ways, TypeOK, chat, state
  <1>8. ASSUME NEW p \in Pages, Send(p) PROVE Ends'
    BY <1>8, BoundsAssumption DEF Send, Ends, Ways, TypeOK, chat, state, Odd, Follows, Open
  <1>9. ASSUME NEW p \in Pages, Visit(p) PROVE Ends'
    BY <1>9, BoundsAssumption DEF Visit, Ends, Ways, TypeOK, chat, state
  <1>10. ASSUME NEW p \in Pages, Stop(p) PROVE Ends'
    BY <1>10, BoundsAssumption DEF Stop, Ends, Ways, TypeOK, chat, state, Open
  <1>11. ASSUME NEW p \in Pages, Break(p) PROVE Ends'
    BY <1>11, BoundsAssumption DEF Break, Ends, Ways, TypeOK, chat, state, Open
  <1>12. ASSUME NEW p \in Pages, FromDatabase(p) PROVE Ends'
    BY <1>12, BoundsAssumption DEF FromDatabase, Ends, Ways, TypeOK, chat, state, Shows, Open
  <1>13. ASSUME NEW p \in Pages, CatchUp(p) PROVE Ends'
    BY <1>13, BoundsAssumption DEF CatchUp, Ends, Ways, TypeOK, chat, state, Shows, Open, Odd
  <1>14. ASSUME NEW p \in Pages, Refused(p) PROVE Ends'
    BY <1>14, BoundsAssumption DEF Refused, Ends, Ways, TypeOK, chat, state, Open, Odd
  <1>15. ASSUME NEW p \in Pages, Done(p) PROVE Ends'
    BY <1>15, BoundsAssumption DEF Done, Ends, Ways, TypeOK, chat, state, Shows, Open, Follows
  <1>16. ASSUME NEW p \in Pages, Leave(p) PROVE Ends'
    BY <1>16, BoundsAssumption DEF Leave, Ends, Ways, TypeOK, chat, state
  <1>17. ASSUME NEW q \in Polls, PollLoads(q) PROVE Ends'
    BY <1>17, BoundsAssumption DEF PollLoads, Ends, Ways, TypeOK, chat, state
  <1>18. ASSUME NEW q \in Polls, PollReads(q) PROVE Ends'
    BY <1>18, BoundsAssumption DEF PollReads, Ends, Ways, TypeOK, chat, state
  <1>19. ASSUME NEW q \in Polls, PollForgets(q) PROVE Ends'
    BY <1>19, BoundsAssumption DEF PollForgets, Ends, Ways, TypeOK, chat, state
  <1>20. ASSUME NEW q \in Polls, PollAnswers(q) PROVE Ends'
    BY <1>20, BoundsAssumption DEF PollAnswers, Ends, Ways, TypeOK, chat, state
  <1>21. CASE UNCHANGED vars
    BY <1>21, BoundsAssumption DEF vars, chat, state, Ends, Ways, TypeOK
  <1> QED
    BY <1>1, <1>2, <1>3, <1>4, <1>5, <1>6, <1>7, <1>8, <1>9, <1>10, <1>11, <1>12, <1>13, <1>14, <1>15, <1>16, <1>17, <1>18, <1>19, <1>20, <1>21 DEF Next, Goroutine, Handler, Reader, Poll

-----------------------------------------------------------------------------
(* The pages.                                                              *)

\* What a page has goes together with what the goroutine does next.
LEMMA FollowingStep ==
    ASSUME TypeOK, Ways, Ends, Following, [Next]_vars
    PROVE  Following'
  <1>1. CASE Tell
    BY <1>1, BoundsAssumption, UptoType DEF Tell, Following, PagesFollow, Open, Told, Ends, TypeOK, PageType, chat, state, Flows
  <1>2. CASE Finish
    BY <1>2, BoundsAssumption, UptoType DEF Finish, Following, PagesFollow, Open, Told, Ends, TypeOK, PageType, chat, state, Flows
  <1>3. CASE Take
    BY <1>3, BoundsAssumption, UptoType DEF Take, Following, PagesFollow, Open, Told, Ends, TypeOK, PageType, chat, state
  <1>4. CASE Write
    BY <1>4, BoundsAssumption, UptoType DEF Write, Following, PagesFollow, Open, Told, Ends, TypeOK, PageType, chat, state, Odd
  <1>5. CASE Close
    BY <1>5, BoundsAssumption, UptoType DEF Close, Following, PagesFollow, Open, Told, Ends, TypeOK, PageType, chat, state
  <1>6. CASE Forget
    BY <1>6, BoundsAssumption, UptoType DEF Forget, Following, PagesFollow, Open, Told, Ends, TypeOK, PageType, chat, state
  <1>7. CASE MarkDone
    BY <1>7, BoundsAssumption, UptoType DEF MarkDone, Following, PagesFollow, Open, Told, Ends, TypeOK, PageType, chat, state
  <1>8. ASSUME NEW p \in Pages, Send(p) PROVE Following'
    <2> USE DEF Open
    <2>1. written' = written + 1 /\ taken = written + 1 /\ taken \in 1..Pieces /\ written \in 0..Pieces
      BY <1>8, BoundsAssumption DEF Send, TypeOK
    <2>2. SUFFICES ASSUME "together" \notin odd' PROVE PagesFollow'
      BY DEF Following
    <2>3. "together" \notin odd /\ PagesFollow
      BY <1>8, <2>2 DEF Send, Odd, Following
    <2>4. \A o \in Pages : handler'[o] = "follow" => o = p
      <3>1. handler[p] = "follow"
        BY <1>8 DEF Send, Follows
      <3>2. \A o \in Pages : handler'[o] = "follow" => handler[o] = "follow"
        BY <1>8 DEF Send, TypeOK
      <3> QED
        BY <2>3, <3>1, <3>2 DEF PagesFollow
    <2>5. CASE Open(p)
      <3>1. page'[p].text = Upto(taken) /\ Len(page'[p].text) = taken
        <4>1. page'[p].text = Append(Upto(written), taken)
          BY <1>8, <2>3, <2>5 DEF Send, Follows, TypeOK, PageType, PagesFollow
        <4> QED
          BY <4>1, <2>1, UptoNext, UptoType
      <3>2. /\ handler' = handler /\ page'[p].state = "loading"
            /\ \A o \in Pages \ {p} : page'[o] = page[o]
        BY <1>8, <2>5 DEF Send, TypeOK, PageType
      <3> QED
        BY <1>8, <2>1, <2>3, <2>4, <3>1, <3>2 DEF Send, Told, chat, PagesFollow
    <2>6. CASE ~Open(p)
      <3>1. page' = page
        BY <1>8, <2>6 DEF Send
      <3>2. \A o \in Pages : handler'[o] \in {"follow", "leave"} => handler[o] \in {"follow", "leave"}
        BY <1>8, <2>6 DEF Send, Follows, TypeOK
      <3>3. \A o \in Pages : handler'[o] = "follow" => ~Open(o)
        BY <2>4, <2>6
      <3>4. \A o \in Pages : handler'[o] = "follow" => visited
        BY <2>3, <2>4, <1>8 DEF Send, Follows, PagesFollow
      <3> QED
        BY <1>8, <2>3, <3>1, <3>2, <3>3, <3>4 DEF Send, Told, chat, PagesFollow
    <2> QED
      BY <2>5, <2>6
  <1>9. ASSUME NEW p \in Pages, Visit(p) PROVE Following'
    BY <1>9, BoundsAssumption, UptoType DEF Visit, Following, PagesFollow, Open, Told, Ends, TypeOK, PageType, chat, state
  <1>10. ASSUME NEW p \in Pages, Stop(p) PROVE Following'
    BY <1>10, BoundsAssumption, UptoType DEF Stop, Following, PagesFollow, Open, Told, Ends, TypeOK, PageType, chat, state
  <1>11. ASSUME NEW p \in Pages, Break(p) PROVE Following'
    BY <1>11, BoundsAssumption, UptoType DEF Break, Following, PagesFollow, Open, Told, Ends, TypeOK, PageType, chat, state
  <1>12. ASSUME NEW p \in Pages, FromDatabase(p) PROVE Following'
    <2> USE DEF Open
    <2>1. outcome # "going" /\ told \in 0..Pieces /\ 0 \in 0..Pieces
      BY <1>12, BoundsAssumption DEF FromDatabase, TypeOK, Ends
    <2>2. SUFFICES ASSUME "together" \notin odd' PROVE PagesFollow'
      BY DEF Following
    <2>3. "together" \notin odd /\ PagesFollow
      BY <1>12, <2>2 DEF FromDatabase, Following
    <2>4. \/ page' = page
          \/ page' = [page EXCEPT ![p] = [state |-> "done", text |-> Upto(told)]]
          \/ \E s \in {"broken", "error"} : page' = [page EXCEPT ![p] = [state |-> s, text |-> <<>>]]
      BY <1>12 DEF FromDatabase, Shows
    <2>5. /\ page'[p].text = Upto(Len(page'[p].text))
          /\ page'[p].state = "done" => Told(page'[p].text)
      BY <2>1, <2>3, <2>4, UptoType, UptoZero DEF Told, TypeOK, PagesFollow
    <2>6. \A o \in Pages \ {p} : page'[o] = page[o] /\ handler'[o] = handler[o]
      BY <1>12, <2>4 DEF FromDatabase, TypeOK
    <2>7. handler'[p] = "over"
      BY <1>12 DEF FromDatabase, TypeOK
    <2> QED
      BY <1>12, <2>3, <2>5, <2>6, <2>7 DEF FromDatabase, Told, chat, state, PagesFollow
  <1>13. ASSUME NEW p \in Pages, CatchUp(p) PROVE Following'
    <2> USE DEF Open
    <2>1. written \in 0..Pieces
      BY BoundsAssumption DEF TypeOK
    <2>2. SUFFICES ASSUME "together" \notin odd' PROVE PagesFollow'
      BY DEF Following
    <2>3. "together" \notin odd /\ PagesFollow
      BY <1>13, <2>2 DEF CatchUp, Odd, Following
    <2>4. \A o \in Pages \ {p} : handler[o] \notin {"follow", "leave"}
      BY <1>13, <2>2 DEF CatchUp, Odd, Together
    <2>5. /\ handler'[p] = "follow" /\ visited' = TRUE
          /\ \A o \in Pages \ {p} : page'[o] = page[o] /\ handler'[o] = handler[o]
      BY <1>13 DEF CatchUp, Shows, TypeOK
    <2>6. /\ page[p].state = "loading" => page'[p] = [state |-> "loading", text |-> Upto(written)]
          /\ page[p].state # "loading" => page'[p] = page[p]
      BY <1>13 DEF CatchUp, Shows, TypeOK
    <2>7. /\ page'[p].text = Upto(Len(page'[p].text))
          /\ page'[p].state = "done" => Told(page'[p].text)
          /\ page'[p].state = "loading" => page'[p].text = Upto(written)
      BY <2>1, <2>3, <2>6, UptoType DEF PagesFollow
    <2> QED
      BY <1>13, <2>3, <2>4, <2>5, <2>7 DEF CatchUp, Told, chat, PagesFollow
  <1>14. ASSUME NEW p \in Pages, Refused(p) PROVE Following'
    BY <1>14, BoundsAssumption, UptoType DEF Refused, Following, PagesFollow, Open, Told, Ends, TypeOK, PageType, chat, state, Odd
  <1>15. ASSUME NEW p \in Pages, Done(p) PROVE Following'
    BY <1>15, BoundsAssumption, UptoType DEF Done, Following, PagesFollow, Open, Told, Ends, TypeOK, PageType, chat, state, Shows, Follows
  <1>16. ASSUME NEW p \in Pages, Leave(p) PROVE Following'
    BY <1>16, BoundsAssumption, UptoType DEF Leave, Following, PagesFollow, Open, Told, Ends, TypeOK, PageType, chat, state
  <1>17. ASSUME NEW q \in Polls, PollLoads(q) PROVE Following'
    BY <1>17, BoundsAssumption, UptoType DEF PollLoads, Following, PagesFollow, Open, Told, Ends, TypeOK, PageType, chat, state
  <1>18. ASSUME NEW q \in Polls, PollReads(q) PROVE Following'
    BY <1>18, BoundsAssumption, UptoType DEF PollReads, Following, PagesFollow, Open, Told, Ends, TypeOK, PageType, chat, state
  <1>19. ASSUME NEW q \in Polls, PollForgets(q) PROVE Following'
    BY <1>19, BoundsAssumption, UptoType DEF PollForgets, Following, PagesFollow, Open, Told, Ends, TypeOK, PageType, chat, state
  <1>20. ASSUME NEW q \in Polls, PollAnswers(q) PROVE Following'
    BY <1>20, BoundsAssumption, UptoType DEF PollAnswers, Following, PagesFollow, Open, Told, Ends, TypeOK, PageType, chat, state
  <1>21. CASE UNCHANGED vars
    BY <1>21, BoundsAssumption, UptoType DEF vars, chat, state, Following, PagesFollow, Open, Told, Ends, TypeOK, PageType
  <1> QED
    BY <1>1, <1>2, <1>3, <1>4, <1>5, <1>6, <1>7, <1>8, <1>9, <1>10, <1>11, <1>12, <1>13, <1>14, <1>15, <1>16, <1>17, <1>18, <1>19, <1>20, <1>21 DEF Next, Goroutine, Handler, Reader, Poll

-----------------------------------------------------------------------------
(* The polls.                                                              *)

\* What a poll read is what it answers with.
LEMMA PollingStep ==
    ASSUME TypeOK, Ways, Ends, Polling, [Next]_vars
    PROVE  Polling'
  <1>1. CASE Tell
    BY <1>1, BoundsAssumption DEF Tell, Polling, Told, Ends, Ways, TypeOK, PollType, chat, state, Flows
  <1>2. CASE Finish
    BY <1>2, BoundsAssumption DEF Finish, Polling, Told, Ends, Ways, TypeOK, PollType, chat, state, Flows
  <1>3. CASE Take
    BY <1>3, BoundsAssumption DEF Take, Polling, Told, Ends, Ways, TypeOK, PollType, chat, state
  <1>4. CASE Write
    BY <1>4, BoundsAssumption DEF Write, Polling, Told, Ends, Ways, TypeOK, PollType, chat, state, Odd
  <1>5. CASE Close
    BY <1>5, BoundsAssumption DEF Close, Polling, Told, Ends, Ways, TypeOK, PollType, chat, state
  <1>6. CASE Forget
    BY <1>6, BoundsAssumption DEF Forget, Polling, Told, Ends, Ways, TypeOK, PollType, chat, state
  <1>7. CASE MarkDone
    BY <1>7, BoundsAssumption DEF MarkDone, Polling, Told, Ends, Ways, TypeOK, PollType, chat, state
  <1>8. ASSUME NEW p \in Pages, Send(p) PROVE Polling'
    BY <1>8, BoundsAssumption DEF Send, Polling, Told, Ends, Ways, TypeOK, PollType, chat, state, Odd, Follows, Open
  <1>9. ASSUME NEW p \in Pages, Visit(p) PROVE Polling'
    BY <1>9, BoundsAssumption DEF Visit, Polling, Told, Ends, Ways, TypeOK, PollType, chat, state
  <1>10. ASSUME NEW p \in Pages, Stop(p) PROVE Polling'
    BY <1>10, BoundsAssumption DEF Stop, Polling, Told, Ends, Ways, TypeOK, PollType, chat, state, Open
  <1>11. ASSUME NEW p \in Pages, Break(p) PROVE Polling'
    BY <1>11, BoundsAssumption DEF Break, Polling, Told, Ends, Ways, TypeOK, PollType, chat, state, Open
  <1>12. ASSUME NEW p \in Pages, FromDatabase(p) PROVE Polling'
    BY <1>12, BoundsAssumption DEF FromDatabase, Polling, Told, Ends, Ways, TypeOK, PollType, chat, state, Shows, Open
  <1>13. ASSUME NEW p \in Pages, CatchUp(p) PROVE Polling'
    BY <1>13, BoundsAssumption DEF CatchUp, Polling, Told, Ends, Ways, TypeOK, PollType, chat, state, Shows, Open, Odd
  <1>14. ASSUME NEW p \in Pages, Refused(p) PROVE Polling'
    BY <1>14, BoundsAssumption DEF Refused, Polling, Told, Ends, Ways, TypeOK, PollType, chat, state, Open, Odd
  <1>15. ASSUME NEW p \in Pages, Done(p) PROVE Polling'
    BY <1>15, BoundsAssumption DEF Done, Polling, Told, Ends, Ways, TypeOK, PollType, chat, state, Shows, Open, Follows
  <1>16. ASSUME NEW p \in Pages, Leave(p) PROVE Polling'
    BY <1>16, BoundsAssumption DEF Leave, Polling, Told, Ends, Ways, TypeOK, PollType, chat, state
  <1>17. ASSUME NEW q \in Polls, PollLoads(q) PROVE Polling'
    BY <1>17, BoundsAssumption DEF PollLoads, Polling, Told, Ends, Ways, TypeOK, PollType, chat, state
  <1>18. ASSUME NEW q \in Polls, PollReads(q) PROVE Polling'
    BY <1>18, BoundsAssumption DEF PollReads, Polling, Told, Ends, Ways, TypeOK, PollType, chat, state
  <1>19. ASSUME NEW q \in Polls, PollForgets(q) PROVE Polling'
    BY <1>19, BoundsAssumption DEF PollForgets, Polling, Told, Ends, Ways, TypeOK, PollType, chat, state
  <1>20. ASSUME NEW q \in Polls, PollAnswers(q) PROVE Polling'
    BY <1>20, BoundsAssumption DEF PollAnswers, Polling, Told, Ends, Ways, TypeOK, PollType, chat, state
  <1>21. CASE UNCHANGED vars
    BY <1>21, BoundsAssumption DEF vars, chat, state, Polling, Told, Ends, Ways, TypeOK, PollType
  <1> QED
    BY <1>1, <1>2, <1>3, <1>4, <1>5, <1>6, <1>7, <1>8, <1>9, <1>10, <1>11, <1>12, <1>13, <1>14, <1>15, <1>16, <1>17, <1>18, <1>19, <1>20, <1>21 DEF Next, Goroutine, Handler, Reader, Poll

-----------------------------------------------------------------------------
(* The theorems.                                                           *)

\* Nobody has asked for the answer at first.
LEMMA InitAnswering == Init => Answering
  <1> SUFFICES ASSUME Init PROVE Answering
    OBVIOUS
  <1>1. TypeOK
    BY TypeInit
  <1>2. Ways /\ Ends /\ Polling
    BY DEF Init, Ways, Ends, Polling
  <1>3. Following
    <2>1. Len(<<>>) = 0
      OBVIOUS
    <2> QED
      BY <2>1, UptoZero DEF Init, Following, PagesFollow, Open
  <1> QED
    BY <1>1, <1>2, <1>3 DEF Answering

\* Types: what holds before a step holds after it.
THEOREM TypeCorrect == Spec => []TypeOK
  <1>1. TypeOK /\ [Next]_vars => TypeOK'
    BY TypeStep
  <1> QED
    BY TypeInit, <1>1, PTL DEF Spec

\* How pages, polls and the goroutine go together is kept by every step.
LEMMA AnsweringHolds == Spec => []Answering
  <1>1. Answering /\ [Next]_vars => Answering'
    <2> SUFFICES ASSUME Answering, [Next]_vars PROVE Answering'
      OBVIOUS
    <2>1. TypeOK /\ Ways /\ Ends /\ Following /\ Polling
      BY DEF Answering
    <2>2. TypeOK' /\ Ways' /\ Ends'
      BY <2>1, TypeStep, WaysStep, EndsStep
    <2>3. Following' /\ Polling'
      BY <2>1, FollowingStep, PollingStep
    <2> QED
      BY <2>2, <2>3 DEF Answering
  <1> QED
    BY InitAnswering, <1>1, PTL DEF Spec

\* Whoever is told the end of the answer has the whole of it (GetWechatAnswer,
\* the polls of HandleMsg), for any number of pages, polls and pieces, unless two
\* handlers take from one channel or a piece slips between two reads of a poll.
THEOREM AnswerIsWhole == Spec => []WholeAnswer
  <1>1. Answering => WholeAnswer
    BY DEF Answering, Following, PagesFollow, Polling, WholeAnswer
  <1> QED
    BY AnsweringHolds, <1>1, PTL

-----------------------------------------------------------------------------
(* Nobody waits for nobody: the part of AllEnd that is about states.       *)

\* The mutex is free, or the goroutine holds it to send and a handler is there to take
\* the piece.
NobodyBlocked ==
    "broken" \notin odd =>
        mutex = "free" \/ (writer = "send" /\ \E p \in Pages : Follows(p))

\* IsVisited is set only while a handler follows or is about to leave, the goroutine
\* sends only while it is set, and a handler leaves only when the channel is closed.
HandsMeet ==
    "broken" \notin odd =>
        /\ mutex # "lost"
        /\ visited => \E p \in Pages : handler[p] \in {"follow", "leave"}
        /\ \A p \in Pages : handler[p] = "leave" => closed
        /\ writer = "send" => visited

\* A step that leaves the handlers, the mutex and the flags alone and does not begin to
\* send.
LEMMA HandsStay ==
    ASSUME HandsMeet, UNCHANGED <<handler, mutex, visited>>,
           "broken" \in odd => "broken" \in odd', closed => closed',
           writer' = "send" => writer = "send"
    PROVE  HandsMeet'
  BY DEF HandsMeet

\* Every step keeps this.
LEMMA HandsStep ==
    ASSUME TypeOK, HandsMeet, [Next]_vars
    PROVE  HandsMeet'
  <1>1. "broken" \notin odd =>
           /\ mutex # "lost"
           /\ visited => \E p \in Pages : handler[p] \in {"follow", "leave"}
           /\ \A p \in Pages : handler[p] = "leave" => closed
           /\ writer = "send" => visited
    BY DEF HandsMeet
  <1>2. handler \in [Pages -> {"away", "lock", "follow", "leave", "database", "over"}]
    BY DEF TypeOK
  <1>3. CASE \/ Tell \/ Finish \/ Take \/ Close \/ Forget \/ MarkDone
             \/ \E p \in Pages : Stop(p) \/ Break(p)
             \/ \E q \in Polls : Poll(q)
             \/ UNCHANGED vars
    <2>1. CASE Tell \/ Finish \/ Take \/ UNCHANGED vars
      BY <2>1, HandsStay DEF Tell, Finish, Take, chat, state, vars
    <2>2. CASE Close \/ Forget \/ MarkDone
      BY <2>2, HandsStay DEF Close, Forget, MarkDone, chat, state
    <2>3. CASE \E p \in Pages : Stop(p) \/ Break(p)
      BY <2>3, HandsStay DEF Stop, Break, chat, state
    <2>4. CASE \E q \in Polls : Poll(q)
      BY <2>4, HandsStay DEF Poll, PollLoads, PollReads, PollForgets, PollAnswers, state
    <2> QED
      BY <1>3, <2>1, <2>2, <2>3, <2>4
  <1>4. CASE Write
    <2>1. UNCHANGED <<handler, visited, closed>> /\ ("broken" \in odd => "broken" \in odd')
      BY <1>4 DEF Write, Odd
    <2>2. \/ visited /\ mutex' = "writer" /\ writer' = "send"
          \/ ~visited /\ mutex' = mutex /\ writer' = "receive"
      BY <1>4 DEF Write
    <2> QED
      BY <1>1, <2>1, <2>2 DEF HandsMeet
  <1>5. ASSUME NEW p \in Pages, Send(p) PROVE HandsMeet'
    <2>1. mutex' = "free" /\ writer' = "receive" /\ UNCHANGED <<visited, closed>>
      BY <1>5 DEF Send
    <2>2. UNCHANGED <<handler, odd>> \/ "broken" \in odd'
      BY <1>5 DEF Send, Odd
    <2> QED
      BY <1>1, <2>1, <2>2 DEF HandsMeet
  <1>6. ASSUME NEW p \in Pages, Visit(p) \/ FromDatabase(p) PROVE HandsMeet'
    <2>1. UNCHANGED <<mutex, visited, closed, odd, writer>> /\ handler[p] \in {"away", "database"}
          /\ \E h \in {"lock", "database", "over"} : handler' = [handler EXCEPT ![p] = h]
      BY <1>6 DEF Visit, FromDatabase, state
    <2>2. \A o \in Pages : handler'[o] = IF o = p THEN handler'[p] ELSE handler[o]
      BY <1>2, <2>1
    <2>3. handler'[p] \notin {"follow", "leave"}
      BY <1>2, <2>1
    <2> QED
      BY <1>1, <2>1, <2>2, <2>3 DEF HandsMeet
  <1>7. ASSUME NEW p \in Pages, CatchUp(p) PROVE HandsMeet'
    <2>1. UNCHANGED <<mutex, closed, writer>> /\ visited' = TRUE /\ handler'[p] = "follow"
          /\ \A o \in Pages : o # p => handler'[o] = handler[o]
      BY <1>2, <1>7 DEF CatchUp
    <2>2. "broken" \in odd => "broken" \in odd'
      BY <1>7 DEF CatchUp, Odd
    <2> QED
      BY <1>1, <2>1, <2>2 DEF HandsMeet
  <1>8. ASSUME NEW p \in Pages, Refused(p) PROVE HandsMeet'
    <2>1. UNCHANGED <<visited, closed, writer>> /\ handler[p] = "lock" /\ handler'[p] = "over"
          /\ \A o \in Pages : o # p => handler'[o] = handler[o]
      BY <1>2, <1>8 DEF Refused
    <2>2. UNCHANGED <<mutex, odd>> \/ "broken" \in odd'
      BY <1>8 DEF Refused, Odd
    <2> QED
      BY <1>1, <2>1, <2>2 DEF HandsMeet
  <1>9. ASSUME NEW p \in Pages, Done(p) PROVE HandsMeet'
    <2>1. UNCHANGED <<mutex, visited, closed, odd, writer>> /\ closed /\ handler'[p] = "leave"
          /\ \A o \in Pages : o # p => handler'[o] = handler[o]
      BY <1>2, <1>9 DEF Done, state
    <2> QED
      BY <1>1, <2>1 DEF HandsMeet
  <1>10. ASSUME NEW p \in Pages, Leave(p) PROVE HandsMeet'
    <2>1. UNCHANGED <<mutex, closed, odd, writer>> /\ mutex = "free" /\ visited' = FALSE
          /\ handler'[p] = "over" /\ \A o \in Pages : o # p => handler'[o] = handler[o]
      BY <1>2, <1>10 DEF Leave
    <2>2. writer # "send"
      BY <2>1 DEF TypeOK
    <2> QED
      BY <1>1, <2>1, <2>2 DEF HandsMeet
  <1> QED
    BY <1>3, <1>4, <1>5, <1>6, <1>7, <1>8, <1>9, <1>10 DEF Next, Goroutine, Handler, Reader

\* The mutex of an answer (SendQuestionToAI, GetWechatAnswer) never waits for nobody:
\* unless the page of a handler was gone when it wrote, whoever holds the mutex has a
\* partner for what it does before it unlocks, however many pages come and leave.
THEOREM NobodyIsBlocked == Spec => []NobodyBlocked
  <1>1. Init => HandsMeet
    BY DEF Init, HandsMeet
  <1>2. TypeOK /\ HandsMeet /\ [Next]_vars => HandsMeet'
    BY HandsStep
  <1>3. TypeOK /\ HandsMeet => NobodyBlocked
    BY DEF TypeOK, HandsMeet, NobodyBlocked, Follows
  <1> QED
    BY <1>1, <1>2, <1>3, TypeCorrect, PTL DEF Spec
=============================================================================
