------------------------- MODULE JdbcClient_proofs --------------------------
(***************************************************************************)
(* Nobody waits in vain: proof for any number of connections, requests,    *)
(* timeouts, cancellations and broken channels.                            *)
(***************************************************************************)
EXTENDS JdbcClient, TLAPS, SequenceTheorems

\* The table's entry of the request that the thread of c waits for.
EntryOf(c) ==
  IF user[c].op \in {"execute", "next"} THEN [id |-> user[c].id, own |-> FALSE]
  ELSE [id |-> user[c].id, own |-> TRUE]

\* The future the thread of c waits for is set.
Done(c) ==
  IF user[c].op \in {"execute", "next"} THEN result[c].set
  ELSE \E a \in answers[c] : a.id = user[c].id

Idle == {"new", "connected", "ready", "closed", "gone"}
Waiting == {"opensession", "execute", "next", "closesession"}
Thread == [op : Idle \cup Waiting, id : Nat]
Canceller == [op : {"none", "sendSync", "cancel", "over"}, id : Nat]

\* As much of the types as the argument needs.
Shape ==
  /\ user \in [Conn -> Thread] /\ canceller \in [Conn -> Canceller]
  /\ requests \in Nat
  /\ DOMAIN chan = Conn /\ DOMAIN outstanding = Conn /\ DOMAIN failing = Conn
  /\ DOMAIN result = Conn /\ DOMAIN answers = Conn

\* The canceller and the thread of a connection never wait for one request.
Apart ==
  \A c \in Conn :
    /\ user[c].id <= requests /\ canceller[c].id <= requests
    /\ canceller[c].op = "sendSync" => canceller[c].id # 0 /\ canceller[c].id # user[c].id

\* The table keeps a request only until the sweep: from then on a request that has not been
\* called back is one whose write fails.
Kept(c) ==
  Waits(user[c]) =>
    \/ Done(c)
    \/ EntryOf(c) \in failing[c]
    \/ EntryOf(c) \in outstanding[c] /\ chan[c] \notin {"raisedSwept", "swept", "closed"}

JdbcInv == Shape /\ Apart /\ \A c \in Conn : Kept(c)

-----------------------------------------------------------------------------

LEMMA InvInit == JdbcInit => JdbcInv
<1> SUFFICES ASSUME JdbcInit PROVE JdbcInv OBVIOUS
<1>1. Shape BY DEF JdbcInit, ChannelInit, Shape, Thread, Canceller, Idle
<1>2. Apart BY DEF JdbcInit, Apart
<1>3. \A c \in Conn : Kept(c) BY DEF JdbcInit, Kept, Waits
<1> QED BY <1>1, <1>2, <1>3 DEF JdbcInv

\* What the threads of a connection do not touch.
LEMMA InvUnchanged ==
  ASSUME JdbcInv,
         UNCHANGED <<chan, outstanding, failing, user, requests, result, answers, canceller>>
  PROVE  JdbcInv'
  BY DEF JdbcInv, Shape, Apart, Kept, Done, EntryOf, Waits

-----------------------------------------------------------------------------
(* Netty's steps                                                           *)

\* A callback sets the future of whoever waits for the entry, and unsets none.
LEMMA CalledBackDone ==
  ASSUME Shape, NEW c \in Conn, NEW e, NEW reply, CalledBack(c, e, reply),
         UNCHANGED user
  PROVE  /\ DOMAIN result' = Conn /\ DOMAIN answers' = Conn
         /\ \A d \in Conn : Waits(user[d]) /\ Done(d) => Done(d)'
         /\ Waits(user[c]) /\ e = EntryOf(c) => Done(c)'
<1>1. DOMAIN result' = Conn /\ DOMAIN answers' = Conn
  BY DEF CalledBack, Shape
<1>2. \A d \in Conn : Waits(user[d]) /\ Done(d) => Done(d)'
  BY DEF CalledBack, Shape, Done, Waits
<1>3. ASSUME user[c].op \in {"execute", "next"}, e = EntryOf(c) PROVE Done(c)'
  <2>1. ~ e.own BY <1>3 DEF EntryOf
  <2>2. result'[c].set BY <2>1 DEF CalledBack, Shape
  <2> QED BY <1>3, <2>2 DEF Done
<1>4. ASSUME user[c].op \notin {"execute", "next"}, e = EntryOf(c) PROVE Done(c)'
  <2>1. e.own /\ e.id = user[c].id BY <1>4 DEF EntryOf
  <2>2. [id |-> user[c].id, reply |-> reply] \in answers'[c] BY <2>1 DEF CalledBack, Shape
  <2> QED BY <1>4, <2>2 DEF Done
<1> QED BY <1>1, <1>2, <1>3, <1>4

LEMMA HandleInv == ASSUME JdbcInv, NEW c \in Conn, handle(c) PROVE JdbcInv'
<1> USE DEF JdbcInv
<1>1. UNCHANGED <<chan, failing, user, requests, canceller>>
  BY DEF handle, UntouchedByNetty
<1>2. CASE UNCHANGED <<outstanding, result, answers>>
  BY <1>1, <1>2, InvUnchanged
<1>3. ASSUME NEW e \in outstanding[c], NEW reply,
             outstanding' = [outstanding EXCEPT ![c] = @ \ {e}], CalledBack(c, e, reply)
      PROVE  JdbcInv'
  <2>1. Shape' BY <1>1, <1>3, CalledBackDone DEF Shape
  <2>2. Apart' BY <1>1 DEF Apart
  <2>3. ASSUME NEW d \in Conn PROVE Kept(d)'
    BY <1>1, <1>3, CalledBackDone DEF Kept, EntryOf, Shape, Waits
  <2> QED BY <2>1, <2>2, <2>3
<1> QED BY <1>2, <1>3 DEF handle, Listeners

LEMMA WriteFailsInv == ASSUME JdbcInv, NEW c \in Conn, WriteFails(c) PROVE JdbcInv'
<1> USE DEF JdbcInv
<1>1. UNCHANGED <<chan, user, requests, canceller>>
  BY DEF WriteFails, UntouchedByNetty
<1>2. PICK e \in failing[c] :
        /\ failing' = [failing EXCEPT ![c] = @ \ {e}]
        /\ outstanding' = [outstanding EXCEPT ![c] = @ \ {e}]
        /\ CalledBack(c, e, Failure)
  BY DEF WriteFails
<1>3. Shape' BY <1>1, <1>2, CalledBackDone DEF Shape
<1>4. Apart' BY <1>1 DEF Apart
<1>5. ASSUME NEW d \in Conn PROVE Kept(d)'
  BY <1>1, <1>2, CalledBackDone DEF Kept, EntryOf, Shape, Waits
<1> QED BY <1>3, <1>4, <1>5

\* The sweep: whoever is in the table is called back.
LEMMA SweepInv == ASSUME JdbcInv, NEW c \in Conn, failOutstandingRequests(c) PROVE JdbcInv'
<1> USE DEF JdbcInv
<1>1. UNCHANGED <<outstanding, failing, user, requests, canceller>>
  BY DEF failOutstandingRequests, UntouchedByNetty
<1>2. Shape' BY <1>1 DEF Shape, failOutstandingRequests, Swept
<1>3. Apart' BY <1>1 DEF Apart
<1>4. ASSUME NEW d \in Conn, Waits(user[d]), Done(d) PROVE Done(d)'
  BY <1>1, <1>4 DEF failOutstandingRequests, Done, Waits, Shape
<1>5. ASSUME Waits(user[c]), EntryOf(c) \in outstanding[c] PROVE Done(c)'
  <2>1. CASE user[c].op \in {"execute", "next"}
    <3>1. EntryOf(c) \in {e \in outstanding[c] : ~ e.own} BY <1>5, <2>1 DEF EntryOf
    <3> QED BY <1>1, <2>1, <3>1 DEF failOutstandingRequests, Done, Shape
  <2>2. CASE user[c].op \notin {"execute", "next"}
    <3>1. EntryOf(c) \in {e \in outstanding[c] : e.own} BY <1>5, <2>2 DEF EntryOf, Waits
    <3>2. [id |-> user[c].id, reply |-> Failure] \in answers'[c]
      BY <3>1 DEF failOutstandingRequests, Answered, EntryOf, Shape
    <3> QED BY <1>1, <2>2, <3>2 DEF Done
  <2> QED BY <2>1, <2>2
<1>6. ASSUME NEW d \in Conn PROVE Kept(d)'
  <2>1. CASE d = c BY <1>1, <1>4, <1>5, <2>1 DEF Kept, EntryOf, Waits
  <2>2. CASE d # c
    <3>1. chan'[d] = chan[d] BY <2>2 DEF failOutstandingRequests, Swept, Shape
    <3> QED BY <1>1, <1>4, <3>1 DEF Kept, EntryOf, Waits
  <2> QED BY <2>1, <2>2
<1> QED BY <1>2, <1>3, <1>6

\* What clear() forgets has been called back by the sweep, or is called back when its write
\* fails.
LEMMA ClearInv == ASSUME JdbcInv, NEW c \in Conn, clear(c) PROVE JdbcInv'
<1> USE DEF JdbcInv
<1>1. UNCHANGED <<failing, user, requests, canceller, result, answers>>
  BY DEF clear, UntouchedByNetty
<1>2. Shape' BY <1>1 DEF Shape, clear
<1>3. Apart' BY <1>1 DEF Apart
<1>4. ASSUME NEW d \in Conn PROVE Kept(d)'
  <2>1. CASE d = c BY <1>1, <2>1 DEF Kept, EntryOf, Waits, Done, clear
  <2>2. CASE d # c
    <3>1. chan'[d] = chan[d] /\ outstanding'[d] = outstanding[d] BY <2>2 DEF clear, Shape
    <3> QED BY <1>1, <3>1 DEF Kept, EntryOf, Waits, Done
  <2> QED BY <2>1, <2>2
<1> QED BY <1>2, <1>3, <1>4

-----------------------------------------------------------------------------
(* The connection's thread                                                 *)

\* Sending puts the entry into the table of an open channel, or of one whose write fails;
\* the entries of the others stay.
LEMMA SendKeeps ==
  ASSUME Shape, NEW c \in Conn, NEW req, NEW own, send(c, req, own)
  PROVE  /\ chan' = chan
         /\ DOMAIN outstanding' = Conn /\ DOMAIN failing' = Conn
         /\ \A d \in Conn : outstanding[d] \subseteq outstanding'[d] /\ failing[d] \subseteq failing'[d]
         /\ \/ [id |-> req.id, own |-> own] \in failing'[c]
            \/ chan[c] = "open" /\ [id |-> req.id, own |-> own] \in outstanding'[c]
  BY DEF send, Shape, Writable

\* A call: the thread waits for a request that is new, and everything else is as it was.
LEMMA CallInv ==
  ASSUME JdbcInv, NEW c \in Conn, NEW op \in Waiting, NEW req, NEW own \in BOOLEAN,
         op \in {"execute", "next"} <=> own = FALSE,
         Call(c, op, req, own), UNCHANGED <<answers, canceller>>,
         DOMAIN result' = Conn, \A d \in Conn \ {c} : result'[d] = result[d]
  PROVE  JdbcInv'
<1> USE DEF JdbcInv
<1>1. /\ req.id = requests + 1 /\ requests' = requests + 1
      /\ user' = [user EXCEPT ![c] = [op |-> op, id |-> req.id]]
      /\ send(c, req, own)
  BY DEF Call
<1>2. /\ user'[c] = [op |-> op, id |-> requests + 1]
      /\ \A d \in Conn \ {c} : user'[d] = user[d]
      /\ user' \in [Conn -> Thread]
  BY <1>1 DEF Shape, Thread, Waiting
<1>3. /\ chan' = chan
      /\ DOMAIN outstanding' = Conn /\ DOMAIN failing' = Conn
      /\ \A d \in Conn : outstanding[d] \subseteq outstanding'[d] /\ failing[d] \subseteq failing'[d]
      /\ \/ [id |-> req.id, own |-> own] \in failing'[c]
         \/ chan[c] = "open" /\ [id |-> req.id, own |-> own] \in outstanding'[c]
  BY <1>1, SendKeeps
<1>4. Shape' BY <1>1, <1>2, <1>3 DEF Shape
<1>5. Apart'
  <2> SUFFICES ASSUME NEW d \in Conn
               PROVE  /\ user'[d].id <= requests' /\ canceller'[d].id <= requests'
                      /\ canceller'[d].op = "sendSync" =>
                           canceller'[d].id # 0 /\ canceller'[d].id # user'[d].id
    BY DEF Apart
  <2>1. /\ user[d].id \in Nat /\ canceller[d].id \in Nat /\ requests \in Nat
        /\ user[d].id <= requests /\ canceller[d].id <= requests
        /\ canceller[d].op = "sendSync" => canceller[d].id # 0 /\ canceller[d].id # user[d].id
    BY DEF Apart, Shape, Thread, Canceller
  <2> QED BY <1>1, <1>2, <2>1
<1>6. ASSUME NEW d \in Conn PROVE Kept(d)'
  <2>1. CASE d = c
    <3>1. EntryOf(c)' = [id |-> req.id, own |-> own]
      BY <1>1, <1>2 DEF EntryOf
    <3> QED BY <1>3, <2>1, <3>1 DEF Kept
  <2>2. CASE d # c BY <1>2, <1>3, <2>2 DEF Kept, EntryOf, Done, Waits
  <2> QED BY <2>1, <2>2
<1> QED BY <1>4, <1>5, <1>6

\* A return: the thread waits no more; a channel may be shut, answers of this request taken.
LEMMA ReturnInv ==
  ASSUME JdbcInv, NEW c \in Conn, NEW op \in Idle, Return(c, op),
         DOMAIN chan' = Conn, DOMAIN answers' = Conn,
         \A d \in Conn \ {c} : chan'[d] = chan[d] /\ answers'[d] = answers[d],
         UNCHANGED <<outstanding, failing, requests, result, canceller>>
  PROVE  JdbcInv'
<1> USE DEF JdbcInv
<1>1. /\ user'[c] = [op |-> op, id |-> 0]
      /\ \A d \in Conn \ {c} : user'[d] = user[d]
      /\ user' \in [Conn -> Thread]
  BY DEF Return, Shape, Thread, Idle
<1>2. Shape' BY <1>1 DEF Shape
<1>3. Apart' BY <1>1 DEF Apart, Shape
<1>4. ASSUME NEW d \in Conn PROVE Kept(d)'
  <2>1. CASE d = c BY <1>1, <2>1 DEF Kept, Waits, Idle
  <2>2. CASE d # c BY <1>1, <2>2 DEF Kept, EntryOf, Done, Waits
  <2> QED BY <2>1, <2>2
<1> QED BY <1>2, <1>3, <1>4

LEMMA UserInv == ASSUME JdbcInv, NEW c \in Conn, UserStep(c) PROVE JdbcInv'
<1>0. Shape BY DEF JdbcInv
<1>1. CASE createClient(c)
  <2>1. /\ Return(c, "connected")
        /\ DOMAIN chan' = Conn /\ DOMAIN answers' = Conn
        /\ \A d \in Conn \ {c} : chan'[d] = chan[d] /\ answers'[d] = answers[d]
        /\ UNCHANGED <<outstanding, failing, requests, result, canceller>>
    BY <1>0, <1>1 DEF createClient, Shape
  <2>2. "connected" \in Idle BY DEF Idle
  <2> QED BY <2>1, <2>2, ReturnInv
<1>2. CASE opensession(c)
  <2>1. /\ Call(c, "opensession", [id |-> requests + 1, kind |-> "OpenSession"], TRUE)
        /\ UNCHANGED <<answers, canceller>>
        /\ DOMAIN result' = Conn /\ \A d \in Conn \ {c} : result'[d] = result[d]
    BY <1>0, <1>2 DEF opensession, Shape
  <2>2. "opensession" \in Waiting /\ ("opensession" \in {"execute", "next"} <=> TRUE = FALSE)
    BY DEF Waiting
  <2> QED BY <2>1, <2>2, CallInv
<1>3. CASE \E b \in Batch : execute(c, b)
  <2>1. PICK b \in Batch : execute(c, b) BY <1>3
  <2>2. /\ Call(c, "execute", [id |-> requests + 1, kind |-> "Execute", batch |-> b], FALSE)
        /\ UNCHANGED <<answers, canceller>>
        /\ DOMAIN result' = Conn /\ \A d \in Conn \ {c} : result'[d] = result[d]
    BY <1>0, <2>1 DEF execute, Shape
  <2>3. "execute" \in Waiting /\ ("execute" \in {"execute", "next"} <=> FALSE = FALSE)
    BY DEF Waiting
  <2> QED BY <2>2, <2>3, CallInv
<1>4. CASE fetchMoreData(c)
  <2>1. /\ Call(c, "next", [id |-> requests + 1, kind |-> "ExecuteResult"], FALSE)
        /\ UNCHANGED <<answers, canceller>>
        /\ DOMAIN result' = Conn /\ \A d \in Conn \ {c} : result'[d] = result[d]
    BY <1>0, <1>4 DEF fetchMoreData, Shape
  <2>2. "next" \in Waiting /\ ("next" \in {"execute", "next"} <=> FALSE = FALSE)
    BY DEF Waiting
  <2> QED BY <2>1, <2>2, CallInv
<1>5. CASE close(c)
  <2>1. CASE Call(c, "closesession", [id |-> requests + 1, kind |-> "CloseSession"], TRUE)
    <3>1. /\ UNCHANGED <<answers, canceller>>
          /\ DOMAIN result' = Conn /\ \A d \in Conn \ {c} : result'[d] = result[d]
      BY <1>0, <1>5 DEF close, Shape
    <3>2. "closesession" \in Waiting /\ ("closesession" \in {"execute", "next"} <=> TRUE = FALSE)
      BY DEF Waiting
    <3> QED BY <2>1, <3>1, <3>2, CallInv
  <2>2. CASE Return(c, "gone") /\ UNCHANGED <<channelVars, requests>>
    <3>1. /\ DOMAIN chan' = Conn /\ DOMAIN answers' = Conn
          /\ \A d \in Conn \ {c} : chan'[d] = chan[d] /\ answers'[d] = answers[d]
          /\ UNCHANGED <<outstanding, failing, requests, result, canceller>>
      BY <1>0, <1>5, <2>2 DEF close, channelVars, Shape
    <3>2. "gone" \in Idle BY DEF Idle
    <3> QED BY <2>2, <3>1, <3>2, ReturnInv
  <2> QED BY <1>5, <2>1, <2>2 DEF close
<1>6. CASE Returned(c)
  <2>1. /\ Return(c, "ready")
        /\ DOMAIN chan' = Conn /\ DOMAIN answers' = Conn
        /\ \A d \in Conn \ {c} : chan'[d] = chan[d] /\ answers'[d] = answers[d]
        /\ UNCHANGED <<outstanding, failing, requests, result, canceller>>
    BY <1>0, <1>6 DEF Returned, channelVars, Shape
  <2>2. "ready" \in Idle BY DEF Idle
  <2> QED BY <2>1, <2>2, ReturnInv
<1>7. CASE SyncReturned(c)
  <2>1. PICK op \in Idle : Return(c, op)
    BY <1>7 DEF SyncReturned, Idle
  <2>2. /\ \E a \in answers[c] : answers' = [answers EXCEPT ![c] = @ \ {a}]
        /\ chan' = chan \/ chan' = [chan EXCEPT ![c] = "broken"]
    BY <1>7 DEF SyncReturned, shut
  <2>3. /\ DOMAIN chan' = Conn /\ DOMAIN answers' = Conn
        /\ \A d \in Conn \ {c} : chan'[d] = chan[d] /\ answers'[d] = answers[d]
        /\ UNCHANGED <<outstanding, failing, requests, result, canceller>>
    BY <1>0, <1>7, <2>2 DEF SyncReturned, Shape
  <2> QED BY <2>1, <2>3, ReturnInv
<1>8. CASE TimesOut(c)
  <2>1. PICK op \in Idle : Return(c, op)
    BY <1>8 DEF TimesOut, Idle
  <2>2. /\ DOMAIN chan' = Conn /\ DOMAIN answers' = Conn
        /\ \A d \in Conn \ {c} : chan'[d] = chan[d] /\ answers'[d] = answers[d]
        /\ UNCHANGED <<outstanding, failing, requests, result, canceller>>
    BY <1>0, <1>8 DEF TimesOut, channelVars, Shape
  <2> QED BY <2>1, <2>2, ReturnInv
<1> QED BY <1>1, <1>2, <1>3, <1>4, <1>5, <1>6, <1>7, <1>8 DEF UserStep

-----------------------------------------------------------------------------
(* The cancelling thread, the network and the application                  *)

LEMMA CancelInv == ASSUME JdbcInv, NEW c \in Conn, CancelStep(c) PROVE JdbcInv'
<1> USE DEF JdbcInv
<1>1. CASE cancel(c)
  <2>1. /\ requests' = requests + 1 /\ UNCHANGED <<user, result, answers>>
        /\ canceller' = [canceller EXCEPT ![c] = [op |-> "sendSync", id |-> requests + 1]]
        /\ send(c, [id |-> requests + 1, kind |-> "ExecuteCancel"], TRUE)
    BY <1>1 DEF cancel
  <2>2. Shape'
    <3>1. DOMAIN outstanding' = Conn /\ DOMAIN failing' = Conn /\ chan' = chan
      BY <2>1, SendKeeps
    <3> QED BY <2>1, <3>1 DEF Shape, Thread, Canceller
  <2>3. Apart' BY <2>1 DEF Apart, Shape, Thread, Canceller
  <2>4. ASSUME NEW d \in Conn PROVE Kept(d)'
    BY <2>1, SendKeeps DEF Kept, EntryOf, Done, Waits
  <2> QED BY <2>2, <2>3, <2>4
<1>2. CASE CancelReturned(c)
  <2>1. /\ UNCHANGED <<chan, outstanding, failing, user, requests, result>>
        /\ canceller[c].op = "sendSync"
        /\ \E op \in {"cancel", "over"} : canceller' = [canceller EXCEPT ![c].op = op]
        /\ \/ answers' = answers
           \/ \E a \in answers[c] :
                a.id = canceller[c].id /\ answers' = [answers EXCEPT ![c] = @ \ {a}]
    BY <1>2 DEF CancelReturned, channelVars
  <2>2. /\ DOMAIN answers' = Conn
        /\ \A d \in Conn : \A a \in answers[d] : a.id = user[d].id => a \in answers'[d]
    BY <2>1 DEF Shape, Apart
  <2>3. Shape' BY <2>1, <2>2 DEF Shape, Thread, Canceller
  <2>4. Apart' BY <2>1 DEF Apart, Shape, Thread, Canceller
  <2>5. ASSUME NEW d \in Conn PROVE Kept(d)'
    BY <2>1, <2>2 DEF Kept, EntryOf, Done, Waits
  <2> QED BY <2>3, <2>4, <2>5
<1>3. CASE CancelsResult(c)
  <2>1. /\ UNCHANGED <<chan, outstanding, failing, user, requests, answers>>
        /\ canceller' = [canceller EXCEPT ![c].op = "over"]
        /\ \/ result' = result
           \/ result' = [result EXCEPT ![c] =
                           [set |-> TRUE, by |-> canceller[c].id, reply |-> Failure]]
    BY <1>3 DEF CancelsResult, channelVars
  <2>2. Shape' BY <2>1 DEF Shape, Thread, Canceller
  <2>3. Apart' BY <2>1 DEF Apart, Shape, Thread, Canceller
  <2>4. ASSUME NEW d \in Conn PROVE Kept(d)'
    BY <2>1 DEF Kept, EntryOf, Done, Waits, Shape
  <2> QED BY <2>2, <2>3, <2>4
<1> QED BY <1>1, <1>2, <1>3 DEF CancelStep

\* A channel that breaks has not been swept yet.
LEMMA BreaksInv == ASSUME JdbcInv, NEW c \in Conn, Breaks(c) PROVE JdbcInv'
<1> USE DEF JdbcInv
<1>1. /\ UNCHANGED <<outstanding, failing, user, requests, result, answers, canceller>>
      /\ \E how \in {"broken", "raised"} : chan' = [chan EXCEPT ![c] = how]
  BY DEF Breaks, ChannelBreaks, shut
<1>2. Shape' BY <1>1 DEF Shape
<1>3. Apart' BY <1>1 DEF Apart
<1>4. ASSUME NEW d \in Conn PROVE Kept(d)'
  BY <1>1 DEF Kept, EntryOf, Done, Waits, Shape
<1> QED BY <1>2, <1>3, <1>4

LEMMA TaskQuiet ==
  ASSUME NEW t, TaskStep(t) PROVE UNCHANGED <<chan, outstanding, failing>>
  BY DEF TaskStep, SessionOpens, TaskFails, QueryStarts, CommandRuns, StatementRuns,
         StatementAnswers, FetchRow, FetchEnds, Quietly

LEMMA InvNext == ASSUME JdbcInv, [JdbcNext]_jdbcVars PROVE JdbcInv'
<1>1. CASE UNCHANGED jdbcVars
  BY <1>1, InvUnchanged DEF jdbcVars, channelVars, clientVars
<1>2. ASSUME NEW c \in Conn, NettyStep(c) PROVE JdbcInv'
  BY <1>2, HandleInv, SweepInv, ClearInv, WriteFailsInv DEF NettyStep
<1>3. ASSUME NEW c \in Conn, Receives(c) PROVE JdbcInv'
  BY <1>3, InvUnchanged DEF Receives, receive, clientVars
<1>4. ASSUME NEW t \in tasks, Runs(t) PROVE JdbcInv'
  BY <1>4, TaskQuiet, InvUnchanged DEF Runs, clientVars
<1> QED BY <1>1, <1>2, <1>3, <1>4, UserInv, CancelInv, BreaksInv DEF JdbcNext

-----------------------------------------------------------------------------

\* Whatever breaks, times out, is swept or is cancelled, a thread that waits for an answer has
\* its request in the table of TransportResponseHandler, or a failing write that will call it
\* back, or its future is set.
THEOREM NeverForgotten == JdbcSpec => []NoWaiterForgotten
<1>1. ASSUME JdbcInv PROVE NoWaiterForgotten
  <2> SUFFICES ASSUME NEW c \in Conn, Waits(user[c]), ~ Done(c)
               PROVE  \E e \in outstanding[c] \cup failing[c] : e.id = user[c].id
    BY DEF NoWaiterForgotten, Done
  <2>1. EntryOf(c) \in outstanding[c] \cup failing[c] BY <1>1 DEF JdbcInv, Kept
  <2>2. EntryOf(c).id = user[c].id BY DEF EntryOf
  <2> QED BY <2>1, <2>2
<1> QED BY <1>1, InvInit, InvNext, PTL DEF JdbcSpec

-----------------------------------------------------------------------------
(***************************************************************************)
(* What a JDBC connection may rely on, for any number of connections,      *)
(* requests, batches, statements and rows: its types, that the rows it     *)
(* gets are its own, and that a session it has closed stays closed.        *)
(*                                                                         *)
(* Each rests on an inductive invariant.  The types need the shape of a    *)
(* task that runs a query.  Rows stay apart because every place they pass  *)
(* through belongs to one connection.  A session stays closed because a    *)
(* request id is in one place at a time: on the wire to the application,   *)
(* in a task, or on the wire back; so an answer to CloseSession shows that *)
(* the request has been handled, and one to OpenSession that no second     *)
(* session is about to open.                                               *)
(***************************************************************************)

-----------------------------------------------------------------------------
(* What is in a channel                                                    *)

Elems(s) == {s[i] : i \in 1..Len(s)}

\* No two messages have one id.
Distinct(s) == \A i, j \in 1..Len(s) : s[i].id = s[j].id => i = j

LEMMA ElemsEmpty == Elems(<<>>) = {} /\ Distinct(<<>>)
BY EmptySeq DEF Elems, Distinct

LEMMA ElemsOf ==
  ASSUME NEW S, NEW s \in Seq(S)
  PROVE  Elems(s) \subseteq S
BY ElementOfSeq DEF Elems

LEMMA ElemsAppend ==
  ASSUME NEW S, NEW s \in Seq(S), NEW x \in S
  PROVE  /\ Append(s, x) \in Seq(S)
         /\ Elems(Append(s, x)) = Elems(s) \cup {x}
         /\ Distinct(s) /\ (\A y \in Elems(s) : y.id # x.id) => Distinct(Append(s, x))
<1> DEFINE t == Append(s, x)
           n == Len(s)
<1>1. /\ t \in Seq(S) /\ Len(t) = n + 1 /\ n \in Nat
      /\ \A i \in 1..n : t[i] = s[i]
      /\ t[n + 1] = x
  BY AppendProperties, LenProperties
<1> HIDE DEF t
<1>2. \A i : i \in 1..(n + 1) <=> i \in 1..n \/ i = n + 1
  BY <1>1
<1> HIDE DEF n
<1>3. \A y : y \in Elems(t) <=> y \in Elems(s) \/ y = x
  BY <1>1, <1>2 DEF Elems, n
<1>4. ASSUME Distinct(s), \A y \in Elems(s) : y.id # x.id, NEW i \in 1..Len(t), NEW j \in 1..Len(t),
             t[i].id = t[j].id
      PROVE  i = j
  <2>1. \A k \in 1..n : t[k] = s[k] /\ s[k] \in Elems(s)
    BY <1>1 DEF Elems, n
  <2>2. CASE i \in 1..n /\ j \in 1..n
    BY <1>4, <2>1, <2>2 DEF Distinct, n
  <2>3. CASE i \in 1..n /\ j = n + 1
    BY <1>1, <1>4, <2>1, <2>3
  <2>4. CASE i = n + 1 /\ j \in 1..n
    BY <1>1, <1>4, <2>1, <2>4
  <2> QED
    BY <1>1, <1>2, <2>2, <2>3, <2>4
<1> QED
  BY <1>1, <1>3, <1>4 DEF t, Distinct

LEMMA ElemsTail ==
  ASSUME NEW S, NEW s \in Seq(S), s # <<>>
  PROVE  /\ Head(s) \in S /\ Tail(s) \in Seq(S)
         /\ Head(s) \in Elems(s)
         /\ Elems(s) = Elems(Tail(s)) \cup {Head(s)}
         /\ Distinct(s) => Distinct(Tail(s)) /\ \A y \in Elems(Tail(s)) : y.id # Head(s).id
<1> DEFINE t == Tail(s)
           n == Len(s)
<1>1. /\ Head(s) \in S /\ t \in Seq(S) /\ Len(t) = n - 1
      /\ n \in Nat /\ n # 0
      /\ \A i \in 1..Len(t) : t[i] = s[i + 1]
      /\ Head(s) = s[1]
  BY HeadTailProperties, LenProperties, EmptySeq
<1> HIDE DEF t
<1>2. /\ \A i \in 1..Len(t) : i + 1 \in 1..n /\ i + 1 # 1
      /\ \A i \in 1..n : i = 1 \/ (i - 1 \in 1..Len(t) /\ i = (i - 1) + 1)
      /\ 1 \in 1..n
  BY <1>1
<1> HIDE DEF n
<1>3. Head(s) \in Elems(s)
  BY <1>1, <1>2 DEF Elems, n
<1>4. \A y \in Elems(t) : y \in Elems(s)
  BY <1>1, <1>2 DEF Elems, n
<1>5. ASSUME NEW y \in Elems(s) PROVE y \in Elems(t) \/ y = Head(s)
  <2>1. PICK i \in 1..n : y = s[i]
    BY DEF Elems, n
  <2>2. CASE i = 1
    BY <1>1, <2>1, <2>2
  <2>3. CASE i - 1 \in 1..Len(t) /\ i = (i - 1) + 1
    <3>1. t[i - 1] = s[i]
      BY <1>1, <2>3
    <3> QED
      BY <2>1, <2>3, <3>1 DEF Elems
  <2> QED
    BY <1>2, <2>2, <2>3
<1>6. ASSUME Distinct(s) PROVE Distinct(t)
  <2> SUFFICES ASSUME NEW i \in 1..Len(t), NEW j \in 1..Len(t), t[i].id = t[j].id
               PROVE  i = j
    BY DEF Distinct
  <2>1. i + 1 = j + 1
    BY <1>1, <1>2, <1>6 DEF Distinct, n
  <2>2. i \in Nat /\ j \in Nat
    BY <1>1 DEF n
  <2> QED
    BY <2>1, <2>2
<1>7. ASSUME Distinct(s), NEW y \in Elems(t) PROVE y.id # Head(s).id
  <2>1. PICK i \in 1..Len(t) : y = t[i]
    BY DEF Elems
  <2>2. y = s[i + 1] /\ i + 1 \in 1..n /\ i + 1 # 1
    BY <1>1, <1>2, <2>1
  <2> QED
    BY <1>1, <1>2, <1>7, <2>2 DEF Distinct, n
<1>8. Elems(s) = Elems(t) \cup {Head(s)}
  BY <1>3, <1>4, <1>5
<1> QED
  BY <1>1, <1>3, <1>6, <1>7, <1>8 DEF t

LEMMA ElemsConcat ==
  ASSUME NEW S, NEW s \in Seq(S), NEW t \in Seq(S)
  PROVE  s \o t \in Seq(S) /\ Elems(s \o t) \subseteq Elems(s) \cup Elems(t)
<1> DEFINE u == s \o t
<1>1. /\ u \in Seq(S) /\ Len(u) = Len(s) + Len(t)
      /\ \A i \in 1..(Len(s) + Len(t)) : u[i] = IF i <= Len(s) THEN s[i] ELSE t[i - Len(s)]
      /\ Len(s) \in Nat /\ Len(t) \in Nat
  BY ConcatProperties, LenProperties
<1> HIDE DEF u
<1>2. ASSUME NEW i \in 1..Len(u) PROVE u[i] \in Elems(s) \cup Elems(t)
  <2>1. CASE i <= Len(s)
    <3>1. i \in 1..Len(s) /\ u[i] = s[i]
      BY <1>1, <2>1
    <3> QED
      BY <3>1 DEF Elems
  <2>2. CASE ~ (i <= Len(s))
    <3>1. i - Len(s) \in 1..Len(t) /\ u[i] = t[i - Len(s)]
      BY <1>1, <2>2
    <3> QED
      BY <3>1 DEF Elems
  <2> QED
    BY <2>1, <2>2
<1> QED
  BY <1>1, <1>2 DEF Elems, u

-----------------------------------------------------------------------------
(* Types                                                                   *)

\* A task that runs a query has a batch, and a statement left to run.
Shaped(t) == t.phase \in {"query", "run", "assigned"} => t.batch \in Batch /\ t.left # <<>>

\* The inductive invariant: execute and next fill a result set that is there.
TypesInv ==
  /\ JdbcTypeOK
  /\ \A t \in tasks : Shaped(t)
  /\ \A c \in Conn : user[c].op \in {"execute", "next"} => rs[c] \in ResultSet

LEMMA ReplyTypes ==
  /\ Failure \in Reply /\ ~ Failure.ok /\ Failure.rows = <<>>
  /\ \A rows \in Seq(Row), more \in BOOLEAN :
       /\ Success(rows, more) \in Reply
       /\ Success(rows, more).rows = rows /\ Success(rows, more).more = more
<1>1. <<>> \in Seq(Row)
  BY EmptySeq
<1> QED
  BY <1>1 DEF Reply, Failure, Success

LEMMA RowsType ==
  ASSUME NEW c \in Conn, NEW s \in Stmt, NEW k \in Nat
  PROVE  /\ Rows(c, s, k) \in Seq(Row)
         /\ Len(Rows(c, s, k)) = k
         /\ \A r \in Elems(Rows(c, s, k)) : r.conn = c
<1> DEFINE row(i) == [conn |-> c, stmt |-> s, n |-> i]
           f == Rows(c, s, k)
<1>1. \A i \in 1..k : row(i) \in Row
  BY DEF Row
<1>2. f = [i \in 1..k |-> row(i)]
  BY DEF Rows
<1>3. f \in Seq(Row)
  <2> HIDE DEF row, f
  <2> QED
    BY <1>1, <1>2, IsASeq
<1>4. DOMAIN f = 1..k
  BY <1>2
<1> HIDE DEF f
<1>5. Len(f) = k
  BY <1>3, <1>4, LenProperties
<1>6. \A r \in Elems(f) : r.conn = c
  BY <1>2, <1>5 DEF Elems
<1> QED
  BY <1>3, <1>5, <1>6 DEF f

LEMMA CalledBackType ==
  ASSUME ClientTypeOK, NEW c \in Conn, NEW e \in Entry, NEW reply \in Reply, CalledBack(c, e, reply)
  PROVE  /\ result' \in [Conn -> [set : BOOLEAN, by : Nat, reply : Reply]]
         /\ answers' \in [Conn -> SUBSET [id : RequestId, reply : Reply]]
<1>1. e.id \in RequestId /\ e.id \in Nat
  BY DEF Entry, RequestId
<1>2. /\ [set |-> TRUE, by |-> e.id, reply |-> reply] \in [set : BOOLEAN, by : Nat, reply : Reply]
      /\ [id |-> e.id, reply |-> reply] \in [id : RequestId, reply : Reply]
  BY <1>1
<1> QED
  BY <1>2 DEF CalledBack, ClientTypeOK

LEMMA RespondType ==
  ASSUME ChannelTypeOK, NEW c \in Conn, NEW id \in RequestId, NEW reply \in Reply, Respond(c, id, reply)
  PROVE  toClient' \in [Conn -> Seq([id : RequestId, reply : Reply])]
<1>1. [id |-> id, reply |-> reply] \in [id : RequestId, reply : Reply]
  OBVIOUS
<1>2. Append(toClient[c], [id |-> id, reply |-> reply]) \in Seq([id : RequestId, reply : Reply])
  BY <1>1, ElemsAppend DEF ChannelTypeOK
<1> QED
  BY <1>2 DEF Respond, ChannelTypeOK

LEMMA SendType ==
  ASSUME ChannelTypeOK, NEW c \in Conn, NEW req \in Request, NEW own \in BOOLEAN, send(c, req, own)
  PROVE  ChannelTypeOK'
<1>1. [id |-> req.id, own |-> own] \in Entry
  BY DEF Request, Entry
<1>2. Append(toServer[c], req) \in Seq(Request)
  BY ElemsAppend DEF ChannelTypeOK
<1> QED
  BY <1>1, <1>2 DEF send, ChannelTypeOK

LEMMA ShutType ==
  ASSUME ChannelTypeOK, NEW c \in Conn, NEW how \in {"broken", "raised"}, shut(c, how),
         UNCHANGED <<outstanding, failing>>
  PROVE  ChannelTypeOK'
BY EmptySeq DEF ChannelTypeOK, shut

LEMMA NettyTypes ==
  ASSUME TypesInv, NEW c \in Conn, NettyStep(c)
  PROVE  TypesInv'
<1> USE DEF TypesInv, JdbcTypeOK
<1>1. UNCHANGED <<sessionVars, user, requests, canceller, rs, lapses, breaks>>
  BY DEF NettyStep, handle, failOutstandingRequests, clear, WriteFails, UntouchedByNetty
<1>2. ASSUME ChannelTypeOK',
             result' \in [Conn -> [set : BOOLEAN, by : Nat, reply : Reply]],
             answers' \in [Conn -> SUBSET [id : RequestId, reply : Reply]]
      PROVE  TypesInv'
  BY <1>1, <1>2 DEF SessionsTypeOK, ClientTypeOK, sessionVars, Shaped
<1>3. CASE handle(c)
  <2> DEFINE m == Head(toClient[c])
  <2>1. m \in [id : RequestId, reply : Reply] /\ Tail(toClient[c]) \in Seq([id : RequestId, reply : Reply])
    BY <1>3, ElemsTail DEF handle, ChannelTypeOK
  <2>2. toClient' \in [Conn -> Seq([id : RequestId, reply : Reply])]
    BY <1>3, <2>1 DEF handle, ChannelTypeOK
  <2>3. CASE UNCHANGED <<outstanding, result, answers>>
    BY <1>2, <1>3, <2>2, <2>3 DEF handle, ChannelTypeOK, ClientTypeOK
  <2>4. ASSUME NEW e \in Listeners(c, m.id), outstanding' = [outstanding EXCEPT ![c] = @ \ {e}],
               CalledBack(c, e, m.reply)
        PROVE  TypesInv'
    <3>1. e \in Entry /\ m.reply \in Reply
      BY <2>1 DEF Listeners, ChannelTypeOK
    <3>2. ChannelTypeOK'
      BY <1>3, <2>2, <2>4 DEF handle, ChannelTypeOK
    <3> HIDE DEF m
    <3> QED
      BY <1>2, <2>4, <3>1, <3>2, CalledBackType
  <2> QED
    BY <1>3, <2>3, <2>4 DEF handle
<1>4. CASE failOutstandingRequests(c)
  <2>1. ChannelTypeOK'
    BY <1>4 DEF failOutstandingRequests, Swept, ChannelTypeOK
  <2>2. result' \in [Conn -> [set : BOOLEAN, by : Nat, reply : Reply]]
    <3>1. CASE {e \in outstanding[c] : ~ e.own} = {}
      BY <1>4, <3>1 DEF failOutstandingRequests, ClientTypeOK
    <3>2. CASE {e \in outstanding[c] : ~ e.own} # {}
      <4> DEFINE x == CHOOSE e \in outstanding[c] : ~ e.own
      <4>1. x \in outstanding[c]
        BY <3>2
      <4>2. x.id \in Nat
        BY <4>1 DEF ChannelTypeOK, Entry, RequestId
      <4> HIDE DEF x
      <4>3. [set |-> TRUE, reply |-> Failure, by |-> x.id] \in [set : BOOLEAN, by : Nat, reply : Reply]
        BY <4>2, ReplyTypes
      <4> QED
        BY <1>4, <4>3 DEF failOutstandingRequests, ClientTypeOK, x
    <3> QED
      BY <3>1, <3>2
  <2>3. Answered({e \in outstanding[c] : e.own}, Failure) \subseteq [id : RequestId, reply : Reply]
    BY ReplyTypes DEF Answered, ChannelTypeOK, Entry
  <2>4. answers' \in [Conn -> SUBSET [id : RequestId, reply : Reply]]
    BY <1>4, <2>3 DEF failOutstandingRequests, ClientTypeOK
  <2> QED
    BY <1>2, <2>1, <2>2, <2>4
<1>5. CASE clear(c)
  BY <1>2, <1>5 DEF clear, ChannelTypeOK, ClientTypeOK
<1>6. CASE WriteFails(c)
  <2>1. PICK e \in failing[c] :
          /\ failing' = [failing EXCEPT ![c] = @ \ {e}]
          /\ outstanding' = [outstanding EXCEPT ![c] = @ \ {e}]
          /\ CalledBack(c, e, Failure)
          /\ UNCHANGED <<chan, toServer, toClient>>
    BY <1>6 DEF WriteFails
  <2>2. e \in Entry /\ Failure \in Reply
    BY ReplyTypes DEF ChannelTypeOK
  <2>3. ChannelTypeOK'
    BY <2>1 DEF ChannelTypeOK
  <2> QED
    BY <1>2, <2>1, <2>2, <2>3, CalledBackType
<1> QED
  BY <1>3, <1>4, <1>5, <1>6 DEF NettyStep

LEMMA CancelTypes ==
  ASSUME TypesInv, NEW c \in Conn, CancelStep(c)
  PROVE  TypesInv'
<1> USE DEF TypesInv, JdbcTypeOK
<1>0. requests \in Nat /\ MaxRequests \in Nat /\ canceller \in [Conn -> Canceller]
  BY ChannelAssumption DEF ClientTypeOK, Canceller
<1>same. UNCHANGED <<sessionVars, user, rs, breaks>>
  BY DEF CancelStep, cancel, CancelReturned, CancelsResult
<1>1. CASE cancel(c)
  <2>1. [id |-> requests + 1, kind |-> "ExecuteCancel"] \in Request
    BY <1>0 DEF Request, RequestId
  <2>2. ChannelTypeOK'
    BY <1>1, <2>1, SendType DEF cancel
  <2>3. ClientTypeOK'
    <3>1. requests' \in 0..MaxRequests
      BY <1>0, <1>1 DEF cancel
    <3>2. canceller' \in [Conn -> Canceller]
      BY <1>0, <1>1 DEF cancel, Canceller
    <3> QED
      BY <1>same, <1>1, <3>1, <3>2 DEF cancel, ClientTypeOK, Canceller
  <2> QED
    BY <1>same, <2>2, <2>3 DEF SessionsTypeOK, sessionVars, Shaped
<1>2. CASE CancelReturned(c)
  <2>1. answers' = answers \/ \E a \in answers[c] : answers' = [answers EXCEPT ![c] = @ \ {a}]
    BY <1>2 DEF CancelReturned
  <2>2. answers' \in [Conn -> SUBSET [id : RequestId, reply : Reply]]
    BY <2>1 DEF ClientTypeOK
  <2>3. \E op \in {"cancel", "over"} : canceller' = [canceller EXCEPT ![c].op = op]
    BY <1>2 DEF CancelReturned
  <2>4. canceller' \in [Conn -> Canceller]
    BY <1>0, <2>3 DEF Canceller
  <2>5. ClientTypeOK'
    BY <1>same, <1>2, <2>2, <2>4 DEF CancelReturned, ClientTypeOK, Canceller
  <2> QED
    BY <1>same, <1>2, <2>5 DEF CancelReturned, ChannelTypeOK, SessionsTypeOK, sessionVars, channelVars,
       Shaped
<1>3. CASE CancelsResult(c)
  <2>1. canceller' \in [Conn -> Canceller] /\ canceller[c].id \in Nat
    BY <1>0, <1>3 DEF CancelsResult, Canceller
  <2>2. [set |-> TRUE, by |-> canceller[c].id, reply |-> Failure] \in [set : BOOLEAN, by : Nat, reply : Reply]
    BY <2>1, ReplyTypes
  <2>3. result' \in [Conn -> [set : BOOLEAN, by : Nat, reply : Reply]]
    BY <1>3, <2>2 DEF CancelsResult, ClientTypeOK
  <2>4. lapses' \in [Conn -> Nat]
    BY <1>3 DEF CancelsResult, ClientTypeOK
  <2>5. ClientTypeOK'
    BY <1>same, <1>3, <2>1, <2>3, <2>4 DEF CancelsResult, ClientTypeOK, Canceller
  <2> QED
    BY <1>same, <1>3, <2>5 DEF CancelsResult, ChannelTypeOK, SessionsTypeOK, sessionVars, channelVars, Shaped
<1> QED
  BY <1>1, <1>2, <1>3 DEF CancelStep

\* The wait and the request of a call are typed, whatever the call.
LEMMA CallTypes ==
  ASSUME ChannelTypeOK, ClientTypeOK, NEW c \in Conn, NEW op \in Waiting, NEW req \in Request,
         NEW own \in BOOLEAN, Call(c, op, req, own)
  PROVE  /\ ChannelTypeOK' /\ requests' \in 0..MaxRequests
         /\ user' \in [Conn -> Thread]
         /\ \A d \in Conn : user'[d] = IF d = c THEN [op |-> op, id |-> requests + 1] ELSE user[d]
<1>1. requests \in Nat /\ MaxRequests \in Nat /\ user \in [Conn -> Thread]
  BY ChannelAssumption DEF ClientTypeOK, Thread, Idle, Waiting
<1>2. ChannelTypeOK'
  BY SendType DEF Call
<1>3. [op |-> op, id |-> requests + 1] \in Thread
  BY <1>1 DEF Thread
<1> QED
  BY <1>1, <1>2, <1>3 DEF Call

LEMMA ReturnTypes ==
  ASSUME ClientTypeOK, NEW c \in Conn, NEW op \in Idle, Return(c, op)
  PROVE  /\ user' \in [Conn -> Thread]
         /\ \A d \in Conn : user'[d] = IF d = c THEN [op |-> op, id |-> 0] ELSE user[d]
<1>1. user \in [Conn -> Thread]
  BY DEF ClientTypeOK, Thread, Idle, Waiting
<1>2. [op |-> op, id |-> 0] \in Thread
  BY DEF Thread
<1> QED
  BY <1>1, <1>2 DEF Return

LEMMA UserTypes ==
  ASSUME TypesInv, NEW c \in Conn, UserStep(c)
  PROVE  TypesInv'
<1> USE DEF TypesInv, JdbcTypeOK
<1>0. requests \in Nat
  BY DEF ClientTypeOK
<1>same. UNCHANGED <<sessionVars, canceller, breaks>>
  BY DEF UserStep, createClient, opensession, fetchMoreData, close, execute, Returned, SyncReturned, TimesOut
<1>tasks. SessionsTypeOK' /\ \A t \in tasks' : Shaped(t)
  BY <1>same DEF SessionsTypeOK, sessionVars
<1>types. ASSUME user' \in [Conn -> Thread], requests' \in 0..MaxRequests, ChannelTypeOK',
             result' \in [Conn -> [set : BOOLEAN, by : Nat, reply : Reply]],
             answers' \in [Conn -> SUBSET [id : RequestId, reply : Reply]],
             rs' \in [Conn -> ResultSet \cup {None}], lapses' \in [Conn -> Nat],
             \A d \in Conn : user'[d].op \in {"execute", "next"} => rs'[d] \in ResultSet
      PROVE  TypesInv'
  <2>1. ClientTypeOK'
    BY <1>same, <1>types DEF ClientTypeOK, Thread, Idle, Waiting
  <2> QED
    BY <1>tasks, <1>types, <2>1 DEF Shaped
<1>1. CASE createClient(c)
  <2>1. "connected" \in Idle
    BY DEF Idle
  <2>2. /\ user' \in [Conn -> Thread]
        /\ \A d \in Conn : user'[d] = IF d = c THEN [op |-> "connected", id |-> 0] ELSE user[d]
    BY <1>1, <2>1, ReturnTypes DEF createClient
  <2>3. ChannelTypeOK'
    BY <1>1 DEF createClient, ChannelTypeOK
  <2>4. UNCHANGED <<requests, result, answers, rs, lapses>>
    BY <1>1 DEF createClient
  <2>5. \A d \in Conn : user'[d].op \in {"execute", "next"} => rs'[d] \in ResultSet
    BY <2>2, <2>4
  <2> QED
    BY <1>types, <2>2, <2>3, <2>4, <2>5 DEF ClientTypeOK
<1>2. CASE opensession(c)
  <2> DEFINE req == [id |-> requests + 1, kind |-> "OpenSession"]
  <2>1. req \in Request /\ "opensession" \in Waiting
    BY <1>0 DEF Request, RequestId, Waiting
  <2>2. Call(c, "opensession", req, TRUE) /\ UNCHANGED <<result, answers, rs, lapses>>
    BY <1>2 DEF opensession
  <2> HIDE DEF req
  <2>3. /\ ChannelTypeOK' /\ requests' \in 0..MaxRequests
        /\ user' \in [Conn -> Thread]
        /\ \A d \in Conn : user'[d] = IF d = c THEN [op |-> "opensession", id |-> requests + 1] ELSE user[d]
    BY <2>1, <2>2, CallTypes
  <2> QED
    BY <1>types, <2>2, <2>3 DEF ClientTypeOK
<1>3. ASSUME NEW b \in Batch, execute(c, b)
      PROVE  TypesInv'
  <2> DEFINE req == [id |-> requests + 1, kind |-> "Execute", batch |-> b]
  <2>1. req \in Request /\ "execute" \in Waiting
    BY <1>0 DEF Request, RequestId, Waiting
  <2>2. /\ Call(c, "execute", req, FALSE) /\ UNCHANGED <<answers, lapses>>
        /\ result' = [result EXCEPT ![c] = NewFuture]
        /\ rs' = [rs EXCEPT ![c] = [batch |-> b, rows |-> <<>>, more |-> FALSE, failed |-> FALSE]]
    BY <1>3 DEF execute
  <2> HIDE DEF req
  <2>3. /\ ChannelTypeOK' /\ requests' \in 0..MaxRequests
        /\ user' \in [Conn -> Thread]
        /\ \A d \in Conn : user'[d] = IF d = c THEN [op |-> "execute", id |-> requests + 1] ELSE user[d]
    BY <2>1, <2>2, CallTypes
  <2>4. [batch |-> b, rows |-> <<>>, more |-> FALSE, failed |-> FALSE] \in ResultSet
    BY EmptySeq DEF ResultSet
  <2>5. rs' \in [Conn -> ResultSet \cup {None}] /\ rs'[c] \in ResultSet /\ \A d \in Conn \ {c} : rs'[d] = rs[d]
    BY <2>2, <2>4 DEF ClientTypeOK
  <2>6. result' \in [Conn -> [set : BOOLEAN, by : Nat, reply : Reply]]
    BY <2>2, ReplyTypes DEF ClientTypeOK, NewFuture
  <2>7. \A d \in Conn : user'[d].op \in {"execute", "next"} => rs'[d] \in ResultSet
    BY <2>3, <2>5
  <2> QED
    BY <1>types, <2>2, <2>3, <2>5, <2>6, <2>7 DEF ClientTypeOK
<1>4. CASE fetchMoreData(c)
  <2> DEFINE req == [id |-> requests + 1, kind |-> "ExecuteResult"]
  <2>1. req \in Request /\ "next" \in Waiting
    BY <1>0 DEF Request, RequestId, Waiting
  <2>2. /\ Call(c, "next", req, FALSE) /\ UNCHANGED <<answers, lapses, rs>> /\ rs[c] # None
        /\ result' = [result EXCEPT ![c] = NewFuture]
    BY <1>4 DEF fetchMoreData
  <2> HIDE DEF req
  <2>3. /\ ChannelTypeOK' /\ requests' \in 0..MaxRequests
        /\ user' \in [Conn -> Thread]
        /\ \A d \in Conn : user'[d] = IF d = c THEN [op |-> "next", id |-> requests + 1] ELSE user[d]
    BY <2>1, <2>2, CallTypes
  <2>4. result' \in [Conn -> [set : BOOLEAN, by : Nat, reply : Reply]]
    BY <2>2, ReplyTypes DEF ClientTypeOK, NewFuture
  <2> QED
    BY <1>types, <2>2, <2>3, <2>4 DEF ClientTypeOK
<1>5. CASE close(c)
  <2> DEFINE req == [id |-> requests + 1, kind |-> "CloseSession"]
  <2>1. req \in Request /\ "closesession" \in Waiting /\ "gone" \in Idle
    BY <1>0 DEF Request, RequestId, Waiting, Idle
  <2>2. UNCHANGED <<result, answers, rs, lapses>>
    BY <1>5 DEF close
  <2>3. CASE Call(c, "closesession", req, TRUE)
    <3> HIDE DEF req
    <3>1. /\ ChannelTypeOK' /\ requests' \in 0..MaxRequests
          /\ user' \in [Conn -> Thread]
          /\ \A d \in Conn : user'[d] = IF d = c THEN [op |-> "closesession", id |-> requests + 1] ELSE user[d]
      BY <2>1, <2>3, CallTypes
    <3> QED
      BY <1>types, <2>2, <3>1 DEF ClientTypeOK
  <2>4. CASE Return(c, "gone") /\ UNCHANGED <<channelVars, requests>>
    <3>1. /\ user' \in [Conn -> Thread]
          /\ \A d \in Conn : user'[d] = IF d = c THEN [op |-> "gone", id |-> 0] ELSE user[d]
      BY <2>1, <2>4, ReturnTypes
    <3>2. ChannelTypeOK'
      BY <2>4 DEF ChannelTypeOK, channelVars
    <3>3. \A d \in Conn : user'[d].op \in {"execute", "next"} => rs'[d] \in ResultSet
      BY <2>2, <3>1
    <3> QED
      BY <1>types, <2>2, <2>4, <3>1, <3>2, <3>3 DEF ClientTypeOK
  <2> QED
    BY <1>5, <2>3, <2>4 DEF close
<1>6. CASE Returned(c)
  <2>1. "ready" \in Idle
    BY DEF Idle
  <2>2. /\ user' \in [Conn -> Thread]
        /\ \A d \in Conn : user'[d] = IF d = c THEN [op |-> "ready", id |-> 0] ELSE user[d]
    BY <1>6, <2>1, ReturnTypes DEF Returned
  <2>3. rs[c] \in ResultSet /\ result[c].reply \in Reply
    BY <1>6 DEF Returned, ClientTypeOK
  <2>4. rs[c].rows \o result[c].reply.rows \in Seq(Row)
    BY <2>3, ElemsConcat DEF ResultSet, Reply
  <2>5. /\ [rs[c] EXCEPT !.rows = rs[c].rows \o result[c].reply.rows, !.more = result[c].reply.more] \in ResultSet
        /\ [rs[c] EXCEPT !.failed = TRUE] \in ResultSet
    BY <2>3, <2>4 DEF ResultSet, Reply
  <2>6. rs' \in [Conn -> ResultSet \cup {None}] /\ \A d \in Conn \ {c} : rs'[d] = rs[d]
    <3>1. CASE result[c].reply.ok
      <4>1. rs' = [rs EXCEPT ![c] = [rs[c] EXCEPT !.rows = rs[c].rows \o result[c].reply.rows,
                                                 !.more = result[c].reply.more]]
        BY <1>6, <3>1 DEF Returned
      <4> QED
        BY <2>5, <4>1 DEF ClientTypeOK
    <3>2. CASE ~ result[c].reply.ok
      <4>1. rs' = [rs EXCEPT ![c] = [rs[c] EXCEPT !.failed = TRUE]]
        BY <1>6, <3>2 DEF Returned
      <4> QED
        BY <2>5, <4>1 DEF ClientTypeOK
    <3> QED
      BY <3>1, <3>2
  <2>7. ChannelTypeOK'
    BY <1>6 DEF Returned, ChannelTypeOK, channelVars
  <2>8. UNCHANGED <<requests, result, answers, lapses>>
    BY <1>6 DEF Returned
  <2>9. \A d \in Conn : user'[d].op \in {"execute", "next"} => rs'[d] \in ResultSet
    BY <2>2, <2>6
  <2> QED
    BY <1>types, <2>2, <2>6, <2>7, <2>8, <2>9 DEF ClientTypeOK
<1>7. CASE SyncReturned(c)
  <2>1. PICK op \in Idle \ {"new"} : Return(c, op)
    BY <1>7 DEF SyncReturned, Idle
  <2>2. /\ user' \in [Conn -> Thread]
        /\ \A d \in Conn : user'[d] = IF d = c THEN [op |-> op, id |-> 0] ELSE user[d]
    BY <2>1, ReturnTypes
  <2>3. /\ answers' \in [Conn -> SUBSET [id : RequestId, reply : Reply]]
        /\ UNCHANGED <<requests, result, rs, lapses>>
    BY <1>7 DEF SyncReturned, ClientTypeOK
  <2>4. ChannelTypeOK'
    <3>1. UNCHANGED <<outstanding, failing>> /\ (shut(c, "broken") \/ UNCHANGED <<chan, toServer, toClient>>)
      BY <1>7 DEF SyncReturned
    <3> QED
      BY <3>1, ShutType DEF ChannelTypeOK
  <2>5. \A d \in Conn : user'[d].op \in {"execute", "next"} => rs'[d] \in ResultSet
    BY <2>2, <2>3 DEF Idle
  <2> QED
    BY <1>types, <2>2, <2>3, <2>4, <2>5 DEF ClientTypeOK
<1>8. CASE TimesOut(c)
  <2>1. PICK op \in {"gone", "ready"} : Return(c, op)
    BY <1>8 DEF TimesOut
  <2>2. /\ user' \in [Conn -> Thread]
        /\ \A d \in Conn : user'[d] = IF d = c THEN [op |-> op, id |-> 0] ELSE user[d]
    BY <2>1, ReturnTypes DEF Idle
  <2>3. rs' \in [Conn -> ResultSet \cup {None}] /\ \A d \in Conn \ {c} : rs'[d] = rs[d]
    <3>1. CASE user[c].op \in {"execute", "next"}
      <4>1. rs[c] \in ResultSet
        BY <3>1 DEF ClientTypeOK
      <4>2. [rs[c] EXCEPT !.failed = TRUE] \in ResultSet
        BY <4>1 DEF ResultSet
      <4> QED
        BY <1>8, <3>1, <4>2 DEF TimesOut, ClientTypeOK
    <3>2. CASE user[c].op \notin {"execute", "next"}
      BY <1>8, <3>2 DEF TimesOut, ClientTypeOK
    <3> QED
      BY <3>1, <3>2
  <2>4. lapses' \in [Conn -> Nat]
    BY <1>8 DEF TimesOut, ClientTypeOK
  <2>5. ChannelTypeOK' /\ UNCHANGED <<requests, result, answers>>
    BY <1>8 DEF TimesOut, ChannelTypeOK, channelVars
  <2>6. \A d \in Conn : user'[d].op \in {"execute", "next"} => rs'[d] \in ResultSet
    BY <2>2, <2>3
  <2> QED
    BY <1>types, <2>2, <2>3, <2>4, <2>5, <2>6 DEF ClientTypeOK
<1> QED
  BY <1>1, <1>2, <1>3, <1>4, <1>5, <1>6, <1>7, <1>8 DEF UserStep

LEMMA StartTypes ==
  ASSUME TypesInv, NEW c \in Conn, NEW req \in Request, NEW phase, NEW batch,
         \/ phase = "query" /\ batch \in Batch
         \/ phase \in {"open", "fetch"} /\ batch = None,
         Start(c, req, phase, batch)
  PROVE  tasks' \subseteq Task /\ \A t \in tasks' : Shaped(t)
<1> DEFINE left == IF batch = None THEN <<>> ELSE batch.sqls
           new == [conn |-> c, id |-> req.id, sid |-> sessionIdOf(c), phase |-> phase,
                   left |-> left, batch |-> batch, rows |-> <<>>]
<1>1. left \in Seq(Stmt) /\ (phase = "query" => left # <<>>) /\ batch \in Batch \cup {None}
  BY ChannelAssumption, EmptySeq
<1>2. tasks' = tasks \cup {new}
  BY DEF Start
<1> HIDE DEF left
<1>3. new \in Task
  <2>1. req.id \in RequestId /\ sessionIdOf(c) \in Conn /\ <<>> \in Seq(Row)
    BY EmptySeq DEF Request, sessionIdOf, newSessionId
  <2> QED
    BY <1>1, <2>1 DEF Task
<1>4. Shaped(new)
  BY <1>1 DEF Shaped
<1> HIDE DEF new
<1> QED
  BY <1>2, <1>3, <1>4 DEF TypesInv, JdbcTypeOK, SessionsTypeOK

LEMMA ReceiveTypes ==
  ASSUME TypesInv, NEW c \in Conn, Receives(c)
  PROVE  TypesInv'
<1> DEFINE req == Head(toServer[c])
<1>0. /\ ChannelTypeOK /\ SessionsTypeOK /\ ClientTypeOK
      /\ \A t \in tasks : Shaped(t)
      /\ \A d \in Conn : user[d].op \in {"execute", "next"} => rs[d] \in ResultSet
  BY DEF TypesInv, JdbcTypeOK
<1>1. req \in Request /\ toServer' \in [Conn -> Seq(Request)]
  BY <1>0, ElemsTail DEF Receives, receive, ChannelTypeOK
<1>2. UNCHANGED <<chan, outstanding, failing, clientVars>>
  BY DEF Receives, receive
<1>3. ClientTypeOK' /\ \A d \in Conn : user'[d].op \in {"execute", "next"} => rs'[d] \in ResultSet
  BY <1>0, <1>2 DEF ClientTypeOK, clientVars
<1>4. /\ req.id \in RequestId /\ (req.kind = "Execute" => req.batch \in Batch)
      /\ Success(<<>>, FALSE) \in Reply /\ Failure \in Reply
  BY <1>1, ReplyTypes, EmptySeq DEF Request
<1>5. ASSUME toClient' \in [Conn -> Seq([id : RequestId, reply : Reply])],
             sessionIdToRunner' \subseteq Conn, runner' = runner,
             tasks' \subseteq Task, \A t \in tasks' : Shaped(t)
      PROVE  TypesInv'
  <2>1. ChannelTypeOK' /\ SessionsTypeOK'
    BY <1>0, <1>1, <1>2, <1>5 DEF ChannelTypeOK, SessionsTypeOK
  <2> QED
    BY <1>3, <1>5, <2>1 DEF TypesInv, JdbcTypeOK, Shaped
<1> HIDE DEF req
<1>6. CASE SessionLost(c, req)
  <2>1. toClient' \in [Conn -> Seq([id : RequestId, reply : Reply])]
    BY <1>0, <1>4, <1>6, RespondType DEF SessionLost
  <2> QED
    BY <1>0, <1>5, <1>6, <2>1 DEF SessionLost, sessionVars, SessionsTypeOK
<1>7. CASE Respond(c, req.id, Success(<<>>, FALSE)) /\ UNCHANGED <<runner, tasks>>
           /\ sessionIdToRunner' \subseteq sessionIdToRunner
  <2>1. toClient' \in [Conn -> Seq([id : RequestId, reply : Reply])]
    BY <1>0, <1>4, <1>7, RespondType
  <2> QED
    BY <1>0, <1>5, <1>7, <2>1 DEF SessionsTypeOK
<1>8. ASSUME NEW phase, NEW batch, Start(c, req, phase, batch),
             \/ phase = "query" /\ batch \in Batch
             \/ phase \in {"open", "fetch"} /\ batch = None,
             UNCHANGED <<sessionIdToRunner, runner, toClient>>
      PROVE  TypesInv'
  <2>1. tasks' \subseteq Task /\ \A t \in tasks' : Shaped(t)
    BY <1>1, <1>8, StartTypes
  <2> QED
    BY <1>0, <1>5, <1>8, <2>1 DEF SessionsTypeOK, ChannelTypeOK
<1>9. CASE req.kind = "OpenSession" /\ handleOpenSession(c, req)
  BY <1>8, <1>9 DEF handleOpenSession
<1>10. CASE req.kind = "CloseSession" /\ handleCloseSession(c, req)
  BY <1>7, <1>10 DEF handleCloseSession
<1>11. CASE req.kind = "Execute" /\ handleExecute(c, req)
  BY <1>4, <1>6, <1>8, <1>11 DEF handleExecute
<1>12. CASE req.kind = "ExecuteResult" /\ handleExecuteResult(c, req)
  BY <1>6, <1>8, <1>12 DEF handleExecuteResult
<1>13. CASE req.kind = "ExecuteCancel" /\ handleExecuteCancel(c, req)
  BY <1>6, <1>7, <1>13 DEF handleExecuteCancel, sessionVars
<1> QED
  BY <1>9, <1>10, <1>11, <1>12, <1>13 DEF Receives, receive, req

LEMMA effectiveType ==
  ASSUME NEW n \in Int
  PROVE  effectiveMaxRows(n) \in Int
BY DEF effectiveMaxRows

LEMMA LimitType ==
  ASSUME NEW s \in Stmt, NEW m \in Int
  PROVE  /\ rowsOf[s] \in Nat
         /\ m >= 0 => Least(rowsOf[s], m) \in Nat
BY SessionsAssumption DEF Least

LEMMA sqlType ==
  ASSUME NEW c \in Conn, NEW s \in Stmt, NEW m \in Int
  PROVE  sql(c, s, m) \in Seq(Row) /\ \A r \in Elems(sql(c, s, m)) : r.conn = c
<1> DEFINE k == IF m < 0 \/ s \in SparkCommand THEN rowsOf[s] ELSE Least(rowsOf[s], m)
<1>1. k \in Nat
  BY LimitType
<1> HIDE DEF k
<1>2. Rows(c, s, k) \in Seq(Row) /\ \A r \in Elems(Rows(c, s, k)) : r.conn = c
  BY <1>1, RowsType
<1> QED
  BY <1>2 DEF sql, k

\* What a task step leaves: the session's Runner, the tasks and the way back are typed.
LEMMA TaskTypes ==
  ASSUME TypesInv, NEW t \in tasks, Runs(t)
  PROVE  TypesInv'
<1>0. /\ ChannelTypeOK /\ SessionsTypeOK /\ ClientTypeOK
      /\ \A u \in tasks : Shaped(u)
      /\ \A d \in Conn : user[d].op \in {"execute", "next"} => rs[d] \in ResultSet
  BY DEF TypesInv, JdbcTypeOK
<1>1. /\ t \in Task /\ t.conn \in Conn /\ t.id \in RequestId /\ t.sid \in Conn
      /\ t.left \in Seq(Stmt) /\ t.rows \in Seq(Row) /\ t.batch \in Batch \cup {None}
  BY <1>0 DEF SessionsTypeOK, Task
<1>2. UNCHANGED <<chan, outstanding, failing, toServer, clientVars>>
  BY DEF Runs, TaskStep, SessionOpens, TaskFails, QueryStarts, CommandRuns, StatementRuns,
     StatementAnswers, FetchRow, FetchEnds, Quietly
<1>3. ASSUME toClient' \in [Conn -> Seq([id : RequestId, reply : Reply])],
             sessionIdToRunner' \subseteq Conn, runner' \in [Conn -> RunnerFields],
             tasks' \subseteq Task, \A u \in tasks' : Shaped(u)
      PROVE  TypesInv'
  <2>1. ChannelTypeOK' /\ SessionsTypeOK'
    BY <1>0, <1>2, <1>3 DEF ChannelTypeOK, SessionsTypeOK
  <2>2. ClientTypeOK' /\ \A d \in Conn : user'[d].op \in {"execute", "next"} => rs'[d] \in ResultSet
    BY <1>0, <1>2 DEF ClientTypeOK, clientVars
  <2> QED
    BY <1>3, <2>1, <2>2 DEF TypesInv, JdbcTypeOK, Shaped
<1>4. ASSUME NEW reply \in Reply, Finish(t, reply), runner' \in [Conn -> RunnerFields],
             sessionIdToRunner' \subseteq Conn
      PROVE  TypesInv'
  <2>1. toClient' \in [Conn -> Seq([id : RequestId, reply : Reply])]
    <3>1. CASE Respond(t.conn, t.id, reply)
      BY <1>0, <1>1, <1>4, <3>1, RespondType
    <3>2. CASE UNCHANGED toClient
      BY <1>0, <3>2 DEF ChannelTypeOK
    <3> QED
      BY <1>4, <3>1, <3>2 DEF Finish
  <2>2. tasks' \subseteq Task /\ \A u \in tasks' : Shaped(u)
    BY <1>0, <1>4 DEF Finish, SessionsTypeOK
  <2> QED
    BY <1>3, <1>4, <2>1, <2>2
<1>5. ASSUME NEW u \in Task, Shaped(u), Replace(t, u), runner' \in [Conn -> RunnerFields],
             UNCHANGED <<sessionIdToRunner, toClient>>
      PROVE  TypesInv'
  <2>1. tasks' \subseteq Task /\ \A v \in tasks' : Shaped(v)
    BY <1>0, <1>5 DEF Replace, SessionsTypeOK
  <2> QED
    BY <1>0, <1>3, <1>5, <2>1 DEF SessionsTypeOK, ChannelTypeOK
<1>6. runner \in [Conn -> RunnerFields] /\ sessionIdToRunner \subseteq Conn
  BY <1>0 DEF SessionsTypeOK
<1>7. Failure \in Reply /\ \A more \in BOOLEAN : Success(<<>>, more) \in Reply
  BY ReplyTypes, EmptySeq
<1>8. CASE SessionOpens(t)
  <2>1. sessionIdToRunner' \subseteq Conn /\ Finish(t, Success(<<>>, FALSE)) /\ runner' = runner
    BY <1>1, <1>6, <1>8 DEF SessionOpens, newSessionId
  <2> QED
    BY <1>4, <1>6, <1>7, <2>1
<1>9. CASE TaskFails(t)
  BY <1>4, <1>6, <1>7, <1>9 DEF TaskFails
<1>10. CASE QueryStarts(t)
  <2>1. t.batch \in Batch /\ t.left # <<>> /\ t.phase = "query"
    BY <1>0, <1>10 DEF QueryStarts, Shaped
  <2>2. t.batch.fetchSize \in Int /\ effectiveMaxRows(t.batch.maxRows) \in Int
    BY <2>1, ChannelAssumption, effectiveType
  <2>3. runner' \in [Conn -> RunnerFields]
    BY <1>1, <1>6, <1>10, <2>2 DEF QueryStarts, RunnerFields
  <2>4. [t EXCEPT !.phase = "run"] \in Task /\ Shaped([t EXCEPT !.phase = "run"])
    BY <1>1, <2>1 DEF Task, Shaped
  <2> QED
    BY <1>5, <1>10, <2>3, <2>4 DEF QueryStarts
<1>11. CASE CommandRuns(t)
  <2>1. t.batch \in Batch /\ t.left # <<>> /\ t.phase = "run"
    BY <1>0, <1>11 DEF CommandRuns, Shaped
  <2>2. Len(t.left) \in Nat \ {0}
    BY <1>1, <2>1, EmptySeq
  <2>3. UNCHANGED <<runner, sessionIdToRunner>>
    BY <1>11 DEF CommandRuns
  <2>4. CASE Len(t.left) = 1
    <3>1. t.left[1] \in Stmt
      BY <1>1, <2>4, ElementOfSeq
    <3>2. rowsOf[t.left[1]] \in Nat
      BY <3>1, SessionsAssumption
    <3>3. Success(Rows(t.conn, t.left[1], rowsOf[t.left[1]]), FALSE) \in Reply
      BY <1>1, <3>1, <3>2, RowsType, ReplyTypes
    <3> QED
      BY <1>4, <1>6, <1>11, <2>3, <2>4, <3>3 DEF CommandRuns
  <2>5. CASE Len(t.left) # 1
    <3>1. Tail(t.left) \in Seq(Stmt) /\ Len(Tail(t.left)) = Len(t.left) - 1
      BY <1>1, <2>1, HeadTailProperties
    <3>2. Tail(t.left) # <<>>
      <4>1. Len(Tail(t.left)) # 0
        BY <2>2, <2>5, <3>1
      <4>2. Len(<<>>) = 0
        BY EmptySeq
      <4> QED
        BY <4>1, <4>2
    <3>3. [t EXCEPT !.left = Tail(t.left)] \in Task /\ Shaped([t EXCEPT !.left = Tail(t.left)])
      BY <1>1, <2>1, <3>1, <3>2 DEF Task, Shaped
    <3> QED
      BY <1>5, <1>6, <1>11, <2>3, <2>5, <3>3 DEF CommandRuns
  <2> QED
    BY <2>4, <2>5
<1>12. CASE StatementRuns(t)
  <2>1. t.batch \in Batch /\ t.left # <<>> /\ t.phase = "run"
    BY <1>0, <1>12 DEF StatementRuns, Shaped
  <2>2. Head(t.left) \in Stmt /\ runner[t.sid].maxRows \in Int
    BY <1>1, <1>6, <2>1, HeadTailProperties DEF RunnerFields
  <2>3. sql(t.conn, Head(t.left), runner[t.sid].maxRows) \in Seq(Row)
    BY <1>1, <2>2, sqlType
  <2>4. runner' \in [Conn -> RunnerFields]
    BY <1>1, <1>6, <1>12, <2>3 DEF StatementRuns, RunnerFields
  <2>5. [t EXCEPT !.phase = "assigned"] \in Task /\ Shaped([t EXCEPT !.phase = "assigned"])
    BY <1>1, <2>1 DEF Task, Shaped
  <2> QED
    BY <1>5, <1>12, <2>4, <2>5 DEF StatementRuns
<1>13. CASE StatementAnswers(t)
  <2>1. t.batch \in Batch /\ t.left # <<>> /\ t.phase = "assigned"
    BY <1>0, <1>13 DEF StatementAnswers, Shaped
  <2>2. Len(t.left) \in Nat \ {0}
    BY <1>1, <2>1, EmptySeq
  <2>3. UNCHANGED <<runner, sessionIdToRunner>>
    BY <1>13 DEF StatementAnswers
  <2>4. CASE Finish(t, Failure) \/ Finish(t, Success(<<>>, runner[t.sid].currentData # <<>>))
    BY <1>4, <1>6, <1>7, <2>3, <2>4
  <2>5. CASE Len(t.left) > 1 /\ Replace(t, [t EXCEPT !.phase = "run", !.left = Tail(t.left)])
             /\ UNCHANGED toClient
    <3>1. Tail(t.left) \in Seq(Stmt) /\ Len(Tail(t.left)) = Len(t.left) - 1
      BY <1>1, <2>1, HeadTailProperties
    <3>2. Tail(t.left) # <<>>
      <4>1. Len(Tail(t.left)) # 0
        <5>1. ASSUME NEW n \in Nat, NEW m, n > 1, m = n - 1
              PROVE  m # 0
          BY <5>1
        <5>2. Len(t.left) > 1
          BY ONLY <2>5
        <5> QED
          BY <2>2, <3>1, <5>1, <5>2
      <4>2. Len(<<>>) = 0
        BY EmptySeq
      <4> QED
        BY <4>1, <4>2
    <3>3. /\ [t EXCEPT !.phase = "run", !.left = Tail(t.left)] \in Task
          /\ Shaped([t EXCEPT !.phase = "run", !.left = Tail(t.left)])
      BY <1>1, <2>1, <3>1, <3>2 DEF Task, Shaped
    <3> QED
      BY <1>5, <1>6, <2>3, <2>5, <3>3
  <2> QED
    BY <1>13, <2>4, <2>5 DEF StatementAnswers
<1>14. CASE FetchRow(t)
  <2> DEFINE r == runner[t.sid]
  <2>1. /\ r \in RunnerFields /\ t.phase = "fetch" /\ r.currentData # None /\ r.currentData # <<>>
        /\ r.currentData \in Seq(Row) /\ r.currentRowId \in Nat
    BY <1>1, <1>6, <1>14 DEF FetchRow, hasNext, RunnerFields
  <2>2. Head(r.currentData) \in Row /\ Tail(r.currentData) \in Seq(Row)
    BY <2>1, HeadTailProperties
  <2>3. Append(t.rows, Head(r.currentData)) \in Seq(Row)
    BY <1>1, <2>2, ElemsAppend
  <2>4. runner' = [runner EXCEPT ![t.sid] =
          [r EXCEPT !.currentData = Tail(r.currentData), !.currentRowId = r.currentRowId + 1]]
    BY <1>1, <1>6, <1>14 DEF FetchRow, RunnerFields
  <2>5. runner' \in [Conn -> RunnerFields]
    <3>1. [r EXCEPT !.currentData = Tail(r.currentData), !.currentRowId = r.currentRowId + 1] \in RunnerFields
      <4> HIDE DEF r
      <4>1. r.currentRowId + 1 \in Nat
        BY <2>1
      <4> QED
        BY <2>1, <2>2, <4>1 DEF RunnerFields
    <3> QED
      BY <1>1, <1>6, <2>4, <3>1
  <2>6. /\ Replace(t, [t EXCEPT !.rows = Append(t.rows, Head(r.currentData))])
        /\ UNCHANGED <<sessionIdToRunner, toClient>>
    BY <1>14 DEF FetchRow
  <2> HIDE DEF r
  <2>7. /\ [t EXCEPT !.rows = Append(t.rows, Head(r.currentData))] \in Task
        /\ Shaped([t EXCEPT !.rows = Append(t.rows, Head(r.currentData))])
    BY <1>1, <2>1, <2>3 DEF Task, Shaped
  <2> QED
    BY <1>5, <2>5, <2>6, <2>7
<1>15. CASE FetchEnds(t)
  <2>1. \/ Finish(t, Failure)
        \/ Finish(t, Success(t.rows, hasNext(runner[t.sid])))
    BY <1>15 DEF FetchEnds
  <2>2. Success(t.rows, hasNext(runner[t.sid])) \in Reply
    BY <1>1, ReplyTypes DEF hasNext
  <2>3. runner' = runner \/ runner' = [runner EXCEPT ![t.sid].currentData = None]
    BY <1>15 DEF FetchEnds
  <2>4. runner' \in [Conn -> RunnerFields] /\ sessionIdToRunner' = sessionIdToRunner
    <3>1. sessionIdToRunner' = sessionIdToRunner
      BY <1>15 DEF FetchEnds
    <3>2. [runner[t.sid] EXCEPT !.currentData = None] \in RunnerFields
      BY <1>1, <1>6 DEF RunnerFields
    <3>3. ASSUME runner' = [runner EXCEPT ![t.sid].currentData = None]
          PROVE  runner' \in [Conn -> RunnerFields]
      <4> DEFINE x == [runner[t.sid] EXCEPT !.currentData = None]
      <4>1. runner' = [runner EXCEPT ![t.sid] = x]
        BY <3>3
      <4> HIDE DEF x
      <4> QED
        BY <1>1, <1>6, <3>2, <4>1 DEF x
    <3> QED
      BY <1>6, <2>3, <3>1, <3>3
  <2> QED
    BY <1>4, <1>6, <1>7, <2>1, <2>2, <2>4
<1> QED
  BY <1>8, <1>9, <1>10, <1>11, <1>12, <1>13, <1>14, <1>15 DEF Runs, TaskStep

LEMMA TypesStep ==
  ASSUME TypesInv, [JdbcNext]_jdbcVars
  PROVE  TypesInv'
<1>1. CASE UNCHANGED jdbcVars
  BY <1>1 DEF TypesInv, JdbcTypeOK, ChannelTypeOK, SessionsTypeOK, ClientTypeOK, Shaped, jdbcVars,
     channelVars, sessionVars, clientVars
<1>2. ASSUME NEW c \in Conn, Breaks(c)
      PROVE  TypesInv'
  <2>1. /\ UNCHANGED <<sessionVars, user, requests, result, answers, canceller, rs, lapses>>
        /\ breaks' \in 0..MaxBreaks
    BY <1>2, JdbcAssumption DEF Breaks, TypesInv, JdbcTypeOK, ClientTypeOK
  <2>2. ChannelTypeOK'
    BY <1>2, ShutType DEF Breaks, ChannelBreaks, TypesInv, JdbcTypeOK
  <2> QED
    BY <2>1, <2>2 DEF TypesInv, JdbcTypeOK, SessionsTypeOK, ClientTypeOK, Shaped, sessionVars
<1> QED
  BY <1>1, <1>2, NettyTypes, UserTypes, CancelTypes, ReceiveTypes, TaskTypes DEF JdbcNext

LEMMA TypesInit == JdbcInit => TypesInv
<1> SUFFICES ASSUME JdbcInit PROVE TypesInv
  OBVIOUS
<1>1. ChannelTypeOK
  BY EmptySeq DEF JdbcInit, ChannelInit, ChannelTypeOK
<1>2. SessionsTypeOK /\ tasks = {}
  BY DEF JdbcInit, SessionsInit, SessionsTypeOK, RunnerFields
<1>3. ClientTypeOK
  BY ChannelAssumption, JdbcAssumption, ReplyTypes DEF JdbcInit, ClientTypeOK, NoFuture
<1>4. \A c \in Conn : user[c].op = "new"
  BY DEF JdbcInit
<1> QED
  BY <1>1, <1>2, <1>3, <1>4 DEF TypesInv, JdbcTypeOK

LEMMA TypesAlways == JdbcSpec => []TypesInv
<1>1. TypesInv /\ [JdbcNext]_jdbcVars => TypesInv'
  BY TypesStep
<1> QED
  BY <1>1, TypesInit, PTL DEF JdbcSpec

\* Every field of a client, a session and the channel between them holds what it should: a
\* task that runs has a statement to run, and a call that returns finds its result set.
THEOREM JdbcTypes == JdbcSpec => []JdbcTypeOK
<1>1. TypesInv => JdbcTypeOK
  BY DEF TypesInv
<1> QED
  BY <1>1, TypesAlways, PTL

-----------------------------------------------------------------------------
(* Rows                                                                    *)

Own(c, rows) == \A r \in Elems(rows) : r.conn = c

\* Every place rows pass through belongs to one connection: the cursor of its session, the
\* tasks on it, the way back, the future in the field and the result set.
OwnInv ==
  /\ \A c \in Conn : runner[c].currentData # None => Own(c, runner[c].currentData)
  /\ \A t \in tasks : t.sid = t.conn /\ Own(t.conn, t.rows)
  /\ \A c \in Conn : \A m \in Elems(toClient[c]) : Own(c, m.reply.rows)
  /\ \A c \in Conn : Own(c, result[c].reply.rows)
  /\ \A c \in Conn : rs[c] # None \/ user[c].op \in {"execute", "next"} => Own(c, rs[c].rows)

LEMMA OwnEmpty == \A c : Own(c, <<>>) /\ Own(c, Failure.rows)
BY ElemsEmpty DEF Own, Failure

\* What a response adds to the way back.
LEMMA RespondAdds ==
  ASSUME ChannelTypeOK, NEW c \in Conn, NEW id \in RequestId, NEW reply \in Reply, Respond(c, id, reply)
  PROVE  /\ \A d \in Conn : d # c => toClient'[d] = toClient[d]
         /\ chan[c] # "open" => toClient'[c] = toClient[c]
         /\ Elems(toClient'[c]) \subseteq Elems(toClient[c]) \cup {[id |-> id, reply |-> reply]}
         /\ Distinct(toClient[c]) /\ (\A m \in Elems(toClient[c]) : m.id # id) => Distinct(toClient'[c])
<1> DEFINE m == [id |-> id, reply |-> reply]
           M == [id : RequestId, reply : Reply]
           s == toClient[c]
<1>1. m \in M /\ s \in Seq(M)
  BY DEF ChannelTypeOK
<1>2. m.id = id
  OBVIOUS
<1>3. toClient' = IF chan[c] = "open" THEN [toClient EXCEPT ![c] = Append(toClient[c], m)] ELSE toClient
  BY DEF Respond, Writable
<1> HIDE DEF m, M, s
<1>4. /\ Elems(Append(s, m)) = Elems(s) \cup {m}
      /\ Distinct(s) /\ (\A x \in Elems(s) : x.id # m.id) => Distinct(Append(s, m))
  BY <1>1, ElemsAppend
<1>5. DOMAIN toClient = Conn
  BY DEF ChannelTypeOK
<1> QED
  BY <1>2, <1>3, <1>4, <1>5 DEF m, s

LEMMA OwnNetty ==
  ASSUME TypesInv, OwnInv, NEW c \in Conn, NettyStep(c)
  PROVE  OwnInv'
<1>0. ChannelTypeOK /\ ClientTypeOK
  BY DEF TypesInv, JdbcTypeOK
<1>1. UNCHANGED <<tasks, runner, rs, user>>
  BY DEF NettyStep, handle, failOutstandingRequests, clear, WriteFails, UntouchedByNetty, sessionVars
<1>2. ASSUME \A d \in Conn : Elems(toClient'[d]) \subseteq Elems(toClient[d]),
             \A d \in Conn : \/ result'[d].reply \in {result[d].reply, Failure}
                             \/ \E m \in Elems(toClient[d]) : result'[d].reply = m.reply
      PROVE  OwnInv'
  <2>1. \A d \in Conn : Own(d, result'[d].reply.rows)
    BY <1>2, OwnEmpty DEF OwnInv
  <2> QED
    BY <1>1, <1>2, <2>1 DEF OwnInv, Own
<1>3. ASSUME NEW e, NEW reply, CalledBack(c, e, reply)
      PROVE  \A d \in Conn : result'[d].reply = result[d].reply \/ (d = c /\ result'[d].reply = reply)
  BY <1>0, <1>3 DEF CalledBack, ClientTypeOK
<1>4. CASE handle(c)
  <2>1. toClient[c] # <<>> /\ toClient' = [toClient EXCEPT ![c] = Tail(@)]
    BY <1>4 DEF handle
  <2>2. toClient[c] \in Seq([id : RequestId, reply : Reply]) /\ DOMAIN toClient = Conn
    BY <1>0 DEF ChannelTypeOK
  <2>3. /\ Elems(toClient[c]) = Elems(Tail(toClient[c])) \cup {Head(toClient[c])}
    BY <2>1, <2>2, ElemsTail
  <2>4. \A d \in Conn : Elems(toClient'[d]) \subseteq Elems(toClient[d])
    BY <2>1, <2>2, <2>3
  <2>5. \/ UNCHANGED result
        \/ \E e : CalledBack(c, e, Head(toClient[c]).reply)
    BY <1>4 DEF handle
  <2>6. \A d \in Conn : \/ result'[d].reply \in {result[d].reply, Failure}
                        \/ \E m \in Elems(toClient[d]) : result'[d].reply = m.reply
    BY <1>3, <2>3, <2>5
  <2> QED
    BY <1>2, <2>4, <2>6
<1>5. CASE failOutstandingRequests(c)
  <2>1. UNCHANGED toClient
    BY <1>5 DEF failOutstandingRequests
  <2>2. \A d \in Conn : result'[d].reply \in {result[d].reply, Failure}
    BY <1>0, <1>5 DEF failOutstandingRequests, ClientTypeOK
  <2> QED
    BY <1>2, <2>1, <2>2
<1>6. CASE clear(c)
  BY <1>2, <1>6 DEF clear
<1>7. CASE WriteFails(c)
  <2>1. UNCHANGED toClient /\ \E e : CalledBack(c, e, Failure)
    BY <1>7 DEF WriteFails
  <2> QED
    BY <1>2, <1>3, <2>1
<1> QED
  BY <1>4, <1>5, <1>6, <1>7 DEF NettyStep

LEMMA OwnUser ==
  ASSUME TypesInv, OwnInv, NEW c \in Conn, UserStep(c)
  PROVE  OwnInv'
<1>0. ChannelTypeOK /\ ClientTypeOK /\ rs \in [Conn -> ResultSet \cup {None}]
  BY DEF TypesInv, JdbcTypeOK, ClientTypeOK
<1>1. UNCHANGED <<tasks, runner>>
  BY DEF UserStep, createClient, opensession, fetchMoreData, close, execute, Returned, SyncReturned,
     TimesOut, sessionVars
<1>2. \A d \in Conn : Elems(toClient'[d]) \subseteq Elems(toClient[d])
  <2>1. \/ UNCHANGED toClient
        \/ \E how : shut(c, how)
    BY DEF UserStep, createClient, opensession, fetchMoreData, close, execute, Returned, SyncReturned,
       TimesOut, Call, send, channelVars
  <2>2. CASE \E how : shut(c, how)
    BY <1>0, <2>2, ElemsEmpty DEF shut, ChannelTypeOK
  <2> QED
    BY <2>1, <2>2
<1>3. \A d \in Conn : Own(d, result'[d].reply.rows)
  <2>1. \/ UNCHANGED result
        \/ result' = [result EXCEPT ![c] = NewFuture]
    BY DEF UserStep, createClient, opensession, fetchMoreData, close, execute, Returned, SyncReturned,
       TimesOut
  <2>2. \A d \in Conn : result'[d].reply \in {result[d].reply, Failure}
    <3>1. DOMAIN result = Conn /\ NewFuture.reply = Failure
      BY <1>0 DEF NewFuture, ClientTypeOK
    <3> QED
      BY <2>1, <3>1
  <2> QED
    BY <2>2, OwnEmpty DEF OwnInv
<1>4. ASSUME \A d \in Conn : d # c => rs'[d] = rs[d],
             \/ Own(c, rs'[c].rows)
             \/ rs'[c] = rs[c] /\ user'[c].op \notin {"execute", "next"}
      PROVE  OwnInv'
  <2>1. \A d \in Conn : d # c => user'[d] = user[d]
    BY <1>0 DEF UserStep, createClient, opensession, fetchMoreData, close, execute, Returned, SyncReturned,
       TimesOut, Call, Return, ClientTypeOK
  <2>2. \A d \in Conn : rs'[d] # None \/ user'[d].op \in {"execute", "next"} => Own(d, rs'[d].rows)
    BY <1>4, <2>1 DEF OwnInv
  <2> QED
    BY <1>1, <1>2, <1>3, <2>2 DEF OwnInv, Own
<1>5. CASE createClient(c) \/ opensession(c) \/ close(c) \/ SyncReturned(c)
  <2>1. UNCHANGED rs
    BY <1>5 DEF createClient, opensession, close, SyncReturned
  <2>2. \E op \in Idle \cup {"opensession", "closesession"} : \E id :
          user' = [user EXCEPT ![c] = [op |-> op, id |-> id]]
    BY <1>5 DEF createClient, opensession, close, SyncReturned, Call, Return, Idle
  <2>3. user'[c].op \notin {"execute", "next"}
    BY <1>0, <2>2 DEF ClientTypeOK, Idle
  <2> QED
    BY <1>4, <2>1, <2>3
<1>6. CASE fetchMoreData(c)
  BY <1>4, <1>6 DEF fetchMoreData, OwnInv
<1>7. ASSUME NEW b \in Batch, execute(c, b)
      PROVE  OwnInv'
  <2>1. /\ \A d \in Conn : d # c => rs'[d] = rs[d]
        /\ rs'[c].rows = <<>>
    BY <1>0, <1>7 DEF execute
  <2> QED
    BY <1>4, <2>1, OwnEmpty
<1>8. ASSUME user[c].op \in {"execute", "next"}
      PROVE  rs[c] \in ResultSet /\ Own(c, rs[c].rows)
  BY <1>8 DEF TypesInv, OwnInv
<1>9. CASE Returned(c)
  <2>1. result[c].reply \in Reply /\ Own(c, result[c].reply.rows)
    BY <1>0 DEF ClientTypeOK, OwnInv
  <2>2. rs[c] \in ResultSet /\ Own(c, rs[c].rows)
    BY <1>8, <1>9 DEF Returned
  <2>3. Own(c, rs[c].rows \o result[c].reply.rows)
    <3>1. Elems(rs[c].rows \o result[c].reply.rows) \subseteq Elems(rs[c].rows) \cup Elems(result[c].reply.rows)
      BY <2>1, <2>2, ElemsConcat DEF ResultSet, Reply
    <3> QED
      BY <2>1, <2>2, <3>1 DEF Own
  <2>4. /\ \A d \in Conn : d # c => rs'[d] = rs[d]
        /\ rs'[c] = IF result[c].reply.ok
                    THEN [rs[c] EXCEPT !.rows = rs[c].rows \o result[c].reply.rows,
                                       !.more = result[c].reply.more]
                    ELSE [rs[c] EXCEPT !.failed = TRUE]
    BY <1>0, <1>9 DEF Returned
  <2>5. rs'[c].rows \in {rs[c].rows, rs[c].rows \o result[c].reply.rows}
    BY <2>2, <2>4 DEF ResultSet
  <2> QED
    BY <1>4, <2>2, <2>3, <2>4, <2>5
<1>10. CASE TimesOut(c)
  <2>1. CASE user[c].op \in {"execute", "next"}
    <3>1. rs[c] \in ResultSet /\ Own(c, rs[c].rows)
      BY <1>8, <2>1
    <3>2. rs'[c] = [rs[c] EXCEPT !.failed = TRUE] /\ \A d \in Conn : d # c => rs'[d] = rs[d]
      BY <1>0, <1>10, <2>1 DEF TimesOut
    <3>3. rs'[c].rows = rs[c].rows
      BY <3>1, <3>2 DEF ResultSet
    <3> QED
      BY <1>4, <3>1, <3>2, <3>3
  <2>2. CASE user[c].op \notin {"execute", "next"}
    <3>1. UNCHANGED rs /\ user'[c].op \notin {"execute", "next"}
      BY <1>0, <1>10, <2>2 DEF TimesOut, Return, ClientTypeOK
    <3> QED
      BY <1>4, <3>1
  <2> QED
    BY <2>1, <2>2
<1> QED
  BY <1>5, <1>6, <1>7, <1>9, <1>10 DEF UserStep

LEMMA OwnCancel ==
  ASSUME TypesInv, OwnInv, NEW c \in Conn, CancelStep(c)
  PROVE  OwnInv'
<1>1. UNCHANGED <<tasks, runner, rs, user, toClient>>
  BY DEF CancelStep, cancel, CancelReturned, CancelsResult, send, channelVars, sessionVars
<1>2. \A d \in Conn : result'[d].reply \in {result[d].reply, Failure}
  <2>1. \/ UNCHANGED result
        \/ result' = [result EXCEPT ![c] = [set |-> TRUE, by |-> canceller[c].id, reply |-> Failure]]
    BY DEF CancelStep, cancel, CancelReturned, CancelsResult
  <2>2. DOMAIN result = Conn
    BY DEF TypesInv, JdbcTypeOK, ClientTypeOK
  <2> QED
    BY <2>1, <2>2
<1>3. \A d \in Conn : Own(d, result'[d].reply.rows)
  BY <1>2, OwnEmpty DEF OwnInv
<1> QED
  BY <1>1, <1>3 DEF OwnInv, Own

LEMMA OwnBreaks ==
  ASSUME TypesInv, OwnInv, NEW c \in Conn, Breaks(c)
  PROVE  OwnInv'
<1>1. UNCHANGED <<tasks, runner, rs, user, result>> /\ \E how : shut(c, how)
  BY DEF Breaks, ChannelBreaks, sessionVars
<1>2. \A d \in Conn : Elems(toClient'[d]) \subseteq Elems(toClient[d])
  BY <1>1, ElemsEmpty DEF shut, TypesInv, JdbcTypeOK, ChannelTypeOK
<1> QED
  BY <1>1, <1>2 DEF OwnInv, Own

LEMMA OwnReceives ==
  ASSUME TypesInv, OwnInv, NEW c \in Conn, Receives(c)
  PROVE  OwnInv'
<1> DEFINE req == Head(toServer[c])
<1>0. ChannelTypeOK /\ req.id \in RequestId
  <2>1. ChannelTypeOK /\ toServer[c] # <<>>
    BY DEF TypesInv, JdbcTypeOK, Receives, receive
  <2>2. req \in Request
    BY <2>1, ElemsTail DEF ChannelTypeOK
  <2> QED
    BY <2>1, <2>2 DEF Request
<1>1. UNCHANGED <<runner, rs, user, result>>
  BY DEF Receives, receive, clientVars, handleOpenSession, handleCloseSession, handleExecute,
     handleExecuteResult, handleExecuteCancel, SessionLost, sessionVars
<1>2. /\ Success(<<>>, FALSE) \in Reply /\ Failure \in Reply
      /\ Success(<<>>, FALSE).rows = <<>> /\ Failure.rows = <<>>
  BY ReplyTypes, EmptySeq
<1>3. \A d \in Conn : \A m \in Elems(toClient'[d]) : Own(d, m.reply.rows)
  <2>1. \/ UNCHANGED toClient
        \/ \E reply \in {Success(<<>>, FALSE), Failure} : Respond(c, req.id, reply)
    BY DEF Receives, receive, handleOpenSession, handleCloseSession, handleExecute,
       handleExecuteResult, handleExecuteCancel, SessionLost
  <2>2. ASSUME NEW reply \in {Success(<<>>, FALSE), Failure}, Respond(c, req.id, reply)
        PROVE  \A d \in Conn : \A m \in Elems(toClient'[d]) : Own(d, m.reply.rows)
    <3>1. reply \in Reply /\ reply.rows = <<>>
      BY <1>2
    <3> HIDE DEF req
    <3>2. /\ \A d \in Conn : d # c => toClient'[d] = toClient[d]
          /\ Elems(toClient'[c]) \subseteq Elems(toClient[c]) \cup {[id |-> req.id, reply |-> reply]}
      BY <1>0, <2>2, <3>1, RespondAdds
    <3>3. Own(c, [id |-> req.id, reply |-> reply].reply.rows)
      BY <3>1, OwnEmpty
    <3> QED
      BY <3>2, <3>3 DEF OwnInv
  <2> QED
    BY <2>1, <2>2 DEF OwnInv
<1>4. \A t \in tasks' : t.sid = t.conn /\ Own(t.conn, t.rows)
  <2>1. \/ UNCHANGED tasks
        \/ \E phase, batch : Start(c, req, phase, batch)
    BY DEF Receives, receive, handleOpenSession, handleCloseSession, handleExecute,
       handleExecuteResult, handleExecuteCancel, SessionLost, sessionVars
  <2>2. ASSUME NEW phase, NEW batch, Start(c, req, phase, batch), NEW t \in tasks', t \notin tasks
        PROVE  t.sid = c /\ t.conn = c /\ t.rows = <<>>
    BY <2>2 DEF Start, sessionIdOf, newSessionId
  <2> QED
    BY <2>1, <2>2, OwnEmpty DEF OwnInv
<1> QED
  BY <1>1, <1>3, <1>4 DEF OwnInv

LEMMA OwnRuns ==
  ASSUME TypesInv, OwnInv, NEW t \in tasks, Runs(t)
  PROVE  OwnInv'
<1>0. /\ ChannelTypeOK
      /\ t \in Task /\ t.conn \in Conn /\ t.id \in RequestId /\ t.sid = t.conn
      /\ t.left \in Seq(Stmt) /\ t.rows \in Seq(Row)
      /\ Shaped(t) /\ Own(t.conn, t.rows)
      /\ runner \in [Conn -> RunnerFields] /\ runner[t.conn] \in RunnerFields
  BY DEF TypesInv, JdbcTypeOK, SessionsTypeOK, OwnInv, Task
<1>1. UNCHANGED <<rs, user, result>>
  BY DEF Runs, clientVars
<1>2. ASSUME \/ UNCHANGED toClient
             \/ \E reply \in Reply : Own(t.conn, reply.rows) /\ Respond(t.conn, t.id, reply)
      PROVE  \A d \in Conn : \A m \in Elems(toClient'[d]) : Own(d, m.reply.rows)
  <2>1. ASSUME NEW reply \in Reply, Own(t.conn, reply.rows), Respond(t.conn, t.id, reply)
        PROVE  \A d \in Conn : \A m \in Elems(toClient'[d]) : Own(d, m.reply.rows)
    <3>1. /\ \A d \in Conn : d # t.conn => toClient'[d] = toClient[d]
          /\ Elems(toClient'[t.conn]) \subseteq Elems(toClient[t.conn]) \cup {[id |-> t.id, reply |-> reply]}
      BY <1>0, <2>1, RespondAdds
    <3> QED
      BY <2>1, <3>1 DEF OwnInv
  <2> QED
    BY <1>2, <2>1 DEF OwnInv
<1>3. ASSUME \/ tasks' = tasks \ {t}
             \/ \E u : Replace(t, u) /\ u.sid = t.sid /\ u.conn = t.conn /\ Own(t.conn, u.rows)
      PROVE  \A u \in tasks' : u.sid = u.conn /\ Own(u.conn, u.rows)
  BY <1>0, <1>3 DEF Replace, OwnInv
<1>4. ASSUME \A d \in Conn : d # t.conn => runner'[d] = runner[d],
             \/ runner'[t.conn].currentData \in {None, runner[t.conn].currentData}
             \/ Own(t.conn, runner'[t.conn].currentData)
      PROVE  \A d \in Conn : runner'[d].currentData # None => Own(d, runner'[d].currentData)
  BY <1>4 DEF OwnInv
<1>5. ASSUME NEW reply \in Reply, Own(t.conn, reply.rows), Finish(t, reply),
             \A d \in Conn : d # t.conn => runner'[d] = runner[d],
             runner'[t.conn].currentData \in {None, runner[t.conn].currentData}
      PROVE  OwnInv'
  BY <1>1, <1>2, <1>3, <1>4, <1>5 DEF OwnInv, Finish
<1>6. ASSUME NEW u, Replace(t, u), u.sid = t.sid, u.conn = t.conn, Own(t.conn, u.rows),
             UNCHANGED toClient,
             \A d \in Conn : d # t.conn => runner'[d] = runner[d],
             \/ runner'[t.conn].currentData = runner[t.conn].currentData
             \/ Own(t.conn, runner'[t.conn].currentData)
      PROVE  OwnInv'
  BY <1>1, <1>2, <1>3, <1>4, <1>6 DEF OwnInv
<1>7. /\ Failure \in Reply /\ Own(t.conn, Failure.rows)
      /\ \A more \in BOOLEAN : Success(<<>>, more) \in Reply /\ Own(t.conn, Success(<<>>, more).rows)
      /\ \A rows \in Seq(Row), more \in BOOLEAN : Success(rows, more) \in Reply /\ Success(rows, more).rows = rows
  BY ReplyTypes, EmptySeq, OwnEmpty
<1>8. CASE SessionOpens(t) \/ TaskFails(t)
  BY <1>5, <1>7, <1>8 DEF SessionOpens, TaskFails
<1>9. CASE QueryStarts(t)
  <2>1. /\ \A d \in Conn : d # t.conn => runner'[d] = runner[d]
        /\ runner'[t.conn].currentData = runner[t.conn].currentData
    BY <1>0, <1>9 DEF QueryStarts, RunnerFields
  <2>2. LET u == [t EXCEPT !.phase = "run"] IN u.sid = t.sid /\ u.conn = t.conn /\ u.rows = t.rows
    BY <1>0 DEF Task
  <2> QED
    BY <1>0, <1>6, <1>9, <2>1, <2>2 DEF QueryStarts
<1>10. CASE CommandRuns(t)
  <2>1. UNCHANGED runner
    BY <1>10 DEF CommandRuns
  <2>2. CASE Len(t.left) = 1
    <3>1. t.left[1] \in Stmt
      BY <1>0, <2>2, ElementOfSeq
    <3>2. rowsOf[t.left[1]] \in Nat
      BY <3>1, SessionsAssumption
    <3> DEFINE s == t.left[1]
               k == rowsOf[s]
               rows == Rows(t.conn, s, k)
    <3>3. rows \in Seq(Row) /\ Own(t.conn, rows)
      <4> HIDE DEF s, k
      <4>1. s \in Stmt /\ k \in Nat
        BY <3>1, <3>2 DEF s, k
      <4> QED
        BY <1>0, <4>1, RowsType DEF Own
    <3>4. Finish(t, Success(rows, FALSE))
      BY <1>10, <2>2 DEF CommandRuns
    <3> HIDE DEF rows
    <3> QED
      BY <1>5, <1>7, <2>1, <3>3, <3>4
  <2>3. CASE Len(t.left) # 1
    <3>1. Replace(t, [t EXCEPT !.left = Tail(t.left)]) /\ UNCHANGED toClient
      BY <1>10, <2>3 DEF CommandRuns
    <3>2. LET u == [t EXCEPT !.left = Tail(t.left)] IN u.sid = t.sid /\ u.conn = t.conn /\ u.rows = t.rows
      BY <1>0 DEF Task
    <3> QED
      BY <1>0, <1>6, <2>1, <3>1, <3>2
  <2> QED
    BY <2>2, <2>3
<1>11. CASE StatementRuns(t)
  <2>1. t.left # <<>>
    BY <1>0, <1>11 DEF StatementRuns, Shaped
  <2>2. Head(t.left) \in Stmt /\ runner[t.conn].maxRows \in Int
    BY <1>0, <2>1, HeadTailProperties DEF RunnerFields
  <2>3. Own(t.conn, sql(t.conn, Head(t.left), runner[t.conn].maxRows))
    BY <1>0, <2>2, sqlType DEF Own
  <2>4. /\ \A d \in Conn : d # t.conn => runner'[d] = runner[d]
        /\ runner'[t.conn].currentData = sql(t.conn, Head(t.left), runner[t.conn].maxRows)
    BY <1>0, <1>11 DEF StatementRuns, RunnerFields
  <2>5. LET u == [t EXCEPT !.phase = "assigned"] IN u.sid = t.sid /\ u.conn = t.conn /\ u.rows = t.rows
    BY <1>0 DEF Task
  <2> QED
    BY <1>0, <1>6, <1>11, <2>3, <2>4, <2>5 DEF StatementRuns
<1>12. CASE StatementAnswers(t)
  <2>1. UNCHANGED runner
    BY <1>12 DEF StatementAnswers
  <2>2. \/ Finish(t, Failure) \/ Finish(t, Success(<<>>, runner[t.sid].currentData # <<>>))
        \/ Replace(t, [t EXCEPT !.phase = "run", !.left = Tail(t.left)]) /\ UNCHANGED toClient
    BY <1>12 DEF StatementAnswers
  <2>3. LET u == [t EXCEPT !.phase = "run", !.left = Tail(t.left)] IN
        u.sid = t.sid /\ u.conn = t.conn /\ u.rows = t.rows
    BY <1>0 DEF Task
  <2> QED
    BY <1>0, <1>5, <1>6, <1>7, <2>1, <2>2, <2>3
<1>13. CASE FetchRow(t)
  <2> DEFINE data == runner[t.conn].currentData
             row == Head(data)
  <2>1. data # None /\ data # <<>> /\ data \in Seq(Row) /\ Own(t.conn, data)
    BY <1>0, <1>13 DEF FetchRow, hasNext, RunnerFields, OwnInv
  <2>2. /\ \A d \in Conn : d # t.conn => runner'[d] = runner[d]
        /\ runner'[t.conn].currentData = Tail(data)
    BY <1>0, <1>13 DEF FetchRow, RunnerFields
  <2>3. Replace(t, [t EXCEPT !.rows = Append(t.rows, row)]) /\ UNCHANGED toClient
    BY <1>0, <1>13 DEF FetchRow
  <2> HIDE DEF data
  <2>4. /\ row \in Row /\ row \in Elems(data)
        /\ Elems(data) = Elems(Tail(data)) \cup {row}
    BY <2>1, ElemsTail
  <2>5. Own(t.conn, Tail(data)) /\ row.conn = t.conn
    BY <2>1, <2>4 DEF Own
  <2> HIDE DEF row
  <2>6. Own(t.conn, Append(t.rows, row))
    <3>1. Elems(Append(t.rows, row)) = Elems(t.rows) \cup {row}
      BY <1>0, <2>4, ElemsAppend
    <3> QED
      BY <1>0, <2>5, <3>1 DEF Own
  <2> DEFINE u == [t EXCEPT !.rows = Append(t.rows, row)]
  <2>7. u.sid = t.sid /\ u.conn = t.conn /\ u.rows = Append(t.rows, row)
    BY <1>0 DEF Task
  <2>8. Replace(t, u)
    BY <2>3
  <2> HIDE DEF u
  <2> QED
    BY <1>6, <2>2, <2>3, <2>5, <2>6, <2>7, <2>8
<1>14. CASE FetchEnds(t)
  <2>1. \/ Finish(t, Failure)
        \/ Finish(t, Success(t.rows, hasNext(runner[t.sid])))
    BY <1>14 DEF FetchEnds
  <2>2. /\ \A d \in Conn : d # t.conn => runner'[d] = runner[d]
        /\ runner'[t.conn].currentData \in {None, runner[t.conn].currentData}
    BY <1>0, <1>14 DEF FetchEnds, RunnerFields
  <2>3. hasNext(runner[t.sid]) \in BOOLEAN
    BY DEF hasNext
  <2> QED
    BY <1>0, <1>5, <1>7, <2>1, <2>2, <2>3
<1> QED
  BY <1>8, <1>9, <1>10, <1>11, <1>12, <1>13, <1>14 DEF Runs, TaskStep

LEMMA OwnInit == JdbcInit => OwnInv
<1>1. ASSUME JdbcInit
      PROVE  OwnInv
  BY <1>1, ElemsEmpty, OwnEmpty DEF JdbcInit, ChannelInit, SessionsInit, OwnInv, NoFuture
<1> QED
  BY <1>1

LEMMA OwnStep ==
  ASSUME TypesInv, OwnInv, [JdbcNext]_jdbcVars
  PROVE  OwnInv'
<1>1. CASE UNCHANGED jdbcVars
  BY <1>1 DEF OwnInv, Own, jdbcVars, channelVars, sessionVars, clientVars
<1> QED
  BY <1>1, OwnNetty, OwnUser, OwnCancel, OwnBreaks, OwnReceives, OwnRuns DEF JdbcNext

\* The rows a connection gets are those of statements it has executed itself, for any number
\* of connections and whatever is late, lost, cancelled or closed: the Runner, the tasks, the
\* channel and the future that rows pass through are each of one connection.
THEOREM RowsAreOwn == JdbcSpec => []OwnRows
<1>1. TypesInv /\ OwnInv /\ [JdbcNext]_jdbcVars => OwnInv'
  BY OwnStep
<1>2. TypesInv /\ OwnInv => OwnRows
  BY DEF OwnInv, Own, OwnRows, Elems
<1> QED
  BY <1>1, <1>2, OwnInit, TypesAlways, PTL DEF JdbcSpec

-----------------------------------------------------------------------------
(* Sessions                                                                *)

\* Ids are given out in order, so that the next is of no message, task, answer or entry.
Known(c) ==
  /\ \A x \in Elems(toServer[c]) \cup Elems(toClient[c]) : x.id \in 1..requests
  /\ \A x \in answers[c] \cup outstanding[c] \cup failing[c] : x.id \in 1..requests
  /\ \A t \in tasks : t.conn = c => t.id \in 1..requests

\* A request is on the wire, in a task or answered, and only one of these.
InOnePlace(c) ==
  /\ Distinct(toServer[c]) /\ Distinct(toClient[c])
  /\ \A t, u \in tasks : t.conn = c /\ u.conn = c /\ t.id = u.id => t = u
  /\ \A r \in Elems(toServer[c]), m \in Elems(toClient[c]) : r.id # m.id
  /\ \A t \in tasks : t.conn = c =>
       /\ \A r \in Elems(toServer[c]) : t.id # r.id
       /\ \A m \in Elems(toClient[c]) : t.id # m.id

NoOpening(c) ==
  /\ \A r \in Elems(toServer[c]) : r.kind # "OpenSession"
  /\ \A t \in tasks : t.conn = c => t.phase # "open"

\* A session may open while its opening is waited for or after that has been given up.
OpensOnce(c) ==
  /\ user[c].op \notin {"opensession", "gone"} => NoOpening(c)
  /\ user[c].op = "opensession" =>
       /\ \A r \in Elems(toServer[c]) : r.kind = "OpenSession" => r.id = user[c].id
       /\ \A t \in tasks : t.conn = c /\ t.phase = "open" => t.id = user[c].id
       /\ \A a \in answers[c] : a.id = user[c].id /\ a.reply.ok => NoOpening(c)

\* The answer to CloseSession shows that the session is gone.
Closes(c) ==
  /\ user[c].op = "closesession" =>
       /\ \A r \in Elems(toServer[c]) : r.id = user[c].id => r.kind = "CloseSession"
       /\ \A t \in tasks : t.conn = c => t.id # user[c].id
       /\ \A m \in Elems(toClient[c]) \cup answers[c] :
            m.id = user[c].id /\ m.reply.ok => c \notin sessionIdToRunner
  /\ user[c].op = "closed" => c \notin sessionIdToRunner

Orderly(c) == Known(c) /\ InOnePlace(c) /\ OpensOnce(c) /\ Closes(c)

OrderlyInv == \A c \in Conn : Orderly(c)

\* A step of another connection.
LEMMA Elsewhere ==
  ASSUME NEW d, Orderly(d), requests \in Nat, requests' \in Nat, requests <= requests',
         toServer'[d] = toServer[d], toClient'[d] = toClient[d], answers'[d] = answers[d],
         outstanding'[d] = outstanding[d], failing'[d] = failing[d], user'[d] = user[d],
         \A t : t.conn = d => (t \in tasks' <=> t \in tasks),
         d \in sessionIdToRunner' => d \in sessionIdToRunner
  PROVE  Orderly(d)'
<1>1. \A n : n \in 1..requests => n \in 1..requests'
  OBVIOUS
<1>2. Known(d)'
  BY <1>1 DEF Orderly, Known
<1>3. InOnePlace(d)'
  BY DEF Orderly, InOnePlace
<1>4. OpensOnce(d)'
  BY DEF Orderly, OpensOnce, NoOpening
<1>5. Closes(d)'
  BY DEF Orderly, Closes
<1> QED
  BY <1>2, <1>3, <1>4, <1>5 DEF Orderly

\* What Netty's thread does to its connection: messages go, and answers come from them.
LEMMA OrderlyCalledBack ==
  ASSUME NEW c, Orderly(c), UNCHANGED <<tasks, sessionIdToRunner, user, requests, toServer>>,
         Elems(toClient'[c]) \subseteq Elems(toClient[c]), Distinct(toClient'[c]),
         outstanding'[c] \subseteq outstanding[c], failing'[c] \subseteq failing[c],
         \A a \in answers'[c] \ answers[c] :
           /\ a.id \in 1..requests
           /\ a.reply.ok => \E m \in Elems(toClient[c]) : m.id = a.id /\ m.reply = a.reply
  PROVE  Orderly(c)'
<1>1. Known(c)'
  <2>1. \A x \in Elems(toServer'[c]) \cup Elems(toClient'[c]) : x.id \in 1..requests
    BY DEF Orderly, Known
  <2>2. \A x \in answers'[c] \cup outstanding'[c] \cup failing'[c] : x.id \in 1..requests
    BY DEF Orderly, Known
  <2> QED
    BY <2>1, <2>2 DEF Orderly, Known
<1>2. InOnePlace(c)'
  BY DEF Orderly, InOnePlace
<1>3. ASSUME user[c].op = "opensession", NEW a \in answers'[c], a.id = user[c].id, a.reply.ok
      PROVE  NoOpening(c)
  <2>1. CASE a \in answers[c]
    BY <1>3, <2>1 DEF Orderly, OpensOnce
  <2>2. CASE a \notin answers[c]
    <3>1. PICK m \in Elems(toClient[c]) : m.id = user[c].id
      BY <1>3, <2>2
    <3> QED
      BY <1>3, <3>1 DEF Orderly, OpensOnce, InOnePlace, NoOpening
  <2> QED
    BY <2>1, <2>2
<1>4. OpensOnce(c)'
  BY <1>3 DEF Orderly, OpensOnce, NoOpening
<1>5. Closes(c)'
  BY DEF Orderly, Closes
<1> QED
  BY <1>1, <1>2, <1>4, <1>5 DEF Orderly

LEMMA OrderlyNetty ==
  ASSUME TypesInv, OrderlyInv, NEW c \in Conn, NettyStep(c)
  PROVE  OrderlyInv'
<1>0. ChannelTypeOK /\ ClientTypeOK /\ requests \in Nat
  BY DEF TypesInv, JdbcTypeOK, ClientTypeOK
<1>1. UNCHANGED <<tasks, sessionIdToRunner, user, requests, toServer>>
  BY DEF NettyStep, handle, failOutstandingRequests, clear, WriteFails, UntouchedByNetty, sessionVars
<1>2. ASSUME NEW d \in Conn, d # c
      PROVE  Orderly(d)'
  <2>1. /\ toClient'[d] = toClient[d] /\ answers'[d] = answers[d]
        /\ outstanding'[d] = outstanding[d] /\ failing'[d] = failing[d]
    BY <1>0, <1>2 DEF NettyStep, handle, failOutstandingRequests, clear, WriteFails, CalledBack,
       ChannelTypeOK, ClientTypeOK
  <2> QED
    BY <1>0, <1>1, <2>1, Elsewhere DEF OrderlyInv
<1>3. Orderly(c) /\ Known(c) /\ InOnePlace(c)
  BY DEF OrderlyInv, Orderly
<1>4. ASSUME NEW e, NEW reply, CalledBack(c, e, reply)
      PROVE  \A a \in answers'[c] \ answers[c] : a.id = e.id /\ a.reply = reply
  BY <1>0, <1>4 DEF CalledBack, ClientTypeOK
<1>5. CASE handle(c)
  <2> DEFINE m == Head(toClient[c])
             M == [id : RequestId, reply : Reply]
  <2>1. toClient[c] # <<>> /\ toClient' = [toClient EXCEPT ![c] = Tail(@)] /\ failing' = failing
    BY <1>5 DEF handle
  <2>2. toClient[c] \in Seq(M) /\ DOMAIN toClient = Conn /\ DOMAIN outstanding = Conn
    BY <1>0 DEF ChannelTypeOK
  <2>3. /\ Elems(toClient[c]) = Elems(Tail(toClient[c])) \cup {m}
        /\ Distinct(toClient[c]) => Distinct(Tail(toClient[c]))
    <3> HIDE DEF M
    <3> QED
      BY <2>1, <2>2, ElemsTail
  <2>4. \/ UNCHANGED <<outstanding, answers>>
        \/ \E e \in outstanding[c] :
             /\ e.id = m.id
             /\ outstanding' = [outstanding EXCEPT ![c] = @ \ {e}]
             /\ CalledBack(c, e, m.reply)
    BY <1>5 DEF handle, Listeners
  <2>5. toClient'[c] = Tail(toClient[c])
    BY <2>1, <2>2
  <2> HIDE DEF m
  <2>6. outstanding'[c] \subseteq outstanding[c]
    BY <2>2, <2>4
  <2>7. \A a \in answers'[c] \ answers[c] : a.id = m.id /\ a.reply = m.reply
    BY <1>4, <2>4
  <2>8. m.id \in 1..requests
    BY <1>3, <2>3 DEF Known
  <2> QED
    BY <1>1, <1>2, <1>3, <2>1, <2>3, <2>5, <2>6, <2>7, <2>8, OrderlyCalledBack DEF OrderlyInv, InOnePlace
<1>6. CASE failOutstandingRequests(c)
  <2>1. UNCHANGED <<toClient, outstanding, failing>>
    BY <1>6 DEF failOutstandingRequests
  <2>2. \A a \in answers'[c] \ answers[c] : ~ a.reply.ok /\ \E e \in outstanding[c] : a.id = e.id
    BY <1>0, <1>6, ReplyTypes DEF failOutstandingRequests, Answered, ClientTypeOK
  <2> QED
    BY <1>1, <1>2, <1>3, <2>1, <2>2, OrderlyCalledBack DEF OrderlyInv, InOnePlace, Known
<1>7. CASE clear(c)
  <2>1. UNCHANGED <<toClient, answers, failing>> /\ outstanding'[c] = {}
    BY <1>0, <1>7 DEF clear, ChannelTypeOK
  <2> QED
    BY <1>1, <1>2, <1>3, <2>1, OrderlyCalledBack DEF OrderlyInv, InOnePlace
<1>8. CASE WriteFails(c)
  <2>1. PICK e \in failing[c] :
          /\ failing' = [failing EXCEPT ![c] = @ \ {e}]
          /\ outstanding' = [outstanding EXCEPT ![c] = @ \ {e}]
          /\ CalledBack(c, e, Failure)
          /\ UNCHANGED toClient
    BY <1>8 DEF WriteFails
  <2>2. failing'[c] \subseteq failing[c] /\ outstanding'[c] \subseteq outstanding[c]
    BY <1>0, <2>1 DEF ChannelTypeOK
  <2>3. \A a \in answers'[c] \ answers[c] : ~ a.reply.ok /\ a.id = e.id
    BY <1>4, <2>1, ReplyTypes
  <2> QED
    BY <1>1, <1>2, <1>3, <2>1, <2>2, <2>3, OrderlyCalledBack DEF OrderlyInv, InOnePlace, Known
<1> QED
  BY <1>5, <1>6, <1>7, <1>8 DEF NettyStep

\* What sending adds to the table and to the wire.
LEMMA SendAdds ==
  ASSUME ChannelTypeOK, NEW c \in Conn, NEW req \in Request, NEW own \in BOOLEAN, send(c, req, own)
  PROVE  /\ UNCHANGED <<chan, toClient>>
         /\ \A d \in Conn : d # c => /\ toServer'[d] = toServer[d] /\ outstanding'[d] = outstanding[d]
                                     /\ failing'[d] = failing[d]
         /\ chan[c] # "open" => toServer'[c] = toServer[c]
         /\ chan[c] = "open" => failing'[c] = failing[c]
         /\ Elems(toServer'[c]) \subseteq Elems(toServer[c]) \cup {req}
         /\ Distinct(toServer[c]) /\ (\A r \in Elems(toServer[c]) : r.id # req.id) => Distinct(toServer'[c])
         /\ outstanding'[c] \subseteq outstanding[c] \cup {[id |-> req.id, own |-> own]}
         /\ failing'[c] \subseteq failing[c] \cup {[id |-> req.id, own |-> own]}
<1>1. /\ DOMAIN toServer = Conn /\ DOMAIN outstanding = Conn /\ DOMAIN failing = Conn
      /\ toServer[c] \in Seq(Request)
  BY DEF ChannelTypeOK
<1>2. /\ Elems(Append(toServer[c], req)) = Elems(toServer[c]) \cup {req}
      /\ Distinct(toServer[c]) /\ (\A r \in Elems(toServer[c]) : r.id # req.id)
           => Distinct(Append(toServer[c], req))
  BY <1>1, ElemsAppend
<1> QED
  BY <1>1, <1>2 DEF send, Writable

\* A new request: its id is of nothing else.
LEMMA OrderlySend ==
  ASSUME TypesInv, NEW c \in Conn, Orderly(c), NEW req \in Request, NEW own \in BOOLEAN,
         send(c, req, own), req.id = requests + 1, requests' = requests + 1,
         UNCHANGED <<tasks, sessionIdToRunner, answers>>,
         \/ user'[c] = user[c] /\ user[c].op \in {"execute", "next"} /\ req.kind # "OpenSession"
         \/ user'[c].op \in {"execute", "next"} /\ NoOpening(c) /\ req.kind # "OpenSession"
         \/ /\ user'[c] = [op |-> "opensession", id |-> req.id]
            /\ NoOpening(c) /\ req.kind = "OpenSession"
         \/ /\ user'[c] = [op |-> "closesession", id |-> req.id]
            /\ NoOpening(c) /\ req.kind = "CloseSession"
  PROVE  Orderly(c)'
<1>0. ChannelTypeOK /\ requests \in Nat
  BY DEF TypesInv, JdbcTypeOK, ClientTypeOK
<1>1. /\ UNCHANGED toClient
      /\ Elems(toServer'[c]) \subseteq Elems(toServer[c]) \cup {req}
      /\ Distinct(toServer[c]) /\ (\A r \in Elems(toServer[c]) : r.id # req.id) => Distinct(toServer'[c])
      /\ outstanding'[c] \subseteq outstanding[c] \cup {[id |-> req.id, own |-> own]}
      /\ failing'[c] \subseteq failing[c] \cup {[id |-> req.id, own |-> own]}
  BY <1>0, SendAdds
<1>2. /\ \A n : n \in 1..requests => n \in 1..requests' /\ n # req.id
      /\ req.id \in 1..requests'
  BY <1>0
<1>3. Known(c)'
  <2>1. \A x \in Elems(toServer'[c]) \cup Elems(toClient'[c]) : x.id \in 1..requests'
    BY <1>1, <1>2 DEF Orderly, Known
  <2>2. \A x \in answers'[c] \cup outstanding'[c] \cup failing'[c] : x.id \in 1..requests'
    BY <1>1, <1>2 DEF Orderly, Known
  <2>3. \A t \in tasks' : t.conn = c => t.id \in 1..requests'
    BY <1>2 DEF Orderly, Known
  <2> QED
    BY <2>1, <2>2, <2>3 DEF Known
<1>4. /\ \A x \in Elems(toServer[c]) \cup Elems(toClient[c]) \cup answers[c] : x.id # req.id
      /\ \A t \in tasks : t.conn = c => t.id # req.id
  BY <1>2 DEF Orderly, Known
<1>5. InOnePlace(c)'
  BY <1>1, <1>4 DEF Orderly, InOnePlace
<1>6. NoOpening(c)
  BY DEF Orderly, OpensOnce
<1>7. OpensOnce(c)'
  BY <1>1, <1>4, <1>6 DEF OpensOnce, NoOpening
<1>8. Closes(c)'
  BY <1>1, <1>4 DEF Closes
<1> QED
  BY <1>3, <1>5, <1>7, <1>8 DEF Orderly

\* A call that returns, the channel shut or not.
LEMMA OrderlyReturn ==
  ASSUME NEW c, Orderly(c), UNCHANGED <<tasks, sessionIdToRunner, requests, outstanding, failing>>,
         answers'[c] \subseteq answers[c],
         \/ toServer'[c] = toServer[c] /\ toClient'[c] = toClient[c]
         \/ toServer'[c] = <<>> /\ toClient'[c] = <<>>,
         \/ user'[c] = user[c]
         \/ /\ user'[c].op \in Idle
            /\ user'[c].op = "closed" => c \notin sessionIdToRunner
            /\ user'[c].op = "gone" \/ NoOpening(c)
  PROVE  Orderly(c)'
<1>1. /\ Elems(toServer'[c]) \subseteq Elems(toServer[c]) /\ Elems(toClient'[c]) \subseteq Elems(toClient[c])
      /\ Distinct(toServer[c]) => Distinct(toServer'[c])
      /\ Distinct(toClient[c]) => Distinct(toClient'[c])
  BY ElemsEmpty
<1>2. Known(c)'
  <2>1. \A x \in Elems(toServer'[c]) \cup Elems(toClient'[c]) : x.id \in 1..requests
    BY <1>1 DEF Orderly, Known
  <2> QED
    BY <2>1 DEF Orderly, Known
<1>3. InOnePlace(c)'
  BY <1>1 DEF Orderly, InOnePlace
<1>4. NoOpening(c) => NoOpening(c)'
  BY <1>1 DEF NoOpening
<1>5. OpensOnce(c)'
  BY <1>1, <1>4 DEF Orderly, OpensOnce, Idle
<1>6. Closes(c)'
  BY <1>1 DEF Orderly, Closes, Idle
<1> QED
  BY <1>2, <1>3, <1>5, <1>6 DEF Orderly

LEMMA OrderlyUser ==
  ASSUME TypesInv, OrderlyInv, NEW c \in Conn, UserStep(c)
  PROVE  OrderlyInv'
<1>0. ChannelTypeOK /\ ClientTypeOK /\ requests \in Nat /\ DOMAIN user = Conn
  BY DEF TypesInv, JdbcTypeOK, ClientTypeOK
<1>1. UNCHANGED <<tasks, sessionIdToRunner>>
  BY DEF UserStep, createClient, opensession, fetchMoreData, close, execute, Returned, SyncReturned,
     TimesOut, sessionVars
<1>2. requests' \in {requests, requests + 1}
  BY DEF UserStep, createClient, opensession, fetchMoreData, close, execute, Returned, SyncReturned,
     TimesOut, Call
<1>3. ASSUME NEW d \in Conn, d # c
      PROVE  Orderly(d)'
  <2>1. user'[d] = user[d]
    BY <1>0, <1>3 DEF UserStep, createClient, opensession, fetchMoreData, close, execute, Returned,
       SyncReturned, TimesOut, Call, Return
  <2>2. answers'[d] = answers[d]
    BY <1>0, <1>3 DEF UserStep, createClient, opensession, fetchMoreData, close, execute, Returned,
       SyncReturned, TimesOut, ClientTypeOK
  <2>3. \/ UNCHANGED <<outstanding, failing, toServer, toClient>>
        \/ \E how : shut(c, how) /\ UNCHANGED <<outstanding, failing>>
        \/ \E req, own : send(c, req, own)
    BY DEF UserStep, createClient, opensession, fetchMoreData, close, execute, Returned, SyncReturned,
       TimesOut, Call, channelVars
  <2>4. /\ toServer'[d] = toServer[d] /\ toClient'[d] = toClient[d]
        /\ outstanding'[d] = outstanding[d] /\ failing'[d] = failing[d]
    BY <1>0, <1>3, <2>3 DEF shut, send, ChannelTypeOK
  <2>5. requests' \in Nat /\ requests <= requests'
    BY <1>0, <1>2
  <2> QED
    BY <1>0, <1>1, <2>1, <2>2, <2>4, <2>5, Elsewhere DEF OrderlyInv
<1>4. Orderly(c) /\ (user[c].op \notin {"opensession", "gone"} => NoOpening(c))
  BY DEF OrderlyInv, Orderly, OpensOnce
<1>5. requests + 1 \in RequestId
  BY <1>0 DEF RequestId
<1>6. ASSUME NEW op, NEW req, NEW own, Call(c, op, req, own)
      PROVE  /\ user'[c] = [op |-> op, id |-> req.id] /\ send(c, req, own)
             /\ req.id = requests + 1 /\ requests' = requests + 1
  BY <1>0, <1>6 DEF Call
<1>7. ASSUME NEW op, Return(c, op)
      PROVE  user'[c].op = op
  BY <1>0, <1>7 DEF Return
<1>8. CASE createClient(c)
  <2>1. user[c].op = "new" /\ user'[c].op = "connected"
    BY <1>7, <1>8 DEF createClient
  <2>2. UNCHANGED <<outstanding, failing, toServer, toClient, requests, answers>>
    BY <1>8 DEF createClient
  <2>3. Orderly(c)'
    BY <1>1, <1>4, <2>1, <2>2, OrderlyReturn DEF Idle
  <2> QED
    BY <1>3, <2>3 DEF OrderlyInv
<1>9. CASE opensession(c)
  <2> DEFINE req == [id |-> requests + 1, kind |-> "OpenSession"]
  <2>1. req \in Request /\ req.kind = "OpenSession"
    BY <1>5 DEF Request
  <2>2. user[c].op = "connected" /\ Call(c, "opensession", req, TRUE) /\ UNCHANGED answers
    BY <1>9 DEF opensession
  <2> HIDE DEF req
  <2>3. Orderly(c)'
    BY <1>1, <1>4, <1>6, <2>1, <2>2, OrderlySend
  <2> QED
    BY <1>3, <2>3 DEF OrderlyInv
<1>10. ASSUME NEW b \in Batch, execute(c, b)
       PROVE  OrderlyInv'
  <2> DEFINE req == [id |-> requests + 1, kind |-> "Execute", batch |-> b]
  <2>1. req \in Request /\ req.kind # "OpenSession"
    BY <1>5 DEF Request
  <2>2. user[c].op = "ready" /\ Call(c, "execute", req, FALSE) /\ UNCHANGED answers
    BY <1>10 DEF execute
  <2> HIDE DEF req
  <2>3. /\ user'[c].op \in {"execute", "next"} /\ send(c, req, FALSE) /\ NoOpening(c)
        /\ req.id = requests + 1 /\ requests' = requests + 1
    <3>1. /\ user'[c] = [op |-> "execute", id |-> req.id] /\ send(c, req, FALSE)
          /\ req.id = requests + 1 /\ requests' = requests + 1
      BY <1>6, <2>2
    <3>2. NoOpening(c)
      BY <1>4, <2>2
    <3>3. user'[c].op \in {"execute", "next"}
      BY <3>1
    <3> QED
      BY <3>1, <3>2, <3>3
  <2>4. Orderly(c)'
    BY <1>1, <1>4, <2>1, <2>2, <2>3, OrderlySend
  <2> QED
    BY <1>3, <2>4 DEF OrderlyInv
<1>11. CASE fetchMoreData(c)
  <2> DEFINE req == [id |-> requests + 1, kind |-> "ExecuteResult"]
  <2>1. req \in Request /\ req.kind # "OpenSession"
    BY <1>5 DEF Request
  <2>2. user[c].op = "ready" /\ Call(c, "next", req, FALSE) /\ UNCHANGED answers
    BY <1>11 DEF fetchMoreData
  <2> HIDE DEF req
  <2>3. /\ user'[c].op \in {"execute", "next"} /\ send(c, req, FALSE) /\ NoOpening(c)
        /\ req.id = requests + 1 /\ requests' = requests + 1
    <3>1. /\ user'[c] = [op |-> "next", id |-> req.id] /\ send(c, req, FALSE)
          /\ req.id = requests + 1 /\ requests' = requests + 1
      BY <1>6, <2>2
    <3>2. NoOpening(c)
      BY <1>4, <2>2
    <3>3. user'[c].op \in {"execute", "next"}
      BY <3>1
    <3> QED
      BY <3>1, <3>2, <3>3
  <2>4. Orderly(c)'
    BY <1>1, <1>4, <2>1, <2>2, <2>3, OrderlySend
  <2> QED
    BY <1>3, <2>4 DEF OrderlyInv
<1>12. CASE close(c)
  <2> DEFINE req == [id |-> requests + 1, kind |-> "CloseSession"]
  <2>1. req \in Request /\ req.kind = "CloseSession"
    BY <1>5 DEF Request
  <2>2. user[c].op = "ready" /\ UNCHANGED answers
    BY <1>12 DEF close
  <2>3. CASE Call(c, "closesession", req, TRUE)
    <3> HIDE DEF req
    <3>1. Orderly(c)'
      BY <1>1, <1>4, <1>6, <2>1, <2>2, <2>3, OrderlySend
    <3> QED
      BY <1>3, <3>1 DEF OrderlyInv
  <2>4. CASE Return(c, "gone") /\ UNCHANGED <<channelVars, requests>>
    <3>1. Orderly(c)'
      BY <1>1, <1>4, <1>7, <2>2, <2>4, OrderlyReturn DEF Idle, channelVars
    <3> QED
      BY <1>3, <3>1 DEF OrderlyInv
  <2> QED
    BY <1>12, <2>3, <2>4 DEF close
<1>13. CASE Returned(c)
  <2>1. user[c].op \in {"execute", "next"} /\ user'[c].op = "ready"
    BY <1>7, <1>13 DEF Returned
  <2>2. UNCHANGED <<outstanding, failing, toServer, toClient, requests, answers>>
    BY <1>13 DEF Returned, channelVars
  <2>3. Orderly(c)'
    BY <1>1, <1>4, <2>1, <2>2, OrderlyReturn DEF Idle
  <2> QED
    BY <1>3, <2>3 DEF OrderlyInv
<1>14. CASE SyncReturned(c)
  <2>1. PICK a \in answers[c] :
          /\ a.id = user[c].id
          /\ answers' = [answers EXCEPT ![c] = @ \ {a}]
          /\ \/ user[c].op = "opensession" /\ Return(c, IF a.reply.ok THEN "ready" ELSE "gone")
             \/ user[c].op = "closesession" /\ a.reply.ok /\ Return(c, "closed")
             \/ user[c].op = "closesession" /\ ~ a.reply.ok /\ Return(c, "ready")
    BY <1>14 DEF SyncReturned
  <2>2. /\ UNCHANGED <<outstanding, failing, requests>>
        /\ shut(c, "broken") \/ UNCHANGED <<chan, toServer, toClient>>
    BY <1>14 DEF SyncReturned
  <2>3. \/ toServer'[c] = toServer[c] /\ toClient'[c] = toClient[c]
        \/ toServer'[c] = <<>> /\ toClient'[c] = <<>>
    BY <1>0, <2>2 DEF shut, ChannelTypeOK
  <2>4. answers'[c] \subseteq answers[c]
    BY <1>0, <2>1 DEF ClientTypeOK
  <2>5. /\ user'[c].op \in Idle
        /\ user'[c].op = "closed" => c \notin sessionIdToRunner
        /\ user'[c].op = "gone" \/ NoOpening(c)
    <3>1. CASE user[c].op = "opensession" /\ Return(c, IF a.reply.ok THEN "ready" ELSE "gone")
      BY <1>4, <1>7, <2>1, <3>1 DEF Orderly, OpensOnce, Idle
    <3>2. CASE user[c].op = "closesession" /\ a.reply.ok /\ Return(c, "closed")
      BY <1>4, <1>7, <2>1, <3>2 DEF Orderly, Closes, Idle
    <3>3. CASE user[c].op = "closesession" /\ ~ a.reply.ok /\ Return(c, "ready")
      BY <1>4, <1>7, <3>3 DEF Idle
    <3> QED
      BY <2>1, <3>1, <3>2, <3>3
  <2>6. Orderly(c)'
    BY <1>1, <1>4, <2>2, <2>3, <2>4, <2>5, OrderlyReturn
  <2> QED
    BY <1>3, <2>6 DEF OrderlyInv
<1>15. CASE TimesOut(c)
  <2>1. /\ user'[c].op = IF user[c].op = "opensession" THEN "gone" ELSE "ready"
        /\ user[c].op \in Waiting
    BY <1>7, <1>15 DEF TimesOut, Waiting
  <2>2. UNCHANGED <<outstanding, failing, toServer, toClient, requests, answers>>
    BY <1>15 DEF TimesOut, channelVars
  <2>3. Orderly(c)'
    BY <1>1, <1>4, <2>1, <2>2, OrderlyReturn DEF Idle, Waiting
  <2> QED
    BY <1>3, <2>3 DEF OrderlyInv
<1> QED
  BY <1>8, <1>9, <1>10, <1>11, <1>12, <1>13, <1>14, <1>15 DEF UserStep

LEMMA OrderlyCancel ==
  ASSUME TypesInv, OrderlyInv, NEW c \in Conn, CancelStep(c)
  PROVE  OrderlyInv'
<1>0. ChannelTypeOK /\ ClientTypeOK /\ requests \in Nat
  BY DEF TypesInv, JdbcTypeOK, ClientTypeOK
<1>1. UNCHANGED <<tasks, sessionIdToRunner, user>>
  BY DEF CancelStep, cancel, CancelReturned, CancelsResult, sessionVars
<1>2. ASSUME NEW d \in Conn, d # c
      PROVE  Orderly(d)'
  <2>1. \/ UNCHANGED <<outstanding, failing, toServer, toClient>>
        \/ \E req, own : send(c, req, own)
    BY DEF CancelStep, cancel, CancelReturned, CancelsResult, channelVars
  <2>2. /\ toServer'[d] = toServer[d] /\ toClient'[d] = toClient[d]
        /\ outstanding'[d] = outstanding[d] /\ failing'[d] = failing[d]
    BY <1>0, <1>2, <2>1 DEF send, ChannelTypeOK
  <2>3. answers'[d] = answers[d]
    BY <1>0, <1>2 DEF CancelStep, cancel, CancelReturned, CancelsResult, ClientTypeOK
  <2>4. requests' \in {requests, requests + 1}
    BY DEF CancelStep, cancel, CancelReturned, CancelsResult
  <2>5. requests' \in Nat /\ requests <= requests'
    BY <1>0, <2>4
  <2> QED
    BY <1>0, <1>1, <2>2, <2>3, <2>5, Elsewhere DEF OrderlyInv
<1>3. Orderly(c)
  BY DEF OrderlyInv
<1>4. CASE cancel(c)
  <2> DEFINE req == [id |-> requests + 1, kind |-> "ExecuteCancel"]
  <2>1. req \in Request /\ req.kind # "OpenSession" /\ req.id = requests + 1
    BY <1>0 DEF Request, RequestId
  <2>2. /\ user[c].op \in {"execute", "next"} /\ send(c, req, TRUE) /\ requests' = requests + 1
        /\ UNCHANGED answers
    BY <1>4 DEF cancel
  <2> HIDE DEF req
  <2>3. Orderly(c)'
    BY <1>1, <1>3, <2>1, <2>2, OrderlySend
  <2> QED
    BY <1>2, <2>3 DEF OrderlyInv
<1>5. CASE CancelReturned(c) \/ CancelsResult(c)
  <2>1. UNCHANGED <<outstanding, failing, toServer, toClient, requests>>
    BY <1>5 DEF CancelReturned, CancelsResult, channelVars
  <2>2. answers'[c] \subseteq answers[c]
    BY <1>0, <1>5 DEF CancelReturned, CancelsResult, ClientTypeOK
  <2>3. Orderly(c)'
    BY <1>1, <1>3, <2>1, <2>2, OrderlyReturn
  <2> QED
    BY <1>2, <2>3 DEF OrderlyInv
<1> QED
  BY <1>4, <1>5 DEF CancelStep

LEMMA OrderlyBreaks ==
  ASSUME TypesInv, OrderlyInv, NEW c \in Conn, Breaks(c)
  PROVE  OrderlyInv'
<1>0. ChannelTypeOK /\ requests \in Nat
  BY DEF TypesInv, JdbcTypeOK, ClientTypeOK
<1>1. /\ UNCHANGED <<tasks, sessionIdToRunner, user, requests, answers, outstanding, failing>>
      /\ \E how : shut(c, how)
  BY DEF Breaks, ChannelBreaks, sessionVars
<1>2. /\ toServer'[c] = <<>> /\ toClient'[c] = <<>>
      /\ \A d \in Conn : d # c => toServer'[d] = toServer[d] /\ toClient'[d] = toClient[d]
  BY <1>0, <1>1 DEF shut, ChannelTypeOK
<1>3. Orderly(c)'
  BY <1>1, <1>2, OrderlyReturn DEF OrderlyInv
<1>4. \A d \in Conn : d # c => Orderly(d)'
  BY <1>0, <1>1, <1>2, Elsewhere DEF OrderlyInv
<1> QED
  BY <1>3, <1>4 DEF OrderlyInv

\* The application takes a request: it becomes a task or an answer.
LEMMA OrderlyReceives ==
  ASSUME TypesInv, OrderlyInv, NEW c \in Conn, Receives(c)
  PROVE  OrderlyInv'
<1> DEFINE req == Head(toServer[c])
<1>0. ChannelTypeOK /\ requests \in Nat
  BY DEF TypesInv, JdbcTypeOK, ClientTypeOK
<1>1. /\ UNCHANGED <<outstanding, failing, user, requests, answers>>
      /\ toServer[c] # <<>> /\ toServer' = [toServer EXCEPT ![c] = Tail(@)]
  BY DEF Receives, receive, clientVars
<1>2. /\ toServer'[c] = Tail(toServer[c])
      /\ \A d \in Conn : d # c => toServer'[d] = toServer[d]
  BY <1>0, <1>1 DEF ChannelTypeOK
<1>3. /\ req \in Request /\ req.id \in RequestId
      /\ Elems(toServer[c]) = Elems(toServer'[c]) \cup {req}
      /\ Distinct(toServer[c]) =>
           Distinct(toServer'[c]) /\ \A r \in Elems(toServer'[c]) : r.id # req.id
  <2>1. toServer[c] \in Seq(Request)
    BY <1>0 DEF ChannelTypeOK
  <2>2. /\ req \in Request
        /\ Elems(toServer[c]) = Elems(Tail(toServer[c])) \cup {req}
        /\ Distinct(toServer[c]) =>
             Distinct(Tail(toServer[c])) /\ \A r \in Elems(Tail(toServer[c])) : r.id # req.id
    BY <1>1, <2>1, ElemsTail
  <2> QED
    BY <1>2, <2>2 DEF Request
<1>4. Orderly(c) /\ Known(c) /\ InOnePlace(c) /\ OpensOnce(c) /\ Closes(c)
  BY DEF OrderlyInv, Orderly
<1> HIDE DEF req
<1>6. ASSUME NEW phase, NEW batch, Start(c, req, phase, batch), req.kind # "CloseSession",
             phase = "open" => req.kind = "OpenSession", UNCHANGED <<toClient, sessionIdToRunner>>
      PROVE  OrderlyInv'
  <2> DEFINE new == [conn |-> c, id |-> req.id, sid |-> sessionIdOf(c), phase |-> phase,
                     left |-> IF batch = None THEN <<>> ELSE batch.sqls, batch |-> batch, rows |-> <<>>]
  <2>0. new.conn = c /\ new.id = req.id /\ new.phase = phase
    OBVIOUS
  <2>1. tasks' = tasks \cup {new} /\ new.conn = c /\ new.id = req.id /\ new.phase = phase
    BY <1>6, <2>0 DEF Start
  <2> HIDE DEF new
  <2>2. \A d \in Conn : d # c => Orderly(d)'
    BY <1>0, <1>1, <1>2, <1>6, <2>1, Elsewhere DEF OrderlyInv
  <2>3. Known(c)'
    <3>1. \A t \in tasks' : t.conn = c => t.id \in 1..requests
      BY <1>3, <1>4, <2>1 DEF Known
    <3> QED
      BY <1>1, <1>3, <1>4, <1>6, <3>1 DEF Known
  <2>4. InOnePlace(c)'
    BY <1>3, <1>4, <1>6, <2>1 DEF InOnePlace
  <2>5. NoOpening(c) => NoOpening(c)'
    BY <1>3, <1>6, <2>1 DEF NoOpening
  <2>6. OpensOnce(c)'
    BY <1>1, <1>3, <1>4, <1>6, <2>1, <2>5 DEF OpensOnce
  <2>7. Closes(c)'
    BY <1>1, <1>3, <1>4, <1>6, <2>1 DEF Closes
  <2> QED
    BY <2>2, <2>3, <2>4, <2>6, <2>7 DEF OrderlyInv, Orderly
<1>7. ASSUME NEW reply \in {Success(<<>>, FALSE), Failure}, Respond(c, req.id, reply), UNCHANGED tasks,
             sessionIdToRunner' \in {sessionIdToRunner, sessionIdToRunner \ {c}},
             req.kind = "CloseSession" => sessionIdToRunner' = sessionIdToRunner \ {c}
      PROVE  OrderlyInv'
  <2> DEFINE m == [id |-> req.id, reply |-> reply]
  <2>1. reply \in Reply
    BY <1>7, ReplyTypes, EmptySeq
  <2>2. /\ \A d \in Conn : d # c => toClient'[d] = toClient[d]
        /\ Elems(toClient'[c]) \subseteq Elems(toClient[c]) \cup {m}
        /\ Distinct(toClient[c]) /\ (\A x \in Elems(toClient[c]) : x.id # req.id) => Distinct(toClient'[c])
    BY <1>0, <1>3, <1>7, <2>1, RespondAdds
  <2>3. m.id = req.id
    OBVIOUS
  <2> HIDE DEF m
  <2>4. \A d \in Conn : d # c => Orderly(d)'
    BY <1>0, <1>1, <1>2, <1>7, <2>2, Elsewhere DEF OrderlyInv
  <2>5. Known(c)'
    <3>1. \A x \in Elems(toServer'[c]) \cup Elems(toClient'[c]) : x.id \in 1..requests
      BY <1>3, <1>4, <2>2, <2>3 DEF Known
    <3> QED
      BY <1>1, <1>4, <1>7, <3>1 DEF Known
  <2>6. InOnePlace(c)'
    BY <1>3, <1>4, <1>7, <2>2, <2>3 DEF InOnePlace
  <2>7. NoOpening(c) => NoOpening(c)'
    BY <1>3, <1>7 DEF NoOpening
  <2>8. OpensOnce(c)'
    BY <1>1, <1>3, <1>4, <1>7, <2>7 DEF OpensOnce
  <2>9. Closes(c)'
    BY <1>1, <1>3, <1>4, <1>7, <2>2, <2>3 DEF Closes
  <2> QED
    BY <2>4, <2>5, <2>6, <2>8, <2>9 DEF OrderlyInv, Orderly
<1>8. CASE SessionLost(c, req) /\ req.kind # "CloseSession"
  BY <1>7, <1>8 DEF SessionLost, sessionVars
<1>9. CASE req.kind = "OpenSession" /\ handleOpenSession(c, req)
  BY <1>6, <1>9 DEF handleOpenSession
<1>10. CASE req.kind = "CloseSession" /\ handleCloseSession(c, req)
  BY <1>7, <1>10 DEF handleCloseSession, sessionIdOf, newSessionId
<1>11. CASE req.kind = "Execute" /\ handleExecute(c, req)
  BY <1>6, <1>8, <1>11 DEF handleExecute
<1>12. CASE req.kind = "ExecuteResult" /\ handleExecuteResult(c, req)
  BY <1>6, <1>8, <1>12 DEF handleExecuteResult
<1>13. CASE req.kind = "ExecuteCancel" /\ handleExecuteCancel(c, req)
  BY <1>7, <1>8, <1>13 DEF handleExecuteCancel, sessionVars
<1> QED
  BY <1>9, <1>10, <1>11, <1>12, <1>13 DEF Receives, receive, req

\* A step of a task keeps its id, or answers with it.
LEMMA OrderlyRuns ==
  ASSUME TypesInv, OwnInv, OrderlyInv, NEW t \in tasks, Runs(t)
  PROVE  OrderlyInv'
<1> DEFINE c == t.conn
<1>0. /\ ChannelTypeOK /\ requests \in Nat
      /\ t \in Task /\ c \in Conn /\ t.id \in RequestId /\ t.sid = c
      /\ t.left \in Seq(Stmt) /\ t.rows \in Seq(Row) /\ Shaped(t)
  BY DEF TypesInv, JdbcTypeOK, ClientTypeOK, SessionsTypeOK, OwnInv, Task
<1>1. UNCHANGED <<outstanding, failing, toServer, user, requests, answers>>
  BY DEF Runs, TaskStep, SessionOpens, TaskFails, QueryStarts, CommandRuns, StatementRuns,
     StatementAnswers, FetchRow, FetchEnds, Quietly, clientVars
<1>2. \/ \E u : /\ Replace(t, u) /\ u.conn = c /\ u.id = t.id /\ u.phase # "open"
                /\ UNCHANGED <<toClient, sessionIdToRunner>>
      \/ \E reply \in Reply :
           /\ Finish(t, reply)
           /\ \/ UNCHANGED sessionIdToRunner
              \/ t.phase = "open" /\ sessionIdToRunner' = sessionIdToRunner \cup {c}
  <2>1. /\ Failure \in Reply
        /\ \A more \in BOOLEAN : Success(<<>>, more) \in Reply /\ Success(t.rows, more) \in Reply
    BY <1>0, ReplyTypes, EmptySeq
  <2>2. CASE SessionOpens(t) \/ TaskFails(t)
    BY <2>1, <2>2 DEF SessionOpens, TaskFails, newSessionId
  <2>3. CASE QueryStarts(t)
    <3> DEFINE u == [t EXCEPT !.phase = "run"]
    <3>1. u.conn = c /\ u.id = t.id /\ u.phase # "open"
      BY <1>0 DEF Task
    <3> QED
      BY <2>3, <3>1 DEF QueryStarts
  <2>4. CASE CommandRuns(t)
    <3>1. UNCHANGED sessionIdToRunner /\ t.phase = "run"
      BY <2>4 DEF CommandRuns
    <3>2. CASE Len(t.left) = 1
      <4> DEFINE s == t.left[1]
                 k == rowsOf[s]
      <4>1. s \in Stmt
        BY <1>0, <3>2, ElementOfSeq
      <4>2. k \in Nat
        BY <4>1, SessionsAssumption
      <4>3. Finish(t, Success(Rows(c, s, k), FALSE))
        BY <2>4, <3>2 DEF CommandRuns
      <4> HIDE DEF s, k
      <4>4. Success(Rows(c, s, k), FALSE) \in Reply
        BY <1>0, <4>1, <4>2, RowsType, ReplyTypes
      <4> QED
        BY <3>1, <4>3, <4>4
    <3>3. CASE Len(t.left) # 1
      <4> DEFINE u == [t EXCEPT !.left = Tail(t.left)]
      <4>1. u.conn = c /\ u.id = t.id /\ u.phase # "open"
        BY <1>0, <3>1 DEF Task
      <4>2. Replace(t, u) /\ UNCHANGED toClient
        BY <2>4, <3>3 DEF CommandRuns
      <4> QED
        BY <3>1, <4>1, <4>2
    <3> QED
      BY <3>2, <3>3
  <2>5. CASE StatementRuns(t)
    <3> DEFINE u == [t EXCEPT !.phase = "assigned"]
    <3>1. u.conn = c /\ u.id = t.id /\ u.phase # "open"
      BY <1>0 DEF Task
    <3> QED
      BY <2>5, <3>1 DEF StatementRuns
  <2>6. CASE StatementAnswers(t)
    <3> DEFINE u == [t EXCEPT !.phase = "run", !.left = Tail(t.left)]
    <3>1. u.conn = c /\ u.id = t.id /\ u.phase # "open"
      BY <1>0 DEF Task
    <3>2. \/ Finish(t, Failure) \/ Finish(t, Success(<<>>, runner[t.sid].currentData # <<>>))
          \/ Replace(t, u) /\ UNCHANGED toClient
      BY <2>6 DEF StatementAnswers
    <3>3. UNCHANGED sessionIdToRunner
      BY <2>6 DEF StatementAnswers
    <3> HIDE DEF u
    <3> QED
      BY <2>1, <3>1, <3>2, <3>3
  <2>7. CASE FetchRow(t)
    <3> DEFINE u == [t EXCEPT !.rows = Append(t.rows, Head(runner[t.sid].currentData))]
    <3>1. u.conn = c /\ u.id = t.id /\ u.phase # "open"
      BY <1>0, <2>7 DEF Task, FetchRow
    <3>2. Replace(t, u) /\ UNCHANGED <<toClient, sessionIdToRunner>>
      BY <2>7 DEF FetchRow
    <3> QED
      BY <3>1, <3>2
  <2>8. CASE FetchEnds(t)
    <3>1. \/ Finish(t, Failure)
          \/ Finish(t, Success(t.rows, hasNext(runner[t.sid])))
      BY <2>8 DEF FetchEnds
    <3>2. hasNext(runner[t.sid]) \in BOOLEAN /\ UNCHANGED sessionIdToRunner
      BY <2>8 DEF hasNext, FetchEnds
    <3> QED
      BY <2>1, <3>1, <3>2
  <2> QED
    BY <2>2, <2>3, <2>4, <2>5, <2>6, <2>7, <2>8 DEF Runs, TaskStep
<1> HIDE DEF c
<1>3. c = t.conn /\ Orderly(c) /\ Known(c) /\ InOnePlace(c) /\ OpensOnce(c) /\ Closes(c)
  BY <1>0 DEF OrderlyInv, Orderly, c
<1>4. ASSUME NEW u, Replace(t, u), u.conn = c, u.id = t.id, u.phase # "open",
             UNCHANGED <<toClient, sessionIdToRunner>>
      PROVE  OrderlyInv'
  <2>1. \A d \in Conn : d # c => Orderly(d)'
    BY <1>0, <1>1, <1>3, <1>4, Elsewhere DEF OrderlyInv, Replace
  <2>2. Known(c)'
    BY <1>1, <1>3, <1>4 DEF Known, Replace
  <2>3. InOnePlace(c)'
    BY <1>1, <1>3, <1>4 DEF InOnePlace, Replace
  <2>4. NoOpening(c) => NoOpening(c)'
    BY <1>1, <1>4 DEF NoOpening, Replace
  <2>5. OpensOnce(c)'
    BY <1>1, <1>3, <1>4, <2>4 DEF OpensOnce, Replace
  <2>6. Closes(c)'
    BY <1>1, <1>3, <1>4 DEF Closes, Replace
  <2> QED
    BY <2>1, <2>2, <2>3, <2>5, <2>6 DEF OrderlyInv, Orderly
<1>5. ASSUME NEW reply \in Reply, Finish(t, reply),
             \/ UNCHANGED sessionIdToRunner
             \/ t.phase = "open" /\ sessionIdToRunner' = sessionIdToRunner \cup {c}
      PROVE  OrderlyInv'
  <2> DEFINE m == [id |-> t.id, reply |-> reply]
  <2>1. tasks' = tasks \ {t} /\ (Respond(c, t.id, reply) \/ UNCHANGED toClient)
    BY <1>3, <1>5 DEF Finish
  <2>2. /\ \A d \in Conn : d # c => toClient'[d] = toClient[d]
        /\ Elems(toClient'[c]) \subseteq Elems(toClient[c]) \cup {m}
        /\ Distinct(toClient[c]) /\ (\A x \in Elems(toClient[c]) : x.id # t.id) => Distinct(toClient'[c])
    BY <1>0, <1>5, <2>1, RespondAdds
  <2>3. m.id = t.id
    OBVIOUS
  <2> HIDE DEF m
  <2>4. \A d \in Conn : d # c => Orderly(d)'
    BY <1>0, <1>1, <1>3, <1>5, <2>1, <2>2, Elsewhere DEF OrderlyInv
  <2>5. Known(c)'
    <3>1. \A x \in Elems(toServer'[c]) \cup Elems(toClient'[c]) : x.id \in 1..requests
      BY <1>1, <1>3, <2>2, <2>3 DEF Known
    <3> QED
      BY <1>1, <1>3, <2>1, <3>1 DEF Known
  <2>6. InOnePlace(c)'
    BY <1>1, <1>3, <2>1, <2>2, <2>3 DEF InOnePlace
  <2>7. NoOpening(c) => NoOpening(c)'
    BY <1>1, <2>1 DEF NoOpening
  <2>8. OpensOnce(c)'
    BY <1>1, <1>3, <2>1, <2>7 DEF OpensOnce
  <2>9. t.phase = "open" => user[c].op \in {"opensession", "gone"}
    BY <1>3 DEF OpensOnce, NoOpening
  <2>10. Closes(c)'
    BY <1>1, <1>3, <1>5, <2>1, <2>2, <2>3, <2>9 DEF Closes
  <2> QED
    BY <2>4, <2>5, <2>6, <2>8, <2>10 DEF OrderlyInv, Orderly
<1> QED
  BY <1>2, <1>4, <1>5

LEMMA OrderlyInit == JdbcInit => OrderlyInv
<1>1. ASSUME JdbcInit, NEW c \in Conn
      PROVE  Orderly(c)
  <2>1. /\ toServer[c] = <<>> /\ toClient[c] = <<>> /\ answers[c] = {} /\ outstanding[c] = {}
        /\ failing[c] = {} /\ tasks = {} /\ user[c].op = "new"
    BY <1>1 DEF JdbcInit, ChannelInit, SessionsInit
  <2>2. Elems(toServer[c]) = {} /\ Elems(toClient[c]) = {} /\ Distinct(toServer[c]) /\ Distinct(toClient[c])
    BY <2>1, ElemsEmpty
  <2> QED
    BY <2>1, <2>2 DEF Orderly, Known, InOnePlace, OpensOnce, NoOpening, Closes
<1> QED
  BY <1>1 DEF OrderlyInv

LEMMA OrderlyStep ==
  ASSUME TypesInv, OwnInv, OrderlyInv, [JdbcNext]_jdbcVars
  PROVE  OrderlyInv'
<1>1. CASE UNCHANGED jdbcVars
  <2>1. /\ UNCHANGED <<toServer, toClient, answers, outstanding, failing, user, tasks, sessionIdToRunner, requests>>
        /\ requests \in Nat
    BY <1>1 DEF jdbcVars, channelVars, sessionVars, clientVars, TypesInv, JdbcTypeOK, ClientTypeOK
  <2> QED
    BY <2>1, Elsewhere DEF OrderlyInv
<1> QED
  BY <1>1, OrderlyNetty, OrderlyUser, OrderlyCancel, OrderlyBreaks, OrderlyReceives, OrderlyRuns DEF JdbcNext

LEMMA SessionsAlways == JdbcSpec => [](TypesInv /\ OwnInv /\ OrderlyInv)
<1>1. TypesInv /\ OwnInv /\ [JdbcNext]_jdbcVars => OwnInv'
  BY OwnStep
<1>2. TypesInv /\ OwnInv /\ OrderlyInv /\ [JdbcNext]_jdbcVars => OrderlyInv'
  BY OrderlyStep
<1> QED
  BY <1>1, <1>2, OwnInit, OrderlyInit, TypesAlways, PTL DEF JdbcSpec

\* A session whose CloseSession has been answered is gone from the application, and one whose
\* client knows it to be open is not opened again, for any number of connections and requests:
\* whatever was given up, cancelled or is still on the wire, a closed session stays closed.
\* (Not one whose client found its channel inactive: close() sends nothing then.)
THEOREM ClosedStaysClosed == JdbcSpec => []ClosedForGood
<1>1. TypesInv /\ OwnInv /\ OrderlyInv => ClosedForGood
  BY DEF OrderlyInv, Orderly, OpensOnce, NoOpening, Closes, ClosedForGood, newSessionId
<1> QED
  BY <1>1, SessionsAlways, PTL
=============================================================================
