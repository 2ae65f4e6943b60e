----------------------------- MODULE JdbcClient -----------------------------
(***************************************************************************)
(* The JDBC driver on top of the transport and the sessions.               *)
(*                                                                         *)
(* One thread uses a connection: it opens the session, executes batches,   *)
(* walks through result sets, and closes; it may go on after an error, as  *)
(* JDBC lets it.  A second thread may call Statement.cancel meanwhile.     *)
(* Netty's thread calls back.  A call waits on a future: execute and next  *)
(* on the one they have just put into the client's field `result', the     *)
(* others on a future of their own.                                        *)
(***************************************************************************)
EXTENDS SparkSessions

CONSTANTS
  MaxLapses,    \* bound: calls a connection gives up before their answer
  MaxBreaks     \* bound: channels that break

ASSUME JdbcAssumption == {MaxLapses, MaxBreaks} \subseteq Nat

VARIABLES
  user,       \* [Conn -> ...], what the connection's thread does
  requests,   \* requests sent so far; the ids are random, here they are numbers
  result,     \* [Conn -> ...], the future in the field
  answers,    \* [Conn -> SUBSET ...], the futures of sendSync that are set
  canceller,  \* [Conn -> ...], what the cancelling thread does
  rs,         \* [Conn -> ...], the current result set
  lapses,     \* [Conn -> Nat], calls given up before their answer
  breaks      \* channels that have broken

clientVars == <<user, requests, result, answers, canceller, rs, lapses, breaks>>
jdbcVars == <<channelVars, sessionVars, clientVars>>

\* Waiting for an answer to request id.
Waits(u) == u.op \in {"opensession", "execute", "next", "closesession"}

NoFuture == [set |-> TRUE, by |-> 0, reply |-> Failure]
NewFuture == [set |-> FALSE, by |-> 0, reply |-> Failure]

\* rows: what the result set has delivered, the rows at hand included; failed: one of its
\* calls has thrown.
ResultSet == [batch : Batch, rows : Seq(Row), more : BOOLEAN, failed : BOOLEAN]

ClientTypeOK ==
  /\ user \in [Conn -> [op : {"new", "connected", "opensession", "ready", "execute", "next",
                              "closesession", "closed", "gone"},
                        id : Nat]]
  /\ requests \in 0..MaxRequests
  /\ result \in [Conn -> [set : BOOLEAN, by : Nat, reply : Reply]]
  /\ answers \in [Conn -> SUBSET [id : RequestId, reply : Reply]]
  /\ canceller \in [Conn -> [op : {"none", "sendSync", "cancel", "over"}, id : Nat]]
  /\ rs \in [Conn -> ResultSet \cup {None}]
  /\ lapses \in [Conn -> Nat] /\ breaks \in 0..MaxBreaks

JdbcTypeOK == ChannelTypeOK /\ SessionsTypeOK /\ ClientTypeOK

JdbcInit ==
  /\ ChannelInit
  /\ SessionsInit
  /\ user = [c \in Conn |-> [op |-> "new", id |-> 0]]
  /\ requests = 0
  /\ result = [c \in Conn |-> NoFuture]
  /\ answers = [c \in Conn |-> {}]
  /\ canceller = [c \in Conn |-> [op |-> "none", id |-> 0]]
  /\ rs = [c \in Conn |-> None]
  /\ lapses = [c \in Conn |-> 0] /\ breaks = 0

-----------------------------------------------------------------------------
(* Callbacks                                                               *)

\* The callback of execute sets whatever future is in the field by now, that of sendSync
\* its own.  A future that is set stays as it is.
CalledBack(c, e, reply) ==
  /\ result' = IF e.own \/ result[c].set THEN result
               ELSE [result EXCEPT ![c] = [set |-> TRUE, by |-> e.id, reply |-> reply]]
  /\ answers' = IF e.own THEN [answers EXCEPT ![c] = @ \cup {[id |-> e.id, reply |-> reply]}]
                ELSE answers

UntouchedByNetty == UNCHANGED <<sessionVars, user, requests, canceller, rs, lapses, breaks>>

\* TransportResponseHandler.handle
handle(c) ==
  /\ toClient[c] # <<>>
  /\ toClient' = [toClient EXCEPT ![c] = Tail(@)]
  /\ LET m == Head(toClient[c]) IN
       \/ /\ Listeners(c, m.id) = {}
          /\ UNCHANGED <<outstanding, result, answers>>
       \/ \E e \in Listeners(c, m.id) :
            /\ outstanding' = [outstanding EXCEPT ![c] = @ \ {e}]
            /\ CalledBack(c, e, m.reply)
  /\ UNCHANGED <<chan, failing, toServer>>
  /\ UntouchedByNetty

Answered(S, reply) == {[id |-> e.id, reply |-> reply] : e \in S}

\* The two ways to failOutstandingRequests: exceptionCaught and channelInactive.
Sweeping(c) == chan[c] \in {"raised", "broken"}

Swept(c) == chan' = [chan EXCEPT ![c] = IF @ = "raised" THEN "raisedSwept" ELSE "swept"]

\* A variant that forgets the requests without failing them.
sweepQuietly(c) ==
  /\ Sweeping(c)
  /\ Swept(c)
  /\ UNCHANGED <<outstanding, failing, toServer, toClient, result, answers>>
  /\ UntouchedByNetty

\* Every outstanding request fails.  The futures in the field that an entry might set are one,
\* so the order does not matter.
failOutstandingRequests(c) ==
  /\ Sweeping(c)
  /\ Swept(c)
  /\ result' = IF result[c].set \/ {e \in outstanding[c] : ~ e.own} = {} THEN result
               ELSE [result EXCEPT ![c] =
                       [set |-> TRUE, reply |-> Failure,
                        by |-> (CHOOSE e \in outstanding[c] : ~ e.own).id]]
  /\ answers' = [answers EXCEPT ![c] = @ \cup Answered({e \in outstanding[c] : e.own}, Failure)]
  /\ UNCHANGED <<outstanding, failing, toServer, toClient>>
  /\ UntouchedByNetty

\* ... and then the table is cleared, of what has come since too; after an exception the
\* channel is closed.
clear(c) ==
  /\ chan[c] \in {"raisedSwept", "swept"}
  /\ chan' = [chan EXCEPT ![c] = IF @ = "raisedSwept" THEN "broken" ELSE "closed"]
  /\ outstanding' = [outstanding EXCEPT ![c] = {}]
  /\ UNCHANGED <<failing, toServer, toClient, result, answers>>
  /\ UntouchedByNetty

\* A variant that calls back only for a request that is still in the table.
WriteFailsIfOutstanding(c) ==
  \E e \in failing[c] :
    /\ failing' = [failing EXCEPT ![c] = @ \ {e}]
    /\ outstanding' = [outstanding EXCEPT ![c] = @ \ {e}]
    /\ IF e \in outstanding[c] THEN CalledBack(c, e, Failure) ELSE UNCHANGED <<result, answers>>
    /\ UNCHANGED <<chan, toServer, toClient>>
    /\ UntouchedByNetty

\* The listener of a write that has failed; it calls back whether or not the request is still
\* in the table.
WriteFails(c) ==
  \E e \in failing[c] :
    /\ failing' = [failing EXCEPT ![c] = @ \ {e}]
    /\ outstanding' = [outstanding EXCEPT ![c] = @ \ {e}]
    /\ CalledBack(c, e, Failure)
    /\ UNCHANGED <<chan, toServer, toClient>>
    /\ UntouchedByNetty

-----------------------------------------------------------------------------
(* The connection's thread                                                 *)

\* The thread of c sends a request and waits.
Call(c, op, req, own) ==
  /\ requests < MaxRequests
  /\ req.id = requests + 1
  /\ requests' = requests + 1
  /\ user' = [user EXCEPT ![c] = [op |-> op, id |-> req.id]]
  /\ send(c, req, own)

Return(c, op) == user' = [user EXCEPT ![c] = [op |-> op, id |-> 0]]

\* createClient: the master names an application, and the client connects to it.
createClient(c) ==
  /\ user[c].op = "new"
  /\ chan' = [chan EXCEPT ![c] = "open"]
  /\ Return(c, "connected")
  /\ UNCHANGED <<outstanding, failing, toServer, toClient, sessionVars, requests, result,
                 answers, canceller, rs, lapses, breaks>>

opensession(c) ==
  /\ user[c].op = "connected"
  /\ Call(c, "opensession", [id |-> requests + 1, kind |-> "OpenSession"], TRUE)
  /\ UNCHANGED <<sessionVars, result, answers, canceller, rs, lapses, breaks>>

\* executeQuery does not ask whether the connection is open.
execute(c, b) ==
  /\ user[c].op = "ready"
  /\ Call(c, "execute", [id |-> requests + 1, kind |-> "Execute", batch |-> b], FALSE)
  /\ result' = [result EXCEPT ![c] = NewFuture]
  /\ rs' = [rs EXCEPT ![c] = [batch |-> b, rows |-> <<>>, more |-> FALSE, failed |-> FALSE]]
  /\ UNCHANGED <<sessionVars, answers, canceller, lapses, breaks>>

\* MoonboxResult.next once the rows at hand are consumed: checkClosed, then ask for more.
fetchMoreData(c) ==
  /\ user[c].op = "ready"
  /\ rs[c] # None /\ rs[c].more
  /\ isActive(c)
  /\ Call(c, "next", [id |-> requests + 1, kind |-> "ExecuteResult"], FALSE)
  /\ result' = [result EXCEPT ![c] = NewFuture]
  /\ UNCHANGED <<sessionVars, answers, canceller, rs, lapses, breaks>>

close(c) ==
  /\ user[c].op = "ready"
  /\ \/ /\ isActive(c)
        /\ Call(c, "closesession", [id |-> requests + 1, kind |-> "CloseSession"], TRUE)
     \/ /\ ~ isActive(c)
        /\ Return(c, "gone")
        /\ UNCHANGED <<channelVars, requests>>
  /\ UNCHANGED <<sessionVars, result, answers, canceller, rs, lapses, breaks>>

\* execute or next returns, with a result or an exception.
Returned(c) ==
  /\ user[c].op \in {"execute", "next"}
  /\ result[c].set
  /\ rs' = [rs EXCEPT ![c] =
       IF result[c].reply.ok
       THEN [rs[c] EXCEPT !.rows = @ \o result[c].reply.rows, !.more = result[c].reply.more]
       ELSE [rs[c] EXCEPT !.failed = TRUE]]
  /\ Return(c, "ready")
  /\ UNCHANGED <<channelVars, sessionVars, requests, result, answers, canceller, lapses, breaks>>

\* opensession or closesession returns; an exception of the first is that of the constructor,
\* after one of the second the connection is as it was.
SyncReturned(c) ==
  \E a \in answers[c] :
    /\ a.id = user[c].id
    /\ answers' = [answers EXCEPT ![c] = @ \ {a}]
    /\ \/ /\ user[c].op = "opensession"
          /\ Return(c, IF a.reply.ok THEN "ready" ELSE "gone")
          /\ UNCHANGED <<chan, toServer, toClient>>
       \/ /\ user[c].op = "closesession" /\ a.reply.ok
          /\ Return(c, "closed")
          /\ IF Writable(c) THEN shut(c, "broken") ELSE UNCHANGED <<chan, toServer, toClient>>
       \/ /\ user[c].op = "closesession" /\ ~ a.reply.ok
          /\ Return(c, "ready")
          /\ UNCHANGED <<chan, toServer, toClient>>
    /\ UNCHANGED <<outstanding, failing, sessionVars, requests, result, canceller, rs, lapses, breaks>>

\* The wait ends without an answer.  The request stays outstanding.
TimesOut(c) ==
  /\ lapses[c] < MaxLapses
  /\ \/ user[c].op \in {"execute", "next"} /\ ~ result[c].set
     \/ user[c].op \in {"opensession", "closesession"} /\ \A a \in answers[c] : a.id # user[c].id
  /\ Return(c, IF user[c].op = "opensession" THEN "gone" ELSE "ready")
  /\ rs' = IF user[c].op \in {"execute", "next"} THEN [rs EXCEPT ![c].failed = TRUE] ELSE rs
  /\ lapses' = [lapses EXCEPT ![c] = @ + 1]
  /\ UNCHANGED <<channelVars, sessionVars, requests, result, answers, canceller, breaks>>

-----------------------------------------------------------------------------
(* Statement.cancel, on another thread                                     *)

cancel(c) ==
  /\ lapses[c] < MaxLapses
  /\ canceller[c].op = "none"
  /\ user[c].op \in {"execute", "next"}
  /\ requests < MaxRequests
  /\ requests' = requests + 1
  /\ canceller' = [canceller EXCEPT ![c] = [op |-> "sendSync", id |-> requests + 1]]
  /\ send(c, [id |-> requests + 1, kind |-> "ExecuteCancel"], TRUE)
  /\ UNCHANGED <<sessionVars, user, result, answers, rs, lapses, breaks>>

\* sendSync returns; after an exception, or a timeout, cancel goes no further.
CancelReturned(c) ==
  /\ canceller[c].op = "sendSync"
  /\ \/ \E a \in answers[c] :
          /\ a.id = canceller[c].id
          /\ answers' = [answers EXCEPT ![c] = @ \ {a}]
          /\ canceller' = [canceller EXCEPT ![c].op = IF a.reply.ok THEN "cancel" ELSE "over"]
     \/ /\ \A a \in answers[c] : a.id # canceller[c].id
        /\ canceller' = [canceller EXCEPT ![c].op = "over"]
        /\ UNCHANGED answers
  /\ UNCHANGED <<channelVars, sessionVars, user, requests, result, rs, lapses, breaks>>

\* The future that is in the field by now is cancelled.
CancelsResult(c) ==
  /\ canceller[c].op = "cancel"
  /\ canceller' = [canceller EXCEPT ![c].op = "over"]
  /\ result' = IF result[c].set THEN result
               ELSE [result EXCEPT ![c] = [set |-> TRUE, by |-> canceller[c].id, reply |-> Failure]]
  /\ lapses' = IF result[c].set THEN lapses ELSE [lapses EXCEPT ![c] = @ + 1]
  /\ UNCHANGED <<channelVars, sessionVars, user, requests, answers, rs, breaks>>

-----------------------------------------------------------------------------
(* The composition                                                         *)

Breaks(c) ==
  /\ breaks < MaxBreaks
  /\ breaks' = breaks + 1
  /\ ChannelBreaks(c)
  /\ UNCHANGED <<sessionVars, user, requests, result, answers, canceller, rs, lapses>>
Receives(c) == receive(c) /\ UNCHANGED clientVars
Runs(t) == TaskStep(t) /\ UNCHANGED clientVars

NettyStep(c) == handle(c) \/ failOutstandingRequests(c) \/ clear(c) \/ WriteFails(c)

UserStep(c) ==
  \/ createClient(c) \/ opensession(c) \/ fetchMoreData(c) \/ close(c)
  \/ \E b \in Batch : execute(c, b)
  \/ Returned(c) \/ SyncReturned(c) \/ TimesOut(c)

CancelStep(c) == cancel(c) \/ CancelReturned(c) \/ CancelsResult(c)

JdbcNext ==
  \/ \E c \in Conn : NettyStep(c) \/ UserStep(c) \/ CancelStep(c) \/ Breaks(c) \/ Receives(c)
  \/ \E t \in tasks : Runs(t)

JdbcSpec == JdbcInit /\ [][JdbcNext]_jdbcVars

\* Netty delivers events, and a thread whose future is set goes on.  Nothing is assumed of
\* the application, nor of timeouts, which are an hour by default.
JdbcFairness ==
  \A c \in Conn :
    /\ WF_jdbcVars(failOutstandingRequests(c)) /\ WF_jdbcVars(clear(c)) /\ WF_jdbcVars(WriteFails(c))
    /\ WF_jdbcVars(Returned(c)) /\ WF_jdbcVars(SyncReturned(c))

FairJdbcSpec == JdbcSpec /\ JdbcFairness

-----------------------------------------------------------------------------
(* Properties                                                              *)

\* Nobody waits in vain: the request a thread waits for is in the table, or its write is
\* going to fail, or its future is set.  No order of sending, breaking, sweeping and clearing
\* leaves a caller behind.
NoWaiterForgotten ==
  \A c \in Conn : Waits(user[c]) =>
    \/ \E e \in outstanding[c] \cup failing[c] : e.id = user[c].id
    \/ IF user[c].op \in {"execute", "next"} THEN result[c].set
       ELSE \E a \in answers[c] : a.id = user[c].id

\* A call on a broken channel ends, without the help of its timeout.
BrokenCallsEnd ==
  \A c \in Conn :
    chan[c] # "open" /\ Waits(user[c]) ~> ~ Waits(user[c])

\* The rows a connection delivers are those of statements it has executed itself, whatever
\* is late, lost, cancelled or closed: sessions are apart.
OwnRows ==
  \A c \in Conn : rs[c] # None => \A i \in 1..Len(rs[c].rows) : rs[c].rows[i].conn = c

Expected(c, b) ==
  LET s == b.sqls[Len(b.sqls)]
      m == effectiveMaxRows(b.maxRows)
  IN  Rows(c, s, IF s \in MbCommand \/ m < 0 THEN rowsOf[s] ELSE Least(rowsOf[s], m))

\* Unless a call of the connection has lapsed, or one of the result set has thrown, the
\* fetches bring the rows of the statement, each once and in order, up to maxRows of them.
ResultExact ==
  \A c \in Conn :
    lapses[c] = 0 /\ user[c].op = "ready" /\ rs[c] # None /\ ~ rs[c].failed =>
      LET e == Expected(c, rs[c].batch) IN
      /\ Len(rs[c].rows) <= Len(e)
      /\ rs[c].rows = SubSeq(e, 1, Len(rs[c].rows))
      /\ ~ rs[c].more => rs[c].rows = e

\* When the application has answered CloseSession the session is gone from it.  And once a
\* client knows that its session is open nothing under way opens that session again, so one
\* that is closed stays closed, also if the client gave up waiting for the answer.  (close() on
\* a channel that is not active sends nothing and returns all the same: `gone'.  It leaves the
\* session behind.)
ClosedForGood ==
  \A c \in Conn :
    /\ user[c].op = "closed" => newSessionId(c) \notin sessionIdToRunner
    /\ user[c].op \notin {"opensession", "gone"} => \A t \in tasks : t.conn = c => t.phase # "open"

\* The test of the transport client asserts the answer of each call to be that of its own
\* request; the user guide prints the rows of the query it has executed.
OwnAnswer ==
  \A c \in Conn :
    user[c].op \in {"execute", "next"} /\ result[c].set /\ result[c].reply.ok
      => result[c].by = user[c].id
=============================================================================
