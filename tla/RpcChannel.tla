----------------------------- MODULE RpcChannel -----------------------------
(***************************************************************************)
(* The RPC transport between a JDBC client and an application: one TCP     *)
(* channel per client, requests and responses matched by a request id, and *)
(* the table of requests whose callbacks have still to be called.          *)
(*                                                                         *)
(* What a callback does is up to the user of the transport; an entry of    *)
(* the table says whether it completes a future of its own (sendSync) or   *)
(* the future that is in the client's field when it is called.             *)
(***************************************************************************)
EXTENDS Integers, Sequences, FiniteSets

CONSTANTS
  Conn,         \* connections: a MoonboxClient, its channel, and the session it opens
  Batch,        \* what clients execute: [sqls : Seq(Stmt), maxRows : Int, fetchSize : Int]
  Stmt,         \* statements
  None,         \* null
  MaxRequests   \* bound: requests of all connections

ASSUME ChannelAssumption ==
  /\ MaxRequests \in Nat
  /\ Batch \subseteq [sqls : Seq(Stmt), maxRows : Int, fetchSize : Int]
  /\ \A b \in Batch : b.sqls # <<>>
  /\ None \notin Conn /\ None \notin Batch

RequestId == Nat \ {0}

\* Row n of the result of a statement that connection conn has executed.
Row == [conn : Conn, stmt : Stmt, n : Nat]

Request ==
  [id : RequestId, kind : {"OpenSession", "CloseSession", "ExecuteResult", "ExecuteCancel"}]
    \cup [id : RequestId, kind : {"Execute"}, batch : Batch]

\* RpcResponse (ok) or RpcFailure.
Reply == [ok : BOOLEAN, rows : Seq(Row), more : BOOLEAN]

Failure == [ok |-> FALSE, rows |-> <<>>, more |-> FALSE]
Success(rows, more) == [ok |-> TRUE, rows |-> rows, more |-> more]

VARIABLES
  chan,         \* [Conn -> ...], the client's end of the channel
  outstanding,  \* outstandingRpcs: [Conn -> SUBSET [id : RequestId, own : BOOLEAN]]
  failing,      \* entries whose write is going to fail
  toServer,     \* [Conn -> Seq(Request)], on the wire
  toClient      \* [Conn -> Seq([id : RequestId, reply : Reply])]

channelVars == <<chan, outstanding, failing, toServer, toClient>>

Entry == [id : RequestId, own : BOOLEAN]

\* raised: an exception is caught in the channel and the channel not closed yet; broken: it
\* is closed, channelInactive to come; closed: channelInactive is over.  In raisedSwept and
\* swept failOutstandingRequests is between its loop and its clear().
ChannelTypeOK ==
  /\ chan \in [Conn -> {"none", "open", "raised", "raisedSwept", "broken", "swept", "closed"}]
  /\ outstanding \in [Conn -> SUBSET Entry]
  /\ failing \in [Conn -> SUBSET Entry]
  /\ toServer \in [Conn -> Seq(Request)]
  /\ toClient \in [Conn -> Seq([id : RequestId, reply : Reply])]

ChannelInit ==
  /\ chan = [c \in Conn |-> "none"]
  /\ outstanding = [c \in Conn |-> {}]
  /\ failing = [c \in Conn |-> {}]
  /\ toServer = [c \in Conn |-> <<>>]
  /\ toClient = [c \in Conn |-> <<>>]

isActive(c) == chan[c] \in {"open", "raised", "raisedSwept"}

\* Writes wait for the channel's event loop, and exceptionCaught does not leave it before the
\* channel is closed.
Writable(c) == chan[c] = "open"

\* TransportClient.send: the table first, then the write, which fails on a closed channel.
send(c, req, own) ==
  LET e == [id |-> req.id, own |-> own] IN
  /\ outstanding' = [outstanding EXCEPT ![c] = @ \cup {e}]
  /\ toServer' = IF Writable(c) THEN [toServer EXCEPT ![c] = Append(@, req)] ELSE toServer
  /\ failing' = IF Writable(c) THEN failing ELSE [failing EXCEPT ![c] = @ \cup {e}]
  /\ UNCHANGED <<chan, toClient>>

\* The channel stops, closed by either side, by the network, or because it was idle with
\* requests outstanding, or after an exception in it: what is on the wire is lost.
shut(c, how) ==
  /\ chan' = [chan EXCEPT ![c] = how]
  /\ toServer' = [toServer EXCEPT ![c] = <<>>]
  /\ toClient' = [toClient EXCEPT ![c] = <<>>]

ChannelBreaks(c) ==
  /\ chan[c] = "open"
  /\ \/ shut(c, "broken")
     \/ shut(c, "raised")
  /\ UNCHANGED <<outstanding, failing>>

\* TransportRequestHandler.respond: a response is written if the channel is there.
Respond(c, id, reply) ==
  toClient' = IF Writable(c)
              THEN [toClient EXCEPT ![c] = Append(@, [id |-> id, reply |-> reply])]
              ELSE toClient

\* The entries of a request id: one, or none when the response is ignored.
Listeners(c, id) == {e \in outstanding[c] : e.id = id}
=============================================================================
