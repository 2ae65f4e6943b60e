--------------------------- MODULE SparkSessions ----------------------------
(***************************************************************************)
(* The sessions of an interactive application: SparkServerHandler and the  *)
(* Runner of each session.                                                 *)
(*                                                                         *)
(* The handler takes the requests of a channel in order, on the channel's  *)
(* thread.  A query and a fetch run as futures: they are tasks that go on  *)
(* beside the later requests of their session, and beside its closing, and *)
(* share the fields of its Runner without synchronisation.                 *)
(***************************************************************************)
EXTENDS RpcChannel

CONSTANTS
  MbCommand,     \* statements Moonbox itself runs, whose rows come with the answer
  SparkCommand,  \* statements Spark runs as commands, whose rows are not limited
  rowsOf         \* [Stmt -> Nat], the rows a statement has

ASSUME SessionsAssumption ==
  /\ MbCommand \subseteq Stmt
  /\ SparkCommand \subseteq Stmt \ MbCommand
  /\ rowsOf \in [Stmt -> Nat]

VARIABLES
  sessionIdToRunner,  \* the ids of the sessions that are open
  runner,             \* [Conn -> ...], the fields of each session's Runner
  tasks               \* the futures that run

sessionVars == <<sessionIdToRunner, runner, tasks>>

RunnerFields ==
  [fetchSize : Int, maxRows : Int, currentData : Seq(Row) \cup {None}, currentRowId : Nat]

\* A task answers request id of connection conn on session sid.  left are the statements a
\* query has still to run, rows those a fetch has collected.
Task ==
  [conn : Conn, id : RequestId, sid : Conn,
   phase : {"open", "query", "run", "assigned", "fetch"},
   left : Seq(Stmt), batch : Batch \cup {None}, rows : Seq(Row)]

SessionsTypeOK ==
  /\ sessionIdToRunner \subseteq Conn
  /\ runner \in [Conn -> RunnerFields]
  /\ tasks \subseteq Task

SessionsInit ==
  /\ sessionIdToRunner = {}
  /\ runner = [c \in Conn |->
       [fetchSize |-> 0, maxRows |-> 0, currentData |-> None, currentRowId |-> 0]]
  /\ tasks = {}

\* A variant in which the clients share one session.
sharedSessionId(c) == CHOOSE d \in Conn : TRUE

\* Session ids are random; each connection opens one session, which is named after it.
newSessionId(c) == c

\* The session id a client sends with its requests is the one it was given.
sessionIdOf(c) == newSessionId(c)

Start(c, req, phase, batch) ==
  tasks' = tasks \cup
    {[conn |-> c, id |-> req.id, sid |-> sessionIdOf(c), phase |-> phase,
      left |-> IF batch = None THEN <<>> ELSE batch.sqls, batch |-> batch, rows |-> <<>>]}

-----------------------------------------------------------------------------
(* SparkServerHandler.receive                                              *)

handleOpenSession(c, req) ==
  /\ Start(c, req, "open", None)
  /\ UNCHANGED <<sessionIdToRunner, runner, toClient>>

\* A variant that answers and keeps the session.
closeSessionKept(c, req) ==
  /\ Respond(c, req.id, Success(<<>>, FALSE))
  /\ UNCHANGED sessionVars

\* Runner.cancel asks Spark to cancel the jobs of the session.  A query may fail at any
\* moment, and one that has no job just then is not touched: cancelling adds nothing here.
handleCloseSession(c, req) ==
  /\ sessionIdToRunner' = sessionIdToRunner \ {sessionIdOf(c)}
  /\ Respond(c, req.id, Success(<<>>, FALSE))
  /\ UNCHANGED <<runner, tasks>>

SessionLost(c, req) ==
  /\ sessionIdOf(c) \notin sessionIdToRunner
  /\ Respond(c, req.id, Failure)
  /\ UNCHANGED sessionVars

handleExecute(c, req) ==
  \/ SessionLost(c, req)
  \/ /\ sessionIdOf(c) \in sessionIdToRunner
     /\ Start(c, req, "query", req.batch)
     /\ UNCHANGED <<sessionIdToRunner, runner, toClient>>

handleExecuteResult(c, req) ==
  \/ SessionLost(c, req)
  \/ /\ sessionIdOf(c) \in sessionIdToRunner
     /\ Start(c, req, "fetch", None)
     /\ UNCHANGED <<sessionIdToRunner, runner, toClient>>

handleExecuteCancel(c, req) ==
  \/ SessionLost(c, req)
  \/ /\ sessionIdOf(c) \in sessionIdToRunner
     /\ Respond(c, req.id, Success(<<>>, FALSE))
     /\ UNCHANGED sessionVars

receive(c) ==
  /\ toServer[c] # <<>>
  /\ toServer' = [toServer EXCEPT ![c] = Tail(@)]
  /\ LET req == Head(toServer[c]) IN
       \/ req.kind = "OpenSession" /\ handleOpenSession(c, req)
       \/ req.kind = "CloseSession" /\ handleCloseSession(c, req)
       \/ req.kind = "Execute" /\ handleExecute(c, req)
       \/ req.kind = "ExecuteResult" /\ handleExecuteResult(c, req)
       \/ req.kind = "ExecuteCancel" /\ handleExecuteCancel(c, req)
  /\ UNCHANGED <<chan, outstanding, failing>>

-----------------------------------------------------------------------------
(* The tasks                                                               *)

Replace(t, u) == tasks' = (tasks \ {t}) \cup {u}

\* The future is complete.  constructExecuteResult, which turns a result into the answer, may
\* throw, of a type it does not know or a schema that another task has cleared: nobody is told.
Finish(t, reply) ==
  /\ tasks' = tasks \ {t}
  /\ \/ Respond(t.conn, t.id, reply)
     \/ t.phase # "open" /\ reply.ok /\ UNCHANGED toClient

Quietly == UNCHANGED <<chan, outstanding, failing, toServer>>

\* The Runner is made, and the session is there from then on.
SessionOpens(t) ==
  /\ t.phase = "open"
  /\ sessionIdToRunner' = sessionIdToRunner \cup {newSessionId(t.conn)}
  /\ Finish(t, Success(<<>>, FALSE))
  /\ UNCHANGED runner
  /\ Quietly

\* Any exception: a session that cannot be opened, a query that does not parse, fails or is
\* cancelled, an iterator that throws when it is asked for a first row, or in the middle of a
\* fetch.
TaskFails(t) ==
  /\ t.phase \in {"open", "run", "assigned", "fetch"}
  /\ Finish(t, Failure)
  /\ UNCHANGED <<sessionIdToRunner, runner>>
  /\ Quietly

effectiveMaxRows(n) == IF n = -2147483647 - 1 THEN 100 ELSE n

QueryStarts(t) ==
  /\ t.phase = "query"
  /\ runner' = [runner EXCEPT ![t.sid].fetchSize = t.batch.fetchSize,
                              ![t.sid].maxRows = effectiveMaxRows(t.batch.maxRows)]
  /\ Replace(t, [t EXCEPT !.phase = "run"])
  /\ UNCHANGED <<sessionIdToRunner, toClient>>
  /\ Quietly

Least(m, n) == IF m <= n THEN m ELSE n

Rows(c, s, k) == [i \in 1..k |-> [conn |-> c, stmt |-> s, n |-> i]]

\* MoonboxSession.sql: a query is limited to the rows asked for.
sql(c, s, maxRows) ==
  Rows(c, s, IF maxRows < 0 \/ s \in SparkCommand THEN rowsOf[s] ELSE Least(rowsOf[s], maxRows))

\* One command of the batch; the answer to the last is the answer of the query.
CommandRuns(t) ==
  /\ t.phase = "run"
  /\ Head(t.left) \in MbCommand
  /\ IF Len(t.left) = 1
     THEN Finish(t, Success(Rows(t.conn, t.left[1], rowsOf[t.left[1]]), FALSE))
     ELSE Replace(t, [t EXCEPT !.left = Tail(@)]) /\ UNCHANGED toClient
  /\ UNCHANGED <<sessionIdToRunner, runner>>
  /\ Quietly

\* A variant that counts the rows from -1.
StatementRunsEarly(t) ==
  /\ t.phase = "run"
  /\ Head(t.left) \notin MbCommand
  /\ runner' = [runner EXCEPT
       ![t.sid].currentRowId = -1,
       ![t.sid].currentData = sql(t.conn, Head(t.left), runner[t.sid].maxRows)]
  /\ Replace(t, [t EXCEPT !.phase = "assigned"])
  /\ UNCHANGED <<sessionIdToRunner, toClient>>
  /\ Quietly

\* statement: the fields are assigned ...
StatementRuns(t) ==
  /\ t.phase = "run"
  /\ Head(t.left) \notin MbCommand
  /\ runner' = [runner EXCEPT
       ![t.sid].currentRowId = 0,
       ![t.sid].currentData = sql(t.conn, Head(t.left), runner[t.sid].maxRows)]
  /\ Replace(t, [t EXCEPT !.phase = "assigned"])
  /\ UNCHANGED <<sessionIdToRunner, toClient>>
  /\ Quietly

\* ... and read again for the answer.  Another task may have replaced or cleared them.
StatementAnswers(t) ==
  /\ t.phase = "assigned"
  /\ IF runner[t.sid].currentData = None THEN Finish(t, Failure)
     ELSE IF Len(t.left) > 1
          THEN Replace(t, [t EXCEPT !.phase = "run", !.left = Tail(@)]) /\ UNCHANGED toClient
          ELSE Finish(t, Success(<<>>, runner[t.sid].currentData # <<>>))
  /\ UNCHANGED <<sessionIdToRunner, runner>>
  /\ Quietly

\* A variant of the loop's condition: one row more than maxRows.
hasNextOneMore(r) ==
  r.currentData # <<>> /\ (r.maxRows < 0 \/ r.currentRowId <= r.maxRows)

hasNext(r) == r.currentData # <<>> /\ (r.maxRows < 0 \/ r.currentRowId < r.maxRows)

\* One turn of the loop of fetchResultData.
FetchRow(t) ==
  LET r == runner[t.sid] IN
  /\ t.phase = "fetch"
  /\ r.currentData # None
  /\ hasNext(r) /\ Len(t.rows) < r.fetchSize
  /\ runner' = [runner EXCEPT ![t.sid].currentData = Tail(@), ![t.sid].currentRowId = @ + 1]
  /\ Replace(t, [t EXCEPT !.rows = Append(@, Head(r.currentData))])
  /\ UNCHANGED <<sessionIdToRunner, toClient>>
  /\ Quietly

\* Its end.  Without data the task dies of a null pointer.
FetchEnds(t) ==
  LET r == runner[t.sid] IN
  /\ t.phase = "fetch"
  /\ \/ /\ r.currentData = None
        /\ Finish(t, Failure)
        /\ UNCHANGED runner
     \/ /\ r.currentData # None
        /\ ~ (hasNext(r) /\ Len(t.rows) < r.fetchSize)
        /\ Finish(t, Success(t.rows, hasNext(r)))
        /\ runner' = IF hasNext(r) THEN runner
                     ELSE [runner EXCEPT ![t.sid].currentData = None]
  /\ UNCHANGED sessionIdToRunner
  /\ Quietly

TaskStep(t) ==
  \/ SessionOpens(t) \/ TaskFails(t)
  \/ QueryStarts(t) \/ CommandRuns(t) \/ StatementRuns(t) \/ StatementAnswers(t)
  \/ FetchRow(t) \/ FetchEnds(t)
=============================================================================
