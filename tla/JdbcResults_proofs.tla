------------------------- MODULE JdbcResults_proofs -------------------------
(***************************************************************************)
(* The fetches of a result set bring the rows of its query, each once and  *)
(* in order, for any number of connections, statements, rows and fetches.  *)
(*                                                                         *)
(* As long as no call has lapsed a connection has one query or fetch under *)
(* way, and the cursor of its session is where the rows so far end: those  *)
(* delivered, and those the fetch has collected or the answer carries.  A  *)
(* channel that breaks leaves tasks behind that move the cursor on, but no *)
(* answer reaches the connection any more.                                 *)
(***************************************************************************)
EXTENDS JdbcClient_proofs

-----------------------------------------------------------------------------
(* Rows of one statement                                                   *)

Final(b) == b.sqls[Len(b.sqls)]
Limit(b) == effectiveMaxRows(b.maxRows)

\* The rows the session holds for the last statement of a batch, and those a client gets.
Held(b) ==
  IF Limit(b) < 0 \/ Final(b) \in SparkCommand THEN rowsOf[Final(b)]
  ELSE Least(rowsOf[Final(b)], Limit(b))
Due(b) ==
  IF Limit(b) < 0 \/ Final(b) \in MbCommand THEN rowsOf[Final(b)]
  ELSE Least(rowsOf[Final(b)], Limit(b))

\* The rows of s from n + 1 on.
Stretch(q, c, s, n) ==
  \A i \in 1..Len(q) : q[i] = [conn |-> c, stmt |-> s, n |-> n + i]

\* The session of c has delivered n rows of b and holds the others.
Cursor(r, c, b, n) ==
  /\ Final(b) \notin MbCommand
  /\ r.maxRows = Limit(b) /\ r.currentRowId = n
  /\ n + Len(r.currentData) = Held(b)
  /\ Stretch(r.currentData, c, Final(b), n)

\* rows continue the result set q; more: others are to come, from where the cursor r is, if the
\* channel ch is open.
Brings(c, q, r, ch, rows, more) ==
  /\ Stretch(q.rows, c, Final(q.batch), 0)
  /\ Stretch(rows, c, Final(q.batch), Len(q.rows))
  /\ Len(q.rows) + Len(rows) <= Due(q.batch)
  /\ ~ more => Len(q.rows) + Len(rows) = Due(q.batch)
  /\ more /\ ch = "open" => Cursor(r, c, q.batch, Len(q.rows) + Len(rows))

LEMMA FinalType ==
  ASSUME NEW b \in Batch
  PROVE  Final(b) \in Stmt /\ Limit(b) \in Int /\ rowsOf[Final(b)] \in Nat
<1>1. b.sqls \in Seq(Stmt) /\ b.sqls # <<>> /\ b.maxRows \in Int
  BY ChannelAssumption
<1>2. Len(b.sqls) \in 1..Len(b.sqls)
  BY <1>1, EmptySeq
<1>3. Final(b) \in Stmt
  BY <1>1, <1>2, ElementOfSeq DEF Final
<1>4. Limit(b) \in Int
  BY <1>1, effectiveType DEF Limit
<1> QED
  BY <1>3, <1>4, SessionsAssumption

\* The limits: a client never gets more than the session holds, nor, but from a command of
\* Moonbox's own, more than it asked for.
LEMMA Limits ==
  ASSUME NEW b \in Batch
  PROVE  /\ Held(b) \in Nat /\ Due(b) \in Nat
         /\ Final(b) \notin MbCommand => Due(b) <= Held(b)
         /\ Final(b) \notin MbCommand /\ Limit(b) < 0 => Due(b) = Held(b)
         /\ Final(b) \notin MbCommand /\ Limit(b) >= 0 => Due(b) <= Limit(b)
         /\ \A n \in Nat : Limit(b) >= 0 /\ n <= Held(b) /\ n <= Limit(b) => n <= Due(b)
         /\ Limit(b) < 0 => Held(b) = Due(b)
<1> DEFINE k == rowsOf[Final(b)]
           m == Limit(b)
<1>1. k \in Nat /\ m \in Int
  BY FinalType
<1> HIDE DEF k, m
<1>2. /\ Held(b) = IF m < 0 \/ Final(b) \in SparkCommand THEN k ELSE Least(k, m)
      /\ Due(b) = IF m < 0 \/ Final(b) \in MbCommand THEN k ELSE Least(k, m)
  BY DEF Held, Due, k, m
<1>3. Least(k, m) = IF k <= m THEN k ELSE m
  BY DEF Least
<1>4. m = Limit(b)
  BY DEF m
<1> QED
  BY <1>1, <1>2, <1>3, <1>4

LEMMA RowsStretch ==
  ASSUME NEW c \in Conn, NEW s \in Stmt, NEW k \in Nat
  PROVE  Stretch(Rows(c, s, k), c, s, 0)
<1>1. Len(Rows(c, s, k)) = k
  BY RowsType
<1>2. \A i \in 1..k : Rows(c, s, k)[i] = [conn |-> c, stmt |-> s, n |-> i] /\ 0 + i = i
  BY DEF Rows
<1> QED
  BY <1>1, <1>2 DEF Stretch

LEMMA StretchEmpty == \A c, s, n : Stretch(<<>>, c, s, n)
BY EmptySeq DEF Stretch

\* Without a channel the cursor does not matter.
LEMMA BringsClosed ==
  ASSUME NEW c, NEW q, NEW r, NEW ch, NEW rows, NEW more, Brings(c, q, r, ch, rows, more),
         NEW r2, NEW ch2, ch2 # "open"
  PROVE  Brings(c, q, r2, ch2, rows, more)
BY DEF Brings

\* Delivering the rows: the result set grows, and nothing is left to deliver.
LEMMA BringsDelivered ==
  ASSUME NEW c, NEW q \in ResultSet, NEW r, NEW ch, NEW rows \in Seq(Row), NEW more,
         Brings(c, q, r, ch, rows, more),
         NEW q2, q2.batch = q.batch, q2.rows = q.rows \o rows
  PROVE  Brings(c, q2, r, ch, <<>>, more)
<1> DEFINE got == q.rows
           all == got \o rows
           s == Final(q.batch)
<1>1. got \in Seq(Row) /\ Len(got) \in Nat /\ Len(rows) \in Nat /\ Len(<<>>) = 0
  BY LenProperties, EmptySeq DEF ResultSet
<1>2. /\ Stretch(got, c, s, 0) /\ Stretch(rows, c, s, Len(got))
      /\ Len(got) + Len(rows) <= Due(q.batch)
      /\ ~ more => Len(got) + Len(rows) = Due(q.batch)
      /\ more /\ ch = "open" => Cursor(r, c, q.batch, Len(got) + Len(rows))
  BY DEF Brings
<1> HIDE DEF got, s
<1>3. /\ Len(all) = Len(got) + Len(rows)
      /\ \A i \in 1..(Len(got) + Len(rows)) : all[i] = IF i <= Len(got) THEN got[i] ELSE rows[i - Len(got)]
  BY <1>1, ConcatProperties
<1> HIDE DEF all
<1>4. Stretch(all, c, s, 0)
  <2> SUFFICES ASSUME NEW i \in 1..Len(all)
               PROVE  all[i] = [conn |-> c, stmt |-> s, n |-> 0 + i]
    BY DEF Stretch
  <2>1. CASE i <= Len(got)
    <3>1. i \in 1..Len(got)
      BY <1>1, <1>3, <2>1
    <3> QED
      BY <1>1, <1>2, <1>3, <2>1, <3>1 DEF Stretch
  <2>2. CASE ~ (i <= Len(got))
    <3>1. i - Len(got) \in 1..Len(rows) /\ Len(got) + (i - Len(got)) = 0 + i
      BY <1>1, <1>3, <2>2
    <3>2. all[i] = rows[i - Len(got)]
      BY <1>1, <1>3, <2>2
    <3>3. rows[i - Len(got)] = [conn |-> c, stmt |-> s, n |-> Len(got) + (i - Len(got))]
      BY <1>2, <3>1 DEF Stretch
    <3> QED
      BY <3>1, <3>2, <3>3
  <2> QED
    BY <2>1, <2>2
<1>5. Len(all) + Len(<<>>) = Len(got) + Len(rows)
  BY <1>1, <1>3
<1>6. q2.rows = all /\ Final(q2.batch) = s /\ q2.batch = q.batch
  BY DEF all, got, s
<1>7. Stretch(<<>>, c, s, Len(all))
  BY StretchEmpty
<1> QED
  BY <1>2, <1>4, <1>5, <1>6, <1>7 DEF Brings

\* One turn of the loop.
LEMMA BringsRow ==
  ASSUME NEW c \in Conn, NEW q \in ResultSet, NEW r \in RunnerFields, NEW rows \in Seq(Row),
         Brings(c, q, r, "open", rows, TRUE), r.currentData \in Seq(Row), hasNext(r),
         NEW r2, r2.maxRows = r.maxRows, r2.currentData = Tail(r.currentData),
         r2.currentRowId = r.currentRowId + 1
  PROVE  Brings(c, q, r2, "open", Append(rows, Head(r.currentData)), TRUE)
<1> DEFINE data == r.currentData
           b == q.batch
           s == Final(b)
           p == Len(q.rows)
           n == p + Len(rows)
           row == Head(data)
           more == Append(rows, row)
<1>1. /\ q.batch \in Batch /\ p \in Nat /\ Len(rows) \in Nat /\ n \in Nat /\ data \in Seq(Row)
      /\ data # <<>> /\ r.maxRows \in Int /\ r.currentRowId \in Nat
  BY LenProperties DEF ResultSet, RunnerFields, hasNext
<1>2. /\ Stretch(q.rows, c, s, 0) /\ Stretch(rows, c, s, p) /\ n <= Due(b)
      /\ s \notin MbCommand /\ r.maxRows = Limit(b) /\ r.currentRowId = n
      /\ n + Len(data) = Held(b) /\ Stretch(data, c, s, n)
  BY DEF Brings, Cursor
<1>3. r.maxRows < 0 \/ r.currentRowId < r.maxRows
  BY DEF hasNext
<1>4. b \in Batch /\ n = p + Len(rows) /\ n \in Nat /\ p \in Nat /\ Len(rows) \in Nat
  BY <1>1
<1> HIDE DEF data, b, s, p, n
<1>5. /\ row \in Row /\ row = data[1] /\ Tail(data) \in Seq(Row) /\ Len(Tail(data)) = Len(data) - 1
      /\ \A i \in 1..Len(Tail(data)) : Tail(data)[i] = data[i + 1]
      /\ Len(data) \in Nat /\ Len(data) # 0
  BY <1>1, HeadTailProperties, EmptySeq
<1> HIDE DEF row
<1>6. row = [conn |-> c, stmt |-> s, n |-> n + 1]
  <2>1. 1 \in 1..Len(data)
    BY <1>5
  <2> QED
    BY <1>2, <1>5, <2>1 DEF Stretch
<1>7. /\ Len(more) = Len(rows) + 1
      /\ \A i \in 1..Len(rows) : more[i] = rows[i]
      /\ more[Len(rows) + 1] = row
  BY <1>5, AppendProperties
<1> HIDE DEF more
<1>8. Stretch(more, c, s, p)
  <2> SUFFICES ASSUME NEW i \in 1..Len(more)
               PROVE  more[i] = [conn |-> c, stmt |-> s, n |-> p + i]
    BY DEF Stretch
  <2>1. CASE i \in 1..Len(rows)
    BY <1>2, <1>7, <2>1 DEF Stretch
  <2>2. CASE i = Len(rows) + 1
    <3>1. n + 1 = p + i
      BY <1>4, <2>2
    <3> QED
      BY <1>6, <1>7, <2>2, <3>1
  <2> QED
    BY <1>1, <1>7, <2>1, <2>2
<1>9. Stretch(Tail(data), c, s, n + 1)
  <2> SUFFICES ASSUME NEW i \in 1..Len(Tail(data))
               PROVE  Tail(data)[i] = [conn |-> c, stmt |-> s, n |-> (n + 1) + i]
    BY DEF Stretch
  <2>1. i + 1 \in 1..Len(data) /\ n + (i + 1) = (n + 1) + i
    BY <1>4, <1>5
  <2>2. Tail(data)[i] = data[i + 1]
    BY <1>5
  <2>3. data[i + 1] = [conn |-> c, stmt |-> s, n |-> n + (i + 1)]
    BY <1>2, <2>1 DEF Stretch
  <2> QED
    BY <2>1, <2>2, <2>3
<1>10. /\ p + Len(more) = n + 1
       /\ (n + 1) + Len(Tail(data)) = Held(b)
  BY <1>2, <1>4, <1>5, <1>7
<1>11. n + 1 <= Due(b)
  <2>1. /\ Held(b) \in Nat /\ Due(b) \in Nat /\ n + 1 <= Held(b) /\ Limit(b) \in Int
    BY <1>1, <1>2, <1>4, <1>5, Limits, FinalType
  <2>2. /\ Limit(b) < 0 => Held(b) = Due(b)
        /\ Limit(b) >= 0 /\ n + 1 <= Held(b) /\ n + 1 <= Limit(b) => n + 1 <= Due(b)
    BY <1>1, <1>4, Limits
  <2>3. Limit(b) < 0 \/ n < Limit(b)
    BY <1>2, <1>3
  <2> QED
    BY <1>1, <2>1, <2>2, <2>3
<1>12. Cursor(r2, c, b, n + 1)
  BY <1>2, <1>9, <1>10 DEF Cursor, data, s
<1> QED
  BY <1>2, <1>8, <1>10, <1>11, <1>12 DEF Brings, b, s, p, n, row, data, more

\* Its end.
LEMMA BringsLast ==
  ASSUME NEW c \in Conn, NEW q \in ResultSet, NEW r \in RunnerFields, NEW rows \in Seq(Row),
         Brings(c, q, r, "open", rows, TRUE), r.currentData \in Seq(Row), ~ hasNext(r), NEW r2, NEW ch
  PROVE  Brings(c, q, r2, ch, rows, FALSE)
<1> DEFINE b == q.batch
           n == Len(q.rows) + Len(rows)
<1>1. b \in Batch /\ n \in Nat /\ r.maxRows \in Int /\ Len(r.currentData) \in Nat
  BY LenProperties DEF ResultSet, RunnerFields
<1>2. /\ n <= Due(b) /\ Final(b) \notin MbCommand /\ r.maxRows = Limit(b) /\ r.currentRowId = n
      /\ n + Len(r.currentData) = Held(b)
  BY DEF Brings, Cursor
<1>3. r.currentData = <<>> \/ (~ (r.maxRows < 0) /\ ~ (r.currentRowId < r.maxRows))
  BY DEF hasNext
<1>4. Len(<<>>) = 0
  BY EmptySeq
<1>5. Held(b) \in Nat /\ Due(b) \in Nat /\ Due(b) <= Held(b) /\ (Limit(b) >= 0 => Due(b) <= Limit(b))
  BY <1>1, <1>2, Limits
<1> HIDE DEF b, n
<1>6. n = Due(b)
  BY <1>1, <1>2, <1>3, <1>4, <1>5
<1> QED
  BY <1>6 DEF Brings, b, n

\* The answer to a query.
LEMMA BringsFirst ==
  ASSUME NEW c \in Conn, NEW q \in ResultSet, q.rows = <<>>, NEW r \in RunnerFields, NEW ch,
         Final(q.batch) \notin MbCommand, r.maxRows = Limit(q.batch), r.currentRowId = 0,
         r.currentData = sql(c, Final(q.batch), r.maxRows)
  PROVE  Brings(c, q, r, ch, <<>>, r.currentData # <<>>)
<1> DEFINE b == q.batch
           s == Final(b)
<1>1. b \in Batch /\ s \in Stmt /\ Len(<<>>) = 0
  BY FinalType, EmptySeq DEF ResultSet
<1>2. r.currentData = Rows(c, s, Held(b))
  BY DEF sql, Held
<1>3. Held(b) \in Nat /\ Due(b) \in Nat /\ Due(b) <= Held(b)
  BY <1>1, Limits
<1> HIDE DEF b, s
<1>4. Len(r.currentData) = Held(b) /\ Stretch(r.currentData, c, s, 0)
  BY <1>1, <1>2, <1>3, RowsType, RowsStretch
<1>5. r.currentData = <<>> => Due(b) = 0
  BY <1>1, <1>3, <1>4
<1>6. Cursor(r, c, b, 0)
  BY <1>3, <1>4 DEF Cursor, b, s
<1>7. Stretch(<<>>, c, s, 0) /\ Len(<<>>) + Len(<<>>) = 0 /\ Len(q.rows) = 0
  BY <1>1, StretchEmpty
<1>8. Stretch(q.rows, c, s, 0) /\ Stretch(<<>>, c, s, Len(q.rows)) /\ Len(q.rows) + Len(<<>>) = 0
  BY <1>7
<1>9. 0 <= Due(b)
  BY <1>3
<1> QED
  BY <1>5, <1>6, <1>8, <1>9 DEF Brings, b, s

\* The answer to a command of Moonbox's own.
LEMMA BringsCommand ==
  ASSUME NEW c \in Conn, NEW q \in ResultSet, q.rows = <<>>, NEW r, NEW ch,
         Final(q.batch) \in MbCommand
  PROVE  Brings(c, q, r, ch, Rows(c, Final(q.batch), rowsOf[Final(q.batch)]), FALSE)
<1> DEFINE b == q.batch
           s == Final(b)
           k == rowsOf[s]
<1>1. s \in Stmt /\ k \in Nat /\ Len(<<>>) = 0 /\ Due(b) = k
  BY FinalType, EmptySeq DEF ResultSet, Due
<1> HIDE DEF b, s, k
<1>2. Len(Rows(c, s, k)) = k /\ Stretch(Rows(c, s, k), c, s, 0) /\ Stretch(<<>>, c, s, 0)
  BY <1>1, RowsType, RowsStretch, StretchEmpty
<1>3. Len(q.rows) = 0 /\ Len(q.rows) + Len(Rows(c, s, k)) = k /\ k <= Due(b)
  BY <1>1, <1>2
<1> QED
  BY <1>1, <1>2, <1>3 DEF Brings, b, s, k

-----------------------------------------------------------------------------
(* One query at a time                                                     *)

Queries == {"Execute", "ExecuteResult"}
Asking == {"execute", "next"}

\* The queries and fetches of c on the wire, and those at work.
Sent(c) == {r \in Elems(toServer[c]) : r.kind \in Queries}
Work(c) == {t \in tasks : t.conn = c /\ t.phase # "open"}

\* The thread of c waits for rows.
Asks(c) == user[c].op \in Asking /\ ~ result[c].set

\* A channel opens once; nothing comes back and no write goes through once it has stopped.
Wired(c) ==
  /\ user[c].op = "new" <=> chan[c] = "none"
  /\ user[c].op = "new" =>
       /\ toServer[c] = <<>> /\ outstanding[c] = {} /\ rs[c] = None
       /\ \A t \in tasks : t.conn # c
  /\ chan[c] \in {"none", "open"} => failing[c] = {}
  /\ chan[c] # "open" => toClient[c] = <<>>
  /\ user[c].op \in Asking =>
       \A r \in Elems(toServer[c]) : r.id = user[c].id => r.kind \in Queries

\* While no call has lapsed, what is under way is what the thread waits for.
OneQuery(c) ==
  chan[c] = "open" /\ lapses[c] = 0 =>
    /\ \A x \in Sent(c) \cup Work(c) : Asks(c) /\ x.id = user[c].id
    /\ \A e \in outstanding[c] : ~ e.own => Asks(c) /\ e.id = user[c].id
    /\ user[c].op = "execute" =>
         /\ \A r \in Sent(c) : r.kind = "Execute" /\ r.batch = rs[c].batch
         /\ \A t \in Work(c) : t.phase # "fetch" /\ t.batch = rs[c].batch
    /\ user[c].op = "next" =>
         /\ \A r \in Sent(c) : r.kind = "ExecuteResult"
         /\ \A t \in Work(c) : t.phase = "fetch"

\* A query on a session whose Runner is r: what it has still to run, and what it has assigned.
Ready(r, t) ==
  /\ t.left[Len(t.left)] = Final(t.batch)
  /\ t.phase \in {"run", "assigned"} => r.maxRows = Limit(t.batch)
  /\ t.phase = "assigned" =>
       /\ Head(t.left) \notin MbCommand
       /\ r.currentRowId = 0
       /\ r.currentData = sql(t.conn, Head(t.left), r.maxRows)

\* The result set of c is there and none of its calls has thrown.
Sound(c) == (rs[c] # None \/ user[c].op \in Asking) /\ ~ rs[c].failed

Continues(c, rows, more) == Brings(c, rs[c], runner[c], chan[c], rows, more)

\* Wherever rows are, they continue what has been delivered.
Delivers(c) ==
  lapses[c] = 0 /\ Sound(c) =>
    /\ user[c].op \notin Asking => Continues(c, <<>>, rs[c].more)
    /\ user[c].op = "execute" => rs[c].rows = <<>>
    /\ Asks(c) /\ chan[c] = "open" /\ user[c].op = "execute" =>
         \A t \in Work(c) : Ready(runner[c], t)
    /\ Asks(c) /\ chan[c] = "open" /\ user[c].op = "next" =>
         /\ Sent(c) # {} => Continues(c, <<>>, TRUE)
         /\ \A t \in Work(c) : Continues(c, t.rows, TRUE)
    /\ Asks(c) =>
         \A m \in Elems(toClient[c]) : m.id = user[c].id /\ m.reply.ok =>
           Continues(c, m.reply.rows, m.reply.more)
    /\ user[c].op \in Asking /\ result[c].set /\ result[c].reply.ok =>
         Continues(c, result[c].reply.rows, result[c].reply.more)

Served(c) == Wired(c) /\ OneQuery(c) /\ Delivers(c)

ServedInv == \A c \in Conn : Served(c)

\* A step of another connection.
LEMMA ServedElsewhere ==
  ASSUME NEW d, Served(d),
         chan'[d] = chan[d], toServer'[d] = toServer[d], toClient'[d] = toClient[d],
         outstanding'[d] = outstanding[d], failing'[d] = failing[d],
         user'[d] = user[d], result'[d] = result[d], rs'[d] = rs[d], lapses'[d] = lapses[d],
         runner'[d] = runner[d],
         \A t : t.conn = d => (t \in tasks' <=> t \in tasks)
  PROVE  Served(d)'
<1>1. Sent(d)' = Sent(d) /\ Work(d)' = Work(d) /\ (Asks(d)' <=> Asks(d))
  BY DEF Sent, Work, Asks
<1>2. Wired(d)'
  BY DEF Served, Wired
<1>3. OneQuery(d)'
  BY <1>1 DEF Served, OneQuery
<1>4. Delivers(d)'
  BY <1>1 DEF Served, Delivers, Continues, Sound
<1> QED
  BY <1>2, <1>3, <1>4 DEF Served

\* A channel that has stopped: whatever the application does, no rows come any more.
LEMMA ServedBroken ==
  ASSUME NEW c, Served(c), chan[c] # "none", chan'[c] \notin {"none", "open"},
         toClient'[c] = <<>>, Elems(toServer'[c]) \subseteq Elems(toServer[c]),
         rs'[c] = rs[c], lapses'[c] = lapses[c],
         \/ user'[c] = user[c]
         \/ user[c].op \notin Asking /\ user'[c].op \notin Asking \cup {"new"},
         \/ result'[c] = result[c]
         \/ result'[c].set /\ ~ result'[c].reply.ok
  PROVE  Served(c)'
<1>1. Wired(c)'
  BY DEF Served, Wired
<1>2. OneQuery(c)'
  BY DEF OneQuery
<1>3. \A rows, more : Continues(c, rows, more) => Continues(c, rows, more)'
  BY BringsClosed DEF Continues
<1>4. Sound(c)' => Sound(c)
  BY DEF Sound
<1>5. Elems(toClient'[c]) = {}
  BY ElemsEmpty
<1>6. Delivers(c)'
  <2>1. CASE user'[c] = user[c]
    BY <1>3, <1>4, <1>5, <2>1 DEF Served, Delivers
  <2>2. CASE user'[c] # user[c]
    BY <1>3, <1>4, <1>5, <2>2 DEF Served, Delivers, Asks, Asking
  <2> QED
    BY <2>1, <2>2
<1> QED
  BY <1>1, <1>2, <1>6 DEF Served

\* A call that has lapsed: nothing is promised any more.
LEMMA ServedLapsed ==
  ASSUME NEW c, lapses'[c] # 0, Wired(c)'
  PROVE  Served(c)'
BY DEF Served, OneQuery, Delivers

\* A call, other than for rows, that is made or returns.
LEMMA ServedIdle ==
  ASSUME NEW c, Served(c),
         chan'[c] = chan[c], toClient'[c] = toClient[c],
         rs'[c] = rs[c], result'[c] = result[c], lapses'[c] = lapses[c],
         UNCHANGED <<runner, tasks>>,
         user[c].op # "new",
         \/ user'[c] = user[c]
         \/ user[c].op \notin Asking /\ user'[c].op \notin Asking \cup {"new"},
         \A r \in Elems(toServer'[c]) \ Elems(toServer[c]) :
           r.kind \notin Queries /\ r.id # user[c].id,
         \A e \in outstanding'[c] \ outstanding[c] : e.own,
         chan[c] = "open" => failing'[c] = failing[c]
  PROVE  Served(c)'
<1>1. Sent(c)' \subseteq Sent(c) /\ Work(c)' = Work(c)
  BY DEF Sent, Work
<1>2. user'[c] = user[c] => (Asks(c)' <=> Asks(c))
  BY DEF Asks
<1>3. user'[c] # user[c] => ~ Asks(c) /\ ~ Asks(c)'
  BY DEF Asks
<1>4. Wired(c)'
  BY DEF Served, Wired
<1>5. OneQuery(c)'
  <2>1. CASE user'[c] = user[c]
    BY <1>1, <1>2, <2>1 DEF Served, OneQuery
  <2>2. CASE user'[c] # user[c]
    BY <1>1, <1>3, <2>2 DEF Served, OneQuery, Asking
  <2> QED
    BY <2>1, <2>2
<1>6. \A rows, more : Continues(c, rows, more)' <=> Continues(c, rows, more)
  BY DEF Continues
<1>7. Sound(c)' => Sound(c)
  BY DEF Sound
<1>8. Delivers(c)'
  <2>1. CASE user'[c] = user[c]
    BY <1>1, <1>2, <1>6, <1>7, <2>1 DEF Served, Delivers
  <2>2. CASE user'[c] # user[c]
    BY <1>3, <1>6, <1>7, <2>2 DEF Served, Delivers, Asking
  <2> QED
    BY <2>1, <2>2
<1> QED
  BY <1>4, <1>5, <1>8 DEF Served

-----------------------------------------------------------------------------
(* Netty's steps                                                           *)

LEMMA ServedNetty ==
  ASSUME TypesInv, OrderlyInv, ServedInv, NEW c \in Conn, NettyStep(c)
  PROVE  ServedInv'
<1>0. ChannelTypeOK /\ ClientTypeOK
  BY DEF TypesInv, JdbcTypeOK
<1>1. UNCHANGED <<tasks, runner, user, rs, lapses, toServer>>
  BY DEF NettyStep, handle, failOutstandingRequests, clear, WriteFails, UntouchedByNetty, sessionVars
<1>2. ASSUME NEW d \in Conn, d # c
      PROVE  Served(d)'
  <2>1. /\ toClient'[d] = toClient[d] /\ chan'[d] = chan[d]
        /\ outstanding'[d] = outstanding[d] /\ failing'[d] = failing[d]
    BY <1>0, <1>2 DEF NettyStep, handle, failOutstandingRequests, clear, WriteFails, Swept, ChannelTypeOK
  <2>2. result'[d] = result[d]
    BY <1>0, <1>2 DEF NettyStep, handle, failOutstandingRequests, clear, WriteFails, CalledBack, ClientTypeOK
  <2> QED
    BY <1>1, <2>1, <2>2, ServedElsewhere DEF ServedInv
<1>3. Served(c) /\ Wired(c) /\ OneQuery(c) /\ Delivers(c) /\ InOnePlace(c)
  BY DEF ServedInv, Served, OrderlyInv, Orderly
<1>4. ASSUME NEW e, NEW reply, CalledBack(c, e, reply)
      PROVE  \/ result'[c] = result[c] /\ (e.own \/ result[c].set)
             \/ /\ ~ e.own /\ ~ result[c].set
                /\ result'[c].set /\ result'[c].reply = reply
  BY <1>0, <1>4 DEF CalledBack, ClientTypeOK
<1>5. CASE handle(c)
  <2> DEFINE m == Head(toClient[c])
             M == [id : RequestId, reply : Reply]
  <2>1. toClient[c] # <<>> /\ toClient' = [toClient EXCEPT ![c] = Tail(@)] /\ UNCHANGED <<chan, failing>>
    BY <1>5 DEF handle
  <2>2. toClient[c] \in Seq(M) /\ DOMAIN toClient = Conn /\ DOMAIN outstanding = Conn
    BY <1>0 DEF ChannelTypeOK
  <2>3. Elems(toClient[c]) = Elems(Tail(toClient[c])) \cup {m}
    <3> HIDE DEF M
    <3> QED
      BY <2>1, <2>2, ElemsTail
  <2>4. \/ UNCHANGED <<outstanding, result>>
        \/ \E e \in outstanding[c] :
             /\ e.id = m.id
             /\ outstanding' = [outstanding EXCEPT ![c] = @ \ {e}]
             /\ CalledBack(c, e, m.reply)
    BY <1>5 DEF handle, Listeners
  <2>5. toClient'[c] = Tail(toClient[c])
    BY <2>1, <2>2
  <2> HIDE DEF m
  <2>6. chan[c] = "open"
    BY <1>3, <2>1 DEF Wired
  <2>7. m \in Elems(toClient[c]) /\ Elems(toClient'[c]) \subseteq Elems(toClient[c])
    BY <2>3, <2>5
  <2>8. Sent(c)' = Sent(c) /\ Work(c)' = Work(c)
    BY <1>1 DEF Sent, Work
  <2>9. \A rows, more : Continues(c, rows, more)' <=> Continues(c, rows, more)
    BY <1>1, <2>1 DEF Continues
  <2>10. Sound(c)' <=> Sound(c)
    BY <1>1 DEF Sound
  <2>11. ASSUME outstanding'[c] \subseteq outstanding[c]
         PROVE  Wired(c)'
    BY <1>1, <1>3, <2>1, <2>6, <2>11 DEF Wired
  <2>12. ASSUME outstanding'[c] \subseteq outstanding[c], result'[c] = result[c]
         PROVE  Served(c)'
    <3>1. Asks(c)' <=> Asks(c)
      BY <1>1, <2>12 DEF Asks
    <3>2. OneQuery(c)'
      BY <1>1, <1>3, <2>1, <2>8, <2>12, <3>1 DEF OneQuery
    <3>3. Delivers(c)'
      BY <1>1, <1>3, <2>1, <2>7, <2>8, <2>9, <2>10, <2>12, <3>1 DEF Delivers
    <3> QED
      BY <2>11, <2>12, <3>2, <3>3 DEF Served
  <2>13. ASSUME NEW e \in outstanding[c], e.id = m.id, outstanding'[c] = outstanding[c] \ {e},
                ~ e.own, ~ result[c].set, result'[c].set, result'[c].reply = m.reply
         PROVE  Served(c)'
    <3>1. ~ Asks(c)'
      BY <2>13 DEF Asks
    <3>2. ASSUME lapses[c] = 0
          PROVE  /\ Asks(c) /\ m.id = user[c].id
                 /\ Sent(c) = {} /\ Work(c) = {}
                 /\ \A f \in outstanding'[c] : f.own
      <4>1. Asks(c) /\ m.id = user[c].id
        BY <1>3, <2>6, <2>13, <3>2 DEF OneQuery
      <4>2. \A r \in Elems(toServer[c]) : r.id # user[c].id
        BY <1>3, <2>7, <4>1 DEF InOnePlace
      <4>3. \A t \in tasks : t.conn = c => t.id # user[c].id
        BY <1>3, <2>7, <4>1 DEF InOnePlace
      <4>4. Sent(c) = {} /\ Work(c) = {}
        BY <1>3, <2>6, <3>2, <4>2, <4>3 DEF OneQuery, Sent, Work
      <4>5. ASSUME NEW f \in outstanding'[c], ~ f.own
            PROVE  FALSE
        <5>1. f \in outstanding[c] /\ f # e /\ f.id = user[c].id
          BY <1>3, <2>6, <2>13, <3>2, <4>5 DEF OneQuery
        <5>2. f \in Entry /\ e \in Entry
          BY <1>0, <2>13, <5>1 DEF ChannelTypeOK
        <5>3. f = [id |-> f.id, own |-> FALSE] /\ e = [id |-> e.id, own |-> FALSE]
          BY <2>13, <4>5, <5>2 DEF Entry
        <5> QED
          BY <2>13, <4>1, <5>1, <5>3
      <4> QED
        BY <4>1, <4>4, <4>5
    <3>3. OneQuery(c)'
      BY <1>1, <2>8, <3>2 DEF OneQuery
    <3>4. Delivers(c)'
      <4> SUFFICES ASSUME lapses[c] = 0, Sound(c)
                   PROVE  Delivers(c)'
        BY <1>1, <2>10 DEF Delivers
      <4>1. Asks(c) /\ m.id = user[c].id
        BY <3>2
      <4>2. user[c].op \in Asking
        BY <4>1 DEF Asks
      <4>3. m.reply.ok => Continues(c, m.reply.rows, m.reply.more)
        BY <1>3, <2>7, <4>1 DEF Delivers
      <4> QED
        BY <1>1, <1>3, <2>9, <2>13, <3>1, <4>2, <4>3 DEF Delivers
    <3> QED
      BY <2>11, <2>13, <3>3, <3>4 DEF Served
  <2>14. CASE UNCHANGED <<outstanding, result>>
    BY <1>2, <2>12, <2>14 DEF ServedInv
  <2>15. ASSUME NEW e \in outstanding[c], e.id = m.id,
                outstanding' = [outstanding EXCEPT ![c] = @ \ {e}], CalledBack(c, e, m.reply)
         PROVE  Served(c)'
    <3>1. outstanding'[c] = outstanding[c] \ {e}
      BY <2>2, <2>15
    <3>2. outstanding'[c] \subseteq outstanding[c]
      BY <3>1
    <3>3. \/ result'[c] = result[c]
          \/ ~ e.own /\ ~ result[c].set /\ result'[c].set /\ result'[c].reply = m.reply
      BY <1>4, <2>15
    <3> QED
      BY <2>12, <2>13, <2>15, <3>1, <3>2, <3>3
  <2> QED
    BY <1>2, <2>4, <2>14, <2>15 DEF ServedInv
<1>6. CASE failOutstandingRequests(c)
  <2>1. /\ chan[c] \in {"raised", "broken"} /\ chan'[c] \in {"raisedSwept", "swept"}
        /\ UNCHANGED toClient
    BY <1>0, <1>6 DEF failOutstandingRequests, Sweeping, Swept, ChannelTypeOK
  <2>2. result'[c] = result[c] \/ (result'[c].set /\ result'[c].reply = Failure)
    BY <1>0, <1>6 DEF failOutstandingRequests, ClientTypeOK
  <2>3. Served(c)'
    BY <1>1, <1>3, <2>1, <2>2, ServedBroken, ReplyTypes DEF Wired
  <2> QED
    BY <1>2, <2>3 DEF ServedInv
<1>7. CASE clear(c)
  <2>1. /\ chan[c] \in {"raisedSwept", "swept"} /\ chan'[c] \in {"broken", "closed"}
        /\ UNCHANGED <<toClient, result>>
    BY <1>0, <1>7 DEF clear, ChannelTypeOK
  <2>2. Served(c)'
    BY <1>1, <1>3, <2>1, ServedBroken DEF Wired
  <2> QED
    BY <1>2, <2>2 DEF ServedInv
<1>8. CASE WriteFails(c)
  <2>1. PICK e \in failing[c] : CalledBack(c, e, Failure) /\ UNCHANGED <<chan, toClient>>
    BY <1>8 DEF WriteFails
  <2>2. chan[c] \notin {"none", "open"}
    BY <1>3, <2>1 DEF Wired
  <2>3. result'[c] = result[c] \/ (result'[c].set /\ result'[c].reply = Failure)
    BY <1>4, <2>1
  <2>4. Served(c)'
    BY <1>1, <1>3, <2>1, <2>2, <2>3, ServedBroken, ReplyTypes DEF Wired
  <2> QED
    BY <1>2, <2>4 DEF ServedInv
<1> QED
  BY <1>5, <1>6, <1>7, <1>8 DEF NettyStep

LEMMA ServedBreaks ==
  ASSUME TypesInv, ServedInv, NEW c \in Conn, Breaks(c)
  PROVE  ServedInv'
<1>0. ChannelTypeOK
  BY DEF TypesInv, JdbcTypeOK
<1>1. /\ UNCHANGED <<tasks, runner, user, rs, lapses, result, outstanding, failing>>
      /\ chan[c] = "open" /\ (shut(c, "broken") \/ shut(c, "raised"))
  BY DEF Breaks, ChannelBreaks, sessionVars
<1>2. /\ chan'[c] \in {"broken", "raised"} /\ toServer'[c] = <<>> /\ toClient'[c] = <<>>
      /\ \A d \in Conn : d # c =>
           chan'[d] = chan[d] /\ toServer'[d] = toServer[d] /\ toClient'[d] = toClient[d]
  BY <1>0, <1>1 DEF shut, ChannelTypeOK
<1>3. Served(c)'
  BY <1>1, <1>2, ElemsEmpty, ServedBroken DEF ServedInv
<1>4. \A d \in Conn : d # c => Served(d)'
  BY <1>1, <1>2, ServedElsewhere DEF ServedInv
<1> QED
  BY <1>3, <1>4 DEF ServedInv

-----------------------------------------------------------------------------
(* The client's steps                                                      *)

\* A request for rows: before it nothing is under way, after it only this.
LEMMA ServedAsk ==
  ASSUME TypesInv, NEW c \in Conn, Orderly(c), Served(c), NEW req \in Request,
         send(c, req, FALSE), req.id = requests + 1, req.kind \in Queries,
         user[c].op = "ready", user'[c].op \in Asking, user'[c].id = req.id,
         result'[c].set = FALSE, lapses'[c] = lapses[c], UNCHANGED <<runner, tasks>>,
         \/ /\ user'[c].op = "execute" /\ req.kind = "Execute"
            /\ rs'[c].batch = req.batch /\ rs'[c].rows = <<>>
         \/ /\ user'[c].op = "next" /\ req.kind = "ExecuteResult"
            /\ rs'[c] = rs[c] /\ rs[c] # None /\ rs[c].more = TRUE
  PROVE  Served(c)'
<1>0. ChannelTypeOK /\ requests \in Nat
  BY DEF TypesInv, JdbcTypeOK, ClientTypeOK
<1>1. /\ UNCHANGED <<chan, toClient>>
      /\ chan[c] # "open" => toServer'[c] = toServer[c]
      /\ chan[c] = "open" => failing'[c] = failing[c]
      /\ Elems(toServer'[c]) \subseteq Elems(toServer[c]) \cup {req}
      /\ outstanding'[c] \subseteq outstanding[c] \cup {[id |-> req.id, own |-> FALSE]}
  BY <1>0, SendAdds
<1>2. Wired(c) /\ OneQuery(c) /\ Delivers(c) /\ Known(c)
  BY DEF Served, Orderly
<1>3. \A n \in 1..requests : n # req.id
  BY <1>0
<1>4. /\ \A r \in Elems(toServer[c]) : r.id # req.id
      /\ \A m \in Elems(toClient[c]) : m.id # req.id
  BY <1>2, <1>3 DEF Known
<1>5. Asks(c)' /\ ~ Asks(c)
  BY DEF Asks, Asking
<1>6. Wired(c)'
  BY <1>1, <1>2, <1>4 DEF Wired, Asking
<1>7. ASSUME chan[c] = "open", lapses[c] = 0
      PROVE  Sent(c)' \subseteq {req} /\ Work(c)' = {} /\ \A e \in outstanding[c] : e.own
  <2>1. Sent(c) = {} /\ Work(c) = {} /\ \A e \in outstanding[c] : e.own
    BY <1>2, <1>5, <1>7 DEF OneQuery
  <2>2. Sent(c)' \subseteq Sent(c) \cup {req} /\ Work(c)' = Work(c)
    BY <1>1 DEF Sent, Work
  <2> QED
    BY <2>1, <2>2
<1>8. OneQuery(c)'
  BY <1>1, <1>5, <1>7 DEF OneQuery
<1>9. Delivers(c)'
  <2> SUFFICES ASSUME lapses[c] = 0, Sound(c)'
               PROVE  Delivers(c)'
    BY DEF Delivers
  <2>1. \A m \in Elems(toClient'[c]) : m.id # user'[c].id
    BY <1>1, <1>4
  <2>2. CASE user'[c].op = "execute"
    BY <1>1, <1>5, <1>7, <2>1, <2>2 DEF Delivers, Asking
  <2>3. CASE user'[c].op = "next"
    <3>1. Sound(c)
      BY <2>3 DEF Sound
    <3>2. Continues(c, <<>>, TRUE)
      BY <1>2, <2>3, <3>1 DEF Delivers, Asking
    <3>3. Continues(c, <<>>, TRUE)'
      BY <1>1, <2>3, <3>2 DEF Continues
    <3> QED
      BY <1>1, <1>5, <1>7, <2>1, <2>3, <3>3 DEF Delivers, Asking
  <2> QED
    BY <2>2, <2>3
<1> QED
  BY <1>6, <1>8, <1>9 DEF Served

LEMMA ServedUser ==
  ASSUME TypesInv, OrderlyInv, JdbcInv, ServedInv, NEW c \in Conn, UserStep(c)
  PROVE  ServedInv'
<1>0. /\ ChannelTypeOK /\ ClientTypeOK /\ requests \in Nat /\ DOMAIN user = Conn
      /\ DOMAIN rs = Conn /\ DOMAIN result = Conn /\ DOMAIN lapses = Conn
  BY DEF TypesInv, JdbcTypeOK, ClientTypeOK
<1>1. UNCHANGED <<tasks, runner>>
  BY DEF UserStep, createClient, opensession, fetchMoreData, close, execute, Returned, SyncReturned,
     TimesOut, sessionVars
<1>2. ASSUME NEW d \in Conn, d # c
      PROVE  Served(d)'
  <2>1. user'[d] = user[d]
    BY <1>0, <1>2 DEF UserStep, createClient, opensession, fetchMoreData, close, execute, Returned,
       SyncReturned, TimesOut, Call, Return
  <2>2. result'[d] = result[d] /\ lapses'[d] = lapses[d]
    BY <1>0, <1>2 DEF UserStep, createClient, opensession, fetchMoreData, close, execute, Returned,
       SyncReturned, TimesOut
  <2>3. rs'[d] = rs[d]
    BY <1>0, <1>2 DEF UserStep, createClient, opensession, fetchMoreData, close, execute, Returned,
       SyncReturned, TimesOut
  <2>4. \/ UNCHANGED <<outstanding, failing, toServer, toClient>>
           /\ (UNCHANGED chan \/ chan' = [chan EXCEPT ![c] = "open"])
        \/ \E how : shut(c, how) /\ UNCHANGED <<outstanding, failing>>
        \/ \E req, own : send(c, req, own)
    BY DEF UserStep, createClient, opensession, fetchMoreData, close, execute, Returned, SyncReturned,
       TimesOut, Call, channelVars
  <2>5. /\ toServer'[d] = toServer[d] /\ toClient'[d] = toClient[d] /\ chan'[d] = chan[d]
        /\ outstanding'[d] = outstanding[d] /\ failing'[d] = failing[d]
    BY <1>0, <1>2, <2>4 DEF shut, send, ChannelTypeOK
  <2> QED
    BY <1>1, <2>1, <2>2, <2>3, <2>5, ServedElsewhere DEF ServedInv
<1>3. Served(c) /\ Wired(c) /\ OneQuery(c) /\ Delivers(c) /\ Orderly(c)
  BY DEF ServedInv, Served, OrderlyInv
<1>4. ASSUME NEW op, NEW req, NEW own, Call(c, op, req, own)
      PROVE  /\ user'[c] = [op |-> op, id |-> req.id] /\ send(c, req, own)
             /\ req.id = requests + 1 /\ requests' = requests + 1
  BY <1>0, <1>4 DEF Call
<1>5. ASSUME NEW op, Return(c, op)
      PROVE  user'[c].op = op
  BY <1>0, <1>5 DEF Return
<1>6. requests + 1 \in RequestId
  BY <1>0 DEF RequestId
<1>7. SUFFICES Served(c)'
  BY <1>2 DEF ServedInv
<1>8. CASE createClient(c)
  <2>1. user[c].op = "new" /\ user'[c].op = "connected" /\ chan'[c] = "open"
    BY <1>0, <1>5, <1>8 DEF createClient, ChannelTypeOK
  <2>2. UNCHANGED <<outstanding, failing, toServer, toClient, rs, result, lapses>>
    BY <1>8 DEF createClient
  <2>3. /\ toServer[c] = <<>> /\ outstanding[c] = {} /\ rs[c] = None /\ failing[c] = {}
        /\ \A t \in tasks : t.conn # c
    BY <1>3, <2>1 DEF Wired
  <2>4. Wired(c)'
    BY <1>1, <2>1, <2>2, <2>3 DEF Wired, Asking
  <2>5. Sent(c)' = {} /\ Work(c)' = {}
    BY <1>1, <2>2, <2>3, ElemsEmpty DEF Sent, Work
  <2>6. OneQuery(c)'
    BY <2>1, <2>2, <2>3, <2>5 DEF OneQuery
  <2>7. ~ Sound(c)'
    BY <2>1, <2>2, <2>3 DEF Sound, Asking
  <2> QED
    BY <2>4, <2>6, <2>7 DEF Served, Delivers
<1>9. ASSUME NEW op \in {"opensession", "closesession"}, NEW req \in Request, Call(c, op, req, TRUE),
             req.kind \notin Queries, user[c].op \in {"connected", "ready"},
             UNCHANGED <<rs, result, lapses>>
      PROVE  Served(c)'
  <2>1. user'[c] = [op |-> op, id |-> req.id] /\ send(c, req, TRUE) /\ req.id = requests + 1
    BY <1>4, <1>9
  <2>2. user'[c].op = op
    BY <2>1
  <2>3. user[c].op \notin Asking /\ user'[c].op \notin Asking \cup {"new"} /\ user[c].op # "new"
    BY <1>9, <2>2 DEF Asking
  <2>4. /\ UNCHANGED <<chan, toClient>>
        /\ chan[c] = "open" => failing'[c] = failing[c]
        /\ Elems(toServer'[c]) \subseteq Elems(toServer[c]) \cup {req}
        /\ outstanding'[c] \subseteq outstanding[c] \cup {[id |-> req.id, own |-> TRUE]}
    BY <1>0, <2>1, SendAdds
  <2>5. req.id # user[c].id
    BY <1>0, <2>1 DEF JdbcInv, Apart, ClientTypeOK
  <2>6. \A e \in outstanding'[c] \ outstanding[c] : e.own
    BY <2>4
  <2>7. \A r \in Elems(toServer'[c]) \ Elems(toServer[c]) : r.kind \notin Queries /\ r.id # user[c].id
    BY <1>9, <2>4, <2>5
  <2> QED
    BY <1>1, <1>3, <1>9, <2>3, <2>4, <2>6, <2>7, ServedIdle
<1>10. CASE opensession(c)
  <2> DEFINE req == [id |-> requests + 1, kind |-> "OpenSession"]
  <2>1. req \in Request /\ req.kind \notin Queries
    BY <1>6 DEF Request, Queries
  <2>2. user[c].op = "connected" /\ Call(c, "opensession", req, TRUE) /\ UNCHANGED <<rs, result, lapses>>
    BY <1>10 DEF opensession
  <2> HIDE DEF req
  <2> QED
    BY <1>9, <2>1, <2>2
<1>11. CASE close(c)
  <2> DEFINE req == [id |-> requests + 1, kind |-> "CloseSession"]
  <2>1. req \in Request /\ req.kind \notin Queries
    BY <1>6 DEF Request, Queries
  <2>2. user[c].op = "ready" /\ UNCHANGED <<rs, result, lapses>>
    BY <1>11 DEF close
  <2>3. CASE Call(c, "closesession", req, TRUE)
    <3> HIDE DEF req
    <3> QED
      BY <1>9, <2>1, <2>2, <2>3
  <2>4. CASE Return(c, "gone") /\ UNCHANGED channelVars
    <3>1. user'[c].op = "gone"
      BY <1>5, <2>4
    <3> QED
      BY <1>1, <1>3, <2>2, <2>4, <3>1, ServedIdle DEF Asking, channelVars
  <2> QED
    BY <1>11, <2>3, <2>4 DEF close
<1>12. ASSUME NEW b \in Batch, execute(c, b)
       PROVE  Served(c)'
  <2> DEFINE req == [id |-> requests + 1, kind |-> "Execute", batch |-> b]
  <2>1. req \in Request /\ req.kind = "Execute" /\ req.batch = b
    BY <1>6 DEF Request
  <2>2. user[c].op = "ready" /\ Call(c, "execute", req, FALSE) /\ UNCHANGED lapses
    BY <1>12 DEF execute
  <2>3. result'[c].set = FALSE /\ rs'[c].batch = b /\ rs'[c].rows = <<>>
    BY <1>0, <1>12 DEF execute, NewFuture
  <2> HIDE DEF req
  <2>4. user'[c] = [op |-> "execute", id |-> req.id] /\ send(c, req, FALSE) /\ req.id = requests + 1
    BY <1>4, <2>2
  <2>5. user'[c].op = "execute" /\ user'[c].id = req.id
    BY <2>4
  <2>6. "execute" \in Asking /\ "Execute" \in Queries
    BY DEF Asking, Queries
  <2> QED
    BY <1>1, <1>3, <2>1, <2>2, <2>3, <2>4, <2>5, <2>6, ServedAsk
<1>13. CASE fetchMoreData(c)
  <2> DEFINE req == [id |-> requests + 1, kind |-> "ExecuteResult"]
  <2>1. req \in Request /\ req.kind = "ExecuteResult"
    BY <1>6 DEF Request
  <2>2. user[c].op = "ready" /\ Call(c, "next", req, FALSE) /\ UNCHANGED <<rs, lapses>>
    BY <1>13 DEF fetchMoreData
  <2>3. result'[c].set = FALSE
    BY <1>0, <1>13 DEF fetchMoreData, NewFuture
  <2>4. rs[c] # None /\ rs[c].more = TRUE
    <3>1. rs[c] # None /\ rs[c].more
      BY <1>13 DEF fetchMoreData
    <3>2. rs[c] \in ResultSet
      BY <1>0, <3>1 DEF ClientTypeOK
    <3> QED
      BY <3>1, <3>2 DEF ResultSet
  <2> HIDE DEF req
  <2>5. user'[c] = [op |-> "next", id |-> req.id] /\ send(c, req, FALSE) /\ req.id = requests + 1
    BY <1>4, <2>2
  <2>6. user'[c].op = "next" /\ user'[c].id = req.id
    BY <2>5
  <2>7. "next" \in Asking /\ "ExecuteResult" \in Queries
    BY DEF Asking, Queries
  <2> QED
    BY <1>1, <1>3, <2>1, <2>2, <2>3, <2>4, <2>5, <2>6, <2>7, ServedAsk
<1>14. CASE Returned(c)
  <2>1. /\ user[c].op \in Asking /\ result[c].set /\ user'[c].op = "ready"
        /\ UNCHANGED <<outstanding, failing, toServer, toClient, chan, result, lapses>>
    BY <1>5, <1>14 DEF Returned, Asking, channelVars
  <2>2. /\ rs[c] \in ResultSet /\ result[c].reply \in Reply
        /\ result[c].reply.rows \in Seq(Row)
    BY <1>0, <2>1 DEF TypesInv, ClientTypeOK, Reply, Asking
  <2>3. rs'[c] = IF result[c].reply.ok
                 THEN [rs[c] EXCEPT !.rows = rs[c].rows \o result[c].reply.rows,
                                    !.more = result[c].reply.more]
                 ELSE [rs[c] EXCEPT !.failed = TRUE]
    BY <1>0, <1>14 DEF Returned
  <2>4. Wired(c)'
    BY <1>1, <1>3, <2>1 DEF Wired, Asking
  <2>5. OneQuery(c)'
    <3>1. Sent(c)' = Sent(c) /\ Work(c)' = Work(c) /\ ~ Asks(c)
      BY <1>1, <2>1 DEF Sent, Work, Asks
    <3> QED
      BY <1>3, <2>1, <3>1 DEF OneQuery
  <2>6. ASSUME lapses[c] = 0, Sound(c)'
        PROVE  Continues(c, <<>>, rs[c].more)'
    <3>1. result[c].reply.ok /\ ~ rs[c].failed
      <4>1. ~ rs'[c].failed
        BY <2>6 DEF Sound
      <4> QED
        BY <2>2, <2>3, <4>1 DEF ResultSet
    <3>2. Sound(c)
      BY <2>1, <3>1 DEF Sound
    <3>3. Continues(c, result[c].reply.rows, result[c].reply.more)
      BY <1>3, <2>1, <2>6, <3>1, <3>2 DEF Delivers
    <3>4. /\ rs'[c].batch = rs[c].batch /\ rs'[c].rows = rs[c].rows \o result[c].reply.rows
          /\ rs'[c].more = result[c].reply.more
      BY <2>2, <2>3, <3>1 DEF ResultSet
    <3>5. Brings(c, rs[c], runner[c], chan[c], result[c].reply.rows, result[c].reply.more)
      BY <3>3 DEF Continues
    <3>6. Brings(c, rs'[c], runner[c], chan[c], <<>>, result[c].reply.more)
      BY <2>2, <3>4, <3>5, BringsDelivered
    <3> QED
      BY <1>1, <2>1, <3>4, <3>6 DEF Continues
  <2>7. Delivers(c)'
    BY <2>1, <2>6 DEF Delivers, Asks, Asking
  <2> QED
    BY <2>4, <2>5, <2>7 DEF Served
<1>15. CASE SyncReturned(c)
  <2>1. PICK op \in {"ready", "gone", "closed"} : Return(c, op)
    BY <1>15 DEF SyncReturned
  <2>2. user'[c].op = op
    BY <1>5, <2>1
  <2>3. user[c].op \in {"opensession", "closesession"} /\ UNCHANGED <<outstanding, failing, rs, result, lapses>>
    BY <1>15 DEF SyncReturned
  <2>4. user[c].op \notin Asking /\ user'[c].op \notin Asking \cup {"new"} /\ user[c].op # "new"
    BY <2>2, <2>3 DEF Asking
  <2>5. UNCHANGED <<chan, toServer, toClient>> \/ (Writable(c) /\ shut(c, "broken"))
    BY <1>15 DEF SyncReturned
  <2>6. CASE UNCHANGED <<chan, toServer, toClient>>
    BY <1>1, <1>3, <2>3, <2>4, <2>6, ServedIdle
  <2>7. CASE Writable(c) /\ shut(c, "broken")
    <3>1. /\ chan[c] = "open" /\ chan'[c] = "broken" /\ toServer'[c] = <<>> /\ toClient'[c] = <<>>
      BY <1>0, <2>7 DEF Writable, shut, ChannelTypeOK
    <3> QED
      BY <1>3, <2>3, <2>4, <3>1, ElemsEmpty, ServedBroken
  <2> QED
    BY <2>5, <2>6, <2>7
<1>16. CASE TimesOut(c)
  <2>1. /\ user'[c].op \in {"gone", "ready"} /\ user[c].op # "new"
        /\ lapses'[c] = lapses[c] + 1
        /\ UNCHANGED <<chan, outstanding, failing, toServer, toClient>>
    BY <1>0, <1>5, <1>16 DEF TimesOut, channelVars
  <2>2. lapses'[c] # 0
    BY <1>0, <2>1 DEF ClientTypeOK
  <2>3. Wired(c)'
    BY <1>3, <2>1 DEF Wired, Asking
  <2> QED
    BY <2>2, <2>3, ServedLapsed
<1> QED
  BY <1>8, <1>10, <1>11, <1>12, <1>13, <1>14, <1>15, <1>16 DEF UserStep

LEMMA ServedCancel ==
  ASSUME TypesInv, JdbcInv, ServedInv, NEW c \in Conn, CancelStep(c)
  PROVE  ServedInv'
<1>0. /\ ChannelTypeOK /\ ClientTypeOK /\ requests \in Nat /\ DOMAIN result = Conn /\ DOMAIN lapses = Conn
  BY DEF TypesInv, JdbcTypeOK, ClientTypeOK
<1>1. UNCHANGED <<tasks, runner, user, rs>>
  BY DEF CancelStep, cancel, CancelReturned, CancelsResult, sessionVars
<1>2. ASSUME NEW d \in Conn, d # c
      PROVE  Served(d)'
  <2>1. \/ UNCHANGED <<chan, outstanding, failing, toServer, toClient>>
        \/ \E req, own : send(c, req, own)
    BY DEF CancelStep, cancel, CancelReturned, CancelsResult, channelVars
  <2>2. /\ toServer'[d] = toServer[d] /\ toClient'[d] = toClient[d] /\ chan'[d] = chan[d]
        /\ outstanding'[d] = outstanding[d] /\ failing'[d] = failing[d]
    BY <1>0, <1>2, <2>1 DEF send, ChannelTypeOK
  <2>3. result'[d] = result[d] /\ lapses'[d] = lapses[d]
    BY <1>0, <1>2 DEF CancelStep, cancel, CancelReturned, CancelsResult
  <2> QED
    BY <1>1, <2>2, <2>3, ServedElsewhere DEF ServedInv
<1>3. Served(c) /\ Wired(c)
  BY DEF ServedInv, Served
<1>4. SUFFICES Served(c)'
  BY <1>2 DEF ServedInv
<1>5. CASE cancel(c)
  <2> DEFINE req == [id |-> requests + 1, kind |-> "ExecuteCancel"]
  <2>1. req \in Request /\ req.kind \notin Queries /\ req.id = requests + 1
    BY <1>0 DEF Request, RequestId, Queries
  <2>2. /\ user[c].op \in {"execute", "next"} /\ send(c, req, TRUE) /\ UNCHANGED <<result, lapses>>
    BY <1>5 DEF cancel
  <2> HIDE DEF req
  <2>3. /\ UNCHANGED <<chan, toClient>>
        /\ chan[c] = "open" => failing'[c] = failing[c]
        /\ Elems(toServer'[c]) \subseteq Elems(toServer[c]) \cup {req}
        /\ outstanding'[c] \subseteq outstanding[c] \cup {[id |-> req.id, own |-> TRUE]}
    BY <1>0, <2>1, <2>2, SendAdds
  <2>4. req.id # user[c].id
    BY <1>0, <2>1 DEF JdbcInv, Apart, ClientTypeOK
  <2>5. \A e \in outstanding'[c] \ outstanding[c] : e.own
    BY <2>3
  <2>6. \A r \in Elems(toServer'[c]) \ Elems(toServer[c]) : r.kind \notin Queries /\ r.id # user[c].id
    BY <2>1, <2>3, <2>4
  <2> QED
    BY <1>1, <1>3, <2>2, <2>3, <2>5, <2>6, ServedIdle
<1>6. CASE CancelReturned(c) \/ (CancelsResult(c) /\ result[c].set)
  <2>1. UNCHANGED <<chan, outstanding, failing, toServer, toClient, result, lapses>>
    BY <1>6 DEF CancelReturned, CancelsResult, channelVars
  <2> QED
    BY <1>1, <1>3, <2>1, ServedElsewhere
<1>7. CASE CancelsResult(c) /\ ~ result[c].set
  <2>1. /\ UNCHANGED <<chan, outstanding, failing, toServer, toClient>>
        /\ lapses'[c] = lapses[c] + 1
    BY <1>0, <1>7 DEF CancelsResult, channelVars
  <2>2. lapses'[c] # 0
    BY <1>0, <2>1 DEF ClientTypeOK
  <2>3. Wired(c)'
    BY <1>1, <1>3, <2>1 DEF Wired
  <2> QED
    BY <2>2, <2>3, ServedLapsed
<1> QED
  BY <1>5, <1>6, <1>7 DEF CancelStep

-----------------------------------------------------------------------------
(* The application's steps                                                 *)

\* The application matters to a connection only while its channel is open and no call of it
\* has lapsed.
LEMMA ServedServer ==
  ASSUME NEW c, Served(c), user[c].op # "new",
         user'[c] = user[c], result'[c] = result[c], rs'[c] = rs[c], lapses'[c] = lapses[c],
         chan'[c] = chan[c], failing'[c] = failing[c],
         Elems(toServer'[c]) \subseteq Elems(toServer[c]),
         chan[c] # "open" => toClient'[c] = toClient[c],
         chan[c] = "open" /\ lapses[c] = 0 => OneQuery(c)' /\ Delivers(c)'
  PROVE  Served(c)'
<1>1. Wired(c)
  BY DEF Served
<1>2. Wired(c)'
  BY <1>1 DEF Wired
<1>3. CASE chan[c] # "open"
  BY <1>1, <1>3, ServedBroken DEF Wired
<1>4. CASE lapses[c] # 0
  BY <1>2, <1>4, ServedLapsed
<1> QED
  BY <1>2, <1>3, <1>4 DEF Served

LEMMA ServedReceives ==
  ASSUME TypesInv, OrderlyInv, ServedInv, NEW c \in Conn, Receives(c)
  PROVE  ServedInv'
<1> DEFINE req == Head(toServer[c])
<1>0. ChannelTypeOK
  BY DEF TypesInv, JdbcTypeOK
<1>1. /\ UNCHANGED <<chan, outstanding, failing, user, result, rs, lapses>>
      /\ toServer[c] # <<>> /\ toServer' = [toServer EXCEPT ![c] = Tail(@)]
  BY DEF Receives, receive, clientVars
<1>2. UNCHANGED runner
  BY DEF Receives, receive, handleOpenSession, handleCloseSession, handleExecute,
     handleExecuteResult, handleExecuteCancel, SessionLost, sessionVars
<1>3. /\ toServer'[c] = Tail(toServer[c])
      /\ \A d \in Conn : d # c => toServer'[d] = toServer[d]
  BY <1>0, <1>1 DEF ChannelTypeOK
<1>4. /\ req \in Request /\ req \in Elems(toServer[c])
      /\ Elems(toServer[c]) = Elems(toServer'[c]) \cup {req}
      /\ Distinct(toServer[c]) => \A r \in Elems(toServer'[c]) : r.id # req.id
  <2>1. toServer[c] \in Seq(Request)
    BY <1>0 DEF ChannelTypeOK
  <2> QED
    BY <1>1, <1>3, <2>1, ElemsTail
<1> HIDE DEF req
<1>5. req.id \in RequestId /\ (req.kind = "Execute" => req.batch \in Batch)
  BY <1>4 DEF Request
<1>6. Served(c) /\ Wired(c) /\ OneQuery(c) /\ Delivers(c) /\ InOnePlace(c)
  BY DEF ServedInv, Served, OrderlyInv, Orderly
<1>7. user[c].op # "new"
  BY <1>1, <1>6 DEF Wired
<1>8. /\ Asks(c)' <=> Asks(c)
      /\ Sound(c)' <=> Sound(c)
      /\ \A rows, more : Continues(c, rows, more)' <=> Continues(c, rows, more)
      /\ Sent(c)' \subseteq Sent(c)
  BY <1>1, <1>2, <1>4 DEF Asks, Sound, Continues, Sent
<1>9. ASSUME NEW reply \in Reply, Respond(c, req.id, reply), UNCHANGED tasks,
             reply.ok => req.kind \notin Queries
      PROVE  ServedInv'
  <2> DEFINE m == [id |-> req.id, reply |-> reply]
  <2>1. /\ \A d \in Conn : d # c => toClient'[d] = toClient[d]
        /\ chan[c] # "open" => toClient'[c] = toClient[c]
        /\ Elems(toClient'[c]) \subseteq Elems(toClient[c]) \cup {m}
    BY <1>0, <1>5, <1>9, RespondAdds
  <2>2. m.id = req.id /\ m.reply = reply
    OBVIOUS
  <2> HIDE DEF m
  <2>3. \A d \in Conn : d # c => Served(d)'
    BY <1>1, <1>2, <1>3, <1>9, <2>1, ServedElsewhere DEF ServedInv
  <2>4. Work(c)' = Work(c)
    BY <1>9 DEF Work
  <2>5. OneQuery(c)'
    BY <1>1, <1>6, <1>8, <2>4 DEF OneQuery
  <2>6. user[c].op \in Asking => ~ (m.id = user[c].id /\ m.reply.ok)
    BY <1>4, <1>6, <1>9, <2>2 DEF Wired
  <2>7. Asks(c) => user[c].op \in Asking
    BY DEF Asks
  <2>8. Delivers(c)'
    BY <1>1, <1>2, <1>6, <1>8, <2>1, <2>4, <2>6, <2>7 DEF Delivers
  <2>9. Served(c)'
    BY <1>1, <1>4, <1>6, <1>7, <2>1, <2>5, <2>8, ServedServer
  <2> QED
    BY <2>3, <2>9 DEF ServedInv
<1>10. ASSUME NEW phase, NEW batch, Start(c, req, phase, batch), UNCHANGED toClient,
              \/ phase = "open"
              \/ phase = "query" /\ req.kind = "Execute" /\ batch = req.batch
              \/ phase = "fetch" /\ req.kind = "ExecuteResult"
       PROVE  ServedInv'
  <2> DEFINE new == [conn |-> c, id |-> req.id, sid |-> sessionIdOf(c), phase |-> phase,
                     left |-> IF batch = None THEN <<>> ELSE batch.sqls, batch |-> batch, rows |-> <<>>]
  <2>1. /\ new.conn = c /\ new.id = req.id /\ new.phase = phase /\ new.batch = batch /\ new.rows = <<>>
        /\ batch # None => new.left = batch.sqls
    OBVIOUS
  <2>2. tasks' = tasks \cup {new}
    BY <1>10 DEF Start
  <2> HIDE DEF new
  <2>3. \A d \in Conn : d # c => Served(d)'
    BY <1>1, <1>2, <1>3, <1>10, <2>1, <2>2, ServedElsewhere DEF ServedInv
  <2>4. ASSUME chan[c] = "open", lapses[c] = 0
        PROVE  OneQuery(c)' /\ Delivers(c)'
    <3>1. CASE phase = "open"
      <4>1. Work(c)' = Work(c)
        BY <2>1, <2>2, <3>1 DEF Work
      <4>2. OneQuery(c)'
        BY <1>1, <1>6, <1>8, <4>1 DEF OneQuery
      <4>3. Delivers(c)'
        BY <1>1, <1>2, <1>6, <1>8, <1>10, <4>1 DEF Delivers
      <4> QED
        BY <4>2, <4>3
    <3>2. ASSUME req.kind \in Queries, phase # "open"
          PROVE  /\ Asks(c) /\ req.id = user[c].id /\ req \in Sent(c)
                 /\ Sent(c)' = {} /\ Work(c)' = {new}
      <4>1. req \in Sent(c) /\ Asks(c) /\ req.id = user[c].id
        BY <1>4, <1>6, <2>4, <3>2 DEF OneQuery, Sent
      <4>2. \A r \in Sent(c)' : r.id # req.id
        BY <1>4, <1>6 DEF Sent, InOnePlace
      <4>3. \A r \in Sent(c) : r.id = req.id
        BY <1>6, <2>4, <4>1 DEF OneQuery
      <4>4. \A t \in Work(c) : t.id # req.id
        BY <1>4, <1>6 DEF Work, InOnePlace
      <4>5. \A t \in Work(c) : t.id = req.id
        BY <1>6, <2>4, <4>1 DEF OneQuery
      <4>6. Work(c)' = Work(c) \cup {new}
        BY <2>1, <2>2, <3>2 DEF Work
      <4> QED
        BY <1>8, <4>1, <4>2, <4>3, <4>4, <4>5, <4>6
    <3>3. CASE phase = "query" /\ req.kind = "Execute" /\ batch = req.batch
      <4>1. /\ Asks(c) /\ req.id = user[c].id /\ req \in Sent(c)
            /\ Sent(c)' = {} /\ Work(c)' = {new}
        BY <3>2, <3>3 DEF Queries
      <4>2. user[c].op = "execute" /\ req.batch = rs[c].batch
        BY <1>6, <2>4, <3>3, <4>1 DEF OneQuery, Asks, Asking
      <4>3. Ready(runner[c], new)
        <5>1. new.left = req.batch.sqls
          BY <1>5, <2>1, <3>3, ChannelAssumption
        <5> QED
          BY <2>1, <3>3, <5>1 DEF Ready, Final
      <4>4. OneQuery(c)'
        BY <1>1, <1>6, <1>8, <2>1, <2>4, <3>3, <4>1, <4>2 DEF OneQuery
      <4>5. Delivers(c)'
        BY <1>1, <1>2, <1>6, <1>8, <1>10, <4>1, <4>2, <4>3 DEF Delivers, Asking
      <4> QED
        BY <4>4, <4>5
    <3>4. CASE phase = "fetch" /\ req.kind = "ExecuteResult"
      <4>1. /\ Asks(c) /\ req.id = user[c].id /\ req \in Sent(c)
            /\ Sent(c)' = {} /\ Work(c)' = {new}
        BY <3>2, <3>4 DEF Queries
      <4>2. user[c].op = "next"
        BY <1>6, <2>4, <3>4, <4>1 DEF OneQuery, Asks, Asking
      <4>3. Sound(c) => Continues(c, <<>>, TRUE)
        BY <1>6, <2>4, <4>1, <4>2 DEF Delivers
      <4>4. OneQuery(c)'
        BY <1>1, <1>6, <1>8, <2>1, <2>4, <3>4, <4>1, <4>2 DEF OneQuery
      <4>5. Delivers(c)'
        BY <1>1, <1>2, <1>6, <1>8, <1>10, <2>1, <4>1, <4>2, <4>3 DEF Delivers, Asking
      <4> QED
        BY <4>4, <4>5
    <3> QED
      BY <1>10, <3>1, <3>3, <3>4
  <2>5. Served(c)'
    BY <1>1, <1>4, <1>6, <1>7, <1>10, <2>4, ServedServer
  <2> QED
    BY <2>3, <2>5 DEF ServedInv
<1>11. Failure \in Reply /\ ~ Failure.ok /\ Success(<<>>, FALSE) \in Reply
  BY ReplyTypes, EmptySeq
<1>12. CASE SessionLost(c, req)
  BY <1>9, <1>11, <1>12 DEF SessionLost, sessionVars
<1>13. CASE req.kind = "OpenSession" /\ handleOpenSession(c, req)
  BY <1>10, <1>13 DEF handleOpenSession
<1>14. CASE req.kind = "CloseSession" /\ handleCloseSession(c, req)
  BY <1>9, <1>11, <1>14 DEF handleCloseSession, Queries
<1>15. CASE req.kind = "Execute" /\ handleExecute(c, req)
  BY <1>10, <1>12, <1>15 DEF handleExecute
<1>16. CASE req.kind = "ExecuteResult" /\ handleExecuteResult(c, req)
  BY <1>10, <1>12, <1>16 DEF handleExecuteResult
<1>17. CASE req.kind = "ExecuteCancel" /\ handleExecuteCancel(c, req)
  BY <1>9, <1>11, <1>12, <1>17 DEF handleExecuteCancel, sessionVars, Queries
<1> QED
  BY <1>13, <1>14, <1>15, <1>16, <1>17 DEF Receives, receive, req

LEMMA TailEnds ==
  ASSUME NEW s \in Seq(Stmt), s # <<>>
  PROVE  /\ Len(s) # 1 => Tail(s)[Len(Tail(s))] = s[Len(s)]
         /\ Len(s) = 1 => Head(s) = s[Len(s)]
         /\ ~ (Len(s) > 1) => Len(s) = 1
<1>1. /\ Len(s) \in Nat /\ Len(s) # 0 /\ Len(Tail(s)) = Len(s) - 1 /\ Head(s) = s[1]
      /\ \A i \in 1..Len(Tail(s)) : Tail(s)[i] = s[i + 1]
  BY HeadTailProperties, LenProperties, EmptySeq
<1>2. Len(s) # 1 => Len(Tail(s)) \in 1..Len(Tail(s)) /\ Len(Tail(s)) + 1 = Len(s)
  BY <1>1
<1> QED
  BY <1>1, <1>2

\* A task answers, or goes on, in a way that keeps what it owes the connection.
LEMMA ServedTask ==
  ASSUME TypesInv, OrderlyInv, ServedInv, NEW c \in Conn, NEW t \in tasks, t.conn = c,
         t.id \in RequestId,
         UNCHANGED <<chan, outstanding, failing, toServer, user, result, rs, lapses>>,
         \A d \in Conn : d # c => runner'[d] = runner[d],
         t.phase = "open" => runner'[c] = runner[c],
         \/ \E reply \in Reply :
              /\ Finish(t, reply)
              /\ chan[c] = "open" /\ lapses[c] = 0 /\ t.phase # "open" /\ Sound(c) /\ reply.ok =>
                   Brings(c, rs[c], runner'[c], "open", reply.rows, reply.more)
         \/ \E u :
              /\ Replace(t, u) /\ u.conn = c /\ u.id = t.id /\ u.phase # "open" /\ t.phase # "open"
              /\ UNCHANGED toClient
              /\ t.phase # "fetch" => u.phase # "fetch" /\ u.batch = t.batch
              /\ t.phase = "fetch" => u.phase = "fetch"
              /\ chan[c] = "open" /\ lapses[c] = 0 /\ Sound(c) =>
                   /\ t.phase # "fetch" => Ready(runner'[c], u)
                   /\ t.phase = "fetch" => Brings(c, rs[c], runner'[c], "open", u.rows, TRUE)
  PROVE  ServedInv'
<1>0. ChannelTypeOK
  BY DEF TypesInv, JdbcTypeOK
<1>1. Served(c) /\ Wired(c) /\ OneQuery(c) /\ Delivers(c) /\ InOnePlace(c) /\ OpensOnce(c)
  BY DEF ServedInv, Served, OrderlyInv, Orderly
<1>2. user[c].op # "new"
  BY <1>1 DEF Wired
<1>3. Sent(c)' = Sent(c) /\ (Asks(c)' <=> Asks(c)) /\ (Sound(c)' <=> Sound(c))
  BY DEF Sent, Asks, Sound
<1>4. ASSUME chan[c] = "open", lapses[c] = 0, t.phase # "open"
      PROVE  /\ Asks(c) /\ user[c].op \in Asking /\ ~ result[c].set /\ t.id = user[c].id
             /\ Sent(c) = {} /\ Work(c) = {t}
             /\ \A m \in Elems(toClient[c]) : m.id # user[c].id
             /\ user[c].op = "execute" => t.phase # "fetch" /\ t.batch = rs[c].batch
             /\ user[c].op = "next" => t.phase = "fetch"
  <2>1. t \in Work(c)
    BY <1>4 DEF Work
  <2>2. /\ Asks(c) /\ t.id = user[c].id
        /\ \A x \in Sent(c) \cup Work(c) : x.id = t.id
    BY <1>1, <1>4, <2>1 DEF OneQuery
  <2>3. \A r \in Sent(c) : r.id # t.id
    BY <1>1 DEF InOnePlace, Sent
  <2>4. \A u \in Work(c) : u.id = t.id => u = t
    BY <1>1 DEF InOnePlace, Work
  <2>5. \A m \in Elems(toClient[c]) : m.id # t.id
    BY <1>1 DEF InOnePlace
  <2>6. /\ user[c].op = "execute" => t.phase # "fetch" /\ t.batch = rs[c].batch
        /\ user[c].op = "next" => t.phase = "fetch"
    BY <1>1, <1>4, <2>1 DEF OneQuery
  <2>7. user[c].op \in Asking /\ ~ result[c].set
    BY <2>2 DEF Asks
  <2>8. Sent(c) = {} /\ Work(c) = {t}
    BY <2>1, <2>2, <2>3, <2>4
  <2> QED
    BY <2>2, <2>5, <2>6, <2>7, <2>8
<1>5. ASSUME NEW reply \in Reply, Finish(t, reply),
             chan[c] = "open" /\ lapses[c] = 0 /\ t.phase # "open" /\ Sound(c) /\ reply.ok =>
               Brings(c, rs[c], runner'[c], "open", reply.rows, reply.more)
      PROVE  ServedInv'
  <2> DEFINE m == [id |-> t.id, reply |-> reply]
  <2>1. tasks' = tasks \ {t} /\ (Respond(c, t.id, reply) \/ UNCHANGED toClient)
    BY <1>5 DEF Finish
  <2>2. /\ \A d \in Conn : d # c => toClient'[d] = toClient[d]
        /\ chan[c] # "open" => toClient'[c] = toClient[c]
        /\ Elems(toClient'[c]) \subseteq Elems(toClient[c]) \cup {m}
    BY <1>0, <1>5, <2>1, RespondAdds
  <2>3. m.id = t.id /\ m.reply = reply
    OBVIOUS
  <2> HIDE DEF m
  <2>4. \A d \in Conn : d # c => Served(d)'
    BY <2>1, <2>2, ServedElsewhere DEF ServedInv
  <2>5. ASSUME chan[c] = "open", lapses[c] = 0, t.phase # "open"
        PROVE  OneQuery(c)' /\ Delivers(c)'
    <3>1. Work(c)' = {} /\ Sent(c)' = {}
      BY <1>3, <1>4, <2>1, <2>5 DEF Work
    <3>2. OneQuery(c)'
      BY <1>1, <1>3, <2>5, <3>1 DEF OneQuery
    <3>3. Sound(c) /\ m.reply.ok => Continues(c, m.reply.rows, m.reply.more)'
      BY <1>5, <2>3, <2>5 DEF Continues
    <3>4. \A x \in Elems(toClient'[c]) : x.id = user[c].id => x = m
      BY <1>4, <2>2, <2>5
    <3>5. Delivers(c)'
      BY <1>1, <1>3, <1>4, <2>5, <3>1, <3>3, <3>4 DEF Delivers
    <3> QED
      BY <3>2, <3>5
  <2>6. ASSUME chan[c] = "open", lapses[c] = 0, t.phase = "open"
        PROVE  OneQuery(c)' /\ Delivers(c)'
    <3>1. Work(c)' = Work(c)
      BY <2>1, <2>6 DEF Work
    <3>2. OneQuery(c)'
      BY <1>1, <1>3, <3>1 DEF OneQuery
    <3>3. user[c].op \notin Asking
      BY <1>1, <2>6 DEF OpensOnce, NoOpening, Asking
    <3>4. ~ Asks(c)
      BY <3>3 DEF Asks
    <3>5. \A rows, more : Continues(c, rows, more)' <=> Continues(c, rows, more)
      BY <2>6 DEF Continues
    <3>6. Delivers(c)'
      BY <1>1, <1>3, <3>3, <3>4, <3>5 DEF Delivers, Asking
    <3> QED
      BY <3>2, <3>6
  <2>7. Served(c)'
    BY <1>1, <1>2, <2>2, <2>5, <2>6, ServedServer
  <2> QED
    BY <2>4, <2>7 DEF ServedInv
<1>6. ASSUME NEW u, Replace(t, u), u.conn = c, u.id = t.id, u.phase # "open", t.phase # "open",
             UNCHANGED toClient,
             t.phase # "fetch" => u.phase # "fetch" /\ u.batch = t.batch,
             t.phase = "fetch" => u.phase = "fetch",
             chan[c] = "open" /\ lapses[c] = 0 /\ Sound(c) =>
               /\ t.phase # "fetch" => Ready(runner'[c], u)
               /\ t.phase = "fetch" => Brings(c, rs[c], runner'[c], "open", u.rows, TRUE)
      PROVE  ServedInv'
  <2>1. tasks' = (tasks \ {t}) \cup {u}
    BY <1>6 DEF Replace
  <2>2. \A d \in Conn : d # c => Served(d)'
    BY <1>6, <2>1, ServedElsewhere DEF ServedInv
  <2>3. ASSUME chan[c] = "open", lapses[c] = 0
        PROVE  OneQuery(c)' /\ Delivers(c)'
    <3>1. Work(c)' = {u} /\ Sent(c)' = {}
      BY <1>3, <1>4, <1>6, <2>1, <2>3 DEF Work
    <3>2. OneQuery(c)'
      BY <1>1, <1>3, <1>4, <1>6, <2>3, <3>1 DEF OneQuery
    <3>3. user[c].op = "next" /\ Sound(c) => Continues(c, u.rows, TRUE)'
      BY <1>4, <1>6, <2>3 DEF Continues
    <3>4. user[c].op = "execute" /\ Sound(c) => Ready(runner'[c], u)
      BY <1>4, <1>6, <2>3
    <3>5. Delivers(c)'
      BY <1>1, <1>3, <1>4, <1>6, <2>3, <3>1, <3>3, <3>4 DEF Delivers
    <3> QED
      BY <3>2, <3>5
  <2>4. Served(c)'
    BY <1>1, <1>2, <1>6, <2>3, ServedServer
  <2> QED
    BY <2>2, <2>4 DEF ServedInv
<1> QED
  BY <1>5, <1>6

LEMMA ServedRuns ==
  ASSUME TypesInv, OwnInv, OrderlyInv, ServedInv, NEW t \in tasks, Runs(t)
  PROVE  ServedInv'
<1> DEFINE c == t.conn
           Live == chan[c] = "open" /\ lapses[c] = 0 /\ Sound(c)
<1>0. /\ t \in Task /\ c \in Conn /\ t.id \in RequestId /\ t.sid = c
      /\ t.left \in Seq(Stmt) /\ t.rows \in Seq(Row) /\ Shaped(t)
      /\ runner \in [Conn -> RunnerFields] /\ runner[c] \in RunnerFields
  BY DEF TypesInv, JdbcTypeOK, SessionsTypeOK, OwnInv, Task
<1>1. UNCHANGED <<chan, outstanding, failing, toServer, user, result, rs, lapses>>
  BY DEF Runs, TaskStep, SessionOpens, TaskFails, QueryStarts, CommandRuns, StatementRuns,
     StatementAnswers, FetchRow, FetchEnds, Quietly, clientVars
<1>2. \A d \in Conn : d # c => runner'[d] = runner[d]
  BY <1>0 DEF Runs, TaskStep, SessionOpens, TaskFails, QueryStarts, CommandRuns, StatementRuns,
     StatementAnswers, FetchRow, FetchEnds
<1>3. t.phase = "open" => runner'[c] = runner[c]
  BY DEF Runs, TaskStep, SessionOpens, TaskFails, QueryStarts, CommandRuns, StatementRuns,
     StatementAnswers, FetchRow, FetchEnds
<1> HIDE DEF c
<1>4. t.conn = c
  BY DEF c
<1>5. ASSUME NEW reply \in Reply, Finish(t, reply),
             Live /\ t.phase # "open" /\ reply.ok => Brings(c, rs[c], runner'[c], "open", reply.rows, reply.more)
      PROVE  ServedInv'
  BY <1>0, <1>1, <1>2, <1>3, <1>4, <1>5, ServedTask
<1>6. ASSUME NEW u, Replace(t, u), u.conn = c, u.id = t.id, u.phase # "open", t.phase # "open",
             UNCHANGED toClient,
             t.phase # "fetch" => u.phase # "fetch" /\ u.batch = t.batch,
             t.phase = "fetch" => u.phase = "fetch",
             Live => /\ t.phase # "fetch" => Ready(runner'[c], u)
                     /\ t.phase = "fetch" => Brings(c, rs[c], runner'[c], "open", u.rows, TRUE)
      PROVE  ServedInv'
  BY <1>0, <1>1, <1>2, <1>3, <1>4, <1>6, ServedTask
<1>7. ASSUME Live, t.phase # "open"
      PROVE  /\ rs[c] \in ResultSet
             /\ t.phase # "fetch" =>
                  /\ t.batch = rs[c].batch /\ rs[c].rows = <<>>
                  /\ Ready(runner[c], t)
             /\ t.phase = "fetch" => Brings(c, rs[c], runner[c], "open", t.rows, TRUE)
  <2>1. OneQuery(c) /\ Delivers(c)
    BY <1>0 DEF ServedInv, Served
  <2>2. t \in Work(c)
    BY <1>4, <1>7 DEF Work
  <2>3. Asks(c) /\ user[c].op \in Asking
    BY <1>7, <2>1, <2>2 DEF OneQuery, Asks
  <2>4. /\ user[c].op = "execute" => t.phase # "fetch" /\ t.batch = rs[c].batch
        /\ user[c].op = "next" => t.phase = "fetch"
    BY <1>7, <2>1, <2>2 DEF OneQuery
  <2>5. user[c].op = "execute" => rs[c].rows = <<>> /\ Ready(runner[c], t)
    BY <1>7, <2>1, <2>2, <2>3 DEF Delivers
  <2>6. user[c].op = "next" => Brings(c, rs[c], runner[c], "open", t.rows, TRUE)
    BY <1>7, <2>1, <2>2, <2>3 DEF Delivers, Continues
  <2>7. rs[c] \in ResultSet
    BY <1>0, <2>3 DEF TypesInv, Asking
  <2> QED
    BY <2>3, <2>4, <2>5, <2>6, <2>7 DEF Asking
<1>8. Failure \in Reply /\ ~ Failure.ok
  BY ReplyTypes
<1> HIDE DEF Live
<1>9. CASE SessionOpens(t)
  <2>1. t.phase = "open" /\ Finish(t, Success(<<>>, FALSE)) /\ Success(<<>>, FALSE) \in Reply
    BY <1>9, ReplyTypes, EmptySeq DEF SessionOpens
  <2> QED
    BY <1>5, <2>1
<1>10. CASE TaskFails(t)
  BY <1>5, <1>8, <1>10 DEF TaskFails
<1>11. CASE QueryStarts(t)
  <2> DEFINE u == [t EXCEPT !.phase = "run"]
  <2>1. t.phase = "query" /\ Replace(t, u) /\ UNCHANGED toClient
    BY <1>11 DEF QueryStarts
  <2>2. u.conn = c /\ u.id = t.id /\ u.phase = "run" /\ u.batch = t.batch /\ u.left = t.left
    BY <1>0, <1>4 DEF Task
  <2> HIDE DEF u
  <2>3. runner'[c].maxRows = Limit(t.batch)
    BY <1>0, <1>11 DEF QueryStarts, Limit, RunnerFields
  <2>4. Live => Ready(runner'[c], u)
    BY <1>7, <2>1, <2>2, <2>3 DEF Ready
  <2> QED
    BY <1>6, <2>1, <2>2, <2>4
<1>12. CASE CommandRuns(t)
  <2>1. t.phase = "run" /\ Head(t.left) \in MbCommand /\ UNCHANGED runner
    BY <1>12 DEF CommandRuns
  <2>2. t.left # <<>>
    BY <1>0, <2>1 DEF Shaped
  <2>3. CASE Len(t.left) = 1
    <3> DEFINE s == t.left[1]
               reply == Success(Rows(c, s, rowsOf[s]), FALSE)
    <3>1. Finish(t, reply)
      BY <1>4, <1>12, <2>3 DEF CommandRuns
    <3>2. Head(t.left) = t.left[Len(t.left)]
      BY <1>0, <2>2, <2>3, TailEnds
    <3>3. s = t.left[Len(t.left)] /\ s \in MbCommand
      BY <2>1, <2>3, <3>2
    <3> HIDE DEF s
    <3>4. rowsOf[s] \in Nat /\ s \in Stmt
      BY <3>3, SessionsAssumption
    <3>5. Rows(c, s, rowsOf[s]) \in Seq(Row)
      BY <1>0, <3>4, RowsType
    <3>6. reply \in Reply /\ reply.rows = Rows(c, s, rowsOf[s]) /\ reply.more = FALSE
      BY <3>5, ReplyTypes
    <3> HIDE DEF reply
    <3>7. ASSUME Live
          PROVE  Brings(c, rs[c], runner'[c], "open", reply.rows, reply.more)
      <4>1. /\ rs[c] \in ResultSet /\ t.batch = rs[c].batch /\ rs[c].rows = <<>>
            /\ Ready(runner[c], t)
        BY <1>7, <2>1, <3>7
      <4>2. s = Final(rs[c].batch)
        BY <3>3, <4>1 DEF Ready
      <4>3. Brings(c, rs[c], runner'[c], "open", Rows(c, s, rowsOf[s]), FALSE)
        BY <1>0, <3>3, <4>1, <4>2, BringsCommand
      <4> QED
        BY <3>6, <4>3
    <3> QED
      BY <1>5, <3>1, <3>6, <3>7
  <2>4. CASE Len(t.left) # 1
    <3> DEFINE u == [t EXCEPT !.left = Tail(t.left)]
    <3>1. Replace(t, u) /\ UNCHANGED toClient
      BY <1>12, <2>4 DEF CommandRuns
    <3>2. u.conn = c /\ u.id = t.id /\ u.phase = "run" /\ u.batch = t.batch /\ u.left = Tail(t.left)
      BY <1>0, <1>4, <2>1 DEF Task
    <3> HIDE DEF u
    <3>3. Tail(t.left)[Len(Tail(t.left))] = t.left[Len(t.left)]
      BY <1>0, <2>2, <2>4, TailEnds
    <3>4. Live => Ready(runner'[c], u)
      BY <1>7, <2>1, <3>2, <3>3 DEF Ready
    <3> QED
      BY <1>6, <2>1, <3>1, <3>2, <3>4
  <2> QED
    BY <2>3, <2>4
<1>13. CASE StatementRuns(t)
  <2> DEFINE u == [t EXCEPT !.phase = "assigned"]
  <2>1. t.phase = "run" /\ Head(t.left) \notin MbCommand /\ Replace(t, u) /\ UNCHANGED toClient
    BY <1>13 DEF StatementRuns
  <2>2. /\ u.conn = c /\ u.id = t.id /\ u.phase = "assigned" /\ u.batch = t.batch /\ u.left = t.left
    BY <1>0, <1>4 DEF Task
  <2> HIDE DEF u
  <2>3. /\ runner'[c].maxRows = runner[c].maxRows /\ runner'[c].currentRowId = 0
        /\ runner'[c].currentData = sql(t.conn, Head(t.left), runner[c].maxRows)
    BY <1>0, <1>13 DEF StatementRuns, RunnerFields
  <2>4. Live => Ready(runner'[c], u)
    BY <1>4, <1>7, <2>1, <2>2, <2>3 DEF Ready
  <2> QED
    BY <1>6, <2>1, <2>2, <2>4
<1>14. CASE StatementAnswers(t)
  <2>1. t.phase = "assigned" /\ UNCHANGED runner
    BY <1>14 DEF StatementAnswers
  <2>2. t.left # <<>>
    BY <1>0, <2>1 DEF Shaped
  <2>3. CASE runner[c].currentData = None
    BY <1>0, <1>5, <1>8, <1>14, <2>3 DEF StatementAnswers
  <2>4. CASE runner[c].currentData # None /\ Len(t.left) > 1
    <3> DEFINE u == [t EXCEPT !.phase = "run", !.left = Tail(t.left)]
    <3>1. Replace(t, u) /\ UNCHANGED toClient
      BY <1>0, <1>14, <2>4 DEF StatementAnswers
    <3>2. u.conn = c /\ u.id = t.id /\ u.phase = "run" /\ u.batch = t.batch /\ u.left = Tail(t.left)
      BY <1>0, <1>4 DEF Task
    <3> HIDE DEF u
    <3>3. Tail(t.left)[Len(Tail(t.left))] = t.left[Len(t.left)]
      BY <1>0, <2>2, <2>4, TailEnds
    <3>4. Live => Ready(runner'[c], u)
      BY <1>7, <2>1, <3>2, <3>3 DEF Ready
    <3> QED
      BY <1>6, <2>1, <3>1, <3>2, <3>4
  <2>5. CASE runner[c].currentData # None /\ ~ (Len(t.left) > 1)
    <3> DEFINE more == runner[c].currentData # <<>>
               reply == Success(<<>>, more)
    <3>1. Finish(t, reply)
      BY <1>0, <1>14, <2>5 DEF StatementAnswers
    <3>2. Head(t.left) = t.left[Len(t.left)]
      BY <1>0, <2>2, <2>5, TailEnds
    <3>3. more \in BOOLEAN
      OBVIOUS
    <3> HIDE DEF more
    <3>4. reply \in Reply /\ reply.rows = <<>> /\ reply.more = more
      BY <3>3, ReplyTypes, EmptySeq
    <3> HIDE DEF reply
    <3>5. ASSUME Live
          PROVE  Brings(c, rs[c], runner'[c], "open", reply.rows, reply.more)
      <4>1. /\ rs[c] \in ResultSet /\ t.batch = rs[c].batch /\ rs[c].rows = <<>>
            /\ Ready(runner[c], t)
        BY <1>7, <2>1, <3>5
      <4>2. /\ Final(rs[c].batch) \notin MbCommand /\ runner[c].maxRows = Limit(rs[c].batch)
            /\ runner[c].currentRowId = 0
            /\ runner[c].currentData = sql(c, Final(rs[c].batch), runner[c].maxRows)
        BY <1>4, <2>1, <3>2, <4>1 DEF Ready
      <4>3. Brings(c, rs[c], runner[c], "open", <<>>, runner[c].currentData # <<>>)
        BY <1>0, <4>1, <4>2, BringsFirst
      <4> QED
        BY <2>1, <3>4, <4>3 DEF more
    <3> QED
      BY <1>5, <3>1, <3>4, <3>5
  <2> QED
    BY <2>3, <2>4, <2>5
<1>15. CASE FetchRow(t)
  <2> DEFINE r == runner[c]
             u == [t EXCEPT !.rows = Append(t.rows, Head(r.currentData))]
  <2>1. /\ t.phase = "fetch" /\ r.currentData # None /\ hasNext(r)
        /\ Replace(t, u) /\ UNCHANGED toClient
    BY <1>0, <1>15 DEF FetchRow
  <2>2. u.conn = c /\ u.id = t.id /\ u.phase = "fetch" /\ u.rows = Append(t.rows, Head(r.currentData))
    BY <1>0, <1>4, <2>1 DEF Task
  <2> HIDE DEF u
  <2>3. /\ runner'[c].maxRows = r.maxRows /\ runner'[c].currentData = Tail(r.currentData)
        /\ runner'[c].currentRowId = r.currentRowId + 1
    BY <1>0, <1>15 DEF FetchRow, RunnerFields
  <2>4. r \in RunnerFields /\ r.currentData \in Seq(Row)
    BY <1>0, <2>1 DEF RunnerFields
  <2>5. Live => rs[c] \in ResultSet /\ Brings(c, rs[c], r, "open", t.rows, TRUE)
    BY <1>7, <2>1
  <2> HIDE DEF r
  <2>6. Live => Brings(c, rs[c], runner'[c], "open", Append(t.rows, Head(r.currentData)), TRUE)
    BY <1>0, <2>1, <2>3, <2>4, <2>5, BringsRow
  <2> QED
    BY <1>6, <2>1, <2>2, <2>6
<1>16. CASE FetchEnds(t)
  <2> DEFINE r == runner[c]
             more == hasNext(r)
             reply == Success(t.rows, more)
  <2>1. t.phase = "fetch"
    BY <1>16 DEF FetchEnds
  <2>2. CASE Finish(t, Failure)
    BY <1>5, <1>8, <2>2
  <2>3. CASE r.currentData # None /\ Finish(t, reply) /\ (more => UNCHANGED runner)
    <3>1. more \in BOOLEAN
      BY DEF hasNext
    <3>2. r \in RunnerFields /\ r.currentData \in Seq(Row)
      BY <1>0, <2>3 DEF RunnerFields
    <3>3. Live => rs[c] \in ResultSet /\ Brings(c, rs[c], r, "open", t.rows, TRUE)
      BY <1>7, <2>1
    <3>4. reply \in Reply /\ reply.rows = t.rows /\ reply.more = more
      <4> HIDE DEF more
      <4> QED
        BY <1>0, <3>1, ReplyTypes
    <3> HIDE DEF reply
    <3>5. CASE more
      <4>1. Live => Brings(c, rs[c], runner'[c], "open", t.rows, TRUE)
        BY <2>3, <3>3, <3>5
      <4> HIDE DEF more
      <4>2. reply.more = TRUE
        BY <3>1, <3>4, <3>5
      <4> QED
        BY <1>5, <2>3, <3>4, <4>1, <4>2
    <3>6. CASE ~ more
      <4>1. Live => Brings(c, rs[c], runner'[c], "open", t.rows, FALSE)
        <5> HIDE DEF r
        <5> QED
          BY <1>0, <3>2, <3>3, <3>6, BringsLast
      <4> HIDE DEF more
      <4>2. reply.more = FALSE
        BY <3>1, <3>4, <3>6
      <4> QED
        BY <1>5, <2>3, <3>4, <4>1, <4>2
    <3> QED
      BY <3>5, <3>6
  <2> QED
    BY <1>0, <1>16, <2>2, <2>3 DEF FetchEnds
<1> QED
  BY <1>9, <1>10, <1>11, <1>12, <1>13, <1>14, <1>15, <1>16 DEF Runs, TaskStep

-----------------------------------------------------------------------------
(* Result sets                                                             *)

LEMMA ServedInit == JdbcInit => ServedInv
<1>1. ASSUME JdbcInit, NEW c \in Conn
      PROVE  Served(c)
  <2>1. /\ toServer[c] = <<>> /\ toClient[c] = <<>> /\ outstanding[c] = {} /\ failing[c] = {}
        /\ tasks = {} /\ user[c].op = "new" /\ chan[c] = "none" /\ rs[c] = None
    BY <1>1 DEF JdbcInit, ChannelInit, SessionsInit
  <2>2. ~ Sound(c)
    BY <2>1 DEF Sound, Asking
  <2>3. Wired(c) /\ OneQuery(c)
    BY <2>1 DEF Wired, OneQuery, Asking
  <2> QED
    BY <2>2, <2>3 DEF Served, Delivers
<1> QED
  BY <1>1 DEF ServedInv

LEMMA ServedStep ==
  ASSUME TypesInv, OwnInv, OrderlyInv, JdbcInv, ServedInv, [JdbcNext]_jdbcVars
  PROVE  ServedInv'
<1>1. CASE UNCHANGED jdbcVars
  <2>1. UNCHANGED <<chan, toServer, toClient, outstanding, failing, user, result, rs, lapses, runner, tasks>>
    BY <1>1 DEF jdbcVars, channelVars, sessionVars, clientVars
  <2> QED
    BY <2>1, ServedElsewhere DEF ServedInv
<1> QED
  BY <1>1, ServedNetty, ServedUser, ServedCancel, ServedBreaks, ServedReceives, ServedRuns DEF JdbcNext

\* What has been delivered is the beginning of what is expected, and all of it at the end.
LEMMA ExactRows ==
  ASSUME NEW c \in Conn, NEW q \in ResultSet, NEW r, NEW ch, NEW more, Brings(c, q, r, ch, <<>>, more)
  PROVE  LET e == Expected(c, q.batch) IN
         /\ Len(q.rows) <= Len(e)
         /\ q.rows = SubSeq(e, 1, Len(q.rows))
         /\ ~ more => q.rows = e
<1> DEFINE rows == q.rows
           b == q.batch
           s == Final(b)
           k == Due(b)
           e == Rows(c, s, k)
           n == Len(rows)
<1>1. b \in Batch /\ rows \in Seq(Row) /\ n \in Nat /\ Len(<<>>) = 0
  BY LenProperties, EmptySeq DEF ResultSet
<1>2. Expected(c, b) = e
  BY DEF Expected, Due, Limit, Final
<1>3. s \in Stmt /\ k \in Nat
  BY <1>1, FinalType, Limits
<1>4. /\ Stretch(rows, c, s, 0) /\ n + Len(<<>>) <= k
      /\ ~ more => n + Len(<<>>) = k
  BY DEF Brings
<1> HIDE DEF rows, b, s, k, n
<1>5. e \in Seq(Row) /\ Len(e) = k /\ \A i \in 1..k : e[i] = [conn |-> c, stmt |-> s, n |-> i]
  BY <1>3, RowsType DEF Rows
<1> HIDE DEF e
<1>6. n <= k /\ (~ more => n = k)
  BY <1>1, <1>3, <1>4
<1>7. \A i \in 1..n : rows[i] = e[i]
  <2> SUFFICES ASSUME NEW i \in 1..n PROVE rows[i] = e[i]
    OBVIOUS
  <2>1. i \in 1..k /\ 0 + i = i
    BY <1>1, <1>3, <1>6
  <2>2. rows[i] = [conn |-> c, stmt |-> s, n |-> 0 + i]
    BY <1>4 DEF Stretch, n
  <2> QED
    BY <1>5, <2>1, <2>2
<1>8. n = k => rows = e
  BY <1>1, <1>5, <1>7, SeqEqual DEF n
<1>9. rows = SubSeq(e, 1, n)
  <2> DEFINE f == SubSeq(e, 1, n)
  <2>1. \A i \in 1..n : e[i] \in Row
    <3>1. \A i \in 1..n : i \in 1..Len(e)
      BY <1>1, <1>3, <1>5, <1>6
    <3> QED
      BY <1>5, <3>1, ElementOfSeq
  <2>2. f \in Seq(Row) /\ Len(f) = n /\ \A i \in 1..n : f[i] = e[1 + i - 1] /\ 1 + i - 1 = i
    BY <1>1, <1>3, <1>5, <1>6, <2>1, SubSeqProperties
  <2> HIDE DEF f
  <2>3. \A i \in 1..n : rows[i] = f[i]
    BY <1>7, <2>2
  <2>4. rows = f
    BY <1>1, <2>2, <2>3, SeqEqual DEF n
  <2> QED
    BY <2>4 DEF f
<1> QED
  BY <1>2, <1>5, <1>6, <1>8, <1>9 DEF rows, b, n

\* For any number of connections, statements, rows, fetches and broken channels: as long as no
\* call of a connection has lapsed, the result set that execute and next of MoonboxClient have
\* filled is the beginning of the rows of its last statement, each once and in order, and when
\* the application says that there are no more it has all of them, up to maxRows.
THEOREM ResultsAreExact == JdbcSpec => []ResultExact
<1>1. ASSUME TypesInv, ServedInv
      PROVE  ResultExact
  <2> SUFFICES ASSUME NEW c \in Conn, lapses[c] = 0, user[c].op = "ready", rs[c] # None, ~ rs[c].failed
               PROVE  LET e == Expected(c, rs[c].batch) IN
                      /\ Len(rs[c].rows) <= Len(e)
                      /\ rs[c].rows = SubSeq(e, 1, Len(rs[c].rows))
                      /\ ~ rs[c].more => rs[c].rows = e
    BY DEF ResultExact
  <2>1. rs[c] \in ResultSet
    BY <1>1 DEF TypesInv, JdbcTypeOK, ClientTypeOK
  <2>2. Delivers(c)
    BY <1>1 DEF ServedInv, Served
  <2>3. Brings(c, rs[c], runner[c], chan[c], <<>>, rs[c].more)
    BY <2>2 DEF Delivers, Sound, Asking, Continues
  <2> QED
    BY <2>1, <2>3, ExactRows
<1>2. TypesInv /\ OwnInv /\ OrderlyInv /\ JdbcInv /\ ServedInv /\ [JdbcNext]_jdbcVars => ServedInv'
  BY ServedStep
<1>3. JdbcInv /\ [JdbcNext]_jdbcVars => JdbcInv'
  BY InvNext
<1>4. TypesInv /\ ServedInv => ResultExact
  BY <1>1
<1> QED
  BY <1>2, <1>3, <1>4, InvInit, ServedInit, SessionsAlways, PTL DEF JdbcSpec
=============================================================================
