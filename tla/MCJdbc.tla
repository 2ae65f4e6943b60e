------------------------------- MODULE MCJdbc -------------------------------
(***************************************************************************)
(* Connections and batches for TLC.  A query of two rows is fetched row by *)
(* row, all of it or limited to one; a Spark command, which the session    *)
(* does not limit, has more rows than are asked for; a Moonbox command     *)
(* stands in front of it, and alone.                                       *)
(***************************************************************************)
EXTENDS JdbcClient

CONSTANTS c1, c2, s1, s2, k1

Whole == [sqls |-> <<s1>>, maxRows |-> -1, fetchSize |-> 1]
Limited == [sqls |-> <<s1>>, maxRows |-> 1, fetchSize |-> 1]
Mixed == [sqls |-> <<k1, s2>>, maxRows |-> 2, fetchSize |-> 3]
Single == [sqls |-> <<k1>>, maxRows |-> 0, fetchSize |-> 1]

MCBatch == {Whole, Limited, Mixed, Single}
MCRows == [s \in Stmt |-> CASE s = s1 -> 2 [] s = s2 -> 3 [] s = k1 -> 1]

\* Two corners of the state space: one connection with everything that can happen to it, and
\* two undisturbed connections whose queries and fetches interleave.  Netty's steps and the
\* returns of calls, which are fair, stay inside each.
Corner ==
  \/ user[c2].op = "new" /\ requests <= 4
  \/ /\ breaks = 0
     /\ \A c \in Conn : canceller[c].op = "none" /\ lapses[c] = 0
     /\ user[c2].op \notin {"next", "closesession"}
     /\ user[c1].op # "closesession"
     /\ \A c \in Conn : rs[c] # None => rs[c].batch = Whole
=============================================================================
