----------------------------- MODULE MCPushdown -----------------------------
(***************************************************************************)
(* All plans of up to MaxNodes nodes, and some of five, over tables in     *)
(* Presto, MySQL, Kudu, which is not even equal to itself, and Hive, which *)
(* runs no plans.                                                          *)
(***************************************************************************)
EXTENDS Pushdown

CONSTANTS presto, mysql, kudu, hive, MaxNodes

MCEquals == {<<Spark, Spark>>, <<presto, presto>>, <<mysql, mysql>>}

Op(kind, s, supportedBy, goodFor, rows) ==
  [kind |-> kind, children |-> <<>>, size |-> 1, system |-> s, supportedBy |-> supportedBy,
   goodFor |-> goodFor, rows |-> rows]

Table(s, rows) == Op("relation", s, {}, {}, rows)
Project == Op("unary", Spark, {presto, mysql, kudu}, {presto}, 2)
Aggregate == Op("unary", Spark, {presto, mysql}, {presto, mysql}, 1)
Foreign == Op("unary", Spark, {}, {}, 2)               \* an expression of Spark's own
InnerJoin == Op("join", Spark, {presto, mysql}, {presto, mysql}, 3)
FullJoin == Op("join", Spark, {}, {presto, mysql}, 3)
Intersect == Op("binary", Spark, {}, {}, 2)
UnionAll == Op("union", Spark, {presto}, {presto}, 4)
Command == Op("other", Spark, {}, {}, 2)               \* a command with children

\* One table is large, one has no statistics, one is read by Spark.
Leaves ==
  {Table(presto, 2), Table(mysql, 2), Table(mysql, 9), Table(kudu, Unknown), Table(hive, 2),
   Table(Spark, 2), Op("leaf", Spark, {}, {}, 1)}
Unaries == {Project, Aggregate, Foreign, UnionAll}
Binaries == {InnerJoin, FullJoin, Intersect, UnionAll, Command}

\* An operator put on one plan, or on two.
On(o, s) == Append(s, [o EXCEPT !.children = <<1>>, !.size = Len(s) + 1])
OnBoth(o, s, t) ==
  Append(s \o t, [o EXCEPT !.children = <<Len(t) + 1, 1>>, !.size = Len(s) + Len(t) + 1])

\* The plans of n nodes over given operators.
PlansOf(n, leaves, unaries, binaries) ==
  LET T[i \in 1..n] ==
        IF i = 1 THEN {<<o>> : o \in leaves}
        ELSE {On(o, s) : s \in T[i - 1], o \in unaries} \cup
             UNION {{OnBoth(o, s, t) : s \in T[j], t \in T[i - 1 - j], o \in binaries} :
                      j \in 1..(i - 2)}
  IN  T[n]

\* Plans of five nodes, as a join of two unary plans is, over the operators that matter most.
Larger ==
  PlansOf(5, {Table(presto, 2), Table(mysql, 2), Table(kudu, Unknown)}, {Aggregate, Foreign},
          {InnerJoin, Intersect, UnionAll, Command})

\* A subtree that is replaced, once more inside a larger one that is hidden; and a union of
\* three tables.
Counts == On(Aggregate, <<Table(presto, 2)>>)
Twins ==
  OnBoth(Intersect, OnBoth(FullJoin, On(Project, Counts), <<Table(presto, 2)>>),
         On(Foreign, Counts))
Three(s) ==
  Append(<<Table(presto, 2), Table(s, 2), Table(presto, 2)>>,
         [UnionAll EXCEPT !.children = <<3, 2, 1>>, !.size = 4])

MCPlan ==
  UNION {PlansOf(n, Leaves, Unaries, Binaries) : n \in 1..MaxNodes} \cup Larger \cup
    {Twins, Three(presto), Three(mysql)}
=============================================================================
