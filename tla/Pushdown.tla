------------------------------ MODULE Pushdown ------------------------------
(***************************************************************************)
(* The pushdown rule of the session engine.  It gives every node of an     *)
(* optimized logical plan a data system, bottom up, looks from the root    *)
(* for the largest subtrees that leave Spark, and hands the whole plan or  *)
(* those subtrees to the systems that hold the tables.                     *)
(*                                                                         *)
(* A plan is the sequence of its operators in postfix order, the order in  *)
(* which the recursion of buildDataSystemTree finishes them: node n is the *)
(* operator at position n, and its subtree is the positions Subtree(n).    *)
(***************************************************************************)
EXTENDS Integers, Sequences, FiniteSets

CONSTANTS
  System,        \* data systems, Spark and those that only hold tables included
  Spark,
  Pushdownable,  \* the systems that run plans
  equals,        \* pairs of systems for which fastEquals holds
  Plan,          \* plans, sequences of operators
  MaxCost,       \* the cost up to which a join is pushed down
  Unknown        \* the row count of an operator without statistics

\* children: how far before the operator its children are, from the first to the last; size:
\* the nodes of its subtree; supportedBy: the systems whose isSupport holds for the operator
\* and its expressions; goodFor: those that are good at its class; rows: the row count of its
\* statistics.
Operator ==
  [kind : {"relation", "leaf", "unary", "join", "binary", "union", "other"},
   children : Seq(Nat), size : Nat,
   system : System, supportedBy : SUBSET System, goodFor : SUBSET System,
   rows : Nat \cup {Unknown}]

\* The children an operator of kind k has.
Arities(k) ==
  CASE k \in {"relation", "leaf"} -> {0}
    [] k = "unary" -> {1}
    [] k \in {"join", "binary"} -> {2}
    [] k = "union" -> Nat \ {0}
    [] OTHER -> Nat

\* A tree in postfix order: the last child of a node stands right before it, each other one
\* right before the subtree of the next, and the subtree of the node begins with the first.
IsPlan(p) ==
  /\ p \in Seq(Operator) /\ p # <<>>
  /\ p[Len(p)].size = Len(p)
  /\ \A n \in 1..Len(p) :
       LET o == p[n]  k == Len(o.children) IN
       /\ k \in Arities(o.kind)
       /\ o.size \in 1..n
       /\ k = 0 => o.size = 1
       /\ \A i \in 1..k : o.children[i] \in 1..(n - 1)
       /\ k > 0 => o.children[k] = 1 /\ o.size = o.children[1] + p[n - o.children[1]].size
       /\ \A i \in 1..(k - 1) :
            o.children[i] = o.children[i + 1] + p[n - o.children[i + 1]].size

\* Systems that are equal are of one class, which says what it supports.
ASSUME PushdownAssumption ==
  /\ Spark \in Pushdownable /\ Pushdownable \subseteq System
  /\ equals \subseteq Pushdownable \X Pushdownable
  /\ \A s \in System : <<Spark, s>> \in equals <=> s = Spark
  /\ \A s, t \in System : <<s, t>> \in equals => <<t, s>> \in equals
  /\ \A s, t, u \in System : <<s, t>> \in equals /\ <<t, u>> \in equals => <<s, u>> \in equals
  /\ MaxCost \in Nat /\ Unknown \notin Nat
  /\ \A p \in Plan :
       /\ IsPlan(p)
       /\ \A n \in 1..Len(p), s, t \in System :
            <<s, t>> \in equals /\ s \in p[n].supportedBy => t \in p[n].supportedBy

VARIABLES
  plan,             \* the plan the rule is applied to
  tree,             \* the MbTreeNodes so far: data system, and the children it crosses to
  waitingForVisit,
  parents,
  outcome           \* what the rule makes of the plan

pushdownVars == <<plan, tree, waitingForVisit, parents, outcome>>

Root == Len(plan)
Start(n) == n - plan[n].size + 1
Subtree(n) == Start(n)..n

Child(n, i) == n - plan[n].children[i]
Children(n) == {Child(n, i) : i \in 1..Len(plan[n].children)}
head(n) == Child(n, 1)

PushdownTypeOK ==
  /\ plan \in Seq(Operator)
  /\ tree \in Seq([system : System, cross : SUBSET (1..Root)]) /\ Len(tree) <= Root
  /\ waitingForVisit \subseteq 1..Root /\ parents \subseteq 1..Root
  /\ outcome \in [kind : {"none", "whole", "partial", "failed"}, points : SUBSET (1..Root)]

PushdownInit ==
  /\ plan \in Plan
  /\ tree = <<>>
  /\ waitingForVisit = {Len(plan)}
  /\ parents = {}
  /\ outcome = [kind |-> "none", points |-> {}]

-----------------------------------------------------------------------------
(* buildDataSystemTree                                                     *)

fastEquals(s, t) == <<s, t>> \in equals

\* Spark supports everything.
isSupport(s, n) == s = Spark \/ s \in plan[n].supportedBy

\* No index is known, so the two costs the code compares are one.
costUnderExpected(l, r) ==
  /\ plan[l].rows # Unknown /\ plan[r].rows # Unknown
  /\ plan[l].rows * plan[r].rows <= MaxCost

Sys(n) == tree[n].system

\* The children that are not Spark's are crossed to.
Mixed(n) == [system |-> Spark, cross |-> {c \in Children(n) : Sys(c) # Spark}]

\* A variant that crosses to the node before the child.
unaryBelow(n) ==
  IF Sys(head(n)) \in Pushdownable /\ isSupport(Sys(head(n)), n)
  THEN [system |-> Sys(head(n)), cross |-> {}]
  ELSE [system |-> Spark, cross |-> {head(n) - 1}]

unary(n) ==
  IF Sys(head(n)) \in Pushdownable /\ isSupport(Sys(head(n)), n)
  THEN [system |-> Sys(head(n)), cross |-> {}]
  ELSE [system |-> Spark, cross |-> {head(n)}]

\* A variant that pushes a join down to the system of its left side.
joinLeft(n) ==
  LET l == Child(n, 1)  r == Child(n, 2) IN
  IF Sys(l) \in Pushdownable /\ isSupport(Sys(l), n) /\ costUnderExpected(l, r)
  THEN [system |-> Sys(l), cross |-> {}] ELSE Mixed(n)

\* A join of one system that the system does not get crosses to neither side.
join(n) ==
  LET l == Child(n, 1)  r == Child(n, 2) IN
  IF fastEquals(Sys(l), Sys(r))
  THEN [system |-> IF isSupport(Sys(l), n) /\ costUnderExpected(l, r) THEN Sys(l) ELSE Spark,
        cross |-> {}]
  ELSE Mixed(n)

\* A variant that treats every binary operator as a join is treated.
binaryAsJoin(n) ==
  LET l == Child(n, 1)  r == Child(n, 2) IN
  IF fastEquals(Sys(l), Sys(r))
  THEN [system |-> IF isSupport(Sys(l), n) THEN Sys(l) ELSE Spark, cross |-> {}]
  ELSE Mixed(n)

binary(n) ==
  LET l == Child(n, 1)  r == Child(n, 2) IN
  IF fastEquals(Sys(l), Sys(r))
  THEN IF isSupport(Sys(l), n) THEN [system |-> Sys(l), cross |-> {}]
       ELSE [system |-> Spark, cross |-> {l, r}]
  ELSE Mixed(n)

\* Whether the children of node n are of the system of the first.
dataSystemEquals(n) == \A c \in Children(n) \ {head(n)} : fastEquals(Sys(c), Sys(head(n)))

union(n) ==
  IF dataSystemEquals(n) /\ isSupport(Sys(head(n)), n)
  THEN [system |-> Sys(head(n)), cross |-> {}] ELSE Mixed(n)

NodeOf(n) ==
  LET k == plan[n].kind IN
  CASE k = "relation" -> [system |-> plan[n].system, cross |-> {}]
    [] k = "leaf" -> [system |-> Spark, cross |-> {}]
    [] k = "unary" -> unary(n)
    [] k = "join" -> join(n)
    [] k = "binary" -> binary(n)
    [] k = "union" -> union(n)
    [] k = "other" -> [system |-> Spark, cross |-> Children(n)]

\* The cast of the head of a union: only a union of one child gets so far without being
\* Pushdownable.
CastFails(n) ==
  plan[n].kind = "union" /\ dataSystemEquals(n) /\ Sys(head(n)) \notin Pushdownable

buildDataSystemTree ==
  /\ outcome.kind = "none" /\ Len(tree) < Root
  /\ LET n == Len(tree) + 1 IN
       \/ /\ ~ CastFails(n)
          /\ tree' = Append(tree, NodeOf(n))
          /\ UNCHANGED outcome
       \/ /\ CastFails(n)
          /\ outcome' = [kind |-> "failed", points |-> {}]
          /\ UNCHANGED tree
  /\ UNCHANGED <<plan, waitingForVisit, parents>>

-----------------------------------------------------------------------------
(* findReplacePoint and the replacement                                    *)

visit(n) ==
  /\ Len(tree) = Root /\ n \in waitingForVisit
  /\ waitingForVisit' = (waitingForVisit \ {n}) \cup (Children(n) \ tree[n].cross)
  /\ parents' = parents \cup tree[n].cross
  /\ UNCHANGED <<plan, tree, outcome>>

GoodAt(n) == \E m \in Subtree(n) : Sys(n) \in plan[m].goodFor

\* Subtrees are equal when their operators are, tables included.
SamePlan(m, n) == SubSeq(plan, Start(m), m) = SubSeq(plan, Start(n), n)

\* transformDown stops at what it has replaced by a scan; Spark's own subtrees it replaces by
\* themselves.
Replaced(points) ==
  LET hit == {n \in 1..Root : Sys(n) # Spark /\ \E p \in points : SamePlan(n, p)}
  IN  {n \in hit : ~ \E m \in hit \ {n} : n \in Subtree(m)}

Whole == parents = {} /\ Sys(Root) \in Pushdownable \ {Spark} /\ GoodAt(Root)

apply ==
  /\ outcome.kind = "none" /\ Len(tree) = Root /\ waitingForVisit = {}
  /\ \/ /\ Whole
        /\ outcome' = [kind |-> "whole", points |-> {Root}]
     \/ /\ ~ Whole
        /\ outcome' = [kind |-> "partial",
             points |-> Replaced({n \in parents : Sys(n) \in Pushdownable /\
                                                    (Sys(n) = Spark \/ GoodAt(n))})]
  /\ UNCHANGED <<plan, tree, waitingForVisit, parents>>

PushdownNext == buildDataSystemTree \/ (\E n \in 1..Root : visit(n)) \/ apply

PushdownSpec == PushdownInit /\ [][PushdownNext]_pushdownVars

-----------------------------------------------------------------------------
(* Properties                                                              *)

\* What may run in a system, read off the plan alone: all tables of the subtree are in one
\* system, that system supports all its operators, and no join of it costs too much.
Home(n) == plan[Start(n)].system
Pushable(n) ==
  LET s == Home(n) IN
  /\ s \in Pushdownable \ {Spark}
  /\ \A m \in Subtree(n) :
       \/ plan[m].kind = "relation" /\ (m = Start(n) \/ fastEquals(s, plan[m].system))
       \/ /\ plan[m].kind \in {"unary", "join", "binary", "union"}
          /\ s \in plan[m].supportedBy
          /\ Len(plan[m].children) > 1 => fastEquals(s, s)
          /\ plan[m].kind = "join" => costUnderExpected(Child(m, 1), Child(m, 2))

\* The bottom-up pass finds exactly the subtrees that may leave Spark: nothing unsupported,
\* too costly or of two systems is ever handed to a system, nothing else is kept back, and
\* what leaves Spark goes to the system of its first table.
TreeExact ==
  \A n \in 1..Len(tree) :
    /\ Sys(n) \in Pushdownable \ {Spark} <=> Pushable(n)
    /\ Pushable(n) => Sys(n) = Home(n)

\* A subtree the search from the root does not come by: below a join of one system that
\* stays with Spark, or deep below an operator that is no unary, binary or union.
Hidden(n) ==
  \/ \E j \in 1..Root :
       plan[j].kind = "join" /\ n \in Children(j) /\ ~ Pushable(j)
         /\ fastEquals(Sys(Child(j, 1)), Sys(Child(j, 2)))
  \/ \E a \in 1..Root : plan[a].kind = "other" /\ n \in Subtree(a) \ (Children(a) \cup {a})

Maximal(n) == Pushable(n) /\ \A m \in 1..Root : n \in Children(m) => ~ Pushable(m)

\* The whole plan is pushed down if and only if it may be and the system is good at some of
\* it.  Otherwise what is replaced in it are subtrees that may leave Spark for a system that
\* is good at some of them, none inside another, and among them is every subtree of that
\* kind that is as large as can be and not hidden.
PointsExact ==
  LET good == {n \in 1..Root : Pushable(n) /\ GoodAt(n)} IN
  /\ outcome.kind = "whole" <=>
       outcome.kind # "none" /\ outcome.kind # "failed" /\ Root \in good
  /\ outcome.kind = "partial" =>
       /\ outcome.points \subseteq good
       /\ \A m, n \in outcome.points : n \in Subtree(m) => m = n
       /\ {n \in good : Maximal(n) /\ ~ Hidden(n)} \subseteq outcome.points
=============================================================================
