--------------------------- MODULE Pushdown_proofs --------------------------
(***************************************************************************)
(* The pushdown rule is exact for plans of any size and shape, over any    *)
(* systems.  What is needed of trees (every node of a subtree but its root *)
(* is in the subtree of a child, subtrees are nested, ...) is proved from  *)
(* what IsPlan says of a node and its children, by looking at the smallest *)
(* number for which it would fail.                                         *)
(***************************************************************************)
EXTENDS Pushdown, TLAPS, FiniteSetTheorems, SequenceTheorems

-----------------------------------------------------------------------------
(* Trees in postfix order                                                  *)

\* A set of numbers has a smallest one: finite initial segments are well-founded.
LEMMA Smallest ==
  ASSUME NEW T \in SUBSET Nat, T # {}
  PROVE  \E x \in T : \A y \in T : x <= y
<1> DEFINE U == {0..x : x \in T}
<1>1. U \subseteq FiniteSubsetsOf(Nat)
  <2> SUFFICES ASSUME NEW x \in T PROVE IsFiniteSet(0..x) /\ 0..x \in SUBSET Nat
    BY DEF FiniteSubsetsOf
  <2> QED BY FS_Interval
<1>2. U # {} OBVIOUS
<1>3. IsWellFoundedOn(StrictSubsetOrdering(Nat), FiniteSubsetsOf(Nat))
  BY FS_StrictSubsetOrderingWellFounded
<1>4. \E u \in U : \A v \in U : ~ (<<v, u>> \in StrictSubsetOrdering(Nat))
  <2> HIDE DEF U
  <2> QED BY <1>1, <1>2, <1>3, WFMin
<1>5. PICK x \in T : \A y \in T : ~ (<<0..y, 0..x>> \in StrictSubsetOrdering(Nat)) BY <1>4
<1>6. ASSUME NEW y \in T, y < x PROVE FALSE
  <2>1. 0..y \subseteq 0..x /\ 0..y # 0..x
    <3>1. x \in 0..x /\ x \notin 0..y BY <1>6
    <3> QED BY <1>6, <3>1
  <2>2. 0..y \in SUBSET Nat /\ 0..x \in SUBSET Nat OBVIOUS
  <2> QED BY <2>1, <2>2, <1>5 DEF StrictSubsetOrdering
<1> QED BY <1>6

\* The children a node has.
Arity(n) == Len(plan[n].children)

\* What IsPlan says of a node, in terms of its children and their subtrees.
Shape(n) ==
  /\ plan[n] \in Operator
  /\ Arity(n) \in Nat /\ Arity(n) \in Arities(plan[n].kind)
  /\ plan[n].size \in 1..n /\ Start(n) \in 1..n
  /\ Arity(n) = 0 => Start(n) = n
  /\ \A i \in 1..Arity(n) : Child(n, i) \in 1..(n - 1)
  /\ Arity(n) > 0 => Child(n, Arity(n)) = n - 1 /\ Start(n) = Start(Child(n, 1))
  /\ \A i \in 1..(Arity(n) - 1) : Child(n, i) = Start(Child(n, i + 1)) - 1

\* Where the subtree of a child starts, counted from the node n it is a distance a before.
LEMMA Distances ==
  ASSUME NEW n \in Int, NEW a \in Int, NEW z \in Int, NEW y \in Int, y = a + z
  PROVE  n - y + 1 = n - a - z + 1 /\ n - y = (n - a - z + 1) - 1
OBVIOUS

LEMMA PlanShape ==
  ASSUME plan \in Plan
  PROVE  /\ plan \in Seq(Operator) /\ Root \in Nat \ {0} /\ Start(Root) = 1
         /\ \A n \in 1..Root : Shape(n)
<1>1. IsPlan(plan) BY PushdownAssumption
<1>2. plan \in Seq(Operator) /\ Root \in Nat /\ plan # <<>> BY <1>1, LenProperties DEF IsPlan, Root
<1>3. Root \in Nat \ {0} BY <1>2, EmptySeq DEF Root
<1>4. Start(Root) = 1 BY <1>1, <1>2, <1>3 DEF IsPlan, Start, Root
<1>5. ASSUME NEW n \in 1..Root PROVE Shape(n)
  <2> DEFINE o == plan[n]  k == Len(o.children)
  <2>1. o \in Operator BY <1>2, ElementOfSeq DEF Root
  <2>2. o.children \in Seq(Nat) /\ o.size \in Nat BY <2>1 DEF Operator
  <2>3. k \in Nat BY <2>2, LenProperties
  <2>4. \A i \in 1..k : o.children[i] \in Nat BY <2>2, ElementOfSeq
  <2>5. /\ k \in Arities(o.kind)
        /\ o.size \in 1..n
        /\ k = 0 => o.size = 1
        /\ \A i \in 1..k : o.children[i] \in 1..(n - 1)
        /\ k > 0 => o.children[k] = 1 /\ o.size = o.children[1] + plan[n - o.children[1]].size
        /\ \A i \in 1..(k - 1) :
             o.children[i] = o.children[i + 1] + plan[n - o.children[i + 1]].size
    BY <1>1 DEF IsPlan, Root
  <2>6. ASSUME NEW m \in 1..Root PROVE plan[m].size \in Nat
    <3>1. plan[m] \in Operator BY <1>2, ElementOfSeq DEF Root
    <3> QED BY <3>1 DEF Operator
  <2>7. \A i \in 1..k : Child(n, i) \in 1..(n - 1) BY <1>2, <2>3, <2>4, <2>5 DEF Child
  <2>8. Start(n) \in 1..n BY <1>2, <2>2, <2>5 DEF Start
  <2>9. k = 0 => Start(n) = n BY <1>2, <2>5 DEF Start
  <2>10. ASSUME k > 0 PROVE Child(n, k) = n - 1 /\ Start(n) = Start(Child(n, 1))
    <3>1. Child(n, k) = n - 1 BY <2>10, <2>5 DEF Child
    <3>2. Child(n, 1) \in 1..Root /\ o.children[1] \in Nat BY <1>2, <2>3, <2>4, <2>7, <2>10
    <3>3. plan[Child(n, 1)].size \in Nat BY <3>2, <2>6
    <3>4. o.size = o.children[1] + plan[Child(n, 1)].size BY <2>5, <2>10 DEF Child
    <3>5. Child(n, 1) = n - o.children[1] BY DEF Child
    <3>6. n \in Int /\ o.size \in Int BY <1>2, <2>2
    <3>7. n - o.size + 1 = n - o.children[1] - plan[Child(n, 1)].size + 1
      BY <3>2, <3>3, <3>4, <3>6, Distances
    <3>8. Start(n) = Start(Child(n, 1)) BY <3>7, <3>5 DEF Start
    <3> QED BY <3>1, <3>8
  <2>11. ASSUME NEW i \in 1..(k - 1) PROVE Child(n, i) = Start(Child(n, i + 1)) - 1
    <3>1. i + 1 \in 1..k /\ i \in 1..k BY <2>3
    <3>2. Child(n, i + 1) \in 1..Root /\ o.children[i + 1] \in Nat /\ o.children[i] \in Nat
      BY <1>2, <2>4, <2>7, <3>1
    <3>3. plan[Child(n, i + 1)].size \in Nat BY <3>2, <2>6
    <3>4. o.children[i] = o.children[i + 1] + plan[Child(n, i + 1)].size BY <2>5 DEF Child
    <3>5. Child(n, i) = n - o.children[i] /\ Child(n, i + 1) = n - o.children[i + 1] BY DEF Child
    <3>6. n \in Int BY <1>2
    <3>7. n - o.children[i] = (n - o.children[i + 1] - plan[Child(n, i + 1)].size + 1) - 1
      <4>1. \A a, z, y \in Nat : y = a + z => n - y = (n - a - z + 1) - 1 BY <3>6, Distances
      <4> QED BY <3>2, <3>3, <3>4, <4>1, Zenon
    <3>8. Start(Child(n, i + 1)) = n - o.children[i + 1] - plan[Child(n, i + 1)].size + 1
      BY <3>5 DEF Start
    <3>9. Start(Child(n, i + 1)) - 1
            = (n - o.children[i + 1] - plan[Child(n, i + 1)].size + 1) - 1 BY <3>8, Zenon
    <3> QED BY <3>5, <3>7, <3>9
  <2> QED BY <2>1, <2>3, <2>5, <2>7, <2>8, <2>9, <2>10, <2>11 DEF Shape, Arity
<1> QED BY <1>2, <1>3, <1>4, <1>5

\* The subtree of a child lies in that of the node.
LEMMA ChildWithin ==
  ASSUME plan \in Plan, NEW n \in 1..Root, NEW i \in 1..Arity(n)
  PROVE  /\ Child(n, i) \in 1..Root /\ Child(n, i) < n
         /\ Start(n) <= Start(Child(n, i))
<1>1. Root \in Nat /\ Shape(n) BY PlanShape
<1> DEFINE k == Arity(n)
           Bad == {j \in 1..k : ~ (Start(n) <= Start(Child(n, j)))}
<1>2. k \in Nat /\ k > 0 BY <1>1 DEF Shape
<1>3. \A j \in 1..k : Child(n, j) \in 1..(n - 1) /\ Child(n, j) \in 1..Root
  BY <1>1, <1>2 DEF Shape
<1>4. \A j \in 1..k : Start(Child(n, j)) \in 1..Child(n, j)
  BY <1>3, PlanShape DEF Shape
<1>5. Start(n) \in 1..n /\ Start(n) = Start(Child(n, 1)) BY <1>1, <1>2 DEF Shape
<1>6. ASSUME Bad # {} PROVE FALSE
  <2>1. Bad \in SUBSET Nat BY <1>2
  <2>2. PICK j \in Bad : \A x \in Bad : j <= x BY <1>6, <2>1, Smallest
  <2>3. j \in 1..k /\ ~ (Start(n) <= Start(Child(n, j))) OBVIOUS
  <2>4. j # 1 BY <1>4, <1>5, <2>3
  <2>5. j - 1 \in 1..k /\ j - 1 \in 1..(k - 1) /\ (j - 1) + 1 = j BY <1>2, <2>3, <2>4
  <2>6. j - 1 \notin Bad BY <2>2, <2>3
  <2>7. Start(n) <= Start(Child(n, j - 1)) BY <2>5, <2>6
  <2>8. Child(n, j - 1) = Start(Child(n, (j - 1) + 1)) - 1 BY <1>1, <2>5 DEF Shape
  <2>9. Child(n, j - 1) = Start(Child(n, j)) - 1 BY <2>5, <2>8, Zenon
  <2>10. Start(Child(n, j - 1)) \in 1..Child(n, j - 1) BY <1>4, <2>5
  <2>11. Start(Child(n, j)) \in 1..Child(n, j) BY <1>4, <2>3
  <2>12. Child(n, j) \in 1..(n - 1) /\ Child(n, j - 1) \in 1..(n - 1) BY <1>3, <2>3, <2>5
  <2> HIDE DEF Bad, k
  <2> QED BY <1>5, <2>3, <2>7, <2>9, <2>10, <2>11, <2>12
<1>7. Start(n) <= Start(Child(n, i)) BY <1>6
<1>8. Child(n, i) \in 1..Root /\ Child(n, i) < n BY <1>1, <1>3
<1> QED BY <1>7, <1>8

\* Every other node of a subtree is in the subtree of a child of its root.
LEMMA Covered ==
  ASSUME plan \in Plan, NEW n \in 1..Root, NEW m \in Subtree(n), m # n
  PROVE  \E i \in 1..Arity(n) : m \in Subtree(Child(n, i))
<1>1. Root \in Nat /\ Shape(n) BY PlanShape
<1> DEFINE k == Arity(n)
           Past == {j \in 1..k : m <= Child(n, j)}
<1>2. k \in Nat /\ Start(n) \in 1..n BY <1>1 DEF Shape
<1>3. m \in Start(n)..n /\ m \in Nat /\ m < n BY <1>1, <1>2 DEF Subtree
<1>4. k > 0 BY <1>1, <1>2, <1>3 DEF Shape
<1>5. Child(n, k) = n - 1 /\ Start(n) = Start(Child(n, 1)) BY <1>1, <1>4 DEF Shape
<1>6. k \in Past BY <1>1, <1>2, <1>3, <1>4, <1>5
<1>7. Past \in SUBSET Nat BY <1>2
<1>8. PICK j \in Past : \A x \in Past : j <= x BY <1>6, <1>7, Smallest
<1>9. j \in 1..k /\ m <= Child(n, j) OBVIOUS
<1>10. Child(n, j) \in 1..Root BY <1>9, ChildWithin
<1>11. Start(Child(n, j)) \in 1..Child(n, j) BY <1>10, PlanShape DEF Shape
<1>12. Start(Child(n, j)) <= m
  <2>1. CASE j = 1 BY <2>1, <1>3, <1>5, <1>2
  <2>2. CASE j # 1
    <3>1. j - 1 \in 1..k /\ j - 1 \in 1..(k - 1) /\ (j - 1) + 1 = j BY <1>2, <1>9, <2>2
    <3>2. j - 1 \notin Past BY <1>8, <1>9
    <3>3. ~ (m <= Child(n, j - 1)) BY <3>1, <3>2
    <3>4. Child(n, j - 1) = Start(Child(n, (j - 1) + 1)) - 1 BY <1>1, <3>1 DEF Shape
    <3>5. Child(n, j - 1) = Start(Child(n, j)) - 1 BY <3>1, <3>4, Zenon
    <3>6. Child(n, j - 1) \in Nat BY <1>1, <3>1 DEF Shape
    <3> HIDE DEF Past, k
    <3> QED BY <1>3, <1>11, <3>3, <3>5, <3>6
  <2> QED BY <2>1, <2>2
<1>13. m \in Subtree(Child(n, j)) BY <1>3, <1>9, <1>10, <1>11, <1>12 DEF Subtree
<1> QED BY <1>9, <1>13

\* Subtrees are nested.
LEMMA Nested ==
  ASSUME plan \in Plan, NEW n \in 1..Root, NEW m \in Subtree(n)
  PROVE  m \in 1..Root /\ m <= n /\ Start(n) <= Start(m) /\ Subtree(m) \subseteq Subtree(n)
<1> DEFINE Bad == {x \in 1..Root : \E y \in Subtree(x) : ~ (Start(x) <= Start(y))}
<1>1. Root \in Nat BY PlanShape
<1>2. \A x \in 1..Root : Start(x) \in 1..x BY PlanShape DEF Shape
<1>3. \A x \in 1..Root : \A y \in Subtree(x) : y \in 1..Root /\ y <= x BY <1>1, <1>2 DEF Subtree
<1>4. ASSUME Bad # {} PROVE FALSE
  <2>1. Bad \in SUBSET Nat BY <1>1
  <2>2. PICK x \in Bad : \A z \in Bad : x <= z BY <1>4, <2>1, Smallest
  <2>3. x \in 1..Root OBVIOUS
  <2>4. PICK y \in Subtree(x) : ~ (Start(x) <= Start(y)) OBVIOUS
  <2>5. Start(x) \in 1..x BY <1>2, <2>3
  <2>6. y # x BY <2>4, <2>5
  <2>7. PICK i \in 1..Arity(x) : y \in Subtree(Child(x, i)) BY <2>3, <2>6, Covered
  <2>8. /\ Child(x, i) \in 1..Root /\ Child(x, i) < x
        /\ Start(x) <= Start(Child(x, i))
    BY <2>3, ChildWithin
  <2>9. Child(x, i) \notin Bad BY <2>2, <2>8, <1>1
  <2>10. Start(Child(x, i)) <= Start(y) BY <2>7, <2>8, <2>9
  <2>11. Start(y) \in Nat /\ Start(Child(x, i)) \in Nat /\ Start(x) \in Nat
    BY <1>1, <1>2, <1>3, <2>3, <2>4, <2>8
  <2> HIDE DEF Bad
  <2> QED BY <2>4, <2>8, <2>10, <2>11
<1>5. Start(n) <= Start(m) BY <1>4
<1>6. m \in 1..Root /\ m <= n BY <1>3
<1>7. Start(n) \in 1..n /\ Start(m) \in 1..m BY <1>2, <1>6
<1>8. Subtree(m) \subseteq Subtree(n) BY <1>5, <1>6, <1>7, <1>1 DEF Subtree
<1> QED BY <1>5, <1>6, <1>8

\* A subtree begins with an operator without children.
LEMMA FirstIsLeaf ==
  ASSUME plan \in Plan, NEW n \in 1..Root
  PROVE  /\ Start(n) \in Subtree(n) /\ n \in Subtree(n)
         /\ Start(Start(n)) = Start(n)
         /\ Arity(Start(n)) = 0
<1>1. Root \in Nat /\ Start(n) \in 1..n BY PlanShape DEF Shape
<1>2. Start(n) \in Subtree(n) /\ n \in Subtree(n) BY <1>1 DEF Subtree
<1>3. Start(n) \in 1..Root /\ Start(n) <= Start(Start(n)) BY <1>2, Nested
<1>4. Shape(Start(n)) BY <1>3, PlanShape
<1>5. Start(Start(n)) \in 1..Start(n) BY <1>4 DEF Shape
<1>6. Start(Start(n)) = Start(n) BY <1>1, <1>3, <1>5
<1>7. ASSUME Arity(Start(n)) # 0 PROVE FALSE
  <2>1. 1 \in 1..Arity(Start(n)) BY <1>4, <1>7 DEF Shape
  <2>2. Child(Start(n), 1) \in 1..(Start(n) - 1) BY <1>4, <2>1 DEF Shape
  <2>3. Start(Start(n)) = Start(Child(Start(n), 1)) BY <1>4, <2>1 DEF Shape
  <2>4. Child(Start(n), 1) \in 1..Root BY <2>2, <1>1, <1>3
  <2>5. Start(Child(Start(n), 1)) \in 1..Child(Start(n), 1) BY <2>4, PlanShape DEF Shape
  <2> QED BY <1>1, <1>6, <2>2, <2>3, <2>5
<1> QED BY <1>2, <1>6, <1>7

\* Every other node of a subtree is the child of a node of it.
LEMMA ParentWithin ==
  ASSUME plan \in Plan, NEW n \in 1..Root, NEW m \in Subtree(n), m # n
  PROVE  \E j \in Subtree(n) : j \in 1..Root /\ m \in Children(j)
<1> DEFINE Good(x) == \A y \in Subtree(x) : y # x =>
                        \E j \in Subtree(x) : j \in 1..Root /\ y \in Children(j)
           Bad == {x \in 1..Root : ~ Good(x)}
<1>1. Root \in Nat BY PlanShape
<1>2. ASSUME Bad # {} PROVE FALSE
  <2>1. Bad \in SUBSET Nat BY <1>1
  <2>2. PICK x \in Bad : \A z \in Bad : x <= z BY <1>2, <2>1, Smallest
  <2>3. x \in 1..Root OBVIOUS
  <2>4. PICK y \in Subtree(x) :
          y # x /\ ~ \E j \in Subtree(x) : j \in 1..Root /\ y \in Children(j)
    OBVIOUS
  <2>5. PICK i \in 1..Arity(x) : y \in Subtree(Child(x, i)) BY <2>3, <2>4, Covered
  <2>6. Child(x, i) \in 1..Root /\ Child(x, i) < x BY <2>3, ChildWithin
  <2>7. x \in Subtree(x) BY <2>3, FirstIsLeaf
  <2>8. Child(x, i) \in Children(x) BY DEF Children, Arity
  <2>9. y # Child(x, i) BY <2>3, <2>4, <2>7, <2>8
  <2>10. Child(x, i) \notin Bad BY <2>2, <2>6, <1>1
  <2>11. PICK j \in Subtree(Child(x, i)) : j \in 1..Root /\ y \in Children(j)
    BY <2>5, <2>6, <2>9, <2>10
  <2>12. Child(x, i) \in Subtree(x)
    <3>1. Start(x) <= Start(Child(x, i)) BY <2>3, ChildWithin
    <3>2. Start(Child(x, i)) \in 1..Child(x, i) /\ Start(x) \in 1..x
      BY <2>3, <2>6, PlanShape DEF Shape
    <3> QED BY <1>1, <2>3, <2>6, <3>1, <3>2 DEF Subtree
  <2>13. Subtree(Child(x, i)) \subseteq Subtree(x) BY <2>3, <2>12, Nested
  <2> QED BY <2>4, <2>11, <2>13
<1>3. n \notin Bad BY <1>2
<1>4. Good(n) BY <1>3
<1> QED BY <1>4

-----------------------------------------------------------------------------
(* What may leave Spark                                                    *)

\* fastEquals relates systems that run plans, and only Spark to Spark.
LEMMA Equality ==
  /\ \A s, t : fastEquals(s, t) => /\ s \in Pushdownable /\ t \in Pushdownable
                                   /\ fastEquals(t, s)
  /\ \A s, t, u : fastEquals(s, t) /\ fastEquals(t, u) => fastEquals(s, u)
  /\ fastEquals(Spark, Spark)
  /\ \A s : fastEquals(s, Spark) \/ fastEquals(Spark, s) => s = Spark
<1>1. \A s, t : fastEquals(s, t) => s \in Pushdownable /\ t \in Pushdownable
  BY PushdownAssumption DEF fastEquals
<1>2. Pushdownable \subseteq System /\ Spark \in System BY PushdownAssumption
<1>3. \A s, t : fastEquals(s, t) => fastEquals(t, s)
  BY <1>1, <1>2, PushdownAssumption DEF fastEquals
<1>4. \A s, t, u : fastEquals(s, t) /\ fastEquals(t, u) => fastEquals(s, u)
  <2> SUFFICES ASSUME NEW s, NEW t, NEW u, fastEquals(s, t), fastEquals(t, u)
               PROVE  fastEquals(s, u)
    OBVIOUS
  <2>1. s \in System /\ t \in System /\ u \in System BY <1>1, <1>2
  <2> QED BY <2>1, PushdownAssumption DEF fastEquals
<1>5. \A s \in System : fastEquals(Spark, s) <=> s = Spark BY PushdownAssumption DEF fastEquals
<1>6. fastEquals(Spark, Spark) BY <1>2, <1>5
<1>7. \A s : fastEquals(s, Spark) \/ fastEquals(Spark, s) => s = Spark
  BY <1>1, <1>2, <1>3, <1>5
<1> QED BY <1>1, <1>3, <1>4, <1>6, <1>7

\* Systems that are equal support the same operators.
LEMMA EqualSupport ==
  ASSUME plan \in Plan, NEW n \in 1..Root, NEW s, NEW t, fastEquals(s, t),
         s \in plan[n].supportedBy
  PROVE  t \in plan[n].supportedBy
<1>1. s \in System /\ t \in System BY Equality, PushdownAssumption
<1> QED BY <1>1, PushdownAssumption DEF fastEquals, Root

\* What Pushable asks of a node of a subtree that is to run in system s and starts at a.
Runs(m, s, a) ==
  \/ plan[m].kind = "relation" /\ (m = a \/ fastEquals(s, plan[m].system))
  \/ /\ plan[m].kind \in {"unary", "join", "binary", "union"}
     /\ s \in plan[m].supportedBy
     /\ Arity(m) > 1 => fastEquals(s, s)
     /\ plan[m].kind = "join" => costUnderExpected(Child(m, 1), Child(m, 2))

LEMMA PushableRuns ==
  \A n : Pushable(n) <=> /\ Home(n) \in Pushdownable \ {Spark}
                         /\ \A m \in Subtree(n) : Runs(m, Home(n), Start(n))
BY DEF Pushable, Runs, Arity

\* Systems that are equal run the same operators.
LEMMA EqualRuns ==
  ASSUME plan \in Plan, NEW m \in 1..Root, NEW s, NEW t, NEW a, NEW b,
         Runs(m, s, a), s = t \/ fastEquals(s, t), m = a => m = b \/ fastEquals(t, plan[m].system)
  PROVE  Runs(m, t, b)
<1>1. CASE plan[m].kind = "relation"
  <2>1. m = a \/ fastEquals(s, plan[m].system) BY <1>1 DEF Runs
  <2>2. fastEquals(s, plan[m].system) => fastEquals(t, plan[m].system) BY Equality
  <2> QED BY <1>1, <2>1, <2>2 DEF Runs
<1>2. CASE plan[m].kind # "relation"
  <2>1. /\ plan[m].kind \in {"unary", "join", "binary", "union"}
        /\ s \in plan[m].supportedBy
        /\ Arity(m) > 1 => fastEquals(s, s)
        /\ plan[m].kind = "join" => costUnderExpected(Child(m, 1), Child(m, 2))
    BY <1>2 DEF Runs
  <2>2. t \in plan[m].supportedBy BY <2>1, EqualSupport
  <2>3. Arity(m) > 1 => fastEquals(t, t) BY <2>1, Equality
  <2> QED BY <2>1, <2>2, <2>3 DEF Runs
<1> QED BY <1>1, <1>2

\* Whatever is in a subtree that may leave Spark may leave it too, for an equal system.
LEMMA PushableWithin ==
  ASSUME plan \in Plan, NEW n \in 1..Root, Pushable(n), NEW m \in Subtree(n)
  PROVE  Pushable(m) /\ (Home(n) = Home(m) \/ fastEquals(Home(n), Home(m)))
<1>1. m \in 1..Root /\ Start(n) <= Start(m) /\ Subtree(m) \subseteq Subtree(n) BY Nested
<1>2. Start(m) \in Subtree(m) /\ Arity(Start(m)) = 0 BY <1>1, FirstIsLeaf
<1>3. /\ Home(n) \in Pushdownable \ {Spark}
      /\ \A x \in Subtree(n) : Runs(x, Home(n), Start(n))
  BY PushableRuns
<1>4. Start(m) \in 1..Root /\ Runs(Start(m), Home(n), Start(n)) BY <1>1, <1>2, <1>3, Nested
<1>5. plan[Start(m)].kind = "relation"
  <2>1. 0 \in Arities(plan[Start(m)].kind) BY <1>2, <1>4, PlanShape DEF Shape
  <2> QED BY <2>1, <1>4 DEF Runs, Arities
<1>6. Start(m) = Start(n) \/ fastEquals(Home(n), Home(m)) BY <1>4, <1>5 DEF Runs, Home
<1>7. Home(n) = Home(m) \/ fastEquals(Home(n), Home(m)) BY <1>6 DEF Home
<1>8. Home(m) \in Pushdownable \ {Spark} BY <1>3, <1>7, Equality
<1>9. ASSUME NEW x \in Subtree(m) PROVE Runs(x, Home(m), Start(m))
  <2>1. x \in Subtree(n) /\ x \in 1..Root BY <1>1, Nested
  <2>2. Runs(x, Home(n), Start(n)) BY <1>3, <2>1
  <2>3. x = Start(n) => x = Start(m)
    <3>1. Start(m) \in 1..m /\ Start(n) \in 1..n BY <1>1, PlanShape DEF Shape
    <3>2. Start(m) <= x BY <3>1, <1>1, PlanShape DEF Subtree
    <3> QED BY <3>1, <3>2, <1>1, PlanShape
  <2> QED BY <1>7, <2>1, <2>2, <2>3, EqualRuns
<1>10. Pushable(m) BY <1>8, <1>9, PushableRuns
<1> QED BY <1>7, <1>10

\* The operators that a system may take over.
Composite(n) == plan[n].kind \in {"unary", "join", "binary", "union"}

\* A node may leave Spark when its children may, for systems equal to that of the first,
\* which takes the operator.
LEMMA PushableAbove ==
  ASSUME plan \in Plan, NEW n \in 1..Root, Composite(n)
  PROVE  /\ Home(n) = Home(head(n)) /\ head(n) \in Children(n)
         /\ Pushable(n) <=>
              /\ \A c \in Children(n) :
                   Pushable(c) /\ (c = head(n) \/ fastEquals(Home(head(n)), Home(c)))
              /\ Home(head(n)) \in plan[n].supportedBy
              /\ Arity(n) > 1 => fastEquals(Home(head(n)), Home(head(n)))
              /\ plan[n].kind = "join" => costUnderExpected(Child(n, 1), Child(n, 2))
<1>1. Root \in Nat /\ Shape(n) BY PlanShape
<1>2. Arity(n) > 0 /\ 1 \in 1..Arity(n) BY <1>1 DEF Shape, Composite, Arities
<1>3. Start(n) = Start(head(n)) BY <1>1, <1>2 DEF Shape, head
<1>4. Home(n) = Home(head(n)) BY <1>3 DEF Home
<1>5. head(n) \in Children(n) BY <1>2 DEF head, Children, Arity
<1>6. n \in Subtree(n) BY FirstIsLeaf
<1>7. ASSUME NEW c \in Children(n) PROVE c \in Subtree(n) /\ c \in 1..Root /\ c # n
  <2>1. PICK i \in 1..Arity(n) : c = Child(n, i) BY DEF Children, Arity
  <2>2. c \in 1..Root /\ c < n /\ Start(n) <= Start(c) BY <2>1, ChildWithin
  <2>3. Start(c) \in 1..c /\ Start(n) \in 1..n BY <2>2, PlanShape DEF Shape
  <2> QED BY <1>1, <2>2, <2>3 DEF Subtree
<1>8. plan[n].kind # "relation" BY DEF Composite
<1>9. Runs(n, Home(n), Start(n)) <=>
        /\ Home(n) \in plan[n].supportedBy
        /\ Arity(n) > 1 => fastEquals(Home(n), Home(n))
        /\ plan[n].kind = "join" => costUnderExpected(Child(n, 1), Child(n, 2))
  BY <1>8 DEF Runs, Composite
<1>10. ASSUME Pushable(n)
       PROVE  /\ \A c \in Children(n) :
                   Pushable(c) /\ (c = head(n) \/ fastEquals(Home(n), Home(c)))
              /\ Runs(n, Home(n), Start(n))
  <2>1. Runs(n, Home(n), Start(n)) BY <1>6, <1>10, PushableRuns
  <2>2. ASSUME NEW c \in Children(n)
        PROVE  Pushable(c) /\ (c = head(n) \/ fastEquals(Home(n), Home(c)))
    <3>1. Pushable(c) /\ (Home(n) = Home(c) \/ fastEquals(Home(n), Home(c)))
      BY <1>7, <1>10, PushableWithin
    <3>2. ASSUME c # head(n) PROVE Arity(n) > 1
      <4>1. PICK i \in 1..Arity(n) : c = Child(n, i) BY DEF Children, Arity
      <4>2. i # 1 BY <3>2, <4>1 DEF head
      <4> QED BY <4>2, <1>1 DEF Shape
    <3>3. c # head(n) => fastEquals(Home(n), Home(n)) BY <3>2, <2>1, <1>9
    <3> QED BY <3>1, <3>3
  <2> QED BY <2>1, <2>2
<1>11. ASSUME \A c \in Children(n) :
                Pushable(c) /\ (c = head(n) \/ fastEquals(Home(n), Home(c))),
              Runs(n, Home(n), Start(n))
       PROVE  Pushable(n)
  <2>1. Home(n) \in Pushdownable \ {Spark} BY <1>4, <1>5, <1>11, PushableRuns
  <2>2. ASSUME NEW m \in Subtree(n) PROVE Runs(m, Home(n), Start(n))
    <3>1. CASE m = n BY <3>1, <1>11
    <3>2. CASE m # n
      <4>1. PICK i \in 1..Arity(n) : m \in Subtree(Child(n, i)) BY <3>2, Covered
      <4> DEFINE c == Child(n, i)
      <4>2. c \in Children(n) BY DEF Children, Arity
      <4>3. Pushable(c) /\ (c = head(n) \/ fastEquals(Home(n), Home(c))) BY <4>2, <1>11
      <4>4. Runs(m, Home(c), Start(c)) BY <4>1, <4>3, PushableRuns
      <4>5. Home(c) = Home(n) \/ fastEquals(Home(c), Home(n)) BY <4>3, <1>4, Equality
      <4>6. m = Start(c) => m = Start(n) \/ fastEquals(Home(n), plan[m].system)
        BY <4>3, <1>3 DEF Home
      <4>7. m \in 1..Root BY Nested
      <4> HIDE DEF c
      <4> QED BY <4>4, <4>5, <4>6, <4>7, EqualRuns
    <3> QED BY <3>1, <3>2
  <2> QED BY <2>1, <2>2, PushableRuns
<1>12. Pushable(n) <=> /\ \A c \in Children(n) :
                            Pushable(c) /\ (c = head(n) \/ fastEquals(Home(n), Home(c)))
                       /\ Runs(n, Home(n), Start(n))
  BY <1>10, <1>11
<1> QED BY <1>4, <1>5, <1>9, <1>12

-----------------------------------------------------------------------------
(* One step of buildDataSystemTree                                         *)

\* The pass is exact for node n.
Exact(n) ==
  /\ Sys(n) \in System
  /\ Sys(n) \in Pushdownable \ {Spark} <=> Pushable(n)
  /\ Pushable(n) => Sys(n) = Home(n)

\* What is true of the MbTreeNode r of node n: it is exact; what leaves Spark crosses to
\* nothing; a child that could leave Spark is crossed to, unless the node is a join of one
\* system; and only an operator of no known kind crosses to a child that Spark has.
NodeFacts(n, r) ==
  /\ r \in [system : System, cross : SUBSET Children(n)]
  /\ r.system \in Pushdownable \ {Spark} <=> Pushable(n)
  /\ Pushable(n) => r.system = Home(n) /\ r.cross = {}
  /\ r.system \notin Pushdownable => plan[n].kind = "relation"
  /\ \A c \in Children(n) \ r.cross : Pushable(c) /\ ~ Pushable(n) =>
       plan[n].kind = "join" /\ fastEquals(Sys(Child(n, 1)), Sys(Child(n, 2)))
  /\ \A c \in r.cross : Sys(c) = Spark => plan[n].kind = "other"

\* Operators that no system takes over.
LEMMA SparkKeeps ==
  ASSUME plan \in Plan, NEW n \in 1..Root, plan[n].kind \in {"leaf", "other"}
  PROVE  ~ Pushable(n)
<1>1. n \in Subtree(n) BY FirstIsLeaf
<1>2. ~ Runs(n, Home(n), Start(n)) BY DEF Runs
<1> QED BY <1>1, <1>2, PushableRuns

LEMMA SparkInSystem == Spark \in System /\ Spark \in Pushdownable /\ Pushdownable \subseteq System
BY PushdownAssumption

\* Nodes without children have none to cross to.
LEMMA NoChildren ==
  ASSUME plan \in Plan, NEW n \in 1..Root, plan[n].kind \in {"relation", "leaf"}
  PROVE  Arity(n) = 0 /\ Children(n) = {} /\ Start(n) = n
<1>1. Shape(n) BY PlanShape
<1>2. Arity(n) = 0 BY <1>1 DEF Shape, Arities
<1>3. Start(n) = n BY <1>1, <1>2 DEF Shape
<1>4. Children(n) = {} BY <1>2 DEF Children, Arity
<1> QED BY <1>2, <1>3, <1>4

LEMMA RelationFacts ==
  ASSUME plan \in Plan, NEW n \in 1..Root, plan[n].kind = "relation"
  PROVE  NodeFacts(n, [system |-> plan[n].system, cross |-> {}])
<1>1. Start(n) = n /\ Children(n) = {} BY NoChildren
<1>2. n \in Nat BY PlanShape
<1>3. Home(n) = plan[n].system BY <1>1 DEF Home
<1>4. Subtree(n) = {n} BY <1>1, <1>2 DEF Subtree
<1>5. Runs(n, Home(n), Start(n)) BY <1>1 DEF Runs
<1>6. Pushable(n) <=> plan[n].system \in Pushdownable \ {Spark}
  BY <1>3, <1>4, <1>5, PushableRuns
<1>7. plan[n].system \in System
  <2>1. plan[n] \in Operator BY PlanShape DEF Shape
  <2> QED BY <2>1 DEF Operator
<1> QED BY <1>1, <1>3, <1>6, <1>7 DEF NodeFacts

LEMMA LeafFacts ==
  ASSUME plan \in Plan, NEW n \in 1..Root, plan[n].kind = "leaf"
  PROVE  NodeFacts(n, [system |-> Spark, cross |-> {}])
<1>1. Children(n) = {} BY NoChildren
<1> QED BY <1>1, SparkKeeps, SparkInSystem DEF NodeFacts

LEMMA OtherFacts ==
  ASSUME plan \in Plan, NEW n \in 1..Root, plan[n].kind = "other"
  PROVE  NodeFacts(n, [system |-> Spark, cross |-> Children(n)])
BY SparkKeeps, SparkInSystem DEF NodeFacts

\* The node of an operator that Spark keeps, when it crosses to the children Spark has not.
LEMMA MixedFacts ==
  ASSUME plan \in Plan, NEW n \in 1..Root, ~ Pushable(n), \A c \in Children(n) : Exact(c)
  PROVE  NodeFacts(n, Mixed(n))
<1>1. Mixed(n) \in [system : System, cross : SUBSET Children(n)] /\ Mixed(n).system = Spark
  BY SparkInSystem DEF Mixed
<1>2. Mixed(n).cross = {c \in Children(n) : Sys(c) # Spark} BY DEF Mixed
<1>3. \A c \in Children(n) \ Mixed(n).cross : ~ Pushable(c) BY <1>2 DEF Exact
<1> QED BY <1>1, <1>2, <1>3, SparkInSystem DEF NodeFacts

\* The node of an operator that the system of its first child takes over.
LEMMA SameFacts ==
  ASSUME plan \in Plan, NEW n \in 1..Root, Composite(n), \A c \in Children(n) : Exact(c),
         Sys(head(n)) \in Pushdownable, Sys(head(n)) # Spark => Pushable(n),
         \A c \in Children(n) : Sys(head(n)) = Spark => Sys(c) = Spark
  PROVE  NodeFacts(n, [system |-> Sys(head(n)), cross |-> {}])
<1> DEFINE r == [system |-> Sys(head(n)), cross |-> {}]
<1>1. r \in [system : System, cross : SUBSET Children(n)] BY SparkInSystem
<1>2. head(n) \in Children(n) /\ Home(n) = Home(head(n)) BY PushableAbove
<1>3. CASE Sys(head(n)) = Spark
  <2>1. \A c \in Children(n) : ~ Pushable(c) BY <1>3 DEF Exact
  <2>2. ~ Pushable(n) BY <2>1, <1>2, PushableAbove
  <2> QED BY <1>1, <1>3, <2>1, <2>2, SparkInSystem DEF NodeFacts
<1>4. CASE Sys(head(n)) # Spark
  <2>1. Pushable(n) /\ Pushable(head(n)) BY <1>4, <1>2 DEF Exact
  <2>2. Sys(head(n)) = Home(n) BY <1>2, <2>1 DEF Exact
  <2> QED BY <1>1, <1>4, <2>1, <2>2 DEF NodeFacts
<1> QED BY <1>3, <1>4

\* A system that supports an operator it holds the children of takes it over.
LEMMA SupportedAbove ==
  ASSUME plan \in Plan, NEW n \in 1..Root, Composite(n), \A c \in Children(n) : Exact(c),
         \A c \in Children(n) : c = head(n) \/ fastEquals(Sys(head(n)), Sys(c)),
         Sys(head(n)) \in Pushdownable, isSupport(Sys(head(n)), n),
         Arity(n) > 1 => fastEquals(Sys(head(n)), Sys(head(n))),
         plan[n].kind = "join" => costUnderExpected(Child(n, 1), Child(n, 2))
  PROVE  NodeFacts(n, [system |-> Sys(head(n)), cross |-> {}])
<1>1. head(n) \in Children(n) BY PushableAbove
<1>2. \A c \in Children(n) : Sys(head(n)) = Spark => Sys(c) = Spark BY Equality
<1>3. ASSUME Sys(head(n)) # Spark PROVE Pushable(n)
  <2>1. ASSUME NEW c \in Children(n) PROVE Pushable(c) /\ Sys(c) = Home(c)
    <3>1. Sys(c) \in Pushdownable \ {Spark} BY <1>3, Equality
    <3> QED BY <3>1 DEF Exact
  <2>2. Sys(head(n)) = Home(head(n)) BY <1>1, <2>1
  <2>3. \A c \in Children(n) :
          Pushable(c) /\ (c = head(n) \/ fastEquals(Home(head(n)), Home(c)))
    BY <2>1, <2>2
  <2>4. Home(head(n)) \in plan[n].supportedBy BY <1>3, <2>2 DEF isSupport
  <2>5. Arity(n) > 1 => fastEquals(Home(head(n)), Home(head(n))) BY <2>2
  <2> QED BY <2>3, <2>4, <2>5, PushableAbove
<1> QED BY <1>2, <1>3, SameFacts

\* An operator that may leave Spark has children of one system, which supports it.
LEMMA PushableBelow ==
  ASSUME plan \in Plan, NEW n \in 1..Root, Composite(n), \A c \in Children(n) : Exact(c),
         Pushable(n)
  PROVE  /\ Sys(head(n)) \in Pushdownable \ {Spark} /\ isSupport(Sys(head(n)), n)
         /\ \A c \in Children(n) : c = head(n) \/ fastEquals(Sys(head(n)), Sys(c))
         /\ plan[n].kind = "join" => costUnderExpected(Child(n, 1), Child(n, 2))
<1>1. /\ head(n) \in Children(n)
      /\ \A c \in Children(n) :
           Pushable(c) /\ (c = head(n) \/ fastEquals(Home(head(n)), Home(c)))
      /\ Home(head(n)) \in plan[n].supportedBy
      /\ plan[n].kind = "join" => costUnderExpected(Child(n, 1), Child(n, 2))
  BY PushableAbove
<1>2. \A c \in Children(n) : Sys(c) = Home(c) /\ Sys(c) \in Pushdownable \ {Spark}
  BY <1>1 DEF Exact
<1> QED BY <1>1, <1>2 DEF isSupport

LEMMA UnaryFacts ==
  ASSUME plan \in Plan, NEW n \in 1..Root, plan[n].kind = "unary",
         \A c \in Children(n) : Exact(c)
  PROVE  NodeFacts(n, unary(n))
<1>1. Composite(n) BY DEF Composite
<1>2. Arity(n) = 1
  <2>1. Shape(n) BY PlanShape
  <2> QED BY <2>1 DEF Shape, Arities
<1>3. Children(n) = {head(n)} BY <1>2 DEF Children, Arity, head
<1>4. CASE Sys(head(n)) \in Pushdownable /\ isSupport(Sys(head(n)), n)
  <2>1. unary(n) = [system |-> Sys(head(n)), cross |-> {}] BY <1>4 DEF unary
  <2>2. NodeFacts(n, [system |-> Sys(head(n)), cross |-> {}])
    BY <1>1, <1>2, <1>3, <1>4, SupportedAbove
  <2> QED BY <2>1, <2>2
<1>5. CASE ~ (Sys(head(n)) \in Pushdownable /\ isSupport(Sys(head(n)), n))
  <2>1. unary(n) = [system |-> Spark, cross |-> {head(n)}] BY <1>5, Zenon DEF unary
  <2>2. ~ Pushable(n) BY <1>1, <1>5, PushableBelow
  <2>3. Sys(head(n)) # Spark BY <1>5, SparkInSystem DEF isSupport
  <2>4. Mixed(n) = [system |-> Spark, cross |-> {head(n)}] BY <1>3, <2>3 DEF Mixed
  <2> QED BY <2>1, <2>2, <2>4, MixedFacts
<1> QED BY <1>4, <1>5

\* The two children of a join or another binary operator.
LEMMA TwoChildren ==
  ASSUME plan \in Plan, NEW n \in 1..Root, plan[n].kind \in {"join", "binary"}
  PROVE  /\ Composite(n) /\ Arity(n) = 2
         /\ Children(n) = {Child(n, 1), Child(n, 2)} /\ head(n) = Child(n, 1)
         /\ Child(n, 1) # Child(n, 2)
<1>1. Shape(n) BY PlanShape
<1>2. Composite(n) /\ Arity(n) = 2 BY <1>1 DEF Shape, Arities, Composite
<1>3. Children(n) = {Child(n, 1), Child(n, 2)} BY <1>2 DEF Children, Arity
<1>4. Child(n, 1) = Start(Child(n, 2)) - 1
  <2>1. 1 \in 1..(Arity(n) - 1) /\ 1 + 1 = 2 BY <1>2
  <2>2. Child(n, 1) = Start(Child(n, 1 + 1)) - 1 BY <1>1, <2>1 DEF Shape
  <2> QED BY <2>1, <2>2, Zenon
<1>5. Child(n, 2) \in 1..Root
  <2>1. 2 \in 1..Arity(n) BY <1>2
  <2> QED BY <2>1, ChildWithin
<1>6. Start(Child(n, 2)) \in 1..Child(n, 2) BY <1>5, PlanShape DEF Shape
<1>7. Child(n, 1) # Child(n, 2) BY <1>4, <1>5, <1>6, PlanShape
<1> QED BY <1>2, <1>3, <1>7 DEF head

LEMMA JoinFacts ==
  ASSUME plan \in Plan, NEW n \in 1..Root, plan[n].kind = "join",
         \A c \in Children(n) : Exact(c)
  PROVE  NodeFacts(n, join(n))
<1> DEFINE l == Child(n, 1)  r == Child(n, 2)
<1>1. /\ Composite(n) /\ Arity(n) = 2 /\ Children(n) = {l, r} /\ head(n) = l /\ l # r
  BY TwoChildren
<1>2. CASE ~ fastEquals(Sys(l), Sys(r))
  <2>1. join(n) = Mixed(n) BY <1>2, Zenon DEF join
  <2>2. ~ Pushable(n) BY <1>1, <1>2, PushableBelow
  <2> QED BY <2>1, <2>2, MixedFacts
<1>3. CASE fastEquals(Sys(l), Sys(r)) /\ isSupport(Sys(l), n) /\ costUnderExpected(l, r)
  <2>1. join(n) = [system |-> Sys(l), cross |-> {}] BY <1>3, Zenon DEF join
  <2>2. Sys(l) \in Pushdownable /\ fastEquals(Sys(l), Sys(l)) BY <1>3, Equality
  <2>3. NodeFacts(n, [system |-> Sys(head(n)), cross |-> {}])
    BY <1>1, <1>3, <2>2, SupportedAbove
  <2> QED BY <1>1, <2>1, <2>3
<1>4. CASE fastEquals(Sys(l), Sys(r)) /\ ~ (isSupport(Sys(l), n) /\ costUnderExpected(l, r))
  <2>1. join(n) = [system |-> Spark, cross |-> {}] BY <1>4, Zenon DEF join
  <2>2. ~ Pushable(n) BY <1>1, <1>4, PushableBelow
  <2> QED BY <1>4, <2>1, <2>2, SparkInSystem DEF NodeFacts
<1> QED BY <1>2, <1>3, <1>4

LEMMA BinaryFacts ==
  ASSUME plan \in Plan, NEW n \in 1..Root, plan[n].kind = "binary",
         \A c \in Children(n) : Exact(c)
  PROVE  NodeFacts(n, binary(n))
<1> DEFINE l == Child(n, 1)  r == Child(n, 2)
<1>1. /\ Composite(n) /\ Arity(n) = 2 /\ Children(n) = {l, r} /\ head(n) = l /\ l # r
  BY TwoChildren
<1>2. CASE ~ fastEquals(Sys(l), Sys(r))
  <2>1. binary(n) = Mixed(n) BY <1>2, Zenon DEF binary
  <2>2. ~ Pushable(n) BY <1>1, <1>2, PushableBelow
  <2> QED BY <2>1, <2>2, MixedFacts
<1>3. CASE fastEquals(Sys(l), Sys(r)) /\ isSupport(Sys(l), n)
  <2>1. binary(n) = [system |-> Sys(l), cross |-> {}] BY <1>3, Zenon DEF binary
  <2>2. Sys(l) \in Pushdownable /\ fastEquals(Sys(l), Sys(l)) BY <1>3, Equality
  <2>3. NodeFacts(n, [system |-> Sys(head(n)), cross |-> {}])
    BY <1>1, <1>3, <2>2, SupportedAbove
  <2> QED BY <1>1, <2>1, <2>3
<1>4. CASE fastEquals(Sys(l), Sys(r)) /\ ~ isSupport(Sys(l), n)
  <2>1. binary(n) = [system |-> Spark, cross |-> {l, r}] BY <1>4, Zenon DEF binary
  <2>2. ~ Pushable(n) BY <1>1, <1>4, PushableBelow
  <2>3. Sys(l) # Spark /\ Sys(r) # Spark BY <1>4, Equality DEF isSupport
  <2>4. Mixed(n) = [system |-> Spark, cross |-> {l, r}] BY <1>1, <2>3 DEF Mixed
  <2> QED BY <2>1, <2>2, <2>4, MixedFacts
<1> QED BY <1>2, <1>3, <1>4

LEMMA UnionFacts ==
  ASSUME plan \in Plan, NEW n \in 1..Root, plan[n].kind = "union",
         \A c \in Children(n) : Exact(c), ~ CastFails(n)
  PROVE  NodeFacts(n, union(n))
<1>1. Composite(n) BY DEF Composite
<1>2. head(n) \in Children(n) BY <1>1, PushableAbove
<1>3. CASE dataSystemEquals(n) /\ isSupport(Sys(head(n)), n)
  <2>1. union(n) = [system |-> Sys(head(n)), cross |-> {}] BY <1>3, Zenon DEF union
  <2>2. Sys(head(n)) \in Pushdownable BY <1>3 DEF CastFails
  <2>3. \A c \in Children(n) : c = head(n) \/ fastEquals(Sys(head(n)), Sys(c))
    BY <1>3, Equality DEF dataSystemEquals
  <2>4. ASSUME Arity(n) > 1 PROVE fastEquals(Sys(head(n)), Sys(head(n)))
    <3>1. Shape(n) BY PlanShape
    <3>2. 2 \in 1..Arity(n) /\ 1 \in 1..(Arity(n) - 1) /\ 1 + 1 = 2 BY <2>4, <3>1 DEF Shape
    <3>3. Child(n, 2) \in Children(n) BY <3>2 DEF Children, Arity
    <3>4. Child(n, 2) # head(n)
      <4>1. Child(n, 1) = Start(Child(n, 1 + 1)) - 1 BY <3>1, <3>2 DEF Shape
      <4>2. Child(n, 1) = Start(Child(n, 2)) - 1 BY <3>2, <4>1, Zenon
      <4>3. Child(n, 2) \in 1..Root BY <3>2, ChildWithin
      <4>4. Start(Child(n, 2)) \in 1..Child(n, 2) BY <4>3, PlanShape DEF Shape
      <4> QED BY <4>2, <4>3, <4>4, PlanShape DEF head
    <3> QED BY <2>3, <3>3, <3>4, Equality
  <2>5. NodeFacts(n, [system |-> Sys(head(n)), cross |-> {}])
    BY <1>1, <1>3, <2>2, <2>3, <2>4, SupportedAbove
  <2> QED BY <2>1, <2>5
<1>4. CASE ~ (dataSystemEquals(n) /\ isSupport(Sys(head(n)), n))
  <2>1. union(n) = Mixed(n) BY <1>4, Zenon DEF union
  <2>2. ASSUME Pushable(n) PROVE FALSE
    <3>1. /\ isSupport(Sys(head(n)), n)
          /\ \A c \in Children(n) : c = head(n) \/ fastEquals(Sys(head(n)), Sys(c))
      BY <1>1, <2>2, PushableBelow
    <3>2. dataSystemEquals(n) BY <3>1, Equality DEF dataSystemEquals
    <3> QED BY <1>4, <3>1, <3>2
  <2> QED BY <2>1, <2>2, MixedFacts
<1> QED BY <1>3, <1>4

\* Every case of buildDataSystemTree gives a node its facts, if the pass was exact for the
\* children and no cast fails.
LEMMA StepFacts ==
  ASSUME plan \in Plan, NEW n \in 1..Root, \A c \in Children(n) : Exact(c), ~ CastFails(n)
  PROVE  NodeFacts(n, NodeOf(n))
<1> DEFINE k == plan[n].kind
<1>1. k \in {"relation", "leaf", "unary", "join", "binary", "union", "other"}
  <2>1. plan[n] \in Operator BY PlanShape DEF Shape
  <2> QED BY <2>1 DEF Operator
<1>2. CASE k = "relation"
  <2>1. NodeOf(n) = [system |-> plan[n].system, cross |-> {}] BY <1>2 DEF NodeOf
  <2> QED BY <1>2, <2>1, RelationFacts
<1>3. CASE k = "leaf"
  <2>1. NodeOf(n) = [system |-> Spark, cross |-> {}] BY <1>3 DEF NodeOf
  <2> QED BY <1>3, <2>1, LeafFacts
<1>4. CASE k = "unary"
  <2>1. NodeOf(n) = unary(n) BY <1>4 DEF NodeOf
  <2> QED BY <1>4, <2>1, UnaryFacts
<1>5. CASE k = "join"
  <2>1. NodeOf(n) = join(n) BY <1>5 DEF NodeOf
  <2> QED BY <1>5, <2>1, JoinFacts
<1>6. CASE k = "binary"
  <2>1. NodeOf(n) = binary(n) BY <1>6 DEF NodeOf
  <2> QED BY <1>6, <2>1, BinaryFacts
<1>7. CASE k = "union"
  <2>1. NodeOf(n) = union(n) BY <1>7 DEF NodeOf
  <2> QED BY <1>7, <2>1, UnionFacts
<1>8. CASE k = "other"
  <2>1. NodeOf(n) = [system |-> Spark, cross |-> Children(n)] BY <1>8 DEF NodeOf
  <2> QED BY <1>8, <2>1, OtherFacts
<1> QED BY <1>1, <1>2, <1>3, <1>4, <1>5, <1>6, <1>7, <1>8

-----------------------------------------------------------------------------
(* Equal subtrees                                                          *)

\* Equal subtrees are of one size and have the same operators at the same distances.
LEMMA SameOperators ==
  ASSUME plan \in Plan, NEW m \in 1..Root, NEW n \in 1..Root, SamePlan(m, n)
  PROVE  /\ Start(m) - Start(n) = m - n
         /\ \A x \in Subtree(n) : x + (m - n) \in Subtree(m) /\ plan[x + (m - n)] = plan[x]
<1> DEFINE a == Start(m)  b == Start(n)
<1>1. plan \in Seq(Operator) /\ Root \in Nat /\ Root = Len(plan) BY PlanShape DEF Root
<1>2. a \in 1..m /\ b \in 1..n BY PlanShape DEF Shape
<1>3. a \in 1..Len(plan) /\ m \in a..Len(plan) /\ b \in 1..Len(plan) /\ n \in b..Len(plan)
  BY <1>1, <1>2
<1>4. \A f \in 1..Len(plan) : \A g \in f..Len(plan) :
        /\ Len(SubSeq(plan, f, g)) = g - f + 1
        /\ \A i \in 1..(g - f + 1) : SubSeq(plan, f, g)[i] = plan[f + i - 1]
  BY <1>1, SubSeqProperties
<1>5. SubSeq(plan, a, m) = SubSeq(plan, b, n) BY DEF SamePlan
<1>6. m - a + 1 = n - b + 1
  <2>1. Len(SubSeq(plan, a, m)) = m - a + 1 BY <1>3, <1>4
  <2>2. Len(SubSeq(plan, b, n)) = n - b + 1 BY <1>3, <1>4
  <2> QED BY <1>5, <2>1, <2>2
<1>7. a - b = m - n BY <1>1, <1>2, <1>6
<1>8. ASSUME NEW x \in Subtree(n)
      PROVE  x + (m - n) \in Subtree(m) /\ plan[x + (m - n)] = plan[x]
  <2>1. x \in b..n BY DEF Subtree
  <2>2. x + (m - n) \in a..m BY <1>1, <1>2, <1>6, <2>1
  <2>3. PICK i \in 1..(n - b + 1) : x = b + i - 1
    <3>1. x - b + 1 \in 1..(n - b + 1) /\ x = b + (x - b + 1) - 1 BY <1>1, <1>2, <2>1
    <3> QED BY <3>1
  <2>4. i \in 1..(m - a + 1) BY <1>6, <2>3
  <2>5. SubSeq(plan, b, n)[i] = plan[b + i - 1] BY <1>3, <1>4, <2>3
  <2>6. SubSeq(plan, a, m)[i] = plan[a + i - 1] BY <1>3, <1>4, <2>4
  <2>7. a + i - 1 = x + (m - n)
    <3>1. i \in Int /\ a \in Int /\ b \in Int /\ m \in Int /\ n \in Int BY <1>1, <1>2, <2>3
    <3> HIDE DEF a, b
    <3> QED BY <3>1, <1>7, <2>3
  <2> QED BY <1>5, <2>2, <2>3, <2>5, <2>6, <2>7 DEF Subtree
<1> QED BY <1>7, <1>8

\* So what may leave Spark in one place may in the other, for the same system.
LEMMA SamePushable ==
  ASSUME plan \in Plan, NEW m \in 1..Root, NEW n \in 1..Root, SamePlan(m, n), Pushable(n)
  PROVE  Pushable(m) /\ Home(m) = Home(n)
<1> DEFINE d == m - n
<1>1. Root \in Nat BY PlanShape
<1>2. Start(m) \in 1..m /\ Start(n) \in 1..n BY PlanShape DEF Shape
<1>3. Start(m) - Start(n) = d /\ \A x \in Subtree(n) : plan[x + d] = plan[x] BY SameOperators
<1>4. d \in Int /\ m = n + d BY <1>1
<1>5. Start(n) + d = Start(m) BY <1>2, <1>3, <1>4
<1>6. Home(m) = Home(n)
  <2>1. Start(n) \in Subtree(n) BY FirstIsLeaf
  <2>2. plan[Start(n) + d] = plan[Start(n)] BY <1>3, <2>1
  <2> QED BY <1>5, <2>2 DEF Home
<1>7. Home(n) \in Pushdownable \ {Spark} /\ \A x \in Subtree(n) : Runs(x, Home(n), Start(n))
  BY PushableRuns
<1>8. ASSUME NEW y \in Subtree(m) PROVE Runs(y, Home(n), Start(m))
  <2>1. y \in Start(m)..m BY DEF Subtree
  <2>2. PICK x \in Subtree(n) : y = x + d
    <3>1. y - d \in Start(n)..n /\ y = (y - d) + d BY <1>1, <1>2, <1>4, <1>5, <2>1
    <3> QED BY <3>1 DEF Subtree
  <2>3. plan[y] = plan[x] BY <1>3, <2>2
  <2>4. Runs(x, Home(n), Start(n)) BY <1>7
  <2>5. x \in 1..Root /\ Start(n) <= Start(x) /\ Subtree(x) \subseteq Subtree(n) BY Nested
  <2>6. Shape(x) BY <2>5, PlanShape
  <2>7. x = Start(n) => y = Start(m) BY <1>5, <2>2
  <2>8. Arity(y) = Arity(x) BY <2>3 DEF Arity
  <2>9. ASSUME plan[x].kind = "join", costUnderExpected(Child(x, 1), Child(x, 2))
        PROVE  costUnderExpected(Child(y, 1), Child(y, 2))
    <3>1. Arity(x) = 2 BY <2>5, <2>9, TwoChildren
    <3>2. ASSUME NEW i \in 1..Arity(x) PROVE plan[Child(y, i)] = plan[Child(x, i)]
      <4>1. Child(x, i) \in 1..Root /\ Child(x, i) < x /\ Start(x) <= Start(Child(x, i))
        BY <2>5, ChildWithin
      <4>2. Start(Child(x, i)) \in 1..Child(x, i) /\ Start(x) \in 1..x
        BY <2>6, <4>1, PlanShape DEF Shape
      <4>3. Child(x, i) \in Subtree(x) BY <1>1, <2>5, <4>1, <4>2 DEF Subtree
      <4>4. plan[Child(x, i) + d] = plan[Child(x, i)] BY <1>3, <2>5, <4>3
      <4>5. plan[x].children[i] \in Nat
        <5>1. plan[x].children \in Seq(Nat) BY <2>6 DEF Shape, Operator
        <5> QED BY <5>1, ElementOfSeq DEF Arity
      <4>6. Child(y, i) = y - plan[x].children[i] /\ Child(x, i) = x - plan[x].children[i]
        BY <2>3 DEF Child
      <4>7. \A z \in Nat : (x + d) - z = (x - z) + d BY <1>1, <1>4, <2>5
      <4>8. Child(y, i) = Child(x, i) + d BY <2>2, <4>5, <4>6, <4>7, Zenon
      <4> QED BY <4>4, <4>8
    <3>3. plan[Child(y, 1)] = plan[Child(x, 1)] /\ plan[Child(y, 2)] = plan[Child(x, 2)]
      BY <3>1, <3>2
    <3> QED BY <2>9, <3>3 DEF costUnderExpected
  <2>10. CASE plan[x].kind = "relation" BY <2>10, <2>3, <2>4, <2>7 DEF Runs
  <2>11. CASE plan[x].kind # "relation" BY <2>11, <2>3, <2>4, <2>8, <2>9 DEF Runs
  <2> QED BY <2>10, <2>11
<1> QED BY <1>6, <1>7, <1>8, PushableRuns

-----------------------------------------------------------------------------
(* The inductive invariant                                                 *)

\* The nodes built so far are as they should be.
Built ==
  /\ plan \in Plan
  /\ tree \in Seq([system : System, cross : SUBSET (1..Root)]) /\ Len(tree) <= Root
  /\ \A n \in 1..Len(tree) :
       /\ NodeFacts(n, tree[n])
       /\ plan[n].kind = "relation" => tree[n].system = plan[n].system
       /\ plan[n].kind = "other" => tree[n].cross = Children(n)

\* The search begins when the tree is complete.  A node is visited because its parent depends
\* on it as on its own kind; a subtree that is as large as can be is found, or still below a
\* node to be visited, or hidden; and from a root that may leave Spark nothing is found.
Searched ==
  /\ waitingForVisit \subseteq 1..Root /\ parents \subseteq 1..Root
  /\ Len(tree) < Root => waitingForVisit = {Root} /\ parents = {}
  /\ \A w \in waitingForVisit :
       w = Root \/ \E j \in 1..Root : w \in Children(j) \ tree[j].cross
  /\ \A n \in 1..Root : Maximal(n) /\ n # Root =>
       n \in parents \/ Hidden(n) \/ \E w \in waitingForVisit : n \in Subtree(w)
  /\ Pushable(Root) => parents = {} /\ \A w \in waitingForVisit : Pushable(w)

\* The rule has decided only after the search.
Decided ==
  /\ outcome \in [kind : {"none", "whole", "partial", "failed"}, points : SUBSET (1..Root)]
  /\ outcome.kind \in {"whole", "partial"} => Len(tree) = Root /\ waitingForVisit = {}

PushdownInv == Built /\ Searched /\ Decided /\ PointsExact

LEMMA FactsExact ==
  ASSUME NEW n, NodeFacts(n, tree[n])
  PROVE  Exact(n)
BY DEF NodeFacts, Exact, Sys

\* What is read off the plan does not change with the other variables.
LEMMA PlanKept ==
  ASSUME plan' = plan
  PROVE  /\ Root' = Root
         /\ \A n : /\ Start(n)' = Start(n) /\ Subtree(n)' = Subtree(n)
                   /\ Children(n)' = Children(n) /\ Home(n)' = Home(n)
                   /\ Pushable(n)' <=> Pushable(n)
                   /\ Maximal(n)' <=> Maximal(n)
         /\ \A n, i : Child(n, i)' = Child(n, i)
<1>1. Root' = Root BY DEF Root
<1>2. \A n : Start(n)' = Start(n) BY DEF Start
<1>3. \A n : Subtree(n)' = Subtree(n) BY <1>2 DEF Subtree
<1>4. \A n, i : Child(n, i)' = Child(n, i) BY DEF Child
<1>5. \A n : Children(n)' = Children(n) BY DEF Children, Child
<1>6. \A n : Home(n)' = Home(n) BY DEF Home, Start
<1>7. \A n : Pushable(n)' <=> Pushable(n)
  BY DEF Pushable, Home, Start, Subtree, Child, costUnderExpected, fastEquals
<1>8. \A n : Maximal(n)' <=> Maximal(n) BY <1>1, <1>5, <1>7 DEF Maximal
<1> QED BY <1>1, <1>2, <1>3, <1>4, <1>5, <1>6, <1>7, <1>8

LEMMA InitInv == PushdownInit => PushdownInv
<1> SUFFICES ASSUME PushdownInit PROVE PushdownInv
  OBVIOUS
<1>1. /\ plan \in Plan /\ tree = <<>> /\ waitingForVisit = {Root} /\ parents = {}
      /\ outcome = [kind |-> "none", points |-> {}]
  BY DEF PushdownInit, Root
<1>2. Root \in Nat \ {0} /\ Start(Root) = 1 BY <1>1, PlanShape
<1>3. Len(tree) = 0 BY <1>1, EmptySeq
<1>4. Built BY <1>1, <1>2, <1>3, EmptySeq DEF Built
<1>5. Searched
  <2>1. \A n \in 1..Root : n \in Subtree(Root) BY <1>2 DEF Subtree
  <2> QED BY <1>1, <1>2, <1>3, <2>1 DEF Searched
<1>6. Decided BY <1>1 DEF Decided
<1>7. PointsExact BY <1>1 DEF PointsExact
<1> QED BY <1>4, <1>5, <1>6, <1>7 DEF PushdownInv

\* A step that only changes nodes that are still to come keeps the facts of node m.
LEMMA FactsKept ==
  ASSUME plan \in Plan, plan' = plan, NEW m \in 1..Root, NEW r, NodeFacts(m, r),
         \A c \in Children(m) : Sys(c)' = Sys(c)
  PROVE  NodeFacts(m, r)'
<1>1. /\ Children(m)' = Children(m) /\ Home(m)' = Home(m)
      /\ \A n : Pushable(n)' <=> Pushable(n)
      /\ \A i : Child(m, i)' = Child(m, i)
  BY PlanKept
<1>2. NodeFacts(m, r)' <=>
        /\ r \in [system : System, cross : SUBSET Children(m)']
        /\ r.system \in Pushdownable \ {Spark} <=> Pushable(m)'
        /\ Pushable(m)' => r.system = Home(m)' /\ r.cross = {}
        /\ r.system \notin Pushdownable => plan'[m].kind = "relation"
        /\ \A c \in Children(m)' \ r.cross : Pushable(c)' /\ ~ Pushable(m)' =>
             plan'[m].kind = "join" /\ fastEquals(Sys(Child(m, 1))', Sys(Child(m, 2))')
        /\ \A c \in r.cross : Sys(c)' = Spark => plan'[m].kind = "other"
  BY DEF NodeFacts, fastEquals, Sys
<1>3. ASSUME plan[m].kind = "join"
      PROVE  Sys(Child(m, 1))' = Sys(Child(m, 1)) /\ Sys(Child(m, 2))' = Sys(Child(m, 2))
  <2>1. Child(m, 1) \in Children(m) /\ Child(m, 2) \in Children(m) BY <1>3, TwoChildren
  <2>2. PICK a, b : a = Child(m, 1) /\ b = Child(m, 2) OBVIOUS
  <2>3. Sys(a)' = Sys(a) /\ Sys(b)' = Sys(b) BY <2>1, <2>2
  <2>4. Child(m, 1)' = a /\ Child(m, 2)' = b BY <1>1, <2>2
  <2> QED BY <2>2, <2>3, <2>4 DEF Sys
<1>4. r \in [system : System, cross : SUBSET Children(m)] BY DEF NodeFacts
<1>5. \A c \in r.cross : Sys(c)' = Sys(c) BY <1>4
<1> QED BY <1>1, <1>2, <1>3, <1>5 DEF NodeFacts

\* The children of a node come before it.
LEMMA ChildrenBefore ==
  ASSUME plan \in Plan, NEW n \in 1..Root, NEW c \in Children(n)
  PROVE  c \in 1..Root /\ c < n /\ c \in Subtree(n)
<1>1. PICK i \in 1..Arity(n) : c = Child(n, i) BY DEF Children, Arity
<1>2. c \in 1..Root /\ c < n /\ Start(n) <= Start(c) BY <1>1, ChildWithin
<1>3. Start(c) \in 1..c /\ Start(n) \in 1..n /\ Root \in Nat BY <1>2, PlanShape DEF Shape
<1> QED BY <1>2, <1>3 DEF Subtree

\* A step that changes neither the plan nor the tree keeps what they say.
LEMMA TreeKept ==
  ASSUME Built, plan' = plan, tree' = tree
  PROVE  /\ Built'
         /\ \A n : (Hidden(n)' <=> Hidden(n)) /\ (GoodAt(n)' <=> GoodAt(n))
<1>1. plan \in Plan /\ Len(tree) <= Root BY DEF Built
<1>2. Root \in Nat /\ Len(tree) \in Nat BY <1>1, PlanShape, LenProperties DEF Built
<1>3. Root' = Root /\ \A m : Children(m)' = Children(m) BY PlanKept
<1>4. \A m : Sys(m)' = Sys(m) BY DEF Sys
<1>5. ASSUME NEW m \in 1..Len(tree) PROVE NodeFacts(m, tree[m])'
  <2>1. m \in 1..Root BY <1>1, <1>2
  <2>2. \A r : NodeFacts(m, r) => NodeFacts(m, r)' BY <1>1, <1>4, <2>1, FactsKept
  <2>3. PICK r : r = tree[m] OBVIOUS
  <2>4. NodeFacts(m, r)' BY <2>2, <2>3 DEF Built
  <2> QED BY <2>3, <2>4 DEF NodeFacts
<1>6. Built' BY <1>3, <1>5 DEF Built
<1>7. \A n : GoodAt(n)' <=> GoodAt(n) BY DEF GoodAt, Sys, Subtree, Start
<1>8. \A n : Hidden(n)' <=> Hidden(n)
  <2>1. \A n : (Pushable(n)' <=> Pushable(n)) /\ Subtree(n)' = Subtree(n) BY PlanKept
  <2>2. \A j : Sys(Child(j, 1))' = Sys(Child(j, 1)) /\ Sys(Child(j, 2))' = Sys(Child(j, 2))
    BY DEF Sys, Child
  <2> QED BY <1>3, <2>1, <2>2 DEF Hidden, fastEquals
<1> QED BY <1>6, <1>7, <1>8

LEMMA BuildInv ==
  ASSUME PushdownInv, buildDataSystemTree
  PROVE  PushdownInv'
<1> DEFINE n == Len(tree) + 1
           Node == [system : System, cross : SUBSET (1..Root)]
<1>1. /\ plan \in Plan /\ tree \in Seq(Node) /\ Len(tree) <= Root
      /\ \A m \in 1..Len(tree) :
           /\ NodeFacts(m, tree[m])
           /\ plan[m].kind = "relation" => tree[m].system = plan[m].system
           /\ plan[m].kind = "other" => tree[m].cross = Children(m)
  BY DEF PushdownInv, Built
<1>2. plan' = plan /\ waitingForVisit' = waitingForVisit /\ parents' = parents
      /\ outcome.kind = "none" /\ Len(tree) < Root
  BY DEF buildDataSystemTree
<1>3. Root \in Nat /\ Len(tree) \in Nat BY <1>1, PlanShape, LenProperties
<1>4. n \in 1..Root BY <1>2, <1>3
<1>5. waitingForVisit = {Root} /\ parents = {} BY <1>2 DEF PushdownInv, Searched
<1>6. Root' = Root /\ Subtree(Root)' = Subtree(Root) /\ (Pushable(Root)' <=> Pushable(Root))
  BY <1>2, PlanKept
<1>7. Searched'
  <2>1. \A m \in 1..Root : m \in Subtree(Root) BY <1>1, <1>3, PlanShape DEF Subtree
  <2>2. Pushable(Root) => \A w \in waitingForVisit : Pushable(w)
    BY DEF PushdownInv, Searched
  <2>3. Searched' <=>
          /\ waitingForVisit' \subseteq 1..Root' /\ parents' \subseteq 1..Root'
          /\ Len(tree') < Root' => waitingForVisit' = {Root'} /\ parents' = {}
          /\ \A w \in waitingForVisit' :
               w = Root' \/ \E j \in 1..Root' : w \in Children(j)' \ tree'[j].cross
          /\ \A m \in 1..Root' : Maximal(m)' /\ m # Root' =>
               m \in parents' \/ Hidden(m)' \/ \E w \in waitingForVisit' : m \in Subtree(w)'
          /\ Pushable(Root)' => parents' = {} /\ \A w \in waitingForVisit' : Pushable(w)'
    BY DEF Searched
  <2>4. \A w : (Pushable(w)' <=> Pushable(w)) /\ Subtree(w)' = Subtree(w) BY <1>2, PlanKept
  <2>6. Root \in 1..Root BY <1>1, PlanShape
  <2> QED BY <1>2, <1>5, <1>6, <2>1, <2>2, <2>3, <2>4, <2>6
<1>8. CASE ~ CastFails(n) /\ tree' = Append(tree, NodeOf(n)) /\ UNCHANGED outcome
  <2>1. ASSUME NEW c \in Children(n) PROVE Exact(c)
    <3>1. c \in 1..Len(tree) BY <1>1, <1>3, <1>4, ChildrenBefore
    <3> QED BY <1>1, <3>1, FactsExact
  <2>2. NodeFacts(n, NodeOf(n)) BY <1>1, <1>4, <1>8, <2>1, StepFacts
  <2>3. NodeOf(n) \in Node
    <3>1. NodeOf(n) \in [system : System, cross : SUBSET Children(n)] BY <2>2 DEF NodeFacts
    <3>2. Children(n) \subseteq 1..Root BY <1>1, <1>4, ChildrenBefore
    <3> QED BY <3>1, <3>2
  <2>4. /\ tree' \in Seq(Node) /\ Len(tree') = n
        /\ \A m \in 1..Len(tree) : tree'[m] = tree[m]
        /\ tree'[n] = NodeOf(n)
    BY <1>1, <1>3, <1>8, <2>3, AppendProperties
  <2>5. /\ plan[n].kind = "relation" => NodeOf(n).system = plan[n].system
        /\ plan[n].kind = "other" => NodeOf(n).cross = Children(n)
    BY DEF NodeOf
  <2>6. ASSUME NEW m \in 1..n
        PROVE  /\ NodeFacts(m, tree[m])'
               /\ plan'[m].kind = "relation" => tree'[m].system = plan'[m].system
               /\ plan'[m].kind = "other" => tree'[m].cross = Children(m)'
    <3>1. m \in 1..Root BY <1>3, <1>4
    <3>2. ASSUME NEW c \in Children(m) PROVE Sys(c)' = Sys(c)
      <4>1. c \in 1..Len(tree) BY <1>1, <1>3, <3>1, ChildrenBefore
      <4> QED BY <2>4, <4>1 DEF Sys
    <3>3. /\ NodeFacts(m, tree'[m])
          /\ plan[m].kind = "relation" => tree'[m].system = plan[m].system
          /\ plan[m].kind = "other" => tree'[m].cross = Children(m)
      <4>1. CASE m = n BY <2>2, <2>4, <2>5, <4>1
      <4>2. CASE m # n
        <5>1. m \in 1..Len(tree) BY <1>3, <4>2
        <5> QED BY <1>1, <2>4, <5>1
      <4> QED BY <4>1, <4>2
    <3>4. \A r : NodeFacts(m, r) => NodeFacts(m, r)' BY <1>1, <1>2, <3>1, <3>2, FactsKept
    <3>5. NodeFacts(m, tree[m])'
      <4>1. PICK r : r = tree'[m] OBVIOUS
      <4>2. NodeFacts(m, r)' BY <3>3, <3>4, <4>1
      <4> QED BY <4>1, <4>2 DEF NodeFacts
    <3>6. Children(m)' = Children(m) BY <1>2, PlanKept
    <3> QED BY <1>2, <3>3, <3>5, <3>6
  <2>7. Built'
    <3>1. Built' <=>
            /\ plan' \in Plan
            /\ tree' \in Seq([system : System, cross : SUBSET (1..Root')]) /\ Len(tree') <= Root'
            /\ \A m \in 1..Len(tree') :
                 /\ NodeFacts(m, tree[m])'
                 /\ plan'[m].kind = "relation" => tree'[m].system = plan'[m].system
                 /\ plan'[m].kind = "other" => tree'[m].cross = Children(m)'
      BY DEF Built
    <3>2. n <= Root BY <1>3, <1>4
    <3> QED BY <1>1, <1>2, <1>6, <2>4, <2>6, <3>1, <3>2
  <2>8. outcome' = outcome BY <1>8
  <2>9. Decided' BY <1>2, <1>6, <2>8 DEF PushdownInv, Decided
  <2>10. PointsExact' BY <1>2, <2>8 DEF PointsExact
  <2> QED BY <1>7, <2>7, <2>9, <2>10 DEF PushdownInv
<1>9. CASE outcome' = [kind |-> "failed", points |-> {}] /\ UNCHANGED tree
  <2>1. Built' BY <1>2, <1>9, TreeKept DEF PushdownInv
  <2>2. Decided' BY <1>9 DEF Decided
  <2>3. PointsExact' BY <1>9 DEF PointsExact
  <2> QED BY <1>7, <2>1, <2>2, <2>3 DEF PushdownInv
<1> QED BY <1>8, <1>9 DEF buildDataSystemTree

LEMMA VisitInv ==
  ASSUME PushdownInv, NEW n \in 1..Root, visit(n)
  PROVE  PushdownInv'
<1>1. /\ Len(tree) = Root /\ n \in waitingForVisit
      /\ waitingForVisit' = (waitingForVisit \ {n}) \cup (Children(n) \ tree[n].cross)
      /\ parents' = parents \cup tree[n].cross
      /\ plan' = plan /\ tree' = tree /\ outcome' = outcome
  BY DEF visit
<1>2. Built /\ plan \in Plan BY DEF PushdownInv, Built
<1>3. Root \in Nat BY <1>2, PlanShape
<1>4. \A m \in 1..Root : /\ NodeFacts(m, tree[m]) /\ Exact(m)
                         /\ plan[m].kind = "other" => tree[m].cross = Children(m)
  BY <1>1, <1>2, FactsExact DEF Built
<1>5. /\ Built' /\ Root' = Root /\ Subtree(Root)' = Subtree(Root)
      /\ (Pushable(Root)' <=> Pushable(Root))
      /\ \A m : /\ Hidden(m)' <=> Hidden(m)
                /\ GoodAt(m)' <=> GoodAt(m)
                /\ Pushable(m)' <=> Pushable(m)
                /\ Maximal(m)' <=> Maximal(m)
                /\ Subtree(m)' = Subtree(m) /\ Children(m)' = Children(m)
  BY <1>1, <1>2, TreeKept, PlanKept
<1>6. tree[n].cross \subseteq Children(n) /\ Children(n) \subseteq 1..Root
  <2>1. tree[n] \in [system : System, cross : SUBSET Children(n)] BY <1>4 DEF NodeFacts
  <2>2. Children(n) \subseteq 1..Root BY <1>2, ChildrenBefore
  <2> QED BY <2>1, <2>2
<1>7. ASSUME NEW w \in waitingForVisit'
      PROVE  w = Root \/ \E j \in 1..Root : w \in Children(j) \ tree[j].cross
  BY <1>1, <1>7 DEF PushdownInv, Searched
<1>8. ASSUME NEW m \in 1..Root, Maximal(m), m # Root
      PROVE  m \in parents' \/ Hidden(m) \/ \E w \in waitingForVisit' : m \in Subtree(w)
  <2>1. m \in parents \/ Hidden(m) \/ \E w \in waitingForVisit : m \in Subtree(w)
    BY <1>8 DEF PushdownInv, Searched
  <2>2. CASE m \in parents \/ Hidden(m) BY <1>1, <2>2
  <2>3. CASE \E w \in waitingForVisit : m \in Subtree(w) /\ w # n BY <1>1, <2>3
  <2>4. CASE m = n
    <3>1. PICK j \in 1..Root : n \in Children(j) \ tree[j].cross
      BY <1>1, <1>8, <2>4 DEF PushdownInv, Searched
    <3>2. Pushable(n) /\ ~ Pushable(j) BY <1>8, <2>4, <3>1 DEF Maximal
    <3>3. plan[j].kind = "join" /\ fastEquals(Sys(Child(j, 1)), Sys(Child(j, 2)))
      BY <1>4, <3>1, <3>2 DEF NodeFacts
    <3>4. Hidden(m) BY <2>4, <3>1, <3>2, <3>3 DEF Hidden
    <3> QED BY <3>4
  <2>5. CASE m \in Subtree(n) /\ m # n
    <3>1. PICK i \in 1..Arity(n) : m \in Subtree(Child(n, i)) BY <1>2, <2>5, Covered
    <3> DEFINE c == Child(n, i)
    <3>2. c \in Children(n) /\ c \in 1..Root BY <1>6 DEF Children, Arity
    <3>3. CASE c \notin tree[n].cross BY <1>1, <3>1, <3>2, <3>3
    <3>4. CASE m \in tree[n].cross BY <1>1, <3>4
    <3>5. CASE c \in tree[n].cross /\ m \notin tree[n].cross
      <4>1. m # c BY <3>5
      <4>2. PICK j \in Subtree(c) : j \in 1..Root /\ m \in Children(j)
        BY <1>2, <3>1, <3>2, <4>1, ParentWithin
      <4>3. ~ Pushable(j) BY <1>8, <4>2 DEF Maximal
      <4>4. ~ Pushable(c) BY <1>2, <3>2, <4>2, <4>3, PushableWithin
      <4>5. Sys(c) \notin Pushdownable \ {Spark} BY <1>4, <3>2, <4>4 DEF Exact
      <4>6. CASE Sys(c) = Spark
        <5>1. plan[n].kind = "other" BY <1>4, <3>5, <4>6 DEF NodeFacts
        <5>2. m \notin Children(n) BY <1>4, <3>5, <5>1
        <5>3. Hidden(m) BY <2>5, <5>1, <5>2 DEF Hidden
        <5> QED BY <5>3
      <4>7. CASE Sys(c) \notin Pushdownable
        <5>1. tree[c].system \notin Pushdownable BY <4>7 DEF Sys
        <5>2. plan[c].kind = "relation" BY <1>4, <3>2, <5>1 DEF NodeFacts
        <5>3. Start(c) = c BY <1>2, <3>2, <5>2, NoChildren
        <5>4. m = c BY <1>3, <3>1, <3>2, <5>3 DEF Subtree
        <5> QED BY <4>1, <5>4
      <4> QED BY <4>5, <4>6, <4>7
    <3> QED BY <3>3, <3>4, <3>5
  <2> QED BY <2>1, <2>2, <2>3, <2>4, <2>5
<1>9. ASSUME Pushable(Root) PROVE parents' = {} /\ \A w \in waitingForVisit' : Pushable(w)
  <2>1. parents = {} /\ \A w \in waitingForVisit : Pushable(w)
    BY <1>9 DEF PushdownInv, Searched
  <2>2. Pushable(n) BY <1>1, <2>1
  <2>3. tree[n].cross = {} BY <1>4, <2>2 DEF NodeFacts
  <2>4. \A c \in Children(n) : Pushable(c) BY <1>2, <2>2, ChildrenBefore, PushableWithin
  <2> QED BY <1>1, <2>1, <2>3, <2>4
<1>10. waitingForVisit' \subseteq 1..Root /\ parents' \subseteq 1..Root
  BY <1>1, <1>6 DEF PushdownInv, Searched
<1>11. Searched' BY <1>1, <1>3, <1>5, <1>7, <1>8, <1>9, <1>10 DEF Searched
<1>12. Decided' BY <1>1, <1>5 DEF PushdownInv, Decided
<1>13. PointsExact'
  <2>1. PointsExact BY DEF PushdownInv
  <2> QED BY <1>1, <1>5, <2>1 DEF PointsExact
<1> QED BY <1>5, <1>11, <1>12, <1>13 DEF PushdownInv

\* Whatever plan equality finds may leave Spark, and its system is good at some of it: where
\* a point is Spark's, so is its equal.
LEMMA HitsAreGood ==
  ASSUME Built, Len(tree) = Root, NEW n \in 1..Root, NEW p \in 1..Root,
         Sys(n) # Spark, SamePlan(n, p), Sys(p) = Spark \/ GoodAt(p), Sys(p) \in Pushdownable
  PROVE  Pushable(n) /\ GoodAt(n)
<1>1. plan \in Plan BY DEF Built
<1>2. \A m \in 1..Root : /\ NodeFacts(m, tree[m]) /\ Exact(m)
                         /\ plan[m].kind = "relation" => Sys(m) = plan[m].system
  BY FactsExact DEF Built, Sys
<1>3. Root \in Nat BY <1>1, PlanShape
<1>4. /\ \A x \in Subtree(p) : x + (n - p) \in Subtree(n) /\ plan[x + (n - p)] = plan[x]
  BY <1>1, SameOperators
<1>5. CASE Sys(p) = Spark
  <2>1. ~ Pushable(p) BY <1>2, <1>5 DEF Exact
  <2>2. SamePlan(p, n) BY DEF SamePlan
  <2>3. ~ Pushable(n) BY <1>1, <2>1, <2>2, SamePushable
  <2>4. Sys(n) \notin Pushdownable BY <1>2, <2>3 DEF Exact
  <2>5. tree[n].system \notin Pushdownable BY <2>4 DEF Sys
  <2>6. plan[n].kind = "relation" BY <1>2, <2>5 DEF NodeFacts
  <2>7. plan[p] = plan[n]
    <3>1. p \in Subtree(p) BY <1>1, FirstIsLeaf
    <3>2. plan[p + (n - p)] = plan[p] BY <1>4, <3>1
    <3>3. p + (n - p) = n BY <1>3
    <3> QED BY <3>2, <3>3
  <2>8. Sys(p) = Sys(n) BY <1>2, <2>6, <2>7
  <2> QED BY <1>5, <2>8
<1>6. CASE Sys(p) # Spark
  <2>1. Pushable(p) BY <1>2, <1>6 DEF Exact
  <2>2. Pushable(n) /\ Home(n) = Home(p) BY <1>1, <2>1, SamePushable
  <2>3. Sys(n) = Sys(p) BY <1>2, <2>1, <2>2 DEF Exact
  <2>4. PICK x \in Subtree(p) : Sys(p) \in plan[x].goodFor BY <1>6 DEF GoodAt
  <2>5. x + (n - p) \in Subtree(n) /\ Sys(n) \in plan[x + (n - p)].goodFor
    BY <1>4, <2>3, <2>4
  <2> QED BY <2>2, <2>5 DEF GoodAt
<1> QED BY <1>5, <1>6

LEMMA ApplyInv ==
  ASSUME PushdownInv, apply
  PROVE  PushdownInv'
<1> DEFINE good == {n \in 1..Root : Pushable(n) /\ GoodAt(n)}
           pts == {n \in parents : Sys(n) \in Pushdownable /\ (Sys(n) = Spark \/ GoodAt(n))}
           hit == {n \in 1..Root : Sys(n) # Spark /\ \E p \in pts : SamePlan(n, p)}
<1>1. /\ outcome.kind = "none" /\ Len(tree) = Root /\ waitingForVisit = {}
      /\ plan' = plan /\ tree' = tree
      /\ waitingForVisit' = waitingForVisit /\ parents' = parents
  BY DEF apply
<1>2. Built /\ plan \in Plan BY DEF PushdownInv, Built
<1>3. Root \in Nat \ {0} BY <1>2, PlanShape
<1>4. \A m \in 1..Root : Exact(m) BY <1>1, <1>2, FactsExact DEF Built
<1>5. /\ Built' /\ Root' = Root /\ Subtree(Root)' = Subtree(Root)
      /\ (Pushable(Root)' <=> Pushable(Root)) /\ (GoodAt(Root)' <=> GoodAt(Root))
      /\ \A m : /\ Hidden(m)' <=> Hidden(m)
                /\ GoodAt(m)' <=> GoodAt(m)
                /\ Pushable(m)' <=> Pushable(m)
                /\ Maximal(m)' <=> Maximal(m)
                /\ Subtree(m)' = Subtree(m) /\ Children(m)' = Children(m)
  BY <1>1, <1>2, TreeKept, PlanKept
<1>6. Searched' BY <1>1, <1>5 DEF PushdownInv, Searched
<1>7. PointsExact' <=>
        /\ outcome'.kind = "whole" <=>
             outcome'.kind # "none" /\ outcome'.kind # "failed" /\ Root \in good
        /\ outcome'.kind = "partial" =>
             /\ outcome'.points \subseteq good
             /\ \A m, n \in outcome'.points : n \in Subtree(m) => m = n
             /\ {n \in good : Maximal(n) /\ ~ Hidden(n)} \subseteq outcome'.points
  BY <1>5 DEF PointsExact
<1>8. Root \in good <=> Sys(Root) \in Pushdownable \ {Spark} /\ GoodAt(Root)
  BY <1>3, <1>4 DEF Exact
<1>9. CASE Whole /\ outcome' = [kind |-> "whole", points |-> {Root}]
  <2>1. Root \in good BY <1>8, <1>9 DEF Whole
  <2>2. PointsExact' BY <1>7, <1>9, <2>1
  <2>3. Decided' BY <1>1, <1>3, <1>5, <1>9 DEF Decided
  <2> QED BY <1>5, <1>6, <2>2, <2>3 DEF PushdownInv
<1>10. CASE ~ Whole /\ outcome' = [kind |-> "partial", points |-> Replaced(pts)]
  <2>1. Replaced(pts) = {n \in hit : ~ \E m \in hit \ {n} : n \in Subtree(m)}
    BY DEF Replaced
  <2>2. parents \subseteq 1..Root BY DEF PushdownInv, Searched
  <2>3. ASSUME NEW n \in hit PROVE n \in good
    <3>1. PICK p \in pts : SamePlan(n, p) OBVIOUS
    <3>2. p \in 1..Root /\ Sys(p) \in Pushdownable /\ (Sys(p) = Spark \/ GoodAt(p)) BY <2>2
    <3>3. n \in 1..Root /\ Sys(n) # Spark OBVIOUS
    <3> HIDE DEF hit, pts
    <3>4. Pushable(n) /\ GoodAt(n) BY <1>1, <1>2, <3>1, <3>2, <3>3, HitsAreGood
    <3> QED BY <3>3, <3>4
  <2>4. Root \notin good
    <3>1. Pushable(Root) => parents = {} BY DEF PushdownInv, Searched
    <3> QED BY <1>8, <1>10, <3>1 DEF Whole
  <2>5. Replaced(pts) \subseteq hit
        /\ \A m, n \in Replaced(pts) : n \in Subtree(m) => m = n
    BY <2>1
  <2>6. ASSUME NEW n \in good, Maximal(n), ~ Hidden(n) PROVE n \in Replaced(pts)
    <3>1. n \in 1..Root /\ Pushable(n) /\ GoodAt(n) /\ n # Root BY <2>4
    <3>2. n \in parents BY <1>1, <2>6, <3>1 DEF PushdownInv, Searched
    <3>3. Sys(n) \in Pushdownable \ {Spark} BY <1>4, <3>1 DEF Exact
    <3>4. n \in hit BY <3>1, <3>2, <3>3 DEF SamePlan
    <3>5. ASSUME NEW m \in hit, m # n, n \in Subtree(m) PROVE FALSE
      <4>1. m \in 1..Root /\ Pushable(m) BY <2>3
      <4>2. PICK j \in Subtree(m) : j \in 1..Root /\ n \in Children(j)
        BY <1>2, <3>5, <4>1, ParentWithin
      <4>3. Pushable(j) BY <1>2, <4>1, <4>2, PushableWithin
      <4> QED BY <2>6, <4>2, <4>3 DEF Maximal
    <3> QED BY <2>1, <3>4, <3>5
  <2> HIDE DEF pts, hit, good
  <2>7. PointsExact' BY <1>7, <1>10, <2>3, <2>4, <2>5, <2>6
  <2>8. Replaced(pts) \subseteq 1..Root BY <2>3, <2>5 DEF good
  <2>9. Decided' BY <1>1, <1>5, <1>10, <2>8 DEF Decided
  <2> QED BY <1>5, <1>6, <2>7, <2>9 DEF PushdownInv
<1> QED BY <1>9, <1>10 DEF apply

LEMMA NextInv == PushdownInv /\ [PushdownNext]_pushdownVars => PushdownInv'
<1> SUFFICES ASSUME PushdownInv, [PushdownNext]_pushdownVars PROVE PushdownInv'
  OBVIOUS
<1>1. CASE buildDataSystemTree BY <1>1, BuildInv
<1>2. CASE \E n \in 1..Root : visit(n) BY <1>2, VisitInv
<1>3. CASE apply BY <1>3, ApplyInv
<1>4. CASE UNCHANGED pushdownVars
  <2>1. /\ plan' = plan /\ tree' = tree /\ outcome' = outcome
        /\ waitingForVisit' = waitingForVisit /\ parents' = parents
    BY <1>4 DEF pushdownVars
  <2>2. Built BY DEF PushdownInv
  <2>3. /\ Built' /\ Root' = Root /\ (Pushable(Root)' <=> Pushable(Root))
        /\ (GoodAt(Root)' <=> GoodAt(Root))
        /\ \A m : /\ Hidden(m)' <=> Hidden(m)
                  /\ GoodAt(m)' <=> GoodAt(m)
                  /\ Pushable(m)' <=> Pushable(m)
                  /\ Maximal(m)' <=> Maximal(m)
                  /\ Subtree(m)' = Subtree(m) /\ Children(m)' = Children(m)
    BY <2>1, <2>2, TreeKept, PlanKept
  <2>4. Searched' BY <2>1, <2>3 DEF PushdownInv, Searched
  <2>5. Decided' BY <2>1, <2>3 DEF PushdownInv, Decided
  <2>6. PointsExact' BY <2>1, <2>3 DEF PushdownInv, PointsExact
  <2> QED BY <2>3, <2>4, <2>5, <2>6 DEF PushdownInv
<1> QED BY <1>1, <1>2, <1>3, <1>4 DEF PushdownNext

-----------------------------------------------------------------------------
(* The theorems                                                            *)

\* The pushdown rule keeps its invariant on every plan.
THEOREM PushdownInvariant == PushdownSpec => []PushdownInv
BY InitInv, NextInv, PTL DEF PushdownSpec

\* The types of the pushdown rule: it never crosses to, visits or replaces what is no node of
\* the plan.
THEOREM PushdownTypes == PushdownSpec => []PushdownTypeOK
<1>1. PushdownInv => PushdownTypeOK
  <2> SUFFICES ASSUME PushdownInv PROVE PushdownTypeOK
    OBVIOUS
  <2>1. plan \in Seq(Operator) BY PlanShape DEF PushdownInv, Built
  <2> QED BY <2>1 DEF PushdownInv, Built, Searched, Decided, PushdownTypeOK
<1> QED BY <1>1, PushdownInvariant, PTL

\* buildDataSystemTree is exact: on every plan, what gets a system other than Spark is what
\* may run there, and it gets the system of its first table.
THEOREM TreeIsExact == PushdownSpec => []TreeExact
<1>1. PushdownInv => TreeExact
  <2> SUFFICES ASSUME PushdownInv, NEW n \in 1..Len(tree) PROVE Exact(n)
    BY DEF TreeExact, Exact
  <2> QED BY FactsExact DEF PushdownInv, Built
<1> QED BY <1>1, PushdownInvariant, PTL

\* findReplacePoint and replacePushdownSubtree are exact: on every plan, the whole is pushed
\* down when it can and should be, and otherwise disjoint parts are that may leave Spark,
\* among them all that are as large as can be and are not hidden from the search.
THEOREM PointsAreExact == PushdownSpec => []PointsExact
<1>1. PushdownInv => PointsExact BY DEF PushdownInv
<1> QED BY <1>1, PushdownInvariant, PTL
=============================================================================
