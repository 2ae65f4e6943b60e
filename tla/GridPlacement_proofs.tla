----------------------- MODULE GridPlacement_proofs ------------------------
(***************************************************************************)
(* What the master believes of its workers is true, for every set of       *)
(* workers, drivers, applications, clients and machines and every value of *)
(* the bounds: a driver it has placed on a worker that can be reached is   *)
(* there, or on its way, or its end is.                                    *)
(*                                                                         *)
(* NoPhantomDriver speaks of a quiet link.  What is inductive speaks of    *)
(* any link.  A launch counts only if the worker will report to this       *)
(* master when it arrives: the worker has adopted the master already, or a *)
(* message that makes it do so is in the channel before the launch.  A     *)
(* driver whose end has been reported counts as long as that report is on  *)
(* its way.  And what a worker answers to MasterChanged is true of the     *)
(* drivers it had when it answered, whose ends are behind the answer.      *)
(*                                                                         *)
(* And no worker is forgotten: one that has stopped trying to register     *)
(* follows the leader, and the leader knows it.                            *)
(***************************************************************************)
EXTENDS GridDrivers_proofs

\* The messages that make a worker adopt their sender.
Adopts(m) == m.type \in {"RegisteredWorker", "MasterChanged"}

\* Such a message is in channel s before position i.
Told(s, i) == \E j \in 1..Len(s) : j < i /\ Adopts(s[j])

\* The report to incarnation e that driver d has ended.
Final(m, e, d) == m.type = "DriverStateChanged" /\ m.to = e /\ m.id = d /\ isFinished(m.state)

\* Such a report is in channel s after position i.
Says(s, i, e, d) == \E j \in 1..Len(s) : j > i /\ Final(s[j], e, d)

(***************************************************************************)
(* L is the set of workers that can be reached, N of those that have       *)
(* adopted the master, T[o] of those that have driver o, or whose report   *)
(* of its end is on its way.  W and st are the master's workers and their  *)
(* states, D and dw its drivers and their places, sb the submissions.      *)
(***************************************************************************)

\* A worker the master may schedule on will have adopted it.
AliveToldIn(W, st, net, L, N) ==
  \A w \in L : w \in W /\ st[w] = "ALIVE" => w \in N \/ Told(net[w], Len(net[w]) + 1)

\* A driver that has been placed is there or on its way.
PlacedIn(D, dw, sb, net, L, N, T) ==
  \A o \in D, w \in L :
    sb[o.id] = 1 /\ dw[o] = Ref(w) =>
      \/ w \in T[o]
      \/ \E i \in 1..Len(net[w]) : net[w][i] = Launch(o) /\ (w \in N \/ Told(net[w], i))

\* net2 is net and more messages, of which those that make a worker adopt a master name e.
Longer(net, net2, e) ==
  \A w \in WorkerId :
    /\ Len(net[w]) <= Len(net2[w])
    /\ \A i \in 1..Len(net2[w]) :
         \/ i \in 1..Len(net[w]) /\ net2[w][i] = net[w][i]
         \/ i \notin 1..Len(net[w]) /\ (Adopts(net2[w][i]) => net2[w][i].master = e)

-----------------------------------------------------------------------------
(* Channels                                                                *)

LEMMA LongerSame ==
  ASSUME NEW net \in [WorkerId -> Seq(ToWorkerMsg)], NEW e
  PROVE  Longer(net, net, e)
<1>1. \A w \in WorkerId : Len(net[w]) \in Nat
  BY LenProperties
<1> QED
  BY <1>1 DEF Longer

LEMMA LongerTwice ==
  ASSUME NEW net \in [WorkerId -> Seq(ToWorkerMsg)], NEW net2 \in [WorkerId -> Seq(ToWorkerMsg)],
         NEW net3 \in [WorkerId -> Seq(ToWorkerMsg)], NEW e,
         Longer(net, net2, e), Longer(net2, net3, e)
  PROVE  Longer(net, net3, e)
<1> SUFFICES ASSUME NEW w \in WorkerId
             PROVE  /\ Len(net[w]) <= Len(net3[w])
                    /\ \A i \in 1..Len(net3[w]) :
                         \/ i \in 1..Len(net[w]) /\ net3[w][i] = net[w][i]
                         \/ i \notin 1..Len(net[w]) /\ (Adopts(net3[w][i]) => net3[w][i].master = e)
  BY DEF Longer
<1>1. Len(net[w]) \in Nat /\ Len(net2[w]) \in Nat /\ Len(net3[w]) \in Nat
  BY LenProperties
<1>2. /\ Len(net[w]) <= Len(net2[w])
      /\ \A i \in 1..Len(net2[w]) :
           \/ i \in 1..Len(net[w]) /\ net2[w][i] = net[w][i]
           \/ i \notin 1..Len(net[w]) /\ (Adopts(net2[w][i]) => net2[w][i].master = e)
  BY DEF Longer
<1>3. /\ Len(net2[w]) <= Len(net3[w])
      /\ \A i \in 1..Len(net3[w]) :
           \/ i \in 1..Len(net2[w]) /\ net3[w][i] = net2[w][i]
           \/ i \notin 1..Len(net2[w]) /\ (Adopts(net3[w][i]) => net3[w][i].master = e)
  BY DEF Longer
<1>4. Len(net[w]) <= Len(net3[w])
  BY <1>1, <1>2, <1>3
<1>5. \A i \in 1..Len(net[w]) : i \in 1..Len(net2[w])
  BY <1>1, <1>2
<1> QED
  BY <1>2, <1>3, <1>4, <1>5

\* One more message.
LEMMA LongerSent ==
  ASSUME NEW net \in [WorkerId -> Seq(ToWorkerMsg)], NEW w \in WorkerId, NEW m \in ToWorkerMsg, NEW e,
         Adopts(m) => m.master = e
  PROVE  /\ SendTo(net, w, m) \in [WorkerId -> Seq(ToWorkerMsg)]
         /\ Longer(net, SendTo(net, w, m), e)
         /\ Adopts(m) => Told(SendTo(net, w, m)[w], Len(SendTo(net, w, m)[w]) + 1)
<1> DEFINE net2 == SendTo(net, w, m)
<1>1. net2 \in [WorkerId -> Seq(ToWorkerMsg)]
  BY SendToType
<1>2. net2[w] = Append(net[w], m) /\ \A v \in WorkerId \ {w} : net2[v] = net[v]
  BY DEF SendTo
<1>3. /\ Len(net[w]) \in Nat /\ Len(net2[w]) = Len(net[w]) + 1
      /\ \A i \in 1..Len(net2[w]) : net2[w][i] = IF i = Len(net[w]) + 1 THEN m ELSE net[w][i]
  BY <1>2, AppendProperties, LenProperties
<1>4. \A v \in WorkerId : Len(net[v]) \in Nat
  BY LenProperties
<1> HIDE DEF net2
<1>5. Longer(net, net2, e)
  <2>1. ASSUME NEW v \in WorkerId, NEW i \in 1..Len(net2[v])
        PROVE  \/ i \in 1..Len(net[v]) /\ net2[v][i] = net[v][i]
               \/ i \notin 1..Len(net[v]) /\ (Adopts(net2[v][i]) => net2[v][i].master = e)
    <3>1. CASE v # w
      BY <1>2, <3>1
    <3>2. CASE v = w
      BY <1>3, <3>2
    <3> QED
      BY <3>1, <3>2
  <2>2. \A v \in WorkerId : Len(net[v]) <= Len(net2[v])
    BY <1>2, <1>3, <1>4
  <2> QED
    BY <2>1, <2>2 DEF Longer
<1>6. Adopts(m) => Told(net2[w], Len(net2[w]) + 1)
  <2>1. /\ Len(net2[w]) \in 1..Len(net2[w]) /\ Len(net2[w]) < Len(net2[w]) + 1
        /\ net2[w][Len(net2[w])] = m
    BY <1>3
  <2> QED
    BY <2>1 DEF Told
<1> QED
  BY <1>1, <1>5, <1>6 DEF net2

\* More messages that name no master.
LEMMA LongerAfter ==
  ASSUME NEW net \in [WorkerId -> Seq(ToWorkerMsg)], NEW w \in WorkerId,
         NEW s \in Seq(ToWorkerMsg), NEW e, NEW net2,
         \A i \in 1..Len(s) : ~ Adopts(s[i]),
         net2[w] = net[w] \o s, \A v \in WorkerId \ {w} : net2[v] = net[v]
  PROVE  Longer(net, net2, e)
<1>1. /\ Len(net[w]) \in Nat /\ Len(s) \in Nat
      /\ Len(net2[w]) = Len(net[w]) + Len(s)
      /\ \A i \in 1..(Len(net[w]) + Len(s)) :
           net2[w][i] = IF i <= Len(net[w]) THEN net[w][i] ELSE s[i - Len(net[w])]
  BY ConcatProperties, LenProperties
<1>2. \A v \in WorkerId : Len(net[v]) \in Nat
  BY LenProperties
<1>3. ASSUME NEW v \in WorkerId, NEW i \in 1..Len(net2[v])
      PROVE  \/ i \in 1..Len(net[v]) /\ net2[v][i] = net[v][i]
             \/ i \notin 1..Len(net[v]) /\ (Adopts(net2[v][i]) => net2[v][i].master = e)
  <2>1. CASE v # w
    BY <2>1
  <2>2. CASE v = w /\ i <= Len(net[w])
    BY <1>1, <2>2
  <2>3. CASE v = w /\ ~ (i <= Len(net[w]))
    <3>1. i - Len(net[w]) \in 1..Len(s) /\ i \notin 1..Len(net[w])
      BY <1>1, <2>3
    <3>2. net2[w][i] = s[i - Len(net[w])]
      BY <1>1, <2>3
    <3> QED
      BY <2>3, <3>1, <3>2
  <2> QED
    BY <2>1, <2>2, <2>3
<1>4. \A v \in WorkerId : Len(net[v]) <= Len(net2[v])
  BY <1>1, <1>2
<1> QED
  BY <1>3, <1>4 DEF Longer

\* What is in a channel stays there when more is sent.
LEMMA ToldLonger ==
  ASSUME NEW net \in [WorkerId -> Seq(ToWorkerMsg)], NEW net2 \in [WorkerId -> Seq(ToWorkerMsg)],
         NEW e, Longer(net, net2, e), NEW w \in WorkerId
  PROVE  /\ \A i \in 1..Len(net[w]) : i \in 1..Len(net2[w]) /\ net2[w][i] = net[w][i]
         /\ \A i : Told(net[w], i) => Told(net2[w], i)
         /\ Told(net[w], Len(net[w]) + 1) => Told(net2[w], Len(net2[w]) + 1)
<1>1. Len(net[w]) \in Nat /\ Len(net2[w]) \in Nat /\ Len(net[w]) <= Len(net2[w])
  BY LenProperties DEF Longer
<1>2. \A i \in 1..Len(net[w]) : i \in 1..Len(net2[w])
  BY <1>1
<1>3. \A i \in 1..Len(net[w]) : net2[w][i] = net[w][i]
  BY <1>2 DEF Longer
<1>4. \A i : Told(net[w], i) => Told(net2[w], i)
  BY <1>2, <1>3 DEF Told
<1>5. ASSUME Told(net[w], Len(net[w]) + 1)
      PROVE  Told(net2[w], Len(net2[w]) + 1)
  <2>1. PICK j \in 1..Len(net[w]) : Adopts(net[w][j])
    BY <1>5 DEF Told
  <2>2. j \in 1..Len(net2[w]) /\ j < Len(net2[w]) + 1 /\ net2[w][j] = net[w][j]
    BY <1>1, <1>2, <1>3
  <2> QED
    BY <2>1, <2>2 DEF Told
<1> QED
  BY <1>2, <1>3, <1>4, <1>5

LEMMA AliveLonger ==
  ASSUME NEW net \in [WorkerId -> Seq(ToWorkerMsg)], NEW net2 \in [WorkerId -> Seq(ToWorkerMsg)],
         NEW e, Longer(net, net2, e), NEW W, NEW st, NEW L \in SUBSET WorkerId, NEW N,
         AliveToldIn(W, st, net, L, N)
  PROVE  AliveToldIn(W, st, net2, L, N)
<1>1. \A w \in L : Told(net[w], Len(net[w]) + 1) => Told(net2[w], Len(net2[w]) + 1)
  BY ToldLonger
<1> QED
  BY <1>1 DEF AliveToldIn

LEMMA PlacedLonger ==
  ASSUME NEW net \in [WorkerId -> Seq(ToWorkerMsg)], NEW net2 \in [WorkerId -> Seq(ToWorkerMsg)],
         NEW e, Longer(net, net2, e), NEW D, NEW dw, NEW sb, NEW L \in SUBSET WorkerId, NEW N, NEW T,
         PlacedIn(D, dw, sb, net, L, N, T)
  PROVE  PlacedIn(D, dw, sb, net2, L, N, T)
<1> SUFFICES ASSUME NEW o \in D, NEW w \in L, sb[o.id] = 1, dw[o] = Ref(w), w \notin T[o]
             PROVE  \E i \in 1..Len(net2[w]) : net2[w][i] = Launch(o) /\ (w \in N \/ Told(net2[w], i))
  BY DEF PlacedIn
<1>1. PICK i \in 1..Len(net[w]) : net[w][i] = Launch(o) /\ (w \in N \/ Told(net[w], i))
  BY DEF PlacedIn
<1>2. w \in WorkerId
  OBVIOUS
<1>3. /\ \A n \in 1..Len(net[w]) : n \in 1..Len(net2[w]) /\ net2[w][n] = net[w][n]
      /\ \A n : Told(net[w], n) => Told(net2[w], n)
  BY <1>2, ToldLonger
<1> QED
  BY <1>1, <1>3

\* Fewer drivers, the same places.
LEMMA PlacedFewer ==
  ASSUME NEW D, NEW dw, NEW sb, NEW net, NEW L, NEW N, NEW T, PlacedIn(D, dw, sb, net, L, N, T),
         NEW D2, NEW dw2, NEW sb2, NEW T2,
         \A o \in D2, w \in L :
           sb2[o.id] = 1 /\ dw2[o] = Ref(w) =>
             \/ w \in T2[o]
             \/ o \in D /\ sb[o.id] = 1 /\ dw[o] = Ref(w) /\ T[o] \subseteq T2[o]
  PROVE  PlacedIn(D2, dw2, sb2, net, L, N, T2)
<1> SUFFICES ASSUME NEW o \in D2, NEW w \in L, sb2[o.id] = 1, dw2[o] = Ref(w), w \notin T2[o]
             PROVE  \E i \in 1..Len(net[w]) : net[w][i] = Launch(o) /\ (w \in N \/ Told(net[w], i))
  BY DEF PlacedIn
<1>1. o \in D /\ sb[o.id] = 1 /\ dw[o] = Ref(w) /\ T[o] \subseteq T2[o]
  OBVIOUS
<1>2. w \notin T[o]
  BY <1>1
<1> QED
  BY <1>1, <1>2 DEF PlacedIn

-----------------------------------------------------------------------------
(* schedule()                                                              *)

\* No worker is in the shuffled order twice.
LEMMA ShuffleApart ==
  ASSUME NEW S, IsFiniteSet(S), NEW p \in Shuffles(S)
  PROVE  \A i, j \in 1..Cardinality(S) : p[i] = p[j] => i = j
<1> DEFINE k == Cardinality(S)
<1>1. k \in Nat
  BY FS_CardinalityType
<1>2. p \in [1..k -> S] /\ \A x \in S : \E i \in 1..k : p[i] = x
  BY ShuffleIsSeq
<1>3. p \in Surjection(1..k, S)
  BY <1>2 DEF Surjection
<1>4. IsFiniteSet(1..k) /\ Cardinality(1..k) = k
  BY <1>1, FS_Interval
<1>5. p \in Injection(1..k, S)
  BY <1>3, <1>4, FS_SurjSameCardinalityImpliesInj
<1> QED
  BY <1>5 DEF Injection, IsInjective

LEMMA QuotientBound ==
  ASSUME NEW k \in Nat, k > 0, NEW x \in Nat, NEW j \in Nat, j * k <= x
  PROVE  j <= x \div k
<1> DEFINE z == x \div k
<1>1. z \in Nat /\ x < (z + 1) * k
  OBVIOUS
<1> HIDE DEF z
<1>2. ASSUME z < j PROVE FALSE
  <2>1. PICK e \in Nat : j = z + 1 + e
    <3>1. j - (z + 1) \in Nat /\ j = z + 1 + (j - (z + 1))
      BY <1>1, <1>2
    <3> QED
      BY <3>1
  <2>2. j * k = (z + 1) * k + e * k /\ e * k >= 0
    BY <1>1, <2>1
  <2>3. (z + 1) * k \in Int /\ e * k \in Int /\ j * k \in Int
    BY <1>1, <2>1
  <2> QED
    BY <1>1, <2>2, <2>3
<1>3. j <= z
  BY <1>1, <1>2
<1> QED
  BY <1>3 DEF z

\* The driver at position i is in the message number ((i - 1) \div k) + 1 to its worker.
LEMMA LaunchIsSent ==
  ASSUME NEW q \in Seq(DriverObj), NEW k \in Nat, k > 0, NEW i \in 1..Len(q), NEW s \in Seq(ToWorkerMsg)
  PROVE  LET t == s \o Launches(q, Place(i, k), k)
         IN  \E n \in 1..Len(t) : n > Len(s) /\ t[n] = Launch(q[i])
<1> DEFINE c == Place(i, k)
           l == Launches(q, c, k)
           n == (Len(q) + k - c) \div k
           j == ((i - 1) \div k) + 1
<1>1. Len(s) \in Nat /\ Len(q) \in Nat /\ i \in Nat /\ i >= 1 /\ i <= Len(q)
  BY LenProperties
<1>2. c \in 1..k /\ c = ((i - 1) % k) + 1
  BY <1>1 DEF Place
<1>3. j \in Nat /\ j >= 1 /\ c + (j - 1) * k = i
  <2>1. (i - 1) \in Nat /\ (i - 1) \div k \in Nat /\ (i - 1) = k * ((i - 1) \div k) + ((i - 1) % k)
    BY <1>1
  <2> QED
    BY <1>1, <1>2, <2>1
<1> HIDE DEF j, c
<1>4. n \in Nat
  BY <1>1, <1>2
<1>5. j <= n
  <2>1. i + k - c = j * k
    BY <1>1, <1>2, <1>3
  <2>2. j * k <= Len(q) + k - c
    BY <1>1, <1>2, <2>1
  <2>3. Len(q) + k - c \in Nat
    BY <1>1, <1>2
  <2> DEFINE x == Len(q) + k - c
  <2> HIDE DEF x
  <2>4. j <= x \div k
    BY <1>3, <2>2, <2>3, QuotientBound DEF x
  <2> QED
    BY <2>4 DEF x
<1> HIDE DEF n
<1>6. l \in Seq(ToWorkerMsg)
  BY <1>2, LaunchesType
<1>7. Len(l) = n /\ l[j] = Launch(q[i])
  <2>1. l = [y \in 1..n |-> Launch(q[c + (y - 1) * k])]
    BY DEF Launches, Launch, n
  <2>2. DOMAIN l = 1..n
    BY <2>1
  <2> HIDE DEF l
  <2>3. Len(l) = n
    BY <1>4, <1>6, <2>2, LenProperties
  <2>4. j \in 1..n
    BY <1>3, <1>4, <1>5
  <2> QED
    BY <1>3, <2>1, <2>3, <2>4
<1> HIDE DEF l
<1> DEFINE t == s \o l
<1>8. /\ Len(t) = Len(s) + Len(l)
      /\ \A y \in 1..(Len(s) + Len(l)) : t[y] = IF y <= Len(s) THEN s[y] ELSE l[y - Len(s)]
  BY <1>6, ConcatProperties
<1> HIDE DEF t
<1>9. Len(s) + j \in 1..Len(t) /\ Len(s) + j > Len(s) /\ (Len(s) + j) - Len(s) = j
  BY <1>1, <1>3, <1>4, <1>5, <1>7, <1>8
<1>10. t[Len(s) + j] = Launch(q[i])
  BY <1>1, <1>3, <1>7, <1>8, <1>9
<1>11. \E y \in 1..Len(t) : y > Len(s) /\ t[y] = Launch(q[i])
  BY <1>9, <1>10
<1> QED
  BY <1>11 DEF t, l, c

\* What holds before schedule() runs holds afterwards: it places drivers on workers that are
\* alive, which will have adopted the master, and sends each of them there.
LEMMA PlacedScheduled ==
  ASSUME NEW called, NEW q \in Seq(DriverObj), NEW ds, NEW dw, NEW wd, NEW e,
         NEW net \in [WorkerId -> Seq(ToWorkerMsg)], workers' \subseteq WorkerId,
         toWorker' \in [WorkerId -> Seq(ToWorkerMsg)],
         Schedule(called, q, ds, dw, wd, net),
         NEW D \in SUBSET DriverObj, NEW sb, NEW L \in SUBSET WorkerId, NEW N, NEW T,
         AliveToldIn(workers', wstate', net, L, N), PlacedIn(D, dw, sb, net, L, N, T)
  PROVE  /\ Longer(net, toWorker', e)
         /\ AliveToldIn(workers', wstate', toWorker', L, N)
         /\ PlacedIn(D, dworker', sb, toWorker', L, N, T)
<1>1. CASE ~ (called /\ state' = "ACTIVE" /\ AliveNow # {})
  <2>1. dworker' = dw /\ toWorker' = net
    BY <1>1 DEF Schedule
  <2> QED
    BY <2>1, LongerSame
<1>2. CASE called /\ state' = "ACTIVE" /\ AliveNow # {}
  <2> DEFINE alive == AliveNow
             k == Cardinality(alive)
  <2>1. alive \in SUBSET WorkerId /\ IsFiniteSet(alive)
    BY FS_Subset, ConstantsAssumption DEF AliveNow
  <2>2. k \in Nat /\ k > 0
    BY <1>2, <2>1, FS_CardinalityType, FS_EmptySet
  <2>3. PICK order \in Shuffles(alive) :
          /\ dworker' = [o \in DriverObj |->
                  IF \E i \in 1..Len(q) : q[i] = o
                  THEN Ref(order[Place(CHOOSE i \in 1..Len(q) : q[i] = o, k)])
                  ELSE dw[o]]
          /\ toWorker' = [w \in WorkerId |->
               IF w \in alive THEN net[w] \o Launches(q, CHOOSE c \in 1..k : order[c] = w, k)
               ELSE net[w]]
    BY <1>2 DEF Schedule
  <2>4. /\ order \in [1..k -> alive] /\ \A x \in alive : \E c \in 1..k : order[c] = x
        /\ \A c, d \in 1..k : order[c] = order[d] => c = d
    BY <2>1, ShuffleIsSeq, ShuffleApart
  <2> DEFINE place(w) == CHOOSE c \in 1..k : order[c] = w
  <2> HIDE DEF alive, k
  <2>5. \A w \in alive : place(w) \in 1..k /\ order[place(w)] = w
    BY <2>4
  <2>6. \A c \in 1..k : place(order[c]) = c
    <3> HIDE DEF place
    <3> QED
      BY <2>4, <2>5
  <2>7. \A w \in WorkerId : toWorker'[w] = IF w \in alive THEN net[w] \o Launches(q, place(w), k) ELSE net[w]
    BY <2>3
  <2> HIDE DEF place
  <2>8. Longer(net, toWorker', e)
    <3>1. ASSUME NEW w \in WorkerId
          PROVE  /\ Len(net[w]) <= Len(toWorker'[w])
                 /\ \A i \in 1..Len(toWorker'[w]) :
                      \/ i \in 1..Len(net[w]) /\ toWorker'[w][i] = net[w][i]
                      \/ /\ i \notin 1..Len(net[w])
                         /\ Adopts(toWorker'[w][i]) => toWorker'[w][i].master = e
      <4>1. CASE w \notin alive
        <5>1. toWorker'[w] = net[w] /\ Len(net[w]) \in Nat
          BY <2>7, <4>1, LenProperties
        <5> QED
          BY <5>1
      <4>2. CASE w \in alive
        <5> DEFINE c == place(w)
                   s == net[w]
                   l == Launches(q, c, k)
                   t == s \o l
        <5>1. toWorker'[w] = t /\ c \in 1..k /\ s \in Seq(ToWorkerMsg)
          BY <2>5, <2>7, <4>2
        <5> HIDE DEF c, s
        <5>2. l \in Seq(ToWorkerMsg)
          BY <2>2, <5>1, LaunchesType
        <5>3. \A i \in 1..Len(t) :
                \/ i \in 1..Len(s) /\ t[i] = s[i]
                \/ /\ i - Len(s) \in Nat
                   /\ c + (i - Len(s) - 1) * k \in 1..Len(q)
                   /\ t[i] = Launch(q[c + (i - Len(s) - 1) * k])
          BY <2>2, <5>1, LaunchesAt
        <5> HIDE DEF l
        <5>4. /\ Len(s) \in Nat /\ Len(l) \in Nat /\ Len(t) = Len(s) + Len(l)
              /\ \A i \in 1..(Len(s) + Len(l)) : t[i] = IF i <= Len(s) THEN s[i] ELSE l[i - Len(s)]
          BY <5>1, <5>2, ConcatProperties, LenProperties
        <5>5. \A o : ~ Adopts(Launch(o))
          BY DEF Adopts, Launch
        <5> HIDE DEF t
        <5>6. ASSUME NEW i \in 1..Len(t)
              PROVE  \/ i \in 1..Len(s) /\ t[i] = s[i]
                     \/ i \notin 1..Len(s) /\ ~ Adopts(t[i])
          <6>1. CASE i \in 1..Len(s)
            BY <5>4, <6>1
          <6>2. CASE i \notin 1..Len(s)
            <7>1. \E y : t[i] = Launch(y)
              BY <5>3, <6>2, Zenon
            <7> QED
              BY <5>5, <6>2, <7>1
          <6> QED
            BY <6>1, <6>2
        <5>7. Len(s) <= Len(t)
          BY <5>4
        <5> QED
          BY <5>1, <5>6, <5>7 DEF s
      <4> QED
        BY <4>1, <4>2
    <3> QED
      BY <3>1 DEF Longer
  <2>9. AliveToldIn(workers', wstate', toWorker', L, N) /\ PlacedIn(D, dw, sb, toWorker', L, N, T)
    BY <2>8, AliveLonger, PlacedLonger
  <2>10. ASSUME NEW o \in D, NEW w \in L, sb[o.id] = 1, dworker'[o] = Ref(w), InQueue(q, o)
         PROVE  \E i \in 1..Len(toWorker'[w]) :
                  toWorker'[w][i] = Launch(o) /\ (w \in N \/ Told(toWorker'[w], i))
    <3> DEFINE n == CHOOSE i \in 1..Len(q) : q[i] = o
    <3>1. n \in 1..Len(q) /\ q[n] = o
      BY <2>10 DEF InQueue
    <3>2. o \in DriverObj /\ dworker'[o] = Ref(order[Place(n, k)])
      BY <2>3, <2>10 DEF InQueue
    <3> HIDE DEF n
    <3>3. Len(q) \in Nat
      BY LenProperties
    <3>4. Place(n, k) \in 1..k
      BY <2>2, <3>1, <3>3 DEF Place
    <3>5. order[Place(n, k)] = w /\ w \in alive
      <4>1. order[Place(n, k)] \in alive /\ Ref(order[Place(n, k)]) = Ref(w)
        BY <2>4, <2>10, <3>2, <3>4
      <4>2. order[Place(n, k)] \in WorkerId /\ w \in WorkerId
        BY <2>1, <4>1
      <4> QED
        BY <4>1, <4>2, RefInjective
    <3>6. place(w) = Place(n, k)
      BY <2>6, <3>4, <3>5
    <3>7. toWorker'[w] = net[w] \o Launches(q, Place(n, k), k)
      BY <2>7, <3>5, <3>6
    <3>8. net[w] \in Seq(ToWorkerMsg) /\ Len(net[w]) \in Nat
      BY LenProperties
    <3>9. PICK i \in 1..Len(toWorker'[w]) : i > Len(net[w]) /\ toWorker'[w][i] = Launch(o)
      <4> DEFINE s == net[w]
                 t == s \o Launches(q, Place(n, k), k)
      <4>1. s \in Seq(ToWorkerMsg)
        BY <3>8
      <4> HIDE DEF s
      <4>2. \E i \in 1..Len(t) : i > Len(s) /\ t[i] = Launch(q[n])
        BY <2>2, <3>1, <4>1, LaunchIsSent
      <4>3. toWorker'[w] = t
        BY <3>7 DEF s
      <4> HIDE DEF t
      <4> QED
        BY <3>1, <4>2, <4>3 DEF s
    <3>10. CASE w \in N
      BY <3>9, <3>10
    <3>11. CASE w \notin N
      <4>1. w \in workers' /\ wstate'[w] = "ALIVE"
        BY <3>5 DEF alive, AliveNow
      <4>2. Told(net[w], Len(net[w]) + 1)
        BY <3>11, <4>1 DEF AliveToldIn
      <4>3. PICK j \in 1..Len(net[w]) : Adopts(net[w][j])
        BY <4>2 DEF Told
      <4>4. /\ \A m \in 1..Len(net[w]) : m \in 1..Len(toWorker'[w]) /\ toWorker'[w][m] = net[w][m]
        BY <2>8, ToldLonger
      <4>5. Len(toWorker'[w]) \in Nat
        BY LenProperties
      <4>6. j < i
        BY <3>8, <3>9, <4>5
      <4> QED
        BY <3>9, <4>3, <4>4, <4>6 DEF Told
    <3> QED
      BY <3>10, <3>11
  <2>11. \A o \in D : ~ InQueue(q, o) => dworker'[o] = dw[o]
    BY <2>3 DEF InQueue
  <2>12. ASSUME NEW o \in D, NEW w \in L, sb[o.id] = 1, dworker'[o] = Ref(w), w \notin T[o]
         PROVE  \E i \in 1..Len(toWorker'[w]) :
                  toWorker'[w][i] = Launch(o) /\ (w \in N \/ Told(toWorker'[w], i))
    <3>1. CASE InQueue(q, o)
      BY <2>10, <2>12, <3>1
    <3>2. CASE ~ InQueue(q, o)
      BY <2>9, <2>11, <2>12, <3>2 DEF PlacedIn
    <3> QED
      BY <3>1, <3>2
  <2> QED
    BY <2>8, <2>9, <2>12 DEF PlacedIn
<1> QED
  BY <1>1, <1>2

-----------------------------------------------------------------------------
(* Steps of the master, whatever the workers are                           *)

Before(L, N, T) ==
  /\ AliveToldIn(workers, wstate, toWorker, L, N)
  /\ PlacedIn(drivers, dworker, submitted, toWorker, L, N, T)

After(L, N, T) ==
  /\ Longer(toWorker, toWorker', epoch)
  /\ AliveToldIn(workers', wstate', toWorker', L, N)
  /\ PlacedIn(drivers', dworker', submitted', toWorker', L, N, T)

\* A handler that ends with schedule(), on channels net.
LEMMA AfterScheduled ==
  ASSUME DriversInv, MasterInv', NEW called, NEW q \in Seq(DriverObj), NEW ds, NEW dw, NEW wd,
         NEW net \in [WorkerId -> Seq(ToWorkerMsg)], Longer(toWorker, net, epoch),
         Schedule(called, q, ds, dw, wd, net),
         NEW L \in SUBSET WorkerId, NEW N, NEW T,
         AliveToldIn(workers', wstate', net, L, N),
         PlacedIn(drivers', dw, submitted', net, L, N, T)
  PROVE  After(L, N, T)
<1>1. /\ toWorker \in [WorkerId -> Seq(ToWorkerMsg)] /\ toWorker' \in [WorkerId -> Seq(ToWorkerMsg)]
      /\ workers' \subseteq WorkerId /\ drivers' \in SUBSET DriverObj
  BY DEF DriversInv, MasterInv, MasterTypeOK, ChannelTypeOK, WorkersTypeOK, DriversTypeOK
<1>2. /\ Longer(net, toWorker', epoch)
      /\ AliveToldIn(workers', wstate', toWorker', L, N)
      /\ PlacedIn(drivers', dworker', submitted', toWorker', L, N, T)
  BY <1>1, PlacedScheduled
<1>3. Longer(toWorker, toWorker', epoch)
  BY <1>1, <1>2, LongerTwice
<1> QED
  BY <1>2, <1>3 DEF After

\* A handler that only sends messages, or forgets workers and drivers.
LEMMA AfterSent ==
  ASSUME DriversInv, MasterInv', NEW L \in SUBSET WorkerId, NEW N, NEW T, Before(L, N, T),
         Longer(toWorker, toWorker', epoch), UNCHANGED <<wstate, dworker, submitted>>,
         workers' \subseteq workers, drivers' \subseteq drivers
  PROVE  After(L, N, T)
<1>1. toWorker \in [WorkerId -> Seq(ToWorkerMsg)] /\ toWorker' \in [WorkerId -> Seq(ToWorkerMsg)]
  BY DEF DriversInv, MasterInv, MasterTypeOK, ChannelTypeOK
<1>2. /\ AliveToldIn(workers, wstate, toWorker, L, N)
      /\ PlacedIn(drivers, dworker, submitted, toWorker, L, N, T)
  BY DEF Before
<1>3. /\ AliveToldIn(workers, wstate, toWorker', L, N)
      /\ PlacedIn(drivers, dworker, submitted, toWorker', L, N, T)
  BY <1>1, <1>2, AliveLonger, PlacedLonger
<1>4. AliveToldIn(workers', wstate', toWorker', L, N)
  BY <1>3 DEF AliveToldIn
<1>5. PlacedIn(drivers', dworker', submitted', toWorker', L, N, T)
  BY <1>3 DEF PlacedIn
<1> QED
  BY <1>4, <1>5 DEF After

LEMMA AfterSame ==
  ASSUME DriversInv, MasterInv', NEW L \in SUBSET WorkerId, NEW N, NEW T, Before(L, N, T),
         UNCHANGED <<wstate, dworker, submitted, toWorker>>,
         workers' \subseteq workers, drivers' \subseteq drivers
  PROVE  After(L, N, T)
<1>1. Longer(toWorker, toWorker', epoch)
  BY LongerSame, ChannelTypes DEF DriversInv
<1> QED
  BY <1>1, AfterSent

LEMMA AfterAnswer ==
  ASSUME DriversInv, MasterInv', NEW L \in SUBSET WorkerId, NEW N, NEW T, Before(L, N, T),
         NEW w \in WorkerId, NEW m \in ToWorkerMsg, ~ Adopts(m), toWorker' = SendTo(toWorker, w, m),
         UNCHANGED <<wstate, dworker, submitted>>,
         workers' \subseteq workers, drivers' \subseteq drivers
  PROVE  After(L, N, T)
<1>1. Longer(toWorker, SendTo(toWorker, w, m), epoch)
  BY LongerSent, ChannelTypes DEF DriversInv
<1> QED
  BY <1>1, AfterSent

LEMMA AfterForgotten ==
  ASSUME DriversInv, NEW L, NEW N, NEW T, ForgetMemory, toWorker' = toWorker
  PROVE  After(L, N, T)
<1>1. Longer(toWorker, toWorker', epoch)
  BY LongerSame, ChannelTypes DEF DriversInv
<1>2. workers' = {} /\ drivers' = {}
  BY DEF ForgetMemory
<1> QED
  BY <1>1, <1>2 DEF After, AliveToldIn, PlacedIn

LEMMA AfterRemovalThrows ==
  ASSUME DriversInv, NEW L, NEW N, NEW T, NEW gone, RemovalThrows(gone)
  PROVE  After(L, N, T)
BY AfterForgotten DEF RemovalThrows, RestartActor

\* schedule() after workers have died and drivers have been removed.
LEMMA AfterRemoved ==
  ASSUME DriversInv, MasterInv', NEW L \in SUBSET WorkerId, NEW N, NEW T, NEW D,
         AliveToldIn(workers, wstate, toWorker, L, N),
         PlacedIn(D, dworker, submitted, toWorker, L, N, T),
         drivers' \subseteq drivers, workers' \subseteq workers, UNCHANGED submitted,
         \A o \in drivers' : submitted[o.id] = 1 => o \in D,
         \A w \in WorkerId : wstate'[w] = "ALIVE" => wstate[w] = "ALIVE",
         NEW called, NEW ds, NEW wd,
         Schedule(called, waitingDrivers, ds, dworker, wd, toWorker)
  PROVE  After(L, N, T)
<1>1. toWorker \in [WorkerId -> Seq(ToWorkerMsg)] /\ waitingDrivers \in Seq(DriverObj)
  BY ChannelTypes, DriverTypes DEF DriversInv
<1>2. Longer(toWorker, toWorker, epoch)
  BY <1>1, LongerSame
<1>3. AliveToldIn(workers', wstate', toWorker, L, N)
  BY DEF AliveToldIn
<1>4. PlacedIn(drivers', dworker, submitted', toWorker, L, N, T)
  BY DEF PlacedIn
<1> QED
  BY <1>1, <1>2, <1>3, <1>4, AfterScheduled

LEMMA AfterRemoveAll ==
  ASSUME DriversInv, MasterInv', NEW L \in SUBSET WorkerId, NEW N, NEW T, Before(L, N, T),
         NEW R, NEW A, NEW s, RemoveAll(R, A, s)
  PROVE  After(L, N, T)
<1>1. PICK gone : \/ RemovalThrows(gone)
                  \/ /\ wstate' = wstateAfter(R) /\ RemoveDrivers(gone)
                     /\ UNCHANGED <<workers, submitted>>
                     /\ Schedule(gone # {} \/ s # state, waitingDrivers,
                                 dstateAfter(gone, "ERROR"), dworker, wdriversAfter(gone), toWorker)
  BY DEF RemoveAll
<1>2. CASE RemovalThrows(gone)
  BY <1>2, AfterRemovalThrows
<1>3. CASE ~ RemovalThrows(gone)
  <2> DEFINE called == gone # {} \/ s # state
             ds == dstateAfter(gone, "ERROR")
             wd == wdriversAfter(gone)
  <2>1. /\ Schedule(called, waitingDrivers, ds, dworker, wd, toWorker)
        /\ drivers' \subseteq drivers /\ UNCHANGED <<workers, submitted>>
        /\ \A w \in WorkerId : wstate'[w] = "ALIVE" => wstate[w] = "ALIVE"
    BY <1>1, <1>3 DEF RemoveDrivers, wstateAfter
  <2>2. /\ AliveToldIn(workers, wstate, toWorker, L, N)
        /\ PlacedIn(drivers, dworker, submitted, toWorker, L, N, T)
        /\ workers' \subseteq workers /\ \A o \in drivers' : submitted[o.id] = 1 => o \in drivers
    BY <2>1 DEF Before
  <2> HIDE DEF called, ds, wd
  <2> QED
    BY <2>1, <2>2, AfterRemoved
<1> QED
  BY <1>2, <1>3

\* Workers the master does not list make no difference.
LEMMA AfterUnlisted ==
  ASSUME MasterInv', PlacementIndexes', NEW L \in SUBSET WorkerId, NEW N, NEW T, After(L, N, T),
         NEW L2 \in SUBSET WorkerId, \A w \in L2 : w \in L \/ w \notin idToWorker'
  PROVE  After(L2, N, T)
<1>1. \A w \in L2 : w \in workers' /\ wstate'[w] = "ALIVE" => w \in L
  BY DEF MasterInv, WorkerIndexes
<1>2. \A o \in drivers', w \in L2 : submitted'[o.id] = 1 /\ dworker'[o] = Ref(w) => w \in L
  BY DEF PlacementIndexes
<1>3. AliveToldIn(workers', wstate', toWorker', L2, N)
  BY <1>1 DEF After, AliveToldIn
<1>4. PlacedIn(drivers', dworker', submitted', toWorker', L2, N, T)
  BY <1>2 DEF After, PlacedIn
<1> QED
  BY <1>3, <1>4 DEF After

LEMMA AfterLost ==
  ASSUME DriversInv, MasterInv', NEW L \in SUBSET WorkerId, NEW N, NEW T, Before(L, N, T),
         \/ CompleteRecovery
         \/ \E w \in WorkerId : CheckForWorkerTimeOut(w) \/ TimePasses(w)
  PROVE  After(L, N, T)
<1>1. CASE CompleteRecovery
  BY <1>1, AfterRemoveAll DEF CompleteRecovery
<1>2. ASSUME NEW w \in WorkerId, CheckForWorkerTimeOut(w) PROVE After(L, N, T)
  <2>1. CASE RemoveAll({w}, {}, state)
    BY <2>1, AfterRemoveAll
  <2>2. CASE workers' = workers \ {w} /\ UNCHANGED <<wstate, driverVars, submitted, channelVars>>
    BY <2>2, AfterSame DEF driverVars, channelVars
  <2> QED
    BY <1>2, <2>1, <2>2 DEF CheckForWorkerTimeOut
<1>3. ASSUME NEW w \in WorkerId, TimePasses(w) PROVE After(L, N, T)
  BY <1>3, AfterSame DEF TimePasses, channelVars, driverVars
<1> QED
  BY <1>1, <1>2, <1>3

\* A disconnection leaves no worker of its address registered.
LEMMA AfterDisconnected ==
  ASSUME DriversInv, DriversInv', NEW L \in SUBSET WorkerId, NEW N, NEW T, Before(L, N, T),
         NEW a \in Addr, onDisconnected(a),
         NEW L2 \in SUBSET WorkerId, \A w \in L2 : w \in L \/ workerAddress[w] = a
  PROVE  After(L2, N, T)
<1>0. MasterInv /\ MasterInv' /\ PlacementIndexes'
  BY DEF DriversInv
<1> DEFINE R == {addressToWorker[a]} \ {None}
           A == {addressToApp[a]} \ {None}
           s == IF state = "RECOVERING" /\ canCompleteRecovery(workers, wstateAfter(R), apps \ A, astate)
                THEN "ACTIVE" ELSE state
<1>1. RemoveAll(R, A, s)
  BY DEF onDisconnected
<1> HIDE DEF A, s
<1>2. After(L, N, T)
  <2> HIDE DEF R
  <2> QED
    BY <1>0, <1>1, AfterRemoveAll
<1>3. addressToWorker'[a] = None
  <2>1. PICK gone : \/ RemovalThrows(gone)
                    \/ addressToWorker' = addressAfter(R)
    BY <1>1 DEF RemoveAll
  <2>2. CASE RemovalThrows(gone)
    BY <2>2 DEF RemovalThrows, RestartActor, ForgetMemory
  <2>3. CASE addressToWorker' = addressAfter(R)
    <3>1. addressToWorker'[a] = IF \E w \in R : workerAddress[w] = a THEN None ELSE addressToWorker[a]
      BY <2>3 DEF addressAfter
    <3>2. addressToWorker[a] # None => workerAddress[addressToWorker[a]] = a
      BY <1>0 DEF MasterInv, WorkerIndexes
    <3> QED
      BY <3>1, <3>2
  <2> QED
    BY <2>1, <2>2, <2>3
<1>4. \A w \in L2 : w \in L \/ w \notin idToWorker'
  <2> SUFFICES ASSUME NEW w \in L2, w \notin L, w \in idToWorker' PROVE FALSE
    OBVIOUS
  <2>1. addressToWorker'[workerAddress[w]] = w
    BY <1>0 DEF MasterInv, WorkerIndexes
  <2>2. w = None
    BY <1>3, <2>1
  <2> QED
    BY <2>2, NoneAssumption
<1> QED
  BY <1>0, <1>2, <1>4, AfterUnlisted

LEMMA AfterElected ==
  ASSUME DriversInv, MasterInv', NEW L \in SUBSET WorkerId, NEW N, NEW T, Before(L, N, T), ElectedLeader
  PROVE  After(L, N, T)
<1>1. CASE ElectedFresh
  BY <1>1, AfterSame DEF ElectedFresh, workerVars, driverVars
<1>2. CASE beginRecovery
  <2>1. /\ toWorker' = [w \in WorkerId |-> IF w \in pworkers THEN Append(toWorker[w], Changed) ELSE toWorker[w]]
        /\ workers' = workers \cup pworkers
        /\ wstate' = [w \in WorkerId |-> IF w \in pworkers THEN "UNKNOWN" ELSE wstate[w]]
        /\ drivers' = drivers \cup storedDrivers
        /\ dworker' = [o \in DriverObj |-> IF o \in storedDrivers THEN None ELSE dworker[o]]
        /\ submitted' = submitted
    BY <1>2 DEF beginRecovery, recoverWorkers, recoverDrivers
  <2>2. /\ toWorker \in [WorkerId -> Seq(ToWorkerMsg)]
        /\ toWorker' \in [WorkerId -> Seq(ToWorkerMsg)]
        /\ drivers' \subseteq DriverObj
    BY DEF DriversInv, MasterInv, MasterTypeOK, ChannelTypeOK, DriversTypeOK
  <2>3. ASSUME NEW w \in WorkerId
        PROVE  /\ Len(toWorker[w]) <= Len(toWorker'[w])
               /\ \A i \in 1..Len(toWorker'[w]) :
                    \/ i \in 1..Len(toWorker[w]) /\ toWorker'[w][i] = toWorker[w][i]
                    \/ /\ i \notin 1..Len(toWorker[w])
                       /\ Adopts(toWorker'[w][i]) => toWorker'[w][i].master = epoch
    <3>0. Len(toWorker[w]) \in Nat
      BY <2>2, LenProperties
    <3>1. CASE w \notin pworkers
      BY <2>1, <3>0, <3>1
    <3>2. CASE w \in pworkers
      <4>1. toWorker'[w] = Append(toWorker[w], Changed) /\ Changed.master = epoch
        BY <2>1, <3>2 DEF Changed
      <4>2. /\ Len(toWorker'[w]) = Len(toWorker[w]) + 1
            /\ \A i \in 1..Len(toWorker'[w]) :
                 toWorker'[w][i] = IF i = Len(toWorker[w]) + 1 THEN Changed ELSE toWorker[w][i]
        BY <2>2, <4>1, AppendProperties, LenProperties
      <4> QED
        BY <3>0, <4>1, <4>2
    <3> QED
      BY <3>1, <3>2
  <2>4. Longer(toWorker, toWorker', epoch)
    BY <2>3 DEF Longer
  <2>5. /\ AliveToldIn(workers, wstate, toWorker', L, N)
        /\ PlacedIn(drivers, dworker, submitted, toWorker', L, N, T)
    BY <2>2, <2>4, AliveLonger, PlacedLonger DEF Before
  <2>6. AliveToldIn(workers', wstate', toWorker', L, N)
    BY <2>1, <2>5 DEF AliveToldIn
  <2>7. PlacedIn(drivers', dworker', submitted', toWorker', L, N, T)
    <3>1. \A o \in drivers', w \in L :
            submitted'[o.id] = 1 /\ dworker'[o] = Ref(w) => o \in drivers /\ dworker[o] = Ref(w)
      BY <2>1, <2>2, RefSome
    <3>2. submitted' = submitted
      BY <2>1
    <3> QED
      BY <2>5, <3>1, <3>2 DEF PlacedIn
  <2> QED
    BY <2>4, <2>6, <2>7 DEF After
<1> QED
  BY <1>1, <1>2 DEF ElectedLeader

\* A worker that is registered is told so first.
LEMMA AfterRegister ==
  ASSUME DriversInv, MasterInv', NEW L \in SUBSET WorkerId, NEW N, NEW T, Before(L, N, T),
         NEW w \in WorkerId, RegisterWorker(w)
  PROVE  After(L, N, T)
<1> USE DEF memoryVars, workerVars, driverVars
<1>0. toWorker \in [WorkerId -> Seq(ToWorkerMsg)] /\ MasterTypeOK
  BY DEF DriversInv, MasterInv, MasterTypeOK, ChannelTypeOK
<1>1. ASSUME NEW m \in ToWorkerMsg, ~ Adopts(m), Answer(w, m),
             UNCHANGED <<wstate, drivers, dworker, submitted>>, workers' \subseteq workers
      PROVE  After(L, N, T)
  BY <1>1, AfterAnswer DEF Answer
<1>2. CASE RegisterWorkerInStandby(w) \/ RegisterWorkerDuplicate(w) \/ RegisterWorkerAddressInUse(w)
  <2>1. ~ Adopts([type |-> "MasterInStandby"]) /\ ~ Adopts([type |-> "RegisterWorkerFailed"])
    BY DEF Adopts
  <2> QED
    BY <1>0, <1>1, <1>2, <2>1, MessageTypes
    DEF RegisterWorkerInStandby, RegisterWorkerDuplicate, RegisterWorkerAddressInUse
<1>3. CASE RegisterWorkerAccepted(w)
  <2> DEFINE m == [type |-> "RegisteredWorker", master |-> epoch]
             net == SendTo(toWorker, w, m)
             dw == [o \in DriverObj |-> IF dworker[o] = Ref(w) THEN Replaced(w) ELSE dworker[o]]
             old == {addressToWorker[workerAddress[w]]} \ {None}
  <2>1. PICK gone : \/ RemovalThrows(gone)
                    \/ /\ submitted' = submitted /\ RemoveDrivers(gone)
                       /\ workers' = (workers \ DeadAt(workerAddress[w])) \cup {w}
                       /\ wstate' = [wstateAfter(old) EXCEPT ![w] = "ALIVE"]
                       /\ Schedule(TRUE, waitingDrivers, dstateAfter(gone, "ERROR"), dw,
                                   [wdriversAfter(gone) EXCEPT ![w] = {}], net)
    BY <1>3 DEF RegisterWorkerAccepted
  <2>2. m \in ToWorkerMsg /\ Adopts(m) /\ m.master = epoch
    BY <1>0, MessageTypes DEF Adopts
  <2>3. CASE RemovalThrows(gone)
    BY <2>3, AfterRemovalThrows
  <2>4. CASE ~ RemovalThrows(gone)
    <3> HIDE DEF m
    <3>1. /\ net \in [WorkerId -> Seq(ToWorkerMsg)] /\ Longer(toWorker, net, epoch)
          /\ Told(net[w], Len(net[w]) + 1)
      BY <1>0, <2>2, LongerSent
    <3> HIDE DEF net
    <3>2. /\ AliveToldIn(workers, wstate, net, L, N)
          /\ PlacedIn(drivers, dworker, submitted, net, L, N, T)
      BY <1>0, <3>1, AliveLonger, PlacedLonger DEF Before
    <3>3. \A v \in WorkerId : v \in workers' /\ wstate'[v] = "ALIVE" => v = w \/ (v \in workers /\ wstate[v] = "ALIVE")
      BY <2>1, <2>4 DEF wstateAfter
    <3>4. AliveToldIn(workers', wstate', net, L, N)
      BY <3>1, <3>2, <3>3 DEF AliveToldIn
    <3>5. drivers' \subseteq drivers /\ drivers \subseteq DriverObj /\ waitingDrivers \in Seq(DriverObj)
      BY <2>1, <2>4, DriverTypes DEF RemoveDrivers, DriversInv
    <3>6. ASSUME NEW o \in DriverObj, NEW v \in WorkerId, dw[o] = Ref(v)
          PROVE  dworker[o] = Ref(v)
      BY <3>6 DEF Replaced, Ref
    <3> DEFINE ds == dstateAfter(gone, "ERROR")
               wd == [wdriversAfter(gone) EXCEPT ![w] = {}]
    <3>7. submitted' = submitted /\ Schedule(TRUE, waitingDrivers, ds, dw, wd, net)
      BY <2>1, <2>4
    <3> HIDE DEF dw, ds, wd
    <3>8. PlacedIn(drivers', dw, submitted', net, L, N, T)
      BY <3>2, <3>5, <3>6, <3>7 DEF PlacedIn
    <3> QED
      BY <3>1, <3>4, <3>5, <3>7, <3>8, AfterScheduled
  <2> QED
    BY <2>3, <2>4
<1> QED
  BY <1>2, <1>3 DEF RegisterWorker

LEMMA AfterHeartbeat ==
  ASSUME DriversInv, MasterInv', NEW L \in SUBSET WorkerId, NEW N, NEW T, Before(L, N, T),
         NEW w \in WorkerId, Heartbeat(w)
  PROVE  After(L, N, T)
<1>1. CASE UNCHANGED <<workers, wstate, drivers, dworker, submitted, toWorker>>
  BY <1>1, AfterSame
<1>2. CASE Answer(w, [type |-> "ReconnectWorker", master |-> epoch]) /\ UNCHANGED memoryVars
  <2> DEFINE m == [type |-> "ReconnectWorker", master |-> epoch]
  <2>1. m \in ToWorkerMsg /\ ~ Adopts(m) /\ toWorker' = SendTo(toWorker, w, m)
    BY <1>2, MessageTypes DEF Adopts, Answer, DriversInv, MasterInv
  <2>2. UNCHANGED <<workers, wstate, drivers, dworker, submitted>>
    BY <1>2 DEF memoryVars, workerVars, driverVars
  <2> HIDE DEF m
  <2> QED
    BY <2>1, <2>2, AfterAnswer
<1> QED
  BY <1>1, <1>2 DEF Heartbeat, masterVars, memoryVars, workerVars, driverVars, channelVars

\* The drivers a worker is told to kill.
LEMMA LatestLonger ==
  ASSUME DriversInv, NEW w \in WorkerId, NEW ids \in SUBSET DriverId, WorkerLatestState(w, ids), NEW e
  PROVE  Longer(toWorker, toWorker', e)
<1>0. toWorker \in [WorkerId -> Seq(ToWorkerMsg)] /\ MasterTypeOK
  BY DEF DriversInv, MasterInv, MasterTypeOK, ChannelTypeOK
<1>1. CASE UNCHANGED toWorker
  BY <1>0, <1>1, LongerSame
<1>2. ASSUME NEW order \in Shuffles(ids \ wdrivers[w]),
             toWorker' = [toWorker EXCEPT ![w] = @ \o
               [i \in 1..Len(order) |-> [type |-> "KillDriver", id |-> order[i]]]]
      PROVE  Longer(toWorker, toWorker', e)
  <2> DEFINE n == Cardinality(ids \ wdrivers[w])
             killMsgs == [i \in 1..Len(order) |-> [type |-> "KillDriver", id |-> order[i]]]
  <2>1. IsFiniteSet(ids \ wdrivers[w])
    BY FS_Subset, ConstantsAssumption
  <2>2. n \in Nat /\ order \in [1..n -> ids \ wdrivers[w]]
    BY <2>1, ShuffleIsSeq
  <2> HIDE DEF n
  <2>3. order \in Seq(DriverId)
    BY <2>2
  <2>4. Len(order) \in Nat /\ \A i \in 1..Len(order) : order[i] \in DriverId
    BY <2>3, LenProperties, ElementOfSeq
  <2>5. \A i \in 1..Len(order) : [type |-> "KillDriver", id |-> order[i]] \in ToWorkerMsg
    BY <1>0, <2>4, MessageTypes
  <2>6. killMsgs \in Seq(ToWorkerMsg)
    BY <2>4, <2>5
  <2>7. \A i \in 1..Len(killMsgs) : ~ Adopts(killMsgs[i])
    <3>1. DOMAIN killMsgs = 1..Len(order)
      OBVIOUS
    <3>2. Len(killMsgs) = Len(order)
      <4> HIDE DEF killMsgs
      <4> QED
        BY <2>4, <2>6, <3>1, LenProperties
    <3> QED
      BY <3>2 DEF Adopts
  <2> HIDE DEF killMsgs
  <2>8. toWorker'[w] = toWorker[w] \o killMsgs /\ \A v \in WorkerId \ {w} : toWorker'[v] = toWorker[v]
    BY <1>0, <1>2 DEF killMsgs
  <2> QED
    BY <1>0, <2>6, <2>7, <2>8, LongerAfter
<1> QED
  BY <1>1, <1>2 DEF WorkerLatestState

LEMMA AfterLatest ==
  ASSUME DriversInv, MasterInv', NEW L \in SUBSET WorkerId, NEW N, NEW T, Before(L, N, T),
         NEW w \in WorkerId, NEW ids \in SUBSET DriverId, WorkerLatestState(w, ids)
  PROVE  After(L, N, T)
<1>1. UNCHANGED <<workers, wstate, drivers, dworker, submitted>>
  BY DEF WorkerLatestState, memoryVars, workerVars, driverVars
<1>2. Longer(toWorker, toWorker', epoch)
  BY LatestLonger
<1> QED
  BY <1>1, <1>2, AfterSent

\* The drivers a worker answers with are placed there; they have to be there.
LEMMA AfterReported ==
  ASSUME DriversInv, MasterInv', NEW L \in SUBSET WorkerId, NEW N, NEW T, Before(L, N, T),
         NEW w \in WorkerId, NEW ids \in SUBSET DriverId, WorkerSchedulerStateResponse(w, ids),
         w \in N, \A o \in drivers : o.id \in ids /\ submitted[o.id] = 1 => w \in T[o]
  PROVE  After(L, N, T)
<1> DEFINE reported == IF w \in idToWorker THEN ids ELSE {}
<1>1. PICK found \in Found(reported) :
        /\ wstate' = [v \in WorkerId |-> IF v = w /\ w \in idToWorker THEN "ALIVE" ELSE wstate[v]]
        /\ UNCHANGED <<workers, drivers, submitted>>
        /\ Schedule(state' # state, waitingDrivers, dstateAfter(found, "RUNNING"),
                    [o \in DriverObj |-> IF o \in found THEN Ref(w) ELSE dworker[o]],
                    [wdrivers EXCEPT ![w] = @ \cup {o.id : o \in found}], toWorker)
  BY DEF WorkerSchedulerStateResponse
<1> DEFINE called == state' # state
           ds == dstateAfter(found, "RUNNING")
           dw == [o \in DriverObj |-> IF o \in found THEN Ref(w) ELSE dworker[o]]
           wd == [wdrivers EXCEPT ![w] = @ \cup {o.id : o \in found}]
<1>2. Schedule(called, waitingDrivers, ds, dw, wd, toWorker)
  BY <1>1
<1>3. /\ \A o \in found : o \in drivers /\ o.id \in ids
      /\ drivers \subseteq DriverObj /\ waitingDrivers \in Seq(DriverObj)
      /\ toWorker \in [WorkerId -> Seq(ToWorkerMsg)]
  BY DriverTypes, ChannelTypes DEF DriversInv, Found
<1>4. AliveToldIn(workers', wstate', toWorker, L, N)
  <2>1. \A v \in L : v \in workers' /\ wstate'[v] = "ALIVE" => v = w \/ (v \in workers /\ wstate[v] = "ALIVE")
    BY <1>1
  <2> QED
    BY <2>1 DEF Before, AliveToldIn
<1>5. PlacedIn(drivers', dw, submitted', toWorker, L, N, T)
  <2>1. ASSUME NEW o \in drivers', NEW v \in L, submitted'[o.id] = 1, dw[o] = Ref(v)
        PROVE  \/ v \in T[o]
               \/ o \in drivers /\ submitted[o.id] = 1 /\ dworker[o] = Ref(v) /\ T[o] \subseteq T[o]
    <3>1. o \in drivers /\ o \in DriverObj /\ submitted[o.id] = 1
      BY <1>1, <1>3, <2>1
    <3>2. CASE o \in found
      <4>1. v = w
        BY <2>1, <3>1, <3>2, RefInjective
      <4> QED
        BY <1>3, <3>1, <3>2, <4>1
    <3>3. CASE o \notin found
      BY <2>1, <3>1, <3>3
    <3> QED
      BY <3>2, <3>3
  <2>2. PlacedIn(drivers, dworker, submitted, toWorker, L, N, T)
    BY DEF Before
  <2> HIDE DEF dw
  <2> QED
    BY <2>1, <2>2, PlacedFewer
<1> HIDE DEF reported, called, ds, dw, wd
<1>6. Longer(toWorker, toWorker, epoch)
  BY <1>3, LongerSame
<1> QED
  BY <1>2, <1>3, <1>4, <1>5, <1>6, AfterScheduled

LEMMA AfterAppMessage ==
  ASSUME DriversInv, MasterInv', NEW L \in SUBSET WorkerId, NEW N, NEW T, Before(L, N, T),
         \/ \E d \in DriverId : ApplicationStateResponse(d)
         \/ \E p \in AppProc : RegisterApplication(p)
  PROVE  After(L, N, T)
<1>1. ASSUME NEW d \in DriverId, ApplicationStateResponse(d) PROVE After(L, N, T)
  <2> DEFINE called == state' # state
  <2>1. /\ UNCHANGED <<workers, wstate, drivers, submitted>>
        /\ Schedule(called, waitingDrivers, dstate, dworker, wdrivers, toWorker)
    BY <1>1 DEF ApplicationStateResponse
  <2>2. /\ AliveToldIn(workers, wstate, toWorker, L, N)
        /\ PlacedIn(drivers, dworker, submitted, toWorker, L, N, T)
        /\ workers' \subseteq workers /\ drivers' \subseteq drivers
        /\ \A o \in drivers' : submitted[o.id] = 1 => o \in drivers
        /\ \A w \in WorkerId : wstate'[w] = "ALIVE" => wstate[w] = "ALIVE"
    BY <2>1 DEF Before
  <2> HIDE DEF called
  <2> QED
    BY <2>1, <2>2, AfterRemoved
<1>2. ASSUME NEW p \in AppProc, RegisterApplication(p) PROVE After(L, N, T)
  BY <1>2, AfterSame DEF RegisterApplication, RegisterApplicationInStandby,
     RegisterApplicationRefused, RegisterApplicationAccepted, memoryVars, workerVars, driverVars
<1> QED
  BY <1>1, <1>2

\* A new driver is on no worker until schedule() places it.
LEMMA AfterSubmitted ==
  ASSUME DriversInv, MasterInv', NEW L \in SUBSET WorkerId, NEW N, NEW T, Before(L, N, T),
         NEW d \in DriverId, RequestSubmitDriver(d)
  PROVE  After(L, N, T)
<1>1. CASE UNCHANGED <<memoryVars, toWorker, toApp>>
  BY <1>1, AfterSame DEF memoryVars, workerVars, driverVars
<1>2. CASE state = "ACTIVE" /\ submitted[d] < MaxSubmit
  <2> DEFINE n == NextOf(d)
             q == Append(waitingDrivers, n)
  <2>1. /\ submitted' = [submitted EXCEPT ![d] = @ + 1]
        /\ drivers' = drivers \cup {n} /\ UNCHANGED <<workers, wstate>>
        /\ Schedule(TRUE, q, dstate, dworker, wdrivers, toWorker)
    BY <1>2 DEF RequestSubmitDriver, NextOf
  <2>2. /\ n \in DriverObj /\ dworker[n] = None /\ submitted[d] \in Nat
        /\ waitingDrivers \in Seq(DriverObj) /\ submitted \in [DriverId -> 0..MaxSubmit]
        /\ drivers \subseteq DriverObj
        /\ toWorker \in [WorkerId -> Seq(ToWorkerMsg)]
    BY <1>2, FreshObject, DriverTypes, ChannelTypes DEF DriversInv
  <2>3. q \in Seq(DriverObj)
    BY <2>2, AppendProperties
  <2> HIDE DEF n, q
  <2>4. AliveToldIn(workers', wstate', toWorker, L, N)
    BY <2>1 DEF Before
  <2>5. PlacedIn(drivers, dworker, submitted, toWorker, L, N, T)
    BY DEF Before
  <2>6. ASSUME NEW o \in drivers', NEW w \in L, submitted'[o.id] = 1, dworker[o] = Ref(w)
        PROVE  o \in drivers /\ submitted[o.id] = 1
    <3>1. o # n
      BY <2>2, <2>6, RefSome
    <3>2. o \in drivers /\ o \in DriverObj /\ o.id \in DriverId /\ o.seq \in Nat /\ o.seq >= 1
      BY <2>1, <2>2, <3>1, ObjectTypes
    <3>3. o.seq <= submitted[o.id]
      BY <3>2 DEF DriversInv, KnownSubmitted
    <3>4. submitted[o.id] \in Nat /\ submitted[o.id] >= 1
      BY <2>2, <3>2, <3>3, ConstantsAssumption
    <3>5. submitted'[o.id] = IF o.id = d THEN submitted[o.id] + 1 ELSE submitted[o.id]
      BY <2>1, <2>2, <3>2
    <3> QED
      BY <2>6, <3>2, <3>4, <3>5
  <2>7. PlacedIn(drivers', dworker, submitted', toWorker, L, N, T)
    BY <2>5, <2>6, PlacedFewer
  <2>8. Longer(toWorker, toWorker, epoch)
    BY <2>2, LongerSame
  <2> QED
    BY <2>1, <2>2, <2>3, <2>4, <2>7, <2>8, AfterScheduled
<1> QED
  BY <1>1, <1>2 DEF RequestSubmitDriver

LEMMA AfterKill ==
  ASSUME DriversInv, MasterInv', NEW L \in SUBSET WorkerId, NEW N, NEW T, Before(L, N, T),
         NEW d \in DriverId, RequestKillDriver(d)
  PROVE  After(L, N, T)
<1>0. /\ UNCHANGED <<workers, wstate, drivers, dworker, submitted>> /\ MasterTypeOK
      /\ drivers \subseteq DriverObj /\ dworker \in [DriverObj -> WorkerRef \cup {None}]
  BY DriverTypes DEF RequestKillDriver, DriversInv, MasterInv, workerVars
<1>1. CASE UNCHANGED toWorker
  BY <1>0, <1>1, AfterSame
<1>2. ASSUME NEW o \in Named(d), dworker[o] # None,
             toWorker' = SendTo(toWorker, dworker[o].id, [type |-> "KillDriver", id |-> d])
      PROVE  After(L, N, T)
  <2>1. dworker[o].id \in WorkerId
    BY <1>0, <1>2 DEF Named, WorkerRef
  <2> DEFINE m == [type |-> "KillDriver", id |-> d]
  <2>2. m \in ToWorkerMsg /\ ~ Adopts(m)
    BY <1>0, MessageTypes DEF Adopts
  <2>3. toWorker' = SendTo(toWorker, dworker[o].id, m)
    BY <1>2
  <2> HIDE DEF m
  <2> QED
    BY <1>0, <2>1, <2>2, <2>3, AfterAnswer
<1> QED
  BY <1>1, <1>2 DEF RequestKillDriver

\* The report that driver d has ended removes it, so nothing has to be known of it any more.
LEMMA AfterEnded ==
  ASSUME DriversInv, MasterInv', NEW L \in SUBSET WorkerId, NEW N, NEW T, NEW d, NEW st, isFinished(st),
         AliveToldIn(workers, wstate, toWorker, L, N),
         PlacedIn({o \in drivers : o.id # d}, dworker, submitted, toWorker, L, N, T),
         DriverStateChanged(d, st)
  PROVE  After(L, N, T)
<1> DEFINE D == {o \in drivers : o.id # d}
<1>0. removeDriver(d, st)
  BY DEF DriverStateChanged
<1>1. CASE Named(d) = {} /\ UNCHANGED <<memoryVars, toWorker, toApp>>
  <2>1. D = drivers
    BY <1>1 DEF Named
  <2>2. Before(L, N, T)
    BY <2>1 DEF Before
  <2> QED
    BY <1>1, <2>2, AfterSame DEF memoryVars, workerVars, driverVars
<1>2. ASSUME RestartActor(pdrivers) PROVE After(L, N, T)
  BY <1>2, AfterForgotten DEF RestartActor
<1>3. ASSUME NEW o \in Named(d), RemoveDrivers({o}), UNCHANGED <<workers, wstate, submitted>>,
             Schedule(TRUE, waitingDrivers, dstateAfter({o}, st), dworker, wdriversAfter({o}), toWorker)
      PROVE  After(L, N, T)
  <2>1. drivers' = drivers \ {o} /\ o \in drivers /\ o.id = d
    BY <1>3 DEF RemoveDrivers, Named
  <2>2. \A x \in drivers' : submitted[x.id] = 1 => x \in D
    BY <2>1, OnlyOne
  <2>3. /\ drivers' \subseteq drivers /\ workers' \subseteq workers
        /\ \A w \in WorkerId : wstate'[w] = "ALIVE" => wstate[w] = "ALIVE"
    BY <1>3, <2>1
  <2> DEFINE ds == dstateAfter({o}, st)
             wd == wdriversAfter({o})
  <2>4. submitted' = submitted /\ Schedule(TRUE, waitingDrivers, ds, dworker, wd, toWorker)
    BY <1>3
  <2>5. PlacedIn(D, dworker, submitted, toWorker, L, N, T)
    OBVIOUS
  <2> HIDE DEF D, ds, wd
  <2> QED
    BY <2>2, <2>3, <2>4, <2>5, AfterRemoved
<1> QED
  BY <1>0, <1>1, <1>2, <1>3 DEF removeDriver

LEMMA AfterStateChanged ==
  ASSUME DriversInv, MasterInv', NEW L \in SUBSET WorkerId, NEW N, NEW T, Before(L, N, T),
         NEW d, NEW st, DriverStateChanged(d, st)
  PROVE  After(L, N, T)
<1>1. CASE isFinished(st)
  <2>1. PlacedIn({o \in drivers : o.id # d}, dworker, submitted, toWorker, L, N, T)
    BY DEF Before, PlacedIn
  <2> QED
    BY <1>1, <2>1, AfterEnded DEF Before
<1>2. CASE ~ isFinished(st)
  BY <1>2, AfterSame DEF DriverStateChanged, workerVars
<1> QED
  BY <1>1, <1>2

LEMMA AfterSelfMessage ==
  ASSUME DriversInv, MasterInv', NEW L \in SUBSET WorkerId, NEW N, NEW T, Before(L, N, T), SelfMessage
  PROVE  After(L, N, T)
<1>1. toSelf \in Seq(ToSelfMsg) /\ toSelf # <<>>
  BY DEF SelfMessage, DriversInv, MasterInv, MasterTypeOK, ChannelTypeOK
<1>2. Head(toSelf) \in ToSelfMsg
  BY <1>1, HeadTailProperties
<1>3. Head(toSelf).id \in DriverId
  BY <1>2 DEF ToSelfMsg
<1> QED
  BY <1>3, AfterSubmitted, AfterStateChanged DEF SelfMessage

-----------------------------------------------------------------------------
(* The workers of the grid                                                 *)

Reachable == {w \in WorkerId : process[w] = "up" /\ workerAddress[w] \notin lostAtMaster}

Adopted == {w \in WorkerId : wmaster[w] = epoch}

\* The workers that have adopted the master and have driver o, or whose report of its end
\* is on its way to the master.
There == [o \in DriverObj |->
  {w \in Adopted : host[o] = w /\ (spark[o] # "reported" \/ Says(toMaster[w], 0, epoch, o.id))}]

\* A master that makes itself known to a worker is the one that leads.
HearsLeader ==
  \A w \in WorkerId : \A i \in 1..Len(toWorker[w]) :
    Adopts(toWorker[w][i]) => toWorker[w][i].master = epoch

\* What is on its way to the leader comes from a worker that has adopted it.
Addressed ==
  \A w \in WorkerId : \A i \in 1..Len(toMaster[w]) :
    toMaster[w][i].type # "RegisterWorker" /\ toMaster[w][i].to = epoch => wmaster[w] = epoch

\* The runners of a worker are filed by their ids and have not reported an end.
RunnersThere ==
  \A w \in WorkerId, d \in DriverId :
    runners[w][d] # None =>
      /\ runners[w][d].id = d
      /\ host[runners[w][d]] = w
      /\ spark[runners[w][d]] # "reported"

\* The drivers a worker has answered with are there, or the report of their end is behind
\* the answer.
AnswersTrue ==
  \A w \in WorkerId : \A i \in 1..Len(toMaster[w]) :
    toMaster[w][i].type = "WorkerSchedulerStateResponse" /\ toMaster[w][i].to = epoch =>
      \A d \in toMaster[w][i].ids : \E x \in DriverObj :
        /\ x.id = d /\ host[x] = w
        /\ spark[x] # "reported" \/ Says(toMaster[w], i, epoch, d)

\* A process that does not run says nothing, and one that has not started is not known.
Silent ==
  \A w \in WorkerId :
    /\ process[w] # "up" => toMaster[w] = <<>>
    /\ process[w] = "new" => w \notin idToWorker \cup pworkers

Links == HearsLeader /\ Addressed /\ RunnersThere /\ AnswersTrue /\ Silent

\* The inductive invariant.
PlaceInv == Links /\ Before(Reachable, Adopted, There)

-----------------------------------------------------------------------------
(* The channels of the workers                                             *)

LEMMA SaysMore ==
  ASSUME NEW s \in Seq(FromWorkerMsg), NEW m \in FromWorkerMsg
  PROVE  /\ Len(s) \in Nat /\ Len(Append(s, m)) = Len(s) + 1
         /\ Len(s) + 1 \in 1..Len(Append(s, m)) /\ Append(s, m)[Len(s) + 1] = m
         /\ \A i \in 1..Len(s) : i \in 1..Len(Append(s, m)) /\ Append(s, m)[i] = s[i]
         /\ \A i \in 1..Len(Append(s, m)) : i = Len(s) + 1 \/ i \in 1..Len(s)
         /\ \A i, e, d : Says(s, i, e, d) => Says(Append(s, m), i, e, d)
         /\ \A e, d : \A i \in 0..Len(s) : Final(m, e, d) => Says(Append(s, m), i, e, d)
<1> DEFINE t == Append(s, m)
<1>1. /\ Len(s) \in Nat /\ Len(t) = Len(s) + 1
      /\ \A i \in 1..Len(t) : t[i] = IF i = Len(s) + 1 THEN m ELSE s[i]
  BY AppendProperties, LenProperties
<1> HIDE DEF t
<1>2. /\ Len(s) + 1 \in 1..Len(t) /\ t[Len(s) + 1] = m
      /\ \A i \in 1..Len(s) : i \in 1..Len(t) /\ t[i] = s[i]
      /\ \A i \in 1..Len(t) : i = Len(s) + 1 \/ i \in 1..Len(s)
  BY <1>1
<1>3. ASSUME NEW i, NEW e, NEW d, Says(s, i, e, d)
      PROVE  Says(t, i, e, d)
  <2>1. PICK j \in 1..Len(s) : j > i /\ Final(s[j], e, d)
    BY <1>3 DEF Says
  <2>2. j \in 1..Len(t) /\ t[j] = s[j]
    BY <1>2
  <2> QED
    BY <2>1, <2>2 DEF Says
<1>4. ASSUME NEW i \in 0..Len(s), NEW e, NEW d, Final(m, e, d)
      PROVE  Says(t, i, e, d)
  <2>1. Len(s) + 1 > i
    BY <1>1
  <2> QED
    BY <1>2, <1>4, <2>1 DEF Says
<1> QED
  BY <1>1, <1>2, <1>3, <1>4 DEF t

LEMMA SaysRest ==
  ASSUME NEW s \in Seq(FromWorkerMsg), s # <<>>
  PROVE  /\ Head(s) \in FromWorkerMsg /\ 1 \in 1..Len(s) /\ s[1] = Head(s)
         /\ \A i \in 1..Len(Tail(s)) : i + 1 \in 1..Len(s) /\ Tail(s)[i] = s[i + 1] /\ i \in Nat
         /\ \A e, d : \A i \in Nat : Says(s, i + 1, e, d) => Says(Tail(s), i, e, d)
         /\ \A e, d : Says(s, 0, e, d) /\ ~ Final(Head(s), e, d) => Says(Tail(s), 0, e, d)
<1>1. /\ Len(s) \in Nat /\ Len(s) # 0 /\ Head(s) \in FromWorkerMsg
      /\ s[1] = Head(s) /\ Len(Tail(s)) = Len(s) - 1
      /\ \A i \in 1..Len(Tail(s)) : Tail(s)[i] = s[i + 1]
  BY HeadTailProperties, LenProperties, EmptySeq
<1>2. /\ 1 \in 1..Len(s)
      /\ \A i \in 1..Len(Tail(s)) : i + 1 \in 1..Len(s) /\ i \in Nat
      /\ \A j \in 1..Len(s) : j > 1 => j - 1 \in 1..Len(Tail(s)) /\ (j - 1) + 1 = j
  BY <1>1
<1>3. ASSUME NEW i \in Nat, NEW e, NEW d, Says(s, i + 1, e, d)
      PROVE  Says(Tail(s), i, e, d)
  <2>1. PICK j \in 1..Len(s) : j > i + 1 /\ Final(s[j], e, d)
    BY <1>3 DEF Says
  <2>2. j > 1 /\ j - 1 > i
    BY <1>1, <2>1
  <2>3. j - 1 \in 1..Len(Tail(s)) /\ Tail(s)[j - 1] = s[j]
    BY <1>1, <1>2, <2>2
  <2> QED
    BY <2>1, <2>2, <2>3 DEF Says
<1>4. ASSUME NEW e, NEW d, Says(s, 0, e, d), ~ Final(Head(s), e, d)
      PROVE  Says(Tail(s), 0, e, d)
  <2>1. PICK j \in 1..Len(s) : j > 0 /\ Final(s[j], e, d)
    BY <1>4 DEF Says
  <2>2. j # 1
    BY <1>1, <1>4, <2>1
  <2>3. j > 1 /\ j - 1 > 0
    BY <1>1, <2>2
  <2>4. j - 1 \in 1..Len(Tail(s)) /\ Tail(s)[j - 1] = s[j]
    BY <1>1, <1>2, <2>3
  <2> QED
    BY <2>1, <2>3, <2>4 DEF Says
<1> QED
  BY <1>1, <1>2, <1>3, <1>4

\* A message that is behind the head keeps what was before it but the head.
LEMMA ToldRest ==
  ASSUME NEW s \in Seq(ToWorkerMsg), s # <<>>
  PROVE  /\ Head(s) \in ToWorkerMsg /\ 1 \in 1..Len(s) /\ s[1] = Head(s) /\ ~ Told(s, 1)
         /\ \A i \in 1..Len(s) : i # 1 => i - 1 \in 1..Len(Tail(s)) /\ Tail(s)[i - 1] = s[i]
         /\ \A i \in 1..Len(Tail(s)) : i + 1 \in 1..Len(s) /\ Tail(s)[i] = s[i + 1]
         /\ ~ Adopts(Head(s)) =>
              /\ \A i \in 1..Len(s) : Told(s, i) => Told(Tail(s), i - 1)
              /\ Told(s, Len(s) + 1) => Told(Tail(s), Len(Tail(s)) + 1)
<1>1. /\ Len(s) \in Nat /\ Len(s) # 0 /\ Head(s) \in ToWorkerMsg
      /\ s[1] = Head(s) /\ Len(Tail(s)) = Len(s) - 1
      /\ \A i \in 1..Len(Tail(s)) : Tail(s)[i] = s[i + 1]
  BY HeadTailProperties, LenProperties, EmptySeq
<1>2. /\ 1 \in 1..Len(s)
      /\ \A i \in 1..Len(Tail(s)) : i + 1 \in 1..Len(s)
      /\ \A i \in 1..Len(s) : i # 1 => i - 1 \in 1..Len(Tail(s)) /\ (i - 1) + 1 = i
  BY <1>1
<1>3. \A i \in 1..Len(s) : i # 1 => Tail(s)[i - 1] = s[i]
  BY <1>1, <1>2
<1>4. ~ Told(s, 1)
  BY <1>1 DEF Told
<1>5. ASSUME NEW i \in Nat, ~ Adopts(Head(s)), Told(s, i) PROVE Told(Tail(s), i - 1)
  <2>1. PICK j \in 1..Len(s) : j < i /\ Adopts(s[j])
    BY <1>5 DEF Told
  <2>2. j # 1 /\ j - 1 < i - 1
    BY <1>1, <1>5, <2>1
  <2>3. j - 1 \in 1..Len(Tail(s)) /\ Tail(s)[j - 1] = s[j]
    BY <1>2, <1>3, <2>2
  <2> QED
    BY <2>1, <2>2, <2>3 DEF Told
<1>6. (Len(s) + 1) - 1 = Len(Tail(s)) + 1 /\ Len(s) + 1 \in Nat
  BY <1>1
<1>7. ~ Adopts(Head(s)) /\ Told(s, Len(s) + 1) => Told(Tail(s), Len(Tail(s)) + 1)
  BY <1>5, <1>6
<1>8. ~ Adopts(Head(s)) => \A i \in 1..Len(s) : Told(s, i) => Told(Tail(s), i - 1)
  BY <1>1, <1>5
<1> QED
  BY <1>1, <1>2, <1>3, <1>4, <1>7, <1>8

-----------------------------------------------------------------------------
(* What workers do and say                                                 *)

LEMMA HearsMore ==
  ASSUME HearsLeader, toWorker \in [WorkerId -> Seq(ToWorkerMsg)], epoch' = epoch,
         Longer(toWorker, toWorker', epoch)
  PROVE  HearsLeader'
BY DEF HearsLeader, Longer, Adopts

LEMMA HearsLess ==
  ASSUME HearsLeader, epoch' = epoch,
         \A v \in WorkerId : \A i \in 1..Len(toWorker'[v]) :
           \E j \in 1..Len(toWorker[v]) : toWorker'[v][i] = toWorker[v][j]
  PROVE  HearsLeader'
BY DEF HearsLeader, Adopts

\* Nothing is said.
LEMMA SaidSame ==
  ASSUME Addressed, RunnersThere, AnswersTrue, WorkerTypeOK,
         UNCHANGED <<epoch, wmaster, host, runners, toMaster>>,
         \A o \in DriverObj : spark'[o] = "reported" => spark[o] = "reported"
  PROVE  /\ Addressed' /\ RunnersThere' /\ AnswersTrue'
         /\ \A o \in DriverObj : There[o] \subseteq There'[o]
<1>1. Addressed'
  BY DEF Addressed
<1>2. RunnersThere'
  <2>1. \A w \in WorkerId, d \in DriverId : runners[w][d] # None => runners[w][d] \in DriverObj
    BY DEF WorkerTypeOK
  <2> QED
    BY <2>1 DEF RunnersThere
<1>3. AnswersTrue'
  BY DEF AnswersTrue, Says, Final
<1>4. \A o \in DriverObj : There[o] \subseteq There'[o]
  BY DEF There, Adopted, Says, Final
<1> QED
  BY <1>1, <1>2, <1>3, <1>4

\* Worker w sends m; if a driver has ended by now, m is the report of it.
LEMMA SaidOne ==
  ASSUME Addressed, AnswersTrue, WorkerTypeOK, NEW w \in WorkerId, NEW m \in FromWorkerMsg,
         epoch' = epoch, host' = host, toMaster' = SendTo(toMaster, w, m),
         \A v \in WorkerId \ {w} : wmaster'[v] = wmaster[v],
         wmaster'[w] = wmaster[w] \/ wmaster'[w] = epoch,
         m.type # "RegisterWorker" => m.to = wmaster'[w],
         m.type = "WorkerSchedulerStateResponse" =>
           \A d \in m.ids : \E x \in DriverObj : x.id = d /\ host[x] = w /\ spark'[x] # "reported",
         \A o \in DriverObj : spark'[o] = "reported" =>
           \/ spark[o] = "reported"
           \/ host[o] = w /\ m.type = "DriverStateChanged" /\ m.id = o.id /\ isFinished(m.state)
  PROVE  /\ Addressed' /\ AnswersTrue'
         /\ \A o \in DriverObj : There[o] \subseteq There'[o]
<1>0. /\ toMaster \in [WorkerId -> Seq(FromWorkerMsg)]
      /\ wmaster \in [WorkerId -> Nat \cup {None}]
  BY DEF WorkerTypeOK
<1> DEFINE s == toMaster[w]
<1>1. toMaster'[w] = Append(s, m) /\ \A v \in WorkerId \ {w} : toMaster'[v] = toMaster[v]
  BY <1>0 DEF SendTo
<1>2. s \in Seq(FromWorkerMsg)
  BY <1>0
<1> HIDE DEF s
<1> DEFINE t == Append(s, m)
<1>3. /\ Len(s) \in Nat /\ Len(t) = Len(s) + 1
      /\ t[Len(s) + 1] = m
      /\ \A i \in 1..Len(s) : i \in 1..Len(t) /\ t[i] = s[i]
      /\ \A i \in 1..Len(t) : i = Len(s) + 1 \/ i \in 1..Len(s)
      /\ \A i, e, d : Says(s, i, e, d) => Says(t, i, e, d)
      /\ \A e, d : \A i \in 0..Len(s) : Final(m, e, d) => Says(t, i, e, d)
  BY <1>2, SaysMore
<1> HIDE DEF t
<1>4. toMaster'[w] = t /\ toMaster[w] = s
  BY <1>1 DEF s, t
<1>5. \A v \in WorkerId : wmaster[v] = epoch => wmaster'[v] = epoch
  OBVIOUS
<1>6. Addressed'
  <2> SUFFICES ASSUME NEW v \in WorkerId, NEW i \in 1..Len(toMaster'[v]),
                      toMaster'[v][i].type # "RegisterWorker", toMaster'[v][i].to = epoch
               PROVE  wmaster'[v] = epoch
    BY DEF Addressed
  <2>1. CASE v # w
    BY <1>1, <1>5, <2>1 DEF Addressed
  <2>2. CASE v = w /\ i \in 1..Len(s)
    BY <1>3, <1>4, <1>5, <2>2 DEF Addressed
  <2>3. CASE v = w /\ i = Len(s) + 1
    BY <1>3, <1>4, <2>3
  <2> QED
    BY <1>3, <1>4, <2>1, <2>2, <2>3
<1>7. AnswersTrue'
  <2> SUFFICES ASSUME NEW v \in WorkerId, NEW i \in 1..Len(toMaster'[v]),
                      toMaster'[v][i].type = "WorkerSchedulerStateResponse", toMaster'[v][i].to = epoch,
                      NEW d \in toMaster'[v][i].ids
               PROVE  \E x \in DriverObj :
                        /\ x.id = d /\ host'[x] = v
                        /\ spark'[x] # "reported" \/ Says(toMaster'[v], i, epoch, d)
    BY DEF AnswersTrue, Says, Final
  <2>1. CASE v # w
    <3>1. toMaster'[v] = toMaster[v]
      BY <1>1, <2>1
    <3>2. PICK x \in DriverObj : /\ x.id = d /\ host[x] = v
                                 /\ spark[x] # "reported" \/ Says(toMaster[v], i, epoch, d)
      BY <3>1 DEF AnswersTrue
    <3> QED
      BY <2>1, <3>1, <3>2
  <2>2. CASE v = w /\ i \in 1..Len(s)
    <3>1. t[i] = s[i]
      BY <1>3, <2>2
    <3>2. PICK x \in DriverObj : x.id = d /\ host[x] = w /\ (spark[x] # "reported" \/ Says(s, i, epoch, d))
      BY <1>4, <2>2, <3>1 DEF AnswersTrue
    <3>3. wmaster[w] = epoch
      BY <1>4, <2>2, <3>1 DEF Addressed
    <3>4. CASE Says(s, i, epoch, d)
      BY <1>3, <1>4, <2>2, <3>2, <3>4
    <3>5. CASE spark'[x] # "reported"
      BY <1>4, <2>2, <3>2, <3>5
    <3>6. CASE spark'[x] = "reported" /\ spark[x] # "reported"
      <4>1. Final(m, epoch, d)
        BY <1>5, <3>2, <3>3, <3>6 DEF Final
      <4>2. i \in 0..Len(s)
        BY <1>3, <2>2
      <4>3. Says(t, i, epoch, d)
        BY <1>3, <4>1, <4>2
      <4> QED
        BY <1>4, <2>2, <3>2, <4>3
    <3> QED
      BY <3>2, <3>4, <3>5, <3>6
  <2>3. CASE v = w /\ i = Len(s) + 1
    <3>1. toMaster'[v][i] = m
      BY <1>3, <1>4, <2>3
    <3>2. PICK x \in DriverObj : x.id = d /\ host[x] = w /\ spark'[x] # "reported"
      BY <3>1
    <3> QED
      BY <2>3, <3>2
  <2> QED
    BY <1>3, <1>4, <2>1, <2>2, <2>3
<1>8. ASSUME NEW o \in DriverObj, NEW v \in There[o] PROVE v \in There'[o]
  <2>1. /\ v \in WorkerId /\ wmaster[v] = epoch /\ host[o] = v
        /\ spark[o] # "reported" \/ Says(toMaster[v], 0, epoch, o.id)
    BY DEF There, Adopted
  <2>2. wmaster'[v] = epoch
    BY <1>5, <2>1
  <2>3. spark'[o] # "reported" \/ Says(toMaster'[v], 0, epoch, o.id)
    <3>1. CASE Says(toMaster[v], 0, epoch, o.id)
      BY <1>1, <1>3, <1>4, <2>1, <3>1
    <3>2. CASE spark[o] # "reported" /\ spark'[o] = "reported"
      <4>1. v = w /\ Final(m, epoch, o.id)
        BY <2>1, <2>2, <3>2 DEF Final
      <4>2. 0 \in 0..Len(s)
        BY <1>3
      <4> QED
        BY <1>3, <1>4, <4>1, <4>2
    <3> QED
      BY <2>1, <3>1, <3>2
  <2>4. There'[o] = {u \in WorkerId : /\ wmaster'[u] = epoch' /\ host'[o] = u
                                      /\ spark'[o] # "reported" \/ Says(toMaster'[u], 0, epoch', o.id)}
    BY DEF There, Adopted, Says, Final
  <2> QED
    BY <2>1, <2>2, <2>3, <2>4
<1> QED
  BY <1>6, <1>7, <1>8

\* Everything worker w has said is lost.
LEMMA SaidLost ==
  ASSUME Addressed, RunnersThere, AnswersTrue, WorkerTypeOK, NEW w \in WorkerId,
         UNCHANGED <<epoch, wmaster, host, runners, spark>>, toMaster' = [toMaster EXCEPT ![w] = <<>>]
  PROVE  /\ Addressed' /\ RunnersThere' /\ AnswersTrue'
         /\ \A o \in DriverObj : \A v \in There[o] : v # w => v \in There'[o]
<1>1. /\ toMaster'[w] = <<>> /\ \A v \in WorkerId \ {w} : toMaster'[v] = toMaster[v]
  BY DEF WorkerTypeOK
<1>2. \A v \in WorkerId : \A i \in 1..Len(toMaster'[v]) : v # w /\ toMaster'[v] = toMaster[v]
  <2>1. ~ \E i \in 1..Len(toMaster'[w]) : TRUE
    BY <1>1
  <2> QED
    BY <1>1, <2>1
<1>3. Addressed'
  BY <1>2 DEF Addressed
<1>4. RunnersThere'
  BY DEF RunnersThere
<1>5. AnswersTrue'
  <2> SUFFICES ASSUME NEW v \in WorkerId, NEW i \in 1..Len(toMaster'[v]),
                      toMaster'[v][i].type = "WorkerSchedulerStateResponse", toMaster'[v][i].to = epoch,
                      NEW d \in toMaster'[v][i].ids
               PROVE  \E x \in DriverObj :
                        /\ x.id = d /\ host[x] = v
                        /\ spark[x] # "reported" \/ Says(toMaster'[v], i, epoch, d)
    BY DEF AnswersTrue, Says, Final
  <2>1. toMaster'[v] = toMaster[v]
    BY <1>2
  <2> QED
    BY <2>1 DEF AnswersTrue
<1>6. ASSUME NEW o \in DriverObj, NEW v \in There[o], v # w PROVE v \in There'[o]
  <2>1. /\ v \in WorkerId /\ wmaster[v] = epoch /\ host[o] = v
        /\ spark[o] # "reported" \/ Says(toMaster[v], 0, epoch, o.id)
    BY DEF There, Adopted
  <2>2. There'[o] = {u \in WorkerId : /\ wmaster'[u] = epoch' /\ host'[o] = u
                                      /\ spark'[o] # "reported" \/ Says(toMaster'[u], 0, epoch', o.id)}
    BY DEF There, Adopted, Says, Final
  <2>3. toMaster'[v] = toMaster[v]
    BY <1>1, <1>6, <2>1
  <2> QED
    BY <2>1, <2>2, <2>3
<1> QED
  BY <1>3, <1>4, <1>5, <1>6

\* The first thing worker w has said is heard.
LEMMA SaidHeard ==
  ASSUME Addressed, RunnersThere, AnswersTrue, WorkerTypeOK, NEW w \in WorkerId,
         UNCHANGED <<epoch, wmaster, host, runners, spark>>,
         toMaster[w] # <<>>, toMaster' = [toMaster EXCEPT ![w] = Tail(@)]
  PROVE  /\ Addressed' /\ RunnersThere' /\ AnswersTrue'
         /\ \A o \in DriverObj : \A v \in There[o] :
              v \in There'[o] \/ (v = w /\ Final(Head(toMaster[w]), epoch, o.id))
<1> DEFINE s == toMaster[w]
           t == Tail(s)
<1>1. toMaster'[w] = t /\ \A v \in WorkerId \ {w} : toMaster'[v] = toMaster[v]
  BY DEF WorkerTypeOK
<1>2. s \in Seq(FromWorkerMsg) /\ s # <<>>
  BY DEF WorkerTypeOK
<1> HIDE DEF s
<1>3. /\ \A i \in 1..Len(t) : i + 1 \in 1..Len(s) /\ t[i] = s[i + 1] /\ i \in Nat
      /\ \A e, d : \A i \in Nat : Says(s, i + 1, e, d) => Says(t, i, e, d)
      /\ \A e, d : Says(s, 0, e, d) /\ ~ Final(Head(s), e, d) => Says(t, 0, e, d)
  BY <1>2, SaysRest
<1> HIDE DEF t
<1>4. toMaster[w] = s
  BY DEF s
<1>5. Addressed'
  <2> SUFFICES ASSUME NEW v \in WorkerId, NEW i \in 1..Len(toMaster'[v]),
                      toMaster'[v][i].type # "RegisterWorker", toMaster'[v][i].to = epoch
               PROVE  wmaster[v] = epoch
    BY DEF Addressed
  <2>1. CASE v # w
    BY <1>1, <2>1 DEF Addressed
  <2>2. CASE v = w
    <3>1. i + 1 \in 1..Len(toMaster[w]) /\ toMaster'[v][i] = toMaster[w][i + 1]
      BY <1>1, <1>3, <1>4, <2>2
    <3> QED
      BY <2>2, <3>1 DEF Addressed
  <2> QED
    BY <2>1, <2>2
<1>6. RunnersThere'
  BY DEF RunnersThere
<1>7. AnswersTrue'
  <2>0. AnswersTrue' <=>
          \A v \in WorkerId : \A i \in 1..Len(toMaster'[v]) :
            toMaster'[v][i].type = "WorkerSchedulerStateResponse" /\ toMaster'[v][i].to = epoch' =>
              \A d \in toMaster'[v][i].ids : \E x \in DriverObj :
                /\ x.id = d /\ host'[x] = v
                /\ spark'[x] # "reported" \/ Says(toMaster'[v], i, epoch', d)
    BY Zenon DEF AnswersTrue, Says, Final
  <2> SUFFICES ASSUME NEW v \in WorkerId, NEW i \in 1..Len(toMaster'[v]),
                      toMaster'[v][i].type = "WorkerSchedulerStateResponse", toMaster'[v][i].to = epoch,
                      NEW d \in toMaster'[v][i].ids
               PROVE  \E x \in DriverObj :
                        /\ x.id = d /\ host'[x] = v
                        /\ spark'[x] # "reported" \/ Says(toMaster'[v], i, epoch, d)
    BY <2>0
  <2>1. CASE v # w
    <3>1. toMaster'[v] = toMaster[v]
      BY <1>1, <2>1
    <3>2. PICK x \in DriverObj : /\ x.id = d /\ host[x] = v
                                 /\ spark[x] # "reported" \/ Says(toMaster[v], i, epoch, d)
      BY <3>1 DEF AnswersTrue
    <3> QED
      BY <3>1, <3>2
  <2>2. CASE v = w
    <3>1. i \in Nat /\ i + 1 \in 1..Len(s) /\ toMaster'[v][i] = s[i + 1]
      BY <1>1, <1>3, <2>2
    <3>2. PICK x \in DriverObj : x.id = d /\ host[x] = w /\ (spark[x] # "reported" \/ Says(s, i + 1, epoch, d))
      BY <1>4, <3>1 DEF AnswersTrue
    <3> QED
      BY <1>1, <1>3, <2>2, <3>1, <3>2
  <2> QED
    BY <2>1, <2>2
<1>8. ASSUME NEW o \in DriverObj, NEW v \in There[o], ~ (v = w /\ Final(Head(toMaster[w]), epoch, o.id))
      PROVE  v \in There'[o]
  <2>1. /\ v \in WorkerId /\ wmaster[v] = epoch /\ host[o] = v
        /\ spark[o] # "reported" \/ Says(toMaster[v], 0, epoch, o.id)
    BY DEF There, Adopted
  <2>2. There'[o] = {u \in WorkerId : /\ wmaster'[u] = epoch' /\ host'[o] = u
                                      /\ spark'[o] # "reported" \/ Says(toMaster'[u], 0, epoch', o.id)}
    BY DEF There, Adopted, Says, Final
  <2>3. Says(toMaster[v], 0, epoch, o.id) => Says(toMaster'[v], 0, epoch, o.id)
    <3>1. CASE v # w
      BY <1>1, <2>1, <3>1
    <3>2. CASE v = w
      BY <1>1, <1>3, <1>4, <1>8, <3>2
    <3> QED
      BY <3>1, <3>2
  <2> QED
    BY <2>1, <2>2, <2>3
<1> QED
  BY <1>5, <1>6, <1>7, <1>8

\* Worker w starts a runner for o, which has reached no worker before.
LEMMA SaidLaunched ==
  ASSUME Addressed, RunnersThere, AnswersTrue, WorkerTypeOK, NEW w \in WorkerId, NEW o \in DriverObj,
         host[o] = None, LaunchDriver(w, o), epoch' = epoch
  PROVE  /\ Addressed' /\ RunnersThere' /\ AnswersTrue'
         /\ \A x \in DriverObj : There[x] \subseteq There'[x]
         /\ w \in Adopted => w \in There'[o]
<1>0. /\ UNCHANGED <<wmaster, toMaster>> /\ None \notin WorkerId /\ None \notin DriverObj
      /\ spark' = [spark EXCEPT ![o] = "starting"] /\ host' = [host EXCEPT ![o] = w]
      /\ runners' = [runners EXCEPT ![w][o.id] = o]
      /\ o.id \in DriverId
  BY NoneAssumption, RefSome DEF LaunchDriver, registrationVars, DriverObj
<1>1. /\ \A x \in DriverObj : x # o => host'[x] = host[x] /\ spark'[x] = spark[x]
      /\ host'[o] = w /\ spark'[o] = "starting"
  BY <1>0 DEF WorkerTypeOK
<1>2. Addressed'
  BY <1>0 DEF Addressed
<1>3. RunnersThere'
  <2> SUFFICES ASSUME NEW v \in WorkerId, NEW d \in DriverId, runners'[v][d] # None
               PROVE  /\ runners'[v][d].id = d /\ host'[runners'[v][d]] = v
                      /\ spark'[runners'[v][d]] # "reported"
    BY DEF RunnersThere
  <2>1. CASE v = w /\ d = o.id
    <3>1. runners'[v][d] = o
      BY <1>0, <2>1 DEF WorkerTypeOK
    <3> QED
      BY <1>1, <2>1, <3>1
  <2>2. CASE ~ (v = w /\ d = o.id)
    <3>1. runners'[v][d] = runners[v][d]
      BY <1>0, <2>2 DEF WorkerTypeOK
    <3>2. runners[v][d] \in DriverObj
      BY <2>2, <3>1 DEF WorkerTypeOK
    <3>3. /\ runners[v][d].id = d /\ host[runners[v][d]] = v
          /\ spark[runners[v][d]] # "reported"
      BY <3>1 DEF RunnersThere
    <3>4. runners[v][d] # o
      BY <1>0, <3>3
    <3> QED
      BY <1>1, <3>1, <3>2, <3>3, <3>4
  <2> QED
    BY <2>1, <2>2
<1>4. AnswersTrue'
  <2> SUFFICES ASSUME NEW v \in WorkerId, NEW i \in 1..Len(toMaster[v]),
                      toMaster[v][i].type = "WorkerSchedulerStateResponse", toMaster[v][i].to = epoch,
                      NEW d \in toMaster[v][i].ids
               PROVE  \E x \in DriverObj :
                        /\ x.id = d /\ host'[x] = v
                        /\ spark'[x] # "reported" \/ Says(toMaster[v], i, epoch, d)
    BY <1>0 DEF AnswersTrue, Says, Final
  <2>1. PICK x \in DriverObj : /\ x.id = d /\ host[x] = v
                               /\ spark[x] # "reported" \/ Says(toMaster[v], i, epoch, d)
    BY DEF AnswersTrue
  <2>2. x # o
    BY <1>0, <2>1
  <2> QED
    BY <1>1, <2>1, <2>2
<1>5. \A x \in DriverObj :
        There'[x] = {u \in WorkerId : /\ wmaster[u] = epoch /\ host'[x] = u
                                      /\ spark'[x] # "reported" \/ Says(toMaster[u], 0, epoch, x.id)}
  BY <1>0 DEF There, Adopted, Says, Final
<1>6. ASSUME NEW x \in DriverObj, NEW v \in There[x] PROVE v \in There'[x]
  <2>1. /\ v \in WorkerId /\ wmaster[v] = epoch /\ host[x] = v
        /\ spark[x] # "reported" \/ Says(toMaster[v], 0, epoch, x.id)
    BY DEF There, Adopted
  <2>2. x # o
    BY <1>0, <2>1
  <2> QED
    BY <1>1, <1>5, <2>1, <2>2
<1>7. w \in Adopted => w \in There'[o]
  BY <1>1, <1>5 DEF Adopted
<1> QED
  BY <1>2, <1>3, <1>4, <1>6, <1>7

-----------------------------------------------------------------------------
(* Whom the master lists                                                   *)

\* The master gets to know nobody but the workers of S.
Lists(S) == idToWorker' \cup pworkers' \subseteq idToWorker \cup pworkers \cup S

LEMMA ListsRegistered ==
  ASSUME NEW w, RegisterWorker(w)
  PROVE  Lists({w})
<1> USE DEF memoryVars, workerVars, persistedVars
<1>1. CASE RegisterWorkerInStandby(w) \/ RegisterWorkerDuplicate(w) \/ RegisterWorkerAddressInUse(w)
  BY <1>1 DEF RegisterWorkerInStandby, RegisterWorkerDuplicate, RegisterWorkerAddressInUse, Lists
<1>2. ASSUME NEW gone, RemovalThrows(gone) PROVE Lists({w})
  BY <1>2 DEF RemovalThrows, RestartActor, ForgetMemory, Lists
<1>3. ASSUME NEW old, idToWorker' = (idToWorker \ old) \cup {w},
             pworkers' = IF Zk THEN (pworkers \ old) \cup {w} ELSE pworkers
      PROVE  Lists({w})
  BY <1>3 DEF Lists
<1>4. CASE RegisterWorkerAccepted(w)
  BY <1>2, <1>3, <1>4 DEF RegisterWorkerAccepted
<1> QED
  BY <1>1, <1>4 DEF RegisterWorker

LEMMA ListsNobody ==
  ASSUME \/ ElectedLeader \/ CompleteRecovery \/ ProcessExit \/ SelfMessage
         \/ \E w : TimePasses(w) \/ CheckForWorkerTimeOut(w) \/ Heartbeat(w)
         \/ \E w, ids : WorkerSchedulerStateResponse(w, ids) \/ WorkerLatestState(w, ids)
         \/ \E d : RequestSubmitDriver(d) \/ RequestKillDriver(d) \/ ApplicationStateResponse(d)
         \/ \E d, st : DriverStateChanged(d, st)
         \/ \E p : RegisterApplication(p)
         \/ \E a : onDisconnected(a)
         \/ UNCHANGED masterVars
  PROVE  Lists({})
<1> USE DEF memoryVars, workerVars, persistedVars
<1>0. CASE UNCHANGED <<idToWorker, pworkers>>
  BY <1>0 DEF Lists
<1>1. ASSUME NEW pd, RestartActor(pd) PROVE Lists({})
  BY <1>1 DEF RestartActor, ForgetMemory, Lists
<1>2. ASSUME NEW R, NEW A, NEW s, RemoveAll(R, A, s) PROVE Lists({})
  <2>1. CASE idToWorker' = idToWorker \ R /\ pworkers' = pworkers \ R
    BY <2>1 DEF Lists
  <2> QED
    BY <1>1, <1>2, <2>1 DEF RemoveAll, RemovalThrows
<1>3. CASE ElectedLeader
  <2>1. CASE ElectedFresh
    BY <1>0, <2>1 DEF ElectedFresh
  <2>2. CASE beginRecovery
    BY <2>2 DEF beginRecovery, recoverWorkers, Lists
  <2> QED
    BY <1>3, <2>1, <2>2 DEF ElectedLeader
<1>4. CASE ProcessExit
  BY <1>4 DEF ProcessExit, ForgetMemory, Lists
<1>5. ASSUME NEW w, TimePasses(w) \/ CheckForWorkerTimeOut(w) PROVE Lists({})
  BY <1>0, <1>2, <1>5 DEF TimePasses, CheckForWorkerTimeOut
<1>6. ASSUME NEW w, Heartbeat(w) PROVE Lists({})
  BY <1>0, <1>6 DEF Heartbeat, masterVars
<1>7. ASSUME NEW w, NEW ids, WorkerSchedulerStateResponse(w, ids) \/ WorkerLatestState(w, ids) PROVE Lists({})
  BY <1>0, <1>7 DEF WorkerSchedulerStateResponse, WorkerLatestState
<1>8. ASSUME NEW d, RequestSubmitDriver(d) PROVE Lists({})
  BY <1>0, <1>8 DEF RequestSubmitDriver
<1>9. ASSUME NEW d, NEW st, DriverStateChanged(d, st) PROVE Lists({})
  <2>1. CASE \E pd : RestartActor(pd)
    BY <1>1, <2>1
  <2>2. CASE UNCHANGED <<idToWorker, pworkers>>
    BY <1>0, <2>2
  <2> QED
    BY <1>9, <2>1, <2>2 DEF DriverStateChanged, removeDriver
<1>10. ASSUME NEW d, RequestKillDriver(d) \/ ApplicationStateResponse(d) PROVE Lists({})
  BY <1>0, <1>10 DEF RequestKillDriver, ApplicationStateResponse
<1>11. ASSUME NEW p, RegisterApplication(p) PROVE Lists({})
  BY <1>0, <1>11 DEF RegisterApplication, RegisterApplicationInStandby, RegisterApplicationRefused,
     RegisterApplicationAccepted
<1>12. CASE SelfMessage
  BY <1>8, <1>9, <1>12 DEF SelfMessage
<1>13. CASE CompleteRecovery \/ \E a : onDisconnected(a)
  BY <1>2, <1>13 DEF CompleteRecovery, onDisconnected
<1>14. CASE UNCHANGED masterVars
  BY <1>0, <1>14 DEF masterVars
<1> QED
  BY <1>3, <1>4, <1>5, <1>6, <1>7, <1>8, <1>9, <1>10, <1>11, <1>12, <1>13, <1>14

-----------------------------------------------------------------------------
(* Steps of the grid                                                       *)

LEMMA PlaceNext ==
  ASSUME Links', AliveToldIn(workers', wstate', toWorker', Reachable', Adopted'),
         PlacedIn(drivers', dworker', submitted', toWorker', Reachable', Adopted', There')
  PROVE  PlaceInv'
<1>1. PlaceInv' <=>
        /\ Links'
        /\ AliveToldIn(workers, wstate, toWorker, Reachable, Adopted)'
        /\ PlacedIn(drivers, dworker, submitted, toWorker, Reachable, Adopted, There)'
  BY DEF PlaceInv, Before
<1>2. AliveToldIn(workers, wstate, toWorker, Reachable, Adopted)'
  BY DEF AliveToldIn, Told, Adopts
<1>3. PlacedIn(drivers, dworker, submitted, toWorker, Reachable, Adopted, There)'
  BY DEF PlacedIn, Told, Adopts, Ref, Launch
<1> QED
  BY <1>1, <1>2, <1>3

\* A process that does not run says nothing, whoever starts, speaks or ends.
LEMMA SilentStays ==
  ASSUME Silent, NEW S, Lists(S),
         \A v \in WorkerId : process'[v] # "up" =>
           toMaster'[v] = <<>> \/ (process'[v] = process[v] /\ toMaster'[v] = toMaster[v]),
         \A v \in WorkerId : process'[v] = "new" => process[v] = "new" /\ v \notin S
  PROVE  Silent'
BY DEF Silent, Lists

\* The master takes a step that has nothing to do with what workers say.
LEMMA MasterKeeps ==
  ASSUME GridInv, DriversInv, PlaceInv, UNCHANGED <<workerActorVars, lostAtMaster, epoch>>,
         Lists({}), After(Reachable, Adopted, There)
  PROVE  PlaceInv'
<1> USE DEF workerActorVars, registrationVars, runnerVars
<1>1. WorkerTypeOK /\ toWorker \in [WorkerId -> Seq(ToWorkerMsg)]
  BY ChannelTypes DEF GridInv, GridTypeOK, WorkerInv, DriversInv
<1>2. HearsLeader /\ Addressed /\ RunnersThere /\ AnswersTrue /\ Silent
  BY DEF PlaceInv, Links
<1>3. HearsLeader'
  BY <1>1, <1>2, HearsMore DEF After
<1>4. Addressed' /\ RunnersThere' /\ AnswersTrue'
  BY <1>1, <1>2, SaidSame
<1>5. Silent'
  BY <1>2, SilentStays
<1>6. Links'
  BY <1>3, <1>4, <1>5 DEF Links
<1>7. Reachable' = Reachable /\ Adopted' = Adopted
  BY DEF Reachable, Adopted
<1>8. There' = There
  BY DEF There, Adopted, Says, Final
<1> QED
  BY <1>6, <1>7, <1>8, PlaceNext DEF After

\* What the master believes stays true when it does nothing: L, N and T become L2, N2, T2.
LEMMA PlaceKept ==
  ASSUME DriversInv, NEW L \in SUBSET WorkerId, NEW N, NEW T, Before(L, N, T),
         UNCHANGED <<workers, wstate, drivers, dworker, submitted>>,
         NEW L2 \in SUBSET WorkerId, NEW N2, NEW T2,
         \A v \in L2 : v \in idToWorker => v \in L,
         \A v \in L2 : v \in N \/ Told(toWorker[v], Len(toWorker[v]) + 1) =>
           v \in N2 \/ Told(toWorker'[v], Len(toWorker'[v]) + 1),
         \A o \in DriverObj : \A v \in L2 : v \in T[o] => v \in T2[o],
         \A o \in DriverObj : \A v \in L2 : \A i \in 1..Len(toWorker[v]) :
           toWorker[v][i] = Launch(o) /\ (v \in N \/ Told(toWorker[v], i)) =>
             \/ v \in T2[o]
             \/ \E j \in 1..Len(toWorker'[v]) :
                  toWorker'[v][j] = Launch(o) /\ (v \in N2 \/ Told(toWorker'[v], j))
  PROVE  /\ AliveToldIn(workers', wstate', toWorker', L2, N2)
         /\ PlacedIn(drivers', dworker', submitted', toWorker', L2, N2, T2)
<1>1. /\ \A v \in workers : wstate[v] = "ALIVE" => v \in idToWorker
      /\ \A o \in drivers, v \in WorkerId :
           submitted[o.id] = 1 /\ dworker[o] = Ref(v) => v \in idToWorker
      /\ drivers \subseteq DriverObj
  BY DriverTypes DEF DriversInv, MasterInv, WorkerIndexes, PlacementIndexes
<1>2. AliveToldIn(workers', wstate', toWorker', L2, N2)
  <2> SUFFICES ASSUME NEW v \in L2, v \in workers, wstate[v] = "ALIVE"
               PROVE  v \in N2 \/ Told(toWorker'[v], Len(toWorker'[v]) + 1)
    BY DEF AliveToldIn
  <2>1. v \in L
    BY <1>1
  <2> QED
    BY <2>1 DEF Before, AliveToldIn
<1>3. PlacedIn(drivers', dworker', submitted', toWorker', L2, N2, T2)
  <2> SUFFICES ASSUME NEW o \in drivers, NEW v \in L2, submitted[o.id] = 1, dworker[o] = Ref(v)
               PROVE  \/ v \in T2[o]
                      \/ \E j \in 1..Len(toWorker'[v]) :
                           toWorker'[v][j] = Launch(o) /\ (v \in N2 \/ Told(toWorker'[v], j))
    BY DEF PlacedIn
  <2>1. v \in L /\ o \in DriverObj
    BY <1>1
  <2>2. \/ v \in T[o]
        \/ \E i \in 1..Len(toWorker[v]) : toWorker[v][i] = Launch(o) /\ (v \in N \/ Told(toWorker[v], i))
    BY <2>1 DEF Before, PlacedIn
  <2> QED
    BY <2>1, <2>2
<1> QED
  BY <1>2, <1>3

\* Nothing happens at the master.  On the way from it nothing changes, or what a worker
\* takes makes it adopt the master or start a driver, if that is what it is for.
LEMMA WorkersKeep ==
  ASSUME GridInv, DriversInv, PlaceInv,
         UNCHANGED <<workers, wstate, drivers, dworker, submitted>>,
         \A v \in Reachable' : v \in idToWorker => v \in Reachable,
         Adopted \subseteq Adopted',
         \A o \in DriverObj : \A v \in There[o] : v \in Reachable' => v \in There'[o],
         \A v \in Reachable' :
           \/ toWorker'[v] = toWorker[v]
           \/ /\ toWorker[v] # <<>> /\ toWorker'[v] = Tail(toWorker[v])
              /\ Adopts(Head(toWorker[v])) => v \in Adopted'
              /\ \A o \in DriverObj : Head(toWorker[v]) = Launch(o) /\ v \in Adopted => v \in There'[o],
         Links'
  PROVE  PlaceInv'
<1> DEFINE L == Reachable
           N == Adopted
           T == There
           L2 == Reachable'
           N2 == Adopted'
           T2 == There'
<1>1. /\ L \in SUBSET WorkerId /\ L2 \in SUBSET WorkerId /\ Before(L, N, T)
      /\ \A v \in L2 : v \in idToWorker => v \in L
      /\ N \subseteq N2
      /\ \A o \in DriverObj : \A v \in L2 : v \in T[o] => v \in T2[o]
      /\ \A v \in L2 :
           \/ toWorker'[v] = toWorker[v]
           \/ /\ toWorker[v] # <<>> /\ toWorker'[v] = Tail(toWorker[v])
              /\ Adopts(Head(toWorker[v])) => v \in N2
              /\ \A o \in DriverObj : Head(toWorker[v]) = Launch(o) /\ v \in N => v \in T2[o]
  BY DEF PlaceInv, Reachable
<1>2. toWorker \in [WorkerId -> Seq(ToWorkerMsg)]
  BY ChannelTypes DEF DriversInv
<1> HIDE DEF L, N, T, L2, N2, T2
<1>3. ASSUME NEW v \in L2
      PROVE  /\ v \in N \/ Told(toWorker[v], Len(toWorker[v]) + 1) =>
                  v \in N2 \/ Told(toWorker'[v], Len(toWorker'[v]) + 1)
             /\ \A o \in DriverObj : \A i \in 1..Len(toWorker[v]) :
                  toWorker[v][i] = Launch(o) /\ (v \in N \/ Told(toWorker[v], i)) =>
                    \/ v \in T2[o]
                    \/ \E j \in 1..Len(toWorker'[v]) :
                         toWorker'[v][j] = Launch(o) /\ (v \in N2 \/ Told(toWorker'[v], j))
  <2>1. CASE toWorker'[v] = toWorker[v]
    BY <1>1, <2>1
  <2>2. CASE toWorker'[v] # toWorker[v]
    <3> DEFINE s == toWorker[v]
    <3>1. /\ s \in Seq(ToWorkerMsg) /\ s # <<>> /\ toWorker'[v] = Tail(s)
          /\ Adopts(Head(s)) => v \in N2
          /\ \A o \in DriverObj : Head(s) = Launch(o) /\ v \in N => v \in T2[o]
      BY <1>1, <1>2, <2>2
    <3> HIDE DEF s
    <3>2. /\ s[1] = Head(s) /\ ~ Told(s, 1)
          /\ \A i \in 1..Len(s) : i # 1 => i - 1 \in 1..Len(Tail(s)) /\ Tail(s)[i - 1] = s[i]
          /\ ~ Adopts(Head(s)) =>
               /\ \A i \in 1..Len(s) : Told(s, i) => Told(Tail(s), i - 1)
               /\ Told(s, Len(s) + 1) => Told(Tail(s), Len(Tail(s)) + 1)
      BY <3>1, ToldRest
    <3>3. v \in N \/ Told(s, Len(s) + 1) => v \in N2 \/ Told(Tail(s), Len(Tail(s)) + 1)
      BY <1>1, <3>1, <3>2
    <3>4. ASSUME NEW o \in DriverObj, NEW i \in 1..Len(s), s[i] = Launch(o), v \in N \/ Told(s, i)
          PROVE  \/ v \in T2[o]
                 \/ \E j \in 1..Len(Tail(s)) : Tail(s)[j] = Launch(o) /\ (v \in N2 \/ Told(Tail(s), j))
      <4>1. CASE i = 1
        BY <3>1, <3>2, <3>4, <4>1
      <4>2. CASE i # 1
        <5>1. i - 1 \in 1..Len(Tail(s)) /\ Tail(s)[i - 1] = Launch(o)
          BY <3>2, <3>4, <4>2
        <5>2. v \in N2 \/ Told(Tail(s), i - 1)
          BY <1>1, <3>1, <3>2, <3>4
        <5> QED
          BY <5>1, <5>2
      <4> QED
        BY <4>1, <4>2
    <3> QED
      BY <3>1, <3>3, <3>4 DEF s
  <2> QED
    BY <2>1, <2>2
<1>4. /\ \A v \in L2 : v \in N \/ Told(toWorker[v], Len(toWorker[v]) + 1) =>
           v \in N2 \/ Told(toWorker'[v], Len(toWorker'[v]) + 1)
      /\ \A o \in DriverObj : \A v \in L2 : \A i \in 1..Len(toWorker[v]) :
           toWorker[v][i] = Launch(o) /\ (v \in N \/ Told(toWorker[v], i)) =>
             \/ v \in T2[o]
             \/ \E j \in 1..Len(toWorker'[v]) :
                  toWorker'[v][j] = Launch(o) /\ (v \in N2 \/ Told(toWorker'[v], j))
  BY <1>3
<1>5. /\ AliveToldIn(workers', wstate', toWorker', L2, N2)
      /\ PlacedIn(drivers', dworker', submitted', toWorker', L2, N2, T2)
  BY <1>1, <1>4, PlaceKept
<1> QED
  BY <1>5, PlaceNext DEF L2, N2, T2

\* The master acts on its own, or on what an application or a client asks for.
LEMMA PlaceMasterActs ==
  ASSUME GridInv, DriversInv, DriversInv', PlaceInv, UNCHANGED <<workerActorVars, lostAtMaster>>,
         \/ ElectedLeader \/ CompleteRecovery \/ SelfMessage
         \/ \E w \in WorkerId : TimePasses(w) \/ CheckForWorkerTimeOut(w)
         \/ \E d \in DriverId : RequestSubmitDriver(d) \/ RequestKillDriver(d) \/ ApplicationStateResponse(d)
         \/ \E p \in AppProc : RegisterApplication(p)
         \/ UNCHANGED masterVars
  PROVE  PlaceInv'
<1>1. epoch' = epoch /\ Lists({})
  BY EpochStays, ListsNobody
<1>2. /\ MasterInv' /\ Reachable \in SUBSET WorkerId
      /\ Before(Reachable, Adopted, There)
  BY DEF DriversInv, Reachable, PlaceInv
<1>3. ASSUME NEW L \in SUBSET WorkerId, NEW N, NEW T, Before(L, N, T) PROVE After(L, N, T)
  <2>1. CASE ElectedLeader
    BY <1>2, <1>3, <2>1, AfterElected
  <2>2. CASE SelfMessage
    BY <1>2, <1>3, <2>2, AfterSelfMessage
  <2>3. CASE CompleteRecovery \/ \E w \in WorkerId : TimePasses(w) \/ CheckForWorkerTimeOut(w)
    BY <1>2, <1>3, <2>3, AfterLost
  <2>4. ASSUME NEW d \in DriverId, RequestSubmitDriver(d) PROVE After(L, N, T)
    BY <1>2, <1>3, <2>4, AfterSubmitted
  <2>5. ASSUME NEW d \in DriverId, RequestKillDriver(d) PROVE After(L, N, T)
    BY <1>2, <1>3, <2>5, AfterKill
  <2>6. CASE \/ \E d \in DriverId : ApplicationStateResponse(d)
             \/ \E p \in AppProc : RegisterApplication(p)
    BY <1>2, <1>3, <2>6, AfterAppMessage
  <2>7. CASE UNCHANGED masterVars
    <3>1. /\ UNCHANGED <<wstate, dworker, submitted, toWorker>>
          /\ workers' \subseteq workers /\ drivers' \subseteq drivers
      BY <2>7 DEF masterVars, memoryVars, workerVars, driverVars, channelVars
    <3> QED
      BY <1>2, <1>3, <3>1, AfterSame
  <2> QED
    BY <2>1, <2>2, <2>3, <2>4, <2>5, <2>6, <2>7
<1>4. After(Reachable, Adopted, There)
  BY <1>2, <1>3
<1>5. UNCHANGED <<workerActorVars, lostAtMaster, epoch>>
  BY <1>1
<1> QED
  BY <1>1, <1>4, <1>5, MasterKeeps

LEMMA PlaceMasterSteps ==
  ASSUME GridInv, DriversInv, DriversInv', PlaceInv,
         \/ UNCHANGED vars \/ Elected \/ Recovered \/ ToItself \/ ClientStep
         \/ \E w \in WorkerId : Ageing(w) \/ TimeOut(w)
         \/ \E p \in AppProc : DeliverFromApp(p)
  PROVE  PlaceInv'
<1> USE DEF networkVars
<1>1. CASE UNCHANGED vars
  BY <1>1, PlaceMasterActs DEF vars
<1>2. CASE Elected \/ Recovered \/ ToItself \/ \E w \in WorkerId : Ageing(w) \/ TimeOut(w)
  BY <1>2, PlaceMasterActs DEF Elected, Recovered, ToItself, Ageing, TimeOut, MasterAlone
<1>3. ASSUME NEW c \in Client, Submit(c) PROVE PlaceInv'
  <2>1. pending[c] \in DriverId /\ RequestSubmitDriver(pending[c]) /\ UNCHANGED <<workerActorVars, lostAtMaster>>
    BY <1>3 DEF Submit, GridInv, GridTypeOK
  <2> QED
    BY <2>1, PlaceMasterActs
<1>4. ASSUME NEW c \in Client, NEW d \in DriverId, AskStatus(c, d) PROVE PlaceInv'
  BY <1>4, PlaceMasterActs DEF AskStatus
<1>5. ASSUME NEW d \in DriverId, stopApplication(d) PROVE PlaceInv'
  BY <1>5, PlaceMasterActs DEF stopApplication
<1>6. ASSUME NEW p \in AppProc, DeliverFromApp(p) PROVE PlaceInv'
  <2>1. /\ UNCHANGED <<workerActorVars, lostAtMaster>> /\ appDriver[p] \in DriverId
        /\ RegisterApplication(p) \/ UNCHANGED masterVars \/ ApplicationStateResponse(appDriver[p])
    BY <1>6, ConstantsAssumption DEF DeliverFromApp, FromApplication
  <2> QED
    BY <2>1, PlaceMasterActs
<1> QED
  BY <1>1, <1>2, <1>3, <1>4, <1>5, <1>6 DEF ClientStep

-----------------------------------------------------------------------------
(* What the master hears from a worker                                     *)

LEMMA PlacedMore ==
  ASSUME NEW D, NEW D2 \in SUBSET D, NEW dw, NEW sb, NEW net, NEW L, NEW N, NEW T, NEW T2,
         PlacedIn(D, dw, sb, net, L, N, T),
         \A o \in D2 : \A v \in L : v \in T[o] => v \in T2[o]
  PROVE  PlacedIn(D2, dw, sb, net, L, N, T2)
BY DEF PlacedIn

\* A worker that answers with the ids of its drivers has adopted the master, and the ones
\* the master finds are there.
LEMMA HeardThere ==
  ASSUME DriversInv, OnceInv, WorkerTypeOK, Addressed, AnswersTrue, NEW w \in WorkerId,
         UNCHANGED <<epoch, wmaster, host, spark>>,
         toMaster[w] # <<>>, toMaster' = [toMaster EXCEPT ![w] = Tail(@)],
         Head(toMaster[w]).type = "WorkerSchedulerStateResponse", Head(toMaster[w]).to = epoch
  PROVE  /\ w \in Adopted
         /\ \A o \in drivers : o.id \in Head(toMaster[w]).ids /\ submitted[o.id] = 1 => w \in There'[o]
<1> DEFINE s == toMaster[w]
<1>1. s \in Seq(FromWorkerMsg) /\ s # <<>>
  BY DEF WorkerTypeOK
<1>2. toMaster'[w] = Tail(s)
  BY DEF WorkerTypeOK
<1> HIDE DEF s
<1>3. /\ 1 \in 1..Len(s) /\ s[1] = Head(s)
      /\ \A e, d : \A i \in Nat : Says(s, i + 1, e, d) => Says(Tail(s), i, e, d)
  BY <1>1, SaysRest
<1>4. 1 \in 1..Len(toMaster[w]) /\ toMaster[w][1] = Head(toMaster[w])
  BY <1>3 DEF s
<1>5. wmaster[w] = epoch
  BY <1>4 DEF Addressed
<1>6. ASSUME NEW o \in drivers, o.id \in Head(toMaster[w]).ids, submitted[o.id] = 1
      PROVE  w \in There'[o]
  <2>1. PICK x \in DriverObj : /\ x.id = o.id /\ host[x] = w
                               /\ spark[x] # "reported" \/ Says(toMaster[w], 1, epoch, o.id)
    BY <1>4, <1>6 DEF AnswersTrue
  <2>2. o \in DriverObj /\ o.seq <= 1
    BY <1>6, DriverTypes DEF DriversInv, KnownSubmitted
  <2>3. ~ (x.seq > 1)
    BY <1>6, <2>1, NoneAssumption DEF OnceInv, NotLaunched
  <2>4. x.seq \in Nat /\ o.seq \in Nat /\ x.seq >= 1 /\ o.seq >= 1
    BY <2>2, ObjectTypes
  <2>5. x = o
    BY <2>1, <2>2, <2>3, <2>4, SameObject
  <2>6. Says(toMaster[w], 1, epoch, o.id) => Says(toMaster'[w], 0, epoch, o.id)
    <3>1. Says(s, 0 + 1, epoch, o.id) => Says(Tail(s), 0, epoch, o.id)
      BY <1>3
    <3>2. 0 + 1 = 1
      OBVIOUS
    <3> QED
      BY <1>2, <3>1, <3>2 DEF s
  <2>7. There'[o] = {u \in WorkerId : /\ wmaster'[u] = epoch' /\ host'[o] = u
                                      /\ spark'[o] # "reported" \/ Says(toMaster'[u], 0, epoch', o.id)}
    BY <2>2 DEF There, Adopted, Says, Final
  <2> QED
    BY <1>5, <2>1, <2>5, <2>6, <2>7
<1> QED
  BY <1>5, <1>6 DEF Adopted

LEMMA PlaceFromWorker ==
  ASSUME GridInv, DriversInv, DriversInv', OnceInv, PlaceInv, NEW w \in WorkerId, DeliverFromWorker(w)
  PROVE  PlaceInv'
<1> DEFINE m == Head(toMaster[w])
<1>1. /\ toMaster[w] # <<>> /\ toMaster' = [toMaster EXCEPT ![w] = Tail(@)]
      /\ FromWorker(w, m)
      /\ UNCHANGED <<process, wmaster, host, runners, spark, lostAtMaster>>
  BY DEF DeliverFromWorker, registrationVars, runnerVars, networkVars
<1>2. /\ WorkerTypeOK /\ toWorker \in [WorkerId -> Seq(ToWorkerMsg)] /\ MasterInv' /\ drivers \subseteq DriverObj
      /\ PlacementIndexes' /\ Reachable \in SUBSET WorkerId
  BY ChannelTypes, DriverTypes DEF GridInv, WorkerInv, DriversInv, Reachable
<1>3. HearsLeader /\ Addressed /\ RunnersThere /\ AnswersTrue /\ Silent /\ Before(Reachable, Adopted, There)
  BY DEF PlaceInv, Links
<1>4. m \in FromWorkerMsg
  BY <1>1, <1>2, Received DEF WorkerTypeOK
<1>5. epoch' = epoch
  BY <1>1, EpochStays DEF FromWorker
<1>6. Lists({w})
  <2>1. CASE RegisterWorker(w)
    BY <2>1, ListsRegistered
  <2>2. CASE Lists({})
    BY <2>2 DEF Lists
  <2> QED
    BY <1>1, <2>1, <2>2, ListsNobody DEF FromWorker
<1>7. /\ Addressed' /\ RunnersThere' /\ AnswersTrue'
      /\ \A o \in DriverObj : \A v \in There[o] :
           v \in There'[o] \/ (v = w /\ Final(m, epoch, o.id))
  BY <1>1, <1>2, <1>3, <1>5, SaidHeard
<1>8. Silent'
  <2>1. process[w] = "up"
    BY <1>1, <1>3 DEF Silent
  <2>2. \A v \in WorkerId \ {w} : toMaster'[v] = toMaster[v]
    BY <1>1, <1>2 DEF WorkerTypeOK
  <2>3. /\ \A v \in WorkerId : process'[v] # "up" => process'[v] = process[v] /\ toMaster'[v] = toMaster[v]
        /\ \A v \in WorkerId : process'[v] = "new" => process[v] = "new" /\ v \notin {w}
    BY <1>1, <2>1, <2>2
  <2> QED
    BY <1>3, <1>6, <2>3, SilentStays
<1>9. After(Reachable, Adopted, There')
  <2> DEFINE L == Reachable
             N == Adopted
             T == There
             T2 == There'
  <2>1. L \in SUBSET WorkerId /\ Before(L, N, T) /\ MasterInv' /\ drivers \subseteq DriverObj
    BY <1>2, <1>3
  <2>2. \A o \in DriverObj : \A v \in L : v \in T[o] => v \in T2[o] \/ Final(m, epoch, o.id)
    BY <1>7
  <2>3. m.type = "WorkerSchedulerStateResponse" /\ m.to = epoch =>
          w \in N /\ \A o \in drivers : o.id \in m.ids /\ submitted[o.id] = 1 => w \in T2[o]
    BY <1>1, <1>2, <1>3, <1>5, HeardThere
  <2> SUFFICES After(L, N, T2)
    OBVIOUS
  <2> HIDE DEF L, N, T, T2, m
  <2>4. CASE m.type = "DriverStateChanged" /\ m.to = epoch /\ isFinished(m.state)
    <3>1. DriverStateChanged(m.id, m.state)
      BY <1>1, <2>4 DEF FromWorker
    <3> DEFINE D == {o \in drivers : o.id # m.id}
    <3>2. \A o \in D : \A v \in L : v \in T[o] => v \in T2[o]
      BY <2>1, <2>2 DEF Final
    <3>3. D \in SUBSET drivers /\ PlacedIn(drivers, dworker, submitted, toWorker, L, N, T)
      BY <2>1 DEF Before
    <3> HIDE DEF D
    <3>4. PlacedIn(D, dworker, submitted, toWorker, L, N, T2)
      BY <3>2, <3>3, PlacedMore
    <3>5. AliveToldIn(workers, wstate, toWorker, L, N)
      BY <2>1 DEF Before
    <3>6. PlacedIn({o \in drivers : o.id # m.id}, dworker, submitted, toWorker, L, N, T2)
      BY <3>4 DEF D
    <3> QED
      BY <2>1, <2>4, <3>1, <3>5, <3>6, AfterEnded
  <2>5. CASE ~ (m.type = "DriverStateChanged" /\ m.to = epoch /\ isFinished(m.state))
    <3>1. \A o \in drivers : \A v \in L : v \in T[o] => v \in T2[o]
      BY <2>1, <2>2, <2>5 DEF Final
    <3>2. PlacedIn(drivers, dworker, submitted, toWorker, L, N, T2)
      BY <2>1, <3>1, PlacedMore DEF Before
    <3>3. Before(L, N, T2)
      BY <2>1, <3>2 DEF Before
    <3>4. CASE RegisterWorker(w)
      BY <2>1, <3>3, <3>4, AfterRegister
    <3>5. CASE UNCHANGED masterVars
      <4>1. /\ UNCHANGED <<wstate, dworker, submitted, toWorker>>
            /\ workers' \subseteq workers /\ drivers' \subseteq drivers
        BY <3>5 DEF masterVars, memoryVars, workerVars, driverVars, channelVars
      <4> QED
        BY <2>1, <3>3, <4>1, AfterSame
    <3>6. CASE Heartbeat(w)
      BY <2>1, <3>3, <3>6, AfterHeartbeat
    <3>7. CASE /\ m.type = "WorkerSchedulerStateResponse" /\ m.to = epoch
               /\ WorkerSchedulerStateResponse(w, m.ids)
      <4>1. m.ids \in SUBSET DriverId
        BY <1>4, <3>7, FromWorkerFields
      <4> QED
        BY <2>1, <2>3, <3>3, <3>7, <4>1, AfterReported
    <3>8. CASE m.type = "WorkerLatestState" /\ WorkerLatestState(w, m.ids)
      <4>1. m.ids \in SUBSET DriverId
        BY <1>4, <3>8, FromWorkerFields
      <4> QED
        BY <2>1, <3>3, <3>8, <4>1, AfterLatest
    <3>9. CASE DriverStateChanged(m.id, m.state)
      BY <2>1, <3>3, <3>9, AfterStateChanged
    <3> QED
      BY <1>1, <3>4, <3>5, <3>6, <3>7, <3>8, <3>9 DEF FromWorker
  <2> QED
    BY <2>4, <2>5
<1>10. HearsLeader'
  BY <1>2, <1>3, <1>5, <1>9, HearsMore DEF After
<1>11. Links'
  BY <1>7, <1>8, <1>10 DEF Links
<1>12. Reachable' = Reachable /\ Adopted' = Adopted
  BY <1>1, <1>5 DEF Reachable, Adopted
<1> QED
  BY <1>9, <1>11, <1>12, PlaceNext DEF After

-----------------------------------------------------------------------------
(* Disconnections and failures                                             *)

LEMMA PlaceMasterLoses ==
  ASSUME GridInv, DriversInv, DriversInv', PlaceInv, NEW a \in Addr, MasterLoses(a)
  PROVE  PlaceInv'
<1> USE DEF workerActorVars, registrationVars, runnerVars
<1>1. /\ lostAtMaster' = lostAtMaster \ {a} /\ onDisconnected(a)
      /\ UNCHANGED <<process, wmaster, host, runners, spark, toMaster>>
  BY DEF MasterLoses
<1>2. /\ WorkerTypeOK /\ toWorker \in [WorkerId -> Seq(ToWorkerMsg)]
      /\ Reachable \in SUBSET WorkerId /\ Reachable' \in SUBSET WorkerId
  BY ChannelTypes DEF GridInv, WorkerInv, DriversInv, Reachable
<1>3. HearsLeader /\ Addressed /\ RunnersThere /\ AnswersTrue /\ Silent /\ Before(Reachable, Adopted, There)
  BY DEF PlaceInv, Links
<1>4. epoch' = epoch /\ Lists({})
  BY <1>1, EpochStays, ListsNobody
<1>5. \A w \in Reachable' : w \in Reachable \/ workerAddress[w] = a
  BY <1>1 DEF Reachable
<1>6. After(Reachable', Adopted, There)
  <2> DEFINE L == Reachable
             N == Adopted
             T == There
             L2 == Reachable'
  <2>1. /\ L \in SUBSET WorkerId /\ L2 \in SUBSET WorkerId /\ Before(L, N, T)
        /\ \A w \in L2 : w \in L \/ workerAddress[w] = a
    BY <1>2, <1>3, <1>5
  <2> SUFFICES After(L2, N, T)
    OBVIOUS
  <2> HIDE DEF L, N, T, L2
  <2> QED
    BY <1>1, <2>1, AfterDisconnected
<1>7. HearsLeader'
  BY <1>2, <1>3, <1>4, <1>6, HearsMore DEF After
<1>8. Addressed' /\ RunnersThere' /\ AnswersTrue'
  BY <1>1, <1>2, <1>3, <1>4, SaidSame
<1>9. Silent'
  BY <1>1, <1>3, <1>4, SilentStays
<1>10. Links'
  BY <1>7, <1>8, <1>9 DEF Links
<1>11. Adopted' = Adopted
  BY <1>1, <1>4 DEF Adopted
<1>12. There' = There
  BY <1>1, <1>4 DEF There, Adopted, Says, Final
<1> QED
  BY <1>6, <1>10, <1>11, <1>12, PlaceNext DEF After

LEMMA PlaceMasterFails ==
  ASSUME GridInv, DriversInv, PlaceInv, MasterFails
  PROVE  PlaceInv'
<1>1. /\ ProcessExit /\ toMaster' = [w \in WorkerId |-> <<>>]
      /\ toWorker' = [w \in WorkerId |-> <<>>]
      /\ workers' = {} /\ drivers' = {}
      /\ UNCHANGED <<process, host, runners, spark>>
  BY DEF MasterFails, ProcessExit, ForgetMemory, runnerVars
<1>2. RunnersThere /\ Silent
  BY DEF PlaceInv, Links
<1>3. \A w \in WorkerId : 1..Len(toMaster'[w]) = {} /\ 1..Len(toWorker'[w]) = {}
  BY <1>1, EmptySeq
<1>4. HearsLeader' /\ Addressed' /\ AnswersTrue'
  BY <1>3 DEF HearsLeader, Addressed, AnswersTrue
<1>5. RunnersThere'
  BY <1>1, <1>2 DEF RunnersThere
<1>6. Silent'
  BY <1>1, <1>2, ListsNobody, SilentStays
<1>7. Links'
  BY <1>4, <1>5, <1>6 DEF Links
<1> QED
  BY <1>1, <1>7, PlaceNext DEF AliveToldIn, PlacedIn

\* The master and its channels to the workers are left alone.
LEMMA PlaceElsewhere ==
  ASSUME GridInv, DriversInv, PlaceInv, UNCHANGED <<memoryVars, toWorker>>,
         \A v \in Reachable' : v \in idToWorker => v \in Reachable,
         UNCHANGED wmaster,
         \A o \in DriverObj : \A v \in There[o] : v \in Reachable' => v \in There'[o],
         Addressed', RunnersThere', AnswersTrue', Silent'
  PROVE  PlaceInv'
<1>1. UNCHANGED <<epoch, workers, wstate, drivers, dworker, submitted, toWorker>>
  BY DEF memoryVars, workerVars, driverVars
<1>2. HearsLeader'
  BY <1>1 DEF PlaceInv, Links, HearsLeader, Adopts
<1>3. Links'
  BY <1>2 DEF Links
<1>4. Adopted \subseteq Adopted'
  BY <1>1 DEF Adopted
<1>5. \A v \in Reachable' : toWorker'[v] = toWorker[v]
  BY <1>1
<1> QED
  BY <1>1, <1>3, <1>4, <1>5, WorkersKeep

LEMMA FewerReached ==
  ASSUME \A v \in WorkerId : process'[v] = "up" => process[v] = "up", lostAtMaster \subseteq lostAtMaster'
  PROVE  Reachable' \subseteq Reachable
BY DEF Reachable

\* A worker process ends.
LEMMA WorkerGone ==
  ASSUME GridInv, Links, NEW w \in WorkerId, process[w] = "up", Lists({}),
         process' = [process EXCEPT ![w] = "exited"], toMaster' = [toMaster EXCEPT ![w] = <<>>],
         UNCHANGED <<epoch, wmaster, host, runners, spark>>, lostAtMaster \subseteq lostAtMaster'
  PROVE  /\ Reachable' \subseteq Reachable /\ w \notin Reachable'
         /\ Addressed' /\ RunnersThere' /\ AnswersTrue' /\ Silent'
         /\ \A o \in DriverObj : \A v \in There[o] : v \in Reachable' => v \in There'[o]
<1>1. WorkerTypeOK
  BY DEF GridInv, WorkerInv
<1>2. /\ process'[w] = "exited" /\ \A v \in WorkerId \ {w} : process'[v] = process[v]
      /\ toMaster'[w] = <<>> /\ \A v \in WorkerId \ {w} : toMaster'[v] = toMaster[v]
  BY <1>1 DEF WorkerTypeOK
<1>3. Reachable' \subseteq Reachable /\ w \notin Reachable'
  BY <1>2, FewerReached DEF Reachable
<1>4. /\ Addressed' /\ RunnersThere' /\ AnswersTrue'
      /\ \A o \in DriverObj : \A v \in There[o] : v # w => v \in There'[o]
  BY <1>1, SaidLost DEF Links
<1>5. Silent'
  <2>1. /\ \A v \in WorkerId : process'[v] # "up" =>
             toMaster'[v] = <<>> \/ (process'[v] = process[v] /\ toMaster'[v] = toMaster[v])
        /\ \A v \in WorkerId : process'[v] = "new" => process[v] = "new" /\ v \notin {}
    BY <1>2
  <2> QED
    BY <2>1, SilentStays DEF Links
<1> QED
  BY <1>3, <1>4, <1>5

LEMMA LostGrows ==
  ASSUME NEW a, lostAtMaster' = LostAt(a) \/ lostAtMaster' = lostAtMaster
  PROVE  lostAtMaster \subseteq lostAtMaster'
BY DEF LostAt

LEMMA PlaceKillWorker ==
  ASSUME GridInv, DriversInv, PlaceInv, NEW w \in WorkerId, KillWorker(w)
  PROVE  PlaceInv'
<1>1. /\ process[w] = "up" /\ process' = [process EXCEPT ![w] = "exited"]
      /\ toMaster' = [toMaster EXCEPT ![w] = <<>>] /\ UNCHANGED masterVars
      /\ UNCHANGED <<epoch, wmaster, host, runners, spark>>
      /\ lostAtMaster' = LostAt(workerAddress[w])
  BY DEF KillWorker, WorkerKilled, registrationVars, runnerVars, masterVars, memoryVars
<1>2. lostAtMaster \subseteq lostAtMaster' /\ Lists({}) /\ Links
  BY <1>1, LostGrows, ListsNobody DEF PlaceInv
<1>3. /\ Reachable' \subseteq Reachable
      /\ Addressed' /\ RunnersThere' /\ AnswersTrue' /\ Silent'
      /\ \A o \in DriverObj : \A v \in There[o] : v \in Reachable' => v \in There'[o]
  BY <1>1, <1>2, WorkerGone
<1>4. UNCHANGED <<memoryVars, toWorker>>
  BY <1>1 DEF masterVars, channelVars
<1> QED
  BY <1>1, <1>3, <1>4, PlaceElsewhere

LEMMA PlaceBreakWorker ==
  ASSUME GridInv, DriversInv, PlaceInv, NEW w \in WorkerId, BreakWorker(w)
  PROVE  PlaceInv'
<1> USE DEF memoryVars, workerVars, driverVars, persistedVars
<1>1. /\ process[w] = "up" /\ toMaster' = [toMaster EXCEPT ![w] = <<>>]
      /\ toWorker' = [toWorker EXCEPT ![w] = <<>>]
      /\ lostAtMaster' = lostAtMaster \cup {workerAddress[w]}
      /\ UNCHANGED <<process, wmaster, host, runners, spark>>
      /\ UNCHANGED <<epoch, workers, wstate, drivers, dworker, submitted, idToWorker, pworkers>>
  BY DEF BreakWorker, registrationVars, runnerVars
<1>2. WorkerTypeOK /\ Links /\ toWorker \in [WorkerId -> Seq(ToWorkerMsg)]
  BY ChannelTypes DEF GridInv, WorkerInv, DriversInv, PlaceInv
<1>3. /\ Reachable' \subseteq Reachable /\ w \notin Reachable'
      /\ \A v \in Reachable' : v \in WorkerId
  BY <1>1, FewerReached DEF Reachable
<1>4. /\ Addressed' /\ RunnersThere' /\ AnswersTrue'
      /\ \A o \in DriverObj : \A v \in There[o] : v # w => v \in There'[o]
  BY <1>1, <1>2, SaidLost DEF Links
<1>5. Silent'
  <2>1. \A v \in WorkerId : toMaster'[v] = <<>> \/ toMaster'[v] = toMaster[v]
    BY <1>1, <1>2 DEF WorkerTypeOK
  <2>2. Lists({})
    BY <1>1 DEF Lists
  <2> QED
    BY <1>1, <1>2, <2>1, <2>2, SilentStays DEF Links
<1>6. toWorker'[w] = <<>> /\ \A v \in WorkerId \ {w} : toWorker'[v] = toWorker[v]
  BY <1>1, <1>2
<1>7. HearsLeader'
  <2>1. \A v \in WorkerId : \A i \in 1..Len(toWorker'[v]) : v # w
    BY <1>6, EmptySeq
  <2>2. \A v \in WorkerId : \A i \in 1..Len(toWorker'[v]) : toWorker'[v] = toWorker[v]
    BY <1>6, <2>1
  <2> QED
    BY <1>1, <1>2, <2>2, HearsLess DEF Links
<1>8. Links'
  BY <1>4, <1>5, <1>7 DEF Links
<1>9. Adopted \subseteq Adopted'
  BY <1>1 DEF Adopted
<1>10. /\ \A o \in DriverObj : \A v \in There[o] : v \in Reachable' => v \in There'[o]
       /\ \A v \in Reachable' : toWorker'[v] = toWorker[v]
  BY <1>3, <1>4, <1>6
<1> QED
  BY <1>1, <1>3, <1>8, <1>9, <1>10, WorkersKeep

-----------------------------------------------------------------------------
(* Steps of workers, runners and applications                              *)

\* No worker says or ends anything that matters.
LEMMA PlaceNothingSaid ==
  ASSUME GridInv, DriversInv, PlaceInv, UNCHANGED <<memoryVars, toWorker>>,
         UNCHANGED <<process, wmaster, host, runners, toMaster>>, lostAtMaster \subseteq lostAtMaster',
         \A o \in DriverObj : spark'[o] = "reported" => spark[o] = "reported"
  PROVE  PlaceInv'
<1>1. WorkerTypeOK /\ Links
  BY DEF GridInv, WorkerInv, PlaceInv
<1>2. UNCHANGED <<epoch, wmaster, host, runners, toMaster>> /\ Lists({})
  BY DEF memoryVars, workerVars, persistedVars, Lists
<1>3. /\ Addressed' /\ RunnersThere' /\ AnswersTrue'
      /\ \A o \in DriverObj : There[o] \subseteq There'[o]
  BY <1>1, <1>2, SaidSame DEF Links
<1>4. Silent'
  BY <1>1, <1>2, SilentStays DEF Links
<1>5. Reachable' \subseteq Reachable
  BY FewerReached
<1> QED
  BY <1>3, <1>4, <1>5, PlaceElsewhere

LEMMA PlaceStarting ==
  ASSUME GridInv, DriversInv, PlaceInv, NEW w \in WorkerId, Starting(w)
  PROVE  PlaceInv'
<1>1. /\ process[w] = "new" /\ process' = [process EXCEPT ![w] = "up"]
      /\ UNCHANGED <<wmaster, host, runners, spark, toMaster, lostAtMaster>>
      /\ UNCHANGED <<memoryVars, toWorker>>
  BY DEF Starting, StartWorker, runnerVars, WorkerAlone, networkVars, masterVars, channelVars
<1>2. WorkerTypeOK /\ Links
  BY DEF GridInv, WorkerInv, PlaceInv
<1>3. UNCHANGED <<epoch, wmaster, host, runners, toMaster>> /\ Lists({})
  BY <1>1 DEF memoryVars, workerVars, persistedVars, Lists
<1>4. /\ Addressed' /\ RunnersThere' /\ AnswersTrue'
      /\ \A o \in DriverObj : There[o] \subseteq There'[o]
  BY <1>1, <1>2, <1>3, SaidSame DEF Links
<1>5. process'[w] = "up" /\ \A v \in WorkerId \ {w} : process'[v] = process[v]
  BY <1>1, <1>2 DEF WorkerTypeOK
<1>6. Silent'
  BY <1>2, <1>3, <1>5, SilentStays DEF Links
<1>7. w \notin idToWorker
  BY <1>1, <1>2 DEF Links, Silent
<1>8. \A v \in Reachable' : v \in idToWorker => v \in Reachable
  BY <1>1, <1>5, <1>7 DEF Reachable
<1> QED
  BY <1>1, <1>4, <1>6, <1>8, PlaceElsewhere

\* Worker w sends m; no answer, and the report of the end of a driver if it is one.
LEMMA PlaceSaid ==
  ASSUME GridInv, DriversInv, PlaceInv, NEW w \in WorkerId, NEW m \in FromWorkerMsg,
         UNCHANGED <<memoryVars, toWorker, process, wmaster, host, lostAtMaster>>, process[w] = "up",
         toMaster' = SendTo(toMaster, w, m), RunnersThere',
         m.type # "RegisterWorker" => m.to = wmaster[w],
         m.type # "WorkerSchedulerStateResponse",
         \A o \in DriverObj : spark'[o] = "reported" =>
           \/ spark[o] = "reported"
           \/ host[o] = w /\ m.type = "DriverStateChanged" /\ m.id = o.id /\ isFinished(m.state)
  PROVE  PlaceInv'
<1>1. WorkerTypeOK /\ Links
  BY DEF GridInv, WorkerInv, PlaceInv
<1>2. epoch' = epoch /\ Lists({})
  BY DEF memoryVars, workerVars, persistedVars, Lists
<1>3. /\ Addressed' /\ AnswersTrue'
      /\ \A o \in DriverObj : There[o] \subseteq There'[o]
  BY <1>1, <1>2, SaidOne DEF Links
<1>4. \A v \in WorkerId \ {w} : toMaster'[v] = toMaster[v]
  BY <1>1 DEF WorkerTypeOK, SendTo
<1>5. Silent'
  BY <1>1, <1>2, <1>4, SilentStays DEF Links
<1>6. Reachable' \subseteq Reachable
  BY FewerReached
<1> QED
  BY <1>3, <1>5, <1>6, PlaceElsewhere

LEMMA PlaceRegistering ==
  ASSUME GridInv, DriversInv, PlaceInv, NEW w \in WorkerId, Registering(w)
  PROVE  PlaceInv'
<1>1. /\ process[w] = "up" /\ UNCHANGED <<memoryVars, toWorker, wmaster>>
      /\ ExitNoticed(w)
  BY DEF Registering, tryRegisterAllMasters, masterVars, channelVars
<1>2. WorkerTypeOK /\ Links /\ epoch \in Nat
  BY DEF GridInv, WorkerInv, PlaceInv
<1>3. CASE UNCHANGED <<process, runnerVars, toMaster>>
  <2>1. lostAtMaster' = lostAtMaster
    BY <1>1, <1>3 DEF ExitNoticed
  <2>2. UNCHANGED <<process, wmaster, host, runners, toMaster, spark>>
    BY <1>1, <1>3 DEF runnerVars
  <2> QED
    BY <1>1, <2>1, <2>2, PlaceNothingSaid
<1>4. CASE Send(w, [type |-> "RegisterWorker"]) /\ UNCHANGED <<process, runnerVars>>
  <2>1. lostAtMaster' = lostAtMaster
    BY <1>1, <1>4 DEF ExitNoticed
  <2>2. UNCHANGED <<process, host, runners, spark>>
    BY <1>4 DEF runnerVars
  <2> DEFINE m == [type |-> "RegisterWorker"]
  <2>3. m \in FromWorkerMsg /\ m.type = "RegisterWorker" /\ toMaster' = SendTo(toMaster, w, m)
    BY <1>2, <1>4, FromWorkerTypes DEF Send
  <2>4. RunnersThere'
    BY <1>2, <2>2 DEF Links, RunnersThere
  <2> HIDE DEF m
  <2> QED
    BY <1>1, <2>1, <2>2, <2>3, <2>4, PlaceSaid
<1>5. CASE gracefullyShutdown(w)
  <2>1. /\ process' = [process EXCEPT ![w] = "exited"] /\ toMaster' = [toMaster EXCEPT ![w] = <<>>]
        /\ UNCHANGED <<runners, host>>
    BY <1>5 DEF gracefullyShutdown
  <2>2. spark' = spark
    BY <1>2, <1>5 DEF gracefullyShutdown, appMasterInWorker, WorkerTypeOK
  <2>3. lostAtMaster \subseteq lostAtMaster' /\ epoch' = epoch /\ Lists({})
    BY <1>1, LostGrows DEF ExitNoticed, memoryVars, workerVars, persistedVars, Lists
  <2>4. /\ Reachable' \subseteq Reachable
        /\ Addressed' /\ RunnersThere' /\ AnswersTrue' /\ Silent'
        /\ \A o \in DriverObj : \A v \in There[o] : v \in Reachable' => v \in There'[o]
    BY <1>1, <1>2, <2>1, <2>2, <2>3, WorkerGone
  <2> QED
    BY <1>1, <2>4, PlaceElsewhere
<1> QED
  BY <1>3, <1>4, <1>5 DEF Registering, tryRegisterAllMasters

LEMMA PlaceBeating ==
  ASSUME GridInv, DriversInv, PlaceInv, NEW w \in WorkerId, Beating(w)
  PROVE  PlaceInv'
<1>1. /\ process[w] = "up" /\ UNCHANGED <<memoryVars, toWorker, process, wmaster, host, runners, spark, lostAtMaster>>
      /\ sendToMaster(w, [type |-> "Heartbeat", to |-> wmaster[w]])
  BY DEF Beating, SendHeartbeat, registrationVars, runnerVars, WorkerAlone, masterVars, channelVars, networkVars
<1>2. WorkerTypeOK /\ Links
  BY DEF GridInv, WorkerInv, PlaceInv
<1>3. CASE wmaster[w] = None
  <2>1. toMaster' = toMaster
    BY <1>1, <1>3 DEF sendToMaster
  <2> QED
    BY <1>1, <2>1, PlaceNothingSaid
<1>4. CASE wmaster[w] # None
  <2> DEFINE m == [type |-> "Heartbeat", to |-> wmaster[w]]
  <2>1. wmaster[w] \in Nat
    BY <1>2, <1>4 DEF WorkerTypeOK
  <2>2. /\ m \in FromWorkerMsg /\ m.type = "Heartbeat" /\ m.to = wmaster[w]
        /\ toMaster' = SendTo(toMaster, w, m)
    BY <1>1, <1>4, <2>1, FromWorkerTypes DEF sendToMaster
  <2>3. RunnersThere'
    BY <1>1, <1>2 DEF Links, RunnersThere
  <2> HIDE DEF m
  <2> QED
    BY <1>1, <2>2, <2>3, PlaceSaid
<1> QED
  BY <1>3, <1>4

LEMMA PlaceWorkerLoses ==
  ASSUME GridInv, DriversInv, PlaceInv, NEW w \in WorkerId, NEW e, WorkerLoses(w, e)
  PROVE  PlaceInv'
<1>1. /\ UNCHANGED <<memoryVars, toWorker, lostAtMaster>>
      /\ UNCHANGED <<process, wmaster, host, runners, toMaster, spark>>
  BY DEF WorkerLoses, masterDisconnected, workerActorVars, registrationVars, runnerVars, masterVars, channelVars
<1> QED
  BY <1>1, PlaceNothingSaid

LEMMA PlaceApps ==
  ASSUME GridInv, DriversInv, PlaceInv, NEW p \in AppProc, AppStep(p), ~ DeliverFromApp(p)
  PROVE  PlaceInv'
<1> USE DEF masterVars, channelVars, networkVars
<1>1. /\ UNCHANGED <<memoryVars, toWorker>>
      /\ UNCHANGED workerActorVars
  BY DEF AppStep, DeliverToApp, AppStarting, AppRegistering, BreakApp, KillApp, AppLoses, AppExitNoticed
<1>2. UNCHANGED <<process, wmaster, host, runners, toMaster, spark>>
  BY <1>1 DEF workerActorVars, registrationVars, runnerVars
<1>3. lostAtMaster \subseteq lostAtMaster'
  BY LostGrows DEF AppStep, DeliverToApp, AppStarting, AppRegistering, BreakApp, KillApp, AppLoses, AppExitNoticed
<1> QED
  BY <1>1, <1>2, <1>3, PlaceNothingSaid

\* The runner of o is forgotten with its end.
LEMMA RunnerForgotten ==
  ASSUME WorkerTypeOK, RunnersThere, NEW o \in DriverObj, NEW w \in WorkerId, host[o] = w, host' = host,
         runners' = [runners EXCEPT ![w][o.id] = None], spark' = [spark EXCEPT ![o] = "reported"]
  PROVE  RunnersThere'
<1> SUFFICES ASSUME NEW v \in WorkerId, NEW d \in DriverId, runners'[v][d] # None
             PROVE  /\ runners'[v][d].id = d /\ host[runners'[v][d]] = v
                    /\ spark'[runners'[v][d]] # "reported"
  BY DEF RunnersThere
<1>0. o.id \in DriverId
  BY ObjectTypes
<1>1. ~ (v = w /\ d = o.id)
  BY <1>0 DEF WorkerTypeOK
<1>2. runners'[v][d] = runners[v][d]
  BY <1>1 DEF WorkerTypeOK
<1>3. /\ runners[v][d].id = d /\ host[runners[v][d]] = v /\ spark[runners[v][d]] # "reported"
      /\ runners[v][d] \in DriverObj
  BY <1>2 DEF RunnersThere, WorkerTypeOK
<1>4. runners[v][d] # o
  BY <1>1, <1>3
<1>5. spark'[runners[v][d]] = spark[runners[v][d]]
  BY <1>3, <1>4 DEF WorkerTypeOK
<1> QED
  BY <1>2, <1>3, <1>5

\* A worker without a master reports an end to nobody.
LEMMA PlaceUnheard ==
  ASSUME GridInv, DriversInv, PlaceInv, NEW o \in DriverObj, NEW w \in WorkerId, host[o] = w, wmaster[w] = None,
         UNCHANGED <<memoryVars, toWorker, process, wmaster, host, toMaster, lostAtMaster>>, RunnersThere',
         \A x \in DriverObj \ {o} : spark'[x] = spark[x]
  PROVE  PlaceInv'
<1>1. WorkerTypeOK /\ Links /\ epoch \in Nat
  BY DEF GridInv, WorkerInv, PlaceInv
<1>2. epoch' = epoch /\ Lists({})
  BY DEF memoryVars, workerVars, persistedVars, Lists
<1>3. wmaster[w] # epoch
  BY <1>1, WorkerAssumption
<1>4. Addressed'
  BY <1>1, <1>2 DEF Links, Addressed
<1>5. AnswersTrue'
  <2> SUFFICES ASSUME NEW v \in WorkerId, NEW i \in 1..Len(toMaster[v]),
                      toMaster[v][i].type = "WorkerSchedulerStateResponse", toMaster[v][i].to = epoch,
                      NEW d \in toMaster[v][i].ids
               PROVE  \E x \in DriverObj :
                        /\ x.id = d /\ host[x] = v
                        /\ spark'[x] # "reported" \/ Says(toMaster[v], i, epoch, d)
    BY <1>2 DEF AnswersTrue, Says, Final
  <2>1. v # w
    BY <1>1, <1>3 DEF Links, Addressed
  <2>2. PICK x \in DriverObj : /\ x.id = d /\ host[x] = v
                               /\ spark[x] # "reported" \/ Says(toMaster[v], i, epoch, d)
    BY <1>1 DEF Links, AnswersTrue
  <2> QED
    BY <2>1, <2>2
<1>6. ASSUME NEW x \in DriverObj, NEW v \in There[x] PROVE v \in There'[x]
  <2>1. /\ v \in WorkerId /\ wmaster[v] = epoch /\ host[x] = v
        /\ spark[x] # "reported" \/ Says(toMaster[v], 0, epoch, x.id)
    BY DEF There, Adopted
  <2>2. x # o
    BY <1>3, <2>1
  <2>3. There'[x] = {u \in WorkerId : /\ wmaster[u] = epoch /\ host[x] = u
                                      /\ spark'[x] # "reported" \/ Says(toMaster[u], 0, epoch, x.id)}
    BY <1>2 DEF There, Adopted, Says, Final
  <2> QED
    BY <2>1, <2>2, <2>3
<1>7. Silent'
  BY <1>1, <1>2, SilentStays DEF Links
<1>8. Reachable' \subseteq Reachable
  BY FewerReached
<1> QED
  BY <1>4, <1>5, <1>6, <1>7, <1>8, PlaceElsewhere

LEMMA PlaceReporting ==
  ASSUME GridInv, DriversInv, PlaceInv, NEW o \in DriverObj, Reporting(o)
  PROVE  PlaceInv'
<1> DEFINE w == host[o]
<1>1. /\ host[o] # None /\ process[w] = "up" /\ RunnerReports(o)
      /\ UNCHANGED <<memoryVars, toWorker, lostAtMaster>>
  BY DEF Reporting, RunnerReports, WorkerAlone, masterVars, channelVars, networkVars
<1>2. WorkerTypeOK /\ Links /\ o.id \in DriverId
  BY ObjectTypes DEF GridInv, WorkerInv, PlaceInv
<1>3. w \in WorkerId
  BY <1>1, <1>2 DEF WorkerTypeOK
<1>4. PICK st \in SparkState \cup {"ERROR"} :
        /\ handleDriverStateChanged(w, o.id, st)
        /\ \/ ~ isFinished(st) /\ UNCHANGED spark
           \/ isFinished(st) /\ spark' = [spark EXCEPT ![o] = "reported"]
  BY <1>1 DEF RunnerReports, isFinished, FinishedState
<1> DEFINE m == [type |-> "DriverStateChanged", to |-> wmaster[w], id |-> o.id, state |-> st]
<1>5. /\ UNCHANGED <<process, wmaster, host>>
      /\ runners' = IF isFinished(st) THEN [runners EXCEPT ![w][o.id] = None] ELSE runners
      /\ sendToMaster(w, m)
  BY <1>4 DEF handleDriverStateChanged, registrationVars
<1>6. /\ m.type = "DriverStateChanged" /\ m.to = wmaster[w] /\ m.id = o.id /\ m.state = st
  OBVIOUS
<1>7. wmaster[w] # None => m \in FromWorkerMsg
  <2> SUFFICES ASSUME wmaster[w] # None PROVE m \in FromWorkerMsg
    OBVIOUS
  <2>1. wmaster[w] \in Nat
    BY <1>2, <1>3 DEF WorkerTypeOK
  <2> QED
    BY <1>2, <2>1, FromWorkerTypes
<1> HIDE DEF m
<1>8. /\ w \in WorkerId /\ host[o] = w /\ process[w] = "up" /\ UNCHANGED <<process, wmaster, host, lostAtMaster>>
      /\ UNCHANGED <<memoryVars, toWorker>>
  BY <1>1, <1>3, <1>5
<1>9. RunnersThere'
  <2>1. CASE isFinished(st)
    <3>1. /\ runners' = [runners EXCEPT ![w][o.id] = None]
          /\ spark' = [spark EXCEPT ![o] = "reported"] /\ RunnersThere
      BY <1>2, <1>4, <1>5, <2>1 DEF Links
    <3> HIDE DEF w
    <3> QED
      BY <1>2, <1>8, <3>1, RunnerForgotten
  <2>2. CASE ~ isFinished(st)
    <3>1. UNCHANGED <<runners, spark, host>>
      BY <1>4, <1>5, <2>2
    <3> QED
      BY <1>2, <3>1 DEF Links, RunnersThere
  <2> QED
    BY <2>1, <2>2
<1>10. /\ \A x \in DriverObj \ {o} : spark'[x] = spark[x]
       /\ spark'[o] = spark[o] \/ isFinished(st)
  BY <1>2, <1>4 DEF WorkerTypeOK
<1>11. CASE wmaster[w] = None
  <2>1. toMaster' = toMaster
    BY <1>5, <1>11 DEF sendToMaster
  <2> HIDE DEF w
  <2> QED
    BY <1>8, <1>9, <1>10, <1>11, <2>1, PlaceUnheard
<1>12. CASE wmaster[w] # None
  <2>1. toMaster' = SendTo(toMaster, w, m) /\ m \in FromWorkerMsg
    BY <1>5, <1>7, <1>12 DEF sendToMaster
  <2>2. \A x \in DriverObj : spark'[x] = "reported" =>
          \/ spark[x] = "reported"
          \/ host[x] = w /\ m.type = "DriverStateChanged" /\ m.id = x.id /\ isFinished(m.state)
    BY <1>6, <1>8, <1>10
  <2> HIDE DEF w
  <2> QED
    BY <1>6, <1>8, <1>9, <2>1, <2>2, PlaceSaid
<1> QED
  BY <1>11, <1>12

LEMMA PlaceRunners ==
  ASSUME GridInv, DriversInv, PlaceInv, NEW o \in DriverObj, RunnerStep(o)
  PROVE  PlaceInv'
<1>1. WorkerTypeOK
  BY DEF GridInv, WorkerInv
<1>2. CASE RunnerStarting(o) \/ SparkEnding(o)
  <2>1. PICK st \in {"running", "failed", "ended"} : spark' = [spark EXCEPT ![o] = st]
    BY <1>2 DEF RunnerStarting, RunnerStarts, SparkEnding, SparkEnds
  <2>2. \A x \in DriverObj : spark'[x] = "reported" => spark[x] = "reported"
    BY <1>1, <2>1 DEF WorkerTypeOK
  <2>3. /\ UNCHANGED <<memoryVars, toWorker, lostAtMaster>>
        /\ UNCHANGED <<process, wmaster, host, runners, toMaster>>
    BY <1>2 DEF RunnerStarting, RunnerStarts, SparkEnding, SparkEnds, WorkerAlone, masterVars, channelVars,
       networkVars, registrationVars
  <2> QED
    BY <2>2, <2>3, PlaceNothingSaid
<1>3. CASE Reporting(o)
  BY <1>3, PlaceReporting
<1> QED
  BY <1>2, <1>3 DEF RunnerStep

-----------------------------------------------------------------------------
(* What a worker hears from the master                                     *)

LEMMA PlaceTold ==
  ASSUME GridInv, DriversInv, PlaceInv, NEW w \in WorkerId, UNCHANGED memoryVars,
         toWorker[w] # <<>>, toWorker' = [toWorker EXCEPT ![w] = Tail(@)],
         Reachable' \subseteq Reachable, Adopted \subseteq Adopted',
         \A o \in DriverObj : \A v \in There[o] : v \in Reachable' => v \in There'[o],
         w \in Reachable' =>
           /\ Adopts(Head(toWorker[w])) => w \in Adopted'
           /\ \A o \in DriverObj : Head(toWorker[w]) = Launch(o) /\ w \in Adopted => w \in There'[o],
         Addressed', RunnersThere', AnswersTrue', Silent'
  PROVE  PlaceInv'
<1>1. UNCHANGED <<epoch, workers, wstate, drivers, dworker, submitted>>
  BY DEF memoryVars, workerVars, driverVars
<1>2. toWorker \in [WorkerId -> Seq(ToWorkerMsg)] /\ \A v \in Reachable' : v \in WorkerId
  BY ChannelTypes DEF DriversInv, Reachable
<1>3. toWorker'[w] = Tail(toWorker[w]) /\ \A v \in WorkerId \ {w} : toWorker'[v] = toWorker[v]
  BY <1>2
<1>4. HearsLeader'
  <2>1. \A i \in 1..Len(Tail(toWorker[w])) :
          i + 1 \in 1..Len(toWorker[w]) /\ Tail(toWorker[w])[i] = toWorker[w][i + 1]
    BY <1>2, ToldRest
  <2>2. ASSUME NEW v \in WorkerId, NEW i \in 1..Len(toWorker'[v])
        PROVE  \E j \in 1..Len(toWorker[v]) : toWorker'[v][i] = toWorker[v][j]
    <3>1. CASE v = w
      BY <1>3, <2>1, <3>1
    <3>2. CASE v # w
      BY <1>3, <3>2
    <3> QED
      BY <3>1, <3>2
  <2> QED
    BY <1>1, <2>2, HearsLess DEF PlaceInv, Links
<1>5. Links'
  BY <1>4 DEF Links
<1>6. \A v \in Reachable' :
        \/ toWorker'[v] = toWorker[v]
        \/ /\ toWorker[v] # <<>> /\ toWorker'[v] = Tail(toWorker[v])
           /\ Adopts(Head(toWorker[v])) => v \in Adopted'
           /\ \A o \in DriverObj : Head(toWorker[v]) = Launch(o) /\ v \in Adopted => v \in There'[o]
  BY <1>2, <1>3
<1>7. \A v \in Reachable' : v \in idToWorker => v \in Reachable
  OBVIOUS
<1> QED
  BY <1>1, <1>5, <1>6, <1>7, WorkersKeep

\* A worker does nothing that matters with what it hears.
LEMMA PlaceToldNothing ==
  ASSUME GridInv, DriversInv, PlaceInv, NEW w \in WorkerId, UNCHANGED memoryVars,
         toWorker[w] # <<>>, toWorker' = [toWorker EXCEPT ![w] = Tail(@)],
         UNCHANGED <<process, wmaster, host, runners, toMaster>>, lostAtMaster \subseteq lostAtMaster',
         \A o \in DriverObj : spark'[o] = "reported" => spark[o] = "reported",
         process[w] = "up" => Head(toWorker[w]).type \notin {"RegisteredWorker", "MasterChanged", "LaunchDriver"}
  PROVE  PlaceInv'
<1>1. WorkerTypeOK /\ Links
  BY DEF GridInv, WorkerInv, PlaceInv
<1>2. UNCHANGED <<epoch, wmaster, host, runners, toMaster>> /\ Lists({})
  BY DEF memoryVars, workerVars, persistedVars, Lists
<1>3. /\ Addressed' /\ RunnersThere' /\ AnswersTrue'
      /\ \A o \in DriverObj : There[o] \subseteq There'[o]
  BY <1>1, <1>2, SaidSame DEF Links
<1>4. Silent'
  BY <1>1, <1>2, SilentStays DEF Links
<1>5. Reachable' \subseteq Reachable /\ Adopted \subseteq Adopted'
  BY <1>2, FewerReached DEF Adopted
<1>6. w \in Reachable' => ~ Adopts(Head(toWorker[w])) /\ \A o \in DriverObj : Head(toWorker[w]) # Launch(o)
  BY DEF Reachable, Adopts, Launch
<1> QED
  BY <1>3, <1>4, <1>5, <1>6, PlaceTold

\* A worker adopts the master and tells it of its drivers.
LEMMA PlaceAdopts ==
  ASSUME GridInv, DriversInv, PlaceInv, NEW w \in WorkerId, UNCHANGED memoryVars,
         toWorker[w] # <<>>, toWorker' = [toWorker EXCEPT ![w] = Tail(@)],
         Adopts(Head(toWorker[w])), process[w] = "up", lostAtMaster \subseteq lostAtMaster',
         UNCHANGED <<process, host, runners, spark>>,
         wmaster' = [wmaster EXCEPT ![w] = Head(toWorker[w]).master],
         NEW t \in {"WorkerLatestState", "WorkerSchedulerStateResponse"},
         toMaster' = SendTo(toMaster, w, [type |-> t, to |-> Head(toWorker[w]).master, ids |-> DriverIds(w)])
  PROVE  PlaceInv'
<1>1. WorkerTypeOK /\ Links /\ epoch \in Nat /\ toWorker \in [WorkerId -> Seq(ToWorkerMsg)]
  BY ChannelTypes DEF GridInv, WorkerInv, PlaceInv, DriversInv
<1>2. epoch' = epoch /\ Lists({})
  BY DEF memoryVars, workerVars, persistedVars, Lists
<1>3. Head(toWorker[w]).master = epoch
  <2>1. 1 \in 1..Len(toWorker[w]) /\ toWorker[w][1] = Head(toWorker[w])
    BY <1>1, ToldRest
  <2> QED
    BY <1>1, <2>1 DEF Links, HearsLeader
<1> DEFINE m == [type |-> t, to |-> epoch, ids |-> DriverIds(w)]
<1>4. m \in FromWorkerMsg /\ m.type = t /\ m.to = epoch /\ m.ids = DriverIds(w)
  <2>1. DriverIds(w) \in SUBSET DriverId
    BY DEF DriverIds
  <2> QED
    BY <1>1, <2>1, FromWorkerTypes
<1>5. toMaster' = SendTo(toMaster, w, m)
  BY <1>3
<1> HIDE DEF m
<1>6. wmaster'[w] = epoch /\ \A v \in WorkerId \ {w} : wmaster'[v] = wmaster[v]
  BY <1>1, <1>3 DEF WorkerTypeOK
<1>7. \A d \in m.ids : \E x \in DriverObj : x.id = d /\ host[x] = w /\ spark'[x] # "reported"
  <2> SUFFICES ASSUME NEW d \in DriverIds(w)
               PROVE  \E x \in DriverObj : x.id = d /\ host[x] = w /\ spark[x] # "reported"
    BY <1>4
  <2>1. d \in DriverId /\ runners[w][d] # None
    BY DEF DriverIds
  <2>2. /\ runners[w][d] \in DriverObj /\ runners[w][d].id = d /\ host[runners[w][d]] = w
        /\ spark[runners[w][d]] # "reported"
    BY <1>1, <2>1 DEF WorkerTypeOK, Links, RunnersThere
  <2> QED
    BY <2>2
<1>8. /\ Addressed' /\ AnswersTrue'
      /\ \A o \in DriverObj : There[o] \subseteq There'[o]
  <2>1. Addressed /\ AnswersTrue
    BY <1>1 DEF Links
  <2>2. /\ m.type # "RegisterWorker" => m.to = wmaster'[w]
        /\ wmaster'[w] = wmaster[w] \/ wmaster'[w] = epoch
        /\ m.type = "WorkerSchedulerStateResponse" =>
             \A d \in m.ids : \E x \in DriverObj : x.id = d /\ host[x] = w /\ spark'[x] # "reported"
    BY <1>4, <1>6, <1>7
  <2>3. \A o \in DriverObj : spark'[o] = "reported" =>
          \/ spark[o] = "reported"
          \/ host[o] = w /\ m.type = "DriverStateChanged" /\ m.id = o.id /\ isFinished(m.state)
    OBVIOUS
  <2> QED
    BY <1>1, <1>2, <1>4, <1>5, <1>6, <2>1, <2>2, <2>3, SaidOne
<1>9. RunnersThere'
  BY <1>1 DEF Links, RunnersThere
<1>10. Silent'
  <2>1. \A v \in WorkerId \ {w} : toMaster'[v] = toMaster[v]
    BY <1>1, <1>5 DEF WorkerTypeOK, SendTo
  <2> QED
    BY <1>1, <1>2, <2>1, SilentStays DEF Links
<1>11. Reachable' \subseteq Reachable /\ Adopted \subseteq Adopted' /\ w \in Adopted'
  BY <1>2, <1>6, FewerReached DEF Adopted
<1>12. \A o \in DriverObj : Head(toWorker[w]) # Launch(o)
  BY DEF Adopts, Launch
<1> QED
  BY <1>8, <1>9, <1>10, <1>11, <1>12, PlaceTold

LEMMA PlaceLaunched ==
  ASSUME GridInv, DriversInv, OnceInv, PlaceInv, NEW w \in WorkerId, UNCHANGED memoryVars,
         toWorker[w] # <<>>, toWorker' = [toWorker EXCEPT ![w] = Tail(@)],
         Head(toWorker[w]).type = "LaunchDriver", LaunchDriver(w, Head(toWorker[w]).driver),
         lostAtMaster \subseteq lostAtMaster'
  PROVE  PlaceInv'
<1> DEFINE o == Head(toWorker[w]).driver
<1>1. WorkerTypeOK /\ Links /\ toWorker \in [WorkerId -> Seq(ToWorkerMsg)]
  BY ChannelTypes DEF GridInv, WorkerInv, PlaceInv, DriversInv
<1>2. epoch' = epoch /\ Lists({})
  BY DEF memoryVars, workerVars, persistedVars, Lists
<1>3. Head(toWorker[w]) \in ToWorkerMsg /\ 1 \in 1..Len(toWorker[w]) /\ toWorker[w][1] = Head(toWorker[w])
  BY <1>1, ToldRest
<1>4. o \in DriverObj /\ Head(toWorker[w]) = Launch(o)
  BY <1>3, LaunchMessage
<1> HIDE DEF o
<1>5. host[o] = None
  <2>1. LaunchedIn(toWorker, o)
    BY <1>3, <1>4 DEF LaunchedIn
  <2> QED
    BY <1>4, <2>1 DEF OnceInv, Once
<1>6. LaunchDriver(w, o)
  BY DEF o
<1>7. /\ Addressed' /\ RunnersThere' /\ AnswersTrue'
      /\ \A x \in DriverObj : There[x] \subseteq There'[x]
      /\ w \in Adopted => w \in There'[o]
  BY <1>1, <1>2, <1>4, <1>5, <1>6, SaidLaunched DEF Links
<1>8. UNCHANGED <<process, wmaster, toMaster>>
  BY <1>6 DEF LaunchDriver, registrationVars
<1>9. Silent'
  BY <1>1, <1>2, <1>8, SilentStays DEF Links
<1>10. Reachable' \subseteq Reachable /\ Adopted \subseteq Adopted'
  BY <1>2, <1>8, FewerReached DEF Adopted
<1>11. ~ Adopts(Head(toWorker[w])) /\ \A x \in DriverObj : Head(toWorker[w]) = Launch(x) => x = o
  BY <1>4, LaunchFields DEF Adopts
<1> QED
  BY <1>7, <1>9, <1>10, <1>11, PlaceTold

LEMMA PlaceToWorker ==
  ASSUME GridInv, DriversInv, OnceInv, PlaceInv, NEW w \in WorkerId, DeliverToWorker(w)
  PROVE  PlaceInv'
<1> DEFINE m == Head(toWorker[w])
<1> USE DEF workerActorVars, registrationVars, runnerVars
<1>1. /\ UNCHANGED memoryVars /\ toWorker[w] # <<>> /\ toWorker' = [toWorker EXCEPT ![w] = Tail(@)]
      /\ lostAtMaster \subseteq lostAtMaster'
      /\ \/ process[w] = "up" /\ FromMaster(w, m)
         \/ process[w] # "up" /\ UNCHANGED workerActorVars
  BY LostGrows DEF DeliverToWorker, ExitNoticed
<1>2. WorkerTypeOK /\ Links
  BY DEF GridInv, WorkerInv, PlaceInv
<1>3. CASE process[w] # "up"
  <2>1. UNCHANGED <<process, wmaster, host, runners, toMaster>> /\ UNCHANGED spark
    BY <1>1, <1>3
  <2> QED
    BY <1>1, <1>3, <2>1, PlaceToldNothing
<1>4. CASE process[w] = "up" /\ m.type = "RegisteredWorker" /\ RegisteredWorker(w, m.master)
  <2>1. /\ UNCHANGED <<process, host, runners, spark>> /\ wmaster' = [wmaster EXCEPT ![w] = m.master]
        /\ toMaster' = SendTo(toMaster, w, [type |-> "WorkerLatestState", to |-> m.master, ids |-> DriverIds(w)])
        /\ Adopts(m)
    BY <1>4 DEF RegisteredWorker, changeMaster, Send, Adopts
  <2> QED
    BY <1>1, <1>4, <2>1, PlaceAdopts
<1>5. CASE process[w] = "up" /\ m.type = "MasterChanged" /\ MasterChanged(w, m.master)
  <2>1. /\ UNCHANGED <<process, host, runners, spark>> /\ wmaster' = [wmaster EXCEPT ![w] = m.master]
        /\ toMaster' = SendTo(toMaster, w, [type |-> "WorkerSchedulerStateResponse", to |-> m.master,
                                            ids |-> DriverIds(w)])
        /\ Adopts(m)
    BY <1>5 DEF MasterChanged, changeMaster, Send, Adopts
  <2> QED
    BY <1>1, <1>5, <2>1, PlaceAdopts
<1>6. CASE m.type = "RegisterWorkerFailed" /\ registered[w] /\ RegisterWorkerFailed(w)
  <2>1. UNCHANGED <<process, wmaster, host, runners, toMaster>> /\ UNCHANGED spark
    BY <1>6 DEF RegisterWorkerFailed
  <2> QED
    BY <1>1, <1>6, <2>1, PlaceToldNothing
<1>7. CASE process[w] = "up" /\ m.type = "RegisterWorkerFailed" /\ ~ registered[w] /\ RegisterWorkerFailed(w)
  <2>1. /\ process' = [process EXCEPT ![w] = "exited"] /\ toMaster' = [toMaster EXCEPT ![w] = <<>>]
        /\ UNCHANGED <<wmaster, runners, host>>
    BY <1>7 DEF RegisterWorkerFailed, gracefullyShutdown
  <2>2. spark' = spark
    BY <1>2, <1>7 DEF RegisterWorkerFailed, gracefullyShutdown, appMasterInWorker, WorkerTypeOK
  <2>3. epoch' = epoch /\ Lists({})
    BY <1>1 DEF memoryVars, workerVars, persistedVars, Lists
  <2>4. /\ Reachable' \subseteq Reachable /\ w \notin Reachable'
        /\ Addressed' /\ RunnersThere' /\ AnswersTrue' /\ Silent'
        /\ \A o \in DriverObj : \A v \in There[o] : v \in Reachable' => v \in There'[o]
    BY <1>1, <1>2, <1>7, <2>1, <2>2, <2>3, WorkerGone
  <2>5. Adopted \subseteq Adopted'
    BY <2>1, <2>3 DEF Adopted
  <2> QED
    BY <1>1, <2>4, <2>5, PlaceTold
<1>8. CASE \/ m.type = "MasterInStandby" /\ MasterInStandby(w)
           \/ m.type = "ReconnectWorker" /\ ReconnectWorker(w)
           \/ m.type = "KillDriver" /\ KillDriver(w, m.id)
  <2>1. /\ UNCHANGED <<process, wmaster, host, runners, toMaster>>
        /\ m.type \notin {"RegisteredWorker", "MasterChanged", "LaunchDriver"}
    BY <1>8 DEF MasterInStandby, ReconnectWorker, KillDriver
  <2>2. \A o \in DriverObj : spark'[o] = "reported" => spark[o] = "reported"
    BY <1>8 DEF MasterInStandby, ReconnectWorker, KillDriver
  <2> QED
    BY <1>1, <2>1, <2>2, PlaceToldNothing
<1>9. CASE m.type = "LaunchDriver" /\ LaunchDriver(w, m.driver)
  BY <1>1, <1>9, PlaceLaunched
<1> QED
  BY <1>1, <1>3, <1>4, <1>5, <1>6, <1>7, <1>8, <1>9 DEF FromMaster

-----------------------------------------------------------------------------
(* The invariant                                                           *)

LEMMA PlaceInit == GridInit => PlaceInv
<1> SUFFICES ASSUME GridInit PROVE PlaceInv
  OBVIOUS
<1>1. /\ toWorker = [w \in WorkerId |-> <<>>] /\ toMaster = [w \in WorkerId |-> <<>>]
      /\ runners = [w \in WorkerId |-> [d \in DriverId |-> None]]
      /\ workers = {} /\ drivers = {} /\ idToWorker = {} /\ pworkers = {}
  BY DEF GridInit, MasterInit, EmptyMemory, ChannelInit, WorkerInit
<1>2. \A w \in WorkerId : 1..Len(toWorker[w]) = {} /\ 1..Len(toMaster[w]) = {}
  BY <1>1, EmptySeq
<1>3. Links
  BY <1>1, <1>2 DEF Links, HearsLeader, Addressed, RunnersThere, AnswersTrue, Silent
<1>4. Before(Reachable, Adopted, There)
  BY <1>1 DEF Before, AliveToldIn, PlacedIn
<1> QED
  BY <1>3, <1>4 DEF PlaceInv

LEMMA PlaceInvStep ==
  ASSUME GridInv, DriversInv, DriversInv', OnceInv, PlaceInv, [GridNext]_vars
  PROVE  PlaceInv'
<1>1. CASE UNCHANGED vars \/ ClientStep
  BY <1>1, PlaceMasterSteps
<1>2. CASE MasterStep
  BY <1>2, PlaceMasterSteps, PlaceMasterLoses, PlaceMasterFails DEF MasterStep
<1>3. ASSUME NEW w \in WorkerId, WorkerStep(w) PROVE PlaceInv'
  <2>1. CASE Ageing(w) \/ TimeOut(w)
    BY <2>1, PlaceMasterSteps
  <2>2. CASE DeliverFromWorker(w) \/ DeliverToWorker(w)
    BY <2>2, PlaceFromWorker, PlaceToWorker
  <2>3. CASE Starting(w) \/ Registering(w) \/ Beating(w)
    BY <2>3, PlaceStarting, PlaceRegistering, PlaceBeating
  <2>4. CASE BreakWorker(w) \/ KillWorker(w) \/ \E e \in 1..MaxEpoch : WorkerLoses(w, e)
    BY <2>4, PlaceBreakWorker, PlaceKillWorker, PlaceWorkerLoses
  <2> QED
    BY <1>3, <2>1, <2>2, <2>3, <2>4 DEF WorkerStep
<1>4. ASSUME NEW o \in DriverObj, RunnerStep(o) PROVE PlaceInv'
  BY <1>4, PlaceRunners
<1>5. ASSUME NEW p \in AppProc, AppStep(p) PROVE PlaceInv'
  <2>1. CASE DeliverFromApp(p)
    BY <2>1, PlaceMasterSteps
  <2>2. CASE ~ DeliverFromApp(p)
    BY <1>5, <2>2, PlaceApps
  <2> QED
    BY <2>1, <2>2
<1> QED
  BY <1>1, <1>2, <1>3, <1>4, <1>5 DEF GridNext

\* The invariant holds in every state the grid can reach.
THEOREM PlaceInvariant == GridSpec => []PlaceInv
<1>1. GridInit => PlaceInv
  BY PlaceInit
<1>2. GridInv /\ DriversInv /\ DriversInv' /\ OnceInv /\ PlaceInv /\ [GridNext]_vars => PlaceInv'
  BY PlaceInvStep
<1> QED
  BY <1>1, <1>2, GridInvariant, GridMasterInvariant, OnceInvariant, PTL DEF GridSpec

\* What the master believes of its workers is true: a driver it has placed on a worker that
\* runs and with which it has nothing left to exchange is there, and its end has not been
\* reported, whatever messages, reports and connections were lost before.
THEOREM DriversAreReal == GridSpec => []NoPhantomDriver
<1>1. ASSUME DriversInv, WorkerTypeOK, PlaceInv PROVE NoPhantomDriver
  <2> SUFFICES ASSUME NEW o \in drivers, NEW w \in WorkerId,
                      submitted[o.id] = 1, dworker[o] = Ref(w), process[w] = "up", Quiet(w)
               PROVE  host[o] = w /\ spark[o] # "reported"
    BY DEF NoPhantomDriver
  <2>1. w \in Reachable /\ o \in DriverObj
    BY <1>1, DriverTypes DEF Reachable, Quiet, DriversInv
  <2>2. 1..Len(toWorker[w]) = {} /\ 1..Len(toMaster[w]) = {}
    BY EmptySeq DEF Quiet
  <2>3. w \in There[o]
    BY <1>1, <2>1, <2>2 DEF PlaceInv, Before, PlacedIn
  <2>4. host[o] = w /\ (spark[o] # "reported" \/ Says(toMaster[w], 0, epoch, o.id))
    BY <2>1, <2>3 DEF There
  <2> QED
    BY <2>2, <2>4 DEF Says
<1>2. GridInv => WorkerTypeOK
  BY DEF GridInv, WorkerInv
<1> QED
  BY <1>1, <1>2, GridInvariant, GridMasterInvariant, PlaceInvariant, PTL

-----------------------------------------------------------------------------
(* Whom the master knows.                                                  *)
(*                                                                         *)
(* A worker that has stopped trying to register follows the leader, or is  *)
(* about to notice that its master has gone.  That the leader knows it is  *)
(* true as long as the leader forgets nobody: no heartbeat is so late that *)
(* a DEAD worker is dropped, and the actor is not restarted by a driver    *)
(* whose node is missing, as one of two drivers of an id may be.           *)

\* No driver id has been submitted twice.
NoneTwice == \A d \in DriverId : submitted[d] <= 1

\* Nothing has happened by which a leader forgets a worker.
Regular == MaxAge <= 1 /\ NoneTwice

\* A message that makes worker w adopt its sender is on its way.
Called(net, w) == \E i \in 1..Len(net[w]) : Adopts(net[w][i])

\* From net to net2 no such message has been sent.
Mute(net, net2) == \A w \in WorkerId : Called(net2, w) => Called(net, w)

Follows ==
  \A w \in WorkerId :
    /\ wmaster[w] # None => wmaster[w] <= epoch
    /\ scheduling[w] => ~ registered[w]
    /\ process[w] = "up" /\ ~ scheduling[w] =>
         connected[w] /\ (wmaster[w] = epoch \/ wmaster[w] \in lostAtWorker[w])

\* One process runs on an address.
Alone ==
  \A v, w \in WorkerId :
    process[v] = "up" /\ process[w] = "up" /\ workerAddress[v] = workerAddress[w] => v = w

\* The master's workers are W, of which I are registered, with heartbeats of ages hb; net is
\* what it has sent.  A process that has not started is unknown; one whose address is
\* registered for another is unknown; and one that follows the master, or will, is known.
KnownIn(W, I, hb, net) ==
  /\ \A w \in WorkerId : hb[w] <= MaxAge
  /\ \A w \in WorkerId : process[w] = "new" => w \notin W /\ wmaster[w] = None /\ ~ Called(net, w)
  /\ \A v, w \in WorkerId :
       process[w] = "up" /\ v \in I /\ workerAddress[v] = workerAddress[w] /\ v # w => w \notin W
  /\ Regular =>
       \A w \in WorkerId : process[w] = "up" /\ (wmaster[w] = epoch \/ Called(net, w)) => w \in W

\* The inductive invariant.
KnownInv == Follows /\ Alone /\ KnownIn(workers, idToWorker, lastHeartbeat, toWorker)

\* A step of the master that knows the same workers afterwards, and registers no other.
Steady ==
  /\ epoch' = epoch
  /\ workers' = workers /\ idToWorker' \subseteq idToWorker
  /\ \A w \in WorkerId : lastHeartbeat'[w] = lastHeartbeat[w] \/ lastHeartbeat'[w] = Fresh
  /\ Mute(toWorker, toWorker')

\* A step in which the actor is restarted, which takes a second driver of one id.
Restarted == epoch' = epoch /\ ForgetMemory /\ toWorker' = toWorker /\ ~ NoneTwice

LEMMA MuteLonger ==
  ASSUME NEW net, NEW net2, Longer(net, net2, 0), Longer(net, net2, 1)
  PROVE  Mute(net, net2)
BY DEF Longer, Mute, Called

LEMMA MuteSent ==
  ASSUME NEW net \in [WorkerId -> Seq(ToWorkerMsg)], NEW w \in WorkerId, NEW m \in ToWorkerMsg, ~ Adopts(m)
  PROVE  Mute(net, SendTo(net, w, m))
BY LongerSent, MuteLonger

\* schedule() makes nobody adopt the master.
LEMMA MuteScheduled ==
  ASSUME NEW called, NEW q \in Seq(DriverObj), NEW ds, NEW dw, NEW wd,
         NEW net \in [WorkerId -> Seq(ToWorkerMsg)], MasterInv', Schedule(called, q, ds, dw, wd, net)
  PROVE  Mute(net, toWorker')
<1>1. workers' \subseteq WorkerId /\ toWorker' \in [WorkerId -> Seq(ToWorkerMsg)]
  BY DEF MasterInv, MasterTypeOK, ChannelTypeOK, WorkersTypeOK
<1>2. ASSUME NEW e PROVE Longer(net, toWorker', e)
  <2> DEFINE none == {}
  <2>1. none \in SUBSET DriverObj /\ none \in SUBSET WorkerId
    OBVIOUS
  <2>2. /\ AliveToldIn(workers', wstate', net, none, none)
        /\ PlacedIn(none, dw, submitted, net, none, none, none)
    BY DEF AliveToldIn, PlacedIn
  <2> HIDE DEF none
  <2> QED
    BY <1>1, <2>1, <2>2, PlacedScheduled
<1> QED
  BY <1>2, MuteLonger

\* Where each id is submitted once, no node is missing.
LEMMA NodeMissing ==
  ASSUME DriversInv, NEW gone \in SUBSET drivers, NoNode(gone)
  PROVE  ~ NoneTwice
<1>1. PICK o \in drivers : Zk /\ pdrivers[o.id] = None
  BY DEF NoNode
<1>2. /\ o \in DriverObj /\ o # None /\ o.id \in DriverId /\ o.seq \in Nat /\ o.seq >= 1
      /\ submitted[o.id] \in Nat /\ submitted[o.id] <= MaxSubmit /\ o.seq <= submitted[o.id]
      /\ MaxSubmit \in Nat
  BY DriverTypes, ObjectTypes, ConstantsAssumption DEF DriversInv, KnownSubmitted
<1>3. state # "STANDBY"
  BY DEF DriversInv, MasterInv, StandbyEmpty
<1>4. submitted[o.id] # 1
  BY <1>1, <1>2, <1>3 DEF DriversInv, PersistedDriversMatch
<1> QED
  BY <1>2, <1>4 DEF NoneTwice

LEMMA RestartedByRemoval ==
  ASSUME DriversInv, NEW gone \in SUBSET drivers, NoNode(gone), RemovalThrows(gone)
  PROVE  Restarted
BY NodeMissing DEF RemovalThrows, RestartActor, Restarted

LEMMA SteadyScheduled ==
  ASSUME DriversInv, MasterInv', NEW called, NEW ds, NEW dw, NEW wd, NEW q \in Seq(DriverObj),
         Schedule(called, q, ds, dw, wd, toWorker), UNCHANGED <<epoch, workers, lastHeartbeat>>,
         idToWorker' \subseteq idToWorker
  PROVE  Steady
<1>1. Mute(toWorker, toWorker')
  BY ChannelTypes, MuteScheduled DEF DriversInv
<1> QED
  BY <1>1 DEF Steady

LEMMA SteadySame ==
  ASSUME UNCHANGED <<epoch, workers, lastHeartbeat, toWorker>>, idToWorker' \subseteq idToWorker
  PROVE  Steady
BY DEF Steady, Mute, Called

LEMMA SteadyAnswer ==
  ASSUME DriversInv, NEW w \in WorkerId, NEW m \in ToWorkerMsg, ~ Adopts(m),
         toWorker' = SendTo(toWorker, w, m), UNCHANGED <<epoch, workers, lastHeartbeat, idToWorker>>
  PROVE  Steady
BY ChannelTypes, MuteSent DEF DriversInv, Steady

LEMMA SteadyRemoveAll ==
  ASSUME DriversInv, MasterInv', NEW R, NEW A, NEW s, RemoveAll(R, A, s)
  PROVE  Steady \/ Restarted
<1>1. PICK gone \in SUBSET drivers :
        \/ NoNode(gone) /\ RemovalThrows(gone)
        \/ /\ idToWorker' = idToWorker \ R /\ UNCHANGED <<epoch, workers, lastHeartbeat>>
           /\ Schedule(gone # {} \/ s # state, waitingDrivers,
                       dstateAfter(gone, "ERROR"), dworker, wdriversAfter(gone), toWorker)
  BY DEF RemoveAll, Found
<1>2. CASE NoNode(gone) /\ RemovalThrows(gone)
  BY <1>2, RestartedByRemoval
<1>3. CASE ~ (NoNode(gone) /\ RemovalThrows(gone))
  <2> DEFINE called == gone # {} \/ s # state
             ds == dstateAfter(gone, "ERROR")
             wd == wdriversAfter(gone)
  <2>1. /\ Schedule(called, waitingDrivers, ds, dworker, wd, toWorker)
        /\ idToWorker' \subseteq idToWorker /\ UNCHANGED <<epoch, workers, lastHeartbeat>>
        /\ waitingDrivers \in Seq(DriverObj)
    BY <1>1, <1>3, DriverTypes DEF DriversInv
  <2> HIDE DEF called, ds, wd
  <2> QED
    BY <2>1, SteadyScheduled
<1> QED
  BY <1>2, <1>3

LEMMA SteadyDrivers ==
  ASSUME DriversInv, MasterInv', NEW d, NEW st, DriverStateChanged(d, st)
  PROVE  Steady \/ Restarted
<1> USE DEF memoryVars, workerVars
<1>1. CASE UNCHANGED <<epoch, workers, lastHeartbeat, idToWorker, toWorker>>
  BY <1>1, SteadySame
<1>2. ASSUME NEW o \in Named(d), NoNode({o}), RestartActor(pdrivers) PROVE Restarted
  <2>1. {o} \in SUBSET drivers
    BY DEF Named
  <2> QED
    BY <1>2, <2>1, NodeMissing DEF RestartActor, Restarted
<1>3. ASSUME NEW o \in Named(d), UNCHANGED <<epoch, workers, lastHeartbeat, idToWorker>>,
             Schedule(TRUE, waitingDrivers, dstateAfter({o}, st), dworker, wdriversAfter({o}), toWorker)
      PROVE  Steady
  <2> DEFINE ds == dstateAfter({o}, st)
             wd == wdriversAfter({o})
  <2>1. Schedule(TRUE, waitingDrivers, ds, dworker, wd, toWorker) /\ waitingDrivers \in Seq(DriverObj)
    BY <1>3, DriverTypes DEF DriversInv
  <2> HIDE DEF ds, wd
  <2> QED
    BY <1>3, <2>1, SteadyScheduled
<1> QED
  BY <1>1, <1>2, <1>3 DEF DriverStateChanged, removeDriver

LEMMA SteadySubmitted ==
  ASSUME DriversInv, MasterInv', NEW d \in DriverId, RequestSubmitDriver(d)
  PROVE  Steady
<1>1. CASE UNCHANGED <<memoryVars, toWorker, toApp>>
  BY <1>1, SteadySame DEF memoryVars, workerVars
<1>2. CASE state = "ACTIVE" /\ submitted[d] < MaxSubmit
  <2> DEFINE q == Append(waitingDrivers, NextOf(d))
  <2>1. /\ UNCHANGED <<epoch, workers, lastHeartbeat, idToWorker>>
        /\ Schedule(TRUE, q, dstate, dworker, wdrivers, toWorker)
    BY <1>2 DEF RequestSubmitDriver, NextOf
  <2>2. NextOf(d) \in DriverObj /\ waitingDrivers \in Seq(DriverObj)
    BY <1>2, FreshObject, DriverTypes DEF DriversInv
  <2>3. q \in Seq(DriverObj)
    BY <2>2, AppendProperties
  <2> HIDE DEF q
  <2> QED
    BY <2>1, <2>3, SteadyScheduled
<1> QED
  BY <1>1, <1>2 DEF RequestSubmitDriver

LEMMA SteadyKill ==
  ASSUME DriversInv, MasterInv', NEW d \in DriverId, RequestKillDriver(d)
  PROVE  Steady
<1>0. /\ UNCHANGED <<epoch, workers, lastHeartbeat, idToWorker>> /\ MasterTypeOK
      /\ drivers \subseteq DriverObj /\ dworker \in [DriverObj -> WorkerRef \cup {None}]
  BY DriverTypes DEF RequestKillDriver, DriversInv, MasterInv, workerVars
<1>1. CASE UNCHANGED toWorker
  BY <1>0, <1>1, SteadySame
<1>2. ASSUME NEW o \in Named(d), dworker[o] # None,
             toWorker' = SendTo(toWorker, dworker[o].id, [type |-> "KillDriver", id |-> d])
      PROVE  Steady
  <2>1. dworker[o].id \in WorkerId
    BY <1>0, <1>2 DEF Named, WorkerRef
  <2> DEFINE m == [type |-> "KillDriver", id |-> d]
  <2>2. m \in ToWorkerMsg /\ ~ Adopts(m) /\ toWorker' = SendTo(toWorker, dworker[o].id, m)
    BY <1>0, <1>2, MessageTypes DEF Adopts
  <2> HIDE DEF m
  <2> QED
    BY <1>0, <2>1, <2>2, SteadyAnswer
<1> QED
  BY <1>1, <1>2 DEF RequestKillDriver

LEMMA SteadyApps ==
  ASSUME DriversInv, MasterInv',
         \/ \E d \in DriverId : ApplicationStateResponse(d)
         \/ \E p \in AppProc : RegisterApplication(p)
  PROVE  Steady
<1>1. ASSUME NEW d \in DriverId, ApplicationStateResponse(d) PROVE Steady
  <2> DEFINE called == state' # state
  <2>1. /\ UNCHANGED <<epoch, workers, lastHeartbeat, idToWorker>> /\ waitingDrivers \in Seq(DriverObj)
        /\ Schedule(called, waitingDrivers, dstate, dworker, wdrivers, toWorker)
    BY <1>1, DriverTypes DEF ApplicationStateResponse, DriversInv
  <2> HIDE DEF called
  <2> QED
    BY <2>1, SteadyScheduled
<1>2. ASSUME NEW p \in AppProc, RegisterApplication(p) PROVE Steady
  BY <1>2, SteadySame DEF RegisterApplication, RegisterApplicationInStandby,
     RegisterApplicationRefused, RegisterApplicationAccepted, memoryVars, workerVars
<1> QED
  BY <1>1, <1>2

LEMMA SteadyHeard ==
  ASSUME DriversInv, MasterInv', NEW w \in WorkerId,
         \/ Heartbeat(w)
         \/ \E ids \in SUBSET DriverId : WorkerSchedulerStateResponse(w, ids) \/ WorkerLatestState(w, ids)
  PROVE  Steady
<1> USE DEF memoryVars, workerVars, channelVars
<1>0. MasterTypeOK /\ waitingDrivers \in Seq(DriverObj)
  BY DriverTypes DEF DriversInv, MasterInv
<1>1. CASE Heartbeat(w)
  <2>1. CASE w \in idToWorker
    <3>1. /\ UNCHANGED <<epoch, workers, idToWorker, toWorker>>
          /\ lastHeartbeat' = [lastHeartbeat EXCEPT ![w] = Fresh] /\ lastHeartbeat \in [WorkerId -> Fresh..Ancient]
      BY <1>0, <1>1, <2>1 DEF Heartbeat, masterVars, MasterTypeOK, WorkersTypeOK
    <3>2. \A v \in WorkerId : lastHeartbeat'[v] = lastHeartbeat[v] \/ lastHeartbeat'[v] = Fresh
      BY <3>1
    <3> QED
      BY <3>1, <3>2 DEF Steady, Mute, Called
  <2>2. CASE w \in workers \ idToWorker
    <3> DEFINE m == [type |-> "ReconnectWorker", master |-> epoch]
    <3>1. m \in ToWorkerMsg /\ ~ Adopts(m) /\ toWorker' = SendTo(toWorker, w, m)
      BY <1>0, <1>1, <2>2, MessageTypes DEF Adopts, Answer, Heartbeat
    <3>2. UNCHANGED <<epoch, workers, lastHeartbeat, idToWorker>>
      BY <1>1, <2>2 DEF Heartbeat
    <3> HIDE DEF m
    <3> QED
      BY <3>1, <3>2, SteadyAnswer
  <2>3. CASE w \notin workers \cup idToWorker
    BY <1>1, <2>3, SteadySame DEF Heartbeat, masterVars
  <2> QED
    BY <2>1, <2>2, <2>3
<1>2. ASSUME NEW ids \in SUBSET DriverId, WorkerSchedulerStateResponse(w, ids) PROVE Steady
  <2>1. PICK found : Schedule(state' # state, waitingDrivers, dstateAfter(found, "RUNNING"),
                       [o \in DriverObj |-> IF o \in found THEN Ref(w) ELSE dworker[o]],
                       [wdrivers EXCEPT ![w] = @ \cup {o.id : o \in found}], toWorker)
    BY <1>2 DEF WorkerSchedulerStateResponse
  <2> DEFINE called == state' # state
             ds == dstateAfter(found, "RUNNING")
             dw == [o \in DriverObj |-> IF o \in found THEN Ref(w) ELSE dworker[o]]
             wd == [wdrivers EXCEPT ![w] = @ \cup {o.id : o \in found}]
  <2>2. Schedule(called, waitingDrivers, ds, dw, wd, toWorker)
    BY <2>1
  <2>3. UNCHANGED <<epoch, workers, lastHeartbeat, idToWorker>>
    BY <1>2 DEF WorkerSchedulerStateResponse
  <2> HIDE DEF called, ds, dw, wd
  <2> QED
    BY <1>0, <2>2, <2>3, SteadyScheduled
<1>3. ASSUME NEW ids \in SUBSET DriverId, WorkerLatestState(w, ids) PROVE Steady
  <2>1. Mute(toWorker, toWorker')
    BY <1>3, LatestLonger, MuteLonger
  <2> QED
    BY <1>3, <2>1 DEF WorkerLatestState, Steady
<1> QED
  BY <1>1, <1>2, <1>3

LEMMA SteadySelf ==
  ASSUME DriversInv, MasterInv', SelfMessage
  PROVE  Steady \/ Restarted
<1>1. toSelf \in Seq(ToSelfMsg) /\ toSelf # <<>>
  BY DEF SelfMessage, DriversInv, MasterInv, MasterTypeOK, ChannelTypeOK
<1>2. Head(toSelf) \in ToSelfMsg
  BY <1>1, HeadTailProperties
<1>3. Head(toSelf).id \in DriverId
  BY <1>2 DEF ToSelfMsg
<1> QED
  BY <1>3, SteadySubmitted, SteadyDrivers DEF SelfMessage

-----------------------------------------------------------------------------
(* What the master knows after its steps                                   *)

KnownAfter == KnownIn(workers', idToWorker', lastHeartbeat', toWorker')

LEMMA KnownSteady ==
  ASSUME KnownInv, Steady
  PROVE  KnownAfter
<1>1. \A w \in WorkerId : lastHeartbeat'[w] <= MaxAge
  BY GridAssumption DEF KnownInv, KnownIn, Steady, Fresh
<1> QED
  BY <1>1 DEF KnownInv, KnownIn, KnownAfter, Steady, Mute

LEMMA KnownRestarted ==
  ASSUME KnownInv, Restarted
  PROVE  KnownAfter
<1>1. \A w \in WorkerId : lastHeartbeat'[w] <= MaxAge
  BY GridAssumption DEF Restarted, ForgetMemory, Fresh
<1>2. workers' = {} /\ idToWorker' = {} /\ toWorker' = toWorker /\ ~ Regular
  BY DEF Restarted, ForgetMemory, Regular
<1> QED
  BY <1>1, <1>2 DEF KnownInv, KnownIn, KnownAfter

LEMMA KnownElected ==
  ASSUME DriversInv, MasterInv', KnownInv, Silent, ElectedLeader
  PROVE  KnownAfter
<1>1. CASE ElectedFresh
  <2>1. Steady
    BY <1>1, SteadySame DEF ElectedFresh, workerVars
  <2> QED
    BY <2>1, KnownSteady
<1>2. CASE beginRecovery
  <2>1. /\ toWorker' = [w \in WorkerId |-> IF w \in pworkers THEN Append(toWorker[w], Changed) ELSE toWorker[w]]
        /\ workers' = workers \cup pworkers /\ idToWorker' = idToWorker \cup pworkers
        /\ lastHeartbeat' = [w \in WorkerId |-> IF w \in pworkers THEN Fresh ELSE lastHeartbeat[w]]
    BY <1>2 DEF beginRecovery, recoverWorkers
  <2>2. workers = {} /\ idToWorker = {}
    BY DEF ElectedLeader, DriversInv, MasterInv, StandbyEmpty
  <2>3. \A w \in WorkerId : lastHeartbeat'[w] <= MaxAge
    BY <2>1, GridAssumption DEF KnownInv, KnownIn, Fresh
  <2>4. \A w \in WorkerId : Called(toWorker', w) => Called(toWorker, w) \/ w \in pworkers
    BY <2>1 DEF Called
  <2>5. \A w \in WorkerId : process[w] = "new" => w \notin pworkers
    BY DEF Silent
  <2>6. \A v, w \in pworkers : workerAddress[v] = workerAddress[w] => v = w
    BY DEF DriversInv, MasterInv, PersistedMatchesRegistered
  <2> QED
    BY <2>1, <2>2, <2>3, <2>4, <2>5, <2>6 DEF KnownInv, KnownIn, KnownAfter
<1> QED
  BY <1>1, <1>2 DEF ElectedLeader

\* Only the worker itself can have its address registered for another, and it is dropped
\* from the list only to be put there again.
LEMMA KnownRegister ==
  ASSUME DriversInv, MasterInv', KnownInv, NEW w \in WorkerId, process[w] = "up", RegisterWorker(w)
  PROVE  KnownAfter
<1> USE DEF memoryVars, workerVars
<1> DEFINE a == workerAddress[w]
<1>0. /\ toWorker \in [WorkerId -> Seq(ToWorkerMsg)] /\ MasterTypeOK /\ MasterInv
      /\ waitingDrivers \in Seq(DriverObj) /\ a \in Addr
      /\ \A v \in idToWorker : v \in workers /\ wstate[v] # "DEAD" /\ addressToWorker[workerAddress[v]] = v
      /\ addressToWorker[a] # None => addressToWorker[a] \in idToWorker /\ workerAddress[addressToWorker[a]] = a
      /\ idToWorker \subseteq WorkerId
  BY DriverTypes, ChannelTypes, ConstantsAssumption
  DEF DriversInv, MasterInv, MasterTypeOK, WorkersTypeOK, WorkerIndexes
<1>1. CASE RegisterWorkerInStandby(w) \/ RegisterWorkerDuplicate(w)
  <2>1. ~ Adopts([type |-> "MasterInStandby"]) /\ ~ Adopts([type |-> "RegisterWorkerFailed"])
    BY DEF Adopts
  <2>2. Steady
    BY <1>0, <1>1, <2>1, MessageTypes, SteadyAnswer
    DEF RegisterWorkerInStandby, RegisterWorkerDuplicate, Answer
  <2> QED
    BY <2>2, KnownSteady
<1>2. CASE RegisterWorkerAddressInUse(w)
  <2> DEFINE m == [type |-> "RegisterWorkerFailed"]
  <2>1. /\ w \notin idToWorker /\ addressToWorker[a] # None /\ workers' = workers \ DeadAt(a)
        /\ UNCHANGED <<idToWorker, lastHeartbeat>> /\ toWorker' = SendTo(toWorker, w, m)
    BY <1>2 DEF RegisterWorkerAddressInUse, Answer
  <2>2. m \in ToWorkerMsg /\ ~ Adopts(m)
    BY <1>0, MessageTypes DEF Adopts
  <2> HIDE DEF m
  <2>3. Mute(toWorker, toWorker')
    BY <1>0, <2>1, <2>2, MuteSent
  <2>4. w \notin workers
    BY <1>0, <2>1 DEF KnownInv, KnownIn
  <2>5. \A v \in workers \cap WorkerId : process[v] = "up" => v \in workers'
    BY <2>1, <2>4 DEF DeadAt, KnownInv, Alone
  <2> QED
    BY <2>1, <2>3, <2>5 DEF KnownInv, KnownIn, KnownAfter, Mute
<1>3. CASE RegisterWorkerAccepted(w)
  <2> DEFINE m == [type |-> "RegisteredWorker", master |-> epoch]
             net == SendTo(toWorker, w, m)
             dw == [o \in DriverObj |-> IF dworker[o] = Ref(w) THEN Replaced(w) ELSE dworker[o]]
             old == {addressToWorker[a]} \ {None}
  <2>1. PICK gone \in SUBSET drivers :
          \/ NoNode(gone) /\ RemovalThrows(gone)
          \/ /\ workers' = (workers \ DeadAt(a)) \cup {w}
             /\ idToWorker' = (idToWorker \ old) \cup {w}
             /\ lastHeartbeat' = [lastHeartbeat EXCEPT ![w] = Fresh]
             /\ Schedule(TRUE, waitingDrivers, dstateAfter(gone, "ERROR"), dw,
                         [wdriversAfter(gone) EXCEPT ![w] = {}], net)
    BY <1>3 DEF RegisterWorkerAccepted, Found
  <2>2. CASE NoNode(gone) /\ RemovalThrows(gone)
    BY <2>2, RestartedByRemoval, KnownRestarted
  <2>3. CASE ~ (NoNode(gone) /\ RemovalThrows(gone))
    <3>1. m \in ToWorkerMsg
      BY <1>0, MessageTypes
    <3> HIDE DEF m
    <3>2. net \in [WorkerId -> Seq(ToWorkerMsg)] /\ \A v \in WorkerId \ {w} : net[v] = toWorker[v]
      BY <1>0, <3>1, SendToType DEF SendTo
    <3> HIDE DEF net
    <3> DEFINE ds == dstateAfter(gone, "ERROR")
               wd == [wdriversAfter(gone) EXCEPT ![w] = {}]
    <3>3. Schedule(TRUE, waitingDrivers, ds, dw, wd, net)
      BY <2>1, <2>3
    <3> HIDE DEF dw, ds, wd
    <3>4. \A v \in WorkerId \ {w} : Called(toWorker', v) => Called(toWorker, v)
      <4>1. Mute(net, toWorker')
        BY <1>0, <3>2, <3>3, MuteScheduled
      <4> QED
        BY <3>2, <4>1 DEF Mute, Called
    <3>5. \A v \in WorkerId : lastHeartbeat'[v] <= MaxAge
      <4>1. lastHeartbeat' = [lastHeartbeat EXCEPT ![w] = 0] /\ MaxAge \in Nat
        BY <2>1, <2>3, GridAssumption DEF Fresh
      <4>2. lastHeartbeat \in [WorkerId -> Fresh..Ancient]
        BY <1>0 DEF MasterTypeOK, WorkersTypeOK
      <4> QED
        BY <4>1, <4>2 DEF KnownInv, KnownIn
    <3>6. \A v \in WorkerId \ {w} : process[v] = "up" => workerAddress[v] # a
      BY DEF KnownInv, Alone
    <3>7. \A v \in WorkerId \ {w} : process[v] = "up" => (v \in workers' <=> v \in workers)
      BY <2>1, <2>3, <3>6 DEF DeadAt
    <3>8. \A v \in WorkerId : process[v] = "new" => v \notin workers' /\ v # w
      BY <2>1, <2>3 DEF KnownInv, KnownIn
    <3>9. ASSUME NEW u \in WorkerId, NEW v \in WorkerId, process[v] = "up", u \in idToWorker',
                 workerAddress[u] = workerAddress[v], u # v
          PROVE  v \notin workers'
      <4>1. CASE u = w
        BY <3>6, <3>9, <4>1
      <4>2. CASE u # w
        <5>1. u \in idToWorker /\ u \notin old
          BY <2>1, <2>3, <3>9, <4>2
        <5>2. v # w
          BY <1>0, <3>9, <5>1, NoneAssumption
        <5> QED
          BY <3>7, <3>9, <5>1, <5>2 DEF KnownInv, KnownIn
      <4> QED
        BY <4>1, <4>2
    <3>10. Regular => \A v \in WorkerId :
             process[v] = "up" /\ (wmaster[v] = epoch \/ Called(toWorker', v)) => v \in workers'
      BY <2>1, <2>3, <3>4, <3>7 DEF KnownInv, KnownIn
    <3>11. \A v \in WorkerId : process[v] = "new" => wmaster[v] = None /\ ~ Called(toWorker', v)
      BY <3>4, <3>8 DEF KnownInv, KnownIn
    <3> QED
      BY <3>5, <3>8, <3>9, <3>10, <3>11 DEF KnownIn, KnownAfter
  <2> QED
    BY <2>1, <2>2, <2>3
<1> QED
  BY <1>1, <1>2, <1>3 DEF RegisterWorker

\* With Regular no heartbeat is old enough for a worker to be dropped.
LEMMA KnownTimeOut ==
  ASSUME DriversInv, MasterInv', KnownInv, NEW w \in WorkerId, CheckForWorkerTimeOut(w)
  PROVE  KnownAfter
<1>1. CASE RemoveAll({w}, {}, state)
  <2>1. Steady \/ Restarted
    BY <1>1, SteadyRemoveAll
  <2> QED
    BY <2>1, KnownSteady, KnownRestarted
<1>2. CASE /\ lastHeartbeat[w] = Ancient /\ workers' = workers \ {w}
           /\ UNCHANGED <<lastHeartbeat, idToWorker, toWorker>>
  <2>1. ~ Regular
    BY <1>2, GridAssumption DEF KnownInv, KnownIn, Ancient, Regular
  <2> QED
    BY <1>2, <2>1 DEF KnownInv, KnownIn, KnownAfter
<1> QED
  BY <1>1, <1>2 DEF CheckForWorkerTimeOut, channelVars

LEMMA KnownAgeing ==
  ASSUME DriversInv, KnownInv, NEW w \in WorkerId, Ageing(w)
  PROVE  KnownAfter
<1>1. /\ lastHeartbeat[w] < MaxAge /\ lastHeartbeat' = [lastHeartbeat EXCEPT ![w] = @ + 1]
      /\ UNCHANGED <<workers, idToWorker, toWorker>>
  BY DEF Ageing, TimePasses, channelVars
<1>2. lastHeartbeat \in [WorkerId -> Nat] /\ MaxAge \in Nat
  BY GridAssumption DEF DriversInv, MasterInv, MasterTypeOK, WorkersTypeOK, Fresh, Ancient
<1>3. \A v \in WorkerId : lastHeartbeat'[v] <= MaxAge
  BY <1>1, <1>2 DEF KnownInv, KnownIn
<1> QED
  BY <1>1, <1>3 DEF KnownInv, KnownIn, KnownAfter

\* Nothing changes at the workers.
LEMMA KnownMaster ==
  ASSUME KnownInv, KnownAfter, UNCHANGED <<process, registrationVars, lostAtWorker, epoch>>,
         Regular' => Regular
  PROVE  KnownInv'
<1> USE DEF registrationVars
<1>1. Follows' /\ Alone'
  BY DEF KnownInv, Follows, Alone
<1>2. KnownIn(workers, idToWorker, lastHeartbeat, toWorker)'
  BY DEF KnownAfter, KnownIn, Called, Adopts
<1> QED
  BY <1>1, <1>2 DEF KnownInv

\* What has been submitted stays so.
LEMMA RegularBefore ==
  ASSUME MasterTypeOK,
         \/ ElectedLeader \/ CompleteRecovery \/ SelfMessage
         \/ \E w : TimePasses(w) \/ CheckForWorkerTimeOut(w) \/ Heartbeat(w) \/ RegisterWorker(w)
         \/ \E w, ids : WorkerSchedulerStateResponse(w, ids) \/ WorkerLatestState(w, ids)
         \/ \E d : RequestSubmitDriver(d) \/ RequestKillDriver(d) \/ ApplicationStateResponse(d)
         \/ \E d, st : DriverStateChanged(d, st)
         \/ \E p : RegisterApplication(p)
         \/ \E a : onDisconnected(a)
         \/ UNCHANGED masterVars
  PROVE  Regular' => Regular
<1> USE DEF memoryVars
<1>0. ASSUME NEW gone, RemovalThrows(gone) PROVE submitted' = submitted
  BY <1>0 DEF RemovalThrows, RestartActor
<1>1. ASSUME NEW R, NEW A, NEW s, RemoveAll(R, A, s) PROVE submitted' = submitted
  BY <1>0, <1>1 DEF RemoveAll
<1>2. ASSUME NEW d, NEW st, DriverStateChanged(d, st) PROVE submitted' = submitted
  BY <1>2 DEF DriverStateChanged, removeDriver, RestartActor
<1>3. ASSUME NEW w, RegisterWorker(w) PROVE submitted' = submitted
  <2>1. CASE RegisterWorkerAccepted(w)
    BY <1>0, <2>1 DEF RegisterWorkerAccepted
  <2>2. CASE RegisterWorkerInStandby(w) \/ RegisterWorkerDuplicate(w) \/ RegisterWorkerAddressInUse(w)
    BY <2>2 DEF RegisterWorkerInStandby, RegisterWorkerDuplicate, RegisterWorkerAddressInUse
  <2> QED
    BY <1>3, <2>1, <2>2 DEF RegisterWorker
<1>4. ASSUME NEW d, RequestSubmitDriver(d)
      PROVE  submitted' = submitted \/ submitted' = [submitted EXCEPT ![d] = @ + 1]
  BY <1>4 DEF RequestSubmitDriver
<1>5. CASE submitted' = submitted \/ \E d : submitted' = [submitted EXCEPT ![d] = @ + 1]
  <2>1. \A d \in DriverId : submitted[d] \in Nat
    BY ConstantsAssumption DEF MasterTypeOK, DriversTypeOK
  <2>2. \A d \in DriverId : submitted'[d] = submitted[d] \/ submitted'[d] = submitted[d] + 1
    BY <1>5 DEF MasterTypeOK, DriversTypeOK
  <2> QED
    BY <2>1, <2>2 DEF Regular, NoneTwice
<1>6. CASE CompleteRecovery \/ SelfMessage \/ \E a : onDisconnected(a)
  BY <1>1, <1>2, <1>4, <1>5, <1>6 DEF CompleteRecovery, SelfMessage, onDisconnected
<1>7. CASE ElectedLeader
  BY <1>5, <1>7 DEF ElectedLeader, ElectedFresh, beginRecovery
<1>8. CASE \E w, ids : WorkerSchedulerStateResponse(w, ids) \/ WorkerLatestState(w, ids)
  BY <1>5, <1>8 DEF WorkerSchedulerStateResponse, WorkerLatestState
<1>9. CASE \E w : TimePasses(w) \/ CheckForWorkerTimeOut(w) \/ Heartbeat(w)
  BY <1>1, <1>5, <1>9 DEF TimePasses, CheckForWorkerTimeOut, Heartbeat, masterVars
<1>10. CASE \E d : RequestKillDriver(d) \/ ApplicationStateResponse(d)
  BY <1>5, <1>10 DEF RequestKillDriver, ApplicationStateResponse
<1>11. CASE \E p : RegisterApplication(p)
  BY <1>5, <1>11 DEF RegisterApplication, RegisterApplicationInStandby, RegisterApplicationRefused,
     RegisterApplicationAccepted
<1>12. CASE UNCHANGED masterVars
  BY <1>5, <1>12 DEF masterVars
<1> QED
  BY <1>2, <1>3, <1>4, <1>5, <1>6, <1>7, <1>8, <1>9, <1>10, <1>11, <1>12

LEMMA KnownMasterActs ==
  ASSUME DriversInv, DriversInv', PlaceInv, KnownInv, UNCHANGED <<process, registrationVars, lostAtWorker>>,
         \/ ElectedLeader \/ CompleteRecovery \/ SelfMessage
         \/ \E a \in Addr : onDisconnected(a)
         \/ \E w \in WorkerId : Ageing(w) \/ CheckForWorkerTimeOut(w)
         \/ \E d \in DriverId : RequestSubmitDriver(d) \/ RequestKillDriver(d) \/ ApplicationStateResponse(d)
         \/ \E p \in AppProc : RegisterApplication(p)
         \/ UNCHANGED masterVars
  PROVE  KnownInv'
<1>1. epoch' = epoch /\ (Regular' => Regular)
  BY EpochStays, RegularBefore DEF Ageing, DriversInv, MasterInv
<1>2. MasterInv' /\ Silent
  BY DEF DriversInv, PlaceInv, Links
<1>3. CASE Steady \/ Restarted
  BY <1>1, <1>3, KnownSteady, KnownRestarted, KnownMaster
<1>4. CASE ElectedLeader
  BY <1>1, <1>2, <1>4, KnownElected, KnownMaster
<1>5. ASSUME NEW w \in WorkerId, Ageing(w) \/ CheckForWorkerTimeOut(w) PROVE KnownInv'
  BY <1>1, <1>2, <1>5, KnownAgeing, KnownTimeOut, KnownMaster
<1>6. CASE CompleteRecovery \/ \E a \in Addr : onDisconnected(a)
  <2>1. PICK R, A, s : RemoveAll(R, A, s)
    BY <1>6 DEF CompleteRecovery, onDisconnected
  <2> QED
    BY <1>2, <1>3, <2>1, SteadyRemoveAll
<1>7. CASE SelfMessage
  BY <1>2, <1>3, <1>7, SteadySelf
<1>8. ASSUME NEW d \in DriverId, RequestSubmitDriver(d) \/ RequestKillDriver(d) PROVE KnownInv'
  BY <1>2, <1>3, <1>8, SteadySubmitted, SteadyKill
<1>9. CASE \/ \E d \in DriverId : ApplicationStateResponse(d)
           \/ \E p \in AppProc : RegisterApplication(p)
  BY <1>2, <1>3, <1>9, SteadyApps
<1>10. CASE UNCHANGED masterVars
  BY <1>3, <1>10, SteadySame DEF masterVars, memoryVars, workerVars, channelVars
<1> QED
  BY <1>4, <1>5, <1>6, <1>7, <1>8, <1>9, <1>10

LEMMA KnownMasterSteps ==
  ASSUME GridInv, DriversInv, DriversInv', PlaceInv, KnownInv,
         \/ UNCHANGED vars \/ Elected \/ Recovered \/ ToItself \/ ClientStep
         \/ \E a \in Addr : MasterLoses(a)
         \/ \E w \in WorkerId : Ageing(w) \/ TimeOut(w)
         \/ \E p \in AppProc : DeliverFromApp(p)
  PROVE  KnownInv'
<1> USE DEF networkVars, workerActorVars
<1>1. CASE UNCHANGED vars
  BY <1>1, KnownMasterActs DEF vars
<1>2. CASE Elected \/ Recovered \/ ToItself \/ \E a \in Addr : MasterLoses(a)
  BY <1>2, KnownMasterActs DEF Elected, Recovered, ToItself, MasterLoses, MasterAlone
<1>3. ASSUME NEW w \in WorkerId, Ageing(w) \/ TimeOut(w) PROVE KnownInv'
  <2>1. UNCHANGED <<process, registrationVars, lostAtWorker>>
    BY <1>3 DEF Ageing, TimeOut, MasterAlone
  <2> QED
    BY <1>3, <2>1, KnownMasterActs DEF TimeOut
<1>4. ASSUME NEW c \in Client, Submit(c) PROVE KnownInv'
  <2>1. /\ pending[c] \in DriverId /\ RequestSubmitDriver(pending[c])
        /\ UNCHANGED <<process, registrationVars, lostAtWorker>>
    BY <1>4 DEF Submit, GridInv, GridTypeOK
  <2> QED
    BY <2>1, KnownMasterActs
<1>5. ASSUME NEW c \in Client, NEW d \in DriverId, AskStatus(c, d) PROVE KnownInv'
  BY <1>5, KnownMasterActs DEF AskStatus
<1>6. ASSUME NEW d \in DriverId, stopApplication(d) PROVE KnownInv'
  BY <1>6, KnownMasterActs DEF stopApplication
<1>7. ASSUME NEW p \in AppProc, DeliverFromApp(p) PROVE KnownInv'
  <2>1. /\ UNCHANGED <<process, registrationVars, lostAtWorker>> /\ appDriver[p] \in DriverId
        /\ RegisterApplication(p) \/ UNCHANGED masterVars \/ ApplicationStateResponse(appDriver[p])
    BY <1>7, ConstantsAssumption DEF DeliverFromApp, FromApplication
  <2> QED
    BY <2>1, KnownMasterActs
<1> QED
  BY <1>1, <1>2, <1>3, <1>4, <1>5, <1>6, <1>7 DEF ClientStep

LEMMA KnownFromWorker ==
  ASSUME GridInv, DriversInv, DriversInv', PlaceInv, KnownInv, NEW w \in WorkerId, DeliverFromWorker(w)
  PROVE  KnownInv'
<1> DEFINE m == Head(toMaster[w])
<1>1. toMaster[w] # <<>> /\ FromWorker(w, m) /\ UNCHANGED <<process, registrationVars, lostAtWorker>>
  BY DEF DeliverFromWorker, networkVars
<1>2. WorkerTypeOK /\ MasterInv' /\ Silent
  BY DEF GridInv, WorkerInv, DriversInv, PlaceInv, Links
<1>3. process[w] = "up" /\ m \in FromWorkerMsg
  BY <1>1, <1>2, Received DEF Silent, WorkerTypeOK
<1>4. epoch' = epoch /\ (Regular' => Regular)
  BY <1>1, EpochStays, RegularBefore DEF FromWorker, DriversInv, MasterInv
<1> HIDE DEF m
<1>5. CASE Steady \/ Restarted
  BY <1>1, <1>4, <1>5, KnownSteady, KnownRestarted, KnownMaster
<1>6. CASE RegisterWorker(w)
  BY <1>1, <1>2, <1>3, <1>4, <1>6, KnownRegister, KnownMaster
<1>7. CASE UNCHANGED masterVars
  BY <1>5, <1>7, SteadySame DEF masterVars, memoryVars, workerVars, channelVars
<1>8. CASE Heartbeat(w)
  BY <1>2, <1>5, <1>8, SteadyHeard
<1>9. CASE \/ m.type = "WorkerSchedulerStateResponse" /\ WorkerSchedulerStateResponse(w, m.ids)
           \/ m.type = "WorkerLatestState" /\ WorkerLatestState(w, m.ids)
  <2>1. m.ids \in SUBSET DriverId
    BY <1>3, <1>9, FromWorkerFields
  <2> QED
    BY <1>2, <1>5, <1>9, <2>1, SteadyHeard
<1>10. CASE DriverStateChanged(m.id, m.state)
  BY <1>2, <1>5, <1>10, SteadyDrivers
<1> QED
  BY <1>1, <1>6, <1>7, <1>8, <1>9, <1>10 DEF FromWorker

\* Nobody can have adopted the next master yet.
LEMMA KnownMasterFails ==
  ASSUME GridInv, KnownInv, MasterFails
  PROVE  KnownInv'
<1>1. /\ epoch' = epoch + 1 /\ workers' = {} /\ idToWorker' = {}
      /\ lastHeartbeat' = [w \in WorkerId |-> Fresh] /\ toWorker' = [w \in WorkerId |-> <<>>]
      /\ UNCHANGED <<process, wmaster, registered, connected, scheduling>>
      /\ lostAtWorker' = [w \in WorkerId |->
           IF process[w] = "up" THEN lostAtWorker[w] \cup {epoch} ELSE lostAtWorker[w]]
  BY DEF MasterFails, ProcessExit, ForgetMemory, registrationVars
<1>2. WorkerTypeOK /\ epoch \in Nat
  BY DEF GridInv, WorkerInv
<1>3. \A w \in WorkerId : wmaster[w] # None => wmaster[w] \in Nat /\ wmaster[w] <= epoch
  BY <1>2 DEF KnownInv, Follows, WorkerTypeOK
<1>4. \A w \in WorkerId : wmaster[w] # epoch'
  BY <1>1, <1>2, <1>3, WorkerAssumption
<1>5. Follows'
  BY <1>1, <1>2, <1>3 DEF KnownInv, Follows
<1>6. Alone'
  BY <1>1 DEF KnownInv, Alone
<1>7. \A w \in WorkerId : ~ Called(toWorker', w)
  <2>1. \A w \in WorkerId : 1..Len(toWorker'[w]) = {}
    BY <1>1, EmptySeq
  <2> QED
    BY <2>1 DEF Called
<1>8. \A w \in WorkerId : lastHeartbeat'[w] <= MaxAge
  BY <1>1, GridAssumption DEF Fresh
<1>9. KnownIn(workers, idToWorker, lastHeartbeat, toWorker)'
  <2>1. \A w \in WorkerId : process'[w] = "new" => wmaster'[w] = None
    BY <1>1 DEF KnownInv, KnownIn
  <2>2. \A w \in WorkerId : wmaster'[w] # epoch'
    BY <1>1, <1>4
  <2>3. \A w \in WorkerId : ~ Called(toWorker, w)'
    BY <1>7 DEF Called, Adopts
  <2> QED
    BY <1>1, <1>8, <2>1, <2>2, <2>3 DEF KnownIn
<1> QED
  BY <1>5, <1>6, <1>9 DEF KnownInv

-----------------------------------------------------------------------------
(* What the workers do                                                     *)

LEMMA KnownWorkers ==
  ASSUME GridInv, KnownInv, UNCHANGED <<epoch, submitted, workers, idToWorker, lastHeartbeat>>,
         Mute(toWorker, toWorker'),
         \A v \in WorkerId : process'[v] = "new" => process[v] = "new",
         \A v \in WorkerId : process'[v] = "up" => process[v] # "exited",
         \A v \in WorkerId : wmaster'[v] = wmaster[v] \/ (process[v] = "up" /\ Called(toWorker, v)),
         Follows', Alone'
  PROVE  KnownInv'
<1>1. WorkerTypeOK /\ epoch \in Nat
  BY DEF GridInv, WorkerInv
<1>2. \A v \in WorkerId : process[v] \in {"new", "up", "exited"}
  BY <1>1 DEF WorkerTypeOK
<1>3. \A v \in WorkerId : Called(toWorker, v)' => Called(toWorker, v)
  BY DEF Mute, Called, Adopts
<1>4. \A v \in WorkerId : process[v] = "new" =>
        v \notin workers /\ wmaster'[v] = None /\ ~ Called(toWorker, v)'
  BY <1>3 DEF KnownInv, KnownIn
<1>5. ASSUME NEW v \in WorkerId, NEW w \in WorkerId, process'[w] = "up", v \in idToWorker,
             workerAddress[v] = workerAddress[w], v # w
      PROVE  w \notin workers
  BY <1>2, <1>4, <1>5 DEF KnownInv, KnownIn
<1>6. ASSUME NEW w \in WorkerId, Regular', process'[w] = "up", wmaster'[w] = epoch \/ Called(toWorker, w)'
      PROVE  w \in workers
  <2>1. process[w] = "up"
    BY <1>1, <1>2, <1>4, <1>6, WorkerAssumption
  <2> QED
    BY <1>3, <1>6, <2>1 DEF KnownInv, KnownIn, Regular, NoneTwice
<1>7. \A w \in WorkerId : lastHeartbeat'[w] <= MaxAge
  BY DEF KnownInv, KnownIn
<1>8. KnownIn(workers, idToWorker, lastHeartbeat, toWorker)'
  BY <1>4, <1>5, <1>6, <1>7 DEF KnownIn
<1> QED
  BY <1>8 DEF KnownInv

\* A worker may end, and does nothing else that matters.
LEMMA KnownEnds ==
  ASSUME GridInv, KnownInv, UNCHANGED <<epoch, submitted, workers, idToWorker, lastHeartbeat>>,
         Mute(toWorker, toWorker'), UNCHANGED <<wmaster, registered, connected, scheduling>>,
         \A v \in WorkerId : lostAtWorker[v] \subseteq lostAtWorker'[v],
         \A v \in WorkerId : process'[v] = process[v] \/ process'[v] = "exited"
  PROVE  KnownInv'
<1>1. Follows' /\ Alone'
  BY DEF KnownInv, Follows, Alone
<1> QED
  BY <1>1, KnownWorkers

LEMMA MuteSame ==
  ASSUME NEW net
  PROVE  Mute(net, net)
BY DEF Mute

\* What is on its way to a worker is lost, or the first of it has arrived.
LEMMA MuteRest ==
  ASSUME NEW net \in [WorkerId -> Seq(ToWorkerMsg)], NEW w \in WorkerId, NEW s \in {<<>>, Tail(net[w])},
         s = <<>> \/ net[w] # <<>>
  PROVE  Mute(net, [net EXCEPT ![w] = s])
<1>1. ASSUME NEW i \in 1..Len(s) PROVE \E j \in 1..Len(net[w]) : s[i] = net[w][j]
  <2>1. s # <<>>
    BY EmptySeq
  <2> QED
    BY <2>1, ToldRest
<1> QED
  BY <1>1 DEF Mute, Called

LEMMA KnownStarting ==
  ASSUME GridInv, KnownInv, NEW w \in WorkerId, Starting(w)
  PROVE  KnownInv'
<1>1. /\ process[w] = "new" /\ process' = [process EXCEPT ![w] = "up"]
      /\ \A v \in WorkerId : workerAddress[v] = workerAddress[w] => process[v] # "up"
      /\ registered' = [registered EXCEPT ![w] = scheduling[w] /\ @]
      /\ scheduling' = [scheduling EXCEPT ![w] = TRUE]
      /\ UNCHANGED <<wmaster, connected, lostAtWorker, epoch, submitted, workers, idToWorker, lastHeartbeat, toWorker>>
  BY DEF Starting, StartWorker, registerWithMaster, WorkerAlone, masterVars, memoryVars, workerVars,
     channelVars, networkVars
<1>2. WorkerTypeOK
  BY DEF GridInv, WorkerInv
<1>3. /\ process'[w] = "up" /\ scheduling'[w] /\ (registered'[w] => scheduling[w] /\ registered[w])
      /\ \A v \in WorkerId \ {w} : /\ process'[v] = process[v] /\ scheduling'[v] = scheduling[v]
                                   /\ registered'[v] = registered[v]
  BY <1>1, <1>2 DEF WorkerTypeOK
<1>4. Follows'
  BY <1>1, <1>3 DEF KnownInv, Follows
<1>5. Alone'
  BY <1>1, <1>3 DEF KnownInv, Alone
<1>6. \A v \in WorkerId : /\ process'[v] = "new" => process[v] = "new"
                          /\ process'[v] = "up" => process[v] # "exited"
  BY <1>1, <1>3
<1> QED
  BY <1>1, <1>4, <1>5, <1>6, MuteSame, KnownWorkers

\* Worker w starts registering anew.
LEMMA KnownRegistersAgain ==
  ASSUME GridInv, KnownInv, NEW w \in WorkerId, registerWithMaster(w),
         UNCHANGED <<epoch, submitted, workers, idToWorker, lastHeartbeat, process, wmaster>>,
         Mute(toWorker, toWorker'),
         \A v \in WorkerId \ {w} : connected'[v] = connected[v] /\ lostAtWorker'[v] = lostAtWorker[v]
  PROVE  KnownInv'
<1>1. WorkerTypeOK
  BY DEF GridInv, WorkerInv
<1>2. /\ scheduling'[w] /\ (registered'[w] => scheduling[w] /\ registered[w])
      /\ \A v \in WorkerId \ {w} : scheduling'[v] = scheduling[v] /\ registered'[v] = registered[v]
  BY <1>1 DEF WorkerTypeOK, registerWithMaster
<1>3. Follows' /\ Alone'
  BY <1>2 DEF KnownInv, Follows, Alone
<1> QED
  BY <1>3, KnownWorkers

LEMMA KnownRegistering ==
  ASSUME GridInv, KnownInv, NEW w \in WorkerId, Registering(w)
  PROVE  KnownInv'
<1> USE DEF masterVars, memoryVars, workerVars, channelVars
<1>1. /\ scheduling[w] /\ ~ registered[w]
      /\ UNCHANGED <<wmaster, registered, connected, lostAtWorker, epoch, submitted, workers, idToWorker,
                     lastHeartbeat, toWorker>>
  BY DEF Registering, tryRegisterAllMasters, ExitNoticed, KnownInv, Follows
<1>2. scheduling' = scheduling /\ (process' = process \/ process' = [process EXCEPT ![w] = "exited"])
  BY <1>1 DEF Registering, tryRegisterAllMasters, gracefullyShutdown
<1>3. \A v \in WorkerId : process'[v] = process[v] \/ process'[v] = "exited"
  BY <1>2 DEF GridInv, WorkerInv, WorkerTypeOK
<1> QED
  BY <1>1, <1>2, <1>3, MuteSame, KnownEnds

LEMMA KnownKillWorker ==
  ASSUME GridInv, KnownInv, NEW w \in WorkerId, KillWorker(w)
  PROVE  KnownInv'
<1>1. /\ process' = [process EXCEPT ![w] = "exited"]
      /\ UNCHANGED <<wmaster, registered, connected, scheduling, lostAtWorker, epoch, submitted, workers, idToWorker,
                     lastHeartbeat, toWorker>>
  BY DEF KillWorker, WorkerKilled, registrationVars, masterVars, memoryVars, workerVars, channelVars
<1>2. \A v \in WorkerId : process'[v] = process[v] \/ process'[v] = "exited"
  BY <1>1 DEF GridInv, WorkerInv, WorkerTypeOK
<1> QED
  BY <1>1, <1>2, MuteSame, KnownEnds

LEMMA KnownBreakWorker ==
  ASSUME GridInv, DriversInv, KnownInv, NEW w \in WorkerId, BreakWorker(w)
  PROVE  KnownInv'
<1>1. /\ toWorker' = [toWorker EXCEPT ![w] = <<>>]
      /\ lostAtWorker' = [lostAtWorker EXCEPT ![w] = @ \cup {epoch}]
      /\ UNCHANGED <<process, wmaster, registered, connected, scheduling, epoch, submitted, workers, idToWorker, lastHeartbeat>>
  BY DEF BreakWorker, registrationVars, memoryVars, workerVars
<1>2. toWorker \in [WorkerId -> Seq(ToWorkerMsg)]
  BY ChannelTypes DEF DriversInv
<1>3. Mute(toWorker, toWorker')
  BY <1>1, <1>2, MuteRest
<1>4. \A v \in WorkerId : lostAtWorker[v] \subseteq lostAtWorker'[v]
  BY <1>1 DEF GridInv, GridTypeOK
<1> QED
  BY <1>1, <1>3, <1>4, KnownEnds

\* A worker that hears of the loss of its own master registers again; the loss of another
\* one tells it nothing.
LEMMA KnownWorkerLoses ==
  ASSUME GridInv, KnownInv, NEW w \in WorkerId, NEW e \in 1..MaxEpoch, WorkerLoses(w, e)
  PROVE  KnownInv'
<1>1. /\ lostAtWorker' = [lostAtWorker EXCEPT ![w] = @ \ {e}]
      /\ UNCHANGED <<process, wmaster, epoch, submitted, workers, idToWorker, lastHeartbeat, toWorker>>
  BY DEF WorkerLoses, masterDisconnected, workerActorVars, registrationVars, masterVars, memoryVars,
     workerVars, channelVars
<1>2. WorkerTypeOK /\ Mute(toWorker, toWorker')
  BY <1>1, MuteSame DEF GridInv, WorkerInv
<1>3. lostAtWorker'[w] = lostAtWorker[w] \ {e} /\ \A v \in WorkerId \ {w} : lostAtWorker'[v] = lostAtWorker[v]
  BY <1>1 DEF GridInv, GridTypeOK
<1>4. CASE Names(e, wmaster[w]) /\ masterDisconnected(w)
  <2>1. registerWithMaster(w) /\ \A v \in WorkerId \ {w} : connected'[v] = connected[v]
    BY <1>2, <1>4 DEF masterDisconnected, WorkerTypeOK
  <2> QED
    BY <1>1, <1>2, <1>3, <2>1, KnownRegistersAgain
<1>5. CASE ~ Names(e, wmaster[w]) /\ UNCHANGED workerActorVars
  <2>1. UNCHANGED <<wmaster, registered, connected, scheduling>>
    BY <1>5 DEF workerActorVars, registrationVars
  <2>2. wmaster[w] # e
    BY <1>5, WorkerAssumption DEF Names
  <2>3. Follows' /\ Alone'
    BY <1>1, <1>3, <2>1, <2>2 DEF KnownInv, Follows, Alone
  <2> QED
    BY <1>1, <1>2, <2>1, <2>3, KnownWorkers
<1> QED
  BY <1>4, <1>5 DEF WorkerLoses

\* The worker side does not change.
LEMMA KnownSame ==
  ASSUME GridInv, KnownInv, UNCHANGED <<memoryVars, toWorker, process, registrationVars, lostAtWorker>>
  PROVE  KnownInv'
<1>1. UNCHANGED <<epoch, submitted, workers, idToWorker, lastHeartbeat, toWorker, process, wmaster, registered, connected,
                  scheduling, lostAtWorker>>
  BY DEF memoryVars, workerVars, registrationVars
<1> QED
  BY <1>1, MuteSame, KnownEnds

LEMMA KnownElsewhere ==
  ASSUME GridInv, KnownInv,
         \/ \E w \in WorkerId : Beating(w)
         \/ \E o \in DriverObj : RunnerStep(o)
         \/ \E p \in AppProc : AppStep(p) /\ ~ DeliverFromApp(p)
  PROVE  KnownInv'
<1> USE DEF masterVars, channelVars, networkVars, workerActorVars
<1>1. ASSUME NEW w \in WorkerId, Beating(w) PROVE KnownInv'
  BY <1>1, KnownSame DEF Beating, SendHeartbeat, WorkerAlone
<1>2. ASSUME NEW o \in DriverObj, RunnerStep(o) PROVE KnownInv'
  BY <1>2, KnownSame DEF RunnerStep, RunnerStarting, RunnerStarts, SparkEnding, SparkEnds, Reporting,
     RunnerReports, handleDriverStateChanged, WorkerAlone
<1>3. ASSUME NEW p \in AppProc, AppStep(p), ~ DeliverFromApp(p) PROVE KnownInv'
  BY <1>3, KnownSame DEF AppStep, DeliverToApp, AppStarting, AppRegistering, BreakApp, KillApp, AppLoses,
     AppExitNoticed
<1> QED
  BY <1>1, <1>2, <1>3

\* A worker adopts the master that leads, and stops registering.
LEMMA KnownAdopts ==
  ASSUME GridInv, DriversInv, PlaceInv, KnownInv, NEW w \in WorkerId, process[w] = "up",
         toWorker[w] # <<>>, Adopts(Head(toWorker[w])), changeMaster(w, Head(toWorker[w]).master),
         \A v \in WorkerId \ {w} : registered'[v] = registered[v],
         UNCHANGED <<epoch, submitted, workers, idToWorker, lastHeartbeat, process, lostAtWorker>>,
         Mute(toWorker, toWorker')
  PROVE  KnownInv'
<1>1. WorkerTypeOK /\ toWorker \in [WorkerId -> Seq(ToWorkerMsg)] /\ HearsLeader /\ epoch \in Nat
  BY ChannelTypes DEF GridInv, WorkerInv, DriversInv, PlaceInv, Links
<1>2. 1 \in 1..Len(toWorker[w]) /\ toWorker[w][1] = Head(toWorker[w])
  BY <1>1, ToldRest
<1>3. Head(toWorker[w]).master = epoch /\ Called(toWorker, w)
  BY <1>1, <1>2 DEF HearsLeader, Called
<1>4. /\ wmaster'[w] = epoch /\ connected'[w] /\ ~ scheduling'[w]
      /\ \A v \in WorkerId \ {w} : /\ wmaster'[v] = wmaster[v] /\ connected'[v] = connected[v]
                                   /\ scheduling'[v] = scheduling[v]
  BY <1>1, <1>3 DEF changeMaster, WorkerTypeOK
<1>5. Follows' /\ Alone'
  BY <1>1, <1>4 DEF KnownInv, Follows, Alone
<1>6. \A v \in WorkerId : wmaster'[v] = wmaster[v] \/ (process[v] = "up" /\ Called(toWorker, v))
  BY <1>3, <1>4
<1> QED
  BY <1>5, <1>6, KnownWorkers

LEMMA KnownToWorker ==
  ASSUME GridInv, DriversInv, PlaceInv, KnownInv, NEW w \in WorkerId, DeliverToWorker(w)
  PROVE  KnownInv'
<1> DEFINE m == Head(toWorker[w])
<1> USE DEF workerActorVars, registrationVars
<1>1. /\ toWorker[w] # <<>> /\ toWorker' = [toWorker EXCEPT ![w] = Tail(@)]
      /\ UNCHANGED <<epoch, submitted, workers, idToWorker, lastHeartbeat, lostAtWorker>>
      /\ \/ process[w] = "up" /\ FromMaster(w, m)
         \/ UNCHANGED workerActorVars
  BY DEF DeliverToWorker, ExitNoticed, memoryVars, workerVars
<1>2. WorkerTypeOK /\ toWorker \in [WorkerId -> Seq(ToWorkerMsg)]
  BY ChannelTypes DEF GridInv, WorkerInv, DriversInv
<1>3. Mute(toWorker, toWorker')
  BY <1>1, <1>2, MuteRest
<1>4. CASE process[w] = "up" /\ m.type = "RegisteredWorker" /\ RegisteredWorker(w, m.master)
  <2>1. /\ Adopts(m) /\ changeMaster(w, m.master) /\ UNCHANGED process
        /\ \A v \in WorkerId \ {w} : registered'[v] = registered[v]
    BY <1>2, <1>4 DEF RegisteredWorker, Adopts, WorkerTypeOK
  <2> QED
    BY <1>1, <1>3, <1>4, <2>1, KnownAdopts
<1>5. CASE process[w] = "up" /\ m.type = "MasterChanged" /\ MasterChanged(w, m.master)
  <2>1. Adopts(m) /\ changeMaster(w, m.master) /\ UNCHANGED <<process, registered>>
    BY <1>5 DEF MasterChanged, Adopts
  <2> QED
    BY <1>1, <1>3, <1>5, <2>1, KnownAdopts
<1>6. CASE ReconnectWorker(w)
  BY <1>1, <1>3, <1>6, KnownRegistersAgain DEF ReconnectWorker
<1>7. CASE RegisterWorkerFailed(w)
  <2>1. /\ UNCHANGED <<wmaster, registered, connected, scheduling>>
        /\ process' = process \/ process' = [process EXCEPT ![w] = "exited"]
    BY <1>7 DEF RegisterWorkerFailed, gracefullyShutdown
  <2>2. \A v \in WorkerId : process'[v] = process[v] \/ process'[v] = "exited"
    BY <1>2, <2>1 DEF WorkerTypeOK
  <2> QED
    BY <1>1, <1>3, <2>1, <2>2, KnownEnds
<1>8. CASE UNCHANGED workerActorVars \/ LaunchDriver(w, m.driver) \/ KillDriver(w, m.id)
  <2>1. UNCHANGED <<process, wmaster, registered, connected, scheduling>>
    BY <1>8 DEF LaunchDriver, KillDriver
  <2> QED
    BY <1>1, <1>3, <2>1, KnownEnds
<1> QED
  BY <1>1, <1>4, <1>5, <1>6, <1>7, <1>8 DEF FromMaster, MasterInStandby

LEMMA KnownInit == GridInit => KnownInv
<1> SUFFICES ASSUME GridInit PROVE KnownInv
  OBVIOUS
<1>1. /\ process = [w \in WorkerId |-> "new"] /\ wmaster = [w \in WorkerId |-> None]
      /\ scheduling = [w \in WorkerId |-> FALSE]
      /\ toWorker = [w \in WorkerId |-> <<>>] /\ workers = {} /\ idToWorker = {}
      /\ lastHeartbeat = [w \in WorkerId |-> Fresh]
  BY DEF GridInit, MasterInit, EmptyMemory, ChannelInit, WorkerInit
<1>2. Follows /\ Alone
  BY <1>1 DEF Follows, Alone
<1>3. \A w \in WorkerId : ~ Called(toWorker, w)
  <2>1. \A w \in WorkerId : 1..Len(toWorker[w]) = {}
    BY <1>1, EmptySeq
  <2> QED
    BY <2>1 DEF Called
<1>4. \A w \in WorkerId : lastHeartbeat[w] <= MaxAge
  BY <1>1, GridAssumption DEF Fresh
<1> QED
  BY <1>1, <1>2, <1>3, <1>4 DEF KnownInv, KnownIn

LEMMA KnownInvStep ==
  ASSUME GridInv, DriversInv, DriversInv', PlaceInv, KnownInv, [GridNext]_vars
  PROVE  KnownInv'
<1>1. CASE UNCHANGED vars \/ ClientStep
  BY <1>1, KnownMasterSteps
<1>2. CASE MasterStep
  BY <1>2, KnownMasterSteps, KnownMasterFails DEF MasterStep
<1>3. ASSUME NEW w \in WorkerId, WorkerStep(w) PROVE KnownInv'
  <2>1. CASE Ageing(w) \/ TimeOut(w)
    BY <2>1, KnownMasterSteps
  <2>2. CASE DeliverFromWorker(w) \/ DeliverToWorker(w)
    BY <2>2, KnownFromWorker, KnownToWorker
  <2>3. CASE Starting(w) \/ Registering(w) \/ Beating(w)
    BY <2>3, KnownStarting, KnownRegistering, KnownElsewhere
  <2>4. CASE BreakWorker(w) \/ KillWorker(w) \/ \E e \in 1..MaxEpoch : WorkerLoses(w, e)
    BY <2>4, KnownBreakWorker, KnownKillWorker, KnownWorkerLoses
  <2> QED
    BY <1>3, <2>1, <2>2, <2>3, <2>4 DEF WorkerStep
<1>4. ASSUME NEW o \in DriverObj, RunnerStep(o) PROVE KnownInv'
  BY <1>4, KnownElsewhere
<1>5. ASSUME NEW p \in AppProc, AppStep(p) PROVE KnownInv'
  <2>1. CASE DeliverFromApp(p)
    BY <2>1, KnownMasterSteps
  <2>2. CASE ~ DeliverFromApp(p)
    BY <1>5, <2>2, KnownElsewhere
  <2> QED
    BY <2>1, <2>2
<1> QED
  BY <1>1, <1>2, <1>3, <1>4, <1>5 DEF GridNext

\* The invariant holds in every state the grid can reach.
THEOREM KnownInvariant == GridSpec => []KnownInv
<1>1. GridInit => KnownInv
  BY KnownInit
<1>2. GridInv /\ DriversInv /\ DriversInv' /\ PlaceInv /\ KnownInv /\ [GridNext]_vars => KnownInv'
  BY KnownInvStep
<1> QED
  BY <1>1, <1>2, GridInvariant, GridMasterInvariant, PlaceInvariant, PTL DEF GridSpec

\* A worker that has stopped trying to register, and with which nothing is under way, is
\* connected to the master that leads: whatever is lost or late, MasterChanged,
\* RegisteredWorker and the DisassociatedEvents leave no worker with a master that has gone.
THEOREM WorkersFollow ==
  GridSpec => [](\A w \in WorkerId :
    process[w] = "up" /\ ~ scheduling[w] /\ Quiet(w) => wmaster[w] = epoch /\ connected[w])
<1>1. KnownInv => \A w \in WorkerId :
        process[w] = "up" /\ ~ scheduling[w] /\ Quiet(w) => wmaster[w] = epoch /\ connected[w]
  BY DEF KnownInv, Follows, Quiet
<1> QED
  BY <1>1, KnownInvariant, PTL

\* A worker that has stopped trying to register is one the leader knows of and whose
\* messages reach that leader, as long as no heartbeat is so late that checkForWorkerTimeOut
\* drops a DEAD worker from `workers', and no id has been submitted twice, so that
\* removeDriver finds every node and the actor of the master is not restarted.
THEOREM NobodyForgotten == GridSpec => [](Regular => NoForgottenWorker)
<1>1. KnownInv => (Regular => NoForgottenWorker)
  <2> SUFFICES ASSUME KnownInv, Regular, NEW w \in WorkerId, process[w] = "up", ~ scheduling[w], Quiet(w)
               PROVE  w \in workers /\ wmaster[w] = epoch /\ connected[w]
    BY DEF NoForgottenWorker
  <2>1. wmaster[w] = epoch /\ connected[w]
    BY DEF KnownInv, Follows, Quiet
  <2> QED
    BY <2>1 DEF KnownInv, KnownIn
<1> QED
  BY <1>1, KnownInvariant, PTL
=============================================================================
