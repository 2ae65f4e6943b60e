------------------------ MODULE GridDrivers_proofs -------------------------
(***************************************************************************)
(* A driver is launched at most once in the grid, for every set of         *)
(* workers, drivers, applications, clients and machines and every value of *)
(* the bounds.                                                             *)
(*                                                                         *)
(* LaunchedOnce counts.  What is inductive is where the one launch of a    *)
(* driver is: in the queue of waiting drivers, where no two entries are    *)
(* the same; or at one place of one channel; or at its host.  Round robin  *)
(* sends each waiting driver once because the places it goes to are        *)
(* distinct; and what has never been submitted is nowhere, so a submission *)
(* starts with nothing on its way.                                         *)
(***************************************************************************)
EXTENDS Grid_proofs

Launch(o) == [type |-> "LaunchDriver", driver |-> o]

LaunchedIn(net, o) == \E w \in WorkerId : \E i \in 1..Len(net[w]) : net[w][i] = Launch(o)

InQueue(q, o) == \E i \in 1..Len(q) : q[i] = o

\* Each driver is at most once in queue q, channels net and hosts h together.
Once(q, net, h) ==
  /\ \A i, j \in 1..Len(q) : q[i] = q[j] => i = j
  /\ \A o \in DriverObj : InQueue(q, o) => h[o] = None /\ ~ LaunchedIn(net, o)
  /\ \A o \in DriverObj : LaunchedIn(net, o) => h[o] = None
  /\ \A o \in DriverObj, v, w \in WorkerId : \A i \in 1..Len(net[v]), j \in 1..Len(net[w]) :
       net[v][i] = Launch(o) /\ net[w][j] = Launch(o) => v = w /\ i = j

\* What has not been submitted has not been launched.
NotLaunched ==
  \A o \in DriverObj : o.seq > submitted[o.id] => host[o] = None /\ ~ LaunchedIn(toWorker, o)

\* The inductive invariant.
OnceInv == Once(waitingDrivers, toWorker, host) /\ NotLaunched

-----------------------------------------------------------------------------
(* Channels that get no launch                                             *)

\* The launches of net2 are launches of net, further down the same channel.
NoNewLaunch(net, net2) ==
  \A w \in WorkerId : \E k \in Nat : \A i \in 1..Len(net2[w]), o \in DriverObj :
    net2[w][i] = Launch(o) => i + k \in 1..Len(net[w]) /\ net[w][i + k] = Launch(o)

LEMMA LaunchFields ==
  ASSUME NEW o, NEW x, Launch(o) = Launch(x)
  PROVE  o = x
<1>1. Launch(o).driver = o /\ Launch(x).driver = x
  BY DEF Launch
<1> QED
  BY <1>1

LEMMA NoneLaunched ==
  ASSUME NEW net, NEW net2, NoNewLaunch(net, net2), NEW o \in DriverObj, LaunchedIn(net2, o)
  PROVE  LaunchedIn(net, o)
BY DEF NoNewLaunch, LaunchedIn

\* Queue q2 repeats nothing and has only what q has, and nothing new is launched.
LEMMA OnceKept ==
  ASSUME NEW q, NEW net, NEW h, Once(q, net, h),
         NEW q2, NEW net2 \in [WorkerId -> Seq(ToWorkerMsg)], NoNewLaunch(net, net2),
         \A i, j \in 1..Len(q2) : q2[i] = q2[j] => i = j,
         \A o \in DriverObj : InQueue(q2, o) => InQueue(q, o)
  PROVE  Once(q2, net2, h)
<1>1. \A o \in DriverObj : InQueue(q2, o) => h[o] = None /\ ~ LaunchedIn(net2, o)
  BY NoneLaunched DEF Once
<1>2. \A o \in DriverObj : LaunchedIn(net2, o) => h[o] = None
  BY NoneLaunched DEF Once
<1>3. ASSUME NEW o \in DriverObj, NEW v \in WorkerId, NEW w \in WorkerId,
             NEW i \in 1..Len(net2[v]), NEW j \in 1..Len(net2[w]),
             net2[v][i] = Launch(o), net2[w][j] = Launch(o)
      PROVE  v = w /\ i = j
  <2>1. PICK k \in Nat : \A n \in 1..Len(net2[v]), x \in DriverObj :
          net2[v][n] = Launch(x) => n + k \in 1..Len(net[v]) /\ net[v][n + k] = Launch(x)
    BY DEF NoNewLaunch
  <2>2. PICK l \in Nat : \A n \in 1..Len(net2[w]), x \in DriverObj :
          net2[w][n] = Launch(x) => n + l \in 1..Len(net[w]) /\ net[w][n + l] = Launch(x)
    BY DEF NoNewLaunch
  <2>3. /\ i + k \in 1..Len(net[v]) /\ net[v][i + k] = Launch(o)
        /\ j + l \in 1..Len(net[w]) /\ net[w][j + l] = Launch(o)
    BY <1>3, <2>1, <2>2
  <2>4. \A m \in 1..Len(net[v]), n \in 1..Len(net[w]) :
          net[v][m] = Launch(o) /\ net[w][n] = Launch(o) => v = w /\ m = n
    BY DEF Once
  <2>5. v = w
    BY <2>3, <2>4
  <2>6. i \in Nat /\ j \in Nat
    BY LenProperties
  <2>7. j + k \in 1..Len(net[v]) /\ net[v][j + k] = Launch(o)
    BY <1>3, <2>1, <2>5
  <2>8. i + k = j + k
    BY <2>3, <2>4, <2>5, <2>7
  <2> QED
    BY <2>5, <2>6, <2>8
<1> QED
  BY <1>1, <1>2, <1>3 DEF Once

LEMMA NoNewSame ==
  ASSUME NEW net \in [WorkerId -> Seq(ToWorkerMsg)]
  PROVE  NoNewLaunch(net, net)
<1>1. \A w \in WorkerId : \A i \in 1..Len(net[w]) : i + 0 = i
  BY LenProperties
<1> QED
  BY <1>1 DEF NoNewLaunch

\* More messages that are no launches, after those that were there.
LEMMA NoNewAfter ==
  ASSUME NEW net \in [WorkerId -> Seq(ToWorkerMsg)], NEW net2 \in [WorkerId -> Seq(ToWorkerMsg)],
         \A w \in WorkerId : \A i \in 1..Len(net2[w]) :
           \/ i \in 1..Len(net[w]) /\ net2[w][i] = net[w][i]
           \/ net2[w][i].type # "LaunchDriver"
  PROVE  NoNewLaunch(net, net2)
<1>1. \A o : Launch(o).type = "LaunchDriver"
  BY DEF Launch
<1>2. ASSUME NEW w \in WorkerId, NEW i \in 1..Len(net2[w]), NEW o \in DriverObj, net2[w][i] = Launch(o)
      PROVE  i + 0 \in 1..Len(net[w]) /\ net[w][i + 0] = Launch(o)
  <2>1. i \in 1..Len(net[w]) /\ net[w][i] = Launch(o)
    BY <1>1, <1>2
  <2>2. i + 0 = i
    BY LenProperties
  <2> QED
    BY <2>1, <2>2
<1> QED
  BY <1>2 DEF NoNewLaunch

LEMMA NoNewSent ==
  ASSUME NEW net \in [WorkerId -> Seq(ToWorkerMsg)], NEW w \in WorkerId, NEW m \in ToWorkerMsg,
         m.type # "LaunchDriver"
  PROVE  /\ SendTo(net, w, m) \in [WorkerId -> Seq(ToWorkerMsg)]
         /\ NoNewLaunch(net, SendTo(net, w, m))
<1> DEFINE net2 == SendTo(net, w, m)
<1>1. net2 \in [WorkerId -> Seq(ToWorkerMsg)]
  BY SendToType
<1>2. net2[w] = Append(net[w], m) /\ \A v \in WorkerId \ {w} : net2[v] = net[v]
  BY DEF SendTo
<1>3. /\ Len(net[w]) \in Nat /\ Len(net2[w]) = Len(net[w]) + 1
      /\ \A i \in 1..Len(net2[w]) : net2[w][i] = IF i = Len(net[w]) + 1 THEN m ELSE net[w][i]
  BY <1>2, AppendProperties, LenProperties
<1> HIDE DEF net2
<1>4. \A v \in WorkerId : \A i \in 1..Len(net2[v]) :
        \/ i \in 1..Len(net[v]) /\ net2[v][i] = net[v][i]
        \/ net2[v][i].type # "LaunchDriver"
  BY <1>2, <1>3
<1>5. NoNewLaunch(net, net2)
  BY <1>1, <1>4, NoNewAfter
<1> QED
  BY <1>1, <1>5 DEF net2

\* Messages taken off a channel.
LEMMA NoNewTaken ==
  ASSUME NEW net \in [WorkerId -> Seq(ToWorkerMsg)], NEW w \in WorkerId,
         NEW a \in 0..Len(net[w]), NEW b \in 0..Len(net[w])
  PROVE  NoNewLaunch(net, [net EXCEPT ![w] = SubSeq(@, a + 1, b)])
<1> DEFINE net2 == [net EXCEPT ![w] = SubSeq(@, a + 1, b)]
<1>1. net2[w] = SubSeq(net[w], a + 1, b) /\ \A v \in WorkerId \ {w} : net2[v] = net[v]
  OBVIOUS
<1>2. Len(net[w]) \in Nat /\ a \in Nat /\ b \in Nat
  BY LenProperties
<1>3. /\ Len(net2[w]) = IF a + 1 <= b THEN b - (a + 1) + 1 ELSE 0
      /\ \A i \in 1..(b - (a + 1) + 1) : net2[w][i] = net[w][(a + 1) + i - 1]
  <2>1. net[w] \in Seq(ToWorkerMsg) /\ a + 1 \in 1..(Len(net[w]) + 1) /\ b \in 0..Len(net[w])
    BY <1>2
  <2> QED
    BY <1>1, <2>1, SubSeqProperties
<1> HIDE DEF net2
<1>4. ASSUME NEW i \in 1..Len(net2[w])
      PROVE  i + a \in 1..Len(net[w]) /\ net2[w][i] = net[w][i + a]
  <2>1. i \in 1..(b - (a + 1) + 1) /\ (a + 1) + i - 1 = i + a
    BY <1>2, <1>3
  <2> QED
    BY <1>2, <1>3, <2>1
<1>5. ASSUME NEW v \in WorkerId
      PROVE  \E k \in Nat : \A i \in 1..Len(net2[v]), o \in DriverObj :
               net2[v][i] = Launch(o) => i + k \in 1..Len(net[v]) /\ net[v][i + k] = Launch(o)
  <2>1. CASE v = w
    BY <1>2, <1>4, <2>1
  <2>2. CASE v # w
    <3>1. \A i \in 1..Len(net[v]) : i + 0 = i
      BY LenProperties
    <3> QED
      BY <1>1, <2>2, <3>1
  <2> QED
    BY <2>1, <2>2
<1> QED
  BY <1>5 DEF NoNewLaunch, net2

-----------------------------------------------------------------------------
(* schedule()                                                              *)

\* Round robin takes no position of the queue twice.
LEMMA PositionsApart ==
  ASSUME NEW k \in Nat, k > 0, NEW c \in 1..k, NEW d \in 1..k, NEW i \in Nat, NEW j \in Nat,
         c + (i - 1) * k = d + (j - 1) * k
  PROVE  c = d /\ i = j
<1>1. ASSUME NEW x \in 1..k, NEW y \in 1..k, NEW m \in Nat, NEW n \in Nat, m < n,
             x + (m - 1) * k = y + (n - 1) * k
      PROVE  FALSE
  <2>1. PICK e \in Nat : n = m + 1 + e
    <3>1. n - (m + 1) \in Nat /\ n = m + 1 + (n - (m + 1))
      BY <1>1
    <3> QED
      BY <3>1
  <2>2. (n - 1) * k = (m - 1) * k + k + e * k
    BY <2>1
  <2>3. e * k >= 0
    BY <2>1
  <2>4. (m - 1) * k \in Int /\ (n - 1) * k \in Int /\ e * k \in Int
    OBVIOUS
  <2> QED
    BY <1>1, <2>2, <2>3, <2>4
<1>2. i = j
  BY <1>1
<1>3. (i - 1) * k \in Int
  OBVIOUS
<1> QED
  BY <1>2, <1>3

\* The launches schedule() sends to one worker are of drivers of the queue, each at its place.
LEMMA LaunchesAt ==
  ASSUME NEW q \in Seq(DriverObj), NEW k \in Nat, k > 0, NEW c \in 1..k, NEW s \in Seq(ToWorkerMsg)
  PROVE  LET t == s \o Launches(q, c, k)
         IN  /\ t \in Seq(ToWorkerMsg)
             /\ \A i \in 1..Len(t) :
                  \/ i \in 1..Len(s) /\ t[i] = s[i]
                  \/ /\ i - Len(s) \in Nat
                     /\ c + (i - Len(s) - 1) * k \in 1..Len(q)
                     /\ t[i] = Launch(q[c + (i - Len(s) - 1) * k])
<1> DEFINE l == Launches(q, c, k)
           t == s \o l
           n == (Len(q) + k - c) \div k
<1>1. l \in Seq(ToWorkerMsg) /\ Len(s) \in Nat /\ Len(q) \in Nat
  BY LaunchesType, LenProperties
<1>2. n \in Nat
  BY <1>1
<1>3. Len(l) = n /\ \A j \in 1..n : l[j] = Launch(q[c + (j - 1) * k])
  <2>1. l = [j \in 1..n |-> Launch(q[c + (j - 1) * k])]
    BY DEF Launches, Launch
  <2>2. DOMAIN l = 1..n
    BY <2>1
  <2> HIDE DEF l, n
  <2>3. Len(l) = n
    BY <1>1, <1>2, <2>2, LenProperties
  <2> QED
    BY <2>1, <2>3
<1>4. \A j \in 1..n : c + (j - 1) * k \in 1..Len(q)
  BY <1>1, LaunchPosition
<1> HIDE DEF l, n
<1>5. /\ t \in Seq(ToWorkerMsg) /\ Len(t) = Len(s) + Len(l)
      /\ \A i \in 1..(Len(s) + Len(l)) : t[i] = IF i <= Len(s) THEN s[i] ELSE l[i - Len(s)]
  BY <1>1, ConcatProperties
<1> HIDE DEF t
<1>6. ASSUME NEW i \in 1..Len(t), i \notin 1..Len(s)
      PROVE  i - Len(s) \in Nat /\ i - Len(s) \in 1..n /\ t[i] = l[i - Len(s)]
  BY <1>1, <1>2, <1>3, <1>5, <1>6
<1>7. ASSUME NEW i \in 1..Len(t), i \in 1..Len(s)
      PROVE  t[i] = s[i]
  BY <1>1, <1>2, <1>3, <1>5, <1>7
<1>8. ASSUME NEW i \in 1..Len(t)
      PROVE  \/ i \in 1..Len(s) /\ t[i] = s[i]
             \/ /\ i - Len(s) \in Nat
                /\ c + (i - Len(s) - 1) * k \in 1..Len(q)
                /\ t[i] = Launch(q[c + (i - Len(s) - 1) * k])
  <2>1. CASE i \in 1..Len(s)
    BY <1>7, <2>1
  <2>2. CASE i \notin 1..Len(s)
    BY <1>3, <1>4, <1>6, <2>2
  <2> QED
    BY <2>1, <2>2
<1> QED
  BY <1>5, <1>8 DEF t, l

\* schedule() turns each waiting driver into one launch, or leaves the queue alone.
LEMMA OnceScheduled ==
  ASSUME NEW called, NEW q \in Seq(DriverObj), NEW ds, NEW dw, NEW wd,
         NEW net \in [WorkerId -> Seq(ToWorkerMsg)], NEW h,
         workers' \subseteq WorkerId,
         Schedule(called, q, ds, dw, wd, net), Once(q, net, h)
  PROVE  /\ Once(waitingDrivers', toWorker', h)
         /\ \A o \in DriverObj : LaunchedIn(toWorker', o) => LaunchedIn(net, o) \/ InQueue(q, o)
<1>1. CASE ~ (called /\ state' = "ACTIVE" /\ AliveNow # {})
  <2>1. waitingDrivers' = q /\ toWorker' = net
    BY <1>1 DEF Schedule
  <2> QED
    BY <2>1
<1>2. CASE called /\ state' = "ACTIVE" /\ AliveNow # {}
  <2> DEFINE alive == AliveNow
             k == Cardinality(alive)
  <2>1. alive \in SUBSET WorkerId /\ IsFiniteSet(alive)
    BY FS_Subset, ConstantsAssumption DEF AliveNow
  <2>2. k \in Nat /\ k > 0
    BY <1>2, <2>1, FS_CardinalityType, FS_EmptySet
  <2>3. PICK order \in Shuffles(alive) :
          /\ waitingDrivers' = <<>>
          /\ toWorker' = [w \in WorkerId |->
               IF w \in alive THEN net[w] \o Launches(q, CHOOSE c \in 1..k : order[c] = w, k)
               ELSE net[w]]
    BY <1>2 DEF Schedule
  <2>4. order \in [1..k -> alive] /\ \A x \in alive : \E c \in 1..k : order[c] = x
    BY <2>1, ShuffleIsSeq
  <2> DEFINE place(w) == CHOOSE c \in 1..k : order[c] = w
             at(w, i) == place(w) + (i - Len(net[w]) - 1) * k
  <2> HIDE DEF alive, k
  <2>5. \A w \in alive : place(w) \in 1..k /\ order[place(w)] = w
    BY <2>4
  <2> HIDE DEF place
  \* a launch is an old one, or that of the driver at one position of the queue
  <2>6. ASSUME NEW w \in WorkerId, NEW i \in 1..Len(toWorker'[w]), NEW o \in DriverObj,
               toWorker'[w][i] = Launch(o)
        PROVE  \/ i \in 1..Len(net[w]) /\ net[w][i] = Launch(o)
               \/ w \in alive /\ i - Len(net[w]) \in Nat /\ at(w, i) \in 1..Len(q) /\ q[at(w, i)] = o
    <3>1. CASE w \notin alive
      BY <2>3, <2>6, <3>1
    <3>2. CASE w \in alive
      <4> DEFINE c == place(w)
                 s == net[w]
                 t == s \o Launches(q, c, k)
      <4>1. toWorker'[w] = t
        BY <2>3, <3>2 DEF place
      <4>2. c \in 1..k /\ s \in Seq(ToWorkerMsg)
        BY <2>5, <3>2
      <4>3. \/ i \in 1..Len(s) /\ t[i] = s[i]
            \/ /\ i - Len(s) \in Nat
               /\ c + (i - Len(s) - 1) * k \in 1..Len(q)
               /\ t[i] = Launch(q[c + (i - Len(s) - 1) * k])
        <5> HIDE DEF c, s
        <5> QED
          BY <2>2, <4>1, <4>2, LaunchesAt
      <4>4. CASE i \in 1..Len(s) /\ t[i] = s[i]
        BY <2>6, <4>1, <4>4
      <4>5. CASE /\ i - Len(s) \in Nat /\ at(w, i) \in 1..Len(q)
                 /\ t[i] = Launch(q[at(w, i)])
        <5>1. Launch(q[at(w, i)]) = Launch(o)
          BY <2>6, <4>1, <4>5
        <5>2. q[at(w, i)] = o
          BY <5>1, LaunchFields
        <5> QED
          BY <3>2, <4>5, <5>2
      <4> QED
        BY <4>3, <4>4, <4>5
    <3> QED
      BY <3>1, <3>2
  <2> HIDE DEF at
  <2>7. ASSUME NEW o \in DriverObj, LaunchedIn(toWorker', o)
        PROVE  LaunchedIn(net, o) \/ InQueue(q, o)
    <3>1. PICK w \in WorkerId : \E i \in 1..Len(toWorker'[w]) : toWorker'[w][i] = Launch(o)
      BY <2>7 DEF LaunchedIn
    <3>2. PICK i \in 1..Len(toWorker'[w]) : toWorker'[w][i] = Launch(o)
      BY <3>1
    <3>3. \/ i \in 1..Len(net[w]) /\ net[w][i] = Launch(o)
          \/ at(w, i) \in 1..Len(q) /\ q[at(w, i)] = o
      BY <2>6, <3>2
    <3> QED
      BY <3>3 DEF LaunchedIn, InQueue
  <2>8. \A o \in DriverObj : LaunchedIn(toWorker', o) => h[o] = None
    BY <2>7 DEF Once
  <2>9. ASSUME NEW o \in DriverObj, NEW v \in WorkerId, NEW w \in WorkerId,
               NEW i \in 1..Len(toWorker'[v]), NEW j \in 1..Len(toWorker'[w]),
               toWorker'[v][i] = Launch(o), toWorker'[w][j] = Launch(o)
        PROVE  v = w /\ i = j
    <3>1. \/ i \in 1..Len(net[v]) /\ net[v][i] = Launch(o)
          \/ v \in alive /\ i - Len(net[v]) \in Nat /\ at(v, i) \in 1..Len(q) /\ q[at(v, i)] = o
      BY <2>6, <2>9
    <3>2. \/ j \in 1..Len(net[w]) /\ net[w][j] = Launch(o)
          \/ w \in alive /\ j - Len(net[w]) \in Nat /\ at(w, j) \in 1..Len(q) /\ q[at(w, j)] = o
      BY <2>6, <2>9
    <3>3. ~ (LaunchedIn(net, o) /\ InQueue(q, o))
      BY DEF Once
    <3>4. CASE i \in 1..Len(net[v]) /\ net[v][i] = Launch(o) /\ j \in 1..Len(net[w]) /\ net[w][j] = Launch(o)
      BY <3>4 DEF Once
    <3>5. CASE /\ v \in alive /\ i - Len(net[v]) \in Nat /\ at(v, i) \in 1..Len(q) /\ q[at(v, i)] = o
               /\ w \in alive /\ j - Len(net[w]) \in Nat /\ at(w, j) \in 1..Len(q) /\ q[at(w, j)] = o
      <4> DEFINE c == place(v)
                 d == place(w)
                 m == i - Len(net[v])
                 n == j - Len(net[w])
      <4>1. c \in 1..k /\ d \in 1..k /\ order[c] = v /\ order[d] = w /\ m \in Nat /\ n \in Nat
        BY <2>5, <3>5
      <4>2. at(v, i) = at(w, j)
        BY <3>5 DEF Once
      <4>3. c + (m - 1) * k = d + (n - 1) * k
        BY <4>2 DEF at
      <4> HIDE DEF c, d, m, n
      <4>4. c = d /\ m = n
        BY <2>2, <4>1, <4>3, PositionsApart
      <4>5. v = w
        BY <4>1, <4>4
      <4>6. i \in Int /\ j \in Int /\ Len(net[v]) \in Nat
        BY LenProperties
      <4> QED
        BY <4>4, <4>5, <4>6 DEF m, n
    <3> QED
      BY <3>1, <3>2, <3>3, <3>4, <3>5 DEF LaunchedIn, InQueue
  <2>10. Len(waitingDrivers') = 0
    BY <2>3, EmptySeq
  <2>11. Once(waitingDrivers', toWorker', h)
    <3>1. 1..Len(waitingDrivers') = {}
      BY <2>10
    <3> QED
      BY <2>8, <2>9, <3>1 DEF Once, InQueue
  <2> QED
    BY <2>7, <2>11
<1> QED
  BY <1>1, <1>2

-----------------------------------------------------------------------------
(* Steps of the master                                                     *)

LEMMA ChannelTypes ==
  ASSUME MasterInv
  PROVE  toWorker \in [WorkerId -> Seq(ToWorkerMsg)] /\ workers \subseteq WorkerId
BY DEF MasterInv, MasterTypeOK, ChannelTypeOK, WorkersTypeOK

\* What is launched was launched before, or waited, and so had been submitted.
LEMMA OnceStill ==
  ASSUME DriversInv, OnceInv, host' = host, submitted' = submitted,
         Once(waitingDrivers', toWorker', host),
         \A o \in DriverObj : LaunchedIn(toWorker', o) => LaunchedIn(toWorker, o) \/ InQueue(waitingDrivers, o)
  PROVE  OnceInv'
<1>1. ASSUME NEW o \in DriverObj, o.seq > submitted'[o.id]
      PROVE  host'[o] = None /\ ~ LaunchedIn(toWorker', o)
  <2>1. host[o] = None /\ ~ LaunchedIn(toWorker, o)
    BY <1>1 DEF OnceInv, NotLaunched
  <2>2. o.seq \in Nat /\ submitted[o.id] \in Nat
    BY ObjectTypes, DriverTypes, ConstantsAssumption DEF DriversInv
  <2>3. ~ InQueue(waitingDrivers, o)
    BY <1>1, <2>2 DEF InQueue, DriversInv, KnownSubmitted
  <2> QED
    BY <2>1, <2>3
<1>2. Once(waitingDrivers', toWorker', host')
  OBVIOUS
<1>3. NotLaunched'
  <2>1. NotLaunched' <=> \A o \in DriverObj : o.seq > submitted'[o.id] => host'[o] = None /\ ~ LaunchedIn(toWorker', o)
    BY DEF NotLaunched, LaunchedIn, Launch
  <2> QED
    BY <1>1, <2>1
<1>4. Once(waitingDrivers, toWorker, host)' <=> Once(waitingDrivers', toWorker', host')
  BY DEF Once, InQueue, LaunchedIn, Launch
<1> QED
  BY <1>2, <1>3, <1>4 DEF OnceInv

LEMMA OnceQuiet ==
  ASSUME DriversInv, OnceInv, MasterInv', host' = host, submitted' = submitted,
         NoNewLaunch(toWorker, toWorker'), waitingDrivers' \in {<<>>, waitingDrivers}
  PROVE  OnceInv'
<1>1. toWorker' \in [WorkerId -> Seq(ToWorkerMsg)]
  BY ChannelTypes DEF MasterInv, MasterTypeOK, ChannelTypeOK
<1>2. Len(<<>>) = 0 /\ 1..0 = {}
  BY EmptySeq
<1>3. /\ \A i, j \in 1..Len(waitingDrivers') : waitingDrivers'[i] = waitingDrivers'[j] => i = j
      /\ \A o \in DriverObj : InQueue(waitingDrivers', o) => InQueue(waitingDrivers, o)
  BY <1>2 DEF InQueue, OnceInv, Once
<1>4. Once(waitingDrivers, toWorker, host)
  BY DEF OnceInv
<1>5. Once(waitingDrivers', toWorker', host)
  BY <1>1, <1>3, <1>4, OnceKept
<1> QED
  BY <1>5, NoneLaunched, OnceStill

LEMMA OnceRescheduled ==
  ASSUME DriversInv, OnceInv, MasterInv', host' = host, submitted' = submitted,
         NEW called, NEW ds, NEW dw, NEW wd, NEW net \in [WorkerId -> Seq(ToWorkerMsg)],
         NoNewLaunch(toWorker, net), Schedule(called, waitingDrivers, ds, dw, wd, net)
  PROVE  OnceInv'
<1>1. waitingDrivers \in Seq(DriverObj) /\ workers' \subseteq WorkerId
  BY DriverTypes DEF DriversInv, MasterInv, MasterTypeOK, WorkersTypeOK
<1>2. Once(waitingDrivers, net, host)
  <2>1. /\ Once(waitingDrivers, toWorker, host)
        /\ \A i, j \in 1..Len(waitingDrivers) : waitingDrivers[i] = waitingDrivers[j] => i = j
    BY DEF OnceInv, Once
  <2> QED
    BY <2>1, OnceKept
<1>3. /\ Once(waitingDrivers', toWorker', host)
      /\ \A o \in DriverObj : LaunchedIn(toWorker', o) => LaunchedIn(net, o) \/ InQueue(waitingDrivers, o)
  BY <1>1, <1>2, OnceScheduled
<1>4. \A o \in DriverObj : LaunchedIn(toWorker', o) => LaunchedIn(toWorker, o) \/ InQueue(waitingDrivers, o)
  BY <1>3, NoneLaunched
<1> QED
  BY <1>3, <1>4, OnceStill

\* The same for the channels as they are.
LEMMA OnceScheduledAgain ==
  ASSUME DriversInv, OnceInv, MasterInv', host' = host, submitted' = submitted,
         NEW called, NEW ds, NEW dw, NEW wd,
         Schedule(called, waitingDrivers, ds, dw, wd, toWorker)
  PROVE  OnceInv'
<1>1. toWorker \in [WorkerId -> Seq(ToWorkerMsg)]
  BY ChannelTypes DEF DriversInv
<1>2. NoNewLaunch(toWorker, toWorker)
  BY <1>1, NoNewSame
<1> QED
  BY <1>1, <1>2, OnceRescheduled

\* Nothing is sent to workers and the queue is kept or forgotten.
LEMMA OnceUnchanged ==
  ASSUME DriversInv, OnceInv, MasterInv', host' = host, submitted' = submitted,
         toWorker' = toWorker, waitingDrivers' \in {<<>>, waitingDrivers}
  PROVE  OnceInv'
<1>1. toWorker \in [WorkerId -> Seq(ToWorkerMsg)]
  BY ChannelTypes DEF DriversInv
<1>2. NoNewLaunch(toWorker, toWorker')
  BY <1>1, NoNewSame
<1> QED
  BY <1>2, OnceQuiet

LEMMA OnceAnswered ==
  ASSUME DriversInv, OnceInv, MasterInv', host' = host, submitted' = submitted,
         NEW w \in WorkerId, NEW m \in ToWorkerMsg, m.type # "LaunchDriver",
         toWorker' = SendTo(toWorker, w, m), waitingDrivers' = waitingDrivers
  PROVE  OnceInv'
<1>1. toWorker \in [WorkerId -> Seq(ToWorkerMsg)]
  BY ChannelTypes DEF DriversInv
<1>2. NoNewLaunch(toWorker, toWorker')
  BY <1>1, NoNewSent
<1> QED
  BY <1>2, OnceQuiet

LEMMA OnceRemovalThrows ==
  ASSUME DriversInv, OnceInv, MasterInv', host' = host, NEW gone, RemovalThrows(gone)
  PROVE  OnceInv'
BY OnceUnchanged DEF RemovalThrows, RestartActor, ForgetMemory

LEMMA OnceRemoveAll ==
  ASSUME DriversInv, OnceInv, MasterInv', host' = host, NEW R, NEW A, NEW s, RemoveAll(R, A, s)
  PROVE  OnceInv'
<1>1. PICK gone : \/ RemovalThrows(gone)
                  \/ /\ submitted' = submitted
                     /\ Schedule(gone # {} \/ s # state, waitingDrivers,
                                 dstateAfter(gone, "ERROR"), dworker, wdriversAfter(gone), toWorker)
  BY DEF RemoveAll
<1> QED
  BY <1>1, OnceRemovalThrows, OnceScheduledAgain

LEMMA OnceLost ==
  ASSUME DriversInv, OnceInv, MasterInv', host' = host,
         \/ CompleteRecovery
         \/ \E a \in Addr : onDisconnected(a)
         \/ \E w \in WorkerId : CheckForWorkerTimeOut(w) \/ TimePasses(w)
  PROVE  OnceInv'
<1>1. CASE CompleteRecovery
  BY <1>1, OnceRemoveAll DEF CompleteRecovery
<1>2. CASE \E a \in Addr : onDisconnected(a)
  BY <1>2, OnceRemoveAll DEF onDisconnected
<1>3. ASSUME NEW w \in WorkerId, CheckForWorkerTimeOut(w) PROVE OnceInv'
  BY <1>3, OnceRemoveAll, OnceUnchanged DEF CheckForWorkerTimeOut, channelVars, driverVars
<1>4. ASSUME NEW w \in WorkerId, TimePasses(w) PROVE OnceInv'
  BY <1>4, OnceUnchanged DEF TimePasses, channelVars, driverVars
<1> QED
  BY <1>1, <1>2, <1>3, <1>4

LEMMA OnceElected ==
  ASSUME DriversInv, OnceInv, MasterInv', host' = host, ElectedLeader
  PROVE  OnceInv'
<1>1. CASE ElectedFresh
  BY <1>1, OnceUnchanged DEF ElectedFresh, driverVars
<1>2. CASE beginRecovery
  <2>1. /\ toWorker' = [w \in WorkerId |-> IF w \in pworkers THEN Append(toWorker[w], Changed) ELSE toWorker[w]]
        /\ UNCHANGED <<waitingDrivers, submitted>>
    BY <1>2 DEF beginRecovery, recoverWorkers, recoverDrivers
  <2>2. /\ toWorker \in [WorkerId -> Seq(ToWorkerMsg)]
        /\ toWorker' \in [WorkerId -> Seq(ToWorkerMsg)]
    BY DEF DriversInv, MasterInv, MasterTypeOK, ChannelTypeOK
  <2>3. ASSUME NEW w \in WorkerId, NEW i \in 1..Len(toWorker'[w])
        PROVE  \/ i \in 1..Len(toWorker[w]) /\ toWorker'[w][i] = toWorker[w][i]
               \/ toWorker'[w][i].type # "LaunchDriver"
    <3>1. CASE w \notin pworkers
      BY <2>1, <3>1
    <3>2. CASE w \in pworkers
      <4>1. toWorker'[w] = Append(toWorker[w], Changed) /\ Changed.type = "MasterChanged"
        BY <2>1, <3>2 DEF Changed
      <4>2. /\ Len(toWorker[w]) \in Nat /\ Len(toWorker'[w]) = Len(toWorker[w]) + 1
            /\ toWorker'[w][i] = IF i = Len(toWorker[w]) + 1 THEN Changed ELSE toWorker[w][i]
        BY <2>2, <4>1, AppendProperties, LenProperties
      <4> QED
        BY <4>1, <4>2
    <3> QED
      BY <3>1, <3>2
  <2>4. NoNewLaunch(toWorker, toWorker')
    BY <2>2, <2>3, NoNewAfter
  <2> QED
    BY <2>1, <2>4, OnceQuiet
<1> QED
  BY <1>1, <1>2 DEF ElectedLeader

LEMMA OnceWorkerMessage ==
  ASSUME DriversInv, OnceInv, MasterInv', host' = host, NEW w \in WorkerId, WorkerMessage(w)
  PROVE  OnceInv'
<1> USE DEF memoryVars, driverVars
<1>0. /\ toWorker \in [WorkerId -> Seq(ToWorkerMsg)]
      /\ toWorker' \in [WorkerId -> Seq(ToWorkerMsg)]
      /\ MasterTypeOK
  BY DEF DriversInv, MasterInv, MasterTypeOK, ChannelTypeOK
<1>1. ASSUME NEW m \in ToWorkerMsg, m.type # "LaunchDriver", Answer(w, m),
             UNCHANGED <<waitingDrivers, submitted>>
      PROVE  OnceInv'
  BY <1>1, OnceAnswered DEF Answer
<1>2. CASE RegisterWorkerInStandby(w) \/ RegisterWorkerDuplicate(w) \/ RegisterWorkerAddressInUse(w)
  BY <1>0, <1>1, <1>2, MessageTypes DEF RegisterWorkerInStandby, RegisterWorkerDuplicate, RegisterWorkerAddressInUse
<1>3. CASE RegisterWorkerAccepted(w)
  <2> DEFINE m == [type |-> "RegisteredWorker", master |-> epoch]
             net == SendTo(toWorker, w, m)
             dw == [o \in DriverObj |-> IF dworker[o] = Ref(w) THEN Replaced(w) ELSE dworker[o]]
  <2>1. PICK gone : \/ RemovalThrows(gone)
                    \/ /\ submitted' = submitted
                       /\ Schedule(TRUE, waitingDrivers, dstateAfter(gone, "ERROR"), dw,
                                   [wdriversAfter(gone) EXCEPT ![w] = {}], net)
    BY <1>3 DEF RegisterWorkerAccepted
  <2>2. m \in ToWorkerMsg /\ m.type # "LaunchDriver"
    BY <1>0, MessageTypes
  <2> HIDE DEF m, dw
  <2>3. net \in [WorkerId -> Seq(ToWorkerMsg)] /\ NoNewLaunch(toWorker, net)
    BY <1>0, <2>2, NoNewSent
  <2> HIDE DEF net
  <2> QED
    BY <2>1, <2>3, OnceRemovalThrows, OnceRescheduled
<1>4. CASE Heartbeat(w)
  <2>1. CASE UNCHANGED <<submitted, waitingDrivers, toWorker>>
    BY <2>1, OnceUnchanged
  <2>2. CASE Answer(w, [type |-> "ReconnectWorker", master |-> epoch]) /\ UNCHANGED memoryVars
    BY <1>0, <1>1, <2>2, MessageTypes
  <2> QED
    BY <1>4, <2>1, <2>2 DEF Heartbeat, channelVars, masterVars
<1>5. ASSUME NEW ids \in SUBSET DriverId, WorkerSchedulerStateResponse(w, ids)
      PROVE  OnceInv'
  <2>1. PICK found : /\ submitted' = submitted
                     /\ Schedule(state' # state, waitingDrivers, dstateAfter(found, "RUNNING"),
                                 [o \in DriverObj |-> IF o \in found THEN Ref(w) ELSE dworker[o]],
                                 [wdrivers EXCEPT ![w] = @ \cup {o.id : o \in found}], toWorker)
    BY <1>5 DEF WorkerSchedulerStateResponse
  <2> DEFINE called == state' # state
             ds == dstateAfter(found, "RUNNING")
             dw == [o \in DriverObj |-> IF o \in found THEN Ref(w) ELSE dworker[o]]
             wd == [wdrivers EXCEPT ![w] = @ \cup {o.id : o \in found}]
  <2>2. submitted' = submitted /\ Schedule(called, waitingDrivers, ds, dw, wd, toWorker)
    BY <2>1
  <2> HIDE DEF called, ds, dw, wd
  <2> QED
    BY <2>2, OnceScheduledAgain
<1>6. ASSUME NEW ids \in SUBSET DriverId, WorkerLatestState(w, ids)
      PROVE  OnceInv'
  <2>1. UNCHANGED <<submitted, waitingDrivers>>
    BY <1>6 DEF WorkerLatestState
  <2>2. CASE UNCHANGED toWorker
    BY <2>1, <2>2, OnceUnchanged
  <2>3. ASSUME NEW order \in Shuffles(ids \ wdrivers[w]),
               toWorker' = [toWorker EXCEPT ![w] = @ \o
                 [i \in 1..Len(order) |-> [type |-> "KillDriver", id |-> order[i]]]]
        PROVE  OnceInv'
    <3> DEFINE n == Cardinality(ids \ wdrivers[w])
               killMsgs == [i \in 1..Len(order) |-> [type |-> "KillDriver", id |-> order[i]]]
    <3>1. IsFiniteSet(ids \ wdrivers[w])
      BY FS_Subset, ConstantsAssumption
    <3>2. n \in Nat /\ order \in [1..n -> ids \ wdrivers[w]]
      BY <3>1, ShuffleIsSeq
    <3> HIDE DEF n
    <3>3. order \in Seq(DriverId)
      BY <3>2
    <3>4. Len(order) \in Nat /\ \A i \in 1..Len(order) : order[i] \in DriverId
      BY <3>3, LenProperties, ElementOfSeq
    <3>5. \A i \in 1..Len(order) : [type |-> "KillDriver", id |-> order[i]] \in ToWorkerMsg
      BY <1>0, <3>4, MessageTypes
    <3>6. killMsgs \in Seq(ToWorkerMsg)
      BY <3>4, <3>5
    <3>7. \A i \in 1..Len(killMsgs) : killMsgs[i].type # "LaunchDriver"
      <4>1. DOMAIN killMsgs = 1..Len(order)
        OBVIOUS
      <4>2. Len(killMsgs) = Len(order)
        <5> HIDE DEF killMsgs
        <5> QED
          BY <3>4, <3>6, <4>1, LenProperties
      <4> QED
        BY <4>2
    <3> HIDE DEF killMsgs
    <3>8. toWorker'[w] = toWorker[w] \o killMsgs /\ \A v \in WorkerId \ {w} : toWorker'[v] = toWorker[v]
      BY <1>0, <2>3 DEF killMsgs
    <3>9. /\ Len(toWorker[w]) \in Nat /\ Len(killMsgs) \in Nat
          /\ Len(toWorker'[w]) = Len(toWorker[w]) + Len(killMsgs)
          /\ \A i \in 1..(Len(toWorker[w]) + Len(killMsgs)) :
               toWorker'[w][i] = IF i <= Len(toWorker[w]) THEN toWorker[w][i] ELSE killMsgs[i - Len(toWorker[w])]
      BY <1>0, <3>6, <3>8, ConcatProperties, LenProperties
    <3>10. ASSUME NEW v \in WorkerId, NEW i \in 1..Len(toWorker'[v])
           PROVE  \/ i \in 1..Len(toWorker[v]) /\ toWorker'[v][i] = toWorker[v][i]
                  \/ toWorker'[v][i].type # "LaunchDriver"
      <4>1. CASE v # w
        BY <3>8, <4>1
      <4>2. CASE v = w /\ i <= Len(toWorker[w])
        BY <3>9, <4>2
      <4>3. CASE v = w /\ ~ (i <= Len(toWorker[w]))
        <5>1. i - Len(toWorker[w]) \in 1..Len(killMsgs)
          BY <3>9, <4>3
        <5> QED
          BY <3>7, <3>9, <4>3, <5>1
      <4> QED
        BY <4>1, <4>2, <4>3
    <3>11. NoNewLaunch(toWorker, toWorker')
      BY <1>0, <3>10, NoNewAfter
    <3> QED
      BY <2>1, <3>11, OnceQuiet
  <2> QED
    BY <1>6, <2>2, <2>3 DEF WorkerLatestState
<1> QED
  BY <1>2, <1>3, <1>4, <1>5, <1>6 DEF WorkerMessage, RegisterWorker

\* A submission starts with nothing on its way.
LEMMA OnceSubmitted ==
  ASSUME DriversInv, OnceInv, MasterInv', host' = host, NEW d \in DriverId, RequestSubmitDriver(d)
  PROVE  OnceInv'
<1>1. CASE UNCHANGED <<memoryVars, toWorker, toApp>>
  BY <1>1, OnceUnchanged DEF memoryVars, driverVars
<1>2. CASE state = "ACTIVE" /\ submitted[d] < MaxSubmit
  <2> DEFINE n == NextOf(d)
             q == Append(waitingDrivers, n)
  <2>1. /\ submitted' = [submitted EXCEPT ![d] = @ + 1]
        /\ Schedule(TRUE, q, dstate, dworker, wdrivers, toWorker)
    BY <1>2 DEF RequestSubmitDriver, NextOf
  <2>2. /\ n \in DriverObj /\ n.id = d /\ n.seq = submitted[d] + 1 /\ submitted[d] \in Nat
        /\ waitingDrivers \in Seq(DriverObj) /\ Len(waitingDrivers) \in Nat
        /\ \A i \in 1..Len(waitingDrivers) : waitingDrivers[i] \in DriverObj
        /\ submitted \in [DriverId -> 0..MaxSubmit]
    BY <1>2, FreshObject, DriverTypes DEF DriversInv
  <2>3. toWorker \in [WorkerId -> Seq(ToWorkerMsg)] /\ workers' \subseteq WorkerId
    BY ChannelTypes DEF DriversInv, MasterInv, MasterTypeOK, WorkersTypeOK
  <2> HIDE DEF n
  <2>4. host[n] = None /\ ~ LaunchedIn(toWorker, n) /\ n.seq > submitted[n.id]
    BY <2>2 DEF OnceInv, NotLaunched
  <2>5. \A i \in 1..Len(waitingDrivers) : waitingDrivers[i] # n
    BY <2>2, <2>4 DEF DriversInv, KnownSubmitted
  <2>6. /\ q \in Seq(DriverObj) /\ Len(q) = Len(waitingDrivers) + 1
        /\ \A i \in 1..Len(q) : q[i] = IF i = Len(waitingDrivers) + 1 THEN n ELSE waitingDrivers[i]
    BY <2>2, AppendProperties
  <2> HIDE DEF q
  <2>7. Once(waitingDrivers, toWorker, host)
    BY DEF OnceInv
  <2>8. Once(q, toWorker, host)
    <3>1. \A i \in 1..Len(q) : i # Len(waitingDrivers) + 1 => i \in 1..Len(waitingDrivers)
      BY <2>2, <2>6
    <3>2. ASSUME NEW i \in 1..Len(q), NEW j \in 1..Len(q), q[i] = q[j] PROVE i = j
      <4>1. CASE i = Len(waitingDrivers) + 1 \/ j = Len(waitingDrivers) + 1
        BY <2>5, <2>6, <3>1, <3>2, <4>1
      <4>2. CASE i # Len(waitingDrivers) + 1 /\ j # Len(waitingDrivers) + 1
        <5>1. waitingDrivers[i] = waitingDrivers[j] /\ i \in 1..Len(waitingDrivers) /\ j \in 1..Len(waitingDrivers)
          BY <2>6, <3>1, <3>2, <4>2
        <5> QED
          BY <2>7, <5>1 DEF Once
      <4> QED
        BY <4>1, <4>2
    <3>3. \A o \in DriverObj : InQueue(q, o) => o = n \/ InQueue(waitingDrivers, o)
      BY <2>6, <3>1 DEF InQueue
    <3>4. \A o \in DriverObj : InQueue(q, o) => host[o] = None /\ ~ LaunchedIn(toWorker, o)
      BY <2>4, <2>7, <3>3 DEF Once
    <3> QED
      BY <2>7, <3>2, <3>4 DEF Once
  <2>9. /\ Once(waitingDrivers', toWorker', host)
        /\ \A o \in DriverObj : LaunchedIn(toWorker', o) => LaunchedIn(toWorker, o) \/ InQueue(q, o)
    BY <2>1, <2>3, <2>6, <2>8, OnceScheduled
  <2>10. ASSUME NEW o \in DriverObj, o.seq > submitted'[o.id]
         PROVE  host'[o] = None /\ ~ LaunchedIn(toWorker', o)
    <3>1. o.id \in DriverId /\ o.seq \in Nat /\ submitted[o.id] \in Nat
      BY <2>2, ObjectTypes, ConstantsAssumption
    <3>2. o.seq > submitted[o.id] /\ o # n
      BY <2>1, <2>2, <2>10, <3>1
    <3>3. host[o] = None /\ ~ LaunchedIn(toWorker, o)
      BY <3>2 DEF OnceInv, NotLaunched
    <3>4. ~ InQueue(waitingDrivers, o)
      BY <3>1, <3>2 DEF InQueue, DriversInv, KnownSubmitted
    <3>5. ~ InQueue(q, o)
      <4>1. \A i \in 1..Len(q) : i # Len(waitingDrivers) + 1 => i \in 1..Len(waitingDrivers)
        BY <2>2, <2>6
      <4> QED
        BY <2>6, <3>2, <3>4, <4>1 DEF InQueue
    <3> QED
      BY <2>9, <3>3, <3>5
  <2>11. NotLaunched' <=> \A o \in DriverObj : o.seq > submitted'[o.id] => host'[o] = None /\ ~ LaunchedIn(toWorker', o)
    BY DEF NotLaunched, LaunchedIn, Launch
  <2>12. Once(waitingDrivers, toWorker, host)' <=> Once(waitingDrivers', toWorker', host')
    BY DEF Once, InQueue, LaunchedIn, Launch
  <2> QED
    BY <2>9, <2>10, <2>11, <2>12 DEF OnceInv
<1> QED
  BY <1>1, <1>2 DEF RequestSubmitDriver

\* A driver killed while it waits leaves the queue, in which the others stay apart.
LEMMA OnceKill ==
  ASSUME DriversInv, OnceInv, MasterInv', host' = host, NEW d \in DriverId, RequestKillDriver(d)
  PROVE  OnceInv'
<1>0. /\ submitted' = submitted /\ MasterTypeOK
      /\ toWorker \in [WorkerId -> Seq(ToWorkerMsg)]
      /\ drivers \subseteq DriverObj /\ dworker \in [DriverObj -> WorkerRef \cup {None}]
      /\ waitingDrivers \in Seq(DriverObj) /\ Len(waitingDrivers) \in Nat
  BY ChannelTypes, DriverTypes DEF RequestKillDriver, DriversInv, MasterInv
<1>1. ASSUME NEW i \in 1..Len(waitingDrivers), UNCHANGED toWorker,
             waitingDrivers' = [j \in 1..(Len(waitingDrivers) - 1) |->
                                  IF j < i THEN waitingDrivers[j] ELSE waitingDrivers[j + 1]]
      PROVE  OnceInv'
  <2> DEFINE n == Len(waitingDrivers) - 1
             from(j) == IF j < i THEN j ELSE j + 1
  <2>1. n \in Nat /\ \A j \in 1..n : from(j) \in 1..Len(waitingDrivers)
    BY <1>0
  <2>2. \A j, l \in 1..n : from(j) = from(l) => j = l
    BY <2>1
  <2>3. waitingDrivers' \in Seq(DriverObj)
    BY DEF MasterInv, MasterTypeOK, DriversTypeOK
  <2>4. DOMAIN waitingDrivers' = 1..n /\ \A j \in 1..n : waitingDrivers'[j] = waitingDrivers[from(j)]
    BY <1>1
  <2> HIDE DEF n
  <2>5. Len(waitingDrivers') = n
    BY <2>1, <2>3, <2>4, LenProperties
  <2> HIDE DEF from
  <2>6. Once(waitingDrivers, toWorker, host)
    BY DEF OnceInv
  <2>7. \A j, l \in 1..Len(waitingDrivers') : waitingDrivers'[j] = waitingDrivers'[l] => j = l
    <3>1. ASSUME NEW j \in 1..n, NEW l \in 1..n, waitingDrivers'[j] = waitingDrivers'[l]
          PROVE  j = l
      <4>1. waitingDrivers[from(j)] = waitingDrivers[from(l)]
        BY <2>4, <3>1
      <4>2. from(j) \in 1..Len(waitingDrivers) /\ from(l) \in 1..Len(waitingDrivers)
        BY <2>1
      <4>3. from(j) = from(l)
        BY <2>6, <4>1, <4>2 DEF Once
      <4> QED
        BY <2>2, <4>3
    <3> QED
      BY <2>5, <3>1
  <2>8. \A o \in DriverObj : InQueue(waitingDrivers', o) => InQueue(waitingDrivers, o)
    BY <2>1, <2>4, <2>5 DEF InQueue
  <2>9. Once(waitingDrivers', toWorker', host)
    <3>1. toWorker' = toWorker /\ NoNewLaunch(toWorker, toWorker)
      BY <1>0, <1>1, NoNewSame
    <3> HIDE DEF n
    <3>2. Once(waitingDrivers', toWorker, host)
      BY <1>0, <2>6, <2>7, <2>8, <3>1, OnceKept
    <3> QED
      BY <3>1, <3>2
  <2> QED
    BY <1>0, <1>1, <2>9, OnceStill
<1>2. ASSUME NEW o \in Named(d), dworker[o] # None,
             toWorker' = SendTo(toWorker, dworker[o].id, [type |-> "KillDriver", id |-> d]),
             UNCHANGED waitingDrivers
      PROVE  OnceInv'
  <2>1. dworker[o].id \in WorkerId
    BY <1>0, <1>2 DEF Named, WorkerRef
  <2> DEFINE m == [type |-> "KillDriver", id |-> d]
  <2>2. m \in ToWorkerMsg /\ m.type # "LaunchDriver"
    BY <1>0, MessageTypes
  <2>3. toWorker' = SendTo(toWorker, dworker[o].id, m)
    BY <1>2
  <2> HIDE DEF m
  <2> QED
    BY <1>0, <1>2, <2>1, <2>2, <2>3, OnceAnswered
<1>3. CASE UNCHANGED <<waitingDrivers, toWorker>>
  BY <1>0, <1>3, OnceUnchanged
<1> QED
  BY <1>1, <1>2, <1>3 DEF RequestKillDriver

LEMMA OnceStateChanged ==
  ASSUME DriversInv, OnceInv, MasterInv', host' = host, NEW d, NEW st, DriverStateChanged(d, st)
  PROVE  OnceInv'
<1>1. CASE UNCHANGED <<waitingDrivers, submitted, toWorker>>
  BY <1>1, OnceUnchanged
<1>2. ASSUME RestartActor(pdrivers) PROVE OnceInv'
  BY <1>2, OnceUnchanged DEF RestartActor, ForgetMemory
<1>3. ASSUME NEW o, UNCHANGED submitted,
             Schedule(TRUE, waitingDrivers, dstateAfter({o}, st), dworker, wdriversAfter({o}), toWorker)
      PROVE  OnceInv'
  BY <1>3, OnceScheduledAgain
<1> QED
  BY <1>1, <1>2, <1>3 DEF DriverStateChanged, removeDriver, memoryVars, driverVars

\* A step of the master launches no driver twice.
LEMMA OnceMaster ==
  ASSUME DriversInv, OnceInv, host' = host, [MasterNext]_masterVars
  PROVE  OnceInv'
<1>0. MasterInv'
  BY InvStep DEF DriversInv
<1>1. CASE ElectedLeader
  BY <1>0, <1>1, OnceElected
<1>2. CASE CompleteRecovery
  BY <1>0, <1>2, OnceLost
<1>3. CASE ProcessExit
  <2>1. toWorker' = [w \in WorkerId |-> <<>>] /\ waitingDrivers' = <<>> /\ submitted' = submitted
    BY <1>3 DEF ProcessExit, ForgetMemory
  <2>2. NoNewLaunch(toWorker, toWorker')
    <3>1. \A w \in WorkerId : 1..Len(toWorker'[w]) = {}
      BY <2>1, EmptySeq
    <3> QED
      BY <3>1 DEF NoNewLaunch
  <2> QED
    BY <1>0, <2>1, <2>2, OnceQuiet
<1>4. CASE SelfMessage
  <2>1. toSelf \in Seq(ToSelfMsg) /\ toSelf # <<>>
    BY <1>4 DEF SelfMessage, DriversInv, MasterInv, MasterTypeOK, ChannelTypeOK
  <2>2. Head(toSelf) \in ToSelfMsg
    BY <2>1, HeadTailProperties
  <2>3. Head(toSelf).id \in DriverId
    BY <2>2 DEF ToSelfMsg
  <2> QED
    BY <1>0, <1>4, <2>3, OnceSubmitted, OnceStateChanged DEF SelfMessage
<1>5. CASE MessagesTaken
  <2>1. UNCHANGED <<waitingDrivers, submitted>>
    BY <1>5 DEF MessagesTaken, memoryVars, driverVars
  <2>2. CASE UNCHANGED toWorker
    BY <1>0, <2>1, <2>2, OnceUnchanged
  <2>3. ASSUME NEW w \in WorkerId, NEW i \in 0..Len(toWorker[w]), NEW j \in 0..Len(toWorker[w]),
               toWorker' = [toWorker EXCEPT ![w] = SubSeq(@, i + 1, j)]
        PROVE  OnceInv'
    <3>1. NoNewLaunch(toWorker, toWorker')
      BY <2>3, NoNewTaken, ChannelTypes DEF DriversInv
    <3> QED
      BY <1>0, <2>1, <3>1, OnceQuiet
  <2> QED
    BY <1>5, <2>2, <2>3 DEF MessagesTaken
<1>6. ASSUME NEW w \in WorkerId, WorkerMessage(w) \/ TimePasses(w) \/ CheckForWorkerTimeOut(w)
      PROVE  OnceInv'
  BY <1>0, <1>6, OnceWorkerMessage, OnceLost
<1>7. ASSUME NEW d \in DriverId, DriverMessage(d)
      PROVE  OnceInv'
  <2>1. CASE ApplicationStateResponse(d)
    <3> DEFINE called == state' # state
    <3>1. submitted' = submitted /\ Schedule(called, waitingDrivers, dstate, dworker, wdrivers, toWorker)
      BY <2>1 DEF ApplicationStateResponse
    <3> HIDE DEF called
    <3> QED
      BY <1>0, <3>1, OnceScheduledAgain
  <2> QED
    BY <1>0, <1>7, <2>1, OnceSubmitted, OnceKill, OnceStateChanged DEF DriverMessage
<1>8. ASSUME NEW p \in AppProc, RegisterApplication(p)
      PROVE  OnceInv'
  BY <1>0, <1>8, OnceUnchanged DEF RegisterApplication, RegisterApplicationInStandby,
     RegisterApplicationRefused, RegisterApplicationAccepted, memoryVars, driverVars
<1>9. ASSUME NEW a \in Addr, onDisconnected(a)
      PROVE  OnceInv'
  BY <1>0, <1>9, OnceLost
<1>10. CASE UNCHANGED masterVars
  BY <1>0, <1>10, OnceUnchanged DEF masterVars, memoryVars, driverVars, channelVars
<1> QED
  BY <1>1, <1>2, <1>3, <1>4, <1>5, <1>6, <1>7, <1>8, <1>9, <1>10 DEF MasterNext

-----------------------------------------------------------------------------
(* The grid                                                                *)

LEMMA NoNewTail ==
  ASSUME NEW net \in [WorkerId -> Seq(ToWorkerMsg)], NEW w \in WorkerId, net[w] # <<>>
  PROVE  /\ [net EXCEPT ![w] = Tail(@)] \in [WorkerId -> Seq(ToWorkerMsg)]
         /\ NoNewLaunch(net, [net EXCEPT ![w] = Tail(@)])
         /\ 1 \in 1..Len(net[w]) /\ net[w][1] = Head(net[w])
         /\ \A i \in 1..Len(Tail(net[w])) : i + 1 \in 1..Len(net[w]) /\ Tail(net[w])[i] = net[w][i + 1]
<1> DEFINE net2 == [net EXCEPT ![w] = Tail(@)]
<1>1. net2 \in [WorkerId -> Seq(ToWorkerMsg)]
  BY Received
<1>2. /\ Len(net[w]) \in Nat /\ Len(net[w]) # 0
      /\ net[w][1] = Head(net[w])
      /\ Len(Tail(net[w])) = Len(net[w]) - 1
      /\ \A i \in 1..Len(Tail(net[w])) : Tail(net[w])[i] = net[w][i + 1]
  BY HeadTailProperties, LenProperties, EmptySeq
<1>3. 1 \in 1..Len(net[w]) /\ \A i \in 1..Len(Tail(net[w])) : i + 1 \in 1..Len(net[w])
  BY <1>2
<1>4. net2[w] = Tail(net[w]) /\ \A v \in WorkerId \ {w} : net2[v] = net[v]
  OBVIOUS
<1> HIDE DEF net2
<1>5. ASSUME NEW v \in WorkerId
      PROVE  \E k \in Nat : \A i \in 1..Len(net2[v]), o \in DriverObj :
               net2[v][i] = Launch(o) => i + k \in 1..Len(net[v]) /\ net[v][i + k] = Launch(o)
  <2>1. CASE v = w
    <3>1. \A i \in 1..Len(net2[v]), o \in DriverObj :
            net2[v][i] = Launch(o) => i + 1 \in 1..Len(net[v]) /\ net[v][i + 1] = Launch(o)
      BY <1>2, <1>3, <1>4, <2>1
    <3> QED
      BY <3>1
  <2>2. CASE v # w
    <3>1. \A i \in 1..Len(net[v]) : i + 0 = i
      BY LenProperties
    <3> QED
      BY <1>4, <2>2, <3>1
  <2> QED
    BY <2>1, <2>2
<1>6. NoNewLaunch(net, net2)
  BY <1>5 DEF NoNewLaunch
<1> QED
  BY <1>1, <1>2, <1>3, <1>6 DEF net2

LEMMA LaunchMessage ==
  ASSUME NEW m \in ToWorkerMsg, m.type = "LaunchDriver"
  PROVE  m.driver \in DriverObj /\ m = Launch(m.driver)
BY DEF ToWorkerMsg, Launch

\* A worker takes the one launch of a driver out of its channel and becomes its host.
LEMMA OnceLaunch ==
  ASSUME DriversInv, OnceInv, WorkerTypeOK, NEW w \in WorkerId, toWorker[w] # <<>>,
         toWorker' = [toWorker EXCEPT ![w] = Tail(@)], UNCHANGED <<waitingDrivers, submitted>>,
         Head(toWorker[w]).type = "LaunchDriver", LaunchDriver(w, Head(toWorker[w]).driver)
  PROVE  OnceInv'
<1> DEFINE o == Head(toWorker[w]).driver
<1>1. toWorker \in [WorkerId -> Seq(ToWorkerMsg)]
  BY ChannelTypes DEF DriversInv
<1>2. Head(toWorker[w]) \in ToWorkerMsg
  BY <1>1, Received
<1>3. o \in DriverObj /\ Head(toWorker[w]) = Launch(o)
  BY <1>2, LaunchMessage
<1>4. /\ toWorker' \in [WorkerId -> Seq(ToWorkerMsg)] /\ NoNewLaunch(toWorker, toWorker')
      /\ 1 \in 1..Len(toWorker[w]) /\ toWorker[w][1] = Launch(o)
      /\ toWorker'[w] = Tail(toWorker[w])
      /\ \A i \in 1..Len(toWorker'[w]) :
           i + 1 \in 1..Len(toWorker[w]) /\ toWorker'[w][i] = toWorker[w][i + 1]
      /\ \A v \in WorkerId \ {w} : toWorker'[v] = toWorker[v]
  <2>1. toWorker'[w] = Tail(toWorker[w]) /\ \A v \in WorkerId \ {w} : toWorker'[v] = toWorker[v]
    BY <1>1
  <2>2. /\ [toWorker EXCEPT ![w] = Tail(@)] \in [WorkerId -> Seq(ToWorkerMsg)]
        /\ NoNewLaunch(toWorker, [toWorker EXCEPT ![w] = Tail(@)])
        /\ 1 \in 1..Len(toWorker[w]) /\ toWorker[w][1] = Head(toWorker[w])
        /\ \A i \in 1..Len(Tail(toWorker[w])) :
             i + 1 \in 1..Len(toWorker[w]) /\ Tail(toWorker[w])[i] = toWorker[w][i + 1]
    BY <1>1, NoNewTail
  <2>3. toWorker[w][1] = Launch(o)
    BY <1>3, <2>2
  <2> HIDE DEF o
  <2> QED
    BY <2>1, <2>2, <2>3
<1>5. host' = [host EXCEPT ![o] = w] /\ host'[o] = w /\ \A x \in DriverObj \ {o} : host'[x] = host[x]
  BY <1>3 DEF LaunchDriver, WorkerTypeOK
<1>6. LaunchedIn(toWorker, o)
  BY <1>4 DEF LaunchedIn
<1> HIDE DEF o
<1>7. ~ LaunchedIn(toWorker', o)
  <2> SUFFICES ASSUME NEW v \in WorkerId, NEW i \in 1..Len(toWorker'[v]), toWorker'[v][i] = Launch(o)
               PROVE  FALSE
    BY DEF LaunchedIn
  <2>1. \A x \in WorkerId : \A j \in 1..Len(toWorker[x]) : toWorker[x][j] = Launch(o) => x = w /\ j = 1
    BY <1>3, <1>4 DEF OnceInv, Once
  <2>2. CASE v = w
    <3>1. i + 1 \in 1..Len(toWorker[w]) /\ toWorker[w][i + 1] = Launch(o)
      BY <1>4, <2>2
    <3>2. i + 1 = 1
      BY <2>1, <3>1
    <3>3. i \in Nat /\ i # 0
      BY <1>4, LenProperties
    <3> QED
      BY <3>2, <3>3
  <2>3. CASE v # w
    BY <1>4, <2>1, <2>3
  <2> QED
    BY <2>2, <2>3
<1>8. Once(waitingDrivers', toWorker', host)
  <2>1. /\ Once(waitingDrivers, toWorker, host)
        /\ \A i, j \in 1..Len(waitingDrivers) : waitingDrivers[i] = waitingDrivers[j] => i = j
    BY DEF OnceInv, Once
  <2>2. Once(waitingDrivers, toWorker', host)
    BY <1>4, <2>1, OnceKept
  <2> QED
    BY <2>2
<1>9. ~ InQueue(waitingDrivers', o) /\ ~ (o.seq > submitted'[o.id])
  BY <1>3, <1>6 DEF OnceInv, Once, NotLaunched, InQueue
<1>10. Once(waitingDrivers', toWorker', host')
  <2>1. \A x \in DriverObj : InQueue(waitingDrivers', x) => host'[x] = None /\ ~ LaunchedIn(toWorker', x)
    BY <1>5, <1>8, <1>9 DEF Once
  <2>2. \A x \in DriverObj : LaunchedIn(toWorker', x) => host'[x] = None
    BY <1>5, <1>7, <1>8 DEF Once
  <2> QED
    BY <1>8, <2>1, <2>2 DEF Once
<1>11. NotLaunched'
  <2>1. \A x \in DriverObj : x.seq > submitted'[x.id] => x # o /\ host[x] = None /\ ~ LaunchedIn(toWorker, x)
    BY <1>9 DEF OnceInv, NotLaunched
  <2>2. \A x \in DriverObj : x.seq > submitted'[x.id] => host'[x] = None /\ ~ LaunchedIn(toWorker', x)
    BY <1>4, <1>5, <2>1, NoneLaunched
  <2> QED
    BY <2>2 DEF NotLaunched, LaunchedIn
<1> QED
  BY <1>10, <1>11 DEF OnceInv, Once, InQueue, LaunchedIn

\* Only the delivery of a launch changes where a driver is.
LEMMA HostStays ==
  ASSUME [GridNext]_vars
  PROVE  \/ host' = host
         \/ \E w \in WorkerId :
              /\ toWorker[w] # <<>> /\ toWorker' = [toWorker EXCEPT ![w] = Tail(@)]
              /\ UNCHANGED <<waitingDrivers, submitted>>
              /\ Head(toWorker[w]).type = "LaunchDriver" /\ LaunchDriver(w, Head(toWorker[w]).driver)
<1> USE DEF workerActorVars, runnerVars
<1>1. CASE UNCHANGED vars
  BY <1>1 DEF vars
<1>2. CASE MasterStep
  BY <1>2 DEF MasterStep, Elected, Recovered, ToItself, MasterFails, MasterLoses, MasterAlone
<1>3. ASSUME NEW w \in WorkerId, WorkerStep(w), ~ DeliverToWorker(w)
      PROVE  host' = host
  <2>1. CASE Ageing(w) \/ TimeOut(w) \/ DeliverFromWorker(w) \/ Starting(w) \/ Beating(w) \/ BreakWorker(w)
    BY <2>1 DEF Ageing, TimeOut, DeliverFromWorker, Starting, StartWorker, Beating, SendHeartbeat,
       BreakWorker, MasterAlone
  <2>2. CASE Registering(w)
    BY <2>2 DEF Registering, tryRegisterAllMasters, gracefullyShutdown
  <2>3. CASE KillWorker(w) \/ \E e \in 1..MaxEpoch : WorkerLoses(w, e)
    BY <2>3 DEF KillWorker, WorkerKilled, WorkerLoses, masterDisconnected
  <2> QED
    BY <1>3, <2>1, <2>2, <2>3 DEF WorkerStep
<1>4. ASSUME NEW w \in WorkerId, DeliverToWorker(w)
      PROVE  \/ host' = host
             \/ /\ toWorker[w] # <<>> /\ toWorker' = [toWorker EXCEPT ![w] = Tail(@)]
                /\ UNCHANGED <<waitingDrivers, submitted>>
                /\ Head(toWorker[w]).type = "LaunchDriver" /\ LaunchDriver(w, Head(toWorker[w]).driver)
  <2> DEFINE m == Head(toWorker[w])
  <2>1. /\ toWorker[w] # <<>> /\ toWorker' = [toWorker EXCEPT ![w] = Tail(@)]
        /\ UNCHANGED <<waitingDrivers, submitted>>
        /\ FromMaster(w, m) \/ host' = host
    BY <1>4 DEF DeliverToWorker, memoryVars, driverVars
  <2> HIDE DEF m
  <2>2. FromMaster(w, m) => host' = host \/ (m.type = "LaunchDriver" /\ LaunchDriver(w, m.driver))
    BY DEF FromMaster, RegisteredWorker, RegisterWorkerFailed, gracefullyShutdown, MasterInStandby,
       MasterChanged, ReconnectWorker, KillDriver
  <2> QED
    BY <2>1, <2>2 DEF m
<1>5. ASSUME NEW o \in DriverObj, RunnerStep(o)
      PROVE  host' = host
  BY <1>5 DEF RunnerStep, RunnerStarting, RunnerStarts, SparkEnding, SparkEnds, Reporting, RunnerReports,
     handleDriverStateChanged
<1>6. ASSUME NEW p \in AppProc, AppStep(p)
      PROVE  host' = host
  BY <1>6 DEF AppStep, DeliverFromApp, DeliverToApp, AppStarting, AppRegistering, BreakApp, KillApp,
     AppLoses, AppExitNoticed
<1>7. CASE ClientStep
  BY <1>7 DEF ClientStep, Submit, AskStatus, stopApplication
<1> QED
  BY <1>1, <1>2, <1>3, <1>4, <1>5, <1>6, <1>7 DEF GridNext

LEMMA OnceInvStep ==
  ASSUME GridInv, DriversInv, OnceInv, [GridNext]_vars
  PROVE  OnceInv'
<1>1. [MasterNext]_masterVars
  BY GridMasterStep
<1>2. CASE host' = host
  BY <1>1, <1>2, OnceMaster
<1>3. WorkerTypeOK
  BY DEF GridInv, WorkerInv
<1> QED
  BY <1>2, <1>3, HostStays, OnceLaunch

LEMMA OnceInit == GridInit => OnceInv
<1> SUFFICES ASSUME GridInit PROVE OnceInv
  OBVIOUS
<1>1. /\ waitingDrivers = <<>> /\ toWorker = [w \in WorkerId |-> <<>>]
      /\ host = [o \in DriverObj |-> None]
  BY DEF GridInit, MasterInit, EmptyMemory, ChannelInit, WorkerInit
<1>2. 1..Len(waitingDrivers) = {} /\ \A w \in WorkerId : 1..Len(toWorker[w]) = {}
  BY <1>1, EmptySeq
<1>3. \A o \in DriverObj : host[o] = None /\ ~ LaunchedIn(toWorker, o) /\ ~ InQueue(waitingDrivers, o)
  BY <1>1, <1>2 DEF LaunchedIn, InQueue
<1> QED
  BY <1>2, <1>3 DEF OnceInv, Once, NotLaunched

\* The invariant holds in every state the grid can reach.
THEOREM OnceInvariant == GridSpec => []OnceInv
<1>1. GridInit => OnceInv
  BY OnceInit
<1>2. GridInv /\ DriversInv /\ OnceInv /\ [GridNext]_vars => OnceInv'
  BY OnceInvStep
<1> QED
  BY <1>1, <1>2, GridInvariant, GridMasterInvariant, PTL DEF GridSpec

LEMMA OnceCounts ==
  ASSUME OnceInv
  PROVE  LaunchedOnce
<1> SUFFICES ASSUME NEW o \in DriverObj
             PROVE  LET launched == Cardinality(LaunchesOf(o)) + IF host[o] # None THEN 1 ELSE 0
                    IN  launched + (IF Waits(o) THEN 1 ELSE 0) <= 1
  BY DEF LaunchedOnce
<1>1. \A p : p \in LaunchesOf(o) <=>
        \E w \in WorkerId : \E i \in 1..Len(toWorker[w]) : toWorker[w][i] = Launch(o) /\ p = <<w, i>>
  BY DEF LaunchesOf, Launch
<1>2. Waits(o) <=> InQueue(waitingDrivers, o)
  BY DEF Waits, InQueue
<1>3. Waits(o) => host[o] = None /\ ~ LaunchedIn(toWorker, o)
  BY <1>2 DEF OnceInv, Once
<1>4. CASE LaunchedIn(toWorker, o)
  <2>1. PICK w \in WorkerId : \E i \in 1..Len(toWorker[w]) : toWorker[w][i] = Launch(o)
    BY <1>4 DEF LaunchedIn
  <2>2. PICK i \in 1..Len(toWorker[w]) : toWorker[w][i] = Launch(o)
    BY <2>1
  <2>3. \A v \in WorkerId : \A j \in 1..Len(toWorker[v]) : toWorker[v][j] = Launch(o) => v = w /\ j = i
    BY <2>2 DEF OnceInv, Once
  <2>4. LaunchesOf(o) = {<<w, i>>}
    BY <1>1, <2>2, <2>3
  <2>5. Cardinality(LaunchesOf(o)) = 1
    BY <2>4, FS_Singleton
  <2>6. host[o] = None /\ ~ Waits(o)
    BY <1>3, <1>4 DEF OnceInv, Once
  <2> QED
    BY <2>5, <2>6
<1>5. CASE ~ LaunchedIn(toWorker, o)
  <2>1. LaunchesOf(o) = {}
    BY <1>1, <1>5 DEF LaunchedIn
  <2>2. Cardinality(LaunchesOf(o)) = 0
    BY <2>1, FS_EmptySet
  <2> QED
    BY <1>3, <2>2
<1> QED
  BY <1>4, <1>5

\* An accepted driver is started at most once, by one worker, whatever is redelivered,
\* rescheduled or recovered: it waits, or is on its way, or has reached one worker.
THEOREM DriverLaunchedOnce == GridSpec => []LaunchedOnce
<1>1. OnceInv => LaunchedOnce
  BY OnceCounts
<1> QED
  BY <1>1, OnceInvariant, PTL
=============================================================================
