----------------------- MODULE MoonboxMaster_proofs ------------------------
(***************************************************************************)
(* Theorems about MoonboxMaster for every set of workers, drivers,         *)
(* applications and addresses.                                             *)
(***************************************************************************)
EXTENDS MoonboxMaster, TLAPS, FiniteSetTheorems, SequenceTheorems

-----------------------------------------------------------------------------
(* schedule                                                                *)

\* The positions of the drivers sent to one worker are positions of the waiting list.
LEMMA LaunchPosition ==
  ASSUME NEW n \in Nat, NEW k \in Nat, k > 0, NEW c \in 1..k,
         NEW j \in 1..((n + k - c) \div k)
  PROVE  c + (j - 1) * k \in 1..n
<1> DEFINE m == (n + k - c) \div k
<1>1. m \in Nat /\ m * k <= n + k - c
  OBVIOUS
<1>2. j - 1 \in Nat /\ j - 1 <= m - 1
  BY <1>1
<1> HIDE DEF m
<1>3. (j - 1) * k <= (m - 1) * k /\ (j - 1) * k \in Nat
  BY <1>1, <1>2
<1>4. (m - 1) * k = m * k - k
  BY <1>1
<1>5. (j - 1) * k <= n - c
  BY <1>1, <1>3, <1>4
<1> QED
  BY <1>3, <1>5

\* Shuffling a finite set yields a sequence of all its elements.
LEMMA ShuffleIsSeq ==
  ASSUME NEW S, IsFiniteSet(S), NEW p \in Shuffles(S)
  PROVE  /\ Cardinality(S) \in Nat
         /\ p \in [1..Cardinality(S) -> S]
         /\ \A x \in S : \E i \in 1..Cardinality(S) : p[i] = x
BY FS_CardinalityType DEF Shuffles

\* The messages of one round of schedule() to one worker are LaunchDriver messages.
LEMMA LaunchesType ==
  ASSUME NEW waiting \in Seq(DriverObj), NEW k \in Nat, k > 0, NEW c \in 1..k
  PROVE  Launches(waiting, c, k) \in Seq(ToWorkerMsg)
<1> DEFINE n == Len(waiting)
           m == (n + k - c) \div k
           msg(j) == [type |-> "LaunchDriver", driver |-> waiting[c + (j - 1) * k]]
<1>1. n \in Nat /\ m \in Nat
  BY LenProperties
<1>2. ASSUME NEW j \in 1..m PROVE msg(j) \in ToWorkerMsg
  <2>1. c + (j - 1) * k \in 1..n
    BY <1>1, LaunchPosition
  <2>2. waiting[c + (j - 1) * k] \in DriverObj
    BY <2>1, ElementOfSeq
  <2> QED
    BY <2>2 DEF ToWorkerMsg
<1> HIDE DEF msg
<1>3. [j \in 1..m |-> msg(j)] \in Seq(ToWorkerMsg)
  BY <1>1, <1>2, IsASeq
<1> QED
  BY <1>3 DEF Launches, msg

\* schedule() keeps the types of what it touches, and leaves nothing waiting when it runs.
LEMMA ScheduleType ==
  ASSUME NEW called \in BOOLEAN,
         NEW waiting \in Seq(DriverObj),
         NEW ds \in [DriverObj -> DriverState],
         NEW dw \in [DriverObj -> WorkerRef \cup {None}],
         NEW wd \in [WorkerId -> SUBSET DriverId],
         NEW net \in [WorkerId -> Seq(ToWorkerMsg)],
         workers' \subseteq WorkerId,
         Schedule(called, waiting, ds, dw, wd, net)
  PROVE  /\ waitingDrivers' \in Seq(DriverObj)
         /\ dstate' \in [DriverObj -> DriverState]
         /\ dworker' \in [DriverObj -> WorkerRef \cup {None}]
         /\ wdrivers' \in [WorkerId -> SUBSET DriverId]
         /\ toWorker' \in [WorkerId -> Seq(ToWorkerMsg)]
<1>1. CASE ~ (called /\ state' = "ACTIVE" /\ AliveNow # {})
  BY <1>1 DEF Schedule
<1>2. CASE called /\ state' = "ACTIVE" /\ AliveNow # {}
  <2> DEFINE alive == AliveNow
             k == Cardinality(alive)
             n == Len(waiting)
  <2>1. alive \in SUBSET WorkerId /\ IsFiniteSet(alive)
    BY FS_Subset, ConstantsAssumption DEF AliveNow
  <2>2. k \in Nat /\ k > 0
    BY <1>2, <2>1, FS_CardinalityType, FS_EmptySet
  <2>3. PICK order \in Shuffles(alive) :
          /\ waitingDrivers' = <<>>
          /\ dstate' = [o \in DriverObj |->
               IF \E i \in 1..n : waiting[i] = o THEN "SUBMITTING" ELSE ds[o]]
          /\ dworker' = [o \in DriverObj |->
               IF \E i \in 1..n : waiting[i] = o
               THEN Ref(order[Place(CHOOSE i \in 1..n : waiting[i] = o, k)])
               ELSE dw[o]]
          /\ wdrivers' = [w \in WorkerId |->
               wd[w] \cup {waiting[i].id : i \in {j \in 1..n : order[Place(j, k)] = w}}]
          /\ toWorker' = [w \in WorkerId |->
               IF w \in alive
               THEN net[w] \o Launches(waiting, CHOOSE c \in 1..k : order[c] = w, k)
               ELSE net[w]]
    BY <1>2 DEF Schedule
  <2>4. n \in Nat /\ (\A i \in 1..n : waiting[i] \in DriverObj)
    BY LenProperties, ElementOfSeq
  <2>5. order \in [1..k -> alive] /\ (\A x \in alive : \E i \in 1..k : order[i] = x)
    BY <2>1, ShuffleIsSeq
  <2>6. \A i \in 1..n : Place(i, k) \in 1..k
    BY <2>2, <2>4 DEF Place
  <2> HIDE DEF alive, k, n
  <2>7. waitingDrivers' \in Seq(DriverObj)
    BY <2>3, EmptySeq
  <2>8. dstate' \in [DriverObj -> DriverState]
    BY <2>3 DEF DriverState, LiveState
  <2>9. dworker' \in [DriverObj -> WorkerRef \cup {None}]
    <3>1. ASSUME NEW o \in DriverObj, \E i \in 1..n : waiting[i] = o
          PROVE  Ref(order[Place(CHOOSE i \in 1..n : waiting[i] = o, k)]) \in WorkerRef
      <4>1. (CHOOSE i \in 1..n : waiting[i] = o) \in 1..n
        BY <3>1
      <4>2. Place(CHOOSE i \in 1..n : waiting[i] = o, k) \in 1..k
        BY <4>1, <2>6
      <4>3. order[Place(CHOOSE i \in 1..n : waiting[i] = o, k)] \in WorkerId
        BY <4>2, <2>5, <2>1
      <4> QED
        BY <4>3 DEF Ref, WorkerRef
    <3> QED
      BY <2>3, <3>1
  <2>10. wdrivers' \in [WorkerId -> SUBSET DriverId]
    <3>1. \A i \in 1..n : waiting[i].id \in DriverId
      BY <2>4 DEF DriverObj
    <3> QED
      BY <2>3, <3>1
  <2>11. toWorker' \in [WorkerId -> Seq(ToWorkerMsg)]
    <3>1. ASSUME NEW w \in WorkerId, w \in alive
          PROVE  net[w] \o Launches(waiting, CHOOSE c \in 1..k : order[c] = w, k)
                   \in Seq(ToWorkerMsg)
      <4>1. (CHOOSE c \in 1..k : order[c] = w) \in 1..k
        BY <2>5, <3>1
      <4>2. Launches(waiting, CHOOSE c \in 1..k : order[c] = w, k) \in Seq(ToWorkerMsg)
        BY <4>1, <2>2, LaunchesType
      <4> QED
        BY <4>2, ConcatProperties
    <3> QED
      BY <2>3, <3>1
  <2> QED
    BY <2>7, <2>8, <2>9, <2>10, <2>11
<1> QED
  BY <1>1, <1>2

-----------------------------------------------------------------------------
(* Type correctness                                                        *)

\* A message appended to one channel keeps the type of the channels.
LEMMA SendToType ==
  ASSUME NEW S, NEW M, NEW net \in [S -> Seq(M)], NEW r \in S, NEW m \in M
  PROVE  SendTo(net, r, m) \in [S -> Seq(M)]
<1>1. Append(net[r], m) \in Seq(M)
  BY AppendProperties
<1> QED
  BY <1>1 DEF SendTo

\* The messages of the handlers are messages of the channels.
LEMMA MessageTypes ==
  ASSUME MasterTypeOK
  PROVE  /\ [type |-> "RegisteredWorker", master |-> epoch] \in ToWorkerMsg
         /\ [type |-> "ReconnectWorker", master |-> epoch] \in ToWorkerMsg
         /\ [type |-> "RegisterWorkerFailed"] \in ToWorkerMsg
         /\ [type |-> "MasterInStandby"] \in ToWorkerMsg
         /\ Changed \in ToWorkerMsg
         /\ \A d \in DriverId : [type |-> "KillDriver", id |-> d] \in ToWorkerMsg
         /\ [type |-> "RegisteredApplication", master |-> epoch] \in ToAppMsg
         /\ [type |-> "RegisterApplicationFailed"] \in ToAppMsg
         /\ [type |-> "MasterInStandby"] \in ToAppMsg
         /\ Changed \in ToAppMsg
         /\ \A d \in DriverId : [type |-> "RequestSubmitDriver", id |-> d] \in ToSelfMsg
         /\ \A d \in DriverId : [type |-> "KilledWhileWaiting", id |-> d] \in ToSelfMsg
BY DEF MasterTypeOK, ToWorkerMsg, ToAppMsg, ToSelfMsg, Changed

\* A new actor has well-typed fields.
LEMMA ForgetMemoryType ==
  ASSUME ForgetMemory, DriversTypeOK, submitted' = submitted
  PROVE  /\ state' = "STANDBY"
         /\ WorkersTypeOK'
         /\ DriversTypeOK'
         /\ AppsTypeOK'
<1>1. WorkersTypeOK'
  BY DEF ForgetMemory, WorkersTypeOK, Fresh, Ancient
<1>2. DriversTypeOK'
  BY EmptySeq DEF ForgetMemory, DriversTypeOK, DriverState, LiveState
<1>3. AppsTypeOK'
  BY DEF ForgetMemory, AppsTypeOK
<1> QED
  BY <1>1, <1>2, <1>3 DEF ForgetMemory

\* The restart of the actor: its memory is new, the stored nodes are what they were by then.
LEMMA RestartActorType ==
  ASSUME MasterTypeOK,
         NEW pd \in [DriverId -> DriverObj \cup {None}],
         RestartActor(pd), toSelf' \in Seq(ToSelfMsg)
  PROVE  MasterTypeOK'
<1>1. PersistedTypeOK'
  BY DEF RestartActor, MasterTypeOK, PersistedTypeOK
<1>2. ChannelTypeOK'
  BY DEF RestartActor, MasterTypeOK, ChannelTypeOK
<1>3. epoch' \in Nat
  BY DEF RestartActor, MasterTypeOK
<1> QED
  BY <1>1, <1>2, <1>3, ForgetMemoryType DEF MasterTypeOK, RestartActor

LEMMA RemovalThrowsType ==
  ASSUME MasterTypeOK, NEW gone \in SUBSET DriverObj, RemovalThrows(gone)
  PROVE  MasterTypeOK'
<1>1. PICK done \in SUBSET {o.id : o \in gone} :
        RestartActor([d \in DriverId |-> IF d \in done THEN None ELSE pdrivers[d]])
  BY DEF RemovalThrows
<1>2. [d \in DriverId |-> IF d \in done THEN None ELSE pdrivers[d]]
        \in [DriverId -> DriverObj \cup {None}]
  BY DEF MasterTypeOK, PersistedTypeOK
<1>3. toSelf' \in Seq(ToSelfMsg)
  BY DEF RemovalThrows, MasterTypeOK, ChannelTypeOK
<1> QED
  BY <1>1, <1>2, <1>3, RestartActorType

\* The intermediate values that the removals pass on to schedule().
LEMMA RemovalTypes ==
  ASSUME MasterTypeOK, NEW gone \in SUBSET DriverObj, NEW st \in DriverState
  PROVE  /\ dstateAfter(gone, st) \in [DriverObj -> DriverState]
         /\ wdriversAfter(gone) \in [WorkerId -> SUBSET DriverId]
         /\ RemoveDrivers(gone) =>
              /\ drivers' \subseteq DriverObj
              /\ completedDrivers' \subseteq DriverObj
              /\ pdrivers' \in [DriverId -> DriverObj \cup {None}]
<1>1. dstateAfter(gone, st) \in [DriverObj -> DriverState]
  BY DEF MasterTypeOK, DriversTypeOK, dstateAfter
<1>2. wdriversAfter(gone) \in [WorkerId -> SUBSET DriverId]
  BY DEF MasterTypeOK, WorkersTypeOK, wdriversAfter
<1>3. RemoveDrivers(gone) =>
              /\ drivers' \subseteq DriverObj
              /\ completedDrivers' \subseteq DriverObj
              /\ pdrivers' \in [DriverId -> DriverObj \cup {None}]
  BY DEF MasterTypeOK, DriversTypeOK, PersistedTypeOK, RemoveDrivers
<1> QED
  BY <1>1, <1>2, <1>3

LEMMA FoundInDrivers ==
  ASSUME NEW ids, NEW g \in Found(ids)
  PROVE  g \subseteq drivers
BY DEF Found

LEMMA RemoveAllType ==
  ASSUME MasterTypeOK,
         NEW R \in SUBSET WorkerId, NEW A \in SUBSET AppProc,
         NEW newState \in {"STANDBY", "RECOVERING", "ACTIVE"},
         RemoveAll(R, A, newState)
  PROVE  MasterTypeOK'
<1> DEFINE ids == UNION {wdrivers[w] : w \in R}
<1>1. PICK gone \in Found(ids) :
        IF NoNode(gone)
        THEN RemovalThrows(gone)
        ELSE /\ state' = newState
             /\ wstate' = wstateAfter(R)
             /\ idToWorker' = idToWorker \ R
             /\ addressToWorker' = addressAfter(R)
             /\ pworkers' = pworkers \ R
             /\ RemoveDrivers(gone)
             /\ RemoveApplications(A)
             /\ UNCHANGED <<epoch, workers, lastHeartbeat, submitted, toApp, toSelf>>
             /\ Schedule(gone # {} \/ newState # state, waitingDrivers,
                         dstateAfter(gone, "ERROR"), dworker, wdriversAfter(gone), toWorker)
  BY DEF RemoveAll
<1>2. gone \in SUBSET DriverObj
  BY FoundInDrivers DEF MasterTypeOK, DriversTypeOK
<1>3. CASE NoNode(gone)
  BY <1>1, <1>2, <1>3, RemovalThrowsType
<1>4. CASE ~ NoNode(gone)
  <2>1. "ERROR" \in DriverState
    BY DEF DriverState, FinishedState
  <2>2. /\ waitingDrivers' \in Seq(DriverObj)
        /\ dstate' \in [DriverObj -> DriverState]
        /\ dworker' \in [DriverObj -> WorkerRef \cup {None}]
        /\ wdrivers' \in [WorkerId -> SUBSET DriverId]
        /\ toWorker' \in [WorkerId -> Seq(ToWorkerMsg)]
    <3>1. workers' \subseteq WorkerId
      BY <1>1, <1>4 DEF MasterTypeOK, WorkersTypeOK
    <3>2. /\ waitingDrivers \in Seq(DriverObj)
          /\ dworker \in [DriverObj -> WorkerRef \cup {None}]
          /\ toWorker \in [WorkerId -> Seq(ToWorkerMsg)]
      BY DEF MasterTypeOK, DriversTypeOK, ChannelTypeOK
    <3>3. (gone # {} \/ newState # state) \in BOOLEAN
      OBVIOUS
    <3>4. /\ dstateAfter(gone, "ERROR") \in [DriverObj -> DriverState]
          /\ wdriversAfter(gone) \in [WorkerId -> SUBSET DriverId]
      BY <1>2, <2>1, RemovalTypes
    <3> QED
      BY <1>1, <1>4, <3>1, <3>2, <3>3, <3>4, ScheduleType
  <2>3. /\ drivers' \subseteq DriverObj
        /\ completedDrivers' \subseteq DriverObj
        /\ pdrivers' \in [DriverId -> DriverObj \cup {None}]
    BY <1>1, <1>2, <1>4, <2>1, RemovalTypes
  <2>4. WorkersTypeOK'
    BY <1>1, <1>4, <2>2 DEF MasterTypeOK, WorkersTypeOK, wstateAfter, addressAfter
  <2>5. DriversTypeOK'
    BY <1>1, <1>4, <2>2, <2>3 DEF MasterTypeOK, DriversTypeOK
  <2>6. AppsTypeOK' /\ papps' \in [DriverId -> AppProc \cup {None}]
    BY <1>1, <1>4 DEF MasterTypeOK, AppsTypeOK, PersistedTypeOK, RemoveApplications
  <2>7. PersistedTypeOK'
    BY <1>1, <1>4, <2>3, <2>6 DEF MasterTypeOK, PersistedTypeOK
  <2>8. ChannelTypeOK'
    BY <1>1, <1>4, <2>2 DEF MasterTypeOK, ChannelTypeOK
  <2> QED
    BY <1>1, <1>4, <2>4, <2>5, <2>6, <2>7, <2>8 DEF MasterTypeOK
<1> QED
  BY <1>3, <1>4

LEMMA ElectedLeaderType ==
  ASSUME MasterTypeOK, ElectedLeader
  PROVE  MasterTypeOK'
<1>1. CASE ElectedFresh
  <2> DEFINE boot == [i \in 1..Len(BootApps) |->
                        [type |-> "RequestSubmitDriver", id |-> BootApps[i]]]
  <2>1. Len(BootApps) \in Nat /\ (\A i \in 1..Len(BootApps) : BootApps[i] \in DriverId)
    BY MasterAssumption, LenProperties, ElementOfSeq
  <2>2. \A i \in 1..Len(BootApps) :
          [type |-> "RequestSubmitDriver", id |-> BootApps[i]] \in ToSelfMsg
    BY <2>1, MessageTypes
  <2>3. boot \in Seq(ToSelfMsg)
    BY <2>1, <2>2, IsASeq
  <2>4. toSelf' \in Seq(ToSelfMsg)
    <3> HIDE DEF boot
    <3>1. toSelf \in Seq(ToSelfMsg)
      BY DEF MasterTypeOK, ChannelTypeOK
    <3>2. toSelf' = toSelf \o boot
      BY <1>1 DEF ElectedFresh, boot
    <3> QED
      BY <2>3, <3>1, <3>2, ConcatProperties
  <2> QED
    BY <1>1, <2>4 DEF ElectedFresh, MasterTypeOK, WorkersTypeOK, DriversTypeOK, AppsTypeOK,
       PersistedTypeOK, ChannelTypeOK, workerVars, driverVars, appVars, persistedVars
<1>2. CASE beginRecovery
  <2>1. /\ Changed \in ToWorkerMsg /\ Changed \in ToAppMsg
        /\ toWorker \in [WorkerId -> Seq(ToWorkerMsg)] /\ toApp \in [AppProc -> Seq(ToAppMsg)]
    BY MessageTypes DEF MasterTypeOK, ChannelTypeOK
  <2>2. /\ \A w \in WorkerId : Append(toWorker[w], Changed) \in Seq(ToWorkerMsg)
        /\ \A p \in AppProc : Append(toApp[p], Changed) \in Seq(ToAppMsg)
    BY <2>1, AppendProperties
  <2>3. storedDrivers \subseteq DriverObj /\ storedApps \subseteq AppProc
    BY DEF MasterTypeOK, PersistedTypeOK, storedDrivers, storedApps
  <2>4. toWorker' \in [WorkerId -> Seq(ToWorkerMsg)]
    BY <1>2, <2>1, <2>2 DEF beginRecovery, recoverWorkers
  <2>5. toApp' \in [AppProc -> Seq(ToAppMsg)]
    BY <1>2, <2>1, <2>2 DEF beginRecovery, recoverApps
  <2>6. WorkersTypeOK'
    <3>1. \A a \in Addr : (\E w \in pworkers : workerAddress[w] = a) =>
            (CHOOSE w \in pworkers : workerAddress[w] = a) \in WorkerId
      BY DEF MasterTypeOK, PersistedTypeOK
    <3> QED
      BY <1>2, <3>1 DEF beginRecovery, recoverWorkers, MasterTypeOK, WorkersTypeOK, PersistedTypeOK,
         Fresh, Ancient
  <2>7. DriversTypeOK'
    BY <1>2, <2>3 DEF beginRecovery, recoverDrivers, MasterTypeOK, DriversTypeOK, DriverState,
       LiveState
  <2>8. AppsTypeOK'
    <3>1. \A a \in Addr : (\E p \in storedApps : appAddress[p] = a) =>
            (CHOOSE p \in storedApps : appAddress[p] = a) \in AppProc
      BY <2>3
    <3> QED
      BY <1>2, <2>3, <3>1 DEF beginRecovery, recoverApps, MasterTypeOK, AppsTypeOK, PersistedTypeOK
  <2> QED
    BY <1>2, <2>4, <2>5, <2>6, <2>7, <2>8 DEF beginRecovery, MasterTypeOK, PersistedTypeOK,
       ChannelTypeOK, persistedVars
<1> QED
  BY <1>1, <1>2 DEF ElectedLeader

\* The removals that handlers ask for concern workers and applications.
LEMMA CompleteRecoveryType ==
  ASSUME MasterTypeOK, CompleteRecovery
  PROVE  MasterTypeOK'
<1>1. /\ {w \in workers : wstate[w] = "UNKNOWN"} \in SUBSET WorkerId
      /\ {p \in apps : astate[p] = "UNKNOWN"} \in SUBSET AppProc
  BY DEF MasterTypeOK, WorkersTypeOK, AppsTypeOK
<1> QED
  BY <1>1, RemoveAllType DEF CompleteRecovery

LEMMA onDisconnectedType ==
  ASSUME MasterTypeOK, NEW a \in Addr, onDisconnected(a)
  PROVE  MasterTypeOK'
<1> DEFINE R == {addressToWorker[a]} \ {None}
           A == {addressToApp[a]} \ {None}
           s == IF state = "RECOVERING"
                     /\ canCompleteRecovery(workers, wstateAfter(R), apps \ A, astate)
                THEN "ACTIVE" ELSE state
<1>1. R \in SUBSET WorkerId /\ A \in SUBSET AppProc /\ s \in {"STANDBY", "RECOVERING", "ACTIVE"}
  BY DEF MasterTypeOK, WorkersTypeOK, AppsTypeOK
<1>2. RemoveAll(R, A, s)
  BY DEF onDisconnected
<1> HIDE DEF R, A, s
<1> QED
  BY <1>1, <1>2, RemoveAllType

LEMMA ProcessExitType ==
  ASSUME MasterTypeOK, ProcessExit
  PROVE  MasterTypeOK'
<1>1. ForgetMemory /\ DriversTypeOK /\ submitted' = submitted
  BY DEF ProcessExit, MasterTypeOK
<1>2. state' = "STANDBY" /\ WorkersTypeOK' /\ DriversTypeOK' /\ AppsTypeOK'
  BY <1>1, ForgetMemoryType
<1>3. ChannelTypeOK'
  BY EmptySeq DEF ProcessExit, ChannelTypeOK
<1> QED
  BY <1>2, <1>3 DEF ProcessExit, MasterTypeOK, PersistedTypeOK, persistedVars

LEMMA MessagesTakenType ==
  ASSUME MasterTypeOK, MessagesTaken
  PROVE  MasterTypeOK'
<1>1. ASSUME NEW M, NEW s \in Seq(M), NEW i \in 0..Len(s), NEW j \in 0..Len(s)
      PROVE  SubSeq(s, i + 1, j) \in Seq(M)
  <2>1. Len(s) \in Nat /\ (\A m \in (i + 1)..j : s[m] \in M)
    BY LenProperties, ElementOfSeq
  <2> QED
    BY <2>1, SubSeqProperties
<1>2. toWorker' \in [WorkerId -> Seq(ToWorkerMsg)]
  <2>1. CASE \E w \in WorkerId : \E i, j \in 0..Len(toWorker[w]) :
               toWorker' = [toWorker EXCEPT ![w] = SubSeq(@, i + 1, j)]
    <3>1. PICK w \in WorkerId : \E i, j \in 0..Len(toWorker[w]) :
                 toWorker' = [toWorker EXCEPT ![w] = SubSeq(@, i + 1, j)]
      BY <2>1
    <3>2. PICK i \in 0..Len(toWorker[w]), j \in 0..Len(toWorker[w]) :
                 toWorker' = [toWorker EXCEPT ![w] = SubSeq(@, i + 1, j)]
      BY <3>1
    <3>3. toWorker \in [WorkerId -> Seq(ToWorkerMsg)]
      BY DEF MasterTypeOK, ChannelTypeOK
    <3>4. SubSeq(toWorker[w], i + 1, j) \in Seq(ToWorkerMsg)
      BY <1>1, <3>3
    <3> QED
      BY <3>2, <3>3, <3>4
  <2> QED
    BY <2>1 DEF MessagesTaken, MasterTypeOK, ChannelTypeOK
<1>3. toApp' \in [AppProc -> Seq(ToAppMsg)]
  <2>1. CASE \E p \in AppProc : \E i, j \in 0..Len(toApp[p]) :
               toApp' = [toApp EXCEPT ![p] = SubSeq(@, i + 1, j)]
    <3>1. PICK p \in AppProc : \E i, j \in 0..Len(toApp[p]) :
                 toApp' = [toApp EXCEPT ![p] = SubSeq(@, i + 1, j)]
      BY <2>1
    <3>2. PICK i \in 0..Len(toApp[p]), j \in 0..Len(toApp[p]) :
                 toApp' = [toApp EXCEPT ![p] = SubSeq(@, i + 1, j)]
      BY <3>1
    <3>3. toApp \in [AppProc -> Seq(ToAppMsg)]
      BY DEF MasterTypeOK, ChannelTypeOK
    <3>4. SubSeq(toApp[p], i + 1, j) \in Seq(ToAppMsg)
      BY <1>1, <3>3
    <3> QED
      BY <3>2, <3>3, <3>4
  <2> QED
    BY <2>1 DEF MessagesTaken, MasterTypeOK, ChannelTypeOK
<1> QED
  BY <1>2, <1>3 DEF MessagesTaken, MasterTypeOK, WorkersTypeOK, DriversTypeOK, AppsTypeOK,
     PersistedTypeOK, ChannelTypeOK, memoryVars, workerVars, driverVars, appVars, persistedVars

LEMMA RegisterWorkerType ==
  ASSUME MasterTypeOK, NEW w \in WorkerId, RegisterWorker(w)
  PROVE  MasterTypeOK'
<1> DEFINE a == workerAddress[w]
           old == {addressToWorker[a]} \ {None}
<1>1. toWorker \in [WorkerId -> Seq(ToWorkerMsg)]
  BY DEF MasterTypeOK, ChannelTypeOK
<1>2. ASSUME NEW m \in ToWorkerMsg, Answer(w, m), UNCHANGED <<memoryVars, toApp, toSelf>>
      PROVE  MasterTypeOK'
  <2>1. toWorker' \in [WorkerId -> Seq(ToWorkerMsg)]
    BY <1>1, <1>2, SendToType DEF Answer
  <2> QED
    BY <1>2, <2>1 DEF MasterTypeOK, WorkersTypeOK, DriversTypeOK, AppsTypeOK,
       PersistedTypeOK, ChannelTypeOK, memoryVars, workerVars, driverVars, appVars, persistedVars
<1>3. CASE RegisterWorkerInStandby(w)
  BY <1>2, <1>3, MessageTypes DEF RegisterWorkerInStandby
<1>4. CASE RegisterWorkerDuplicate(w)
  BY <1>2, <1>4, MessageTypes DEF RegisterWorkerDuplicate
<1>5. CASE RegisterWorkerAddressInUse(w)
  <2>1. toWorker' \in [WorkerId -> Seq(ToWorkerMsg)]
    BY <1>1, <1>5, MessageTypes, SendToType DEF RegisterWorkerAddressInUse, Answer
  <2>2. workers' \subseteq WorkerId
    BY <1>5 DEF RegisterWorkerAddressInUse, MasterTypeOK, WorkersTypeOK
  <2> QED
    BY <1>5, <2>1, <2>2 DEF RegisterWorkerAddressInUse, MasterTypeOK, WorkersTypeOK, DriversTypeOK,
       AppsTypeOK, PersistedTypeOK, ChannelTypeOK, driverVars, appVars, persistedVars
<1>6. CASE RegisterWorkerAccepted(w)
  <2> DEFINE dw == [o \in DriverObj |-> IF dworker[o] = Ref(w) THEN Replaced(w) ELSE dworker[o]]
             net == SendTo(toWorker, w, [type |-> "RegisteredWorker", master |-> epoch])
  <2>1. PICK gone \in Found(UNION {wdrivers[v] : v \in old}) :
          IF NoNode(gone)
          THEN RemovalThrows(gone)
          ELSE /\ workers' = (workers \ DeadAt(a)) \cup {w}
               /\ wstate' = [wstateAfter(old) EXCEPT ![w] = "ALIVE"]
               /\ lastHeartbeat' = [lastHeartbeat EXCEPT ![w] = Fresh]
               /\ idToWorker' = (idToWorker \ old) \cup {w}
               /\ addressToWorker' = [addressToWorker EXCEPT ![a] = w]
               /\ pworkers' = IF Zk THEN (pworkers \ old) \cup {w} ELSE pworkers
               /\ RemoveDrivers(gone)
               /\ UNCHANGED <<epoch, state, submitted, appVars, papps, toApp, toSelf>>
               /\ Schedule(TRUE, waitingDrivers, dstateAfter(gone, "ERROR"), dw,
                           [wdriversAfter(gone) EXCEPT ![w] = {}], net)
    BY <1>6 DEF RegisterWorkerAccepted
  <2>2. gone \in SUBSET DriverObj /\ "ERROR" \in DriverState
    BY FoundInDrivers DEF MasterTypeOK, DriversTypeOK, DriverState, FinishedState
  <2>3. CASE NoNode(gone)
    BY <2>1, <2>2, <2>3, RemovalThrowsType
  <2>4. CASE ~ NoNode(gone)
    <3>1. workers' \subseteq WorkerId
      BY <2>1, <2>4 DEF MasterTypeOK, WorkersTypeOK
    <3>2. /\ dstateAfter(gone, "ERROR") \in [DriverObj -> DriverState]
          /\ wdriversAfter(gone) \in [WorkerId -> SUBSET DriverId]
          /\ drivers' \subseteq DriverObj
          /\ completedDrivers' \subseteq DriverObj
          /\ pdrivers' \in [DriverId -> DriverObj \cup {None}]
      BY <2>1, <2>2, <2>4, RemovalTypes
    <3>3. net \in [WorkerId -> Seq(ToWorkerMsg)]
      BY <1>1, MessageTypes, SendToType
    <3>4. /\ dw \in [DriverObj -> WorkerRef \cup {None}]
          /\ waitingDrivers \in Seq(DriverObj)
      BY DEF MasterTypeOK, DriversTypeOK, Replaced, WorkerRef
    <3>5. [wdriversAfter(gone) EXCEPT ![w] = {}] \in [WorkerId -> SUBSET DriverId]
      BY <3>2
    <3>6. Schedule(TRUE, waitingDrivers, dstateAfter(gone, "ERROR"), dw,
                   [wdriversAfter(gone) EXCEPT ![w] = {}], net)
      BY <2>1, <2>4
    <3>7. /\ waitingDrivers' \in Seq(DriverObj)
          /\ dstate' \in [DriverObj -> DriverState]
          /\ dworker' \in [DriverObj -> WorkerRef \cup {None}]
          /\ wdrivers' \in [WorkerId -> SUBSET DriverId]
          /\ toWorker' \in [WorkerId -> Seq(ToWorkerMsg)]
      <4> HIDE DEF dw, net
      <4> QED
        BY <3>1, <3>2, <3>3, <3>4, <3>5, <3>6, ScheduleType
    <3>8. WorkersTypeOK'
      <4>1. wstate' \in [WorkerId -> {"ALIVE", "DEAD", "UNKNOWN"}]
        BY <2>1, <2>4 DEF MasterTypeOK, WorkersTypeOK, wstateAfter
      <4>2. lastHeartbeat' \in [WorkerId -> Fresh..Ancient]
        BY <2>1, <2>4 DEF MasterTypeOK, WorkersTypeOK, Fresh, Ancient
      <4>3. idToWorker' \subseteq WorkerId /\ addressToWorker' \in [Addr -> WorkerId \cup {None}]
        BY <2>1, <2>4 DEF MasterTypeOK, WorkersTypeOK
      <4> QED
        BY <3>1, <3>7, <4>1, <4>2, <4>3 DEF WorkersTypeOK
    <3>9. DriversTypeOK'
      BY <2>1, <2>4, <3>2, <3>7 DEF MasterTypeOK, DriversTypeOK
    <3>10. PersistedTypeOK'
      BY <2>1, <2>4, <3>2 DEF MasterTypeOK, PersistedTypeOK
    <3>11. ChannelTypeOK'
      BY <2>1, <2>4, <3>7 DEF MasterTypeOK, ChannelTypeOK
    <3> QED
      BY <2>1, <2>4, <3>8, <3>9, <3>10, <3>11 DEF MasterTypeOK, AppsTypeOK, appVars
  <2> QED
    BY <2>3, <2>4
<1> QED
  BY <1>3, <1>4, <1>5, <1>6 DEF RegisterWorker

LEMMA HeartbeatType ==
  ASSUME MasterTypeOK, NEW w \in WorkerId, Heartbeat(w)
  PROVE  MasterTypeOK'
<1>1. CASE w \in idToWorker /\ lastHeartbeat' = [lastHeartbeat EXCEPT ![w] = Fresh]
           /\ UNCHANGED <<epoch, state, workers, wstate, wdrivers, idToWorker, addressToWorker,
                    driverVars, submitted, appVars, persistedVars, channelVars>>
  BY <1>1 DEF MasterTypeOK, WorkersTypeOK, DriversTypeOK, AppsTypeOK, PersistedTypeOK,
     ChannelTypeOK, driverVars, appVars, persistedVars, channelVars, Fresh, Ancient
<1>2. CASE Answer(w, [type |-> "ReconnectWorker", master |-> epoch])
           /\ UNCHANGED <<memoryVars, toApp, toSelf>>
  <2>1. toWorker \in [WorkerId -> Seq(ToWorkerMsg)]
    BY DEF MasterTypeOK, ChannelTypeOK
  <2>2. toWorker' \in [WorkerId -> Seq(ToWorkerMsg)]
    BY <1>2, <2>1, MessageTypes, SendToType DEF Answer
  <2> QED
    BY <1>2, <2>2 DEF MasterTypeOK, WorkersTypeOK, DriversTypeOK, AppsTypeOK, PersistedTypeOK,
       ChannelTypeOK, memoryVars, workerVars, driverVars, appVars, persistedVars
<1>3. CASE UNCHANGED masterVars
  BY <1>3 DEF masterVars, MasterTypeOK, WorkersTypeOK, DriversTypeOK, AppsTypeOK, PersistedTypeOK,
     ChannelTypeOK, memoryVars, workerVars, driverVars, appVars, persistedVars, channelVars
<1> QED
  BY <1>1, <1>2, <1>3 DEF Heartbeat

LEMMA WorkerSchedulerStateResponseType ==
  ASSUME MasterTypeOK, NEW w \in WorkerId, NEW ids \in SUBSET DriverId,
         WorkerSchedulerStateResponse(w, ids)
  PROVE  MasterTypeOK'
<1> DEFINE called == state' # state
           dw(found) == [o \in DriverObj |-> IF o \in found THEN Ref(w) ELSE dworker[o]]
           wd(found) == [wdrivers EXCEPT ![w] = @ \cup {o.id : o \in found}]
<1>1. PICK found \in Found(IF w \in idToWorker THEN ids ELSE {}) :
        /\ wstate' = [v \in WorkerId |-> IF v = w /\ w \in idToWorker THEN "ALIVE" ELSE wstate[v]]
        /\ state' = IF state = "RECOVERING" /\ canCompleteRecovery(workers, wstate', apps, astate)
                    THEN "ACTIVE" ELSE state
        /\ UNCHANGED <<epoch, workers, lastHeartbeat, idToWorker, addressToWorker, drivers,
                       completedDrivers, submitted, appVars, persistedVars, toApp, toSelf>>
        /\ Schedule(called, waitingDrivers, dstateAfter(found, "RUNNING"), dw(found), wd(found),
                    toWorker)
  BY DEF WorkerSchedulerStateResponse
<1>2. found \in SUBSET DriverObj /\ "RUNNING" \in DriverState
  BY FoundInDrivers DEF MasterTypeOK, DriversTypeOK, DriverState, LiveState
<1>3. dstateAfter(found, "RUNNING") \in [DriverObj -> DriverState]
  BY <1>2, RemovalTypes
<1>4. dw(found) \in [DriverObj -> WorkerRef \cup {None}]
  BY DEF MasterTypeOK, DriversTypeOK, Ref, WorkerRef
<1>5. wd(found) \in [WorkerId -> SUBSET DriverId]
  <2>1. {o.id : o \in found} \subseteq DriverId
    BY <1>2 DEF DriverObj
  <2> QED
    BY <2>1 DEF MasterTypeOK, WorkersTypeOK
<1>6. /\ waitingDrivers \in Seq(DriverObj)
      /\ toWorker \in [WorkerId -> Seq(ToWorkerMsg)]
      /\ workers' \subseteq WorkerId
  BY <1>1 DEF MasterTypeOK, WorkersTypeOK, DriversTypeOK, ChannelTypeOK
<1>7. /\ waitingDrivers' \in Seq(DriverObj)
      /\ dstate' \in [DriverObj -> DriverState]
      /\ dworker' \in [DriverObj -> WorkerRef \cup {None}]
      /\ wdrivers' \in [WorkerId -> SUBSET DriverId]
      /\ toWorker' \in [WorkerId -> Seq(ToWorkerMsg)]
  <2>1. called \in BOOLEAN
    OBVIOUS
  <2> HIDE DEF called, dw, wd
  <2> QED
    BY <1>1, <1>3, <1>4, <1>5, <1>6, <2>1, ScheduleType
<1>8. WorkersTypeOK'
  BY <1>1, <1>7 DEF MasterTypeOK, WorkersTypeOK
<1>9. DriversTypeOK'
  BY <1>1, <1>7 DEF MasterTypeOK, DriversTypeOK
<1> QED
  BY <1>1, <1>7, <1>8, <1>9 DEF MasterTypeOK, AppsTypeOK, PersistedTypeOK, ChannelTypeOK,
     appVars, persistedVars

LEMMA WorkerLatestStateType ==
  ASSUME MasterTypeOK, NEW w \in WorkerId, NEW ids \in SUBSET DriverId, WorkerLatestState(w, ids)
  PROVE  MasterTypeOK'
<1>1. toWorker' \in [WorkerId -> Seq(ToWorkerMsg)]
  <2>1. toWorker \in [WorkerId -> Seq(ToWorkerMsg)]
    BY DEF MasterTypeOK, ChannelTypeOK
  <2>2. ASSUME NEW order \in Shuffles(ids \ wdrivers[w]),
               toWorker' = [toWorker EXCEPT ![w] = @ \o
                 [i \in 1..Len(order) |-> [type |-> "KillDriver", id |-> order[i]]]]
        PROVE  toWorker' \in [WorkerId -> Seq(ToWorkerMsg)]
    <3> DEFINE kills == [i \in 1..Len(order) |-> [type |-> "KillDriver", id |-> order[i]]]
    <3>1. IsFiniteSet(ids \ wdrivers[w])
      BY FS_Subset, ConstantsAssumption
    <3>2. order \in [1..Cardinality(ids \ wdrivers[w]) -> ids \ wdrivers[w]]
          /\ Cardinality(ids \ wdrivers[w]) \in Nat
      BY <3>1, ShuffleIsSeq
    <3>3. order \in Seq(DriverId)
      <4> DEFINE n == Cardinality(ids \ wdrivers[w])
      <4> HIDE DEF n
      <4>1. n \in Nat /\ order = [i \in 1..n |-> order[i]] /\ (\A i \in 1..n : order[i] \in DriverId)
        BY <3>2 DEF n
      <4>2. [i \in 1..n |-> order[i]] \in Seq(DriverId)
        BY <4>1, IsASeq
      <4> QED
        BY <4>1, <4>2
    <3>4. Len(order) \in Nat /\ (\A i \in 1..Len(order) : order[i] \in DriverId)
      BY <3>3, LenProperties, ElementOfSeq
    <3>5. \A i \in 1..Len(order) : [type |-> "KillDriver", id |-> order[i]] \in ToWorkerMsg
      BY <3>4, MessageTypes
    <3>6. kills \in Seq(ToWorkerMsg)
      BY <3>4, <3>5, IsASeq
    <3> HIDE DEF kills
    <3>7. toWorker[w] \o kills \in Seq(ToWorkerMsg)
      BY <2>1, <3>6, ConcatProperties
    <3>8. toWorker' = [toWorker EXCEPT ![w] = @ \o kills]
      BY <2>2 DEF kills
    <3> QED
      BY <2>1, <3>7, <3>8
  <2> QED
    BY <2>1, <2>2 DEF WorkerLatestState
<1> QED
  BY <1>1 DEF WorkerLatestState, MasterTypeOK, WorkersTypeOK, DriversTypeOK, AppsTypeOK,
     PersistedTypeOK, ChannelTypeOK, memoryVars, workerVars, driverVars, appVars, persistedVars

LEMMA ClockType ==
  ASSUME MasterTypeOK, NEW w \in WorkerId, TimePasses(w) \/ CheckForWorkerTimeOut(w)
  PROVE  MasterTypeOK'
<1>1. CASE TimePasses(w)
  <2>1. lastHeartbeat' \in [WorkerId -> Fresh..Ancient]
    BY <1>1 DEF TimePasses, MasterTypeOK, WorkersTypeOK, Fresh, Ancient
  <2> QED
    BY <1>1, <2>1 DEF TimePasses, MasterTypeOK, WorkersTypeOK, DriversTypeOK, AppsTypeOK,
       PersistedTypeOK, ChannelTypeOK, driverVars, appVars, persistedVars, channelVars
<1>2. CASE RemoveAll({w}, {}, state)
  <2>1. {w} \in SUBSET WorkerId /\ {} \in SUBSET AppProc /\ state \in {"STANDBY", "RECOVERING", "ACTIVE"}
    BY DEF MasterTypeOK
  <2> QED
    BY <1>2, <2>1, RemoveAllType
<1>3. CASE /\ workers' = workers \ {w}
           /\ UNCHANGED <<epoch, state, wstate, lastHeartbeat, wdrivers, idToWorker,
                       addressToWorker, driverVars, submitted, appVars, persistedVars,
                       channelVars>>
  BY <1>3 DEF MasterTypeOK, WorkersTypeOK, DriversTypeOK, AppsTypeOK, PersistedTypeOK,
     ChannelTypeOK, driverVars, appVars, persistedVars, channelVars
<1> QED
  BY <1>1, <1>2, <1>3 DEF CheckForWorkerTimeOut

LEMMA RegisterApplicationType ==
  ASSUME MasterTypeOK, NEW p \in AppProc, RegisterApplication(p)
  PROVE  MasterTypeOK'
<1>1. toApp \in [AppProc -> Seq(ToAppMsg)]
  BY DEF MasterTypeOK, ChannelTypeOK
<1>2. ASSUME NEW m \in ToAppMsg, AnswerApp(p, m), UNCHANGED <<memoryVars, toWorker, toSelf>>
      PROVE  MasterTypeOK'
  <2>1. toApp' \in [AppProc -> Seq(ToAppMsg)]
    BY <1>1, <1>2, SendToType DEF AnswerApp
  <2> QED
    BY <1>2, <2>1 DEF MasterTypeOK, WorkersTypeOK, DriversTypeOK, AppsTypeOK,
       PersistedTypeOK, ChannelTypeOK, memoryVars, workerVars, driverVars, appVars, persistedVars
<1>3. CASE RegisterApplicationInStandby(p)
  BY <1>2, <1>3, MessageTypes DEF RegisterApplicationInStandby
<1>4. CASE RegisterApplicationRefused(p)
  BY <1>2, <1>4, MessageTypes DEF RegisterApplicationRefused
<1>5. CASE RegisterApplicationAccepted(p)
  <2>1. toApp' \in [AppProc -> Seq(ToAppMsg)]
    BY <1>1, <1>5, MessageTypes, SendToType DEF RegisterApplicationAccepted, AnswerApp
  <2>2. AppsTypeOK'
    BY <1>5 DEF RegisterApplicationAccepted, MasterTypeOK, AppsTypeOK
  <2>3. PersistedTypeOK'
    BY <1>5 DEF RegisterApplicationAccepted, MasterTypeOK, PersistedTypeOK
  <2> QED
    BY <1>5, <2>1, <2>2, <2>3 DEF RegisterApplicationAccepted, MasterTypeOK, WorkersTypeOK,
       DriversTypeOK, ChannelTypeOK, workerVars, driverVars
<1> QED
  BY <1>3, <1>4, <1>5 DEF RegisterApplication

LEMMA ApplicationStateResponseType ==
  ASSUME MasterTypeOK, NEW d \in DriverId, ApplicationStateResponse(d)
  PROVE  MasterTypeOK'
<1> DEFINE called == state' # state
<1>1. /\ waitingDrivers \in Seq(DriverObj)
      /\ dstate \in [DriverObj -> DriverState]
      /\ dworker \in [DriverObj -> WorkerRef \cup {None}]
      /\ wdrivers \in [WorkerId -> SUBSET DriverId]
      /\ toWorker \in [WorkerId -> Seq(ToWorkerMsg)]
      /\ workers' \subseteq WorkerId
      /\ called \in BOOLEAN
  BY DEF ApplicationStateResponse, MasterTypeOK, WorkersTypeOK, DriversTypeOK, ChannelTypeOK
<1>2. Schedule(called, waitingDrivers, dstate, dworker, wdrivers, toWorker)
  BY DEF ApplicationStateResponse
<1>3. /\ waitingDrivers' \in Seq(DriverObj)
      /\ dstate' \in [DriverObj -> DriverState]
      /\ dworker' \in [DriverObj -> WorkerRef \cup {None}]
      /\ wdrivers' \in [WorkerId -> SUBSET DriverId]
      /\ toWorker' \in [WorkerId -> Seq(ToWorkerMsg)]
  <2> HIDE DEF called
  <2> QED
    BY <1>1, <1>2, ScheduleType
<1>4. state' \in {"STANDBY", "RECOVERING", "ACTIVE"}
  BY DEF ApplicationStateResponse, MasterTypeOK
<1>5. AppsTypeOK'
  BY DEF ApplicationStateResponse, MasterTypeOK, AppsTypeOK
<1> QED
  BY <1>3, <1>4, <1>5 DEF ApplicationStateResponse, MasterTypeOK, WorkersTypeOK, DriversTypeOK,
     PersistedTypeOK, ChannelTypeOK, persistedVars

LEMMA RequestSubmitDriverType ==
  ASSUME MasterTypeOK, NEW d \in DriverId, RequestSubmitDriver(d), toSelf' \in Seq(ToSelfMsg)
  PROVE  MasterTypeOK'
<1>1. CASE state # "ACTIVE"
  BY <1>1 DEF RequestSubmitDriver, MasterTypeOK, WorkersTypeOK, DriversTypeOK, AppsTypeOK,
     PersistedTypeOK, ChannelTypeOK, memoryVars, workerVars, driverVars, appVars, persistedVars
<1>2. CASE state = "ACTIVE"
  <2> DEFINE o == [id |-> d, seq |-> submitted[d] + 1]
  <2>1. /\ submitted[d] < MaxSubmit
        /\ submitted' = [submitted EXCEPT ![d] = @ + 1]
        /\ pdrivers' = IF Zk THEN [pdrivers EXCEPT ![d] = o] ELSE pdrivers
        /\ drivers' = drivers \cup {o}
        /\ UNCHANGED <<epoch, state, workers, wstate, lastHeartbeat, idToWorker,
                       addressToWorker, completedDrivers, appVars, pworkers, papps, toApp>>
        /\ Schedule(TRUE, Append(waitingDrivers, o), dstate, dworker, wdrivers, toWorker)
    BY <1>2 DEF RequestSubmitDriver
  <2>2. submitted \in [DriverId -> 0..MaxSubmit] /\ MaxSubmit \in Nat
    BY ConstantsAssumption DEF MasterTypeOK, DriversTypeOK
  <2>3. submitted[d] + 1 \in 1..MaxSubmit
    BY <2>1, <2>2
  <2>4. o \in DriverObj
    BY <2>3 DEF DriverObj
  <2>5. submitted' \in [DriverId -> 0..MaxSubmit]
    BY <2>1, <2>2, <2>3
  <2> HIDE DEF o
  <2>6. Append(waitingDrivers, o) \in Seq(DriverObj)
    <3>1. waitingDrivers \in Seq(DriverObj)
      BY DEF MasterTypeOK, DriversTypeOK
    <3> QED
      BY <2>4, <3>1, AppendProperties
  <2>7. /\ dstate \in [DriverObj -> DriverState]
        /\ dworker \in [DriverObj -> WorkerRef \cup {None}]
        /\ wdrivers \in [WorkerId -> SUBSET DriverId]
        /\ toWorker \in [WorkerId -> Seq(ToWorkerMsg)]
        /\ workers' \subseteq WorkerId
    BY <2>1 DEF MasterTypeOK, WorkersTypeOK, DriversTypeOK, ChannelTypeOK
  <2>8. /\ waitingDrivers' \in Seq(DriverObj)
        /\ dstate' \in [DriverObj -> DriverState]
        /\ dworker' \in [DriverObj -> WorkerRef \cup {None}]
        /\ wdrivers' \in [WorkerId -> SUBSET DriverId]
        /\ toWorker' \in [WorkerId -> Seq(ToWorkerMsg)]
    BY <2>1, <2>6, <2>7, ScheduleType
  <2>9. PersistedTypeOK'
    BY <2>1, <2>4 DEF MasterTypeOK, PersistedTypeOK
  <2>10. DriversTypeOK'
    BY <2>1, <2>4, <2>5, <2>8 DEF MasterTypeOK, DriversTypeOK
  <2> QED
    BY <2>1, <2>8, <2>9, <2>10 DEF MasterTypeOK, WorkersTypeOK, AppsTypeOK, ChannelTypeOK, appVars
<1> QED
  BY <1>1, <1>2

\* The waiting list without the element at one position.
LEMMA WithoutType ==
  ASSUME NEW S, NEW s \in Seq(S), NEW i \in 1..Len(s)
  PROVE  [j \in 1..(Len(s) - 1) |-> IF j < i THEN s[j] ELSE s[j + 1]] \in Seq(S)
<1>1. Len(s) \in Nat /\ Len(s) - 1 \in Nat
  BY LenProperties
<1>2. \A j \in 1..(Len(s) - 1) : (IF j < i THEN s[j] ELSE s[j + 1]) \in S
  BY <1>1, ElementOfSeq
<1> QED
  BY <1>1, <1>2, IsASeq

LEMMA RequestKillDriverType ==
  ASSUME MasterTypeOK, NEW d \in DriverId, RequestKillDriver(d)
  PROVE  MasterTypeOK'
<1>1. /\ waitingDrivers \in Seq(DriverObj)
      /\ dworker \in [DriverObj -> WorkerRef \cup {None}]
      /\ drivers \subseteq DriverObj
      /\ toWorker \in [WorkerId -> Seq(ToWorkerMsg)]
      /\ toSelf \in Seq(ToSelfMsg)
  BY DEF MasterTypeOK, DriversTypeOK, ChannelTypeOK
<1>2. waitingDrivers' \in Seq(DriverObj)
  <2>1. ASSUME NEW i \in 1..Len(waitingDrivers),
               waitingDrivers' = [j \in 1..(Len(waitingDrivers) - 1) |->
                 IF j < i THEN waitingDrivers[j] ELSE waitingDrivers[j + 1]]
        PROVE  waitingDrivers' \in Seq(DriverObj)
    BY <1>1, <2>1, WithoutType
  <2> QED
    BY <1>1, <2>1 DEF RequestKillDriver
<1>3. toSelf' \in Seq(ToSelfMsg)
  <2>1. Append(toSelf, [type |-> "KilledWhileWaiting", id |-> d]) \in Seq(ToSelfMsg)
    BY <1>1, MessageTypes, AppendProperties
  <2> QED
    BY <1>1, <2>1 DEF RequestKillDriver
<1>4. toWorker' \in [WorkerId -> Seq(ToWorkerMsg)]
  <2>1. \A o \in Named(d) : dworker[o] # None =>
          SendTo(toWorker, dworker[o].id, [type |-> "KillDriver", id |-> d])
            \in [WorkerId -> Seq(ToWorkerMsg)]
    <3>1. \A o \in Named(d) : dworker[o] # None => dworker[o].id \in WorkerId
      BY <1>1 DEF Named, WorkerRef
    <3> QED
      BY <1>1, <3>1, MessageTypes, SendToType
  <2> QED
    BY <1>1, <2>1 DEF RequestKillDriver
<1> QED
  BY <1>2, <1>3, <1>4 DEF RequestKillDriver, MasterTypeOK, WorkersTypeOK, DriversTypeOK, AppsTypeOK,
     PersistedTypeOK, ChannelTypeOK, workerVars, appVars, persistedVars

LEMMA DriverStateChangedType ==
  ASSUME MasterTypeOK, NEW d \in DriverId, NEW st \in DriverState,
         DriverStateChanged(d, st), toSelf' \in Seq(ToSelfMsg)
  PROVE  MasterTypeOK'
<1>1. CASE UNCHANGED <<memoryVars, toWorker, toApp>>
  BY <1>1 DEF MasterTypeOK, WorkersTypeOK, DriversTypeOK, AppsTypeOK,
     PersistedTypeOK, ChannelTypeOK, memoryVars, workerVars, driverVars, appVars, persistedVars
<1>2. CASE ~ isFinished(st)
  <2>1. dstate' \in [DriverObj -> DriverState]
    BY <1>2 DEF DriverStateChanged, MasterTypeOK, DriversTypeOK
  <2> QED
    BY <1>2, <2>1 DEF DriverStateChanged, MasterTypeOK, WorkersTypeOK, DriversTypeOK, AppsTypeOK,
       PersistedTypeOK, ChannelTypeOK, workerVars, appVars, persistedVars
<1>3. ASSUME NEW o \in Named(d),
             IF NoNode({o})
             THEN RestartActor(pdrivers)
             ELSE /\ RemoveDrivers({o})
                  /\ UNCHANGED <<epoch, state, workers, wstate, lastHeartbeat, idToWorker,
                                 addressToWorker, submitted, appVars, pworkers, papps, toApp>>
                  /\ Schedule(TRUE, waitingDrivers, dstateAfter({o}, st), dworker,
                              wdriversAfter({o}), toWorker)
      PROVE  MasterTypeOK'
  <2>1. CASE NoNode({o})
    BY <1>3, <2>1, RestartActorType DEF MasterTypeOK, PersistedTypeOK
  <2>2. CASE ~ NoNode({o})
    <3>1. {o} \in SUBSET DriverObj
      BY DEF Named, MasterTypeOK, DriversTypeOK
    <3>2. /\ dstateAfter({o}, st) \in [DriverObj -> DriverState]
          /\ wdriversAfter({o}) \in [WorkerId -> SUBSET DriverId]
          /\ drivers' \subseteq DriverObj
          /\ completedDrivers' \subseteq DriverObj
          /\ pdrivers' \in [DriverId -> DriverObj \cup {None}]
      BY <1>3, <2>2, <3>1, RemovalTypes
    <3>3. /\ waitingDrivers \in Seq(DriverObj)
          /\ dworker \in [DriverObj -> WorkerRef \cup {None}]
          /\ toWorker \in [WorkerId -> Seq(ToWorkerMsg)]
          /\ workers' \subseteq WorkerId
      BY <1>3, <2>2 DEF MasterTypeOK, WorkersTypeOK, DriversTypeOK, ChannelTypeOK
    <3>4. /\ waitingDrivers' \in Seq(DriverObj)
          /\ dstate' \in [DriverObj -> DriverState]
          /\ dworker' \in [DriverObj -> WorkerRef \cup {None}]
          /\ wdrivers' \in [WorkerId -> SUBSET DriverId]
          /\ toWorker' \in [WorkerId -> Seq(ToWorkerMsg)]
      BY <1>3, <2>2, <3>2, <3>3, ScheduleType
    <3>5. DriversTypeOK'
      BY <1>3, <2>2, <3>2, <3>4 DEF MasterTypeOK, DriversTypeOK
    <3> QED
      BY <1>3, <2>2, <3>2, <3>4, <3>5 DEF MasterTypeOK, WorkersTypeOK, AppsTypeOK,
         PersistedTypeOK, ChannelTypeOK, appVars
  <2> QED
    BY <2>1, <2>2
<1> QED
  BY <1>1, <1>2, <1>3 DEF DriverStateChanged, removeDriver

LEMMA SelfMessageType ==
  ASSUME MasterTypeOK, SelfMessage
  PROVE  MasterTypeOK'
<1>1. toSelf \in Seq(ToSelfMsg) /\ toSelf # <<>>
  BY DEF SelfMessage, MasterTypeOK, ChannelTypeOK
<1>2. Head(toSelf) \in ToSelfMsg /\ Tail(toSelf) \in Seq(ToSelfMsg)
  BY <1>1, HeadTailProperties
<1>3. Head(toSelf).id \in DriverId /\ toSelf' \in Seq(ToSelfMsg) /\ "KILLED" \in DriverState
  BY <1>2 DEF SelfMessage, ToSelfMsg, DriverState, FinishedState
<1> QED
  BY <1>3, RequestSubmitDriverType, DriverStateChangedType DEF SelfMessage

\* Every step of the master keeps the types.
LEMMA TypeStep ==
  ASSUME MasterTypeOK, [MasterNext]_masterVars
  PROVE  MasterTypeOK'
<1>1. CASE ElectedLeader
  BY <1>1, ElectedLeaderType
<1>2. CASE CompleteRecovery
  BY <1>2, CompleteRecoveryType
<1>3. CASE ProcessExit
  BY <1>3, ProcessExitType
<1>4. CASE SelfMessage
  BY <1>4, SelfMessageType
<1>5. CASE MessagesTaken
  BY <1>5, MessagesTakenType
<1>6. ASSUME NEW w \in WorkerId, WorkerMessage(w) \/ TimePasses(w) \/ CheckForWorkerTimeOut(w)
      PROVE  MasterTypeOK'
  BY <1>6, RegisterWorkerType, HeartbeatType, WorkerSchedulerStateResponseType,
     WorkerLatestStateType, ClockType DEF WorkerMessage
<1>7. ASSUME NEW d \in DriverId, DriverMessage(d)
      PROVE  MasterTypeOK'
  <2>1. toSelf \in Seq(ToSelfMsg)
    BY DEF MasterTypeOK, ChannelTypeOK
  <2>2. CASE RequestSubmitDriver(d) /\ UNCHANGED toSelf
    BY <2>1, <2>2, RequestSubmitDriverType
  <2>3. CASE RequestKillDriver(d)
    BY <2>3, RequestKillDriverType
  <2>4. ASSUME NEW st \in ReportedState, DriverStateChanged(d, st) /\ UNCHANGED toSelf
        PROVE  MasterTypeOK'
    BY <2>1, <2>4, MasterAssumption, DriverStateChangedType
  <2>5. CASE ApplicationStateResponse(d)
    BY <2>5, ApplicationStateResponseType
  <2> QED
    BY <1>7, <2>2, <2>3, <2>4, <2>5 DEF DriverMessage
<1>8. ASSUME NEW p \in AppProc, RegisterApplication(p)
      PROVE  MasterTypeOK'
  BY <1>8, RegisterApplicationType
<1>9. ASSUME NEW a \in Addr, onDisconnected(a)
      PROVE  MasterTypeOK'
  BY <1>9, onDisconnectedType
<1>10. CASE UNCHANGED masterVars
  BY <1>10 DEF masterVars, MasterTypeOK, WorkersTypeOK, DriversTypeOK, AppsTypeOK, PersistedTypeOK,
     ChannelTypeOK, memoryVars, workerVars, driverVars, appVars, persistedVars, channelVars
<1> QED
  BY <1>1, <1>2, <1>3, <1>4, <1>5, <1>6, <1>7, <1>8, <1>9, <1>10 DEF MasterNext

\* The initial state of the first master process is well typed.
LEMMA InitType == MasterInit => MasterTypeOK
<1> SUFFICES ASSUME MasterInit PROVE MasterTypeOK
  OBVIOUS
<1>1. WorkersTypeOK
  BY DEF MasterInit, EmptyMemory, WorkersTypeOK, Fresh, Ancient
<1>2. DriversTypeOK
  BY EmptySeq, ConstantsAssumption DEF MasterInit, EmptyMemory, DriversTypeOK, DriverState, LiveState
<1>3. AppsTypeOK /\ PersistedTypeOK
  BY DEF MasterInit, EmptyMemory, AppsTypeOK, PersistedTypeOK
<1>4. ChannelTypeOK
  BY EmptySeq DEF MasterInit, ChannelInit, ChannelTypeOK
<1> QED
  BY <1>1, <1>2, <1>3, <1>4 DEF MasterInit, EmptyMemory, MasterTypeOK

\* Whatever messages arrive, in whatever order, and whatever incarnations of the process
\* they meet, the fields of the master, the stored nodes and the channels hold what
\* MasterTypeOK says: no handler of MoonboxMaster.scala, and no path through schedule(),
\* stores or sends anything else.
THEOREM TypeCorrect == MasterSpec => []MasterTypeOK
<1>1. MasterInit => MasterTypeOK
  BY InitType
<1>2. MasterTypeOK /\ [MasterNext]_masterVars => MasterTypeOK'
  BY TypeStep
<1> QED
  BY <1>1, <1>2, PTL DEF MasterSpec

-----------------------------------------------------------------------------
(***************************************************************************)
(* The safety invariants of the master that no failover, disconnection or  *)
(* late message breaks, for every set of workers, drivers, applications    *)
(* and addresses.  They are proved together: that no driver waits beside   *)
(* an alive worker needs that an active master has no UNKNOWN worker (a    *)
(* late WorkerSchedulerStateResponse cannot then make a worker alive       *)
(* behind the back of schedule), which needs the indexes to agree, which   *)
(* after a failover needs the stored workers to have distinct addresses.   *)
(***************************************************************************)

\* A master that does not lead knows nobody and keeps nothing.
StandbyEmpty ==
  state = "STANDBY" =>
    /\ workers = {} /\ idToWorker = {}
    /\ \A a \in Addr : addressToWorker[a] = None
    /\ drivers = {} /\ waitingDrivers = <<>>
    /\ apps = {}
    /\ \A d \in DriverId : idToApp[d] = None
    /\ \A a \in Addr : addressToApp[a] = None

\* The inductive invariant.
MasterInv ==
  /\ MasterTypeOK
  /\ StandbyEmpty
  /\ WorkerIndexes
  /\ AppIndexes
  /\ PersistedMatchesRegistered
  /\ RecoveryCompletes
  /\ NoIdleWaiting

-----------------------------------------------------------------------------

\* What the invariant needs to know of schedule(): it empties the waiting list, always so
\* if it is called on an active master with an alive worker, or leaves the list alone.
LEMMA ScheduleWaiting ==
  ASSUME NEW called, NEW waiting, NEW ds, NEW dw, NEW wd, NEW net,
         Schedule(called, waiting, ds, dw, wd, net)
  PROVE  /\ waitingDrivers' = <<>> \/ waitingDrivers' = waiting
         /\ called /\ state' = "ACTIVE" /\ AliveNow # {} => waitingDrivers' = <<>>
BY DEF Schedule

\* AliveNow is what NoIdleWaiting looks at after the step.
LEMMA AliveAfter == AliveNow = AliveWorkers'
BY DEF AliveNow, AliveWorkers

\* A step that changes none of the fields the invariant reads.
LEMMA FieldsUnchanged ==
  ASSUME MasterInv, MasterTypeOK',
         UNCHANGED <<state, workers, wstate, idToWorker, addressToWorker, drivers,
                     waitingDrivers, apps, astate, idToApp, addressToApp, pworkers, papps>>
  PROVE  MasterInv'
<1>1. StandbyEmpty' /\ WorkerIndexes'
  BY DEF MasterInv, StandbyEmpty, WorkerIndexes
<1>2. AppIndexes' /\ PersistedMatchesRegistered'
  BY DEF MasterInv, AppIndexes, PersistedMatchesRegistered, Zk
<1>3. RecoveryCompletes' /\ NoIdleWaiting'
  BY DEF MasterInv, RecoveryCompletes, NoIdleWaiting, canCompleteRecovery, AliveWorkers
<1> QED
  BY <1>1, <1>2, <1>3 DEF MasterInv

\* A new actor, or a new process, that finds the nodes of the workers and applications as
\* they were.
LEMMA Forgotten ==
  ASSUME MasterInv, MasterTypeOK', ForgetMemory, UNCHANGED <<pworkers, papps>>
  PROVE  MasterInv'
<1>1. StandbyEmpty'
  BY DEF ForgetMemory, StandbyEmpty
<1>2. WorkerIndexes'
  BY DEF ForgetMemory, WorkerIndexes
<1>3. AppIndexes'
  BY DEF ForgetMemory, AppIndexes
<1>4. PersistedMatchesRegistered'
  BY DEF MasterInv, ForgetMemory, PersistedMatchesRegistered
<1>5. RecoveryCompletes' /\ NoIdleWaiting'
  BY DEF ForgetMemory, RecoveryCompletes, NoIdleWaiting
<1> QED
  BY <1>1, <1>2, <1>3, <1>4, <1>5 DEF MasterInv

LEMMA RemovalThrowsInv ==
  ASSUME MasterInv, NEW gone \in SUBSET DriverObj, RemovalThrows(gone)
  PROVE  MasterInv'
<1>1. MasterTypeOK'
  BY RemovalThrowsType DEF MasterInv
<1>2. ForgetMemory /\ UNCHANGED <<pworkers, papps>>
  BY DEF RemovalThrows, RestartActor
<1> QED
  BY <1>1, <1>2, Forgotten

-----------------------------------------------------------------------------
(* Removals                                                                *)

\* Removing registered workers keeps the worker indexes in step.
LEMMA RemovedWorkers ==
  ASSUME MasterInv, NEW R \in SUBSET idToWorker,
         wstate' = wstateAfter(R), idToWorker' = idToWorker \ R,
         addressToWorker' = addressAfter(R), workers' = workers
  PROVE  /\ WorkerIndexes'
         /\ AliveNow \subseteq AliveWorkers
<1>1. /\ workers \subseteq WorkerId /\ idToWorker \subseteq WorkerId
      /\ wstate \in [WorkerId -> {"ALIVE", "DEAD", "UNKNOWN"}]
      /\ addressToWorker \in [Addr -> WorkerId \cup {None}]
      /\ WorkerIndexes
  BY DEF MasterInv, MasterTypeOK, WorkersTypeOK
<1>2. \A w \in WorkerId : wstate'[w] = IF w \in R THEN "DEAD" ELSE wstate[w]
  BY DEF wstateAfter
<1>3. \A a \in Addr : addressToWorker'[a] =
        IF \E w \in R : workerAddress[w] = a THEN None ELSE addressToWorker[a]
  BY DEF addressAfter
<1>4. idToWorker' = {w \in workers' : wstate'[w] # "DEAD"}
  BY <1>1, <1>2 DEF WorkerIndexes
<1>5. \A w \in WorkerId : workerAddress[w] \in Addr
  BY ConstantsAssumption
<1>6. \A w \in idToWorker' : addressToWorker'[workerAddress[w]] = w
  BY <1>1, <1>3, <1>5 DEF WorkerIndexes
<1>7. \A a \in Addr : addressToWorker'[a] # None =>
        addressToWorker'[a] \in idToWorker' /\ workerAddress[addressToWorker'[a]] = a
  BY <1>1, <1>3 DEF WorkerIndexes
<1>8. AliveNow \subseteq AliveWorkers
  BY <1>1, <1>2 DEF AliveNow, AliveWorkers
<1> QED
  BY <1>4, <1>6, <1>7, <1>8 DEF WorkerIndexes

\* Removing registered applications keeps theirs, and the stored ones, in step.
LEMMA RemovedApplications ==
  ASSUME MasterInv, NEW A \in SUBSET apps, RemoveApplications(A)
  PROVE  /\ AppIndexes'
         /\ papps = idToApp => papps' = idToApp'
         /\ \A d \in DriverId : papps'[d] # None => papps'[d] = papps[d]
<1>1. /\ apps \subseteq AppProc
      /\ idToApp \in [DriverId -> AppProc \cup {None}]
      /\ addressToApp \in [Addr -> AppProc \cup {None}]
      /\ papps \in [DriverId -> AppProc \cup {None}]
      /\ AppIndexes
  BY DEF MasterInv, MasterTypeOK, AppsTypeOK, PersistedTypeOK
<1>2. /\ apps' = apps \ A
      /\ \A d \in DriverId : idToApp'[d] = IF \E p \in A : appDriver[p] = d THEN None ELSE idToApp[d]
      /\ \A a \in Addr : addressToApp'[a] = IF \E p \in A : appAddress[p] = a THEN None ELSE addressToApp[a]
      /\ \A d \in DriverId : papps'[d] = IF \E p \in A : appDriver[p] = d THEN None ELSE papps[d]
  BY DEF RemoveApplications
<1>3. \A p \in AppProc : appAddress[p] \in Addr /\ appDriver[p] \in DriverId
  BY ConstantsAssumption
<1>4. \A p \in apps' : idToApp'[appDriver[p]] = p /\ addressToApp'[appAddress[p]] = p
  BY <1>1, <1>2, <1>3 DEF AppIndexes
<1>5. \A d \in DriverId : idToApp'[d] # None => idToApp'[d] \in apps' /\ appDriver[idToApp'[d]] = d
  BY <1>1, <1>2 DEF AppIndexes
<1>6. \A a \in Addr : addressToApp'[a] # None =>
        addressToApp'[a] \in apps' /\ appAddress[addressToApp'[a]] = a
  BY <1>1, <1>2 DEF AppIndexes
<1>7. papps = idToApp => papps' = idToApp'
  BY DEF RemoveApplications
<1> QED
  BY <1>2, <1>4, <1>5, <1>6, <1>7 DEF AppIndexes

\* removeWorker and removeApplication, from whichever handler: the timeout, the
\* disconnection or the end of recovery.
LEMMA RemoveAllInv ==
  ASSUME MasterInv,
         NEW R \in SUBSET idToWorker, NEW A \in SUBSET apps,
         NEW newState \in {state, "ACTIVE"},
         state = "STANDBY" => newState = state,
         newState = "ACTIVE" => canCompleteRecovery(workers, wstateAfter(R), apps \ A, astate),
         RemoveAll(R, A, newState)
  PROVE  MasterInv'
<1> DEFINE ids == UNION {wdrivers[w] : w \in R}
<1>0. /\ R \in SUBSET WorkerId /\ A \in SUBSET AppProc
      /\ newState \in {"STANDBY", "RECOVERING", "ACTIVE"}
  BY DEF MasterInv, MasterTypeOK, WorkersTypeOK, AppsTypeOK
<1>1. MasterTypeOK'
  BY <1>0, RemoveAllType DEF MasterInv
<1>2. PICK gone \in Found(ids) :
        IF NoNode(gone)
        THEN RemovalThrows(gone)
        ELSE /\ state' = newState
             /\ wstate' = wstateAfter(R)
             /\ idToWorker' = idToWorker \ R
             /\ addressToWorker' = addressAfter(R)
             /\ pworkers' = pworkers \ R
             /\ RemoveDrivers(gone)
             /\ RemoveApplications(A)
             /\ UNCHANGED <<epoch, workers, lastHeartbeat, submitted, toApp, toSelf>>
             /\ Schedule(gone # {} \/ newState # state, waitingDrivers,
                         dstateAfter(gone, "ERROR"), dworker, wdriversAfter(gone), toWorker)
  BY DEF RemoveAll
<1>3. CASE NoNode(gone)
  <2>1. gone \in SUBSET DriverObj
    BY FoundInDrivers DEF MasterInv, MasterTypeOK, DriversTypeOK
  <2> QED
    BY <1>2, <1>3, <2>1, RemovalThrowsInv
<1>4. CASE ~ NoNode(gone)
  <2>1. WorkerIndexes' /\ AliveNow \subseteq AliveWorkers
    BY <1>2, <1>4, RemovedWorkers
  <2>2. /\ AppIndexes'
        /\ papps = idToApp => papps' = idToApp'
        /\ \A d \in DriverId : papps'[d] # None => papps'[d] = papps[d]
    BY <1>2, <1>4, RemovedApplications
  <2>3. /\ waitingDrivers' = <<>> \/ waitingDrivers' = waitingDrivers
        /\ (gone # {} \/ newState # state) /\ state' = "ACTIVE" /\ AliveNow # {} =>
             waitingDrivers' = <<>>
    BY <1>2, <1>4, ScheduleWaiting
  <2>4. StandbyEmpty'
    <3>1. SUFFICES ASSUME state' = "STANDBY" PROVE StandbyEmpty'
      BY DEF StandbyEmpty
    <3>2. state = "STANDBY" /\ StandbyEmpty
      BY <1>2, <1>4, <3>1 DEF MasterInv
    <3>3. workers' = {} /\ idToWorker' = {} /\ drivers' = {} /\ apps' = {} /\ waitingDrivers' = <<>>
      BY <1>2, <1>4, <2>3, <3>2 DEF StandbyEmpty, RemoveDrivers, RemoveApplications
    <3>4. /\ \A a \in Addr : addressToWorker'[a] = None /\ addressToApp'[a] = None
          /\ \A d \in DriverId : idToApp'[d] = None
      BY <1>2, <1>4, <3>2 DEF StandbyEmpty, addressAfter, RemoveApplications
    <3> QED
      BY <3>3, <3>4 DEF StandbyEmpty
  <2>5. PersistedMatchesRegistered'
    <3>1. Zk /\ state' # "STANDBY" => pworkers' = idToWorker' /\ papps' = idToApp'
      BY <1>2, <1>4, <2>2 DEF MasterInv, PersistedMatchesRegistered
    <3>2. \A v, w \in pworkers' : workerAddress[v] = workerAddress[w] => v = w
      BY <1>2, <1>4 DEF MasterInv, PersistedMatchesRegistered
    <3>3. /\ \A d \in DriverId : papps'[d] # None => appDriver[papps'[d]] = d
          /\ \A d, e \in DriverId : papps'[d] # None /\ papps'[e] # None
               /\ appAddress[papps'[d]] = appAddress[papps'[e]] => d = e
      BY <2>2 DEF MasterInv, PersistedMatchesRegistered
    <3> QED
      BY <3>1, <3>2, <3>3 DEF PersistedMatchesRegistered, Zk
  <2>6. RecoveryCompletes'
    <3>1. state' = "ACTIVE" => canCompleteRecovery(workers, wstate, apps, astate)'
      BY <1>2, <1>4 DEF canCompleteRecovery, RemoveApplications
    <3>2. state' # "ACTIVE" => waitingDrivers' = <<>>
      BY <1>2, <1>4, <2>3 DEF MasterInv, RecoveryCompletes
    <3> QED
      BY <3>1, <3>2 DEF RecoveryCompletes, canCompleteRecovery
  <2>7. NoIdleWaiting'
    BY <1>2, <1>4, <2>1, <2>3, AliveAfter DEF MasterInv, NoIdleWaiting
  <2> QED
    BY <1>1, <2>1, <2>2, <2>4, <2>5, <2>6, <2>7 DEF MasterInv
<1> QED
  BY <1>3, <1>4

LEMMA CompleteRecoveryInv ==
  ASSUME MasterInv, CompleteRecovery
  PROVE  MasterInv'
<1> DEFINE R == {w \in workers : wstate[w] = "UNKNOWN"}
           A == {p \in apps : astate[p] = "UNKNOWN"}
<1>1. R \in SUBSET idToWorker /\ A \in SUBSET apps
  BY DEF MasterInv, WorkerIndexes
<1>2. canCompleteRecovery(workers, wstateAfter(R), apps \ A, astate)
  BY DEF canCompleteRecovery, wstateAfter, MasterInv, MasterTypeOK, WorkersTypeOK
<1>3. RemoveAll(R, A, "ACTIVE") /\ state # "STANDBY"
  BY DEF CompleteRecovery
<1> HIDE DEF R, A
<1> QED
  BY <1>1, <1>2, <1>3, RemoveAllInv

LEMMA onDisconnectedInv ==
  ASSUME MasterInv, NEW a \in Addr, onDisconnected(a)
  PROVE  MasterInv'
<1> DEFINE R == {addressToWorker[a]} \ {None}
           A == {addressToApp[a]} \ {None}
           left == canCompleteRecovery(workers, wstateAfter(R), apps \ A, astate)
           s == IF state = "RECOVERING" /\ left THEN "ACTIVE" ELSE state
<1>1. R \in SUBSET idToWorker /\ A \in SUBSET apps
  BY DEF MasterInv, WorkerIndexes, AppIndexes
<1>2. s = "ACTIVE" => left
  BY DEF MasterInv, RecoveryCompletes, canCompleteRecovery, wstateAfter, MasterTypeOK, WorkersTypeOK
<1>3. s \in {state, "ACTIVE"} /\ (state = "STANDBY" => s = state)
  OBVIOUS
<1>4. RemoveAll(R, A, s)
  BY DEF onDisconnected
<1> HIDE DEF R, A, s
<1> QED
  BY <1>1, <1>2, <1>3, <1>4, RemoveAllInv

LEMMA CheckForWorkerTimeOutInv ==
  ASSUME MasterInv, NEW w \in WorkerId, CheckForWorkerTimeOut(w)
  PROVE  MasterInv'
<1>1. CASE wstate[w] # "DEAD" /\ RemoveAll({w}, {}, state)
  <2>1. {w} \in SUBSET idToWorker /\ {} \in SUBSET apps
    BY <1>1 DEF CheckForWorkerTimeOut, MasterInv, WorkerIndexes
  <2>2. state = "ACTIVE" => canCompleteRecovery(workers, wstateAfter({w}), apps \ {}, astate)
    BY DEF MasterInv, RecoveryCompletes, canCompleteRecovery, wstateAfter, MasterTypeOK, WorkersTypeOK
  <2> QED
    BY <1>1, <2>1, <2>2, RemoveAllInv
<1>2. CASE /\ wstate[w] = "DEAD"
           /\ workers' = workers \ {w}
           /\ UNCHANGED <<epoch, state, wstate, lastHeartbeat, wdrivers, idToWorker,
                          addressToWorker, driverVars, submitted, appVars, persistedVars,
                          channelVars>>
  <2>1. MasterTypeOK'
    BY ClockType DEF MasterInv
  <2> USE <1>2 DEF driverVars, appVars, persistedVars
  <2>2. StandbyEmpty'
    BY DEF MasterInv, StandbyEmpty
  <2>3. WorkerIndexes'
    BY DEF MasterInv, WorkerIndexes
  <2>4. AppIndexes'
    BY DEF MasterInv, AppIndexes
  <2>5. PersistedMatchesRegistered'
    BY DEF MasterInv, PersistedMatchesRegistered, Zk
  <2>6. RecoveryCompletes' /\ NoIdleWaiting'
    BY DEF MasterInv, RecoveryCompletes, NoIdleWaiting, canCompleteRecovery, AliveWorkers
  <2> QED
    BY <2>1, <2>2, <2>3, <2>4, <2>5, <2>6 DEF MasterInv
<1> QED
  BY <1>1, <1>2 DEF CheckForWorkerTimeOut

-----------------------------------------------------------------------------
(* Election                                                                *)

LEMMA ElectedFreshInv ==
  ASSUME MasterInv, MasterTypeOK', state = "STANDBY", ElectedFresh,
         pworkers = {}, \A d \in DriverId : papps[d] = None
  PROVE  MasterInv'
<1> USE DEF ElectedFresh, workerVars, driverVars, appVars, persistedVars
<1>1. StandbyEmpty
  BY DEF MasterInv
<1>2. StandbyEmpty' /\ WorkerIndexes' /\ AppIndexes'
  BY DEF MasterInv, StandbyEmpty, WorkerIndexes, AppIndexes
<1>3. papps = idToApp
  <2>1. papps \in [DriverId -> AppProc \cup {None}] /\ idToApp \in [DriverId -> AppProc \cup {None}]
    BY DEF MasterInv, MasterTypeOK, AppsTypeOK, PersistedTypeOK
  <2>2. \A d \in DriverId : papps[d] = idToApp[d]
    BY <1>1 DEF StandbyEmpty
  <2> QED
    BY <2>1, <2>2
<1>4. PersistedMatchesRegistered'
  BY <1>1, <1>3 DEF StandbyEmpty, PersistedMatchesRegistered, Zk
<1>5. RecoveryCompletes' /\ NoIdleWaiting'
  BY <1>1 DEF StandbyEmpty, RecoveryCompletes, NoIdleWaiting, canCompleteRecovery
<1> QED
  BY <1>2, <1>4, <1>5 DEF MasterInv

\* The recovered indexes agree because the stored workers, and the stored applications,
\* have distinct addresses.
LEMMA beginRecoveryInv ==
  ASSUME MasterInv, MasterTypeOK', state = "STANDBY", beginRecovery
  PROVE  MasterInv'
<1>1. StandbyEmpty /\ PersistedMatchesRegistered
  BY DEF MasterInv
<1>2. /\ pworkers \subseteq WorkerId
      /\ papps \in [DriverId -> AppProc \cup {None}]
      /\ idToApp \in [DriverId -> AppProc \cup {None}]
  BY DEF MasterInv, MasterTypeOK, AppsTypeOK, PersistedTypeOK
<1>3. state' = "RECOVERING" /\ waitingDrivers' = <<>> /\ UNCHANGED <<pworkers, papps>>
  BY <1>1 DEF StandbyEmpty, beginRecovery, recoverDrivers, persistedVars
<1>4. StandbyEmpty' /\ RecoveryCompletes' /\ NoIdleWaiting'
  BY <1>3 DEF StandbyEmpty, RecoveryCompletes, NoIdleWaiting
<1>5. WorkerIndexes'
  <2>1. /\ workers' = pworkers /\ idToWorker' = pworkers
        /\ \A w \in pworkers : wstate'[w] = "UNKNOWN"
    BY <1>1, <1>2 DEF StandbyEmpty, beginRecovery, recoverWorkers
  <2>2. \A a \in Addr : addressToWorker'[a] =
          IF \E w \in pworkers : workerAddress[w] = a
          THEN CHOOSE w \in pworkers : workerAddress[w] = a ELSE None
    BY <1>1 DEF StandbyEmpty, beginRecovery, recoverWorkers
  <2>3. \A w \in pworkers : workerAddress[w] \in Addr
    BY <1>2, ConstantsAssumption
  <2>4. \A w \in pworkers : (CHOOSE v \in pworkers : workerAddress[v] = workerAddress[w]) = w
    BY <1>1 DEF PersistedMatchesRegistered
  <2>5. \A w \in idToWorker' : addressToWorker'[workerAddress[w]] = w
    BY <2>1, <2>2, <2>3, <2>4
  <2>6. \A a \in Addr : addressToWorker'[a] # None =>
          addressToWorker'[a] \in idToWorker' /\ workerAddress[addressToWorker'[a]] = a
    BY <2>1, <2>2
  <2> QED
    BY <2>1, <2>5, <2>6 DEF WorkerIndexes
<1>6. papps' = idToApp'
  <2>1. \A d \in DriverId : idToApp'[d] = papps[d]
    BY <1>1 DEF StandbyEmpty, beginRecovery, recoverApps
  <2>2. idToApp' \in [DriverId -> AppProc \cup {None}]
    BY DEF MasterTypeOK, AppsTypeOK
  <2> QED
    BY <1>2, <1>3, <2>1, <2>2
<1>7. AppIndexes'
  <2>1. apps' = storedApps
    BY <1>1 DEF StandbyEmpty, beginRecovery, recoverApps
  <2>2. \A p \in storedApps : p \in AppProc /\ papps[appDriver[p]] = p
    BY <1>1, <1>2 DEF storedApps, PersistedMatchesRegistered
  <2>3. \A a \in Addr : addressToApp'[a] =
          IF \E p \in storedApps : appAddress[p] = a
          THEN CHOOSE p \in storedApps : appAddress[p] = a ELSE None
    BY <1>1 DEF StandbyEmpty, beginRecovery, recoverApps
  <2>4. \A p \in storedApps : appAddress[p] \in Addr /\ appDriver[p] \in DriverId
    BY <2>2, ConstantsAssumption
  <2>5. \A p, q \in storedApps : appAddress[p] = appAddress[q] => p = q
    <3>1. \A p \in storedApps : p # None
      BY DEF storedApps
    <3> QED
      BY <1>1, <2>2, <2>4, <3>1 DEF PersistedMatchesRegistered
  <2>6. \A p \in storedApps : (CHOOSE q \in storedApps : appAddress[q] = appAddress[p]) = p
    BY <2>5
  <2>7. \A p \in apps' : idToApp'[appDriver[p]] = p /\ addressToApp'[appAddress[p]] = p
    BY <1>3, <1>6, <2>1, <2>2, <2>3, <2>4, <2>6
  <2>8. \A d \in DriverId : idToApp'[d] # None => idToApp'[d] \in apps' /\ appDriver[idToApp'[d]] = d
    BY <1>1, <1>3, <1>6, <2>1 DEF storedApps, PersistedMatchesRegistered
  <2>9. \A a \in Addr : addressToApp'[a] # None =>
          addressToApp'[a] \in apps' /\ appAddress[addressToApp'[a]] = a
    BY <2>1, <2>3
  <2> QED
    BY <2>7, <2>8, <2>9 DEF AppIndexes
<1>8. PersistedMatchesRegistered'
  <2>1. idToWorker' = pworkers'
    BY <1>1, <1>3 DEF StandbyEmpty, beginRecovery, recoverWorkers
  <2> QED
    BY <1>1, <1>3, <1>6, <2>1 DEF PersistedMatchesRegistered
<1> QED
  BY <1>4, <1>5, <1>7, <1>8 DEF MasterInv

-----------------------------------------------------------------------------
(* Workers                                                                 *)

LEMMA RegisterWorkerAcceptedInv ==
  ASSUME MasterInv, NEW w \in WorkerId, RegisterWorkerAccepted(w)
  PROVE  MasterInv'
<1> DEFINE a == workerAddress[w]
           old == {addressToWorker[a]} \ {None}
<1>0. MasterTypeOK'
  BY RegisterWorkerType DEF RegisterWorker, MasterInv
<1>1. /\ workers \subseteq WorkerId /\ idToWorker \subseteq WorkerId
      /\ wstate \in [WorkerId -> {"ALIVE", "DEAD", "UNKNOWN"}]
      /\ addressToWorker \in [Addr -> WorkerId \cup {None}]
      /\ WorkerIndexes
      /\ a \in Addr /\ (\A v \in WorkerId : workerAddress[v] \in Addr)
  BY ConstantsAssumption DEF MasterInv, MasterTypeOK, WorkersTypeOK
<1>2. /\ state # "STANDBY" /\ w \notin idToWorker
      /\ \A v \in old : wstate[v] = "UNKNOWN"
  BY DEF RegisterWorkerAccepted
<1>3. PICK gone \in Found(UNION {wdrivers[v] : v \in old}) :
        IF NoNode(gone)
        THEN RemovalThrows(gone)
        ELSE /\ workers' = (workers \ DeadAt(a)) \cup {w}
             /\ wstate' = [wstateAfter(old) EXCEPT ![w] = "ALIVE"]
             /\ lastHeartbeat' = [lastHeartbeat EXCEPT ![w] = Fresh]
             /\ idToWorker' = (idToWorker \ old) \cup {w}
             /\ addressToWorker' = [addressToWorker EXCEPT ![a] = w]
             /\ pworkers' = IF Zk THEN (pworkers \ old) \cup {w} ELSE pworkers
             /\ RemoveDrivers(gone)
             /\ UNCHANGED <<epoch, state, submitted, appVars, papps, toApp, toSelf>>
             /\ Schedule(TRUE, waitingDrivers, dstateAfter(gone, "ERROR"),
                         [o \in DriverObj |->
                            IF dworker[o] = Ref(w) THEN Replaced(w) ELSE dworker[o]],
                         [wdriversAfter(gone) EXCEPT ![w] = {}],
                         SendTo(toWorker, w, [type |-> "RegisteredWorker", master |-> epoch]))
  BY DEF RegisterWorkerAccepted
<1>4. CASE NoNode(gone)
  <2>1. gone \in SUBSET DriverObj
    BY FoundInDrivers DEF MasterInv, MasterTypeOK, DriversTypeOK
  <2> QED
    BY <1>3, <1>4, <2>1, RemovalThrowsInv
<1>5. CASE ~ NoNode(gone)
  <2>1. \A v \in WorkerId : wstate'[v] =
          IF v = w THEN "ALIVE" ELSE IF v \in old THEN "DEAD" ELSE wstate[v]
    BY <1>1, <1>3, <1>5 DEF wstateAfter
  <2>2. old \subseteq idToWorker
    BY <1>1 DEF WorkerIndexes
  <2>3. /\ waitingDrivers' = <<>> \/ waitingDrivers' = waitingDrivers
        /\ state' = "ACTIVE" /\ AliveNow # {} => waitingDrivers' = <<>>
    BY <1>3, <1>5, ScheduleWaiting
  <2>4. WorkerIndexes'
    <3>1. idToWorker' = {v \in workers' : wstate'[v] # "DEAD"}
      <4>1. idToWorker = {v \in workers : wstate[v] # "DEAD"}
        BY <1>1 DEF WorkerIndexes
      <4> QED
        BY <1>1, <1>2, <1>3, <1>5, <2>1, <2>2, <4>1 DEF DeadAt
    <3>2. \A v \in idToWorker' : addressToWorker'[workerAddress[v]] = v
      <4>1. \A b \in Addr : addressToWorker'[b] = IF b = a THEN w ELSE addressToWorker[b]
        BY <1>1, <1>3, <1>5
      <4>2. ASSUME NEW v \in idToWorker \ old PROVE workerAddress[v] # a
        <5>1. addressToWorker[workerAddress[v]] = v /\ v # None
          BY <1>1, NoneAssumption DEF WorkerIndexes
        <5> QED
          BY <5>1
      <4>3. \A v \in idToWorker \ old : addressToWorker[workerAddress[v]] = v
        BY <1>1 DEF WorkerIndexes
      <4> HIDE DEF old
      <4> QED
        BY <1>1, <1>3, <1>5, <4>1, <4>2, <4>3
    <3>3. \A b \in Addr : addressToWorker'[b] # None =>
            addressToWorker'[b] \in idToWorker' /\ workerAddress[addressToWorker'[b]] = b
      BY <1>1, <1>3, <1>5 DEF WorkerIndexes
    <3> QED
      BY <3>1, <3>2, <3>3 DEF WorkerIndexes
  <2>5. AppIndexes' /\ StandbyEmpty'
    BY <1>2, <1>3, <1>5 DEF MasterInv, AppIndexes, StandbyEmpty, appVars
  <2>6. PersistedMatchesRegistered'
    <3>1. Zk => pworkers' = idToWorker'
      BY <1>2, <1>3, <1>5 DEF MasterInv, PersistedMatchesRegistered
    <3>2. \A u, v \in pworkers' : workerAddress[u] = workerAddress[v] => u = v
      <4>1. CASE Zk
        BY <2>4, <3>1, <4>1 DEF WorkerIndexes
      <4>2. CASE ~ Zk
        BY <1>3, <1>5, <4>2 DEF MasterInv, PersistedMatchesRegistered
      <4> QED
        BY <4>1, <4>2
    <3> QED
      BY <1>2, <1>3, <1>5, <3>1, <3>2 DEF MasterInv, PersistedMatchesRegistered, appVars, Zk
  <2>7. RecoveryCompletes'
    <3>1. state' = "ACTIVE" => canCompleteRecovery(workers, wstate, apps, astate)'
      BY <1>1, <1>3, <1>5, <2>1 DEF MasterInv, RecoveryCompletes, canCompleteRecovery, appVars
    <3>2. state' # "ACTIVE" => waitingDrivers' = <<>>
      BY <1>3, <1>5, <2>3 DEF MasterInv, RecoveryCompletes
    <3> QED
      BY <3>1, <3>2 DEF RecoveryCompletes, canCompleteRecovery
  <2>8. NoIdleWaiting'
    BY <2>3, AliveAfter DEF NoIdleWaiting
  <2> QED
    BY <1>0, <2>4, <2>5, <2>6, <2>7, <2>8 DEF MasterInv
<1> QED
  BY <1>4, <1>5

LEMMA RegisterWorkerInv ==
  ASSUME MasterInv, NEW w \in WorkerId, RegisterWorker(w)
  PROVE  MasterInv'
<1>1. MasterTypeOK'
  BY RegisterWorkerType DEF MasterInv
<1>2. CASE RegisterWorkerInStandby(w) \/ RegisterWorkerDuplicate(w)
  BY <1>1, <1>2, FieldsUnchanged DEF RegisterWorkerInStandby, RegisterWorkerDuplicate, memoryVars,
     workerVars, driverVars, appVars, persistedVars
<1>3. CASE RegisterWorkerAddressInUse(w)
  <2> DEFINE a == workerAddress[w]
  <2>1. /\ workers' = workers \ DeadAt(a) /\ state # "STANDBY"
        /\ UNCHANGED <<state, wstate, idToWorker, addressToWorker, driverVars, appVars,
                       persistedVars>>
    BY <1>3 DEF RegisterWorkerAddressInUse
  <2> USE <2>1 DEF driverVars, appVars, persistedVars
  <2>2. WorkerIndexes'
    BY DEF MasterInv, WorkerIndexes, DeadAt
  <2>3. AppIndexes' /\ StandbyEmpty'
    BY DEF MasterInv, AppIndexes, StandbyEmpty
  <2>4. PersistedMatchesRegistered'
    BY DEF MasterInv, PersistedMatchesRegistered, Zk
  <2>5. RecoveryCompletes' /\ NoIdleWaiting'
    BY DEF MasterInv, RecoveryCompletes, NoIdleWaiting, canCompleteRecovery, AliveWorkers
  <2> QED
    BY <1>1, <2>2, <2>3, <2>4, <2>5 DEF MasterInv
<1>4. CASE RegisterWorkerAccepted(w)
  BY <1>4, RegisterWorkerAcceptedInv
<1> QED
  BY <1>2, <1>3, <1>4 DEF RegisterWorker

\* A late answer finds every registered worker alive already, unless the master is still
\* recovering; then schedule() runs with the answer that ends the recovery.
LEMMA WorkerSchedulerStateResponseInv ==
  ASSUME MasterInv, NEW w \in WorkerId, NEW ids \in SUBSET DriverId,
         WorkerSchedulerStateResponse(w, ids)
  PROVE  MasterInv'
<1>1. MasterTypeOK'
  BY WorkerSchedulerStateResponseType DEF MasterInv
<1>2. /\ wstate' = [v \in WorkerId |-> IF v = w /\ w \in idToWorker THEN "ALIVE" ELSE wstate[v]]
      /\ state' = IF state = "RECOVERING" /\ canCompleteRecovery(workers, wstate', apps, astate)
                  THEN "ACTIVE" ELSE state
      /\ UNCHANGED <<workers, idToWorker, addressToWorker, drivers, appVars, persistedVars>>
      /\ waitingDrivers' = <<>> \/ waitingDrivers' = waitingDrivers
      /\ state' # state /\ state' = "ACTIVE" /\ AliveNow # {} => waitingDrivers' = <<>>
  BY ScheduleWaiting DEF WorkerSchedulerStateResponse
<1>3. /\ workers \subseteq WorkerId
      /\ wstate \in [WorkerId -> {"ALIVE", "DEAD", "UNKNOWN"}]
      /\ idToWorker = {v \in workers : wstate[v] # "DEAD"}
  BY DEF MasterInv, MasterTypeOK, WorkersTypeOK, WorkerIndexes
<1> USE DEF appVars, persistedVars
<1>4. StandbyEmpty' /\ AppIndexes'
  BY <1>2 DEF MasterInv, StandbyEmpty, AppIndexes
<1>5. WorkerIndexes'
  BY <1>2, <1>3 DEF MasterInv, WorkerIndexes
<1>6. PersistedMatchesRegistered'
  BY <1>2 DEF MasterInv, PersistedMatchesRegistered, Zk
<1>7. state = "ACTIVE" => \A v \in workers : wstate'[v] = wstate[v]
  BY <1>2, <1>3 DEF MasterInv, RecoveryCompletes, canCompleteRecovery
<1>8. RecoveryCompletes'
  <2>1. state' = "ACTIVE" => canCompleteRecovery(workers, wstate, apps, astate)'
    BY <1>2, <1>7 DEF MasterInv, RecoveryCompletes, canCompleteRecovery
  <2>2. state' # "ACTIVE" => waitingDrivers' = <<>>
    BY <1>2 DEF MasterInv, RecoveryCompletes
  <2> QED
    BY <2>1, <2>2 DEF RecoveryCompletes, canCompleteRecovery
<1>9. NoIdleWaiting'
  <2>1. state = "ACTIVE" => AliveWorkers' = AliveWorkers
    BY <1>2, <1>7 DEF AliveWorkers
  <2> QED
    BY <1>2, <2>1, AliveAfter DEF MasterInv, NoIdleWaiting
<1> QED
  BY <1>1, <1>4, <1>5, <1>6, <1>8, <1>9 DEF MasterInv

LEMMA WorkerMessageInv ==
  ASSUME MasterInv, NEW w \in WorkerId, WorkerMessage(w) \/ TimePasses(w) \/ CheckForWorkerTimeOut(w)
  PROVE  MasterInv'
<1> USE DEF memoryVars, masterVars, workerVars, driverVars, appVars, persistedVars
<1>1. CASE RegisterWorker(w)
  BY <1>1, RegisterWorkerInv
<1>2. CASE Heartbeat(w)
  <2>1. MasterTypeOK'
    BY <1>2, HeartbeatType DEF MasterInv
  <2> QED
    BY <1>2, <2>1, FieldsUnchanged DEF Heartbeat
<1>3. ASSUME NEW ids \in SUBSET DriverId, WorkerSchedulerStateResponse(w, ids)
      PROVE  MasterInv'
  BY <1>3, WorkerSchedulerStateResponseInv
<1>4. ASSUME NEW ids \in SUBSET DriverId, WorkerLatestState(w, ids)
      PROVE  MasterInv'
  <2>1. MasterTypeOK'
    BY <1>4, WorkerLatestStateType DEF MasterInv
  <2> QED
    BY <1>4, <2>1, FieldsUnchanged DEF WorkerLatestState
<1>5. CASE TimePasses(w)
  <2>1. MasterTypeOK'
    BY <1>5, ClockType DEF MasterInv
  <2> QED
    BY <1>5, <2>1, FieldsUnchanged DEF TimePasses
<1>6. CASE CheckForWorkerTimeOut(w)
  BY <1>6, CheckForWorkerTimeOutInv
<1> QED
  BY <1>1, <1>2, <1>3, <1>4, <1>5, <1>6 DEF WorkerMessage

-----------------------------------------------------------------------------
(* Applications                                                            *)

LEMMA RegisterApplicationInv ==
  ASSUME MasterInv, NEW p \in AppProc, RegisterApplication(p)
  PROVE  MasterInv'
<1>1. MasterTypeOK'
  BY RegisterApplicationType DEF MasterInv
<1>2. CASE RegisterApplicationInStandby(p) \/ RegisterApplicationRefused(p)
  BY <1>1, <1>2, FieldsUnchanged DEF RegisterApplicationInStandby, RegisterApplicationRefused,
     memoryVars, workerVars, driverVars, appVars, persistedVars
<1>3. CASE RegisterApplicationAccepted(p)
  <2> DEFINE d == appDriver[p]
             a == appAddress[p]
  <2>1. /\ state # "STANDBY" /\ idToApp[d] = None /\ addressToApp[a] = None
        /\ apps' = apps \cup {p}
        /\ astate' = [astate EXCEPT ![p] = "RUNNING"]
        /\ idToApp' = [idToApp EXCEPT ![d] = p]
        /\ addressToApp' = [addressToApp EXCEPT ![a] = p]
        /\ papps' = IF Zk THEN [papps EXCEPT ![d] = p] ELSE papps
        /\ UNCHANGED <<state, workerVars, driverVars, pworkers>>
    BY <1>3 DEF RegisterApplicationAccepted
  <2>2. /\ apps \subseteq AppProc /\ d \in DriverId /\ a \in Addr
        /\ astate \in [AppProc -> {"RUNNING", "UNKNOWN"}]
        /\ idToApp \in [DriverId -> AppProc \cup {None}]
        /\ addressToApp \in [Addr -> AppProc \cup {None}]
        /\ AppIndexes
        /\ p # None /\ (\A q \in AppProc : q # None)
        /\ \A q \in AppProc : appDriver[q] \in DriverId /\ appAddress[q] \in Addr
    BY ConstantsAssumption, NoneAssumption DEF MasterInv, MasterTypeOK, AppsTypeOK
  <2> HIDE DEF d, a
  <2>3. /\ \A e \in DriverId : idToApp'[e] = IF e = d THEN p ELSE idToApp[e]
        /\ \A b \in Addr : addressToApp'[b] = IF b = a THEN p ELSE addressToApp[b]
    BY <2>1, <2>2
  <2>4. \A q \in apps : idToApp[appDriver[q]] = q /\ addressToApp[appAddress[q]] = q
                        /\ appDriver[q] # d /\ appAddress[q] # a
    BY <2>1, <2>2 DEF AppIndexes
  <2>5. AppIndexes'
    <3>1. \A q \in apps' : idToApp'[appDriver[q]] = q /\ addressToApp'[appAddress[q]] = q
      BY <2>1, <2>2, <2>3, <2>4 DEF d, a
    <3>2. \A e \in DriverId : idToApp'[e] # None => idToApp'[e] \in apps' /\ appDriver[idToApp'[e]] = e
      BY <2>1, <2>2, <2>3 DEF AppIndexes, d
    <3>3. \A b \in Addr : addressToApp'[b] # None =>
            addressToApp'[b] \in apps' /\ appAddress[addressToApp'[b]] = b
      BY <2>1, <2>2, <2>3 DEF AppIndexes, a
    <3> QED
      BY <3>1, <3>2, <3>3 DEF AppIndexes
  <2>6. StandbyEmpty' /\ WorkerIndexes'
    BY <2>1 DEF MasterInv, StandbyEmpty, WorkerIndexes, workerVars
  <2>7. PersistedMatchesRegistered'
    <3>1. CASE Zk
      <4>1. papps' = idToApp' /\ pworkers' = idToWorker'
        BY <2>1, <3>1 DEF MasterInv, PersistedMatchesRegistered, workerVars
      <4>2. \A e \in DriverId : papps'[e] # None => appDriver[papps'[e]] = e
        BY <2>5, <4>1 DEF AppIndexes
      <4>3. \A e, f \in DriverId : papps'[e] # None /\ papps'[f] # None
              /\ appAddress[papps'[e]] = appAddress[papps'[f]] => e = f
        BY <2>5, <4>1 DEF AppIndexes
      <4>4. \A v, w \in pworkers' : workerAddress[v] = workerAddress[w] => v = w
        BY <2>1 DEF MasterInv, PersistedMatchesRegistered
      <4> QED
        BY <4>1, <4>2, <4>3, <4>4 DEF PersistedMatchesRegistered
    <3>2. CASE ~ Zk
      BY <2>1, <3>2 DEF MasterInv, PersistedMatchesRegistered, Zk
    <3> QED
      BY <3>1, <3>2
  <2>8. RecoveryCompletes' /\ NoIdleWaiting'
    BY <2>1, <2>2 DEF MasterInv, RecoveryCompletes, NoIdleWaiting, canCompleteRecovery, AliveWorkers,
       workerVars, driverVars
  <2> QED
    BY <1>1, <2>5, <2>6, <2>7, <2>8 DEF MasterInv
<1> QED
  BY <1>2, <1>3 DEF RegisterApplication

LEMMA ApplicationStateResponseInv ==
  ASSUME MasterInv, NEW d \in DriverId, ApplicationStateResponse(d)
  PROVE  MasterInv'
<1>1. MasterTypeOK'
  BY ApplicationStateResponseType DEF MasterInv
<1>2. /\ astate' = [p \in AppProc |-> IF p = idToApp[d] THEN "RUNNING" ELSE astate[p]]
      /\ state' = IF state = "RECOVERING" /\ canCompleteRecovery(workers, wstate, apps, astate')
                  THEN "ACTIVE" ELSE state
      /\ UNCHANGED <<workers, wstate, idToWorker, addressToWorker, drivers, apps, idToApp,
                     addressToApp, persistedVars>>
      /\ waitingDrivers' = <<>> \/ waitingDrivers' = waitingDrivers
      /\ state' # state /\ state' = "ACTIVE" /\ AliveNow # {} => waitingDrivers' = <<>>
  BY ScheduleWaiting DEF ApplicationStateResponse
<1>3. apps \subseteq AppProc
  BY DEF MasterInv, MasterTypeOK, AppsTypeOK
<1> USE DEF persistedVars
<1>4. StandbyEmpty' /\ WorkerIndexes' /\ AppIndexes'
  BY <1>2 DEF MasterInv, StandbyEmpty, WorkerIndexes, AppIndexes
<1>5. PersistedMatchesRegistered'
  BY <1>2 DEF MasterInv, PersistedMatchesRegistered, Zk
<1>6. RecoveryCompletes'
  <2>1. state' = "ACTIVE" => canCompleteRecovery(workers, wstate, apps, astate)'
    BY <1>2, <1>3 DEF MasterInv, RecoveryCompletes, canCompleteRecovery
  <2>2. state' # "ACTIVE" => waitingDrivers' = <<>>
    BY <1>2 DEF MasterInv, RecoveryCompletes
  <2> QED
    BY <2>1, <2>2 DEF RecoveryCompletes, canCompleteRecovery
<1>7. NoIdleWaiting'
  <2>1. AliveWorkers' = AliveWorkers
    BY <1>2 DEF AliveWorkers
  <2> QED
    BY <1>2, <2>1, AliveAfter DEF MasterInv, NoIdleWaiting
<1> QED
  BY <1>1, <1>4, <1>5, <1>6, <1>7 DEF MasterInv

-----------------------------------------------------------------------------
(* Drivers                                                                 *)

\* A step on an active master that changes only drivers, and calls schedule() if it may
\* leave one waiting that did not wait before.
LEMMA DriversChanged ==
  ASSUME MasterInv, MasterTypeOK', state = "ACTIVE",
         UNCHANGED <<state, workers, wstate, idToWorker, addressToWorker, apps, astate,
                     idToApp, addressToApp, pworkers, papps>>,
         AliveNow # {} => waitingDrivers' = <<>>
  PROVE  MasterInv'
<1>1. StandbyEmpty' /\ WorkerIndexes' /\ AppIndexes'
  BY DEF MasterInv, StandbyEmpty, WorkerIndexes, AppIndexes
<1>2. PersistedMatchesRegistered'
  BY DEF MasterInv, PersistedMatchesRegistered, Zk
<1>3. RecoveryCompletes'
  BY DEF MasterInv, RecoveryCompletes, canCompleteRecovery
<1>4. NoIdleWaiting'
  BY AliveAfter DEF NoIdleWaiting
<1> QED
  BY <1>1, <1>2, <1>3, <1>4 DEF MasterInv

LEMMA RequestSubmitDriverInv ==
  ASSUME MasterInv, NEW d \in DriverId, RequestSubmitDriver(d), toSelf' \in Seq(ToSelfMsg)
  PROVE  MasterInv'
<1>1. MasterTypeOK'
  BY RequestSubmitDriverType DEF MasterInv
<1>2. CASE state = "ACTIVE"
  <2>1. /\ UNCHANGED <<state, workers, wstate, idToWorker, addressToWorker, appVars, pworkers, papps>>
        /\ AliveNow # {} => waitingDrivers' = <<>>
    BY <1>2, ScheduleWaiting DEF RequestSubmitDriver
  <2> QED
    BY <1>1, <1>2, <2>1, DriversChanged DEF appVars
<1>3. CASE state # "ACTIVE"
  BY <1>1, <1>3, FieldsUnchanged DEF RequestSubmitDriver, memoryVars, workerVars, driverVars,
     appVars, persistedVars
<1> QED
  BY <1>2, <1>3

LEMMA RequestKillDriverInv ==
  ASSUME MasterInv, NEW d \in DriverId, RequestKillDriver(d)
  PROVE  MasterInv'
<1>1. MasterTypeOK'
  BY RequestKillDriverType DEF MasterInv
<1>2. CASE UNCHANGED waitingDrivers
  BY <1>1, <1>2, FieldsUnchanged DEF RequestKillDriver, workerVars, appVars, persistedVars
<1>3. ASSUME state = "ACTIVE", NEW i \in 1..Len(waitingDrivers) PROVE MasterInv'
  <2>1. /\ waitingDrivers # <<>>
        /\ UNCHANGED <<state, workerVars, appVars, persistedVars>>
    BY <1>3 DEF RequestKillDriver
  <2>2. AliveWorkers = {}
    BY <1>3, <2>1 DEF MasterInv, NoIdleWaiting
  <2>3. AliveNow = {}
    BY <2>1, <2>2 DEF AliveNow, AliveWorkers, workerVars
  <2> QED
    BY <1>1, <1>3, <2>1, <2>3, DriversChanged DEF workerVars, appVars, persistedVars
<1> QED
  BY <1>2, <1>3 DEF RequestKillDriver

LEMMA DriverStateChangedInv ==
  ASSUME MasterInv, NEW d \in DriverId, NEW st \in DriverState,
         DriverStateChanged(d, st), toSelf' \in Seq(ToSelfMsg)
  PROVE  MasterInv'
<1>1. MasterTypeOK'
  BY DriverStateChangedType DEF MasterInv
<1>2. CASE UNCHANGED <<memoryVars, toWorker, toApp>>
  BY <1>1, <1>2, FieldsUnchanged DEF memoryVars, workerVars, driverVars, appVars, persistedVars
<1>3. CASE ~ isFinished(st)
  BY <1>1, <1>3, FieldsUnchanged DEF DriverStateChanged, workerVars, appVars, persistedVars
<1>4. ASSUME NEW o \in Named(d), RestartActor(pdrivers)
      PROVE  MasterInv'
  BY <1>1, <1>4, Forgotten DEF RestartActor
<1>5. ASSUME NEW o \in Named(d),
             RemoveDrivers({o}),
             UNCHANGED <<epoch, state, workers, wstate, lastHeartbeat, idToWorker,
                         addressToWorker, submitted, appVars, pworkers, papps, toApp>>,
             Schedule(TRUE, waitingDrivers, dstateAfter({o}, st), dworker,
                      wdriversAfter({o}), toWorker)
      PROVE  MasterInv'
  <2>1. /\ waitingDrivers' = <<>> \/ waitingDrivers' = waitingDrivers
        /\ state' = "ACTIVE" /\ AliveNow # {} => waitingDrivers' = <<>>
    BY <1>5, ScheduleWaiting
  <2>2. CASE state = "ACTIVE"
    BY <1>1, <1>5, <2>1, <2>2, DriversChanged DEF appVars
  <2>3. CASE state # "ACTIVE"
    <3>1. state # "STANDBY"
      BY DEF MasterInv, StandbyEmpty, Named
    <3>2. waitingDrivers' = <<>>
      BY <2>1, <2>3 DEF MasterInv, RecoveryCompletes
    <3>3. StandbyEmpty' /\ WorkerIndexes' /\ AppIndexes'
      BY <1>5, <3>1 DEF MasterInv, StandbyEmpty, WorkerIndexes, AppIndexes, appVars
    <3>4. PersistedMatchesRegistered'
      BY <1>5 DEF MasterInv, PersistedMatchesRegistered, Zk, appVars
    <3>5. RecoveryCompletes' /\ NoIdleWaiting'
      BY <1>5, <2>3, <3>2 DEF RecoveryCompletes, NoIdleWaiting
    <3> QED
      BY <1>1, <3>3, <3>4, <3>5 DEF MasterInv
  <2> QED
    BY <2>2, <2>3
<1> QED
  BY <1>2, <1>3, <1>4, <1>5 DEF DriverStateChanged, removeDriver

-----------------------------------------------------------------------------

LEMMA InitInv == MasterInit => MasterInv
<1> SUFFICES ASSUME MasterInit PROVE MasterInv
  OBVIOUS
<1>1. MasterTypeOK
  BY InitType
<1>2. StandbyEmpty /\ WorkerIndexes /\ AppIndexes
  BY DEF MasterInit, EmptyMemory, StandbyEmpty, WorkerIndexes, AppIndexes
<1>3. PersistedMatchesRegistered
  BY DEF MasterInit, EmptyMemory, PersistedMatchesRegistered
<1>4. RecoveryCompletes /\ NoIdleWaiting
  BY DEF MasterInit, EmptyMemory, RecoveryCompletes, NoIdleWaiting
<1> QED
  BY <1>1, <1>2, <1>3, <1>4 DEF MasterInv

LEMMA InvStep ==
  ASSUME MasterInv, [MasterNext]_masterVars
  PROVE  MasterInv'
<1>0. MasterTypeOK'
  BY TypeStep DEF MasterInv
<1>1. CASE ElectedLeader
  BY <1>0, <1>1, ElectedFreshInv, beginRecoveryInv DEF ElectedLeader
<1>2. CASE CompleteRecovery
  BY <1>2, CompleteRecoveryInv
<1>3. CASE ProcessExit
  BY <1>0, <1>3, Forgotten DEF ProcessExit, persistedVars
<1>4. CASE SelfMessage
  <2>1. toSelf \in Seq(ToSelfMsg) /\ toSelf # <<>>
    BY <1>4 DEF SelfMessage, MasterInv, MasterTypeOK, ChannelTypeOK
  <2>2. Head(toSelf) \in ToSelfMsg /\ Tail(toSelf) \in Seq(ToSelfMsg)
    BY <2>1, HeadTailProperties
  <2>3. Head(toSelf).id \in DriverId /\ toSelf' \in Seq(ToSelfMsg) /\ "KILLED" \in DriverState
    BY <1>4, <2>2 DEF SelfMessage, ToSelfMsg, DriverState, FinishedState
  <2> QED
    BY <1>4, <2>3, RequestSubmitDriverInv, DriverStateChangedInv DEF SelfMessage
<1>5. CASE MessagesTaken
  BY <1>0, <1>5, FieldsUnchanged DEF MessagesTaken, memoryVars, workerVars, driverVars, appVars,
     persistedVars
<1>6. ASSUME NEW w \in WorkerId, WorkerMessage(w) \/ TimePasses(w) \/ CheckForWorkerTimeOut(w)
      PROVE  MasterInv'
  BY <1>6, WorkerMessageInv
<1>7. ASSUME NEW d \in DriverId, DriverMessage(d)
      PROVE  MasterInv'
  <2>1. toSelf \in Seq(ToSelfMsg)
    BY DEF MasterInv, MasterTypeOK, ChannelTypeOK
  <2>2. CASE RequestSubmitDriver(d) /\ UNCHANGED toSelf
    BY <2>1, <2>2, RequestSubmitDriverInv
  <2>3. CASE RequestKillDriver(d)
    BY <2>3, RequestKillDriverInv
  <2>4. ASSUME NEW st \in ReportedState, DriverStateChanged(d, st) /\ UNCHANGED toSelf
        PROVE  MasterInv'
    BY <2>1, <2>4, MasterAssumption, DriverStateChangedInv
  <2>5. CASE ApplicationStateResponse(d)
    BY <2>5, ApplicationStateResponseInv
  <2> QED
    BY <1>7, <2>2, <2>3, <2>4, <2>5 DEF DriverMessage
<1>8. ASSUME NEW p \in AppProc, RegisterApplication(p)
      PROVE  MasterInv'
  BY <1>8, RegisterApplicationInv
<1>9. ASSUME NEW a \in Addr, onDisconnected(a)
      PROVE  MasterInv'
  BY <1>9, onDisconnectedInv
<1>10. CASE UNCHANGED masterVars
  BY <1>0, <1>10, FieldsUnchanged DEF masterVars, memoryVars, workerVars, driverVars, appVars,
     persistedVars
<1> QED
  BY <1>1, <1>2, <1>3, <1>4, <1>5, <1>6, <1>7, <1>8, <1>9, <1>10 DEF MasterNext

\* The invariant holds in every state the master can reach.
THEOREM MasterInvariant == MasterSpec => []MasterInv
<1>1. MasterInit => MasterInv
  BY InitInv
<1>2. MasterInv /\ [MasterNext]_masterVars => MasterInv'
  BY InvStep
<1> QED
  BY <1>1, <1>2, PTL DEF MasterSpec

\* No driver waits while the active master has an alive worker, although schedule() is not
\* called by every handler that changes the workers or the waiting drivers.
THEOREM NeverIdle == MasterSpec => []NoIdleWaiting
<1>1. MasterInv => NoIdleWaiting
  BY DEF MasterInv
<1> QED
  BY <1>1, MasterInvariant, PTL

\* workers, idToWorker and addressToWorker never disagree: not through the reconnection of
\* a removed worker, the restart of a worker on its old address, or a failover.
THEOREM WorkersAgree == MasterSpec => []WorkerIndexes
<1>1. MasterInv => WorkerIndexes
  BY DEF MasterInv
<1> QED
  BY <1>1, MasterInvariant, PTL

\* apps, idToApp and addressToApp never disagree.
THEOREM AppsAgree == MasterSpec => []AppIndexes
<1>1. MasterInv => AppIndexes
  BY DEF MasterInv
<1> QED
  BY <1>1, MasterInvariant, PTL

\* A leader's registered workers and applications are those that the next leader will read.
THEOREM NodesAgree == MasterSpec => []PersistedMatchesRegistered
<1>1. MasterInv => PersistedMatchesRegistered
  BY DEF MasterInv
<1> QED
  BY <1>1, MasterInvariant, PTL

\* An active master waits for no recovered worker or application, whichever of the last
\* answer, the last disconnection and the timer ended the recovery.
THEOREM RecoveryIsComplete == MasterSpec => []RecoveryCompletes
<1>1. MasterInv => RecoveryCompletes
  BY DEF MasterInv
<1> QED
  BY <1>1, MasterInvariant, PTL
=============================================================================
