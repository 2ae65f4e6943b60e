---------------------------- MODULE Grid_proofs ----------------------------
(***************************************************************************)
(* The grid, for every set of workers, drivers, applications, clients and  *)
(* machines and every value of its bounds: its types, and that in it the   *)
(* master is the one of MoonboxMaster, so that what is proved of a master  *)
(* in an open environment holds of the master of the grid; and that the    *)
(* applications an active master lists are running.                        *)
(*                                                                         *)
(* The types are not inductive by themselves.  The attempts of a process   *)
(* stay below their bound because a process that has used them up has      *)
(* exited or tries no more, and the incarnations a DisassociatedEvent      *)
(* names exist because the master never outgrows MaxEpoch.                 *)
(***************************************************************************)
EXTENDS Grid, MasterDrivers_proofs

\* A process that still tries to register has attempts left.
WorkerInv ==
  /\ WorkerTypeOK
  /\ \A w \in WorkerId : process[w] # "exited" /\ scheduling[w] => attempts[w] <= MaxAttempts

AppInv ==
  /\ AppTypeOK
  /\ \A p \in AppProc :
       appProcess[p] # "exited" /\ appScheduling[p] => appAttempts[p] <= MaxAppAttempts

\* The inductive invariant.
GridInv ==
  /\ GridTypeOK
  /\ WorkerInv
  /\ AppInv
  /\ epoch \in 1..MaxEpoch

-----------------------------------------------------------------------------
(* Messages                                                                *)

\* The head of a channel is a message, the rest is a channel.
LEMMA Received ==
  ASSUME NEW S, NEW M, NEW net \in [S -> Seq(M)], NEW r \in S, net[r] # <<>>
  PROVE  /\ Head(net[r]) \in M
         /\ [net EXCEPT ![r] = Tail(@)] \in [S -> Seq(M)]
<1>1. Head(net[r]) \in M /\ Tail(net[r]) \in Seq(M)
  BY HeadTailProperties
<1> QED
  BY <1>1

LEMMA Emptied ==
  ASSUME NEW S, NEW M, NEW net \in [S -> Seq(M)], NEW r \in S
  PROVE  [net EXCEPT ![r] = <<>>] \in [S -> Seq(M)]
OBVIOUS

LEMMA FromWorkerFields ==
  ASSUME NEW m \in FromWorkerMsg
  PROVE  /\ m.type \in {"WorkerSchedulerStateResponse", "WorkerLatestState"} => m.ids \in SUBSET DriverId
         /\ m.type = "DriverStateChanged" =>
              m.id \in DriverId /\ m.state \in SparkState \cup {"ERROR"}
BY DEF FromWorkerMsg

LEMMA ToWorkerFields ==
  ASSUME NEW m \in ToWorkerMsg
  PROVE  /\ m.type \in {"RegisteredWorker", "MasterChanged"} => m.master \in Nat
         /\ m.type = "LaunchDriver" => m.driver \in DriverObj
         /\ m.type = "KillDriver" => m.id \in DriverId
BY DEF ToWorkerMsg

LEMMA ToAppFields ==
  ASSUME NEW m \in ToAppMsg
  PROVE  m.type \in {"RegisteredApplication", "MasterChanged"} => m.master \in Nat
BY DEF ToAppMsg

\* What a worker may send.
LEMMA FromWorkerTypes ==
  ASSUME NEW e \in Nat
  PROVE  /\ [type |-> "RegisterWorker"] \in FromWorkerMsg
         /\ [type |-> "Heartbeat", to |-> e] \in FromWorkerMsg
         /\ \A ids \in SUBSET DriverId :
              /\ [type |-> "WorkerSchedulerStateResponse", to |-> e, ids |-> ids] \in FromWorkerMsg
              /\ [type |-> "WorkerLatestState", to |-> e, ids |-> ids] \in FromWorkerMsg
         /\ \A d \in DriverId, st \in SparkState \cup {"ERROR"} :
              [type |-> "DriverStateChanged", to |-> e, id |-> d, state |-> st] \in FromWorkerMsg
BY DEF FromWorkerMsg

-----------------------------------------------------------------------------
(* Workers                                                                 *)

LEMMA registerWithMasterType ==
  ASSUME WorkerInv, NEW w \in WorkerId, registerWithMaster(w)
  PROVE  /\ registered' \in [WorkerId -> BOOLEAN]
         /\ scheduling' \in [WorkerId -> BOOLEAN]
         /\ attempts' \in [WorkerId -> 0..(MaxAttempts + 1)]
         /\ process[w] # "exited" => attempts'[w] <= MaxAttempts
         /\ \A v \in WorkerId \ {w} : scheduling'[v] = scheduling[v] /\ attempts'[v] = attempts[v]
<1>1. scheduling' \in [WorkerId -> BOOLEAN] /\ registered' \in [WorkerId -> BOOLEAN]
  BY DEF WorkerInv, WorkerTypeOK, registerWithMaster
<1>2. /\ attempts' \in [WorkerId -> 0..(MaxAttempts + 1)]
      /\ process[w] # "exited" => attempts'[w] <= MaxAttempts
  BY WorkerAssumption DEF WorkerInv, WorkerTypeOK, registerWithMaster
<1>3. \A v \in WorkerId \ {w} : scheduling'[v] = scheduling[v] /\ attempts'[v] = attempts[v]
  BY DEF WorkerInv, WorkerTypeOK, registerWithMaster
<1> QED
  BY <1>1, <1>2, <1>3

\* A step of a worker that changes neither its process nor its registration.
LEMMA WorkerKeepsTrying ==
  ASSUME WorkerInv, UNCHANGED <<process, scheduling, attempts>>, WorkerTypeOK'
  PROVE  WorkerInv'
BY DEF WorkerInv

\* ... and one that ends its process.
LEMMA WorkerEnds ==
  ASSUME WorkerInv, NEW w \in WorkerId,
         process' = [process EXCEPT ![w] = "exited"],
         \A v \in WorkerId \ {w} : scheduling'[v] = scheduling[v] /\ attempts'[v] = attempts[v],
         WorkerTypeOK'
  PROVE  WorkerInv'
BY DEF WorkerInv, WorkerTypeOK

LEMMA gracefullyShutdownType ==
  ASSUME WorkerTypeOK, NEW w \in WorkerId, gracefullyShutdown(w)
  PROVE  /\ process' \in [WorkerId -> {"new", "up", "exited"}]
         /\ toMaster' \in [WorkerId -> Seq(FromWorkerMsg)]
         /\ spark' = spark
<1>1. process' \in [WorkerId -> {"new", "up", "exited"}]
  BY DEF gracefullyShutdown, WorkerTypeOK
<1>2. toMaster' \in [WorkerId -> Seq(FromWorkerMsg)]
  BY Emptied DEF gracefullyShutdown, WorkerTypeOK
<1>3. spark' = spark
  BY DEF gracefullyShutdown, WorkerTypeOK, appMasterInWorker
<1> QED
  BY <1>1, <1>2, <1>3

LEMMA StartWorkerType ==
  ASSUME WorkerInv, NEW w \in WorkerId, StartWorker(w)
  PROVE  WorkerInv'
<1>1. /\ registerWithMaster(w) /\ process[w] = "new"
      /\ process' = [process EXCEPT ![w] = "up"]
      /\ UNCHANGED <<wmaster, connected, heartbeats, runners, spark, host, toMaster>>
  BY DEF StartWorker, runnerVars
<1>2. WorkerTypeOK'
  BY <1>1, registerWithMasterType DEF WorkerInv, WorkerTypeOK
<1>3. \A v \in WorkerId : process'[v] # "exited" /\ scheduling'[v] => attempts'[v] <= MaxAttempts
  BY <1>1, registerWithMasterType DEF WorkerInv, WorkerTypeOK
<1> QED
  BY <1>2, <1>3 DEF WorkerInv

LEMMA tryRegisterType ==
  ASSUME WorkerInv, NEW w \in WorkerId, tryRegisterAllMasters(w)
  PROVE  WorkerInv'
<1>1. /\ process[w] = "up" /\ scheduling[w]
      /\ attempts' = [attempts EXCEPT ![w] = @ + 1]
      /\ UNCHANGED <<wmaster, registered, connected, heartbeats>>
  BY DEF tryRegisterAllMasters
<1>2. attempts[w] \in Nat /\ attempts[w] <= MaxAttempts
  BY <1>1, WorkerAssumption DEF WorkerInv, WorkerTypeOK
<1>3. /\ attempts' \in [WorkerId -> 0..(MaxAttempts + 1)]
      /\ \A v \in WorkerId \ {w} : attempts'[v] = attempts[v]
      /\ attempts'[w] = attempts[w] + 1
  BY <1>1, <1>2, WorkerAssumption DEF WorkerInv, WorkerTypeOK
<1>4. CASE /\ scheduling' = [scheduling EXCEPT ![w] = FALSE]
           /\ UNCHANGED <<process, runnerVars, toMaster>>
  <2>1. WorkerTypeOK'
    BY <1>1, <1>3, <1>4 DEF WorkerInv, WorkerTypeOK, runnerVars
  <2>2. \A v \in WorkerId : process'[v] # "exited" /\ scheduling'[v] => attempts'[v] <= MaxAttempts
    BY <1>3, <1>4 DEF WorkerInv, WorkerTypeOK
  <2> QED
    BY <2>1, <2>2 DEF WorkerInv
<1>5. CASE /\ attempts[w] + 1 <= MaxAttempts
           /\ Send(w, [type |-> "RegisterWorker"])
           /\ UNCHANGED <<process, scheduling, runnerVars>>
  <2>1. toMaster' \in [WorkerId -> Seq(FromWorkerMsg)]
    BY <1>5, FromWorkerTypes, SendToType DEF WorkerInv, WorkerTypeOK, Send
  <2>2. WorkerTypeOK'
    BY <1>1, <1>3, <1>5, <2>1 DEF WorkerInv, WorkerTypeOK, runnerVars
  <2>3. \A v \in WorkerId : process'[v] # "exited" /\ scheduling'[v] => attempts'[v] <= MaxAttempts
    BY <1>3, <1>5 DEF WorkerInv, WorkerTypeOK
  <2> QED
    BY <2>2, <2>3 DEF WorkerInv
<1>6. CASE gracefullyShutdown(w) /\ UNCHANGED scheduling
  <2>1. WorkerTypeOK'
    BY <1>1, <1>3, <1>6, gracefullyShutdownType DEF WorkerInv, WorkerTypeOK, gracefullyShutdown
  <2> QED
    BY <1>3, <1>6, <2>1, WorkerEnds DEF gracefullyShutdown
<1> QED
  BY <1>4, <1>5, <1>6 DEF tryRegisterAllMasters

\* What the master says to a worker.
LEMMA FromMasterType ==
  ASSUME WorkerInv, NEW w \in WorkerId, process[w] = "up", NEW m \in ToWorkerMsg, FromMaster(w, m)
  PROVE  WorkerInv'
<1> USE DEF runnerVars, registrationVars
<1>0. DriverIds(w) \in SUBSET DriverId
  BY DEF DriverIds
<1>1. CASE m.type = "RegisteredWorker" /\ RegisteredWorker(w, m.master)
  <2> DEFINE e == m.master
             ids == DriverIds(w)
  <2>1. e \in Nat
    BY <1>1, ToWorkerFields
  <2>2. toMaster' = SendTo(toMaster, w, [type |-> "WorkerLatestState", to |-> e, ids |-> ids])
    BY <1>1 DEF RegisteredWorker, Send
  <2> HIDE DEF ids, e
  <2>3. toMaster' \in [WorkerId -> Seq(FromWorkerMsg)]
    BY <1>0, <2>1, <2>2, FromWorkerTypes, SendToType DEF WorkerInv, WorkerTypeOK, ids
  <2>4. /\ wmaster' \in [WorkerId -> Nat \cup {None}]
        /\ registered' \in [WorkerId -> BOOLEAN] /\ connected' \in [WorkerId -> BOOLEAN]
        /\ scheduling' \in [WorkerId -> BOOLEAN] /\ heartbeats' \in [WorkerId -> BOOLEAN]
        /\ UNCHANGED <<process, attempts, runners, spark, host>>
    BY <1>1, <2>1 DEF WorkerInv, WorkerTypeOK, RegisteredWorker, changeMaster, e
  <2>5. \A v \in WorkerId : scheduling'[v] => scheduling[v]
    BY <1>1 DEF WorkerInv, WorkerTypeOK, RegisteredWorker, changeMaster
  <2> QED
    BY <2>3, <2>4, <2>5 DEF WorkerInv, WorkerTypeOK
<1>2. CASE m.type = "RegisterWorkerFailed" /\ RegisterWorkerFailed(w)
  <2>1. CASE gracefullyShutdown(w)
    <3>1. WorkerTypeOK'
      BY <1>2, <2>1, gracefullyShutdownType
      DEF WorkerInv, WorkerTypeOK, gracefullyShutdown, RegisterWorkerFailed
    <3> QED
      BY <1>2, <2>1, <3>1, WorkerEnds DEF gracefullyShutdown, RegisterWorkerFailed
  <2>2. CASE UNCHANGED <<process, runnerVars, toMaster>>
    BY <1>2, <2>2 DEF WorkerInv, WorkerTypeOK, RegisterWorkerFailed
  <2> QED
    BY <1>2, <2>1, <2>2 DEF RegisterWorkerFailed
<1>3. CASE MasterInStandby(w)
  BY <1>3 DEF WorkerInv, WorkerTypeOK, MasterInStandby, workerActorVars
<1>4. CASE m.type = "MasterChanged" /\ MasterChanged(w, m.master)
  <2> DEFINE e == m.master
             ids == DriverIds(w)
  <2>1. e \in Nat
    BY <1>4, ToWorkerFields
  <2>2. toMaster' = SendTo(toMaster, w,
                           [type |-> "WorkerSchedulerStateResponse", to |-> e, ids |-> ids])
    BY <1>4 DEF MasterChanged, Send
  <2> HIDE DEF ids, e
  <2>3. toMaster' \in [WorkerId -> Seq(FromWorkerMsg)]
    BY <1>0, <2>1, <2>2, FromWorkerTypes, SendToType DEF WorkerInv, WorkerTypeOK, ids
  <2>4. /\ wmaster' \in [WorkerId -> Nat \cup {None}]
        /\ connected' \in [WorkerId -> BOOLEAN]
        /\ scheduling' \in [WorkerId -> BOOLEAN]
        /\ UNCHANGED <<process, registered, attempts, heartbeats, runners, spark, host>>
    BY <1>4, <2>1 DEF WorkerInv, WorkerTypeOK, MasterChanged, changeMaster, e
  <2>5. \A v \in WorkerId : scheduling'[v] => scheduling[v]
    BY <1>4 DEF WorkerInv, WorkerTypeOK, MasterChanged, changeMaster
  <2> QED
    BY <2>3, <2>4, <2>5 DEF WorkerInv, WorkerTypeOK
<1>5. CASE ReconnectWorker(w)
  <2>1. /\ registerWithMaster(w)
        /\ UNCHANGED <<process, wmaster, connected, heartbeats, runners, spark, host, toMaster>>
    BY <1>5 DEF ReconnectWorker
  <2> QED
    BY <2>1, registerWithMasterType DEF WorkerInv, WorkerTypeOK
<1>6. CASE m.type = "LaunchDriver" /\ LaunchDriver(w, m.driver)
  <2> DEFINE o == m.driver
  <2>1. o \in DriverObj /\ o.id \in DriverId
    BY <1>6, ToWorkerFields, ObjectTypes
  <2>2. /\ runners' = [runners EXCEPT ![w][o.id] = o]
        /\ spark' = [spark EXCEPT ![o] = "starting"]
        /\ host' = [host EXCEPT ![o] = w]
        /\ UNCHANGED <<process, registrationVars, heartbeats, toMaster>>
    BY <1>6 DEF LaunchDriver
  <2> HIDE DEF o
  <2> QED
    BY <2>1, <2>2 DEF WorkerInv, WorkerTypeOK
<1>7. CASE m.type = "KillDriver" /\ KillDriver(w, m.id)
  BY <1>7 DEF WorkerInv, WorkerTypeOK, KillDriver
<1> QED
  BY <1>1, <1>2, <1>3, <1>4, <1>5, <1>6, <1>7 DEF FromMaster

\* The report of a driver's state.
LEMMA handleDriverStateChangedType ==
  ASSUME WorkerInv, NEW w \in WorkerId, NEW d \in DriverId, NEW st \in SparkState \cup {"ERROR"},
         handleDriverStateChanged(w, d, st),
         spark' \in [DriverObj -> {"none", "starting", "running", "stopping", "failed", "ended", "reported"}]
  PROVE  WorkerInv'
<1>1. toMaster' \in [WorkerId -> Seq(FromWorkerMsg)]
  <2>1. CASE wmaster[w] = None
    BY <2>1 DEF WorkerInv, WorkerTypeOK, handleDriverStateChanged, sendToMaster
  <2>2. CASE wmaster[w] # None
    <3> DEFINE msg == [type |-> "DriverStateChanged", to |-> wmaster[w], id |-> d, state |-> st]
    <3>1. wmaster[w] \in Nat
      BY <2>2 DEF WorkerInv, WorkerTypeOK
    <3>2. msg \in FromWorkerMsg
      BY <3>1, FromWorkerTypes
    <3>3. toMaster' = SendTo(toMaster, w, msg)
      BY <2>2 DEF handleDriverStateChanged, sendToMaster
    <3> HIDE DEF msg
    <3> QED
      BY <3>2, <3>3, SendToType DEF WorkerInv, WorkerTypeOK
  <2> QED
    BY <2>1, <2>2
<1>2. runners' \in [WorkerId -> [DriverId -> DriverObj \cup {None}]]
  BY DEF WorkerInv, WorkerTypeOK, handleDriverStateChanged
<1>3. UNCHANGED <<process, wmaster, registered, connected, scheduling, attempts, heartbeats, host>>
  BY DEF handleDriverStateChanged, registrationVars
<1> QED
  BY <1>1, <1>2, <1>3 DEF WorkerInv, WorkerTypeOK

\* The other steps of workers and runners.
LEMMA WorkerStepType ==
  ASSUME WorkerInv,
         \/ \E w \in WorkerId : SendHeartbeat(w) \/ WorkerKilled(w) \/ masterDisconnected(w)
         \/ \E o \in DriverObj : RunnerStarts(o) \/ SparkEnds(o) \/ RunnerReports(o)
  PROVE  WorkerInv'
<1> USE DEF runnerVars, registrationVars
<1>1. ASSUME NEW w \in WorkerId, SendHeartbeat(w)
      PROVE  WorkerInv'
  <2>1. toMaster' \in [WorkerId -> Seq(FromWorkerMsg)]
    <3>1. CASE wmaster[w] = None
      BY <1>1, <3>1 DEF WorkerInv, WorkerTypeOK, SendHeartbeat, sendToMaster
    <3>2. CASE wmaster[w] # None
      <4>1. wmaster[w] \in Nat
        BY <3>2 DEF WorkerInv, WorkerTypeOK
      <4>2. [type |-> "Heartbeat", to |-> wmaster[w]] \in FromWorkerMsg
        BY <4>1, FromWorkerTypes
      <4> QED
        BY <1>1, <3>2, <4>2, SendToType DEF WorkerInv, WorkerTypeOK, SendHeartbeat, sendToMaster
    <3> QED
      BY <3>1, <3>2
  <2> QED
    BY <1>1, <2>1 DEF WorkerInv, WorkerTypeOK, SendHeartbeat
<1>2. ASSUME NEW w \in WorkerId, WorkerKilled(w)
      PROVE  WorkerInv'
  <2>1. WorkerTypeOK'
    BY <1>2, Emptied DEF WorkerInv, WorkerTypeOK, WorkerKilled
  <2> QED
    BY <1>2, <2>1, WorkerEnds DEF WorkerKilled
<1>3. ASSUME NEW w \in WorkerId, masterDisconnected(w)
      PROVE  WorkerInv'
  <2>1. /\ connected' = [connected EXCEPT ![w] = FALSE]
        /\ registerWithMaster(w)
        /\ UNCHANGED <<process, wmaster, heartbeats, runners, spark, host, toMaster>>
    BY <1>3 DEF masterDisconnected
  <2> QED
    BY <2>1, registerWithMasterType DEF WorkerInv, WorkerTypeOK
<1>4. ASSUME NEW o \in DriverObj, RunnerStarts(o) \/ SparkEnds(o)
      PROVE  WorkerInv'
  BY <1>4 DEF WorkerInv, WorkerTypeOK, RunnerStarts, SparkEnds
<1>5. ASSUME NEW o \in DriverObj, RunnerReports(o)
      PROVE  WorkerInv'
  <2>1. host[o] \in WorkerId /\ o.id \in DriverId
    BY <1>5, ObjectTypes DEF WorkerInv, WorkerTypeOK, RunnerReports
  <2>2. spark' \in [DriverObj -> {"none", "starting", "running", "stopping", "failed", "ended", "reported"}]
    BY <1>5 DEF WorkerInv, WorkerTypeOK, RunnerReports
  <2>3. PICK st \in SparkState \cup {"ERROR"} : handleDriverStateChanged(host[o], o.id, st)
    BY <1>5 DEF RunnerReports
  <2> QED
    BY <2>1, <2>2, <2>3, handleDriverStateChangedType
<1> QED
  BY <1>1, <1>2, <1>3, <1>4, <1>5

-----------------------------------------------------------------------------
(* Applications                                                            *)

LEMMA appRegisterWithMasterType ==
  ASSUME AppInv, NEW p \in AppProc, appRegisterWithMaster(p)
  PROVE  /\ appRegistered' \in [AppProc -> BOOLEAN]
         /\ appScheduling' \in [AppProc -> BOOLEAN]
         /\ appAttempts' \in [AppProc -> 0..(MaxAppAttempts + 1)]
         /\ appProcess[p] # "exited" => appAttempts'[p] <= MaxAppAttempts
         /\ \A q \in AppProc \ {p} : /\ appScheduling'[q] = appScheduling[q]
                                     /\ appAttempts'[q] = appAttempts[q]
<1>1. appScheduling' \in [AppProc -> BOOLEAN] /\ appRegistered' \in [AppProc -> BOOLEAN]
  BY DEF AppInv, AppTypeOK, appRegisterWithMaster
<1>2. /\ appAttempts' \in [AppProc -> 0..(MaxAppAttempts + 1)]
      /\ appProcess[p] # "exited" => appAttempts'[p] <= MaxAppAttempts
  BY InteractiveAssumption DEF AppInv, AppTypeOK, appRegisterWithMaster
<1>3. \A q \in AppProc \ {p} : /\ appScheduling'[q] = appScheduling[q]
                               /\ appAttempts'[q] = appAttempts[q]
  BY DEF AppInv, AppTypeOK, appRegisterWithMaster
<1> QED
  BY <1>1, <1>2, <1>3

\* The process of an application ends.
LEMMA appExitType ==
  ASSUME AppInv, NEW p \in AppProc, appExit(p),
         \A q \in AppProc \ {p} : appAttempts'[q] = appAttempts[q],
         appAttempts' \in [AppProc -> 0..(MaxAppAttempts + 1)],
         UNCHANGED <<amaster, appRegistered, appConnected, appScheduling>>
  PROVE  AppInv'
<1>1. /\ appProcess' = [appProcess EXCEPT ![p] = "exited"]
      /\ fromApp' \in [AppProc -> Seq(FromAppMsg)]
  BY Emptied DEF AppInv, AppTypeOK, appExit
<1> QED
  BY <1>1 DEF AppInv, AppTypeOK

LEMMA StartAppType ==
  ASSUME AppInv, NEW p \in AppProc, StartApp(p)
  PROVE  AppInv'
<1>1. /\ appRegisterWithMaster(p) /\ appProcess[p] = "new"
      /\ appProcess' = [appProcess EXCEPT ![p] = "up"]
      /\ UNCHANGED <<amaster, appConnected, fromApp>>
  BY DEF StartApp
<1>2. AppTypeOK'
  BY <1>1, appRegisterWithMasterType DEF AppInv, AppTypeOK
<1>3. \A q \in AppProc : appProcess'[q] # "exited" /\ appScheduling'[q] => appAttempts'[q] <= MaxAppAttempts
  BY <1>1, appRegisterWithMasterType DEF AppInv, AppTypeOK
<1> QED
  BY <1>2, <1>3 DEF AppInv

LEMMA appTryRegisterType ==
  ASSUME AppInv, NEW p \in AppProc, appTryRegister(p)
  PROVE  AppInv'
<1>1. /\ appProcess[p] = "up" /\ appScheduling[p]
      /\ appAttempts' = [appAttempts EXCEPT ![p] = @ + 1]
      /\ UNCHANGED <<amaster, appRegistered, appConnected>>
  BY DEF appTryRegister
<1>2. appAttempts[p] \in Nat /\ appAttempts[p] <= MaxAppAttempts
  BY <1>1, InteractiveAssumption DEF AppInv, AppTypeOK
<1>3. /\ appAttempts' \in [AppProc -> 0..(MaxAppAttempts + 1)]
      /\ \A q \in AppProc \ {p} : appAttempts'[q] = appAttempts[q]
      /\ appAttempts'[p] = appAttempts[p] + 1
  BY <1>1, <1>2, InteractiveAssumption DEF AppInv, AppTypeOK
<1>4. CASE /\ appScheduling' = [appScheduling EXCEPT ![p] = FALSE]
           /\ UNCHANGED <<appProcess, fromApp>>
  <2>1. AppTypeOK'
    BY <1>1, <1>3, <1>4 DEF AppInv, AppTypeOK
  <2>2. \A q \in AppProc : appProcess'[q] # "exited" /\ appScheduling'[q] => appAttempts'[q] <= MaxAppAttempts
    BY <1>3, <1>4 DEF AppInv, AppTypeOK
  <2> QED
    BY <2>1, <2>2 DEF AppInv
<1>5. CASE /\ appAttempts[p] + 1 <= MaxAppAttempts
           /\ fromApp' = SendTo(fromApp, p, [type |-> "RegisterApplication"])
           /\ UNCHANGED <<appProcess, appScheduling>>
  <2>1. fromApp' \in [AppProc -> Seq(FromAppMsg)]
    <3>1. [type |-> "RegisterApplication"] \in FromAppMsg
      BY DEF FromAppMsg
    <3> QED
      BY <1>5, <3>1, SendToType DEF AppInv, AppTypeOK
  <2>2. AppTypeOK'
    BY <1>1, <1>3, <1>5, <2>1 DEF AppInv, AppTypeOK
  <2>3. \A q \in AppProc : appProcess'[q] # "exited" /\ appScheduling'[q] => appAttempts'[q] <= MaxAppAttempts
    BY <1>3, <1>5 DEF AppInv, AppTypeOK
  <2> QED
    BY <2>2, <2>3 DEF AppInv
<1>6. CASE appExit(p) /\ UNCHANGED appScheduling
  BY <1>1, <1>3, <1>6, appExitType
<1> QED
  BY <1>4, <1>5, <1>6 DEF appTryRegister

\* What the master says to an application.
LEMMA AppFromMasterType ==
  ASSUME AppInv, NEW p \in AppProc, appProcess[p] = "up", NEW m \in ToAppMsg, AppFromMaster(p, m)
  PROVE  AppInv'
<1>1. CASE m.type = "RegisteredApplication" /\ RegisteredApplication(p, m.master)
  <2>1. m.master \in Nat
    BY <1>1, ToAppFields
  <2>2. /\ AppTypeOK'
        /\ UNCHANGED <<appProcess, appAttempts>>
        /\ \A q \in AppProc : appScheduling'[q] => appScheduling[q]
    BY <1>1, <2>1 DEF AppInv, AppTypeOK, RegisteredApplication, appChangeMaster
  <2> QED
    BY <2>2 DEF AppInv
<1>2. CASE RegisterApplicationFailed(p)
  BY <1>2, appExitType DEF AppInv, AppTypeOK, RegisterApplicationFailed, appRegistrationVars
<1>3. CASE UNCHANGED appActorVars
  BY <1>3 DEF AppInv, AppTypeOK, appActorVars, appRegistrationVars
<1>4. CASE m.type = "MasterChanged" /\ AppMasterChanged(p, m.master)
  <2>1. m.master \in Nat
    BY <1>4, ToAppFields
  <2>2. fromApp' \in [AppProc -> Seq(FromAppMsg)]
    <3>1. [type |-> "ApplicationStateResponse"] \in FromAppMsg
      BY DEF FromAppMsg
    <3> QED
      BY <1>4, <3>1, SendToType DEF AppInv, AppTypeOK, AppMasterChanged
  <2>3. /\ AppTypeOK'
        /\ UNCHANGED <<appProcess, appAttempts>>
        /\ \A q \in AppProc : appScheduling'[q] => appScheduling[q]
    BY <1>4, <2>1, <2>2 DEF AppInv, AppTypeOK, AppMasterChanged, appChangeMaster
  <2> QED
    BY <2>3 DEF AppInv
<1> QED
  BY <1>1, <1>2, <1>3, <1>4 DEF AppFromMaster

LEMMA AppStepType ==
  ASSUME AppInv, NEW p \in AppProc, AppKilled(p) \/ appMasterDisconnected(p)
  PROVE  AppInv'
<1>1. CASE AppKilled(p)
  BY <1>1, appExitType DEF AppInv, AppTypeOK, AppKilled, appRegistrationVars
<1>2. CASE appMasterDisconnected(p)
  <2>1. /\ appConnected' = [appConnected EXCEPT ![p] = FALSE]
        /\ appRegisterWithMaster(p)
        /\ UNCHANGED <<appProcess, amaster, fromApp>>
    BY <1>2 DEF appMasterDisconnected
  <2> QED
    BY <2>1, appRegisterWithMasterType DEF AppInv, AppTypeOK
<1> QED
  BY <1>1, <1>2

-----------------------------------------------------------------------------
(* The master of the grid is a master                                      *)

\* What leaves a channel of the master's, one message or all of them.
LEMMA TakenOne ==
  ASSUME NEW M, NEW s \in Seq(M), s # <<>>
  PROVE  \E i, j \in 0..Len(s) : Tail(s) = SubSeq(s, i + 1, j)
<1>1. Len(s) \in Nat
  BY LenProperties
<1>2. Tail(s) = SubSeq(s, 2, Len(s)) /\ Len(s) > 0
  BY <1>1, TailIsSubSeq, EmptySeq
<1>3. 1 \in 0..Len(s) /\ Len(s) \in 0..Len(s) /\ 1 + 1 = 2
  BY <1>1, <1>2
<1> QED
  BY <1>2, <1>3

LEMMA TakenAll ==
  ASSUME NEW M, NEW s \in Seq(M)
  PROVE  \E i, j \in 0..Len(s) : SubSeq(s, i + 1, j) = <<>>
<1>1. Len(s) \in Nat
  BY LenProperties
<1>2. SubSeq(s, 1, 0) = <<>>
  BY <1>1, SubSeqEmpty
<1>3. 0 \in 0..Len(s) /\ 0 + 1 = 1
  BY <1>1
<1> QED
  BY <1>2, <1>3

LEMMA TakenFromWorker ==
  ASSUME ChannelTypeOK, NEW w \in WorkerId, UNCHANGED <<memoryVars, toApp, toSelf>>,
         \/ toWorker[w] # <<>> /\ toWorker' = [toWorker EXCEPT ![w] = Tail(@)]
         \/ toWorker' = [toWorker EXCEPT ![w] = <<>>]
  PROVE  MasterNext
<1>0. toWorker[w] \in Seq(ToWorkerMsg)
  BY DEF ChannelTypeOK
<1>1. \E i, j \in 0..Len(toWorker[w]) : toWorker' = [toWorker EXCEPT ![w] = SubSeq(toWorker[w], i + 1, j)]
  <2>1. CASE toWorker[w] # <<>> /\ toWorker' = [toWorker EXCEPT ![w] = Tail(@)]
    <3>1. PICK i, j \in 0..Len(toWorker[w]) : Tail(toWorker[w]) = SubSeq(toWorker[w], i + 1, j)
      BY <1>0, <2>1, TakenOne
    <3> QED
      BY <2>1, <3>1
  <2>2. CASE toWorker' = [toWorker EXCEPT ![w] = <<>>]
    <3>1. PICK i, j \in 0..Len(toWorker[w]) : SubSeq(toWorker[w], i + 1, j) = <<>>
      BY <1>0, TakenAll, Zenon
    <3> QED
      BY <2>2, <3>1
  <2> QED
    BY <2>1, <2>2
<1>2. MessagesTaken
  BY <1>1 DEF MessagesTaken
<1> QED
  BY <1>2 DEF MasterNext

LEMMA TakenFromApp ==
  ASSUME ChannelTypeOK, NEW p \in AppProc, UNCHANGED <<memoryVars, toWorker, toSelf>>,
         \/ toApp[p] # <<>> /\ toApp' = [toApp EXCEPT ![p] = Tail(@)]
         \/ toApp' = [toApp EXCEPT ![p] = <<>>]
  PROVE  MasterNext
<1>0. toApp[p] \in Seq(ToAppMsg)
  BY DEF ChannelTypeOK
<1>1. \E i, j \in 0..Len(toApp[p]) : toApp' = [toApp EXCEPT ![p] = SubSeq(toApp[p], i + 1, j)]
  <2>1. CASE toApp[p] # <<>> /\ toApp' = [toApp EXCEPT ![p] = Tail(@)]
    <3>1. PICK i, j \in 0..Len(toApp[p]) : Tail(toApp[p]) = SubSeq(toApp[p], i + 1, j)
      BY <1>0, <2>1, TakenOne
    <3> QED
      BY <2>1, <3>1
  <2>2. CASE toApp' = [toApp EXCEPT ![p] = <<>>]
    <3>1. PICK i, j \in 0..Len(toApp[p]) : SubSeq(toApp[p], i + 1, j) = <<>>
      BY <1>0, TakenAll, Zenon
    <3> QED
      BY <2>2, <3>1
  <2> QED
    BY <2>1, <2>2
<1>2. MessagesTaken
  BY <1>1 DEF MessagesTaken
<1> QED
  BY <1>2 DEF MasterNext

\* Every step of the grid is one of the master, or leaves the master and its channels alone.
LEMMA GridMasterStep ==
  ASSUME GridInv, [GridNext]_vars
  PROVE  [MasterNext]_masterVars
<1>1. CASE UNCHANGED vars
  BY <1>1 DEF vars
<1>2. CASE MasterStep
  BY <1>2 DEF MasterStep, Elected, Recovered, ToItself, MasterFails, MasterLoses, MasterNext
<1>3. ASSUME NEW w \in WorkerId, WorkerStep(w)
      PROVE  [MasterNext]_masterVars
  <2>1. CASE Ageing(w) \/ TimeOut(w)
    BY <2>1 DEF Ageing, TimeOut, MasterNext
  <2>2. CASE DeliverFromWorker(w)
    <3> DEFINE m == Head(toMaster[w])
    <3>1. m \in FromWorkerMsg
      BY <2>2, Received DEF DeliverFromWorker, GridInv, GridTypeOK, WorkerTypeOK
    <3>2. FromWorker(w, m)
      BY <2>2 DEF DeliverFromWorker
    <3> HIDE DEF m
    <3>3. CASE RegisterWorker(w) \/ Heartbeat(w)
      BY <3>3 DEF WorkerMessage, MasterNext
    <3>4. CASE UNCHANGED masterVars
      BY <3>4
    <3>5. CASE /\ m.type = "WorkerSchedulerStateResponse"
               /\ WorkerSchedulerStateResponse(w, m.ids)
      BY <3>1, <3>5, FromWorkerFields DEF WorkerMessage, MasterNext
    <3>6. CASE m.type = "WorkerLatestState" /\ WorkerLatestState(w, m.ids)
      BY <3>1, <3>6, FromWorkerFields DEF WorkerMessage, MasterNext
    <3>7. CASE /\ m.type = "DriverStateChanged"
               /\ DriverStateChanged(m.id, m.state) /\ UNCHANGED toSelf
      <4>1. m.id \in DriverId /\ m.state \in ReportedState
        BY <3>1, <3>7, FromWorkerFields, GridAssumption
      <4> QED
        BY <3>7, <4>1 DEF DriverMessage, MasterNext
    <3> QED
      BY <3>2, <3>3, <3>4, <3>5, <3>6, <3>7 DEF FromWorker
  <2>3. CASE DeliverToWorker(w) \/ BreakWorker(w)
    BY <2>3, TakenFromWorker DEF DeliverToWorker, BreakWorker, GridInv, GridTypeOK, MasterTypeOK
  <2>4. CASE Starting(w) \/ Registering(w) \/ Beating(w) \/ KillWorker(w)
    BY <2>4 DEF Starting, Registering, Beating, KillWorker, WorkerAlone
  <2>5. CASE \E e \in 1..MaxEpoch : WorkerLoses(w, e)
    BY <2>5 DEF WorkerLoses
  <2> QED
    BY <1>3, <2>1, <2>2, <2>3, <2>4, <2>5 DEF WorkerStep
<1>4. ASSUME NEW o \in DriverObj, RunnerStep(o)
      PROVE  [MasterNext]_masterVars
  BY <1>4 DEF RunnerStep, RunnerStarting, SparkEnding, Reporting, WorkerAlone
<1>5. ASSUME NEW p \in AppProc, AppStep(p)
      PROVE  [MasterNext]_masterVars
  <2>1. CASE DeliverFromApp(p)
    <3>1. appDriver[p] \in DriverId
      BY ConstantsAssumption
    <3> QED
      BY <2>1, <3>1 DEF DeliverFromApp, FromApplication, DriverMessage, MasterNext
  <2>2. CASE DeliverToApp(p) \/ BreakApp(p)
    BY <2>2, TakenFromApp DEF DeliverToApp, BreakApp, GridInv, GridTypeOK, MasterTypeOK
  <2>3. CASE AppStarting(p) \/ AppRegistering(p) \/ KillApp(p)
    BY <2>3 DEF AppStarting, AppRegistering, KillApp
  <2>4. CASE \E e \in 1..MaxEpoch : AppLoses(p, e)
    BY <2>4 DEF AppLoses
  <2> QED
    BY <1>5, <2>1, <2>2, <2>3, <2>4 DEF AppStep
<1>6. CASE ClientStep
  <2>1. ASSUME NEW c \in Client, Submit(c)
        PROVE  [MasterNext]_masterVars
    <3>1. pending[c] \in DriverId
      BY <2>1 DEF Submit, GridInv, GridTypeOK
    <3> QED
      BY <2>1, <3>1 DEF Submit, DriverMessage, MasterNext
  <2>2. ASSUME NEW c \in Client, NEW d \in DriverId, AskStatus(c, d)
        PROVE  [MasterNext]_masterVars
    BY <2>2 DEF AskStatus
  <2>3. ASSUME NEW d \in DriverId, stopApplication(d)
        PROVE  [MasterNext]_masterVars
    BY <2>3 DEF stopApplication, DriverMessage, MasterNext
  <2> QED
    BY <1>6, <2>1, <2>2, <2>3 DEF ClientStep
<1> QED
  BY <1>1, <1>2, <1>3, <1>4, <1>5, <1>6 DEF GridNext

-----------------------------------------------------------------------------
(* The invariant                                                           *)

LEMMA WorkerUnchanged ==
  ASSUME WorkerInv, UNCHANGED workerActorVars
  PROVE  WorkerInv'
BY DEF WorkerInv, WorkerTypeOK, workerActorVars, registrationVars, runnerVars

\* A step that only takes messages of workers.
LEMMA WorkerHeard ==
  ASSUME WorkerInv, UNCHANGED <<process, registrationVars, heartbeats, runnerVars>>,
         toMaster' \in [WorkerId -> Seq(FromWorkerMsg)]
  PROVE  WorkerInv'
BY DEF WorkerInv, WorkerTypeOK, registrationVars, runnerVars

LEMMA WorkersInGrid ==
  ASSUME GridInv, [GridNext]_vars
  PROVE  WorkerInv'
<1>0. WorkerInv /\ toMaster \in [WorkerId -> Seq(FromWorkerMsg)] /\ toWorker \in [WorkerId -> Seq(ToWorkerMsg)]
  BY DEF GridInv, WorkerInv, WorkerTypeOK, GridTypeOK, MasterTypeOK, ChannelTypeOK
<1>1. CASE UNCHANGED vars
  BY <1>0, <1>1, WorkerUnchanged DEF vars
<1>2. CASE MasterStep
  <2>1. CASE MasterFails
    <3>1. toMaster' \in [WorkerId -> Seq(FromWorkerMsg)]
      BY <2>1 DEF MasterFails
    <3> QED
      BY <1>0, <2>1, <3>1, WorkerHeard DEF MasterFails
  <2>2. CASE Elected \/ Recovered \/ ToItself \/ \E a \in Addr : MasterLoses(a)
    BY <1>0, <2>2, WorkerUnchanged DEF Elected, Recovered, ToItself, MasterLoses, MasterAlone
  <2> QED
    BY <1>2, <2>1, <2>2 DEF MasterStep
<1>3. ASSUME NEW w \in WorkerId, WorkerStep(w)
      PROVE  WorkerInv'
  <2>1. CASE Ageing(w) \/ TimeOut(w)
    BY <1>0, <2>1, WorkerUnchanged DEF Ageing, TimeOut, MasterAlone
  <2>2. CASE DeliverFromWorker(w)
    <3>1. toMaster' \in [WorkerId -> Seq(FromWorkerMsg)]
      BY <1>0, <2>2, Received DEF DeliverFromWorker
    <3> QED
      BY <1>0, <2>2, <3>1, WorkerHeard DEF DeliverFromWorker
  <2>3. CASE DeliverToWorker(w)
    <3>1. Head(toWorker[w]) \in ToWorkerMsg
      BY <1>0, <2>3, Received DEF DeliverToWorker
    <3>2. CASE process[w] = "up" /\ FromMaster(w, Head(toWorker[w]))
      BY <1>0, <3>1, <3>2, FromMasterType
    <3>3. CASE UNCHANGED workerActorVars
      BY <1>0, <3>3, WorkerUnchanged
    <3> QED
      BY <2>3, <3>2, <3>3 DEF DeliverToWorker
  <2>4. CASE BreakWorker(w)
    <3>1. toMaster' \in [WorkerId -> Seq(FromWorkerMsg)]
      BY <1>0, <2>4, Emptied DEF BreakWorker
    <3> QED
      BY <1>0, <2>4, <3>1, WorkerHeard DEF BreakWorker
  <2>5. CASE Starting(w)
    BY <1>0, <2>5, StartWorkerType DEF Starting
  <2>6. CASE Registering(w)
    BY <1>0, <2>6, tryRegisterType DEF Registering
  <2>7. CASE Beating(w) \/ KillWorker(w)
    BY <1>0, <2>7, WorkerStepType DEF Beating, KillWorker
  <2>8. CASE \E e \in 1..MaxEpoch : WorkerLoses(w, e)
    BY <1>0, <2>8, WorkerStepType, WorkerUnchanged DEF WorkerLoses
  <2> QED
    BY <1>3, <2>1, <2>2, <2>3, <2>4, <2>5, <2>6, <2>7, <2>8 DEF WorkerStep
<1>4. ASSUME NEW o \in DriverObj, RunnerStep(o)
      PROVE  WorkerInv'
  BY <1>0, <1>4, WorkerStepType DEF RunnerStep, RunnerStarting, SparkEnding, Reporting
<1>5. ASSUME NEW p \in AppProc, AppStep(p)
      PROVE  WorkerInv'
  BY <1>0, <1>5, WorkerUnchanged DEF AppStep, DeliverFromApp, DeliverToApp, AppStarting,
     AppRegistering, BreakApp, KillApp, AppLoses, AppExitNoticed
<1>6. CASE ClientStep
  BY <1>0, <1>6, WorkerUnchanged DEF ClientStep, Submit, AskStatus, stopApplication
<1> QED
  BY <1>1, <1>2, <1>3, <1>4, <1>5, <1>6 DEF GridNext

LEMMA AppUnchanged ==
  ASSUME AppInv, UNCHANGED appActorVars
  PROVE  AppInv'
BY DEF AppInv, AppTypeOK, appActorVars, appRegistrationVars

LEMMA AppHeard ==
  ASSUME AppInv, UNCHANGED <<appProcess, appRegistrationVars>>,
         fromApp' \in [AppProc -> Seq(FromAppMsg)]
  PROVE  AppInv'
BY DEF AppInv, AppTypeOK, appRegistrationVars

LEMMA AppsInGrid ==
  ASSUME GridInv, [GridNext]_vars
  PROVE  AppInv'
<1>0. AppInv /\ fromApp \in [AppProc -> Seq(FromAppMsg)] /\ toApp \in [AppProc -> Seq(ToAppMsg)]
  BY DEF GridInv, AppInv, AppTypeOK, GridTypeOK, MasterTypeOK, ChannelTypeOK
<1>1. CASE UNCHANGED vars
  BY <1>0, <1>1, AppUnchanged DEF vars
<1>2. CASE MasterStep
  <2>1. CASE MasterFails
    <3>1. fromApp' \in [AppProc -> Seq(FromAppMsg)]
      BY <2>1 DEF MasterFails
    <3> QED
      BY <1>0, <2>1, <3>1, AppHeard DEF MasterFails
  <2>2. CASE Elected \/ Recovered \/ ToItself \/ \E a \in Addr : MasterLoses(a)
    BY <1>0, <2>2, AppUnchanged DEF Elected, Recovered, ToItself, MasterLoses, MasterAlone
  <2> QED
    BY <1>2, <2>1, <2>2 DEF MasterStep
<1>3. ASSUME NEW w \in WorkerId, WorkerStep(w)
      PROVE  AppInv'
  BY <1>0, <1>3, AppUnchanged DEF WorkerStep, Ageing, TimeOut, DeliverFromWorker, DeliverToWorker,
     Starting, Registering, Beating, BreakWorker, KillWorker, WorkerLoses, MasterAlone, WorkerAlone,
     ExitNoticed
<1>4. ASSUME NEW o \in DriverObj, RunnerStep(o)
      PROVE  AppInv'
  BY <1>0, <1>4, AppUnchanged DEF RunnerStep, RunnerStarting, SparkEnding, Reporting, WorkerAlone
<1>5. ASSUME NEW p \in AppProc, AppStep(p)
      PROVE  AppInv'
  <2>1. CASE DeliverFromApp(p)
    <3>1. fromApp' \in [AppProc -> Seq(FromAppMsg)]
      BY <1>0, <2>1, Received DEF DeliverFromApp
    <3> QED
      BY <1>0, <2>1, <3>1, AppHeard DEF DeliverFromApp
  <2>2. CASE DeliverToApp(p)
    <3>1. Head(toApp[p]) \in ToAppMsg
      BY <1>0, <2>2, Received DEF DeliverToApp
    <3>2. CASE appProcess[p] = "up" /\ AppFromMaster(p, Head(toApp[p]))
      BY <1>0, <3>1, <3>2, AppFromMasterType
    <3>3. CASE UNCHANGED appActorVars
      BY <1>0, <3>3, AppUnchanged
    <3> QED
      BY <2>2, <3>2, <3>3 DEF DeliverToApp
  <2>3. CASE BreakApp(p)
    <3>1. fromApp' \in [AppProc -> Seq(FromAppMsg)]
      BY <1>0, <2>3, Emptied DEF BreakApp
    <3> QED
      BY <1>0, <2>3, <3>1, AppHeard DEF BreakApp
  <2>4. CASE AppStarting(p)
    BY <1>0, <2>4, StartAppType DEF AppStarting
  <2>5. CASE AppRegistering(p)
    BY <1>0, <2>5, appTryRegisterType DEF AppRegistering
  <2>6. CASE KillApp(p) \/ \E e \in 1..MaxEpoch : AppLoses(p, e)
    BY <1>0, <2>6, AppStepType, AppUnchanged DEF KillApp, AppLoses
  <2> QED
    BY <1>5, <2>1, <2>2, <2>3, <2>4, <2>5, <2>6 DEF AppStep
<1>6. CASE ClientStep
  BY <1>0, <1>6, AppUnchanged DEF ClientStep, Submit, AskStatus, stopApplication
<1> QED
  BY <1>1, <1>2, <1>3, <1>4, <1>5, <1>6 DEF GridNext

\* A master process ends its epoch, and nothing else does.
LEMMA EpochStep ==
  ASSUME [MasterNext]_masterVars
  PROVE  epoch' = epoch \/ (epoch < MaxEpoch /\ epoch' = epoch + 1)
<1> USE DEF memoryVars
<1>0. ASSUME NEW gone, RemovalThrows(gone) PROVE epoch' = epoch
  BY <1>0 DEF RemovalThrows, RestartActor
<1>1. ASSUME NEW R, NEW A, NEW s, RemoveAll(R, A, s) PROVE epoch' = epoch
  BY <1>0, <1>1 DEF RemoveAll
<1>2. ASSUME NEW d, RequestSubmitDriver(d) PROVE epoch' = epoch
  BY <1>2 DEF RequestSubmitDriver
<1>3. ASSUME NEW d, NEW st, DriverStateChanged(d, st) PROVE epoch' = epoch
  BY <1>3 DEF DriverStateChanged, removeDriver, RestartActor
<1>4. CASE ElectedLeader \/ CompleteRecovery \/ SelfMessage \/ MessagesTaken
  BY <1>1, <1>2, <1>3, <1>4 DEF ElectedLeader, ElectedFresh, beginRecovery, CompleteRecovery,
     SelfMessage, MessagesTaken
<1>5. CASE ProcessExit
  BY <1>5 DEF ProcessExit
<1>6. ASSUME NEW w, WorkerMessage(w) PROVE epoch' = epoch
  <2>1. CASE RegisterWorkerAccepted(w)
    BY <1>0, <2>1 DEF RegisterWorkerAccepted
  <2>2. CASE RegisterWorkerInStandby(w) \/ RegisterWorkerDuplicate(w) \/ RegisterWorkerAddressInUse(w)
    BY <2>2 DEF RegisterWorkerInStandby, RegisterWorkerDuplicate, RegisterWorkerAddressInUse
  <2>3. CASE Heartbeat(w)
    BY <2>3 DEF Heartbeat, masterVars
  <2>4. CASE \E ids \in SUBSET DriverId : WorkerSchedulerStateResponse(w, ids) \/ WorkerLatestState(w, ids)
    BY <2>4 DEF WorkerSchedulerStateResponse, WorkerLatestState
  <2> QED
    BY <1>6, <2>1, <2>2, <2>3, <2>4 DEF WorkerMessage, RegisterWorker
<1>7. ASSUME NEW w, TimePasses(w) \/ CheckForWorkerTimeOut(w) PROVE epoch' = epoch
  BY <1>1, <1>7 DEF TimePasses, CheckForWorkerTimeOut
<1>8. ASSUME NEW d, DriverMessage(d) PROVE epoch' = epoch
  BY <1>2, <1>3, <1>8 DEF DriverMessage, RequestKillDriver, ApplicationStateResponse
<1>9. ASSUME NEW p, RegisterApplication(p) PROVE epoch' = epoch
  BY <1>9 DEF RegisterApplication, RegisterApplicationInStandby, RegisterApplicationRefused,
     RegisterApplicationAccepted
<1>10. ASSUME NEW a, onDisconnected(a) PROVE epoch' = epoch
  BY <1>1, <1>10 DEF onDisconnected
<1>11. CASE UNCHANGED masterVars
  BY <1>11 DEF masterVars
<1> QED
  BY <1>4, <1>5, <1>6, <1>7, <1>8, <1>9, <1>10, <1>11 DEF MasterNext

\* Only the end of its process takes the master to the next incarnation.
LEMMA EpochStays ==
  ASSUME \/ ElectedLeader \/ CompleteRecovery \/ SelfMessage
         \/ \E w : TimePasses(w) \/ CheckForWorkerTimeOut(w) \/ Heartbeat(w) \/ RegisterWorker(w)
         \/ \E w, ids : WorkerSchedulerStateResponse(w, ids) \/ WorkerLatestState(w, ids)
         \/ \E d : RequestSubmitDriver(d) \/ RequestKillDriver(d) \/ ApplicationStateResponse(d)
         \/ \E d, st : DriverStateChanged(d, st)
         \/ \E p : RegisterApplication(p)
         \/ \E a : onDisconnected(a)
         \/ UNCHANGED masterVars
  PROVE  epoch' = epoch
<1> USE DEF memoryVars
<1>0. ASSUME NEW gone, RemovalThrows(gone) PROVE epoch' = epoch
  BY <1>0 DEF RemovalThrows, RestartActor
<1>1. ASSUME NEW R, NEW A, NEW s, RemoveAll(R, A, s) PROVE epoch' = epoch
  BY <1>0, <1>1 DEF RemoveAll
<1>2. ASSUME NEW d, RequestSubmitDriver(d) PROVE epoch' = epoch
  BY <1>2 DEF RequestSubmitDriver
<1>3. ASSUME NEW d, NEW st, DriverStateChanged(d, st) PROVE epoch' = epoch
  BY <1>3 DEF DriverStateChanged, removeDriver, RestartActor
<1>4. CASE ElectedLeader \/ CompleteRecovery \/ SelfMessage \/ \E a : onDisconnected(a)
  BY <1>1, <1>2, <1>3, <1>4 DEF ElectedLeader, ElectedFresh, beginRecovery, CompleteRecovery,
     SelfMessage, onDisconnected
<1>5. ASSUME NEW w, RegisterWorker(w) PROVE epoch' = epoch
  <2>1. CASE RegisterWorkerAccepted(w)
    BY <1>0, <2>1 DEF RegisterWorkerAccepted
  <2>2. CASE RegisterWorkerInStandby(w) \/ RegisterWorkerDuplicate(w) \/ RegisterWorkerAddressInUse(w)
    BY <2>2 DEF RegisterWorkerInStandby, RegisterWorkerDuplicate, RegisterWorkerAddressInUse
  <2> QED
    BY <1>5, <2>1, <2>2 DEF RegisterWorker
<1>6. ASSUME NEW w, NEW ids, WorkerSchedulerStateResponse(w, ids) \/ WorkerLatestState(w, ids)
      PROVE  epoch' = epoch
  BY <1>6 DEF WorkerSchedulerStateResponse, WorkerLatestState
<1>7. ASSUME NEW w, TimePasses(w) \/ CheckForWorkerTimeOut(w) \/ Heartbeat(w) PROVE epoch' = epoch
  BY <1>1, <1>7 DEF TimePasses, CheckForWorkerTimeOut, Heartbeat, masterVars
<1>8. ASSUME NEW d, RequestKillDriver(d) \/ ApplicationStateResponse(d) PROVE epoch' = epoch
  BY <1>8 DEF RequestKillDriver, ApplicationStateResponse
<1>9. ASSUME NEW p, RegisterApplication(p) PROVE epoch' = epoch
  BY <1>9 DEF RegisterApplication, RegisterApplicationInStandby, RegisterApplicationRefused,
     RegisterApplicationAccepted
<1>10. CASE UNCHANGED masterVars
  BY <1>10 DEF masterVars
<1> QED
  BY <1>2, <1>3, <1>4, <1>5, <1>6, <1>7, <1>8, <1>9, <1>10

\* What is neither the master's nor a process's.
NetworkTypeOK ==
  /\ pending \in [Client -> DriverId \cup {None}]
  /\ lostAtMaster \subseteq Addr
  /\ lostAtWorker \in [WorkerId -> SUBSET (1..MaxEpoch)]
  /\ lostAtApp \in [AppProc -> SUBSET (1..MaxEpoch)]
  /\ breaks \in 0..MaxBreaks /\ kills \in 0..MaxKilled /\ stops \in 0..MaxStops

LEMMA NetworkInGrid ==
  ASSUME NetworkTypeOK, epoch \in 1..MaxEpoch, [GridNext]_vars
  PROVE  NetworkTypeOK'
<1> USE DEF clientVars, networkVars
<1>0. /\ \A w \in WorkerId : workerAddress[w] \in Addr
      /\ \A p \in AppProc : appAddress[p] \in Addr
      /\ {MaxBreaks, MaxKilled, MaxStops} \subseteq Nat
      /\ \A a \in Addr : LostAt(a) \subseteq Addr
  BY ConstantsAssumption, GridAssumption DEF LostAt, NetworkTypeOK
<1>1. CASE UNCHANGED vars
  BY <1>1 DEF vars, NetworkTypeOK
<1>2. CASE MasterStep
  <2>1. CASE MasterFails
    BY <2>1 DEF MasterFails, NetworkTypeOK
  <2>2. CASE Elected \/ Recovered \/ ToItself \/ \E a \in Addr : MasterLoses(a)
    BY <2>2 DEF Elected, Recovered, ToItself, MasterLoses, MasterAlone, NetworkTypeOK
  <2> QED
    BY <1>2, <2>1, <2>2 DEF MasterStep
<1>3. ASSUME NEW w \in WorkerId, WorkerStep(w)
      PROVE  NetworkTypeOK'
  <2>1. CASE Ageing(w) \/ TimeOut(w) \/ DeliverFromWorker(w) \/ Starting(w) \/ Beating(w)
    BY <2>1 DEF Ageing, TimeOut, DeliverFromWorker, Starting, Beating, MasterAlone, WorkerAlone,
       NetworkTypeOK
  <2>2. CASE DeliverToWorker(w) \/ Registering(w)
    BY <1>0, <2>2 DEF DeliverToWorker, Registering, ExitNoticed, NetworkTypeOK
  <2>3. CASE BreakWorker(w)
    BY <1>0, <2>3 DEF BreakWorker, NetworkTypeOK
  <2>4. CASE KillWorker(w)
    BY <1>0, <2>4 DEF KillWorker, NetworkTypeOK
  <2>5. CASE \E e \in 1..MaxEpoch : WorkerLoses(w, e)
    BY <2>5 DEF WorkerLoses, NetworkTypeOK
  <2> QED
    BY <1>3, <2>1, <2>2, <2>3, <2>4, <2>5 DEF WorkerStep
<1>4. ASSUME NEW o \in DriverObj, RunnerStep(o)
      PROVE  NetworkTypeOK'
  BY <1>4 DEF RunnerStep, RunnerStarting, SparkEnding, Reporting, WorkerAlone, NetworkTypeOK
<1>5. ASSUME NEW p \in AppProc, AppStep(p)
      PROVE  NetworkTypeOK'
  <2>1. CASE DeliverFromApp(p) \/ AppStarting(p)
    BY <2>1 DEF DeliverFromApp, AppStarting, NetworkTypeOK
  <2>2. CASE DeliverToApp(p) \/ AppRegistering(p)
    BY <1>0, <2>2 DEF DeliverToApp, AppRegistering, AppExitNoticed, NetworkTypeOK
  <2>3. CASE BreakApp(p)
    BY <1>0, <2>3 DEF BreakApp, NetworkTypeOK
  <2>4. CASE KillApp(p)
    BY <1>0, <2>4 DEF KillApp, NetworkTypeOK
  <2>5. CASE \E e \in 1..MaxEpoch : AppLoses(p, e)
    BY <2>5 DEF AppLoses, NetworkTypeOK
  <2> QED
    BY <1>5, <2>1, <2>2, <2>3, <2>4, <2>5 DEF AppStep
<1>6. CASE ClientStep
  <2>1. ASSUME NEW c \in Client, Submit(c) PROVE NetworkTypeOK'
    BY <2>1 DEF Submit, NetworkTypeOK
  <2>2. ASSUME NEW c \in Client, NEW d \in DriverId, AskStatus(c, d) PROVE NetworkTypeOK'
    BY <2>2 DEF AskStatus, NetworkTypeOK
  <2>3. ASSUME NEW d \in DriverId, stopApplication(d) PROVE NetworkTypeOK'
    BY <1>0, <2>3 DEF stopApplication, NetworkTypeOK
  <2> QED
    BY <1>6, <2>1, <2>2, <2>3 DEF ClientStep
<1> QED
  BY <1>1, <1>2, <1>3, <1>4, <1>5, <1>6 DEF GridNext

LEMMA GridInitInv == GridInit => GridInv
<1> SUFFICES ASSUME GridInit PROVE GridInv
  OBVIOUS
<1>1. MasterTypeOK /\ epoch \in 1..MaxEpoch
  BY InitType, MasterAssumption, GridAssumption DEF GridInit, MasterInit
<1>2. WorkerInv
  BY WorkerAssumption DEF GridInit, WorkerInit, WorkerInv, WorkerTypeOK
<1>3. AppInv
  BY InteractiveAssumption DEF GridInit, AppInit, AppInv, AppTypeOK
<1>4. NetworkTypeOK
  BY GridAssumption DEF GridInit, NetworkTypeOK
<1> QED
  BY <1>1, <1>2, <1>3, <1>4 DEF GridInv, GridTypeOK, WorkerInv, AppInv, NetworkTypeOK

LEMMA GridInvStep ==
  ASSUME GridInv, [GridNext]_vars
  PROVE  GridInv'
<1>1. [MasterNext]_masterVars
  BY GridMasterStep
<1>2. MasterTypeOK'
  BY <1>1, TypeStep DEF GridInv, GridTypeOK
<1>3. epoch' \in 1..MaxEpoch
  BY <1>1, EpochStep, MasterAssumption DEF GridInv
<1>4. WorkerInv' /\ AppInv'
  BY WorkersInGrid, AppsInGrid
<1>5. NetworkTypeOK'
  <2>1. NetworkTypeOK /\ epoch \in 1..MaxEpoch
    BY DEF GridInv, GridTypeOK, NetworkTypeOK
  <2> QED
    BY <2>1, NetworkInGrid
<1> QED
  BY <1>2, <1>3, <1>4, <1>5 DEF GridInv, GridTypeOK, WorkerInv, AppInv, NetworkTypeOK

\* The invariant holds in every state the grid can reach.
THEOREM GridInvariant == GridSpec => []GridInv
<1>1. GridInit => GridInv
  BY GridInitInv
<1>2. GridInv /\ [GridNext]_vars => GridInv'
  BY GridInvStep
<1> QED
  BY <1>1, <1>2, PTL DEF GridSpec

\* Every field of every process and every channel of the grid holds what it should: no
\* process makes more attempts than the code allows, and no event names a master that
\* has not existed.
THEOREM GridTypes == GridSpec => []GridTypeOK
<1>1. GridInv => GridTypeOK
  BY DEF GridInv
<1> QED
  BY <1>1, GridInvariant, PTL

\* The grid implements the open master: no message, order of messages, disconnection or
\* failure of the grid is one that MoonboxMaster does not allow for.
THEOREM GridMaster == GridSpec => MasterSpec
<1>1. GridInit => MasterInit
  BY DEF GridInit
<1>2. GridInv /\ [GridNext]_vars => [MasterNext]_masterVars
  BY GridMasterStep
<1> QED
  BY <1>1, <1>2, GridInvariant, PTL DEF GridSpec, MasterSpec

\* What is proved of the open master holds in the grid.
THEOREM GridMasterInvariant == GridSpec => []DriversInv
BY GridMaster, DriversInvariant, PTL

\* In the grid too, a driver that is done never comes back: whatever workers report twice,
\* late or to the wrong master, and whatever breaks or restarts.
THEOREM GridKeepsLedger == GridSpec => KeepsLedger
BY GridMaster, LedgerIsKept, PTL

-----------------------------------------------------------------------------
(* Applications that are believed to run                                   *)
(*                                                                         *)
(* A process whose end the master is not told of ended while nobody led.   *)
(* The next leader finds it stored, waits for its answer and, at last,     *)
(* removes it: it cannot be answered for, since an answer to MasterChanged *)
(* comes from a process the master had stored, and of two processes on one *)
(* address the second starts when the first has ended and is stored only   *)
(* when the first is not.                                                  *)

Carries(s, t) == \E i \in 1..Len(s) : s[i].type = t

Stored(p) == papps[appDriver[p]] = p

\* Only a running process has messages on their way, and no address has two of them.
AppsRun ==
  /\ \A q \in AppProc : fromApp[q] # <<>> => appProcess[q] = "up"
  /\ \A p, q \in AppProc :
       appProcess[p] = "up" /\ appProcess[q] = "up" /\ appAddress[p] = appAddress[q] => p = q

\* Nobody has heard of a process that has not started.
NewUnknown ==
  \A q \in AppProc : appProcess[q] = "new" => toApp[q] = <<>> /\ q \notin apps /\ ~ Stored(q)

\* Nobody answers for a process the master knows, or will read, but the process itself.
OwnAnswer ==
  \A p, q \in AppProc :
    /\ p # q /\ appDriver[p] = appDriver[q] /\ appAddress[p] = appAddress[q]
    /\ appProcess[q] = "up"
    /\ p \in apps \/ Stored(p)
    => ~ Carries(toApp[q], "MasterChanged") /\ ~ Carries(fromApp[q], "ApplicationStateResponse")

Believed(p) ==
  \/ appProcess[p] = "up"
  \/ StartedElsewhere(p)
  \/ appAddress[p] \in lostAtMaster
  \/ state = "RECOVERING" /\ astate[p] = "UNKNOWN"

\* The inductive invariant.
PhantomInv ==
  /\ AppsRun
  /\ NewUnknown
  /\ OwnAnswer
  /\ \A p \in apps : Believed(p)

\* A step of the master that registers no application: it may remove some of them, end the
\* recovery or forget everything, and says nothing to them.
AppsShrink ==
  /\ \A p \in apps' : p \in apps /\ astate'[p] = astate[p]
  /\ state' = state \/ state' = "ACTIVE" \/ apps' = {}
  /\ \A d \in DriverId : papps'[d] \in {papps[d], None}
  /\ toApp' = toApp

LEMMA CarriesTail ==
  ASSUME NEW M, NEW s \in Seq(M), s # <<>>, NEW t
  PROVE  /\ Head(s).type = t => Carries(s, t)
         /\ Carries(Tail(s), t) => Carries(s, t)
<1>1. Len(s) \in Nat /\ Len(s) >= 1 /\ Head(s) = s[1]
  BY EmptySeq, LenProperties
<1>2. Len(Tail(s)) = Len(s) - 1 /\ \A i \in 1..Len(Tail(s)) : Tail(s)[i] = s[i + 1]
  BY HeadTailProperties
<1>3. ASSUME NEW i \in 1..Len(Tail(s)), Tail(s)[i].type = t
      PROVE  Carries(s, t)
  <2>1. i + 1 \in 1..Len(s)
    BY <1>1, <1>2
  <2> QED
    BY <1>2, <1>3, <2>1 DEF Carries
<1>4. Head(s).type = t => Carries(s, t)
  <2>1. 1 \in 1..Len(s)
    BY <1>1
  <2> QED
    BY <1>1, <2>1 DEF Carries
<1> QED
  BY <1>3, <1>4 DEF Carries

LEMMA CarriesAppend ==
  ASSUME NEW M, NEW s \in Seq(M), NEW m \in M, NEW t, Carries(Append(s, m), t)
  PROVE  Carries(s, t) \/ m.type = t
<1>1. /\ Len(s) \in Nat /\ Len(Append(s, m)) = Len(s) + 1
      /\ \A i \in 1..Len(s) : Append(s, m)[i] = s[i]
      /\ Append(s, m)[Len(s) + 1] = m
  BY AppendProperties, LenProperties
<1>2. PICK i \in 1..Len(Append(s, m)) : Append(s, m)[i].type = t
  BY DEF Carries
<1>3. i \in 1..Len(s) \/ i = Len(s) + 1
  BY <1>1, <1>2
<1> QED
  BY <1>1, <1>2, <1>3 DEF Carries

LEMMA CarriesNothing ==
  ASSUME NEW t
  PROVE  ~ Carries(<<>>, t)
BY DEF Carries

-----------------------------------------------------------------------------
(* The master's steps                                                      *)

LEMMA UnchangedShrinks ==
  ASSUME PersistedTypeOK, UNCHANGED <<apps, astate, state, papps, toApp>>
  PROVE  AppsShrink
BY DEF AppsShrink, PersistedTypeOK

LEMMA RestartShrinks ==
  ASSUME PersistedTypeOK, NEW pd, RestartActor(pd)
  PROVE  AppsShrink
BY DEF AppsShrink, PersistedTypeOK, RestartActor, ForgetMemory

LEMMA RemoveAllShrinks ==
  ASSUME PersistedTypeOK, NEW R, NEW A, NEW s, RemoveAll(R, A, s), s = state \/ s = "ACTIVE"
  PROVE  AppsShrink /\ (apps' = apps \ A \/ apps' = {})
<1>1. PICK gone \in Found(UNION {wdrivers[w] : w \in R}) :
        IF NoNode(gone)
        THEN RemovalThrows(gone)
        ELSE state' = s /\ RemoveApplications(A) /\ UNCHANGED toApp
  BY DEF RemoveAll
<1>2. CASE NoNode(gone)
  <2>1. PICK pd : RestartActor(pd)
    BY <1>1, <1>2 DEF RemovalThrows
  <2>2. apps' = {}
    BY <2>1 DEF RestartActor, ForgetMemory
  <2> QED
    BY <2>1, <2>2, RestartShrinks
<1>3. CASE ~ NoNode(gone)
  <2>1. /\ state' = s /\ apps' = apps \ A /\ UNCHANGED <<astate, toApp>>
        /\ papps' = [d \in DriverId |-> IF \E p \in A : appDriver[p] = d THEN None ELSE papps[d]]
    BY <1>1, <1>3 DEF RemoveApplications
  <2> QED
    BY <2>1 DEF AppsShrink
<1> QED
  BY <1>2, <1>3

LEMMA DriverStateChangedShrinks ==
  ASSUME PersistedTypeOK, NEW d, NEW st, DriverStateChanged(d, st)
  PROVE  AppsShrink
<1> USE DEF memoryVars, appVars, persistedVars
<1>1. CASE removeDriver(d, st)
  <2>1. CASE \E pd : RestartActor(pd)
    BY <2>1, RestartShrinks
  <2>2. CASE UNCHANGED <<apps, astate, state, papps, toApp>>
    BY <2>2, UnchangedShrinks
  <2> QED
    BY <1>1, <2>1, <2>2 DEF removeDriver
<1>2. CASE UNCHANGED <<apps, astate, state, papps, toApp>>
  BY <1>2, UnchangedShrinks
<1> QED
  BY <1>1, <1>2 DEF DriverStateChanged

LEMMA RequestShrinks ==
  ASSUME PersistedTypeOK, NEW d, RequestSubmitDriver(d) \/ RequestKillDriver(d)
  PROVE  AppsShrink
<1>1. UNCHANGED <<apps, astate, state, papps, toApp>>
  BY DEF RequestSubmitDriver, RequestKillDriver, memoryVars, appVars, persistedVars
<1> QED
  BY <1>1, UnchangedShrinks

LEMMA WorkerMessageShrinks ==
  ASSUME PersistedTypeOK, NEW w, WorkerMessage(w) \/ TimePasses(w) \/ CheckForWorkerTimeOut(w)
  PROVE  AppsShrink
<1> USE DEF memoryVars, appVars, persistedVars
<1>1. CASE RegisterWorkerAccepted(w)
  <2>1. CASE \E pd : RestartActor(pd)
    BY <2>1, RestartShrinks
  <2>2. CASE UNCHANGED <<apps, astate, state, papps, toApp>>
    BY <2>2, UnchangedShrinks
  <2> QED
    BY <1>1, <2>1, <2>2 DEF RegisterWorkerAccepted, RemovalThrows
<1>2. CASE RegisterWorkerInStandby(w) \/ RegisterWorkerDuplicate(w) \/ RegisterWorkerAddressInUse(w)
  <2>1. UNCHANGED <<apps, astate, state, papps, toApp>>
    BY <1>2 DEF RegisterWorkerInStandby, RegisterWorkerDuplicate, RegisterWorkerAddressInUse
  <2> QED
    BY <2>1, UnchangedShrinks
<1>3. CASE Heartbeat(w) \/ TimePasses(w)
  <2>1. UNCHANGED <<apps, astate, state, papps, toApp>>
    BY <1>3 DEF Heartbeat, TimePasses, masterVars, channelVars
  <2> QED
    BY <2>1, UnchangedShrinks
<1>4. CASE \E ids \in SUBSET DriverId : WorkerSchedulerStateResponse(w, ids)
  <2>1. UNCHANGED <<apps, astate, papps, toApp>> /\ (state' = state \/ state' = "ACTIVE")
    BY <1>4 DEF WorkerSchedulerStateResponse
  <2> QED
    BY <2>1 DEF AppsShrink
<1>5. CASE \E ids \in SUBSET DriverId : WorkerLatestState(w, ids)
  <2>1. UNCHANGED <<apps, astate, state, papps, toApp>>
    BY <1>5 DEF WorkerLatestState
  <2> QED
    BY <2>1, UnchangedShrinks
<1>6. CASE CheckForWorkerTimeOut(w)
  <2>1. CASE RemoveAll({w}, {}, state)
    BY <2>1, RemoveAllShrinks
  <2>2. CASE UNCHANGED <<apps, astate, state, papps, toApp>>
    BY <2>2, UnchangedShrinks
  <2> QED
    BY <1>6, <2>1, <2>2 DEF CheckForWorkerTimeOut, channelVars
<1> QED
  BY <1>1, <1>2, <1>3, <1>4, <1>5, <1>6 DEF WorkerMessage, RegisterWorker

LEMMA SelfMessageShrinks ==
  ASSUME PersistedTypeOK, SelfMessage
  PROVE  AppsShrink
BY RequestShrinks, DriverStateChangedShrinks DEF SelfMessage

-----------------------------------------------------------------------------
(* What keeps the invariant                                                *)

\* What applications and the network do in a step that starts no application: a process may
\* end; the channels to applications lose messages, or get others than MasterChanged; and
\* who answers MasterChanged has received it.
SomeEnd ==
  \A q \in AppProc :
    appProcess'[q] = appProcess[q] \/ (appProcess[q] = "up" /\ appProcess'[q] = "exited")

ToldOther ==
  \A q \in AppProc :
    /\ appProcess[q] = "new" => toApp'[q] = <<>>
    /\ Carries(toApp'[q], "MasterChanged") => Carries(toApp[q], "MasterChanged")

SayOwn ==
  \A q \in AppProc :
    /\ fromApp'[q] # <<>> => appProcess'[q] = "up"
    /\ Carries(fromApp'[q], "ApplicationStateResponse") =>
         Carries(fromApp[q], "ApplicationStateResponse") \/ Carries(toApp[q], "MasterChanged")

AppsTalk == SomeEnd /\ ToldOther /\ SayOwn

\* The master gets to know running processes only.
KnownRun ==
  \A p \in AppProc : p \in apps' \/ Stored(p)' => p \in apps \/ Stored(p) \/ appProcess[p] = "up"

LEMMA ShrinkKnown ==
  ASSUME AppsShrink
  PROVE  KnownRun
<1> SUFFICES ASSUME NEW p \in AppProc, p \in apps' \/ Stored(p)'
             PROVE  p \in apps \/ Stored(p)
  BY DEF KnownRun
<1>1. appDriver[p] \in DriverId /\ p # None
  BY ConstantsAssumption, NoneAssumption
<1> QED
  BY <1>1 DEF AppsShrink, Stored

\* The parts of the invariant that do not ask whom the master believes to run.
LEMMA TalkKeeps ==
  ASSUME PhantomInv, AppsTalk, KnownRun
  PROVE  AppsRun' /\ NewUnknown' /\ OwnAnswer'
<1>1. \A q \in AppProc : /\ appProcess'[q] = "up" => appProcess[q] = "up"
                         /\ appProcess'[q] = "new" => appProcess[q] = "new"
  BY DEF AppsTalk, SomeEnd, ToldOther, SayOwn
<1>2. AppsRun'
  <2>1. \A q \in AppProc : fromApp'[q] # <<>> => appProcess'[q] = "up"
    BY DEF AppsTalk, SomeEnd, ToldOther, SayOwn
  <2>2. \A p, q \in AppProc :
          appProcess'[p] = "up" /\ appProcess'[q] = "up" /\ appAddress[p] = appAddress[q] => p = q
    BY <1>1 DEF PhantomInv, AppsRun
  <2> QED
    BY <2>1, <2>2 DEF AppsRun
<1>3. NewUnknown'
  <2> SUFFICES ASSUME NEW q \in AppProc, appProcess'[q] = "new"
               PROVE  toApp'[q] = <<>> /\ q \notin apps' /\ ~ Stored(q)'
    BY DEF NewUnknown
  <2>1. appProcess[q] = "new"
    BY <1>1
  <2>2. q \notin apps /\ ~ Stored(q)
    BY <2>1 DEF PhantomInv, NewUnknown
  <2>3. q \notin apps' /\ ~ Stored(q)'
    BY <2>1, <2>2 DEF KnownRun
  <2> QED
    BY <2>1, <2>3 DEF AppsTalk, SomeEnd, ToldOther, SayOwn
<1>4. OwnAnswer'
  <2> SUFFICES ASSUME NEW p \in AppProc, NEW q \in AppProc, p # q,
                      appDriver[p] = appDriver[q], appAddress[p] = appAddress[q],
                      appProcess'[q] = "up", p \in apps' \/ Stored(p)'
               PROVE  /\ ~ Carries(toApp'[q], "MasterChanged")
                      /\ ~ Carries(fromApp'[q], "ApplicationStateResponse")
    BY DEF OwnAnswer
  <2>1. appProcess[q] = "up"
    BY <1>1
  <2>2. appProcess[p] # "up"
    BY <2>1 DEF PhantomInv, AppsRun
  <2>3. p \in apps \/ Stored(p)
    BY <2>2 DEF KnownRun
  <2>4. ~ Carries(toApp[q], "MasterChanged") /\ ~ Carries(fromApp[q], "ApplicationStateResponse")
    BY <2>1, <2>3 DEF PhantomInv, OwnAnswer
  <2> QED
    BY <2>4 DEF AppsTalk, SomeEnd, ToldOther, SayOwn
<1> QED
  BY <1>2, <1>3, <1>4

\* A process started elsewhere stays one.
LEMMA ElsewhereStays ==
  ASSUME AppsTalk, NEW p \in AppProc, StartedElsewhere(p)
  PROVE  StartedElsewhere(p)'
<1>1. PICK q \in AppProc : /\ appDriver[q] = appDriver[p] /\ appAddress[q] # appAddress[p]
                           /\ appProcess[q] # "new"
  BY DEF StartedElsewhere
<1>2. appProcess'[q] # "new"
  BY <1>1 DEF AppsTalk, SomeEnd, ToldOther, SayOwn
<1> QED
  BY <1>1, <1>2 DEF StartedElsewhere

\* What the master believes of p stays true if the end of p is noticed, as long as p is not
\* taken to have answered.
LEMMA BelievedStays ==
  ASSUME AppsTalk, NEW p \in AppProc, Believed(p),
         appAddress[p] \in lostAtMaster \/ (appProcess[p] = "up" /\ appProcess'[p] # "up")
           => appAddress[p] \in lostAtMaster',
         state = "RECOVERING" /\ astate[p] = "UNKNOWN" => Believed(p)'
  PROVE  Believed(p)'
<1>1. CASE appProcess[p] = "up"
  BY <1>1 DEF Believed
<1>2. CASE StartedElsewhere(p)
  BY <1>2, ElsewhereStays DEF Believed
<1>3. CASE appAddress[p] \in lostAtMaster
  BY <1>3 DEF Believed
<1> QED
  BY <1>1, <1>2, <1>3 DEF Believed

\* A step of the master that only removes applications, while what has ended is noticed.
LEMMA ShrinkKeeps ==
  ASSUME PhantomInv, AppsTypeOK, AppsTalk, KnownRun, RecoveryCompletes',
         \A p \in apps' : p \in apps /\ astate'[p] = astate[p],
         state' = state \/ state' = "ACTIVE" \/ apps' = {},
         \A p \in apps' :
           appAddress[p] \in lostAtMaster \/ (appProcess[p] = "up" /\ appProcess'[p] # "up")
           => appAddress[p] \in lostAtMaster'
  PROVE  PhantomInv'
<1>1. ASSUME NEW p \in apps' PROVE Believed(p)'
  <2>1. p \in apps /\ p \in AppProc /\ astate'[p] = astate[p] /\ Believed(p)
    BY <1>1 DEF AppsTypeOK, PhantomInv
  <2>2. ASSUME state = "RECOVERING", astate[p] = "UNKNOWN" PROVE Believed(p)'
    <3>1. state' # "ACTIVE"
      BY <1>1, <2>1, <2>2 DEF RecoveryCompletes
    <3>2. state' = state
      BY <1>1, <3>1
    <3> QED
      BY <2>1, <2>2, <3>2 DEF Believed
  <2> QED
    BY <1>1, <2>1, <2>2, BelievedStays
<1>2. AppsRun' /\ NewUnknown' /\ OwnAnswer'
  BY TalkKeeps
<1> QED
  BY <1>1, <1>2 DEF PhantomInv

\* Nothing is said by or to the applications.
LEMMA SilentTalk ==
  ASSUME PhantomInv, UNCHANGED <<appProcess, fromApp, toApp>>
  PROVE  AppsTalk
BY DEF AppsTalk, SomeEnd, ToldOther, SayOwn, PhantomInv, AppsRun, NewUnknown

\* ... in a step of the master, a worker or a client.
LEMMA SilentKeeps ==
  ASSUME PhantomInv, AppsTypeOK, RecoveryCompletes', AppsShrink, UNCHANGED <<appProcess, fromApp>>,
         \A p \in apps' : appAddress[p] \in lostAtMaster => appAddress[p] \in lostAtMaster'
  PROVE  PhantomInv'
<1>1. AppsTalk
  BY SilentTalk DEF AppsShrink
<1>2. KnownRun
  BY ShrinkKnown
<1> QED
  BY <1>1, <1>2, ShrinkKeeps DEF AppsShrink

-----------------------------------------------------------------------------
(* Channels of applications                                                *)

\* What the steps of an application need of the other invariants.
PhantomFacts ==
  /\ AppsTypeOK /\ PersistedTypeOK
  /\ toApp \in [AppProc -> Seq(ToAppMsg)]
  /\ fromApp \in [AppProc -> Seq(FromAppMsg)]
  /\ toMaster \in [WorkerId -> Seq(FromWorkerMsg)]
  /\ appProcess \in [AppProc -> {"new", "up", "exited"}]
  /\ epoch \in Nat
  /\ StandbyEmpty /\ AppIndexes /\ PersistedMatchesRegistered

LEMMA ToldTail ==
  ASSUME PhantomInv, PhantomFacts, NEW p \in AppProc, toApp[p] # <<>>,
         toApp' = [toApp EXCEPT ![p] = Tail(@)]
  PROVE  ToldOther
<1> SUFFICES ASSUME NEW q \in AppProc
             PROVE  /\ appProcess[q] = "new" => toApp'[q] = <<>>
                    /\ Carries(toApp'[q], "MasterChanged") => Carries(toApp[q], "MasterChanged")
  BY DEF ToldOther
<1>1. appProcess[q] = "new" => toApp[q] = <<>>
  BY DEF PhantomInv, NewUnknown
<1>2. CASE q = p
  <2>1. toApp'[q] = Tail(toApp[q]) /\ toApp[q] \in Seq(ToAppMsg)
    BY <1>2 DEF PhantomFacts
  <2>2. Carries(Tail(toApp[q]), "MasterChanged") => Carries(toApp[q], "MasterChanged")
    BY <1>2, <2>1, CarriesTail
  <2> QED
    BY <1>1, <1>2, <2>1, <2>2
<1>3. CASE q # p
  BY <1>1, <1>3 DEF PhantomFacts
<1> QED
  BY <1>2, <1>3

LEMMA ToldEmptied ==
  ASSUME PhantomInv, PhantomFacts, NEW p \in AppProc, toApp' = [toApp EXCEPT ![p] = <<>>]
  PROVE  ToldOther
BY CarriesNothing DEF ToldOther, PhantomInv, NewUnknown, PhantomFacts

LEMMA ToldAnswer ==
  ASSUME PhantomInv, PhantomFacts, NEW p \in AppProc, appProcess[p] = "up",
         NEW m \in ToAppMsg, m.type # "MasterChanged", toApp' = SendTo(toApp, p, m)
  PROVE  ToldOther
<1> SUFFICES ASSUME NEW q \in AppProc
             PROVE  /\ appProcess[q] = "new" => toApp'[q] = <<>>
                    /\ Carries(toApp'[q], "MasterChanged") => Carries(toApp[q], "MasterChanged")
  BY DEF ToldOther
<1>1. appProcess[q] = "new" => toApp[q] = <<>>
  BY DEF PhantomInv, NewUnknown
<1>2. CASE q = p
  <2>1. toApp'[q] = Append(toApp[q], m) /\ toApp[q] \in Seq(ToAppMsg)
    BY <1>2 DEF PhantomFacts, SendTo
  <2>2. Carries(Append(toApp[q], m), "MasterChanged") => Carries(toApp[q], "MasterChanged")
    BY <2>1, CarriesAppend
  <2> QED
    BY <1>2, <2>1, <2>2
<1>3. CASE q # p
  BY <1>1, <1>3 DEF PhantomFacts, SendTo
<1> QED
  BY <1>2, <1>3

LEMMA ToldNothing ==
  ASSUME PhantomInv, UNCHANGED toApp
  PROVE  ToldOther
BY DEF ToldOther, PhantomInv, NewUnknown

\* No process ends.
LEMMA AllStay ==
  ASSUME UNCHANGED appProcess
  PROVE  SomeEnd
BY DEF SomeEnd

LEMMA SaidNothing ==
  ASSUME PhantomInv, UNCHANGED <<appProcess, fromApp>>
  PROVE  SayOwn
BY DEF SayOwn, PhantomInv, AppsRun

LEMMA SaidTail ==
  ASSUME PhantomInv, PhantomFacts, NEW p \in AppProc, fromApp[p] # <<>>, UNCHANGED appProcess,
         fromApp' = [fromApp EXCEPT ![p] = Tail(@)]
  PROVE  SayOwn
<1> SUFFICES ASSUME NEW q \in AppProc
             PROVE  /\ fromApp'[q] # <<>> => appProcess[q] = "up"
                    /\ Carries(fromApp'[q], "ApplicationStateResponse")
                         => Carries(fromApp[q], "ApplicationStateResponse")
  BY DEF SayOwn
<1>1. fromApp[q] # <<>> => appProcess[q] = "up"
  BY DEF PhantomInv, AppsRun
<1>2. CASE q = p
  <2>1. fromApp'[q] = Tail(fromApp[q]) /\ fromApp[q] \in Seq(FromAppMsg)
    BY <1>2 DEF PhantomFacts
  <2>2. Carries(Tail(fromApp[q]), "ApplicationStateResponse")
          => Carries(fromApp[q], "ApplicationStateResponse")
    BY <1>2, <2>1, CarriesTail
  <2> QED
    BY <1>1, <1>2, <2>1, <2>2
<1>3. CASE q # p
  BY <1>1, <1>3 DEF PhantomFacts
<1> QED
  BY <1>2, <1>3

\* A running process says something; only one that has got MasterChanged answers it.
LEMMA SaidMore ==
  ASSUME PhantomInv, PhantomFacts, NEW p \in AppProc, appProcess[p] = "up", UNCHANGED appProcess,
         NEW m \in FromAppMsg, fromApp' = SendTo(fromApp, p, m),
         m.type = "ApplicationStateResponse" => Carries(toApp[p], "MasterChanged")
  PROVE  SayOwn
<1> SUFFICES ASSUME NEW q \in AppProc
             PROVE  /\ fromApp'[q] # <<>> => appProcess[q] = "up"
                    /\ Carries(fromApp'[q], "ApplicationStateResponse") =>
                         \/ Carries(fromApp[q], "ApplicationStateResponse")
                         \/ Carries(toApp[q], "MasterChanged")
  BY DEF SayOwn
<1>1. fromApp[q] # <<>> => appProcess[q] = "up"
  BY DEF PhantomInv, AppsRun
<1>2. CASE q = p
  <2>1. fromApp'[q] = Append(fromApp[q], m) /\ fromApp[q] \in Seq(FromAppMsg)
    BY <1>2 DEF PhantomFacts, SendTo
  <2>2. Carries(Append(fromApp[q], m), "ApplicationStateResponse") =>
          Carries(fromApp[q], "ApplicationStateResponse") \/ m.type = "ApplicationStateResponse"
    BY <2>1, CarriesAppend
  <2> QED
    BY <1>2, <2>1, <2>2
<1>3. CASE q # p
  BY <1>1, <1>3 DEF PhantomFacts, SendTo
<1> QED
  BY <1>2, <1>3

\* A process ends.
LEMMA SaidLast ==
  ASSUME PhantomInv, PhantomFacts, NEW p \in AppProc, appProcess[p] = "up", appExit(p)
  PROVE  SomeEnd /\ SayOwn
<1>1. SomeEnd
  BY DEF SomeEnd, appExit, PhantomFacts
<1>2. SayOwn
  <2> SUFFICES ASSUME NEW q \in AppProc
               PROVE  /\ fromApp'[q] # <<>> => appProcess'[q] = "up"
                      /\ Carries(fromApp'[q], "ApplicationStateResponse")
                           => Carries(fromApp[q], "ApplicationStateResponse")
    BY DEF SayOwn
  <2>1. CASE q = p
    <3>1. fromApp'[q] = <<>>
      BY <2>1 DEF appExit, PhantomFacts
    <3> QED
      BY <3>1, CarriesNothing
  <2>2. CASE q # p
    BY <2>2 DEF appExit, PhantomFacts, PhantomInv, AppsRun
  <2> QED
    BY <2>1, <2>2
<1> QED
  BY <1>1, <1>2

-----------------------------------------------------------------------------
(* The steps                                                               *)

\* The stored applications become the known ones, UNKNOWN all of them, and are told.
LEMMA PhantomRecovery ==
  ASSUME PhantomInv, PhantomFacts, state = "STANDBY", beginRecovery, UNCHANGED <<appProcess, fromApp>>
  PROVE  PhantomInv'
<1>1. apps = {}
  BY DEF PhantomFacts, StandbyEmpty
<1>2. /\ state' = "RECOVERING" /\ apps' = storedApps /\ papps' = papps
      /\ astate' = [p \in AppProc |-> IF p \in storedApps THEN "UNKNOWN" ELSE astate[p]]
      /\ toApp' = [p \in AppProc |-> IF p \in storedApps THEN Append(toApp[p], Changed) ELSE toApp[p]]
  BY <1>1 DEF beginRecovery, recoverApps, persistedVars
<1>3. \A p \in storedApps : p \in AppProc /\ Stored(p)
  BY DEF storedApps, Stored, PhantomFacts, PersistedTypeOK, PersistedMatchesRegistered
<1>4. AppsRun'
  BY DEF PhantomInv, AppsRun
<1>5. NewUnknown'
  <2> SUFFICES ASSUME NEW q \in AppProc, appProcess[q] = "new"
               PROVE  toApp'[q] = <<>> /\ q \notin apps' /\ ~ Stored(q)'
    BY DEF NewUnknown
  <2>1. toApp[q] = <<>> /\ ~ Stored(q)
    BY DEF PhantomInv, NewUnknown
  <2>2. q \notin storedApps
    BY <1>3, <2>1
  <2> QED
    BY <1>2, <2>1, <2>2 DEF Stored
<1>6. OwnAnswer'
  <2> SUFFICES ASSUME NEW p \in AppProc, NEW q \in AppProc, p # q,
                      appDriver[p] = appDriver[q], appAddress[p] = appAddress[q],
                      appProcess[q] = "up", p \in apps' \/ Stored(p)'
               PROVE  /\ ~ Carries(toApp'[q], "MasterChanged")
                      /\ ~ Carries(fromApp[q], "ApplicationStateResponse")
    BY DEF OwnAnswer
  <2>1. Stored(p)
    BY <1>2, <1>3 DEF Stored
  <2>2. q \notin storedApps
    BY <1>3, <2>1 DEF Stored
  <2>3. toApp'[q] = toApp[q]
    BY <1>2, <2>2
  <2> QED
    BY <2>1, <2>3 DEF PhantomInv, OwnAnswer
<1>7. \A p \in apps' : Believed(p)'
  BY <1>2, <1>3 DEF Believed
<1> QED
  BY <1>4, <1>5, <1>6, <1>7 DEF PhantomInv

\* A process starts on an address nobody uses.
LEMMA PhantomStart ==
  ASSUME PhantomInv, PhantomFacts, NEW p \in AppProc, AppStarting(p)
  PROVE  PhantomInv'
<1>1. /\ appProcess[p] = "new" /\ appProcess' = [appProcess EXCEPT ![p] = "up"]
      /\ \A q \in AppProc : appAddress[q] = appAddress[p] => appProcess[q] # "up"
      /\ UNCHANGED <<fromApp, apps, astate, state, papps, toApp, lostAtMaster>>
  BY DEF AppStarting, StartApp, masterVars, memoryVars, channelVars, appVars, persistedVars, networkVars
<1>2. /\ appProcess'[p] = "up"
      /\ \A q \in AppProc \ {p} : appProcess'[q] = appProcess[q]
  BY <1>1 DEF PhantomFacts
<1>3. toApp[p] = <<>> /\ fromApp[p] = <<>>
  BY <1>1 DEF PhantomInv, NewUnknown, AppsRun
<1>4. AppsRun'
  BY <1>1, <1>2 DEF PhantomInv, AppsRun
<1>5. NewUnknown'
  BY <1>1, <1>2 DEF PhantomInv, NewUnknown, Stored
<1>6. OwnAnswer'
  <2> SUFFICES ASSUME NEW x \in AppProc, NEW q \in AppProc, x # q,
                      appDriver[x] = appDriver[q], appAddress[x] = appAddress[q],
                      appProcess'[q] = "up", x \in apps \/ Stored(x)
               PROVE  /\ ~ Carries(toApp[q], "MasterChanged")
                      /\ ~ Carries(fromApp[q], "ApplicationStateResponse")
    BY <1>1 DEF OwnAnswer, Stored
  <2>1. CASE q = p
    BY <1>3, <2>1, CarriesNothing
  <2>2. CASE q # p
    BY <1>2, <2>2 DEF PhantomInv, OwnAnswer
  <2> QED
    BY <2>1, <2>2
<1>7. ASSUME NEW x \in apps' PROVE Believed(x)'
  <2>1. x \in apps /\ x \in AppProc /\ Believed(x)
    BY <1>1, <1>7 DEF PhantomInv, PhantomFacts, AppsTypeOK
  <2>2. StartedElsewhere(x) => StartedElsewhere(x)'
    BY <1>2 DEF StartedElsewhere
  <2> QED
    BY <1>1, <1>2, <2>1, <2>2 DEF Believed
<1> QED
  BY <1>4, <1>5, <1>6, <1>7 DEF PhantomInv

\* A running process registers.
LEMMA PhantomAccepted ==
  ASSUME PhantomInv, PhantomFacts, NEW p \in AppProc, appProcess[p] = "up",
         AppsTalk, RegisterApplicationAccepted(p), UNCHANGED <<appProcess, lostAtMaster>>
  PROVE  PhantomInv'
<1>1. /\ apps' = apps \cup {p} /\ astate' = [astate EXCEPT ![p] = "RUNNING"] /\ state' = state
      /\ papps' = papps \/ papps' = [papps EXCEPT ![appDriver[p]] = p]
  BY DEF RegisterApplicationAccepted
<1>2. KnownRun
  <2> SUFFICES ASSUME NEW x \in AppProc, x \in apps' \/ Stored(x)', x # p
               PROVE  x \in apps \/ Stored(x)
    BY DEF KnownRun
  <2>1. appDriver[x] \in DriverId
    BY ConstantsAssumption
  <2> QED
    BY <1>1, <2>1 DEF Stored, PhantomFacts, PersistedTypeOK
<1>3. ASSUME NEW x \in apps' PROVE Believed(x)'
  <2>1. CASE x = p
    BY <2>1 DEF Believed
  <2>2. CASE x # p
    <3>1. x \in apps /\ x \in AppProc /\ Believed(x) /\ astate'[x] = astate[x]
      BY <1>1, <1>3, <2>2 DEF PhantomInv, PhantomFacts, AppsTypeOK
    <3>2. state = "RECOVERING" /\ astate[x] = "UNKNOWN" => Believed(x)'
      BY <1>1, <3>1 DEF Believed
    <3> QED
      BY <3>1, <3>2, BelievedStays
  <2> QED
    BY <2>1, <2>2
<1>4. AppsRun' /\ NewUnknown' /\ OwnAnswer'
  BY <1>2, TalkKeeps
<1> QED
  BY <1>3, <1>4 DEF PhantomInv

\* An answer to MasterChanged is that of the process that is taken to run, or of one on
\* another address.
LEMMA PhantomAnswer ==
  ASSUME PhantomInv, PhantomFacts, NEW p \in AppProc, fromApp[p] # <<>>, AppsTalk,
         Head(fromApp[p]).type = "ApplicationStateResponse", ApplicationStateResponse(appDriver[p]),
         RecoveryCompletes', UNCHANGED <<appProcess, lostAtMaster>>
  PROVE  PhantomInv'
<1> DEFINE d == appDriver[p]
<1>1. appProcess[p] = "up" /\ d \in DriverId
  BY ConstantsAssumption DEF PhantomInv, AppsRun
<1>2. /\ apps' = apps /\ papps' = papps
      /\ astate' = [x \in AppProc |-> IF x = idToApp[d] THEN "RUNNING" ELSE astate[x]]
      /\ state' = state \/ state' = "ACTIVE"
  BY DEF ApplicationStateResponse, persistedVars
<1>3. Carries(fromApp[p], "ApplicationStateResponse")
  <2>1. fromApp[p] \in Seq(FromAppMsg)
    BY DEF PhantomFacts
  <2> QED
    BY <2>1, CarriesTail
<1>4. KnownRun
  BY <1>2 DEF KnownRun, Stored
<1>5. ASSUME NEW x \in apps' PROVE Believed(x)'
  <2>1. x \in apps /\ x \in AppProc /\ Believed(x)
    BY <1>2, <1>5 DEF PhantomInv, PhantomFacts, AppsTypeOK
  <2>2. CASE x = idToApp[d]
    <3>1. appDriver[x] = d
      BY <1>1, <2>1, <2>2, NoneAssumption DEF PhantomFacts, AppIndexes
    <3>2. CASE x = p
      BY <1>1, <3>2 DEF Believed
    <3>3. CASE x # p /\ appAddress[x] # appAddress[p]
      <4>1. StartedElsewhere(x)'
        BY <1>1, <3>1, <3>3 DEF StartedElsewhere
      <4> QED
        BY <4>1 DEF Believed
    <3>4. CASE x # p /\ appAddress[x] = appAddress[p]
      BY <1>1, <1>3, <2>1, <3>1, <3>4 DEF PhantomInv, OwnAnswer
    <3> QED
      BY <3>2, <3>3, <3>4
  <2>3. CASE x # idToApp[d]
    <3>1. astate'[x] = astate[x]
      BY <1>2, <2>1, <2>3
    <3>2. ASSUME state = "RECOVERING", astate[x] = "UNKNOWN" PROVE Believed(x)'
      <4>1. state' # "ACTIVE"
        BY <1>5, <3>1, <3>2 DEF RecoveryCompletes
      <4> QED
        BY <1>2, <3>1, <3>2, <4>1 DEF Believed
    <3> QED
      BY <2>1, <3>2, BelievedStays
  <2> QED
    BY <2>2, <2>3
<1>6. AppsRun' /\ NewUnknown' /\ OwnAnswer'
  BY <1>4, TalkKeeps
<1> QED
  BY <1>5, <1>6 DEF PhantomInv

\* The master hears of an application.
LEMMA PhantomHeard ==
  ASSUME PhantomInv, PhantomFacts, NEW p \in AppProc, DeliverFromApp(p), RecoveryCompletes'
  PROVE  PhantomInv'
<1>1. /\ fromApp[p] # <<>> /\ fromApp' = [fromApp EXCEPT ![p] = Tail(@)]
      /\ UNCHANGED <<appProcess, lostAtMaster>>
      /\ FromApplication(p, Head(fromApp[p]))
  BY DEF DeliverFromApp, networkVars
<1>2. appProcess[p] = "up"
  BY <1>1 DEF PhantomInv, AppsRun
<1>3. SomeEnd /\ SayOwn
  BY <1>1, AllStay, SaidTail
<1>4. CASE UNCHANGED masterVars
  <2>1. UNCHANGED <<apps, astate, state, papps, toApp>>
    BY <1>4 DEF masterVars, memoryVars, appVars, persistedVars, channelVars
  <2>2. AppsTalk /\ KnownRun
    BY <1>3, <2>1, ToldNothing DEF AppsTalk, KnownRun, Stored
  <2> QED
    BY <1>1, <2>1, <2>2, ShrinkKeeps DEF PhantomFacts
<1>5. ASSUME NEW m \in ToAppMsg, m.type # "MasterChanged", toApp' = SendTo(toApp, p, m),
             UNCHANGED memoryVars
      PROVE  PhantomInv'
  <2>1. UNCHANGED <<apps, astate, state, papps>>
    BY <1>5 DEF memoryVars, appVars, persistedVars
  <2>2. AppsTalk /\ KnownRun
    BY <1>2, <1>3, <1>5, <2>1, ToldAnswer DEF AppsTalk, KnownRun, Stored
  <2> QED
    BY <1>1, <2>1, <2>2, ShrinkKeeps DEF PhantomFacts
<1>6. CASE RegisterApplicationInStandby(p)
  <2> DEFINE m == [type |-> "MasterInStandby"]
  <2>1. m \in ToAppMsg /\ m.type # "MasterChanged"
    BY DEF ToAppMsg
  <2>2. toApp' = SendTo(toApp, p, m) /\ UNCHANGED memoryVars
    BY <1>6 DEF RegisterApplicationInStandby, AnswerApp
  <2> HIDE DEF m
  <2> QED
    BY <1>5, <2>1, <2>2
<1>7. CASE RegisterApplicationRefused(p)
  <2> DEFINE m == [type |-> "RegisterApplicationFailed"]
  <2>1. m \in ToAppMsg /\ m.type # "MasterChanged"
    BY DEF ToAppMsg
  <2>2. toApp' = SendTo(toApp, p, m) /\ UNCHANGED memoryVars
    BY <1>7 DEF RegisterApplicationRefused, AnswerApp
  <2> HIDE DEF m
  <2> QED
    BY <1>5, <2>1, <2>2
<1>8. CASE RegisterApplicationAccepted(p) /\ epoch \in Nat
  <2> DEFINE m == [type |-> "RegisteredApplication", master |-> epoch]
  <2>1. m \in ToAppMsg /\ m.type # "MasterChanged"
    BY <1>8 DEF ToAppMsg
  <2>2. toApp' = SendTo(toApp, p, m)
    BY <1>8 DEF RegisterApplicationAccepted, AnswerApp
  <2> HIDE DEF m
  <2>3. AppsTalk
    BY <1>2, <1>3, <2>1, <2>2, ToldAnswer DEF AppsTalk
  <2> QED
    BY <1>1, <1>2, <1>8, <2>3, PhantomAccepted
<1>9. CASE /\ Head(fromApp[p]).type = "ApplicationStateResponse"
           /\ ApplicationStateResponse(appDriver[p])
  <2>1. AppsTalk
    <3>1. UNCHANGED toApp
      BY <1>9 DEF ApplicationStateResponse
    <3> QED
      BY <1>3, <3>1, ToldNothing DEF AppsTalk
  <2> QED
    BY <1>1, <1>9, <2>1, PhantomAnswer
<1> QED
  BY <1>1, <1>4, <1>6, <1>7, <1>8, <1>9 DEF FromApplication, RegisterApplication, PhantomFacts

\* The end of a process is noticed, if there is anybody to notice it.
LEMMA EndNoticed ==
  ASSUME PhantomFacts, UNCHANGED <<apps, state>>, NEW p \in AppProc,
         \A q \in AppProc \ {p} : appProcess'[q] = appProcess[q],
         lostAtMaster' = IF appProcess[p] = "up" /\ appProcess'[p] = "exited"
                         THEN LostAt(appAddress[p]) ELSE lostAtMaster,
         SomeEnd
  PROVE  \A x \in apps' :
           appAddress[x] \in lostAtMaster \/ (appProcess[x] = "up" /\ appProcess'[x] # "up")
           => appAddress[x] \in lostAtMaster'
<1> SUFFICES ASSUME NEW x \in apps,
                    appAddress[x] \in lostAtMaster \/ (appProcess[x] = "up" /\ appProcess'[x] # "up")
             PROVE  appAddress[x] \in lostAtMaster'
  OBVIOUS
<1>1. x \in AppProc /\ state # "STANDBY"
  BY DEF PhantomFacts, AppsTypeOK, StandbyEmpty
<1>2. lostAtMaster \subseteq lostAtMaster'
  BY DEF LostAt
<1>3. CASE appProcess[x] = "up" /\ appProcess'[x] # "up"
  <2>1. x = p /\ appProcess'[p] = "exited"
    BY <1>1, <1>3 DEF SomeEnd
  <2> QED
    BY <1>1, <1>3, <2>1 DEF LostAt
<1> QED
  BY <1>2, <1>3

\* Steps of an application and of its connection that leave the master's memory alone.
LEMMA PhantomTalk ==
  ASSUME PhantomInv, PhantomFacts, RecoveryCompletes', NEW p \in AppProc,
         UNCHANGED memoryVars, AppsTalk,
         \A x \in apps' :
           appAddress[x] \in lostAtMaster \/ (appProcess[x] = "up" /\ appProcess'[x] # "up")
           => appAddress[x] \in lostAtMaster'
  PROVE  PhantomInv'
<1>1. UNCHANGED <<apps, astate, state, papps>>
  BY DEF memoryVars, appVars, persistedVars
<1>2. KnownRun
  BY <1>1 DEF KnownRun, Stored
<1> QED
  BY <1>1, <1>2, ShrinkKeeps DEF PhantomFacts

\* What an application does with a message of the master.
LEMMA PhantomTold ==
  ASSUME PhantomInv, PhantomFacts, RecoveryCompletes', NEW p \in AppProc, DeliverToApp(p)
  PROVE  PhantomInv'
<1>1. /\ toApp[p] # <<>> /\ toApp' = [toApp EXCEPT ![p] = Tail(@)]
      /\ AppExitNoticed(p) /\ UNCHANGED memoryVars
      /\ \/ appProcess[p] = "up" /\ AppFromMaster(p, Head(toApp[p]))
         \/ UNCHANGED appActorVars
  BY DEF DeliverToApp
<1>2. ToldOther
  BY <1>1, ToldTail
<1>3. SomeEnd /\ SayOwn /\ \A q \in AppProc \ {p} : appProcess'[q] = appProcess[q]
  <2>1. CASE UNCHANGED <<appProcess, fromApp>>
    BY <2>1, AllStay, SaidNothing
  <2>2. CASE appProcess[p] = "up" /\ appExit(p)
    BY <2>2, SaidLast DEF appExit, PhantomFacts
  <2>3. CASE /\ appProcess[p] = "up" /\ Head(toApp[p]).type = "MasterChanged"
             /\ UNCHANGED appProcess
             /\ fromApp' = SendTo(fromApp, p, [type |-> "ApplicationStateResponse"])
    <3> DEFINE m == [type |-> "ApplicationStateResponse"]
    <3>1. m \in FromAppMsg /\ toApp[p] \in Seq(ToAppMsg)
      BY DEF FromAppMsg, PhantomFacts
    <3>2. Carries(toApp[p], "MasterChanged")
      BY <1>1, <2>3, <3>1, CarriesTail
    <3>3. fromApp' = SendTo(fromApp, p, m)
      BY <2>3
    <3> HIDE DEF m
    <3>4. SayOwn
      BY <2>3, <3>1, <3>2, <3>3, SaidMore
    <3> QED
      BY <2>3, <3>4, AllStay
  <2> QED
    BY <1>1, <2>1, <2>2, <2>3 DEF AppFromMaster, RegisteredApplication, RegisterApplicationFailed,
       AppMasterChanged, appActorVars
<1>4. AppsTalk
  BY <1>2, <1>3 DEF AppsTalk
<1>5. UNCHANGED <<apps, state>>
  BY <1>1 DEF memoryVars, appVars
<1>6. lostAtMaster' = IF appProcess[p] = "up" /\ appProcess'[p] = "exited"
                      THEN LostAt(appAddress[p]) ELSE lostAtMaster
  BY <1>1 DEF AppExitNoticed
<1> QED
  BY <1>1, <1>3, <1>4, <1>5, <1>6, EndNoticed, PhantomTalk

LEMMA PhantomRegisters ==
  ASSUME PhantomInv, PhantomFacts, RecoveryCompletes', NEW p \in AppProc, AppRegistering(p)
  PROVE  PhantomInv'
<1>1. /\ appProcess[p] = "up" /\ appTryRegister(p) /\ AppExitNoticed(p)
      /\ UNCHANGED memoryVars /\ UNCHANGED toApp
  BY DEF AppRegistering, appTryRegister, masterVars, channelVars
<1>2. ToldOther
  BY <1>1, ToldNothing
<1>3. SomeEnd /\ SayOwn /\ \A q \in AppProc \ {p} : appProcess'[q] = appProcess[q]
  <2>1. CASE UNCHANGED <<appProcess, fromApp>>
    BY <2>1, AllStay, SaidNothing
  <2>2. CASE appExit(p)
    BY <1>1, <2>2, SaidLast DEF appExit, PhantomFacts
  <2>3. CASE fromApp' = SendTo(fromApp, p, [type |-> "RegisterApplication"]) /\ UNCHANGED appProcess
    <3> DEFINE m == [type |-> "RegisterApplication"]
    <3>1. m \in FromAppMsg /\ m.type # "ApplicationStateResponse"
      BY DEF FromAppMsg
    <3>2. fromApp' = SendTo(fromApp, p, m)
      BY <2>3
    <3> HIDE DEF m
    <3>3. SayOwn
      BY <1>1, <2>3, <3>1, <3>2, SaidMore
    <3> QED
      BY <2>3, <3>3, AllStay
  <2> QED
    BY <1>1, <2>1, <2>2, <2>3 DEF appTryRegister
<1>4. AppsTalk
  BY <1>2, <1>3 DEF AppsTalk
<1>5. UNCHANGED <<apps, state>>
  BY <1>1 DEF memoryVars, appVars
<1>6. lostAtMaster' = IF appProcess[p] = "up" /\ appProcess'[p] = "exited"
                      THEN LostAt(appAddress[p]) ELSE lostAtMaster
  BY <1>1 DEF AppExitNoticed
<1> QED
  BY <1>1, <1>3, <1>4, <1>5, <1>6, EndNoticed, PhantomTalk

LEMMA PhantomFails ==
  ASSUME PhantomInv, PhantomFacts, RecoveryCompletes', NEW p \in AppProc,
         BreakApp(p) \/ KillApp(p) \/ \E e \in 1..MaxEpoch : AppLoses(p, e)
  PROVE  PhantomInv'
<1>1. CASE BreakApp(p)
  <2>1. /\ UNCHANGED <<memoryVars, appProcess>>
        /\ fromApp' = [fromApp EXCEPT ![p] = <<>>] /\ toApp' = [toApp EXCEPT ![p] = <<>>]
        /\ lostAtMaster \subseteq lostAtMaster'
    BY <1>1 DEF BreakApp
  <2>2. SayOwn
    BY <2>1, CarriesNothing DEF SayOwn, PhantomInv, AppsRun, PhantomFacts
  <2>3. AppsTalk
    BY <2>1, <2>2, AllStay, ToldEmptied DEF AppsTalk
  <2> QED
    BY <2>1, <2>3, PhantomTalk
<1>2. CASE KillApp(p)
  <2>1. /\ UNCHANGED <<memoryVars, toApp>> /\ appProcess[p] = "up" /\ appExit(p)
        /\ lostAtMaster' = LostAt(appAddress[p])
    BY <1>2 DEF KillApp, AppKilled, masterVars, channelVars
  <2>2. SomeEnd /\ SayOwn
    BY <2>1, SaidLast
  <2>3. AppsTalk
    BY <2>1, <2>2, ToldNothing DEF AppsTalk
  <2>4. appProcess'[p] = "exited" /\ \A q \in AppProc \ {p} : appProcess'[q] = appProcess[q]
    BY <2>1 DEF appExit, PhantomFacts
  <2>5. UNCHANGED <<apps, state>>
    BY <2>1 DEF memoryVars, appVars
  <2>6. lostAtMaster' = IF appProcess[p] = "up" /\ appProcess'[p] = "exited"
                        THEN LostAt(appAddress[p]) ELSE lostAtMaster
    BY <2>1, <2>4
  <2> QED
    BY <2>1, <2>2, <2>3, <2>4, <2>5, <2>6, EndNoticed, PhantomTalk
<1>3. CASE \E e \in 1..MaxEpoch : AppLoses(p, e)
  <2>1. UNCHANGED <<memoryVars, toApp, appProcess, fromApp, lostAtMaster>>
    BY <1>3 DEF AppLoses, appMasterDisconnected, masterVars, channelVars, appActorVars
  <2>2. AppsTalk
    BY <2>1, SilentTalk
  <2> QED
    BY <2>1, <2>2, PhantomTalk
<1> QED
  BY <1>1, <1>2, <1>3

\* A master that fails takes all messages along.
LEMMA PhantomMasterFails ==
  ASSUME PhantomInv, PhantomFacts, RecoveryCompletes', MasterFails
  PROVE  PhantomInv'
<1>1. /\ apps' = {} /\ papps' = papps /\ UNCHANGED appProcess
      /\ toApp' = [p \in AppProc |-> <<>>] /\ fromApp' = [p \in AppProc |-> <<>>]
  BY DEF MasterFails, ProcessExit, ForgetMemory, persistedVars
<1>2. AppsTalk
  BY <1>1, CarriesNothing DEF AppsTalk, SomeEnd, ToldOther, SayOwn
<1>3. KnownRun
  BY <1>1 DEF KnownRun, Stored
<1> QED
  BY <1>1, <1>2, <1>3, ShrinkKeeps DEF PhantomFacts

\* The master hears that an address is gone, and forgets who was there.
LEMMA PhantomLoses ==
  ASSUME PhantomInv, PhantomFacts, RecoveryCompletes', NEW a \in Addr, MasterLoses(a)
  PROVE  PhantomInv'
<1> DEFINE A == {addressToApp[a]} \ {None}
<1>1. /\ lostAtMaster' = lostAtMaster \ {a} /\ onDisconnected(a) /\ UNCHANGED <<appProcess, fromApp>>
  BY DEF MasterLoses, appActorVars
<1>2. PICK R, s : RemoveAll(R, A, s) /\ (s = state \/ s = "ACTIVE")
  BY <1>1 DEF onDisconnected
<1>3. AppsShrink /\ (apps' = apps \ A \/ apps' = {})
  BY <1>2, RemoveAllShrinks DEF PhantomFacts
<1>4. \A p \in apps' : appAddress[p] # a
  BY <1>3, NoneAssumption DEF PhantomFacts, AppsTypeOK, AppIndexes
<1> QED
  BY <1>1, <1>3, <1>4, SilentKeeps DEF PhantomFacts

LEMMA PhantomStep ==
  ASSUME PhantomInv, PhantomFacts, RecoveryCompletes', [GridNext]_vars
  PROVE  PhantomInv'
<1>0. AppsTypeOK /\ PersistedTypeOK
  BY DEF PhantomFacts
<1> USE DEF networkVars, clientVars, appActorVars
<1>1. ASSUME UNCHANGED masterVars \/ UNCHANGED <<memoryVars, toApp>> PROVE AppsShrink
  <2>1. UNCHANGED <<apps, astate, state, papps, toApp>>
    BY <1>1 DEF masterVars, memoryVars, appVars, persistedVars, channelVars
  <2> QED
    BY <1>0, <2>1, UnchangedShrinks
<1>2. ASSUME AppsShrink, UNCHANGED <<appProcess, fromApp>>, lostAtMaster \subseteq lostAtMaster'
      PROVE  PhantomInv'
  BY <1>0, <1>2, SilentKeeps
<1>3. \A b : lostAtMaster \subseteq LostAt(b)
  BY DEF LostAt
<1>4. CASE UNCHANGED vars
  BY <1>1, <1>2, <1>4 DEF vars
<1>5. CASE MasterStep
  <2>1. CASE Elected
    <3>1. state = "STANDBY" /\ UNCHANGED <<appProcess, fromApp, lostAtMaster>>
      BY <2>1 DEF Elected, ElectedLeader, MasterAlone
    <3>2. CASE beginRecovery
      BY <3>1, <3>2, PhantomRecovery
    <3>3. CASE ElectedFresh
      <4>1. UNCHANGED <<apps, astate, papps, toApp>> /\ state' = "ACTIVE"
        BY <3>3 DEF ElectedFresh, appVars, persistedVars
      <4>2. AppsShrink
        BY <4>1 DEF AppsShrink
      <4> QED
        BY <1>2, <3>1, <4>2
    <3> QED
      BY <2>1, <3>2, <3>3 DEF Elected, ElectedLeader
  <2>2. CASE Recovered
    <3>1. AppsShrink
      BY <1>0, <2>2, RemoveAllShrinks DEF Recovered, CompleteRecovery
    <3> QED
      BY <1>2, <2>2, <3>1 DEF Recovered, MasterAlone
  <2>3. CASE ToItself
    BY <1>0, <1>2, <2>3, SelfMessageShrinks DEF ToItself, MasterAlone
  <2>4. CASE MasterFails
    BY <2>4, PhantomMasterFails
  <2>5. CASE \E a \in Addr : MasterLoses(a)
    BY <2>5, PhantomLoses
  <2> QED
    BY <1>5, <2>1, <2>2, <2>3, <2>4, <2>5 DEF MasterStep
<1>6. ASSUME NEW w \in WorkerId, WorkerStep(w) PROVE PhantomInv'
  <2>1. CASE Ageing(w) \/ TimeOut(w)
    BY <1>0, <1>2, <2>1, WorkerMessageShrinks DEF Ageing, TimeOut, MasterAlone
  <2>2. CASE DeliverFromWorker(w)
    <3> DEFINE m == Head(toMaster[w])
    <3>1. FromWorker(w, m) /\ UNCHANGED <<appProcess, fromApp, lostAtMaster>>
      BY <2>2 DEF DeliverFromWorker
    <3>2. m \in FromWorkerMsg
      BY <2>2, Received DEF DeliverFromWorker, PhantomFacts
    <3> HIDE DEF m
    <3>3. \/ WorkerMessage(w) \/ UNCHANGED masterVars
          \/ DriverStateChanged(m.id, m.state)
      BY <3>1, <3>2, FromWorkerFields DEF FromWorker, WorkerMessage
    <3>4. AppsShrink
      BY <1>0, <1>1, <3>3, WorkerMessageShrinks, DriverStateChangedShrinks
    <3> QED
      BY <1>2, <3>1, <3>4
  <2>3. CASE DeliverToWorker(w) \/ Registering(w)
    BY <1>1, <1>2, <1>3, <2>3 DEF DeliverToWorker, Registering, ExitNoticed
  <2>4. CASE Starting(w) \/ Beating(w) \/ KillWorker(w) \/ \E e \in 1..MaxEpoch : WorkerLoses(w, e)
    BY <1>1, <1>2, <1>3, <2>4 DEF Starting, Beating, KillWorker, WorkerLoses, WorkerAlone
  <2>5. CASE BreakWorker(w)
    BY <1>1, <1>2, <2>5 DEF BreakWorker
  <2> QED
    BY <1>6, <2>1, <2>2, <2>3, <2>4, <2>5 DEF WorkerStep
<1>7. ASSUME NEW o \in DriverObj, RunnerStep(o) PROVE PhantomInv'
  BY <1>1, <1>2, <1>7 DEF RunnerStep, RunnerStarting, SparkEnding, Reporting, WorkerAlone
<1>8. ASSUME NEW p \in AppProc, AppStep(p) PROVE PhantomInv'
  BY <1>8, PhantomHeard, PhantomTold, PhantomStart, PhantomRegisters, PhantomFails DEF AppStep
<1>9. CASE ClientStep
  <2>1. ASSUME NEW c \in Client, Submit(c) PROVE PhantomInv'
    BY <1>0, <1>2, <2>1, RequestShrinks DEF Submit
  <2>2. ASSUME NEW c \in Client, NEW d \in DriverId, AskStatus(c, d) PROVE PhantomInv'
    BY <1>1, <1>2, <2>2 DEF AskStatus
  <2>3. ASSUME NEW d \in DriverId, stopApplication(d) PROVE PhantomInv'
    BY <1>0, <1>2, <2>3, RequestShrinks DEF stopApplication
  <2> QED
    BY <1>9, <2>1, <2>2, <2>3 DEF ClientStep
<1> QED
  BY <1>4, <1>5, <1>6, <1>7, <1>8, <1>9 DEF GridNext

LEMMA PhantomInit == GridInit => PhantomInv
<1> SUFFICES ASSUME GridInit PROVE PhantomInv
  OBVIOUS
<1>1. /\ apps = {} /\ papps = [d \in DriverId |-> None] /\ toApp = [p \in AppProc |-> <<>>]
      /\ fromApp = [p \in AppProc |-> <<>>] /\ appProcess = [p \in AppProc |-> "new"]
  BY DEF GridInit, MasterInit, EmptyMemory, ChannelInit, AppInit
<1>2. \A p \in AppProc : ~ Stored(p)
  BY <1>1, ConstantsAssumption, NoneAssumption DEF Stored
<1> QED
  BY <1>1, <1>2 DEF PhantomInv, AppsRun, NewUnknown, OwnAnswer

\* The applications an active master lists run, or their end is on its way to the master,
\* unless a process of the same application was started on another address: whichever of
\* them died, and whoever led then, nobody has answered for a dead one.
THEOREM AppsAreReal == GridSpec => []NoPhantomApp
<1>1. GridInit => PhantomInv
  BY PhantomInit
<1>2. PhantomInv /\ GridInv /\ DriversInv /\ DriversInv' /\ [GridNext]_vars => PhantomInv'
  <2>1. GridInv /\ DriversInv => PhantomFacts
    BY DEF GridInv, GridTypeOK, AppTypeOK, WorkerTypeOK, MasterTypeOK, ChannelTypeOK, DriversInv,
       MasterInv, PhantomFacts
  <2>2. DriversInv' => RecoveryCompletes'
    BY DEF DriversInv, MasterInv
  <2> QED
    BY <2>1, <2>2, PhantomStep
<1>3. PhantomInv => NoPhantomApp
  BY DEF PhantomInv, NoPhantomApp, Believed
<1> QED
  BY <1>1, <1>2, <1>3, GridInvariant, GridMasterInvariant, PTL DEF GridSpec

-----------------------------------------------------------------------------
(* Applications that follow the leader                                     *)
(*                                                                         *)
(* An application stops trying when a master has answered it.  That master *)
(* leads, or the end of the connection to it is still to be noticed: what  *)
(* reaches an application is what the leader has sent, since a master that *)
(* fails takes its messages along.                                         *)

\* Masters that name themselves to an application lead.
FromLeader ==
  \A p \in AppProc : \A i \in 1..Len(toApp[p]) :
    toApp[p][i].type \in {"RegisteredApplication", "MasterChanged"} => toApp[p][i].master = epoch

\* Application p, if it has stopped trying, is content for a reason.
Settled(p) ==
  appProcess[p] = "up" /\ ~ appScheduling[p] =>
    appConnected[p] /\ (amaster[p] = epoch \/ amaster[p] \in lostAtApp[p])

FollowInv ==
  /\ FromLeader
  /\ \A p \in AppProc : appScheduling[p] => ~ appRegistered[p]
  /\ \A p \in AppProc : Settled(p)

FollowFacts ==
  /\ AppsTypeOK /\ PersistedTypeOK
  /\ toApp \in [AppProc -> Seq(ToAppMsg)]
  /\ toMaster \in [WorkerId -> Seq(FromWorkerMsg)]
  /\ AppTypeOK
  /\ lostAtApp \in [AppProc -> SUBSET (1..MaxEpoch)]
  /\ epoch \in Nat

\* The applications do nothing and notice nothing.
AppsIdle == UNCHANGED <<appProcess, appRegistrationVars, lostAtApp>>

LEMMA IdleFollow ==
  ASSUME FollowInv, AppsIdle, FromLeader', epoch' = epoch
  PROVE  FollowInv'
BY DEF FollowInv, AppsIdle, Settled, appRegistrationVars

LEMMA SilentFollow ==
  ASSUME FollowInv, AppsIdle, UNCHANGED <<toApp, epoch>>
  PROVE  FollowInv'
<1>1. FromLeader'
  BY DEF FollowInv, FromLeader
<1> QED
  BY <1>1, IdleFollow

\* The leader sends one more message to some applications.
LEMMA LeaderSends ==
  ASSUME FollowInv, FollowFacts, NEW P, NEW m \in ToAppMsg, epoch' = epoch,
         m.type \in {"RegisteredApplication", "MasterChanged"} => m.master = epoch,
         toApp' = [p \in AppProc |-> IF p \in P THEN Append(toApp[p], m) ELSE toApp[p]]
  PROVE  FromLeader'
<1> SUFFICES ASSUME NEW p \in AppProc, NEW i \in 1..Len(toApp'[p]),
                    toApp'[p][i].type \in {"RegisteredApplication", "MasterChanged"}
             PROVE  toApp'[p][i].master = epoch
  BY DEF FromLeader
<1>1. CASE p \in P
  <2>1. toApp'[p] = Append(toApp[p], m) /\ toApp[p] \in Seq(ToAppMsg)
    BY <1>1 DEF FollowFacts
  <2>2. /\ Len(toApp[p]) \in Nat /\ Len(Append(toApp[p], m)) = Len(toApp[p]) + 1
        /\ \A j \in 1..Len(toApp[p]) : Append(toApp[p], m)[j] = toApp[p][j]
        /\ Append(toApp[p], m)[Len(toApp[p]) + 1] = m
    BY <2>1, AppendProperties, LenProperties
  <2>3. i \in 1..Len(toApp[p]) \/ i = Len(toApp[p]) + 1
    BY <2>1, <2>2
  <2>4. CASE i \in 1..Len(toApp[p])
    BY <2>1, <2>2, <2>4 DEF FollowInv, FromLeader
  <2>5. CASE i = Len(toApp[p]) + 1
    BY <2>1, <2>2, <2>5
  <2> QED
    BY <2>3, <2>4, <2>5
<1>2. CASE p \notin P
  BY <1>2 DEF FollowInv, FromLeader
<1> QED
  BY <1>1, <1>2

\* A channel loses its first message, or all it holds.
LEMMA LeaderHeard ==
  ASSUME FollowInv, FollowFacts, NEW p \in AppProc, epoch' = epoch,
         \/ toApp[p] # <<>> /\ toApp' = [toApp EXCEPT ![p] = Tail(@)]
         \/ toApp' = [toApp EXCEPT ![p] = <<>>]
  PROVE  FromLeader'
<1> SUFFICES ASSUME NEW q \in AppProc, NEW i \in 1..Len(toApp'[q]),
                    toApp'[q][i].type \in {"RegisteredApplication", "MasterChanged"}
             PROVE  toApp'[q][i].master = epoch
  BY DEF FromLeader
<1>1. CASE q # p
  BY <1>1 DEF FollowInv, FromLeader, FollowFacts
<1>2. CASE q = p /\ toApp' = [toApp EXCEPT ![p] = <<>>]
  BY <1>2 DEF FollowFacts
<1>3. CASE q = p /\ toApp[p] # <<>> /\ toApp' = [toApp EXCEPT ![p] = Tail(@)]
  <2>1. toApp'[q] = Tail(toApp[q]) /\ toApp[q] \in Seq(ToAppMsg) /\ toApp[q] # <<>>
    BY <1>3 DEF FollowFacts
  <2>2. /\ Len(toApp[q]) \in Nat /\ Len(Tail(toApp[q])) = Len(toApp[q]) - 1
        /\ \A j \in 1..Len(Tail(toApp[q])) : Tail(toApp[q])[j] = toApp[q][j + 1]
    BY <2>1, HeadTailProperties, LenProperties
  <2>3. i + 1 \in 1..Len(toApp[q]) /\ toApp'[q][i] = toApp[q][i + 1]
    BY <2>1, <2>2
  <2> QED
    BY <2>3 DEF FollowInv, FromLeader
<1> QED
  BY <1>1, <1>2, <1>3

\* The other applications notice nothing of what application p does.
LEMMA OthersFollow ==
  ASSUME FollowInv, FromLeader', epoch' = epoch, NEW p \in AppProc,
         appScheduling'[p] => ~ appRegistered'[p], Settled(p)',
         \A q \in AppProc \ {p} :
           /\ appProcess'[q] = appProcess[q] /\ amaster'[q] = amaster[q]
           /\ appRegistered'[q] = appRegistered[q] /\ appConnected'[q] = appConnected[q]
           /\ appScheduling'[q] = appScheduling[q] /\ lostAtApp'[q] = lostAtApp[q]
  PROVE  FollowInv'
<1> SUFFICES ASSUME NEW q \in AppProc
             PROVE  Settled(q)' /\ (appScheduling'[q] => ~ appRegistered'[q])
  BY DEF FollowInv
<1>1. CASE q = p
  BY <1>1
<1>2. CASE q # p
  BY <1>2 DEF FollowInv, Settled
<1> QED
  BY <1>1, <1>2

\* What changes at application p when it (re)starts the registration.
LEMMA TriesAgain ==
  ASSUME FollowInv, FollowFacts, NEW p \in AppProc, appRegisterWithMaster(p)
  PROVE  /\ appScheduling'[p] = TRUE /\ appRegistered'[p] = FALSE
         /\ \A q \in AppProc \ {p} : /\ appScheduling'[q] = appScheduling[q]
                                     /\ appRegistered'[q] = appRegistered[q]
<1>1. appScheduling[p] => ~ appRegistered[p]
  BY DEF FollowInv
<1>2. /\ appScheduling \in [AppProc -> BOOLEAN] /\ appRegistered \in [AppProc -> BOOLEAN]
      /\ appRegistered' = [appRegistered EXCEPT ![p] = appScheduling[p] /\ @]
      /\ appScheduling' = [appScheduling EXCEPT ![p] = TRUE]
  BY DEF FollowFacts, AppTypeOK, appRegisterWithMaster
<1> QED
  BY <1>1, <1>2

LEMMA FollowStart ==
  ASSUME FollowInv, FollowFacts, NEW p \in AppProc, AppStarting(p)
  PROVE  FollowInv'
<1>1. /\ appRegisterWithMaster(p) /\ appProcess' = [appProcess EXCEPT ![p] = "up"]
      /\ UNCHANGED <<amaster, appConnected, lostAtApp, toApp, epoch>>
  BY DEF AppStarting, StartApp, masterVars, memoryVars, channelVars, networkVars
<1>2. FromLeader'
  BY <1>1 DEF FollowInv, FromLeader
<1>3. \A q \in AppProc \ {p} : appProcess'[q] = appProcess[q]
  BY <1>1 DEF FollowFacts, AppTypeOK
<1>4. Settled(p)'
  BY <1>1, TriesAgain DEF Settled
<1> QED
  BY <1>1, <1>2, <1>3, <1>4, TriesAgain, OthersFollow

LEMMA FollowLoses ==
  ASSUME FollowInv, FollowFacts, NEW p \in AppProc, NEW e \in 1..MaxEpoch, AppLoses(p, e)
  PROVE  FollowInv'
<1>1. /\ lostAtApp' = [lostAtApp EXCEPT ![p] = @ \ {e}] /\ e \in lostAtApp[p]
      /\ UNCHANGED <<toApp, epoch>>
  BY DEF AppLoses, masterVars, memoryVars, channelVars
<1>2. FromLeader'
  BY <1>1 DEF FollowInv, FromLeader
<1>3. lostAtApp'[p] = lostAtApp[p] \ {e} /\ \A q \in AppProc \ {p} : lostAtApp'[q] = lostAtApp[q]
  BY <1>1 DEF FollowFacts
<1>4. CASE appMasterDisconnected(p)
  <2>1. /\ appConnected' = [appConnected EXCEPT ![p] = FALSE] /\ appRegisterWithMaster(p)
        /\ UNCHANGED <<appProcess, amaster>>
    BY <1>4 DEF appMasterDisconnected
  <2>2. Settled(p)'
    BY <2>1, TriesAgain DEF Settled
  <2>3. \A q \in AppProc \ {p} : appConnected'[q] = appConnected[q]
    BY <2>1 DEF FollowFacts, AppTypeOK
  <2> QED
    BY <1>1, <1>2, <1>3, <2>1, <2>2, <2>3, TriesAgain, OthersFollow
<1>5. CASE ~ Names(e, amaster[p]) /\ UNCHANGED appActorVars
  <2>1. UNCHANGED <<appProcess, amaster, appRegistered, appConnected, appScheduling>>
    BY <1>5 DEF appActorVars, appRegistrationVars
  <2>2. e # amaster[p]
    BY <1>5, InteractiveAssumption DEF Names
  <2>3. Settled(p)'
    BY <1>1, <1>3, <2>1, <2>2 DEF FollowInv, Settled
  <2> QED
    BY <1>1, <1>2, <1>3, <2>1, <2>3, OthersFollow DEF FollowInv
<1> QED
  BY <1>4, <1>5 DEF AppLoses

\* A process that ends needs no master.
LEMMA FollowEnd ==
  ASSUME FollowInv, FollowFacts, NEW p \in AppProc, appExit(p), FromLeader', epoch' = epoch,
         UNCHANGED <<amaster, appRegistered, appConnected, appScheduling, lostAtApp>>
  PROVE  FollowInv'
<1>1. appProcess'[p] = "exited" /\ \A q \in AppProc \ {p} : appProcess'[q] = appProcess[q]
  BY DEF appExit, FollowFacts, AppTypeOK
<1>2. Settled(p)'
  BY <1>1 DEF Settled
<1> QED
  BY <1>1, <1>2, OthersFollow DEF FollowInv

LEMMA FollowFails ==
  ASSUME FollowInv, FollowFacts, NEW p \in AppProc, BreakApp(p) \/ KillApp(p)
  PROVE  FollowInv'
<1>1. CASE BreakApp(p)
  <2>1. /\ toApp' = [toApp EXCEPT ![p] = <<>>]
        /\ lostAtApp' = [lostAtApp EXCEPT ![p] = @ \cup {epoch}]
        /\ UNCHANGED <<epoch, appProcess, amaster, appRegistered, appConnected, appScheduling>>
    BY <1>1 DEF BreakApp, memoryVars, appRegistrationVars
  <2>2. FromLeader'
    BY <2>1, LeaderHeard
  <2>3. lostAtApp[p] \subseteq lostAtApp'[p] /\ \A q \in AppProc \ {p} : lostAtApp'[q] = lostAtApp[q]
    BY <2>1 DEF FollowFacts
  <2>4. Settled(p)'
    BY <2>1, <2>3 DEF FollowInv, Settled
  <2> QED
    BY <2>1, <2>2, <2>3, <2>4, OthersFollow DEF FollowInv
<1>2. CASE KillApp(p)
  <2>1. /\ appExit(p)
        /\ UNCHANGED <<toApp, epoch, amaster, appRegistered, appConnected, appScheduling, lostAtApp>>
    BY <1>2 DEF KillApp, AppKilled, masterVars, memoryVars, channelVars, appRegistrationVars
  <2>2. FromLeader'
    BY <2>1 DEF FollowInv, FromLeader
  <2> QED
    BY <2>1, <2>2, FollowEnd
<1> QED
  BY <1>1, <1>2

LEMMA FollowRegisters ==
  ASSUME FollowInv, FollowFacts, NEW p \in AppProc, AppRegistering(p)
  PROVE  FollowInv'
<1>1. /\ appScheduling[p]
      /\ UNCHANGED <<toApp, epoch, amaster, appRegistered, appConnected, lostAtApp>>
  BY DEF AppRegistering, appTryRegister, AppExitNoticed, masterVars, memoryVars, channelVars
<1>2. ~ appRegistered[p]
  BY <1>1 DEF FollowInv
<1>3. FromLeader'
  BY <1>1 DEF FollowInv, FromLeader
<1>4. CASE UNCHANGED <<appProcess, appScheduling>>
  <2>1. Settled(p)'
    BY <1>1, <1>4 DEF FollowInv, Settled
  <2> QED
    BY <1>1, <1>2, <1>3, <1>4, <2>1, OthersFollow
<1>5. CASE appExit(p) /\ UNCHANGED appScheduling
  BY <1>1, <1>3, <1>5, FollowEnd
<1> QED
  BY <1>2, <1>4, <1>5 DEF AppRegistering, appTryRegister

\* The leader has answered application p, or told it that it leads.
LEMMA FollowChange ==
  ASSUME FollowInv, FollowFacts, NEW p \in AppProc, appChangeMaster(p, epoch), FromLeader',
         epoch' = epoch, UNCHANGED <<appProcess, lostAtApp>>,
         \A q \in AppProc \ {p} : appRegistered'[q] = appRegistered[q]
  PROVE  FollowInv'
<1>1. /\ amaster'[p] = epoch /\ appConnected'[p] = TRUE /\ appScheduling'[p] = FALSE
      /\ \A q \in AppProc \ {p} :
           /\ amaster'[q] = amaster[q] /\ appConnected'[q] = appConnected[q]
           /\ appScheduling'[q] = appScheduling[q]
  BY DEF appChangeMaster, FollowFacts, AppTypeOK
<1>2. Settled(p)'
  BY <1>1 DEF Settled
<1> QED
  BY <1>1, <1>2, OthersFollow

LEMMA FollowTold ==
  ASSUME FollowInv, FollowFacts, NEW p \in AppProc, DeliverToApp(p)
  PROVE  FollowInv'
<1> DEFINE m == Head(toApp[p])
<1>1. /\ toApp[p] # <<>> /\ toApp' = [toApp EXCEPT ![p] = Tail(@)]
      /\ UNCHANGED <<epoch, lostAtApp>>
      /\ \/ appProcess[p] = "up" /\ AppFromMaster(p, m)
         \/ UNCHANGED appActorVars
  BY DEF DeliverToApp, AppExitNoticed, memoryVars
<1>2. FromLeader'
  BY <1>1, LeaderHeard
<1>3. m.type \in {"RegisteredApplication", "MasterChanged"} => m.master = epoch
  <2>1. toApp[p] \in Seq(ToAppMsg)
    BY DEF FollowFacts
  <2>2. 1 \in 1..Len(toApp[p]) /\ m = toApp[p][1]
    BY <1>1, <2>1, EmptySeq, LenProperties
  <2> QED
    BY <2>2 DEF FollowInv, FromLeader
<1> HIDE DEF m
<1>4. CASE UNCHANGED appActorVars
  <2>1. AppsIdle
    BY <1>1, <1>4 DEF AppsIdle, appActorVars
  <2> QED
    BY <1>1, <1>2, <2>1, IdleFollow
<1>5. CASE m.type = "RegisteredApplication" /\ RegisteredApplication(p, m.master)
  <2>1. \A q \in AppProc \ {p} : appRegistered'[q] = appRegistered[q]
    BY <1>5 DEF RegisteredApplication, FollowFacts, AppTypeOK
  <2>2. appChangeMaster(p, epoch) /\ UNCHANGED appProcess
    BY <1>3, <1>5 DEF RegisteredApplication
  <2> QED
    BY <1>1, <1>2, <2>1, <2>2, FollowChange
<1>6. CASE m.type = "MasterChanged" /\ AppMasterChanged(p, m.master)
  <2>1. appChangeMaster(p, epoch) /\ UNCHANGED <<appProcess, appRegistered>>
    BY <1>3, <1>6 DEF AppMasterChanged
  <2> QED
    BY <1>1, <1>2, <2>1, FollowChange
<1>7. CASE RegisterApplicationFailed(p)
  <2>1. UNCHANGED appRegistrationVars
    BY <1>7 DEF RegisterApplicationFailed
  <2>2. CASE appExit(p)
    BY <1>1, <1>2, <2>1, <2>2, FollowEnd DEF appRegistrationVars
  <2>3. CASE UNCHANGED appProcess
    <3>1. AppsIdle
      BY <1>1, <2>1, <2>3 DEF AppsIdle
    <3> QED
      BY <1>1, <1>2, <3>1, IdleFollow
  <2> QED
    BY <1>7, <2>2, <2>3 DEF RegisterApplicationFailed
<1> QED
  BY <1>1, <1>4, <1>5, <1>6, <1>7 DEF AppFromMaster

LEMMA FollowHeard ==
  ASSUME FollowInv, FollowFacts, NEW p \in AppProc, DeliverFromApp(p)
  PROVE  FollowInv'
<1>1. AppsIdle /\ FromApplication(p, Head(fromApp[p]))
  BY DEF DeliverFromApp, AppsIdle, networkVars
<1>2. CASE UNCHANGED masterVars \/ ApplicationStateResponse(appDriver[p])
  <2>1. UNCHANGED <<toApp, epoch>>
    BY <1>2 DEF ApplicationStateResponse, masterVars, memoryVars, channelVars
  <2> QED
    BY <1>1, <2>1, SilentFollow
<1>3. CASE RegisterApplication(p)
  <2>1. epoch' = epoch
    BY <1>3, EpochStays
  <2>2. PICK m \in ToAppMsg :
          /\ toApp' = SendTo(toApp, p, m)
          /\ m.type \in {"RegisteredApplication", "MasterChanged"} => m.master = epoch
    <3>1. CASE RegisterApplicationAccepted(p)
      <4> DEFINE m == [type |-> "RegisteredApplication", master |-> epoch]
      <4>1. m \in ToAppMsg /\ m.master = epoch
        BY DEF ToAppMsg, FollowFacts
      <4>2. toApp' = SendTo(toApp, p, m)
        BY <3>1 DEF RegisterApplicationAccepted, AnswerApp
      <4> QED
        BY <4>1, <4>2
    <3>2. CASE RegisterApplicationRefused(p)
      <4> DEFINE m == [type |-> "RegisterApplicationFailed"]
      <4>1. m \in ToAppMsg /\ m.type \notin {"RegisteredApplication", "MasterChanged"}
        BY DEF ToAppMsg
      <4>2. toApp' = SendTo(toApp, p, m)
        BY <3>2 DEF RegisterApplicationRefused, AnswerApp
      <4> QED
        BY <4>1, <4>2
    <3>3. CASE RegisterApplicationInStandby(p)
      <4> DEFINE m == [type |-> "MasterInStandby"]
      <4>1. m \in ToAppMsg /\ m.type \notin {"RegisteredApplication", "MasterChanged"}
        BY DEF ToAppMsg
      <4>2. toApp' = SendTo(toApp, p, m)
        BY <3>3 DEF RegisterApplicationInStandby, AnswerApp
      <4> QED
        BY <4>1, <4>2
    <3> QED
      BY <1>3, <3>1, <3>2, <3>3 DEF RegisterApplication
  <2>3. toApp' = [q \in AppProc |-> IF q \in {p} THEN Append(toApp[q], m) ELSE toApp[q]]
    BY <2>2 DEF SendTo, FollowFacts
  <2>4. FromLeader'
    BY <2>1, <2>2, <2>3, LeaderSends
  <2> QED
    BY <1>1, <2>1, <2>4, IdleFollow
<1> QED
  BY <1>1, <1>2, <1>3 DEF FromApplication

\* A master that fails is noticed by whoever was content with it.
LEMMA FollowMasterFails ==
  ASSUME FollowInv, FollowFacts, MasterFails
  PROVE  FollowInv'
<1>1. /\ toApp' = [p \in AppProc |-> <<>>]
      /\ lostAtApp' = [p \in AppProc |->
           IF appProcess[p] = "up" THEN lostAtApp[p] \cup {epoch} ELSE lostAtApp[p]]
      /\ UNCHANGED <<appProcess, amaster, appRegistered, appConnected, appScheduling>>
  BY DEF MasterFails, ProcessExit, appRegistrationVars
<1>2. FromLeader'
  BY <1>1 DEF FromLeader
<1>3. ASSUME NEW p \in AppProc PROVE Settled(p)'
  BY <1>1 DEF FollowInv, Settled
<1> QED
  BY <1>1, <1>2, <1>3 DEF FollowInv

LEMMA FollowElected ==
  ASSUME FollowInv, FollowFacts, Elected
  PROVE  FollowInv'
<1>1. AppsIdle /\ ElectedLeader
  BY DEF Elected, MasterAlone, AppsIdle, appActorVars, networkVars
<1>2. epoch' = epoch
  BY <1>1, EpochStays
<1>3. CASE ElectedFresh
  BY <1>1, <1>2, <1>3, SilentFollow DEF ElectedFresh
<1>4. CASE beginRecovery
  <2>1. toApp' = [p \in AppProc |-> IF p \in storedApps THEN Append(toApp[p], Changed) ELSE toApp[p]]
    BY <1>4 DEF beginRecovery, recoverApps
  <2>2. Changed \in ToAppMsg /\ Changed.master = epoch
    BY DEF Changed, ToAppMsg, FollowFacts
  <2>3. FromLeader'
    BY <1>2, <2>1, <2>2, LeaderSends
  <2> QED
    BY <1>1, <1>2, <2>3, IdleFollow
<1> QED
  BY <1>1, <1>3, <1>4 DEF ElectedLeader

LEMMA FollowStep ==
  ASSUME FollowInv, FollowFacts, [GridNext]_vars
  PROVE  FollowInv'
<1>0. PersistedTypeOK
  BY DEF FollowFacts
<1> USE DEF networkVars, clientVars, appActorVars, AppsIdle
<1>1. ASSUME AppsIdle, epoch' = epoch, AppsShrink PROVE FollowInv'
  BY <1>1, SilentFollow DEF AppsShrink
<1>2. ASSUME AppsIdle, UNCHANGED masterVars \/ UNCHANGED <<memoryVars, toApp>> PROVE FollowInv'
  BY <1>2, SilentFollow DEF masterVars, memoryVars, channelVars
<1>3. CASE UNCHANGED vars
  BY <1>2, <1>3 DEF vars
<1>4. CASE MasterStep
  <2>1. CASE Elected
    BY <2>1, FollowElected
  <2>2. CASE Recovered
    BY <1>0, <1>1, <2>2, EpochStays, RemoveAllShrinks DEF Recovered, CompleteRecovery, MasterAlone
  <2>3. CASE ToItself
    BY <1>0, <1>1, <2>3, EpochStays, SelfMessageShrinks DEF ToItself, MasterAlone
  <2>4. CASE MasterFails
    BY <2>4, FollowMasterFails
  <2>5. ASSUME NEW a \in Addr, MasterLoses(a) PROVE FollowInv'
    <3>1. onDisconnected(a) /\ AppsIdle
      BY <2>5 DEF MasterLoses
    <3>2. AppsShrink
      BY <1>0, <3>1, RemoveAllShrinks DEF onDisconnected
    <3> QED
      BY <1>1, <3>1, <3>2, EpochStays
  <2> QED
    BY <1>4, <2>1, <2>2, <2>3, <2>4, <2>5 DEF MasterStep
<1>5. ASSUME NEW w \in WorkerId, WorkerStep(w) PROVE FollowInv'
  <2>1. CASE Ageing(w) \/ TimeOut(w)
    BY <1>0, <1>1, <2>1, EpochStays, WorkerMessageShrinks DEF Ageing, TimeOut, MasterAlone
  <2>2. CASE DeliverFromWorker(w)
    <3> DEFINE m == Head(toMaster[w])
    <3>1. FromWorker(w, m) /\ AppsIdle
      BY <2>2 DEF DeliverFromWorker
    <3>2. m \in FromWorkerMsg
      BY <2>2, Received DEF DeliverFromWorker, FollowFacts
    <3> HIDE DEF m
    <3>3. \/ WorkerMessage(w) \/ UNCHANGED masterVars
          \/ DriverStateChanged(m.id, m.state)
      BY <3>1, <3>2, FromWorkerFields DEF FromWorker, WorkerMessage
    <3>4. epoch' = epoch
      BY <3>3, EpochStays DEF WorkerMessage
    <3> QED
      BY <1>0, <1>1, <1>2, <3>1, <3>3, <3>4, WorkerMessageShrinks, DriverStateChangedShrinks
  <2>3. CASE DeliverToWorker(w) \/ Registering(w)
    BY <1>2, <2>3 DEF DeliverToWorker, Registering, ExitNoticed
  <2>4. CASE Starting(w) \/ Beating(w) \/ KillWorker(w) \/ \E e \in 1..MaxEpoch : WorkerLoses(w, e)
    BY <1>2, <2>4 DEF Starting, Beating, KillWorker, WorkerLoses, WorkerAlone
  <2>5. CASE BreakWorker(w)
    BY <1>2, <2>5 DEF BreakWorker
  <2> QED
    BY <1>5, <2>1, <2>2, <2>3, <2>4, <2>5 DEF WorkerStep
<1>6. ASSUME NEW o \in DriverObj, RunnerStep(o) PROVE FollowInv'
  BY <1>2, <1>6 DEF RunnerStep, RunnerStarting, SparkEnding, Reporting, WorkerAlone
<1>7. ASSUME NEW p \in AppProc, AppStep(p) PROVE FollowInv'
  BY <1>7, FollowHeard, FollowTold, FollowStart, FollowRegisters, FollowFails, FollowLoses DEF AppStep
<1>8. CASE ClientStep
  <2>1. ASSUME NEW c \in Client, Submit(c) PROVE FollowInv'
    BY <1>0, <1>1, <2>1, EpochStays, RequestShrinks DEF Submit
  <2>2. ASSUME NEW c \in Client, NEW d \in DriverId, AskStatus(c, d) PROVE FollowInv'
    BY <1>2, <2>2 DEF AskStatus
  <2>3. ASSUME NEW d \in DriverId, stopApplication(d) PROVE FollowInv'
    BY <1>0, <1>1, <2>3, EpochStays, RequestShrinks DEF stopApplication
  <2> QED
    BY <1>8, <2>1, <2>2, <2>3 DEF ClientStep
<1> QED
  BY <1>3, <1>4, <1>5, <1>6, <1>7, <1>8 DEF GridNext

\* An application that has stopped trying to register and has no broken connection left to
\* notice is connected to the leader, after any number of failovers and breaks and whatever
\* machines the masters run on.
THEOREM AppsFollow == GridSpec => []NoStrandedApp
<1>1. GridInit => FollowInv
  <2> SUFFICES ASSUME GridInit PROVE FollowInv
    OBVIOUS
  <2>1. /\ toApp = [p \in AppProc |-> <<>>] /\ appProcess = [p \in AppProc |-> "new"]
        /\ appScheduling = [p \in AppProc |-> FALSE]
    BY DEF GridInit, MasterInit, ChannelInit, AppInit
  <2> QED
    BY <2>1 DEF FollowInv, FromLeader, Settled
<1>2. FollowInv /\ GridInv /\ DriversInv /\ [GridNext]_vars => FollowInv'
  <2>1. GridInv /\ DriversInv => FollowFacts
    BY DEF GridInv, GridTypeOK, WorkerTypeOK, MasterTypeOK, ChannelTypeOK, DriversInv, MasterInv,
       FollowFacts
  <2> QED
    BY <2>1, FollowStep
<1>3. FollowInv => NoStrandedApp
  BY DEF FollowInv, Settled, NoStrandedApp
<1> QED
  BY <1>1, <1>2, <1>3, GridInvariant, GridMasterInvariant, PTL DEF GridSpec
=============================================================================
