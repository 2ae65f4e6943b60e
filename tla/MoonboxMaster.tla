--------------------------- MODULE MoonboxMaster ----------------------------
(***************************************************************************)
(* The MoonboxMaster actor: its memory (the indexes of workers, drivers    *)
(* and applications), the recovery data it keeps in ZooKeeper, and one     *)
(* action per message it handles.  The environment is open: any message    *)
(* may arrive at any time.  Module Grid composes these handlers with the   *)
(* workers and applications that send the messages.                        *)
(*                                                                         *)
(* At most one WorkerInfo object per id is in `workers', so `workers' and  *)
(* `idToWorker' are sets of ids and the fields of a WorkerInfo are         *)
(* functions on ids.  A DriverInfo may outlive the WorkerInfo it points    *)
(* to: when worker w registers again, the references to its old object     *)
(* stop being current.  Only the keys of WorkerInfo.drivers are used.      *)
(***************************************************************************)
EXTENDS DeployMessages

CONSTANTS
  RecoveryMode,  \* "ZOOKEEPER", or "NONE" for the black-hole engine
  BootApps,      \* the applications marked startOnBoot, in catalog order
  ReportedState, \* the driver states the workers report
  MaxEpoch       \* bound: incarnations of the master process

ASSUME MasterAssumption ==
  /\ RecoveryMode \in {"ZOOKEEPER", "NONE"}
  /\ BootApps \in Seq(DriverId)
  /\ ReportedState \subseteq DriverState
  /\ MaxEpoch \in Nat

VARIABLES
  epoch,            \* the incarnation of the master process
  state,            \* RecoveryState; COMPLETING_RECOVERY never outlives a step
  workers, wstate, lastHeartbeat, wdrivers,
  idToWorker, addressToWorker,
  drivers, waitingDrivers, completedDrivers, dstate, dworker,
  submitted,        \* DriverInfo objects created so far, per driver id
  apps, astate, idToApp, addressToApp,
  pdrivers, pworkers, papps   \* the nodes under the ZooKeeper directory

workerVars == <<workers, wstate, lastHeartbeat, wdrivers, idToWorker, addressToWorker>>
driverVars == <<drivers, waitingDrivers, completedDrivers, dstate, dworker>>
appVars == <<apps, astate, idToApp, addressToApp>>
persistedVars == <<pdrivers, pworkers, papps>>
memoryVars == <<epoch, state, workerVars, driverVars, submitted, appVars, persistedVars>>
masterVars == <<memoryVars, channelVars>>

WorkerRef == [id : WorkerId, current : BOOLEAN]
Ref(w) == [id |-> w, current |-> TRUE]
Replaced(w) == [id |-> w, current |-> FALSE]

\* Age of a worker's lastHeartbeat: below WORKER_TIMEOUT, above it, above 15 times it.
Fresh == 0
TimedOut == 1
Ancient == 2

Zk == RecoveryMode = "ZOOKEEPER"

WorkersTypeOK ==
  /\ workers \subseteq WorkerId
  /\ wstate \in [WorkerId -> {"ALIVE", "DEAD", "UNKNOWN"}]
  /\ lastHeartbeat \in [WorkerId -> Fresh..Ancient]
  /\ wdrivers \in [WorkerId -> SUBSET DriverId]
  /\ idToWorker \subseteq WorkerId
  /\ addressToWorker \in [Addr -> WorkerId \cup {None}]

DriversTypeOK ==
  /\ drivers \subseteq DriverObj
  /\ waitingDrivers \in Seq(DriverObj)
  /\ completedDrivers \subseteq DriverObj
  /\ dstate \in [DriverObj -> DriverState]
  /\ dworker \in [DriverObj -> WorkerRef \cup {None}]
  /\ submitted \in [DriverId -> 0..MaxSubmit]

AppsTypeOK ==
  /\ apps \subseteq AppProc
  /\ astate \in [AppProc -> {"RUNNING", "UNKNOWN"}]
  /\ idToApp \in [DriverId -> AppProc \cup {None}]
  /\ addressToApp \in [Addr -> AppProc \cup {None}]

PersistedTypeOK ==
  /\ pdrivers \in [DriverId -> DriverObj \cup {None}]
  /\ pworkers \subseteq WorkerId
  /\ papps \in [DriverId -> AppProc \cup {None}]

\* The type invariant: what each field of the master, each stored node and each channel
\* holds.
MasterTypeOK ==
  /\ epoch \in Nat
  /\ state \in {"STANDBY", "RECOVERING", "ACTIVE"}
  /\ WorkersTypeOK
  /\ DriversTypeOK
  /\ AppsTypeOK
  /\ PersistedTypeOK
  /\ ChannelTypeOK

-----------------------------------------------------------------------------
(* Memory of a master that has just been constructed.                      *)

EmptyMemory ==
  /\ state = "STANDBY"
  /\ workers = {} /\ idToWorker = {}
  /\ wstate = [w \in WorkerId |-> "DEAD"]
  /\ lastHeartbeat = [w \in WorkerId |-> Fresh]
  /\ wdrivers = [w \in WorkerId |-> {}]
  /\ addressToWorker = [a \in Addr |-> None]
  /\ drivers = {} /\ waitingDrivers = <<>> /\ completedDrivers = {}
  /\ dstate = [o \in DriverObj |-> "WAITING"]
  /\ dworker = [o \in DriverObj |-> None]
  /\ apps = {}
  /\ astate = [p \in AppProc |-> "RUNNING"]
  /\ idToApp = [d \in DriverId |-> None]
  /\ addressToApp = [a \in Addr |-> None]

\* The same as the outcome of a step.
ForgetMemory ==
  /\ state' = "STANDBY"
  /\ workers' = {} /\ idToWorker' = {}
  /\ wstate' = [w \in WorkerId |-> "DEAD"]
  /\ lastHeartbeat' = [w \in WorkerId |-> Fresh]
  /\ wdrivers' = [w \in WorkerId |-> {}]
  /\ addressToWorker' = [a \in Addr |-> None]
  /\ drivers' = {} /\ waitingDrivers' = <<>> /\ completedDrivers' = {}
  /\ dstate' = [o \in DriverObj |-> "WAITING"]
  /\ dworker' = [o \in DriverObj |-> None]
  /\ apps' = {}
  /\ astate' = [p \in AppProc |-> "RUNNING"]
  /\ idToApp' = [d \in DriverId |-> None]
  /\ addressToApp' = [a \in Addr |-> None]

MasterInit ==
  /\ epoch = 1
  /\ EmptyMemory
  /\ submitted = [d \in DriverId |-> 0]
  /\ pdrivers = [d \in DriverId |-> None]
  /\ pworkers = {}
  /\ papps = [d \in DriverId |-> None]
  /\ ChannelInit

\* An exception leaves the handler: the supervisor restarts the actor, which keeps its
\* mailbox and reference but not its fields.  pd is what ZooKeeper holds by then.  (The
\* callers say what becomes of toSelf, which is part of the mailbox.)
RestartActor(pd) ==
  /\ ForgetMemory
  /\ pdrivers' = pd
  /\ UNCHANGED <<epoch, submitted, pworkers, papps, toWorker, toApp>>

\* The process ends, by failure or because leadership was revoked.  A later incarnation
\* finds what was persisted.  What the process had sent has arrived before, or is lost.
ProcessExit ==
  /\ epoch < MaxEpoch
  /\ ForgetMemory
  /\ epoch' = epoch + 1
  /\ toWorker' = [w \in WorkerId |-> <<>>]
  /\ toApp' = [p \in AppProc |-> <<>>]
  /\ toSelf' = <<>>
  /\ UNCHANGED <<submitted, persistedVars>>

-----------------------------------------------------------------------------
(* schedule                                                                *)

\* Random.shuffle of the ALIVE workers.
Shuffles(S) ==
  {p \in [1..Cardinality(S) -> S] : \A x \in S : \E i \in DOMAIN p : p[i] = x}

\* Round robin over the shuffled workers: the driver at position i of `waiting' goes to
\* place (i - 1) % k + 1.
Place(i, k) == ((i - 1) % k) + 1

\* The LaunchDriver messages for the worker at place c of k, in waiting order.
Launches(waiting, c, k) ==
  [j \in 1..((Len(waiting) + k - c) \div k) |->
     [type |-> "LaunchDriver", driver |-> waiting[c + (j - 1) * k]]]

\* The workers schedule() sees, at the end of a handler.
AliveBefore == {w \in workers : wstate[w] = "ALIVE"}
AliveNow == {w \in workers' : wstate'[w] = "ALIVE"}

\* schedule(), run at the end of a handler if it is `called', on the intermediate values
\* ds, dw, wd and net of dstate, dworker, wdrivers and toWorker.  It reads the new values
\* of state, workers and wstate.  A handler that calls it several times (once per driver
\* it removes) is modelled with one call: nothing in such a loop adds a waiting driver.
Schedule(called, waiting, ds, dw, wd, net) ==
  LET alive == AliveNow
      k == Cardinality(alive)
  IN  IF called /\ state' = "ACTIVE" /\ alive # {}
      THEN \E order \in Shuffles(alive) :
             /\ waitingDrivers' = <<>>
             /\ dstate' = [o \in DriverObj |->
                  IF \E i \in 1..Len(waiting) : waiting[i] = o THEN "SUBMITTING" ELSE ds[o]]
             /\ dworker' = [o \in DriverObj |->
                  IF \E i \in 1..Len(waiting) : waiting[i] = o
                  THEN Ref(order[Place(CHOOSE i \in 1..Len(waiting) : waiting[i] = o, k)])
                  ELSE dw[o]]
             /\ wdrivers' = [w \in WorkerId |->
                  wd[w] \cup {waiting[i].id : i \in {j \in 1..Len(waiting) : order[Place(j, k)] = w}}]
             /\ toWorker' = [w \in WorkerId |->
                  IF w \in alive
                  THEN net[w] \o Launches(waiting, CHOOSE c \in 1..k : order[c] = w, k)
                  ELSE net[w]]
      ELSE /\ waitingDrivers' = waiting
           /\ dstate' = ds /\ dworker' = dw /\ wdrivers' = wd /\ toWorker' = net

-----------------------------------------------------------------------------
(* removeDriver, removeWorker, removeApplication                           *)

\* The candidates of drivers.find(_.id == d): a hash set, so any of them may be found.
Named(d) == {o \in drivers : o.id = d}

\* A variant that leaves the drivers of a removed worker alone.
FoundNone(ids) == {{}}

\* What removing one driver per id in ids may remove.
Found(ids) ==
  {g \in SUBSET {o \in drivers : o.id \in ids} :
     \A d \in ids : Named(d) # {} => \E o \in Named(d) : g \cap Named(d) = {o}}

\* Deleting a ZooKeeper node that does not exist throws.
NoNode(gone) == Zk /\ \E o \in gone : pdrivers[o.id] = None

\* The exception ends the loop over the drivers of a worker: the nodes of some of the
\* drivers before it are deleted already.
RemovalThrows(gone) ==
  /\ UNCHANGED toSelf
  /\ \E done \in SUBSET {o.id : o \in gone} :
       /\ \A d \in done : pdrivers[d] # None
       /\ RestartActor([d \in DriverId |-> IF d \in done THEN None ELSE pdrivers[d]])

dstateAfter(gone, st) == [o \in DriverObj |-> IF o \in gone THEN st ELSE dstate[o]]

wdriversAfter(gone) ==
  [w \in WorkerId |-> wdrivers[w] \ {o.id : o \in {x \in gone : dworker[x] = Ref(w)}}]

\* A variant that forgets persistenceEngine.removeDriver.
RemoveDriversUnpersisted(gone) ==
  /\ drivers' = drivers \ gone
  /\ completedDrivers' = completedDrivers \cup gone
  /\ UNCHANGED pdrivers

\* removeDriver for each object in gone, but for what it does to dstate and wdrivers.
RemoveDrivers(gone) ==
  /\ drivers' = drivers \ gone
  /\ completedDrivers' = completedDrivers \cup gone
  /\ pdrivers' = [d \in DriverId |-> IF \E o \in gone : o.id = d THEN None ELSE pdrivers[d]]

\* The worker indexes once removeWorker has run for each worker of R.
wstateAfter(R) == [w \in WorkerId |-> IF w \in R THEN "DEAD" ELSE wstate[w]]
addressKept(R) == addressToWorker  \* a variant that forgets addressToWorker
addressAfter(R) ==
  [a \in Addr |-> IF \E w \in R : workerAddress[w] = a THEN None ELSE addressToWorker[a]]

\* A variant that forgets addressToApp.
RemoveApplicationsKeptAddress(A) ==
  /\ apps' = apps \ A
  /\ idToApp' = [d \in DriverId |-> IF \E p \in A : appDriver[p] = d THEN None ELSE idToApp[d]]
  /\ papps' = [d \in DriverId |-> IF \E p \in A : appDriver[p] = d THEN None ELSE papps[d]]
  /\ UNCHANGED <<astate, addressToApp>>

\* A variant that forgets persistenceEngine.removeApplication.
RemoveApplicationsKeptNode(A) ==
  /\ apps' = apps \ A
  /\ idToApp' = [d \in DriverId |-> IF \E p \in A : appDriver[p] = d THEN None ELSE idToApp[d]]
  /\ addressToApp' = [a \in Addr |-> IF \E p \in A : appAddress[p] = a THEN None ELSE addressToApp[a]]
  /\ UNCHANGED <<astate, papps>>

\* removeApplication for each application of A.
RemoveApplications(A) ==
  /\ apps' = apps \ A
  /\ idToApp' = [d \in DriverId |-> IF \E p \in A : appDriver[p] = d THEN None ELSE idToApp[d]]
  /\ addressToApp' = [a \in Addr |-> IF \E p \in A : appAddress[p] = a THEN None ELSE addressToApp[a]]
  /\ papps' = [d \in DriverId |-> IF \E p \in A : appDriver[p] = d THEN None ELSE papps[d]]
  /\ UNCHANGED astate

\* removeWorker for each worker of R and removeApplication for each application of A.
\* The master becomes newState, and the handler ends with schedule() if it is recovering
\* no more; removeDriver calls it as well.
RemoveAll(R, A, newState) ==
  \E gone \in Found(UNION {wdrivers[w] : w \in R}) :
    IF NoNode(gone)
    THEN RemovalThrows(gone)
    ELSE /\ state' = newState
         /\ wstate' = wstateAfter(R)
         /\ idToWorker' = idToWorker \ R
         /\ addressToWorker' = addressAfter(R)
         /\ pworkers' = pworkers \ R
         /\ RemoveDrivers(gone)
         /\ RemoveApplications(A)
         /\ UNCHANGED <<epoch, workers, lastHeartbeat, submitted, toApp, toSelf>>
         /\ Schedule(gone # {} \/ newState # state, waitingDrivers,
                     dstateAfter(gone, "ERROR"), dworker, wdriversAfter(gone), toWorker)

-----------------------------------------------------------------------------
(* Election and recovery                                                   *)

\* A variant that does not wait for the applications.
workersRecovered(ws, wst, as, ast) == \A w \in ws : wst[w] # "UNKNOWN"

canCompleteRecovery(ws, wst, as, ast) ==
  /\ \A w \in ws : wst[w] # "UNKNOWN"
  /\ \A p \in as : ast[p] # "UNKNOWN"

\* Nothing is stored: the master is active at once and submits the boot applications.
ElectedFresh ==
  /\ state' = "ACTIVE"
  /\ toSelf' = toSelf \o
       [i \in 1..Len(BootApps) |-> [type |-> "RequestSubmitDriver", id |-> BootApps[i]]]
  /\ UNCHANGED <<epoch, workerVars, driverVars, submitted, appVars, persistedVars,
                 toWorker, toApp>>

storedDrivers == {pdrivers[d] : d \in DriverId} \ {None}
storedApps == {papps[d] : d \in DriverId} \ {None}
Changed == [type |-> "MasterChanged", master |-> epoch]

\* The stored workers are registered as UNKNOWN and told of the new master.  Stored workers
\* have distinct addresses (PersistedMatchesRegistered), so each address has one of them.
recoverWorkers ==
  /\ workers' = workers \cup pworkers
  /\ wstate' = [w \in WorkerId |-> IF w \in pworkers THEN "UNKNOWN" ELSE wstate[w]]
  /\ lastHeartbeat' = [w \in WorkerId |-> IF w \in pworkers THEN Fresh ELSE lastHeartbeat[w]]
  /\ wdrivers' = [w \in WorkerId |-> IF w \in pworkers THEN {} ELSE wdrivers[w]]
  /\ idToWorker' = idToWorker \cup pworkers
  /\ addressToWorker' = [a \in Addr |->
       IF \E w \in pworkers : workerAddress[w] = a
       THEN CHOOSE w \in pworkers : workerAddress[w] = a
       ELSE addressToWorker[a]]
  /\ toWorker' = [w \in WorkerId |->
       IF w \in pworkers THEN Append(toWorker[w], Changed) ELSE toWorker[w]]

\* A variant that queues the stored drivers for schedule().
recoverDriversWaiting ==
  /\ \E order \in Shuffles(storedDrivers) : waitingDrivers' = waitingDrivers \o order
  /\ drivers' = drivers \cup storedDrivers
  /\ dstate' = [o \in DriverObj |-> IF o \in storedDrivers THEN "WAITING" ELSE dstate[o]]
  /\ dworker' = [o \in DriverObj |-> IF o \in storedDrivers THEN None ELSE dworker[o]]
  /\ UNCHANGED completedDrivers

\* The stored drivers are new objects, WAITING, that are in `drivers' only.
recoverDrivers ==
  /\ drivers' = drivers \cup storedDrivers
  /\ dstate' = [o \in DriverObj |-> IF o \in storedDrivers THEN "WAITING" ELSE dstate[o]]
  /\ dworker' = [o \in DriverObj |-> IF o \in storedDrivers THEN None ELSE dworker[o]]
  /\ UNCHANGED <<waitingDrivers, completedDrivers>>

\* The stored applications, as the workers.
recoverApps ==
  /\ apps' = apps \cup storedApps
  /\ astate' = [p \in AppProc |-> IF p \in storedApps THEN "UNKNOWN" ELSE astate[p]]
  /\ idToApp' = [d \in DriverId |-> IF papps[d] # None THEN papps[d] ELSE idToApp[d]]
  /\ addressToApp' = [a \in Addr |->
       IF \E p \in storedApps : appAddress[p] = a
       THEN CHOOSE p \in storedApps : appAddress[p] = a
       ELSE addressToApp[a]]
  /\ toApp' = [p \in AppProc |->
       IF p \in storedApps THEN Append(toApp[p], Changed) ELSE toApp[p]]

beginRecovery ==
  /\ state' = "RECOVERING"
  /\ recoverWorkers
  /\ recoverDrivers
  /\ recoverApps
  /\ UNCHANGED <<epoch, submitted, persistedVars, toSelf>>

\* The election agent tells an incarnation once that it leads.
ElectedLeader ==
  /\ state = "STANDBY"
  /\ IF /\ \A d \in DriverId : pdrivers[d] = None /\ papps[d] = None
        /\ pworkers = {}
     THEN ElectedFresh
     ELSE beginRecovery

\* The message scheduled WORKER_TIMEOUT after beginRecovery; completeRecovery returns at
\* once if the master is not recovering.
CompleteRecovery ==
  /\ state = "RECOVERING"
  /\ RemoveAll({w \in workers : wstate[w] = "UNKNOWN"},
               {p \in apps : astate[p] = "UNKNOWN"}, "ACTIVE")

-----------------------------------------------------------------------------
(* Workers                                                                 *)

DeadAt(a) == {v \in workers : workerAddress[v] = a /\ wstate[v] = "DEAD"}

Answer(w, m) == toWorker' = SendTo(toWorker, w, m)

RegisterWorkerInStandby(w) ==
  /\ state = "STANDBY"
  /\ Answer(w, [type |-> "MasterInStandby"])
  /\ UNCHANGED <<memoryVars, toApp, toSelf>>

RegisterWorkerDuplicate(w) ==
  /\ state # "STANDBY"
  /\ w \in idToWorker
  /\ Answer(w, [type |-> "RegisterWorkerFailed"])
  /\ UNCHANGED <<memoryVars, toApp, toSelf>>

\* registerWorker drops the DEAD workers of the address before it refuses.
RegisterWorkerAddressInUse(w) ==
  LET a == workerAddress[w]
  IN  /\ state # "STANDBY"
      /\ w \notin idToWorker
      /\ addressToWorker[a] # None
      /\ wstate[addressToWorker[a]] # "UNKNOWN"
      /\ workers' = workers \ DeadAt(a)
      /\ Answer(w, [type |-> "RegisterWorkerFailed"])
      /\ UNCHANGED <<epoch, state, wstate, lastHeartbeat, wdrivers, idToWorker,
                     addressToWorker, driverVars, submitted, appVars, persistedVars,
                     toApp, toSelf>>

\* A recovered worker that still holds the address is removed first.
RegisterWorkerAccepted(w) ==
  LET a == workerAddress[w]
      old == {addressToWorker[a]} \ {None}
  IN  /\ state # "STANDBY"
      /\ w \notin idToWorker
      /\ \A v \in old : wstate[v] = "UNKNOWN"
      /\ \E gone \in Found(UNION {wdrivers[v] : v \in old}) :
           IF NoNode(gone)
           THEN RemovalThrows(gone)
           ELSE /\ workers' = (workers \ DeadAt(a)) \cup {w}
                /\ wstate' = [wstateAfter(old) EXCEPT ![w] = "ALIVE"]
                /\ lastHeartbeat' = [lastHeartbeat EXCEPT ![w] = Fresh]
                /\ idToWorker' = (idToWorker \ old) \cup {w}
                /\ addressToWorker' = [addressToWorker EXCEPT ![a] = w]
                /\ pworkers' = IF Zk THEN (pworkers \ old) \cup {w} ELSE pworkers
                /\ RemoveDrivers(gone)
                /\ UNCHANGED <<epoch, state, submitted, appVars, papps, toApp, toSelf>>
                /\ Schedule(TRUE, waitingDrivers, dstateAfter(gone, "ERROR"),
                            [o \in DriverObj |->
                               IF dworker[o] = Ref(w) THEN Replaced(w) ELSE dworker[o]],
                            [wdriversAfter(gone) EXCEPT ![w] = {}],
                            SendTo(toWorker, w, [type |-> "RegisteredWorker", master |-> epoch]))

RegisterWorker(w) ==
  \/ RegisterWorkerInStandby(w)
  \/ RegisterWorkerDuplicate(w)
  \/ RegisterWorkerAddressInUse(w)
  \/ RegisterWorkerAccepted(w)

\* A variant that ignores the heartbeats of every worker that is not registered.
HeartbeatIgnored(w) ==
  /\ lastHeartbeat' = [v \in WorkerId |-> IF v = w /\ w \in idToWorker THEN Fresh ELSE lastHeartbeat[v]]
  /\ UNCHANGED <<epoch, state, workers, wstate, wdrivers, idToWorker, addressToWorker,
                 driverVars, submitted, appVars, persistedVars, channelVars>>

Heartbeat(w) ==
  \/ /\ w \in idToWorker
     /\ lastHeartbeat' = [lastHeartbeat EXCEPT ![w] = Fresh]
     /\ UNCHANGED <<epoch, state, workers, wstate, wdrivers, idToWorker, addressToWorker,
                    driverVars, submitted, appVars, persistedVars, channelVars>>
  \/ /\ w \in workers \ idToWorker
     /\ Answer(w, [type |-> "ReconnectWorker", master |-> epoch])
     /\ UNCHANGED <<memoryVars, toApp, toSelf>>
  \/ /\ w \notin workers \cup idToWorker
     /\ UNCHANGED masterVars

\* The answer to MasterChanged: worker w runs the drivers ids.
WorkerSchedulerStateResponse(w, ids) ==
  \E found \in Found(IF w \in idToWorker THEN ids ELSE {}) :
    /\ wstate' = [v \in WorkerId |-> IF v = w /\ w \in idToWorker THEN "ALIVE" ELSE wstate[v]]
    /\ state' = IF state = "RECOVERING" /\ canCompleteRecovery(workers, wstate', apps, astate)
                THEN "ACTIVE" ELSE state
    /\ UNCHANGED <<epoch, workers, lastHeartbeat, idToWorker, addressToWorker, drivers,
                   completedDrivers, submitted, appVars, persistedVars, toApp, toSelf>>
    /\ Schedule(state' # state, waitingDrivers, dstateAfter(found, "RUNNING"),
                [o \in DriverObj |-> IF o \in found THEN Ref(w) ELSE dworker[o]],
                [wdrivers EXCEPT ![w] = @ \cup {o.id : o \in found}], toWorker)

\* What a worker runs when its registration has succeeded: drivers the master did not
\* place there are to be killed.
WorkerLatestState(w, ids) ==
  /\ \/ /\ w \in idToWorker
        /\ \E order \in Shuffles(ids \ wdrivers[w]) :
             toWorker' = [toWorker EXCEPT ![w] = @ \o
               [i \in 1..Len(order) |-> [type |-> "KillDriver", id |-> order[i]]]]
     \/ /\ w \notin idToWorker
        /\ UNCHANGED toWorker
  /\ UNCHANGED <<memoryVars, toApp, toSelf>>

\* The age of a worker's last heartbeat passes WORKER_TIMEOUT, then 15 times it.
TimePasses(w) ==
  /\ w \in workers
  /\ lastHeartbeat[w] < Ancient
  /\ lastHeartbeat' = [lastHeartbeat EXCEPT ![w] = @ + 1]
  /\ UNCHANGED <<epoch, state, workers, wstate, wdrivers, idToWorker, addressToWorker,
                 driverVars, submitted, appVars, persistedVars, channelVars>>

\* timeOutDeadWorkers for one worker; one that finds two of them late is two steps.
CheckForWorkerTimeOut(w) ==
  /\ w \in workers
  /\ \/ /\ lastHeartbeat[w] >= TimedOut
        /\ wstate[w] # "DEAD"
        /\ RemoveAll({w}, {}, state)
     \/ /\ lastHeartbeat[w] = Ancient
        /\ wstate[w] = "DEAD"
        /\ workers' = workers \ {w}
        /\ UNCHANGED <<epoch, state, wstate, lastHeartbeat, wdrivers, idToWorker,
                       addressToWorker, driverVars, submitted, appVars, persistedVars,
                       channelVars>>

-----------------------------------------------------------------------------
(* Applications                                                            *)

AnswerApp(p, m) == toApp' = SendTo(toApp, p, m)

RegisterApplicationInStandby(p) ==
  /\ state = "STANDBY"
  /\ AnswerApp(p, [type |-> "MasterInStandby"])
  /\ UNCHANGED <<memoryVars, toWorker, toSelf>>

\* The id, or the address, is registered already.
RegisterApplicationRefused(p) ==
  /\ state # "STANDBY"
  /\ idToApp[appDriver[p]] # None \/ addressToApp[appAddress[p]] # None
  /\ AnswerApp(p, [type |-> "RegisterApplicationFailed"])
  /\ UNCHANGED <<memoryVars, toWorker, toSelf>>

RegisterApplicationAccepted(p) ==
  /\ state # "STANDBY"
  /\ idToApp[appDriver[p]] = None /\ addressToApp[appAddress[p]] = None
  /\ apps' = apps \cup {p}
  /\ astate' = [astate EXCEPT ![p] = "RUNNING"]
  /\ idToApp' = [idToApp EXCEPT ![appDriver[p]] = p]
  /\ addressToApp' = [addressToApp EXCEPT ![appAddress[p]] = p]
  /\ papps' = IF Zk THEN [papps EXCEPT ![appDriver[p]] = p] ELSE papps
  /\ AnswerApp(p, [type |-> "RegisteredApplication", master |-> epoch])
  /\ UNCHANGED <<epoch, state, workerVars, driverVars, submitted, pdrivers, pworkers,
                 toWorker, toSelf>>

RegisterApplication(p) ==
  \/ RegisterApplicationInStandby(p)
  \/ RegisterApplicationRefused(p)
  \/ RegisterApplicationAccepted(p)

\* A variant that mistakes the state of an application for that of a worker.
ApplicationAlive(d) ==
  /\ astate' = [p \in AppProc |-> IF p = idToApp[d] THEN "ALIVE" ELSE astate[p]]
  /\ UNCHANGED <<epoch, state, workerVars, driverVars, submitted, apps, idToApp, addressToApp,
                 persistedVars, channelVars>>

\* The answer of application d to MasterChanged.
ApplicationStateResponse(d) ==
  /\ astate' = [p \in AppProc |-> IF p = idToApp[d] THEN "RUNNING" ELSE astate[p]]
  /\ state' = IF state = "RECOVERING" /\ canCompleteRecovery(workers, wstate, apps, astate')
              THEN "ACTIVE" ELSE state
  /\ UNCHANGED <<epoch, workers, wstate, lastHeartbeat, idToWorker, addressToWorker, drivers,
                 completedDrivers, submitted, apps, idToApp, addressToApp, persistedVars,
                 toApp, toSelf>>
  /\ Schedule(state' # state, waitingDrivers, dstate, dworker, wdrivers, toWorker)

-----------------------------------------------------------------------------
(* Disconnection                                                           *)

\* A variant that only looks among the workers.
workerDisconnected(a) ==
  LET R == {addressToWorker[a]} \ {None}
      left == canCompleteRecovery(workers, wstateAfter(R), apps, astate)
  IN  RemoveAll(R, {}, IF state = "RECOVERING" /\ left THEN "ACTIVE" ELSE state)

onDisconnected(a) ==
  LET R == {addressToWorker[a]} \ {None}
      A == {addressToApp[a]} \ {None}
      left == canCompleteRecovery(workers, wstateAfter(R), apps \ A, astate)
  IN  RemoveAll(R, A, IF state = "RECOVERING" /\ left THEN "ACTIVE" ELSE state)

-----------------------------------------------------------------------------
(* Drivers                                                                 *)

\* No check that driver id d is new.
RequestSubmitDriver(d) ==
  \/ /\ state = "ACTIVE"
     /\ submitted[d] < MaxSubmit
     /\ LET o == [id |-> d, seq |-> submitted[d] + 1]
        IN  /\ submitted' = [submitted EXCEPT ![d] = @ + 1]
            /\ pdrivers' = IF Zk THEN [pdrivers EXCEPT ![d] = o] ELSE pdrivers
            /\ drivers' = drivers \cup {o}
            /\ UNCHANGED <<epoch, state, workers, wstate, lastHeartbeat, idToWorker,
                           addressToWorker, completedDrivers, appVars, pworkers, papps,
                           toApp>>
            /\ Schedule(TRUE, Append(waitingDrivers, o), dstate, dworker, wdrivers, toWorker)
  \/ /\ state # "ACTIVE"
     /\ UNCHANGED <<memoryVars, toWorker, toApp>>

RequestKillDriver(d) ==
  /\ \/ /\ state = "ACTIVE"
        /\ \E o \in Named(d) :
             \/ \E i \in 1..Len(waitingDrivers) :
                  /\ waitingDrivers[i] = o
                  /\ waitingDrivers' =
                       [j \in 1..(Len(waitingDrivers) - 1) |->
                          IF j < i THEN waitingDrivers[j] ELSE waitingDrivers[j + 1]]
                  /\ toSelf' = Append(toSelf, [type |-> "KilledWhileWaiting", id |-> d])
                  /\ UNCHANGED toWorker
             \/ /\ \A i \in 1..Len(waitingDrivers) : waitingDrivers[i] # o
                /\ toWorker' = IF dworker[o] = None THEN toWorker
                               ELSE SendTo(toWorker, dworker[o].id, [type |-> "KillDriver", id |-> d])
                /\ UNCHANGED <<waitingDrivers, toSelf>>
     \/ /\ state # "ACTIVE" \/ Named(d) = {}
        /\ UNCHANGED <<waitingDrivers, toSelf, toWorker>>
  /\ UNCHANGED <<epoch, state, workerVars, drivers, completedDrivers, dstate, dworker,
                 submitted, appVars, persistedVars, toApp>>

\* The states RequestDriverStatus may answer for d: the object found may be finished
\* although another one with the same id is not.  {} stands for "not found".
DriverStatus(d) ==
  IF state = "ACTIVE" THEN {dstate[o] : o \in {x \in drivers \cup completedDrivers : x.id = d}}
  ELSE {}

removeDriver(d, st) ==
  \/ \E o \in Named(d) :
       IF NoNode({o})
       THEN RestartActor(pdrivers)
       ELSE /\ RemoveDrivers({o})
            /\ UNCHANGED <<epoch, state, workers, wstate, lastHeartbeat, idToWorker,
                           addressToWorker, submitted, appVars, pworkers, papps, toApp>>
            /\ Schedule(TRUE, waitingDrivers, dstateAfter({o}, st), dworker,
                        wdriversAfter({o}), toWorker)
  \/ /\ Named(d) = {}
     /\ UNCHANGED <<memoryVars, toWorker, toApp>>

DriverStateChanged(d, st) ==
  \/ /\ isFinished(st)
     /\ removeDriver(d, st)
  \/ /\ ~ isFinished(st)
     /\ \/ \E o \in Named(d) : dstate' = [dstate EXCEPT ![o] = st]
        \/ Named(d) = {} /\ UNCHANGED dstate
     /\ UNCHANGED <<epoch, state, workerVars, drivers, waitingDrivers, completedDrivers,
                    dworker, submitted, appVars, persistedVars, toWorker, toApp>>

-----------------------------------------------------------------------------
\* The master takes the next message it sent to itself.
SelfMessage ==
  /\ toSelf # <<>>
  /\ toSelf' = Tail(toSelf)
  /\ \/ /\ Head(toSelf).type = "RequestSubmitDriver"
        /\ RequestSubmitDriver(Head(toSelf).id)
     \/ /\ Head(toSelf).type = "KilledWhileWaiting"
        /\ DriverStateChanged(Head(toSelf).id, "KILLED")

\* The network or the receiver takes messages off a channel.
MessagesTaken ==
  /\ \/ /\ \E w \in WorkerId : \E i, j \in 0..Len(toWorker[w]) :
             toWorker' = [toWorker EXCEPT ![w] = SubSeq(@, i + 1, j)]
        /\ UNCHANGED toApp
     \/ /\ \E p \in AppProc : \E i, j \in 0..Len(toApp[p]) :
             toApp' = [toApp EXCEPT ![p] = SubSeq(@, i + 1, j)]
        /\ UNCHANGED toWorker
  /\ UNCHANGED <<memoryVars, toSelf>>

WorkerMessage(w) ==
  \/ RegisterWorker(w)
  \/ Heartbeat(w)
  \/ \E ids \in SUBSET DriverId : WorkerSchedulerStateResponse(w, ids)
  \/ \E ids \in SUBSET DriverId : WorkerLatestState(w, ids)

DriverMessage(d) ==
  \/ RequestSubmitDriver(d) /\ UNCHANGED toSelf
  \/ RequestKillDriver(d)
  \/ \E st \in ReportedState : DriverStateChanged(d, st) /\ UNCHANGED toSelf
  \/ ApplicationStateResponse(d)

MasterNext ==
  \/ ElectedLeader
  \/ CompleteRecovery
  \/ ProcessExit
  \/ SelfMessage
  \/ MessagesTaken
  \/ \E w \in WorkerId : WorkerMessage(w) \/ TimePasses(w) \/ CheckForWorkerTimeOut(w)
  \/ \E d \in DriverId : DriverMessage(d)
  \/ \E p \in AppProc : RegisterApplication(p)
  \/ \E a \in Addr : onDisconnected(a)

MasterSpec == MasterInit /\ [][MasterNext]_masterVars

-----------------------------------------------------------------------------
(* What the master guarantees whatever arrives.                            *)

AliveWorkers == {w \in workers : wstate[w] = "ALIVE"}

\* A driver waits only while no worker is alive: schedule() is not called everywhere the
\* set of ALIVE workers or of waiting drivers changes, and does not need to be.
NoIdleWaiting ==
  state = "ACTIVE" /\ AliveWorkers # {} => waitingDrivers = <<>>

\* The three worker collections agree: workers keeps DEAD ones for the reconnection
\* handshake, the two indexes hold exactly the others, one per address.
WorkerIndexes ==
  /\ idToWorker = {w \in workers : wstate[w] # "DEAD"}
  /\ \A w \in idToWorker : addressToWorker[workerAddress[w]] = w
  /\ \A a \in Addr : addressToWorker[a] # None =>
       addressToWorker[a] \in idToWorker /\ workerAddress[addressToWorker[a]] = a

\* The three application collections agree.
AppIndexes ==
  /\ \A p \in apps : idToApp[appDriver[p]] = p /\ addressToApp[appAddress[p]] = p
  /\ \A d \in DriverId : idToApp[d] # None => idToApp[d] \in apps /\ appDriver[idToApp[d]] = d
  /\ \A a \in Addr : addressToApp[a] # None =>
       addressToApp[a] \in apps /\ appAddress[addressToApp[a]] = a

\* What the next leader would read is what this one has registered, so no node is missing
\* when unpersist deletes it; and no two nodes claim one address.
PersistedMatchesRegistered ==
  /\ Zk /\ state # "STANDBY" => pworkers = idToWorker /\ papps = idToApp
  /\ \A v, w \in pworkers : workerAddress[v] = workerAddress[w] => v = w
  /\ \A d \in DriverId : papps[d] # None => appDriver[papps[d]] = d
  /\ \A d, e \in DriverId :
       papps[d] # None /\ papps[e] # None /\ appAddress[papps[d]] = appAddress[papps[e]] => d = e

\* A driver node is deleted with its driver, so no failover brings back a finished driver;
\* and the driver of an id submitted once keeps its node as long as it is unfinished, so no
\* failover forgets it.
PersistedDriversMatch ==
  /\ \A d \in DriverId : pdrivers[d] # None => pdrivers[d].id = d
  /\ state # "STANDBY" =>
       /\ \A d \in DriverId : pdrivers[d] # None => pdrivers[d] \in drivers
       /\ Zk => \A o \in drivers : submitted[o.id] = 1 => pdrivers[o.id] = o

\* Drivers and workers point at each other: a driver placed on a worker is one of the
\* drivers of that worker, which is registered, so losing the worker ends the driver.
\* (A second submission of the same id can break this: the worker files drivers by id.)
PlacementIndexes ==
  \A o \in drivers, w \in WorkerId :
    submitted[o.id] = 1 /\ dworker[o] = Ref(w) => w \in idToWorker /\ o.id \in wdrivers[w]

\* Recovery is over only when every recovered worker and application has answered or has
\* been removed, and nothing waits for a worker before that.
RecoveryCompletes ==
  /\ state = "ACTIVE" => /\ \A w \in workers : wstate[w] # "UNKNOWN"
                         /\ \A p \in apps : astate[p] # "UNKNOWN"
  /\ state # "ACTIVE" => waitingDrivers = <<>>

-----------------------------------------------------------------------------
(* The refinement: a driver is live if the master knows it or, while there *)
(* is no leader, if the next one will.                                     *)

liveDrivers == IF state = "STANDBY" THEN {pdrivers[d] : d \in DriverId} \ {None} ELSE drivers

ledger == [o \in DriverObj |->
  IF o.seq > submitted[o.id] THEN "none" ELSE IF o \in liveDrivers THEN "live" ELSE "done"]

Ledger == INSTANCE DriverLedger WITH Driver <- DriverObj, status <- ledger

\* The master keeps the ledger: none of its handlers, failovers and restarts revives a
\* driver that is done.
KeepsLedger == Ledger!LedgerSpec
=============================================================================
