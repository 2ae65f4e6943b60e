-------------------------------- MODULE Grid --------------------------------
(***************************************************************************)
(* The grid: the leading master, the worker processes with their           *)
(* DriverRunners, the interactive applications, the REST clients that      *)
(* start and stop applications, and the network between them.              *)
(*                                                                         *)
(* One incarnation of the master leads at a time (ZooKeeper's latch); a    *)
(* standby keeps no state and answers nothing that matters, so only the    *)
(* leading, or next leading, incarnation is modelled.  A message to an     *)
(* earlier incarnation is lost.  When a connection breaks, what is on its  *)
(* way is lost and each side gets a DisassociatedEvent, at a time of its   *)
(* own.                                                                    *)
(***************************************************************************)
EXTENDS MoonboxMaster, MoonboxWorker, InteractiveMain

CONSTANTS
  Client,        \* concurrent requests to the REST service
  machineOf,     \* the machine of each incarnation of the master
  MaxInFlight,   \* bound: messages in one channel
  MaxBreaks,     \* bound: broken connections
  MaxKilled,     \* bound: worker and application processes that are killed
  MaxStops,      \* bound: stopApplication requests
  MaxAge         \* bound: how old a heartbeat gets, up to Ancient

\* There is a first master, and the workers report what their Spark processes do, or the
\* failure to start one.
ASSUME GridAssumption ==
  /\ MaxEpoch >= 1
  /\ machineOf \in [1..MaxEpoch -> Machine]
  /\ SparkState \cup {"ERROR"} \subseteq ReportedState
  /\ {MaxInFlight, MaxBreaks, MaxKilled, MaxStops, MaxAge} \subseteq Nat

VARIABLES
  pending,       \* [Client -> DriverId \cup {None}], starts between status and submission
  lostAtMaster,  \* addresses whose DisassociatedEvent the master has still to handle
  lostAtWorker,  \* [WorkerId -> SUBSET epochs], the same for masters, at a worker
  lostAtApp,     \* and at an application
  breaks, kills, stops

clientVars == <<pending, stops>>
networkVars == <<lostAtMaster, lostAtWorker, lostAtApp, breaks, kills>>
vars == <<masterVars, workerActorVars, appActorVars, clientVars, networkVars>>

GridInit ==
  /\ MasterInit
  /\ WorkerInit
  /\ AppInit
  /\ pending = [c \in Client |-> None]
  /\ lostAtMaster = {}
  /\ lostAtWorker = [w \in WorkerId |-> {}]
  /\ lostAtApp = [p \in AppProc |-> {}]
  /\ breaks = 0 /\ kills = 0 /\ stops = 0

GridTypeOK ==
  /\ MasterTypeOK
  /\ WorkerTypeOK
  /\ AppTypeOK
  /\ pending \in [Client -> DriverId \cup {None}]
  /\ lostAtMaster \subseteq Addr
  /\ lostAtWorker \in [WorkerId -> SUBSET (1..MaxEpoch)]
  /\ lostAtApp \in [AppProc -> SUBSET (1..MaxEpoch)]
  /\ breaks \in 0..MaxBreaks /\ kills \in 0..MaxKilled /\ stops \in 0..MaxStops

-----------------------------------------------------------------------------
(* Delivery to the master                                                  *)

\* What the master does with message m of worker w.
FromWorker(w, m) ==
  \/ m.type = "RegisterWorker" /\ RegisterWorker(w)
  \/ /\ m.type # "RegisterWorker" /\ m.to # epoch
     /\ UNCHANGED masterVars
  \/ m.type = "Heartbeat" /\ m.to = epoch /\ Heartbeat(w)
  \/ /\ m.type = "WorkerSchedulerStateResponse" /\ m.to = epoch
     /\ WorkerSchedulerStateResponse(w, m.ids)
  \/ m.type = "WorkerLatestState" /\ m.to = epoch /\ WorkerLatestState(w, m.ids)
  \/ /\ m.type = "DriverStateChanged" /\ m.to = epoch
     /\ DriverStateChanged(m.id, m.state) /\ UNCHANGED toSelf

DeliverFromWorker(w) ==
  /\ toMaster[w] # <<>>
  /\ toMaster' = [toMaster EXCEPT ![w] = Tail(@)]
  /\ FromWorker(w, Head(toMaster[w]))
  /\ UNCHANGED <<process, registrationVars, heartbeats, runnerVars, appActorVars,
                 clientVars, networkVars>>

\* An application registers with its home machine only.  It answers MasterChanged at once,
\* so its answer is never for an earlier incarnation.
FromApplication(p, m) ==
  \/ /\ m.type = "RegisterApplication" /\ home[p] = machineOf[epoch]
     /\ RegisterApplication(p)
  \/ /\ m.type = "RegisterApplication" /\ home[p] # machineOf[epoch]
     /\ UNCHANGED masterVars
  \/ m.type = "ApplicationStateResponse" /\ ApplicationStateResponse(appDriver[p])

DeliverFromApp(p) ==
  /\ fromApp[p] # <<>>
  /\ fromApp' = [fromApp EXCEPT ![p] = Tail(@)]
  /\ FromApplication(p, Head(fromApp[p]))
  /\ UNCHANGED <<appProcess, appRegistrationVars, workerActorVars, clientVars, networkVars>>

-----------------------------------------------------------------------------
(* A process that ends, by its own decision too, is noticed by the master; *)
(* a master that does not lead yet has no connection to notice it by.      *)

LostAt(a) == IF state = "STANDBY" THEN lostAtMaster ELSE lostAtMaster \cup {a}

ExitNoticed(w) ==
  /\ lostAtMaster' = IF process[w] = "up" /\ process'[w] = "exited"
                     THEN LostAt(workerAddress[w]) ELSE lostAtMaster
  /\ UNCHANGED <<appActorVars, clientVars, lostAtWorker, lostAtApp, breaks, kills>>

AppExitNoticed(p) ==
  /\ lostAtMaster' = IF appProcess[p] = "up" /\ appProcess'[p] = "exited"
                     THEN LostAt(appAddress[p]) ELSE lostAtMaster
  /\ UNCHANGED <<workerActorVars, clientVars, lostAtWorker, lostAtApp, breaks, kills>>

-----------------------------------------------------------------------------
(* Delivery to workers and applications; to a process that is gone it is a *)
(* dead letter.                                                            *)

DeliverToWorker(w) ==
  /\ toWorker[w] # <<>>
  /\ toWorker' = [toWorker EXCEPT ![w] = Tail(@)]
  /\ \/ process[w] = "up" /\ FromMaster(w, Head(toWorker[w]))
     \/ process[w] # "up" /\ UNCHANGED workerActorVars
  /\ ExitNoticed(w)
  /\ UNCHANGED <<memoryVars, toApp, toSelf>>

DeliverToApp(p) ==
  /\ toApp[p] # <<>>
  /\ toApp' = [toApp EXCEPT ![p] = Tail(@)]
  /\ \/ appProcess[p] = "up" /\ AppFromMaster(p, Head(toApp[p]))
     \/ appProcess[p] # "up" /\ UNCHANGED appActorVars
  /\ AppExitNoticed(p)
  /\ UNCHANGED <<memoryVars, toWorker, toSelf>>

-----------------------------------------------------------------------------
(* The network and failures                                                *)

\* A connection breaks.  What was sent has arrived before, or is lost; messages sent after
\* the break may overtake the DisassociatedEvent at the other side.
BreakWorker(w) ==
  /\ breaks < MaxBreaks
  /\ process[w] = "up"
  /\ breaks' = breaks + 1
  /\ toMaster' = [toMaster EXCEPT ![w] = <<>>]
  /\ toWorker' = [toWorker EXCEPT ![w] = <<>>]
  /\ lostAtMaster' = lostAtMaster \cup {workerAddress[w]}
  /\ lostAtWorker' = [lostAtWorker EXCEPT ![w] = @ \cup {epoch}]
  /\ UNCHANGED <<memoryVars, toApp, toSelf, process, registrationVars, heartbeats, runnerVars,
                 appActorVars, clientVars, lostAtApp, kills>>

BreakApp(p) ==
  /\ breaks < MaxBreaks
  /\ appProcess[p] = "up"
  /\ breaks' = breaks + 1
  /\ fromApp' = [fromApp EXCEPT ![p] = <<>>]
  /\ toApp' = [toApp EXCEPT ![p] = <<>>]
  /\ lostAtMaster' = lostAtMaster \cup {appAddress[p]}
  /\ lostAtApp' = [lostAtApp EXCEPT ![p] = @ \cup {epoch}]
  /\ UNCHANGED <<memoryVars, toWorker, toSelf, appProcess, appRegistrationVars,
                 workerActorVars, clientVars, lostAtWorker, kills>>

\* DisassociatedEvent at the master.
MasterLoses(a) ==
  /\ a \in lostAtMaster
  /\ lostAtMaster' = lostAtMaster \ {a}
  /\ onDisconnected(a)
  /\ UNCHANGED <<workerActorVars, appActorVars, clientVars, lostAtWorker, lostAtApp, breaks, kills>>

\* The address of incarnation e is that of master m.
NamesNone(e, m) == FALSE  \* a variant that never recognises the address
Names(e, m) == m # None /\ machineOf[m] = machineOf[e]

\* DisassociatedEvent at a worker: it matters if it names the machine of its master.
WorkerLoses(w, e) ==
  /\ e \in lostAtWorker[w]
  /\ process[w] = "up"
  /\ lostAtWorker' = [lostAtWorker EXCEPT ![w] = @ \ {e}]
  /\ \/ Names(e, wmaster[w]) /\ masterDisconnected(w)
     \/ ~ Names(e, wmaster[w]) /\ UNCHANGED workerActorVars
  /\ UNCHANGED <<masterVars, appActorVars, clientVars, lostAtMaster, lostAtApp, breaks, kills>>

AppLoses(p, e) ==
  /\ e \in lostAtApp[p]
  /\ appProcess[p] = "up"
  /\ lostAtApp' = [lostAtApp EXCEPT ![p] = @ \ {e}]
  /\ \/ Names(e, amaster[p]) /\ appMasterDisconnected(p)
     \/ ~ Names(e, amaster[p]) /\ UNCHANGED appActorVars
  /\ UNCHANGED <<masterVars, workerActorVars, clientVars, lostAtMaster, lostAtWorker, breaks, kills>>

\* The master process ends.  Everything addressed to it is lost and the others notice;
\* the requests of REST clients, which it served, go with it.
MasterFails ==
  /\ ProcessExit
  /\ toMaster' = [w \in WorkerId |-> <<>>]
  /\ fromApp' = [p \in AppProc |-> <<>>]
  /\ lostAtMaster' = {}
  /\ lostAtWorker' = [w \in WorkerId |->
       IF process[w] = "up" THEN lostAtWorker[w] \cup {epoch} ELSE lostAtWorker[w]]
  /\ lostAtApp' = [p \in AppProc |->
       IF appProcess[p] = "up" THEN lostAtApp[p] \cup {epoch} ELSE lostAtApp[p]]
  /\ pending' = [c \in Client |-> None]
  /\ UNCHANGED <<process, registrationVars, heartbeats, runnerVars, appProcess,
                 appRegistrationVars, stops, breaks, kills>>

KillWorker(w) ==
  /\ kills < MaxKilled
  /\ kills' = kills + 1
  /\ WorkerKilled(w)
  /\ lostAtMaster' = LostAt(workerAddress[w])
  /\ UNCHANGED <<masterVars, appActorVars, clientVars, lostAtWorker, lostAtApp, breaks>>

KillApp(p) ==
  /\ kills < MaxKilled
  /\ kills' = kills + 1
  /\ AppKilled(p)
  /\ lostAtMaster' = LostAt(appAddress[p])
  /\ UNCHANGED <<masterVars, workerActorVars, clientVars, lostAtWorker, lostAtApp, breaks>>

-----------------------------------------------------------------------------
(* ApplicationService                                                      *)

\* startApplication up to the answer of RequestDriverStatus: it goes on if the driver is
\* not found (or the master is not active) or the one found is finished.
AskStatus(c, d) ==
  /\ pending[c] = None
  /\ DriverStatus(d) = {} \/ \E st \in DriverStatus(d) : isFinished(st)
  /\ submitted[d] < MaxSubmit
  /\ pending' = [pending EXCEPT ![c] = d]
  /\ UNCHANGED <<masterVars, workerActorVars, appActorVars, stops, networkVars>>

\* ... and its RequestSubmitDriver.
Submit(c) ==
  /\ pending[c] # None
  /\ RequestSubmitDriver(pending[c])
  /\ UNCHANGED toSelf
  /\ pending' = [pending EXCEPT ![c] = None]
  /\ UNCHANGED <<workerActorVars, appActorVars, stops, networkVars>>

stopApplication(d) ==
  /\ stops < MaxStops
  /\ stops' = stops + 1
  /\ RequestKillDriver(d)
  /\ UNCHANGED <<workerActorVars, appActorVars, pending, networkVars>>

-----------------------------------------------------------------------------
(* Steps of one part.  Heartbeats and reports, which repeat without limit, *)
(* wait for room in the channel; registrations are limited by MaxAttempts. *)

MasterAlone == UNCHANGED <<workerActorVars, appActorVars, clientVars, networkVars>>
WorkerAlone == UNCHANGED <<masterVars, appActorVars, clientVars, networkVars>>

Elected == ElectedLeader /\ MasterAlone
Recovered == CompleteRecovery /\ MasterAlone
ToItself == SelfMessage /\ MasterAlone
Ageing(w) == lastHeartbeat[w] < MaxAge /\ TimePasses(w) /\ MasterAlone
TimeOut(w) == CheckForWorkerTimeOut(w) /\ MasterAlone

Starting(w) == StartWorker(w) /\ WorkerAlone

Room(w) == Len(toMaster[w]) < MaxInFlight /\ Len(toWorker[w]) < MaxInFlight

Registering(w) ==
  /\ tryRegisterAllMasters(w)
  /\ ExitNoticed(w)
  /\ UNCHANGED masterVars

Beating(w) ==
  /\ Room(w)
  /\ \A i \in 1..Len(toMaster[w]) : toMaster[w][i].type # "Heartbeat"
  /\ SendHeartbeat(w)
  /\ WorkerAlone

RunnerStarting(o) == RunnerStarts(o) /\ WorkerAlone
SparkEnding(o) == SparkEnds(o) /\ WorkerAlone

Reporting(o) ==
  /\ spark[o] = "running" => Room(host[o])
  /\ RunnerReports(o)
  /\ WorkerAlone

AppStarting(p) ==
  /\ StartApp(p)
  /\ UNCHANGED <<masterVars, workerActorVars, clientVars, networkVars>>

AppRegistering(p) ==
  /\ appTryRegister(p)
  /\ AppExitNoticed(p)
  /\ UNCHANGED masterVars

MasterStep ==
  \/ Elected
  \/ Recovered
  \/ ToItself
  \/ MasterFails
  \/ \E a \in Addr : MasterLoses(a)

WorkerStep(w) ==
  \/ Ageing(w) \/ TimeOut(w)
  \/ DeliverFromWorker(w) \/ DeliverToWorker(w)
  \/ Starting(w) \/ Registering(w) \/ Beating(w)
  \/ BreakWorker(w) \/ KillWorker(w)
  \/ \E e \in 1..MaxEpoch : WorkerLoses(w, e)

RunnerStep(o) == RunnerStarting(o) \/ SparkEnding(o) \/ Reporting(o)

AppStep(p) ==
  \/ DeliverFromApp(p) \/ DeliverToApp(p)
  \/ AppStarting(p) \/ AppRegistering(p)
  \/ BreakApp(p) \/ KillApp(p)
  \/ \E e \in 1..MaxEpoch : AppLoses(p, e)

ClientStep ==
  \/ \E c \in Client : Submit(c) \/ \E d \in DriverId : AskStatus(c, d)
  \/ \E d \in DriverId : stopApplication(d)

GridNext ==
  \/ MasterStep
  \/ \E w \in WorkerId : WorkerStep(w)
  \/ \E o \in DriverObj : RunnerStep(o)
  \/ \E p \in AppProc : AppStep(p)
  \/ ClientStep

GridSpec == GridInit /\ [][GridNext]_vars

\* Akka delivers what it has accepted, periodic tasks and the CompleteRecovery message go
\* off, ZooKeeper elects a leader, a thread that starts a runner goes on, and a Spark
\* process told to stop does.
GridFairness ==
  /\ WF_vars(Elected) /\ WF_vars(Recovered) /\ WF_vars(ToItself)
  /\ \A a \in Addr : WF_vars(MasterLoses(a))
  /\ \A w \in WorkerId :
       /\ WF_vars(DeliverFromWorker(w)) /\ WF_vars(DeliverToWorker(w))
       /\ WF_vars(Registering(w)) /\ WF_vars(Beating(w))
       /\ \A e \in 1..MaxEpoch : WF_vars(WorkerLoses(w, e))
  /\ \A o \in DriverObj :
       /\ WF_vars(RunnerStarting(o))
       /\ WF_vars(spark[o] = "stopping" /\ SparkEnding(o))
       /\ WF_vars(spark[o] # "running" /\ Reporting(o))
  /\ \A p \in AppProc :
       /\ WF_vars(DeliverFromApp(p)) /\ WF_vars(DeliverToApp(p))
       /\ WF_vars(AppRegistering(p))
       /\ \A e \in 1..MaxEpoch : WF_vars(AppLoses(p, e))

FairGridSpec == GridSpec /\ GridFairness

-----------------------------------------------------------------------------
(* What the parts achieve together.                                        *)

LaunchesOf(o) ==
  UNION {{<<w, i>> : i \in {j \in 1..Len(toWorker[w]) :
                         toWorker[w][j] = [type |-> "LaunchDriver", driver |-> o]}} : w \in WorkerId}

Waits(o) == \E i \in 1..Len(waitingDrivers) : waitingDrivers[i] = o

\* An accepted driver is started at most once, by one worker, whatever is redelivered,
\* rescheduled or recovered: it waits, or is on its way, or has reached one worker.
LaunchedOnce ==
  \A o \in DriverObj :
    LET launched == Cardinality(LaunchesOf(o)) + IF host[o] # None THEN 1 ELSE 0
    IN  launched + (IF Waits(o) THEN 1 ELSE 0) <= 1

\* Nothing is under way between worker w and the master.
Quiet(w) ==
  /\ toWorker[w] = <<>> /\ toMaster[w] = <<>>
  /\ workerAddress[w] \notin lostAtMaster
  /\ lostAtWorker[w] = {}

\* A worker that has stopped trying to register is one the leader knows of and whose
\* messages reach that leader: no order of failover, disconnection and registration
\* messages leaves it talking to nobody.  (With MaxAge = 1: a worker silent for longer is
\* removed, and its heartbeats are then ignored, IgnoredNeverRegistered.  And as long as no
\* id is submitted twice: a node that is missing then restarts the actor of the master,
\* which forgets the workers it held as DEAD.)
NoForgottenWorker ==
  \A w \in WorkerId :
    process[w] = "up" /\ ~ scheduling[w] /\ state # "STANDBY" /\ Quiet(w) =>
      w \in workers /\ wmaster[w] = epoch /\ connected[w]

\* What the master believes of its workers is true: a driver it has placed on a worker that
\* runs is there, and its end has not been reported.  A lost LaunchDriver or a lost final
\* report costs the registration of the worker, and that of its drivers with it.  (The
\* reports of two drivers of one id are mistaken for each other.)
NoPhantomDriver ==
  \A o \in drivers, w \in WorkerId :
    submitted[o.id] = 1 /\ dworker[o] = Ref(w) /\ process[w] = "up" /\ Quiet(w)
    => host[o] = w /\ spark[o] # "reported"

\* A worker that has been registered once, and sends heartbeats, is registered again after
\* its master has timed it out, failed or lost the connection, or it gives up.  (With
\* MaxAge = 1: a worker that its master has dropped after 15 timeouts is ignored for ever,
\* IgnoredNeverRegistered.)
WorkerRegisters ==
  \A w \in WorkerId :
    process[w] = "up" /\ heartbeats[w] ~> (w \in idToWorker \/ process[w] = "exited")

\* A process of the same application has been started on another address.
StartedElsewhere(p) ==
  \E q \in AppProc : /\ appDriver[q] = appDriver[p] /\ appAddress[q] # appAddress[p]
                     /\ appProcess[q] # "new"

\* The applications an active master would send clients to are running, or their end is
\* about to be noticed: neither a failover nor the recovery timer leaves a dead one behind.
\* (Answers to MasterChanged are filed by application id, so a late one of a process on
\* another address can pass for the answer of a process that has died.)
NoPhantomApp ==
  \A p \in apps :
    state = "ACTIVE" /\ ~ StartedElsewhere(p) =>
      appProcess[p] = "up" \/ appAddress[p] \in lostAtMaster

\* An application that has stopped trying to register, and has no broken connection left to
\* notice, is connected to the master that leads.  It follows a failover whatever the order
\* in which the DisassociatedEvent of the old master, MasterChanged of the new one and the
\* answers to its registrations reach it, also when both masters have one address.
NoStrandedApp ==
  \A p \in AppProc :
    appProcess[p] = "up" /\ ~ appScheduling[p] /\ lostAtApp[p] = {} =>
      amaster[p] = epoch /\ appConnected[p]

-----------------------------------------------------------------------------
(* What the repository says of the grid and does not keep.                 *)

\* "Application ... has been started already": an application has one driver at a time.
UniqueDriver == \A o, x \in drivers : o.id = x.id => o = x

\* A switch to the standby master keeps the drivers: each of them is on a worker or waits
\* for one.
RecoveredDriversPlaced ==
  state = "ACTIVE" => \A o \in drivers : Waits(o) \/ dworker[o] # None

\* "Duplicate worker ID": a worker whose id and address nobody else has is not refused, so
\* it ends only when it gives up.
NoDuplicateNoRefusal ==
  \A w \in WorkerId : process[w] = "exited" => attempts[w] > MaxAttempts

\* "This worker was never registered, so ignoring the heartbeat": the worker whose
\* heartbeat is ignored has not been registered by this master.
IgnoredNeverRegistered ==
  \A w \in WorkerId :
    /\ process[w] = "up" /\ registered[w] /\ wmaster[w] = epoch
    /\ toMaster[w] # <<>> /\ Head(toMaster[w]).type = "Heartbeat"
    => w \in workers

\* "master doesn't recognize this driver ... So tell worker kill it": once a registered
\* worker and the master have nothing left to tell each other, no driver the master has
\* removed is running there.
NoStrayDriver ==
  \A o \in DriverObj :
    spark[o] = "running" /\ process[host[o]] = "up" /\ host[o] \in idToWorker /\ Quiet(host[o])
    => o \in drivers
=============================================================================
