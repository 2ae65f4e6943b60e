--------------------------- MODULE MoonboxWorker ----------------------------
(***************************************************************************)
(* The MoonboxWorker actors and their DriverRunners.                       *)
(*                                                                         *)
(* A worker keeps trying to register until a master accepts it, adopts the *)
(* master that says it has taken over, sends heartbeats, and starts one    *)
(* DriverRunner per LaunchDriver.  A runner is named by the DriverInfo it  *)
(* was launched for; it starts a Spark process on a thread of its own and  *)
(* reports the states of that process to its worker.                       *)
(***************************************************************************)
EXTENDS DeployMessages

CONSTANTS
  SparkState,   \* states of a SparkAppHandle that stateChanged reports
  MaxAttempts   \* bound on connectionAttemptCount, 15 in the code

ASSUME WorkerAssumption ==
  /\ SparkState \subseteq {"UNKNOWN", "LOST", "CONNECTED", "SUBMITTED", "RUNNING",
                           "FAILED", "KILLED", "FINISHED"}
  /\ MaxAttempts \in Nat
  /\ None \notin Nat

VARIABLES
  process,      \* [WorkerId -> ...], the life of the worker's JVM
  wmaster,      \* the incarnation `master' refers to, None before the first
  registered, connected,
  scheduling,   \* registerToMasterScheduler is defined
  attempts,     \* connectionAttemptCount
  heartbeats,   \* a task that sends SendHeartbeat has been scheduled
  runners,      \* the worker's `drivers': driver id to runner
  spark,        \* [DriverObj -> ...], the life of a runner and its Spark process
  host,         \* [DriverObj -> WorkerId \cup {None}], where it was launched
  toMaster      \* [WorkerId -> Seq(FromWorkerMsg)]

registrationVars == <<wmaster, registered, connected, scheduling, attempts>>
runnerVars == <<runners, spark, host>>
workerActorVars == <<process, registrationVars, heartbeats, runnerVars, toMaster>>

\* RegisterWorker goes to every configured master, the others to the adopted one.
FromWorkerMsg ==
  [type : {"RegisterWorker"}]
    \cup [type : {"Heartbeat"}, to : Nat]
    \cup [type : {"WorkerSchedulerStateResponse", "WorkerLatestState"}, to : Nat,
          ids : SUBSET DriverId]
    \cup [type : {"DriverStateChanged"}, to : Nat, id : DriverId, state : SparkState \cup {"ERROR"}]

WorkerTypeOK ==
  /\ process \in [WorkerId -> {"new", "up", "exited"}]
  /\ wmaster \in [WorkerId -> Nat \cup {None}]
  /\ registered \in [WorkerId -> BOOLEAN]
  /\ connected \in [WorkerId -> BOOLEAN]
  /\ scheduling \in [WorkerId -> BOOLEAN]
  /\ attempts \in [WorkerId -> 0..(MaxAttempts + 1)]
  /\ heartbeats \in [WorkerId -> BOOLEAN]
  /\ runners \in [WorkerId -> [DriverId -> DriverObj \cup {None}]]
  /\ spark \in [DriverObj -> {"none", "starting", "running", "stopping", "failed", "ended", "reported"}]
  /\ host \in [DriverObj -> WorkerId \cup {None}]
  /\ toMaster \in [WorkerId -> Seq(FromWorkerMsg)]

WorkerInit ==
  /\ process = [w \in WorkerId |-> "new"]
  /\ wmaster = [w \in WorkerId |-> None]
  /\ registered = [w \in WorkerId |-> FALSE]
  /\ connected = [w \in WorkerId |-> FALSE]
  /\ scheduling = [w \in WorkerId |-> FALSE]
  /\ attempts = [w \in WorkerId |-> 0]
  /\ heartbeats = [w \in WorkerId |-> FALSE]
  /\ runners = [w \in WorkerId |-> [d \in DriverId |-> None]]
  /\ spark = [o \in DriverObj |-> "none"]
  /\ host = [o \in DriverObj |-> None]
  /\ toMaster = [w \in WorkerId |-> <<>>]

-----------------------------------------------------------------------------
(* Registration                                                            *)

Send(w, m) == toMaster' = SendTo(toMaster, w, m)

\* sendToMaster drops the message while no master is known.
sendToMaster(w, m) ==
  toMaster' = IF wmaster[w] = None THEN toMaster ELSE SendTo(toMaster, w, m)

registerWithMaster(w) ==
  /\ registered' = [registered EXCEPT ![w] = scheduling[w] /\ @]
  /\ attempts' = [attempts EXCEPT ![w] = IF scheduling[w] THEN @ ELSE 0]
  /\ scheduling' = [scheduling EXCEPT ![w] = TRUE]

changeMaster(w, e) ==
  /\ wmaster' = [wmaster EXCEPT ![w] = e]
  /\ connected' = [connected EXCEPT ![w] = TRUE]
  /\ scheduling' = [scheduling EXCEPT ![w] = FALSE]

\* AppMasters are registered by MoonboxMaster.preStart only, so in the JVM of a worker
\* AppMasterManager.getAppMaster finds none.
appMasterInWorker == FALSE

\* gracefullyShutdown, with the shutdown hook: onWorkerExit kills a driver, but only if
\* its AppMaster is found.  The Spark processes are not children that end with the JVM.
\* What the worker had sent has arrived before, or is lost.
gracefullyShutdown(w) ==
  /\ process' = [process EXCEPT ![w] = "exited"]
  /\ toMaster' = [toMaster EXCEPT ![w] = <<>>]
  /\ spark' = [o \in DriverObj |->
       IF appMasterInWorker /\ runners[w][o.id] = o /\ spark[o] = "running" THEN "stopping"
       ELSE spark[o]]
  /\ UNCHANGED <<runners, host>>

\* A process takes its address when it starts.
StartWorker(w) ==
  /\ process[w] = "new"
  /\ \A v \in WorkerId : workerAddress[v] = workerAddress[w] => process[v] # "up"
  /\ process' = [process EXCEPT ![w] = "up"]
  /\ registerWithMaster(w)
  /\ UNCHANGED <<wmaster, connected, heartbeats, runnerVars, toMaster>>

\* The task of registerToMasterScheduler.
tryRegisterAllMasters(w) ==
  /\ process[w] = "up"
  /\ scheduling[w]
  /\ attempts' = [attempts EXCEPT ![w] = @ + 1]
  /\ \/ /\ registered[w]
        /\ scheduling' = [scheduling EXCEPT ![w] = FALSE]
        /\ UNCHANGED <<process, runnerVars, toMaster>>
     \/ /\ ~ registered[w]
        /\ attempts[w] + 1 <= MaxAttempts
        /\ Send(w, [type |-> "RegisterWorker"])
        /\ UNCHANGED <<process, scheduling, runnerVars>>
     \/ /\ ~ registered[w]
        /\ attempts[w] + 1 > MaxAttempts
        /\ gracefullyShutdown(w)
        /\ UNCHANGED scheduling
  /\ UNCHANGED <<wmaster, registered, connected, heartbeats>>

SendHeartbeat(w) ==
  /\ process[w] = "up"
  /\ heartbeats[w]
  /\ connected[w]
  /\ sendToMaster(w, [type |-> "Heartbeat", to |-> wmaster[w]])
  /\ UNCHANGED <<process, registrationVars, heartbeats, runnerVars>>

\* Any end of the JVM that runs no hook.
WorkerKilled(w) ==
  /\ process[w] = "up"
  /\ process' = [process EXCEPT ![w] = "exited"]
  /\ toMaster' = [toMaster EXCEPT ![w] = <<>>]
  /\ UNCHANGED <<registrationVars, heartbeats, runnerVars>>

\* A variant that counts the finished drivers in.
LaunchedIds(w) == {o.id : o \in {x \in DriverObj : host[x] = w}}

DriverIds(w) == {d \in DriverId : runners[w][d] # None}

-----------------------------------------------------------------------------
(* Messages from the master                                                *)

RegisteredWorker(w, e) ==
  /\ registered' = [registered EXCEPT ![w] = TRUE]
  /\ changeMaster(w, e)
  /\ heartbeats' = [heartbeats EXCEPT ![w] = TRUE]
  /\ Send(w, [type |-> "WorkerLatestState", to |-> e, ids |-> DriverIds(w)])
  /\ UNCHANGED <<process, attempts, runnerVars>>

RegisterWorkerFailed(w) ==
  /\ \/ ~ registered[w] /\ gracefullyShutdown(w)
     \/ registered[w] /\ UNCHANGED <<process, runnerVars, toMaster>>
  /\ UNCHANGED <<registrationVars, heartbeats>>

MasterInStandby(w) == UNCHANGED workerActorVars

MasterChanged(w, e) ==
  /\ changeMaster(w, e)
  /\ Send(w, [type |-> "WorkerSchedulerStateResponse", to |-> e, ids |-> DriverIds(w)])
  /\ UNCHANGED <<process, registered, attempts, heartbeats, runnerVars>>

ReconnectWorker(w) ==
  /\ registerWithMaster(w)
  /\ UNCHANGED <<process, wmaster, connected, heartbeats, runnerVars, toMaster>>

\* A runner of the same id is replaced without a look.
LaunchDriver(w, o) ==
  /\ runners' = [runners EXCEPT ![w][o.id] = o]
  /\ spark' = [spark EXCEPT ![o] = "starting"]
  /\ host' = [host EXCEPT ![o] = w]
  /\ UNCHANGED <<process, registrationVars, heartbeats, toMaster>>

\* DriverRunner.kill does nothing while the SparkAppHandle is not there yet.
KillDriver(w, d) ==
  /\ spark' = [o \in DriverObj |->
       IF runners[w][d] = o /\ spark[o] = "running" THEN "stopping" ELSE spark[o]]
  /\ UNCHANGED <<process, registrationVars, heartbeats, runners, host, toMaster>>

\* What worker w does with message m, the head of its channel.
FromMaster(w, m) ==
  \/ m.type = "RegisteredWorker" /\ RegisteredWorker(w, m.master)
  \/ m.type = "RegisterWorkerFailed" /\ RegisterWorkerFailed(w)
  \/ m.type = "MasterInStandby" /\ MasterInStandby(w)
  \/ m.type = "MasterChanged" /\ MasterChanged(w, m.master)
  \/ m.type = "ReconnectWorker" /\ ReconnectWorker(w)
  \/ m.type = "LaunchDriver" /\ LaunchDriver(w, m.driver)
  \/ m.type = "KillDriver" /\ KillDriver(w, m.id)

masterDisconnected(w) ==
  /\ connected' = [connected EXCEPT ![w] = FALSE]
  /\ registerWithMaster(w)
  /\ UNCHANGED <<process, wmaster, heartbeats, runnerVars, toMaster>>

-----------------------------------------------------------------------------
(* DriverRunner                                                            *)

\* startApplication returns and the handle is set, or it throws.
RunnerStarts(o) ==
  /\ spark[o] = "starting"
  /\ process[host[o]] = "up"
  /\ \E st \in {"running", "failed"} : spark' = [spark EXCEPT ![o] = st]
  /\ UNCHANGED <<process, registrationVars, heartbeats, runners, host, toMaster>>

\* The Spark process ends, by itself or because it was told to.
SparkEnds(o) ==
  /\ spark[o] \in {"running", "stopping"}
  /\ spark' = [spark EXCEPT ![o] = "ended"]
  /\ UNCHANGED <<process, registrationVars, heartbeats, runners, host, toMaster>>

\* handleDriverStateChanged: worker w forwards state st of driver d to its master.  In a
\* final state finishDriver removes the runner filed under the id.
handleDriverStateChanged(w, d, st) ==
  /\ runners' = IF isFinished(st) THEN [runners EXCEPT ![w][d] = None] ELSE runners
  /\ sendToMaster(w, [type |-> "DriverStateChanged", to |-> wmaster[w], id |-> d, state |-> st])
  /\ UNCHANGED <<process, registrationVars, heartbeats, host>>

RunnerReports(o) ==
  /\ host[o] # None
  /\ process[host[o]] = "up"
  /\ \/ /\ spark[o] = "running"
        /\ \E st \in {x \in SparkState : ~ isFinished(x)} : handleDriverStateChanged(host[o], o.id, st)
        /\ UNCHANGED spark
     \/ /\ spark[o] = "failed"
        /\ handleDriverStateChanged(host[o], o.id, "ERROR")
        /\ spark' = [spark EXCEPT ![o] = "reported"]
     \/ /\ spark[o] = "ended"
        /\ \E st \in {x \in SparkState : isFinished(x)} : handleDriverStateChanged(host[o], o.id, st)
        /\ spark' = [spark EXCEPT ![o] = "reported"]

\* The Spark process of o may be there.
Alive(o) == spark[o] \in {"starting", "running", "stopping"}
=============================================================================
