--------------------------- MODULE DeployMessages ---------------------------
(***************************************************************************)
(* The vocabulary the actors of the grid share: the identities that travel *)
(* in messages, the states of a driver, the messages the master sends, and *)
(* the FIFO channels that carry them (Akka delivers the messages of one    *)
(* sender to one receiver in order).                                       *)
(*                                                                         *)
(* A worker process is named by the id it generates when it starts, an     *)
(* application process by a model value, a DriverInfo object by the driver *)
(* id it was created for and its number among the submissions of that id.  *)
(* A master process is named by its incarnation number, its epoch.         *)
(***************************************************************************)
EXTENDS Naturals, Sequences, FiniteSets

CONSTANTS
  DriverId,       \* full names of applications, used as driver ids
  WorkerId,       \* ids of worker processes
  AppProc,        \* processes of interactive applications
  Addr,           \* Akka addresses of worker and application processes
  workerAddress,  \* the address of each worker process
  appAddress,     \* the address of each application process
  appDriver,      \* the driver id each application process runs as
  None,           \* Scala's None
  MaxSubmit       \* bound: submissions per driver id

DriverObj == [id : DriverId, seq : 1..MaxSubmit]

ASSUME ConstantsAssumption ==
  /\ workerAddress \in [WorkerId -> Addr]
  /\ appAddress \in [AppProc -> Addr]
  /\ appDriver \in [AppProc -> DriverId]
  /\ MaxSubmit \in Nat
  /\ IsFiniteSet(WorkerId)
  /\ IsFiniteSet(DriverId)

ASSUME NoneAssumption ==
  /\ None \notin WorkerId
  /\ None \notin AppProc
  /\ None \notin DriverObj
  /\ None \notin [id : WorkerId, current : BOOLEAN]

FinishedState == {"FINISHED", "KILLED", "LOST", "FAILED", "ERROR"}
LiveState == {"WAITING", "SUBMITTING", "CONNECTED", "SUBMITTED", "RUNNING", "UNKNOWN"}
DriverState == FinishedState \cup LiveState

isFinished(st) == st \in FinishedState

(***************************************************************************)
(* What the master sends.  RegisteredWorker, MasterChanged and             *)
(* ReconnectWorker carry the master's own reference; LaunchDriver carries  *)
(* the description of the driver, named here by the DriverInfo it comes    *)
(* from.                                                                   *)
(***************************************************************************)
ToWorkerMsg ==
  [type : {"RegisteredWorker", "MasterChanged", "ReconnectWorker"}, master : Nat]
    \cup [type : {"RegisterWorkerFailed", "MasterInStandby"}]
    \cup [type : {"LaunchDriver"}, driver : DriverObj]
    \cup [type : {"KillDriver"}, id : DriverId]

ToAppMsg ==
  [type : {"RegisteredApplication", "MasterChanged"}, master : Nat]
    \cup [type : {"RegisterApplicationFailed", "MasterInStandby"}]

ToSelfMsg ==
  [type : {"RequestSubmitDriver", "KilledWhileWaiting"}, id : DriverId]

VARIABLES
  toWorker,  \* [WorkerId -> Seq(ToWorkerMsg)], from the master to each worker
  toApp,     \* [AppProc -> Seq(ToAppMsg)], from the master to each application
  toSelf     \* Seq(ToSelfMsg), what the master sends to itself

channelVars == <<toWorker, toApp, toSelf>>

ChannelInit ==
  /\ toWorker = [w \in WorkerId |-> <<>>]
  /\ toApp = [p \in AppProc |-> <<>>]
  /\ toSelf = <<>>

ChannelTypeOK ==
  /\ toWorker \in [WorkerId -> Seq(ToWorkerMsg)]
  /\ toApp \in [AppProc -> Seq(ToAppMsg)]
  /\ toSelf \in Seq(ToSelfMsg)

\* The channels after one more message for worker w, or application p.
SendTo(net, r, m) == [net EXCEPT ![r] = Append(@, m)]
=============================================================================
