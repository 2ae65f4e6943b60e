-------------------------- MODULE InteractiveMain ---------------------------
(***************************************************************************)
(* The Main actor of an interactive Spark application.  It registers with  *)
(* a master as a worker does, but it knows only the master that launched   *)
(* it: DriverRunner passes that one address as the `masters' argument.     *)
(***************************************************************************)
EXTENDS DeployMessages

CONSTANTS
  Machine,          \* machines a master may run on
  home,             \* the machine of the master that launched each application
  MaxAppAttempts    \* bound on connectionAttemptCount, 15 in the code

ASSUME InteractiveAssumption ==
  /\ home \in [AppProc -> Machine]
  /\ MaxAppAttempts \in Nat
  /\ None \notin Nat

VARIABLES
  appProcess,                    \* the life of the application's JVM
  amaster, appRegistered, appConnected, appScheduling, appAttempts,
  fromApp                        \* [AppProc -> Seq(FromAppMsg)]

appRegistrationVars == <<amaster, appRegistered, appConnected, appScheduling, appAttempts>>
appActorVars == <<appProcess, appRegistrationVars, fromApp>>

FromAppMsg ==
  [type : {"RegisterApplication", "ApplicationStateResponse"}]

AppTypeOK ==
  /\ appProcess \in [AppProc -> {"new", "up", "exited"}]
  /\ amaster \in [AppProc -> Nat \cup {None}]
  /\ appRegistered \in [AppProc -> BOOLEAN]
  /\ appConnected \in [AppProc -> BOOLEAN]
  /\ appScheduling \in [AppProc -> BOOLEAN]
  /\ appAttempts \in [AppProc -> 0..(MaxAppAttempts + 1)]
  /\ fromApp \in [AppProc -> Seq(FromAppMsg)]

AppInit ==
  /\ appProcess = [p \in AppProc |-> "new"]
  /\ amaster = [p \in AppProc |-> None]
  /\ appRegistered = [p \in AppProc |-> FALSE]
  /\ appConnected = [p \in AppProc |-> FALSE]
  /\ appScheduling = [p \in AppProc |-> FALSE]
  /\ appAttempts = [p \in AppProc |-> 0]
  /\ fromApp = [p \in AppProc |-> <<>>]

\* A variant that takes the registration with the lost master for one with the next.
appRegisterWithMasterKept(p) ==
  /\ appAttempts' = [appAttempts EXCEPT ![p] = IF appScheduling[p] THEN @ ELSE 0]
  /\ appScheduling' = [appScheduling EXCEPT ![p] = TRUE]
  /\ UNCHANGED appRegistered

appRegisterWithMaster(p) ==
  /\ appRegistered' = [appRegistered EXCEPT ![p] = appScheduling[p] /\ @]
  /\ appAttempts' = [appAttempts EXCEPT ![p] = IF appScheduling[p] THEN @ ELSE 0]
  /\ appScheduling' = [appScheduling EXCEPT ![p] = TRUE]

appChangeMaster(p, e) ==
  /\ amaster' = [amaster EXCEPT ![p] = e]
  /\ appConnected' = [appConnected EXCEPT ![p] = TRUE]
  /\ appScheduling' = [appScheduling EXCEPT ![p] = FALSE]

\* The process ends.  What it had sent has arrived before, or is lost.
appExit(p) ==
  /\ appProcess' = [appProcess EXCEPT ![p] = "exited"]
  /\ fromApp' = [fromApp EXCEPT ![p] = <<>>]

\* preStart; what fails before registration ends the process and is not seen here.
StartApp(p) ==
  /\ appProcess[p] = "new"
  /\ \A q \in AppProc : appAddress[q] = appAddress[p] => appProcess[q] # "up"
  /\ appProcess' = [appProcess EXCEPT ![p] = "up"]
  /\ appRegisterWithMaster(p)
  /\ UNCHANGED <<amaster, appConnected, fromApp>>

appTryRegister(p) ==
  /\ appProcess[p] = "up"
  /\ appScheduling[p]
  /\ appAttempts' = [appAttempts EXCEPT ![p] = @ + 1]
  /\ \/ /\ appRegistered[p]
        /\ appScheduling' = [appScheduling EXCEPT ![p] = FALSE]
        /\ UNCHANGED <<appProcess, fromApp>>
     \/ /\ ~ appRegistered[p]
        /\ appAttempts[p] + 1 <= MaxAppAttempts
        /\ fromApp' = SendTo(fromApp, p, [type |-> "RegisterApplication"])
        /\ UNCHANGED <<appProcess, appScheduling>>
     \/ /\ ~ appRegistered[p]
        /\ appAttempts[p] + 1 > MaxAppAttempts
        /\ appExit(p)
        /\ UNCHANGED appScheduling
  /\ UNCHANGED <<amaster, appRegistered, appConnected>>

\* The Spark process ends, by itself or by a kill.
AppKilled(p) ==
  /\ appProcess[p] = "up"
  /\ appExit(p)
  /\ UNCHANGED appRegistrationVars

RegisteredApplication(p, e) ==
  /\ appRegistered' = [appRegistered EXCEPT ![p] = TRUE]
  /\ appChangeMaster(p, e)
  /\ UNCHANGED <<appProcess, appAttempts, fromApp>>

RegisterApplicationFailed(p) ==
  /\ \/ ~ appRegistered[p] /\ appExit(p)
     \/ appRegistered[p] /\ UNCHANGED <<appProcess, fromApp>>
  /\ UNCHANGED appRegistrationVars

AppMasterChanged(p, e) ==
  /\ appChangeMaster(p, e)
  /\ fromApp' = SendTo(fromApp, p, [type |-> "ApplicationStateResponse"])
  /\ UNCHANGED <<appProcess, appRegistered, appAttempts>>

\* What application p does with message m, the head of its channel.
AppFromMaster(p, m) ==
  \/ m.type = "RegisteredApplication" /\ RegisteredApplication(p, m.master)
  \/ m.type = "RegisterApplicationFailed" /\ RegisterApplicationFailed(p)
  \/ m.type = "MasterInStandby" /\ UNCHANGED appActorVars
  \/ m.type = "MasterChanged" /\ AppMasterChanged(p, m.master)

appMasterDisconnected(p) ==
  /\ appConnected' = [appConnected EXCEPT ![p] = FALSE]
  /\ appRegisterWithMaster(p)
  /\ UNCHANGED <<appProcess, amaster, fromApp>>
=============================================================================
