---------------------------- MODULE DriverLedger ----------------------------
(***************************************************************************)
(* What the master promises about drivers, whatever fails: a driver it has *)
(* accepted is live until it is done, once, and a driver that is done is   *)
(* never live again.  A failover or a restart of the actor may end drivers *)
(* but revives none.                                                       *)
(***************************************************************************)
CONSTANT Driver
VARIABLE status    \* [Driver -> {"none", "live", "done"}]

LedgerInit == status = [o \in Driver |-> "none"]

Accept(o) ==
  /\ status[o] = "none"
  /\ status' = [status EXCEPT ![o] = "live"]

\* One event may end several drivers: those of a worker that is lost, say.
Finish(S) ==
  /\ \A o \in S : status[o] = "live"
  /\ status' = [o \in Driver |-> IF o \in S THEN "done" ELSE status[o]]

LedgerNext == (\E o \in Driver : Accept(o)) \/ (\E S \in SUBSET Driver : Finish(S))

LedgerSpec == LedgerInit /\ [][LedgerNext]_status
=============================================================================
