------------------------------ MODULE MCMaster ------------------------------
(***************************************************************************)
(* MoonboxMaster with an open environment, for TLC: two worker processes,  *)
(* on one address (the second is the first one restarted) or apart, and an *)
(* application.                                                            *)
(***************************************************************************)
EXTENDS MoonboxMaster

CONSTANTS
  w1, w2, p1, d1, d2, a1, a2,
  MaxSelf    \* bound: messages the master has in its mailbox from itself

SameWorkers == [w \in WorkerId |-> a1]
MCAppAddress == [p \in AppProc |-> a2]
MCAppDriver == [p \in AppProc |-> d1]
OneBootApp == <<d1>>

\* What the handlers read: TLC need not tell apart states that differ in the messages
\* still on their way to workers and applications, which no handler looks at.
MemoryView == <<memoryVars, toSelf>>

MCNext == MasterNext /\ Len(toSelf') <= MaxSelf

MCSpec == MasterInit /\ [][MCNext]_masterVars
=============================================================================
