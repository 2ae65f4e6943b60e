------------------------------- MODULE MCGrid -------------------------------
(***************************************************************************)
(* Small grids for TLC.                                                    *)
(***************************************************************************)
EXTENDS Grid, TLC

CONSTANTS w1, w2, p1, p2, d1, d2, a1, a2, b1, m1, m2, c1, c2

\* Each worker process on an address of its own.
ApartWorkers == [w \in WorkerId |-> IF w = w1 THEN a1 ELSE a2]
\* w2 is the process that takes the place of w1.
SameWorkers == [w \in WorkerId |-> a1]
MCAppAddress == [p \in AppProc |-> b1]
MCAppDriver == [p \in AppProc |-> d1]
MCHome == [p \in AppProc |-> m1]
NoBootApps == <<>>

\* The master comes back on the machine it left, or another takes over.
SameMachine == [e \in 1..MaxEpoch |-> m1]
OtherMachine == [e \in 1..MaxEpoch |-> IF e = 1 THEN m1 ELSE m2]

NoApps == \A p \in AppProc : appProcess[p] = "new"
Requests == Cardinality({c \in Client : pending[c] # None}) + submitted[d1]

\* The grid with everything at once is out of reach; these are the corners where the
\* questions are: one request and one master, with a process or a connection that fails; two
\* requests and a change of master, with one worker; applications and a change of master.
Corner ==
  \/ /\ epoch = 1 /\ NoApps /\ Requests <= 1
     /\ attempts[w1] + attempts[w2] <= 2 /\ breaks + kills <= 1
  \/ breaks = 0 /\ kills = 0 /\ NoApps /\ process[w2] = "new"
  \/ Requests = 0 /\ stops = 0 /\ \A w \in WorkerId : process[w] = "new"

\* Clients are alike, and so are the processes of the application.
Alike == Permutations(Client) \cup Permutations(AppProc)
=============================================================================
