------------------------ MODULE MasterDrivers_proofs ------------------------
(***************************************************************************)
(* The drivers of the master: what is stored of them, on which workers     *)
(* they are, and that the master keeps the ledger of DriverLedger, for     *)
(* every set of workers, drivers, applications and addresses.              *)
(*                                                                         *)
(* A DriverInfo is found by its id, and two submissions of one id are told *)
(* apart by nothing but their objects.  What is true of an id submitted    *)
(* once rests on KnownSubmitted: whatever the master knows, stores or has  *)
(* placed has been submitted, so two drivers of such an id are one.        *)
(***************************************************************************)
EXTENDS MoonboxMaster_proofs

\* Every DriverInfo the master knows of has been submitted before.
KnownSubmitted ==
  /\ \A o \in drivers : o.seq <= submitted[o.id]
  /\ \A i \in 1..Len(waitingDrivers) : waitingDrivers[i].seq <= submitted[waitingDrivers[i].id]
  /\ \A d \in DriverId : pdrivers[d] # None => pdrivers[d].seq <= submitted[d]
  /\ \A o \in DriverObj : o.seq > submitted[o.id] => dworker[o] = None

\* The inductive invariant.
DriversInv ==
  /\ MasterInv
  /\ KnownSubmitted
  /\ PersistedDriversMatch
  /\ PlacementIndexes

\* A step that accepts no driver revives none.
NoneRevived == submitted' = submitted /\ liveDrivers' \subseteq liveDrivers

\* The next submission of driver id d.
NextOf(d) == [id |-> d, seq |-> submitted[d] + 1]

Accepted(d) ==
  /\ NextOf(d) \in DriverObj
  /\ submitted' = [submitted EXCEPT ![d] = @ + 1]
  /\ liveDrivers' = liveDrivers \cup {NextOf(d)}

-----------------------------------------------------------------------------
(* Facts about driver objects                                              *)

\* The types the proofs need, in one place.
LEMMA DriverTypes ==
  ASSUME MasterInv
  PROVE  /\ drivers \subseteq DriverObj
         /\ waitingDrivers \in Seq(DriverObj) /\ Len(waitingDrivers) \in Nat
         /\ \A i \in 1..Len(waitingDrivers) : waitingDrivers[i] \in DriverObj
         /\ dworker \in [DriverObj -> WorkerRef \cup {None}]
         /\ submitted \in [DriverId -> 0..MaxSubmit]
         /\ pdrivers \in [DriverId -> DriverObj \cup {None}]
         /\ wdrivers \in [WorkerId -> SUBSET DriverId]
         /\ idToWorker \subseteq WorkerId
         /\ state \in {"STANDBY", "RECOVERING", "ACTIVE"}
<1>1. MasterTypeOK
  BY DEF MasterInv
<1>2. waitingDrivers \in Seq(DriverObj)
  BY <1>1 DEF MasterTypeOK, DriversTypeOK
<1>3. Len(waitingDrivers) \in Nat /\ \A i \in 1..Len(waitingDrivers) : waitingDrivers[i] \in DriverObj
  BY <1>2, LenProperties, ElementOfSeq
<1> QED
  BY <1>1, <1>2, <1>3 DEF MasterTypeOK, DriversTypeOK, PersistedTypeOK, WorkersTypeOK

\* An object is its id and its number.
LEMMA SameObject ==
  ASSUME NEW o \in DriverObj, NEW x \in DriverObj, o.id = x.id, o.seq = x.seq
  PROVE  o = x
BY DEF DriverObj

LEMMA ObjectTypes ==
  ASSUME NEW o \in DriverObj
  PROVE  /\ o.id \in DriverId /\ o.seq \in Nat /\ o.seq >= 1
         /\ o # None
BY ConstantsAssumption, NoneAssumption DEF DriverObj

\* An id submitted once has one driver.
LEMMA OnlyOne ==
  ASSUME DriversInv, NEW o \in drivers, NEW x \in drivers,
         o.id = x.id, submitted[o.id] = 1
  PROVE  o = x
<1>1. o \in DriverObj /\ x \in DriverObj
  BY DriverTypes DEF DriversInv
<1>2. o.seq <= 1 /\ x.seq <= 1
  BY DEF DriversInv, KnownSubmitted
<1>3. o.seq = x.seq
  BY <1>1, <1>2, ObjectTypes
<1> QED
  BY <1>1, <1>3, SameObject

\* Two references that are current are the same if their workers are.
LEMMA RefInjective == \A v, w \in WorkerId : Ref(v) = Ref(w) => v = w
BY DEF Ref

\* A reference is never None.
LEMMA RefSome ==
  ASSUME NEW w \in WorkerId
  PROVE  Ref(w) # None /\ Replaced(w) # None
<1>1. Ref(w) \in [id : WorkerId, current : BOOLEAN]
  BY DEF Ref
<1>2. Replaced(w) \in [id : WorkerId, current : BOOLEAN]
  BY DEF Replaced
<1> QED
  BY <1>1, <1>2, NoneAssumption

-----------------------------------------------------------------------------
(* schedule() and the places of drivers                                    *)

\* schedule() places waiting drivers, on alive workers, which know them.
LEMMA SchedulePlaces ==
  ASSUME NEW called, NEW waiting \in Seq(DriverObj), NEW ds,
         NEW dw \in [DriverObj -> WorkerRef \cup {None}],
         NEW wd \in [WorkerId -> SUBSET DriverId], NEW net,
         workers' \subseteq WorkerId,
         Schedule(called, waiting, ds, dw, wd, net)
  PROVE  /\ waitingDrivers' = <<>> \/ waitingDrivers' = waiting
         /\ \A w \in WorkerId : wd[w] \subseteq wdrivers'[w]
         /\ \A o \in DriverObj :
              \/ dworker'[o] = dw[o]
              \/ /\ \E i \in 1..Len(waiting) : waiting[i] = o
                 /\ \A w \in WorkerId : dworker'[o] = Ref(w) => w \in AliveNow /\ o.id \in wdrivers'[w]
<1>1. CASE ~ (called /\ state' = "ACTIVE" /\ AliveNow # {})
  BY <1>1 DEF Schedule
<1>2. CASE called /\ state' = "ACTIVE" /\ AliveNow # {}
  <2> DEFINE alive == AliveNow
             k == Cardinality(alive)
             n == Len(waiting)
  <2>1. alive \in SUBSET WorkerId /\ IsFiniteSet(alive)
    BY FS_Subset, ConstantsAssumption DEF AliveNow
  <2>2. k \in Nat /\ k > 0
    BY <1>2, <2>1, FS_CardinalityType, FS_EmptySet
  <2>3. PICK order \in Shuffles(alive) :
          /\ waitingDrivers' = <<>>
          /\ dworker' = [o \in DriverObj |->
               IF \E i \in 1..n : waiting[i] = o
               THEN Ref(order[Place(CHOOSE i \in 1..n : waiting[i] = o, k)])
               ELSE dw[o]]
          /\ wdrivers' = [w \in WorkerId |->
               wd[w] \cup {waiting[i].id : i \in {j \in 1..n : order[Place(j, k)] = w}}]
    BY <1>2 DEF Schedule
  <2>4. n \in Nat
    BY LenProperties
  <2>5. order \in [1..k -> alive]
    BY <2>1, ShuffleIsSeq
  <2>6. \A i \in 1..n : Place(i, k) \in 1..k
    BY <2>2, <2>4 DEF Place
  <2> HIDE DEF alive, k, n
  <2>7. ASSUME NEW o \in DriverObj, \E i \in 1..n : waiting[i] = o,
               NEW w \in WorkerId, dworker'[o] = Ref(w)
        PROVE  w \in alive /\ o.id \in wdrivers'[w]
    <3> DEFINE i == CHOOSE i \in 1..n : waiting[i] = o
    <3>1. i \in 1..n /\ waiting[i] = o
      BY <2>7
    <3> HIDE DEF i
    <3>2. Ref(order[Place(i, k)]) = Ref(w)
      BY <2>3, <2>7 DEF i
    <3>3. order[Place(i, k)] \in alive
      BY <2>5, <2>6, <3>1
    <3>4. order[Place(i, k)] = w
      BY <2>1, <3>2, <3>3, RefInjective
    <3>5. waiting[i].id \in wdrivers'[w]
      BY <2>3, <3>1, <3>4
    <3> QED
      BY <3>1, <3>3, <3>4, <3>5
  <2>8. \A w \in WorkerId : wd[w] \subseteq wdrivers'[w]
    BY <2>3
  <2>9. ASSUME NEW o \in DriverObj
        PROVE  \/ dworker'[o] = dw[o]
               \/ /\ \E i \in 1..n : waiting[i] = o
                  /\ \A w \in WorkerId : dworker'[o] = Ref(w) => w \in alive /\ o.id \in wdrivers'[w]
    BY <2>3, <2>7
  <2> QED
    BY <2>3, <2>8, <2>9 DEF alive, n
<1> QED
  BY <1>1, <1>2

\* What has to hold before schedule() runs for the places to agree afterwards.
LEMMA PlacesAgree ==
  ASSUME NEW called, NEW waiting \in Seq(DriverObj), NEW ds,
         NEW dw \in [DriverObj -> WorkerRef \cup {None}],
         NEW wd \in [WorkerId -> SUBSET DriverId], NEW net,
         MasterInv', Schedule(called, waiting, ds, dw, wd, net),
         \A o \in drivers', w \in WorkerId :
           submitted'[o.id] = 1 /\ dw[o] = Ref(w) => w \in idToWorker' /\ o.id \in wd[w]
  PROVE  PlacementIndexes'
<1>1. workers' \subseteq WorkerId /\ drivers' \subseteq DriverObj
  BY DEF MasterInv, MasterTypeOK, WorkersTypeOK, DriversTypeOK
<1>2. AliveNow \subseteq idToWorker'
  BY DEF MasterInv, WorkerIndexes, AliveNow
<1>3. ASSUME NEW o \in drivers', NEW w \in WorkerId, submitted'[o.id] = 1, dworker'[o] = Ref(w)
      PROVE  w \in idToWorker' /\ o.id \in wdrivers'[w]
  <2>1. o \in DriverObj
    BY <1>1
  <2>2. /\ wd[w] \subseteq wdrivers'[w]
        /\ \/ dworker'[o] = dw[o]
           \/ w \in AliveNow /\ o.id \in wdrivers'[w]
    BY <1>1, <1>3, <2>1, SchedulePlaces
  <2> QED
    BY <1>2, <1>3, <2>2
<1> QED
  BY <1>3 DEF PlacementIndexes

-----------------------------------------------------------------------------
(* Steps that accept no driver                                             *)

\* Nothing new is known.
LEMMA KnownKept ==
  ASSUME DriversInv, MasterInv', submitted' = submitted, drivers' \subseteq drivers,
         \A i \in 1..Len(waitingDrivers') :
           \E j \in 1..Len(waitingDrivers) : waitingDrivers'[i] = waitingDrivers[j],
         \A d \in DriverId : pdrivers'[d] \in {None, pdrivers[d]},
         \A o \in DriverObj :
           \/ dworker'[o] = None
           \/ dworker[o] # None
           \/ o \in drivers
           \/ \E i \in 1..Len(waitingDrivers) : waitingDrivers[i] = o
  PROVE  KnownSubmitted'
<1>1. \A o \in drivers' : o.seq <= submitted'[o.id]
  BY DEF DriversInv, KnownSubmitted
<1>2. \A i \in 1..Len(waitingDrivers') : waitingDrivers'[i].seq <= submitted'[waitingDrivers'[i].id]
  BY DEF DriversInv, KnownSubmitted
<1>3. \A d \in DriverId : pdrivers'[d] # None => pdrivers'[d].seq <= submitted'[d]
  BY DEF DriversInv, KnownSubmitted
<1>4. ASSUME NEW o \in DriverObj, o.seq > submitted'[o.id]
      PROVE  dworker'[o] = None
  <2>1. o.seq \in Nat /\ submitted[o.id] \in Nat
    BY ObjectTypes, DriverTypes, ConstantsAssumption DEF DriversInv
  <2>2. dworker[o] = None
    BY <1>4 DEF DriversInv, KnownSubmitted
  <2>3. o \notin drivers /\ \A i \in 1..Len(waitingDrivers) : waitingDrivers[i] # o
    BY <1>4, <2>1 DEF DriversInv, KnownSubmitted
  <2> QED
    BY <2>2, <2>3
<1> QED
  BY <1>1, <1>2, <1>3, <1>4 DEF KnownSubmitted

\* schedule() places only drivers that wait, which are known.
LEMMA KnownScheduled ==
  ASSUME DriversInv, MasterInv', submitted' = submitted, drivers' \subseteq drivers,
         NEW called, NEW ds, NEW dw \in [DriverObj -> WorkerRef \cup {None}],
         NEW wd \in [WorkerId -> SUBSET DriverId], NEW net,
         Schedule(called, waitingDrivers, ds, dw, wd, net),
         \A d \in DriverId : pdrivers'[d] \in {None, pdrivers[d]},
         \A o \in DriverObj : dw[o] = None \/ dworker[o] # None \/ o \in drivers
  PROVE  KnownSubmitted'
<1>1. waitingDrivers \in Seq(DriverObj) /\ workers' \subseteq WorkerId
  BY DriverTypes DEF DriversInv, MasterInv, MasterTypeOK, WorkersTypeOK
<1>2. /\ waitingDrivers' = <<>> \/ waitingDrivers' = waitingDrivers
      /\ \A o \in DriverObj :
           dworker'[o] = dw[o] \/ \E i \in 1..Len(waitingDrivers) : waitingDrivers[i] = o
  BY <1>1, SchedulePlaces
<1>3. \A i \in 1..Len(waitingDrivers') :
        \E j \in 1..Len(waitingDrivers) : waitingDrivers'[i] = waitingDrivers[j]
  BY <1>2
<1>4. \A o \in DriverObj :
         \/ dworker'[o] = None \/ dworker[o] # None \/ o \in drivers
         \/ \E i \in 1..Len(waitingDrivers) : waitingDrivers[i] = o
  BY <1>2
<1> QED
  BY <1>3, <1>4, KnownKept

\* removeDriver deletes the node of the id: of the driver itself, if the id was submitted
\* once, and otherwise perhaps of another one.
LEMMA PersistedKept ==
  ASSUME DriversInv, NEW gone \in SUBSET drivers, RemoveDrivers(gone),
         submitted' = submitted, state' = "STANDBY" <=> state = "STANDBY"
  PROVE  PersistedDriversMatch' /\ NoneRevived
<1>1. /\ drivers' = drivers \ gone
      /\ pdrivers' = [d \in DriverId |-> IF \E o \in gone : o.id = d THEN None ELSE pdrivers[d]]
  BY DEF RemoveDrivers
<1>2. drivers \subseteq DriverObj /\ pdrivers \in [DriverId -> DriverObj \cup {None}]
  BY DriverTypes DEF DriversInv
<1>3. \A d \in DriverId : pdrivers'[d] # None => pdrivers'[d].id = d
  BY <1>1 DEF DriversInv, PersistedDriversMatch
<1>4. ASSUME state # "STANDBY", NEW d \in DriverId, pdrivers'[d] # None
      PROVE  pdrivers'[d] \in drivers'
  <2>1. pdrivers'[d] = pdrivers[d] /\ \A o \in gone : o.id # d
    BY <1>1, <1>4
  <2>2. pdrivers[d] \in drivers /\ pdrivers[d].id = d
    BY <1>4, <2>1 DEF DriversInv, PersistedDriversMatch
  <2> QED
    BY <1>1, <2>1, <2>2
<1>5. ASSUME state # "STANDBY", Zk, NEW o \in drivers', submitted'[o.id] = 1
      PROVE  pdrivers'[o.id] = o
  <2>1. o \in drivers /\ o \notin gone /\ o.id \in DriverId /\ submitted[o.id] = 1
    BY <1>1, <1>2, <1>5, ObjectTypes
  <2>2. \A x \in gone : x.id # o.id
    BY <2>1, OnlyOne
  <2>3. pdrivers[o.id] = o
    BY <1>5, <2>1 DEF DriversInv, PersistedDriversMatch
  <2> QED
    BY <1>1, <2>1, <2>2, <2>3
<1>6. PersistedDriversMatch'
  BY <1>3, <1>4, <1>5 DEF PersistedDriversMatch, Zk
<1>7. liveDrivers' \subseteq liveDrivers
  BY <1>1 DEF liveDrivers
<1> QED
  BY <1>6, <1>7 DEF NoneRevived

\* A step that leaves alone what is known of drivers.
LEMMA DriversUnchanged ==
  ASSUME DriversInv, MasterInv',
         UNCHANGED <<state, idToWorker, wdrivers, drivers, waitingDrivers, dworker,
                     submitted, pdrivers>>
  PROVE  DriversInv' /\ NoneRevived
<1>1. KnownSubmitted'
  BY DEF DriversInv, KnownSubmitted
<1>2. PersistedDriversMatch'
  BY DEF DriversInv, PersistedDriversMatch, Zk
<1>3. PlacementIndexes'
  BY DEF DriversInv, PlacementIndexes
<1>4. NoneRevived
  BY DEF NoneRevived, liveDrivers
<1> QED
  BY <1>1, <1>2, <1>3, <1>4 DEF DriversInv

\* A new actor, or a new process: what it finds stored is live, and was before.
LEMMA DriversForgotten ==
  ASSUME DriversInv, MasterInv', ForgetMemory, submitted' = submitted,
         \A d \in DriverId : pdrivers'[d] \in {None, pdrivers[d]}
  PROVE  DriversInv' /\ NoneRevived
<1>1. /\ drivers' = {} /\ waitingDrivers' = <<>> /\ state' = "STANDBY"
      /\ \A o \in DriverObj : dworker'[o] = None
  BY DEF ForgetMemory
<1>2. KnownSubmitted'
  BY <1>1, KnownKept
<1>3. PersistedDriversMatch'
  BY <1>1 DEF DriversInv, PersistedDriversMatch
<1>4. PlacementIndexes'
  BY <1>1 DEF PlacementIndexes
<1>5. liveDrivers' \subseteq liveDrivers
  BY <1>1 DEF liveDrivers, DriversInv, PersistedDriversMatch
<1> QED
  BY <1>2, <1>3, <1>4, <1>5 DEF DriversInv, NoneRevived

LEMMA DriversRemovalThrows ==
  ASSUME DriversInv, MasterInv', NEW gone \in SUBSET DriverObj, RemovalThrows(gone)
  PROVE  DriversInv' /\ NoneRevived
<1>1. PICK done \in SUBSET {o.id : o \in gone} :
        RestartActor([d \in DriverId |-> IF d \in done THEN None ELSE pdrivers[d]])
  BY DEF RemovalThrows
<1> QED
  BY <1>1, DriversForgotten DEF RestartActor

\* Where drivers are once those in gone have been removed: an id of a driver that stays, if
\* submitted once, is not taken off its worker.
LEMMA WorkersKeepOthers ==
  ASSUME DriversInv, NEW gone \in SUBSET drivers,
         NEW o \in drivers \ gone, NEW w \in WorkerId, submitted[o.id] = 1, dworker[o] = Ref(w)
  PROVE  w \in idToWorker /\ o.id \in wdrivers[w] /\ o.id \in wdriversAfter(gone)[w]
<1>1. w \in idToWorker /\ o.id \in wdrivers[w]
  BY DEF DriversInv, PlacementIndexes
<1>2. \A x \in gone : x.id # o.id
  BY OnlyOne
<1> QED
  BY <1>1, <1>2 DEF wdriversAfter

\* Removals that end with schedule(): the objects gone are no drivers any more, the workers R
\* not registered, and no driver of R stays.
LEMMA DriversRemoved ==
  ASSUME DriversInv, MasterInv', NEW gone \in SUBSET drivers, RemoveDrivers(gone),
         NEW called, NEW ds,
         submitted' = submitted, state' = "STANDBY" <=> state = "STANDBY",
         Schedule(called, waitingDrivers, ds, dworker, wdriversAfter(gone), toWorker),
         NEW R, idToWorker' = idToWorker \ R,
         \A o \in drivers \ gone, w \in R \cap WorkerId :
           submitted[o.id] = 1 => dworker[o] # Ref(w)
  PROVE  DriversInv' /\ NoneRevived
<1>1. /\ dworker \in [DriverObj -> WorkerRef \cup {None}]
      /\ waitingDrivers \in Seq(DriverObj)
      /\ wdriversAfter(gone) \in [WorkerId -> SUBSET DriverId]
      /\ drivers' = drivers \ gone
      /\ workers' \subseteq WorkerId
      /\ \A d \in DriverId : pdrivers'[d] \in {None, pdrivers[d]}
  BY DriverTypes DEF DriversInv, RemoveDrivers, wdriversAfter, MasterInv, MasterTypeOK, WorkersTypeOK
<1>2. PersistedDriversMatch' /\ NoneRevived
  BY PersistedKept
<1>3. PlacementIndexes'
  <2>1. ASSUME NEW o \in drivers', NEW w \in WorkerId, submitted'[o.id] = 1, dworker[o] = Ref(w)
        PROVE  w \in idToWorker' /\ o.id \in wdriversAfter(gone)[w]
    BY <1>1, <2>1, WorkersKeepOthers
  <2> QED
    BY <1>1, <2>1, PlacesAgree
<1>4. KnownSubmitted'
  BY <1>1, KnownScheduled
<1> QED
  BY <1>2, <1>3, <1>4 DEF DriversInv

\* The drivers of the workers that are removed, if submitted once, are removed with them.
LEMMA DriversRemoveAll ==
  ASSUME DriversInv, MasterInv',
         NEW R \in SUBSET idToWorker, NEW A, NEW newState,
         newState = "STANDBY" <=> state = "STANDBY",
         RemoveAll(R, A, newState)
  PROVE  DriversInv' /\ NoneRevived
<1> DEFINE ids == UNION {wdrivers[w] : w \in R}
<1>1. PICK gone \in Found(ids) :
        IF NoNode(gone)
        THEN RemovalThrows(gone)
        ELSE /\ state' = newState
             /\ idToWorker' = idToWorker \ R
             /\ RemoveDrivers(gone)
             /\ UNCHANGED submitted
             /\ Schedule(gone # {} \/ newState # state, waitingDrivers,
                         dstateAfter(gone, "ERROR"), dworker, wdriversAfter(gone), toWorker)
  BY DEF RemoveAll
<1>2. gone \in SUBSET drivers /\ drivers \subseteq DriverObj
  BY FoundInDrivers, DriverTypes DEF DriversInv
<1>3. CASE NoNode(gone)
  BY <1>1, <1>2, <1>3, DriversRemovalThrows
<1>4. CASE ~ NoNode(gone)
  <2>1. ASSUME NEW o \in drivers \ gone, NEW w \in R \cap WorkerId,
               submitted[o.id] = 1, dworker[o] = Ref(w)
        PROVE  FALSE
    <3>1. o.id \in ids
      BY <2>1 DEF DriversInv, PlacementIndexes
    <3>2. o \in Named(o.id)
      BY DEF Named
    <3>3. PICK x \in Named(o.id) : gone \cap Named(o.id) = {x}
      BY <3>1, <3>2 DEF Found
    <3>4. x = o
      BY <2>1, <3>3, OnlyOne DEF Named
    <3> QED
      BY <2>1, <3>3, <3>4
  <2> HIDE DEF ids
  <2>2. /\ state' = newState
        /\ idToWorker' = idToWorker \ R
        /\ RemoveDrivers(gone)
        /\ submitted' = submitted
        /\ Schedule(gone # {} \/ newState # state, waitingDrivers,
                    dstateAfter(gone, "ERROR"), dworker, wdriversAfter(gone), toWorker)
    BY <1>1, <1>4
  <2>3. \A o \in drivers \ gone, w \in R \cap WorkerId : submitted[o.id] = 1 => dworker[o] # Ref(w)
    BY <2>1
  <2>4. state' = "STANDBY" <=> state = "STANDBY"
    BY <2>2
  <2> QED
    BY <1>2, <2>2, <2>3, <2>4, DriversRemoved
<1> QED
  BY <1>3, <1>4

LEMMA DriversLost ==
  ASSUME DriversInv, MasterInv',
         \/ CompleteRecovery
         \/ \E a \in Addr : onDisconnected(a)
         \/ \E w \in WorkerId : CheckForWorkerTimeOut(w)
  PROVE  DriversInv' /\ NoneRevived
<1> USE DEF DriversInv
<1>1. CASE CompleteRecovery
  <2> DEFINE R == {w \in workers : wstate[w] = "UNKNOWN"}
             A == {p \in apps : astate[p] = "UNKNOWN"}
  <2>1. R \in SUBSET idToWorker
    BY DEF MasterInv, WorkerIndexes
  <2>2. RemoveAll(R, A, "ACTIVE") /\ state = "RECOVERING"
    BY <1>1 DEF CompleteRecovery
  <2> HIDE DEF R, A
  <2> QED
    BY <2>1, <2>2, DriversRemoveAll
<1>2. ASSUME NEW a \in Addr, onDisconnected(a)
      PROVE  DriversInv' /\ NoneRevived
  <2> DEFINE R == {addressToWorker[a]} \ {None}
             A == {addressToApp[a]} \ {None}
             left == canCompleteRecovery(workers, wstateAfter(R), apps \ A, astate)
             s == IF state = "RECOVERING" /\ left THEN "ACTIVE" ELSE state
  <2>1. R \in SUBSET idToWorker
    BY DEF MasterInv, WorkerIndexes
  <2>2. RemoveAll(R, A, s)
    BY <1>2 DEF onDisconnected
  <2>3. s = "STANDBY" <=> state = "STANDBY"
    OBVIOUS
  <2> HIDE DEF R, A, s
  <2> QED
    BY <2>1, <2>2, <2>3, DriversRemoveAll
<1>3. ASSUME NEW w \in WorkerId, CheckForWorkerTimeOut(w)
      PROVE  DriversInv' /\ NoneRevived
  <2>1. CASE wstate[w] # "DEAD" /\ RemoveAll({w}, {}, state)
    <3>1. {w} \in SUBSET idToWorker
      BY <1>3, <2>1 DEF CheckForWorkerTimeOut, MasterInv, WorkerIndexes
    <3> QED
      BY <2>1, <3>1, DriversRemoveAll
  <2>2. CASE UNCHANGED <<epoch, state, wstate, lastHeartbeat, wdrivers, idToWorker,
                         addressToWorker, driverVars, submitted, appVars, persistedVars,
                         channelVars>>
    BY <2>2, DriversUnchanged DEF driverVars, persistedVars
  <2> QED
    BY <1>3, <2>1, <2>2 DEF CheckForWorkerTimeOut
<1> QED
  BY <1>1, <1>2, <1>3

-----------------------------------------------------------------------------
(* Election                                                                *)

\* A master that is elected knows the stored drivers and no others.
LEMMA DriversElected ==
  ASSUME DriversInv, MasterInv', ElectedLeader
  PROVE  DriversInv' /\ NoneRevived
<1>1. state = "STANDBY" /\ drivers = {} /\ waitingDrivers = <<>>
  BY DEF ElectedLeader, DriversInv, MasterInv, StandbyEmpty
<1>2. CASE ElectedFresh /\ \A d \in DriverId : pdrivers[d] = None
  <2>1. /\ state' = "ACTIVE" /\ drivers' = {}
        /\ UNCHANGED <<waitingDrivers, dworker, submitted, pdrivers>>
    BY <1>1, <1>2 DEF ElectedFresh, driverVars, persistedVars
  <2>2. KnownSubmitted'
    BY <1>1, <2>1 DEF DriversInv, KnownSubmitted
  <2>3. PersistedDriversMatch' /\ PlacementIndexes'
    BY <1>2, <2>1 DEF PersistedDriversMatch, PlacementIndexes
  <2>4. NoneRevived
    BY <2>1 DEF NoneRevived, liveDrivers
  <2> QED
    BY <2>2, <2>3, <2>4 DEF DriversInv
<1>3. CASE beginRecovery
  <2>1. /\ state' = "RECOVERING" /\ drivers' = storedDrivers
        /\ UNCHANGED <<waitingDrivers, submitted, pdrivers>>
        /\ dworker' = [o \in DriverObj |-> IF o \in storedDrivers THEN None ELSE dworker[o]]
    BY <1>1, <1>3 DEF beginRecovery, recoverDrivers, persistedVars
  <2>2. /\ pdrivers \in [DriverId -> DriverObj \cup {None}]
        /\ \A d \in DriverId : pdrivers[d] # None => pdrivers[d].id = d
    BY DriverTypes DEF DriversInv, PersistedDriversMatch
  <2>3. \A o \in drivers' : o \in DriverObj /\ o.id \in DriverId /\ pdrivers[o.id] = o
    BY <2>1, <2>2, ObjectTypes DEF storedDrivers
  <2>4. KnownSubmitted'
    <3>1. \A o \in drivers' : o.seq <= submitted'[o.id]
      BY <2>1, <2>3, ObjectTypes DEF DriversInv, KnownSubmitted
    <3>2. \A o \in DriverObj : o.seq > submitted'[o.id] => dworker'[o] = None
      BY <2>1 DEF DriversInv, KnownSubmitted
    <3> QED
      BY <2>1, <3>1, <3>2 DEF DriversInv, KnownSubmitted
  <2>5. PersistedDriversMatch'
    BY <2>1, <2>2, <2>3 DEF PersistedDriversMatch, storedDrivers
  <2>6. PlacementIndexes'
    <3>1. \A w \in WorkerId : Ref(w) # None
      BY RefSome
    <3> QED
      BY <2>1, <2>3, <3>1 DEF PlacementIndexes
  <2>7. NoneRevived
    BY <1>1, <2>1 DEF NoneRevived, liveDrivers, storedDrivers
  <2> QED
    BY <2>4, <2>5, <2>6, <2>7 DEF DriversInv
<1> QED
  BY <1>2, <1>3 DEF ElectedLeader

-----------------------------------------------------------------------------
(* Messages of workers and applications                                    *)

\* A worker that registers again is a new object: the drivers of the old one are on no worker
\* that is current.
LEMMA DriversWorkerAccepted ==
  ASSUME DriversInv, MasterInv', NEW w \in WorkerId, RegisterWorkerAccepted(w)
  PROVE  DriversInv' /\ NoneRevived
<1> DEFINE old == {addressToWorker[workerAddress[w]]} \ {None}
           ids == UNION {wdrivers[v] : v \in old}
           dw == [o \in DriverObj |-> IF dworker[o] = Ref(w) THEN Replaced(w) ELSE dworker[o]]
<1>1. PICK gone \in Found(ids) :
        IF NoNode(gone)
        THEN RemovalThrows(gone)
        ELSE /\ idToWorker' = (idToWorker \ old) \cup {w}
             /\ RemoveDrivers(gone)
             /\ UNCHANGED <<state, submitted>>
             /\ Schedule(TRUE, waitingDrivers, dstateAfter(gone, "ERROR"), dw,
                         [wdriversAfter(gone) EXCEPT ![w] = {}],
                         SendTo(toWorker, w, [type |-> "RegisteredWorker", master |-> epoch]))
  BY DEF RegisterWorkerAccepted
<1>2. gone \in SUBSET drivers /\ drivers \subseteq DriverObj
  BY FoundInDrivers, DriverTypes DEF DriversInv
<1>3. CASE NoNode(gone)
  BY <1>1, <1>2, <1>3, DriversRemovalThrows
<1>4. CASE ~ NoNode(gone)
  <2> DEFINE wd == [wdriversAfter(gone) EXCEPT ![w] = {}]
             net == SendTo(toWorker, w, [type |-> "RegisteredWorker", master |-> epoch])
             ds == dstateAfter(gone, "ERROR")
  <2>0. /\ idToWorker' = (idToWorker \ old) \cup {w}
        /\ RemoveDrivers(gone)
        /\ UNCHANGED <<state, submitted>>
        /\ Schedule(TRUE, waitingDrivers, ds, dw, wd, net)
    BY <1>1, <1>4
  <2>1. ASSUME NEW o \in drivers \ gone, NEW v \in WorkerId,
               submitted[o.id] = 1, dworker[o] = Ref(v)
        PROVE  /\ v \in idToWorker /\ v \notin old
               /\ o.id \in wdriversAfter(gone)[v]
    <3>1. v \in idToWorker /\ o.id \in wdrivers[v] /\ o.id \in wdriversAfter(gone)[v]
      BY <1>2, <2>1, WorkersKeepOthers
    <3>2. ASSUME v \in old PROVE FALSE
      <4>1. o \in Named(o.id) /\ o.id \in ids
        BY <3>1, <3>2 DEF Named
      <4>2. PICK x \in Named(o.id) : gone \cap Named(o.id) = {x}
        BY <4>1 DEF Found
      <4>3. x = o
        BY <2>1, <4>2, OnlyOne DEF Named
      <4> QED
        BY <2>1, <4>2, <4>3
    <3> QED
      BY <3>1, <3>2
  <2>2. /\ dw \in [DriverObj -> WorkerRef \cup {None}]
        /\ waitingDrivers \in Seq(DriverObj)
        /\ wd \in [WorkerId -> SUBSET DriverId]
        /\ drivers' = drivers \ gone
        /\ workers' \subseteq WorkerId
        /\ \A d \in DriverId : pdrivers'[d] \in {None, pdrivers[d]}
    BY <2>0, DriverTypes DEF DriversInv, RemoveDrivers, wdriversAfter, MasterInv, MasterTypeOK,
       WorkersTypeOK, Replaced, WorkerRef
  <2>3. \A v \in WorkerId : Replaced(w) # Ref(v)
    BY DEF Replaced, Ref
  <2>4. ASSUME NEW o \in DriverObj, NEW v \in WorkerId, dw[o] = Ref(v)
        PROVE  dworker[o] = Ref(v) /\ v # w
    BY <2>3, <2>4
  <2>5. \A o \in DriverObj : dw[o] = None <=> dworker[o] = None
    BY RefSome
  <2>6. PersistedDriversMatch' /\ NoneRevived
    BY <1>2, <2>0, PersistedKept
  <2> HIDE DEF dw, old, ids, net, ds
  <2>7. PlacementIndexes'
    <3>1. ASSUME NEW o \in drivers', NEW v \in WorkerId, submitted'[o.id] = 1, dw[o] = Ref(v)
          PROVE  v \in idToWorker' /\ o.id \in wd[v]
      <4>1. /\ o \in DriverObj /\ o \in drivers \ gone
            /\ dworker[o] = Ref(v) /\ v # w
        BY <1>2, <2>2, <2>4, <3>1
      <4>2. v \in idToWorker /\ v \notin old /\ o.id \in wdriversAfter(gone)[v]
        BY <2>0, <2>1, <3>1, <4>1
      <4> QED
        BY <2>0, <4>1, <4>2 DEF wdriversAfter
    <3> HIDE DEF wd
    <3> QED
      BY <2>0, <2>2, <3>1, PlacesAgree
  <2>8. KnownSubmitted'
    <3> HIDE DEF wd
    <3> QED
      BY <2>0, <2>2, <2>5, KnownScheduled
  <2> QED
    BY <2>6, <2>7, <2>8 DEF DriversInv
<1> QED
  BY <1>3, <1>4

\* The drivers a worker says it runs are placed there, if it is registered.
LEMMA DriversReported ==
  ASSUME DriversInv, MasterInv', NEW w \in WorkerId, NEW ids \in SUBSET DriverId,
         WorkerSchedulerStateResponse(w, ids)
  PROVE  DriversInv' /\ NoneRevived
<1> DEFINE reported == IF w \in idToWorker THEN ids ELSE {}
<1>1. PICK found \in Found(reported) :
        /\ state' = IF state = "RECOVERING" /\ canCompleteRecovery(workers, wstate', apps, astate)
                    THEN "ACTIVE" ELSE state
        /\ UNCHANGED <<workers, idToWorker, drivers, submitted, persistedVars>>
        /\ Schedule(state' # state, waitingDrivers, dstateAfter(found, "RUNNING"),
                    [o \in DriverObj |-> IF o \in found THEN Ref(w) ELSE dworker[o]],
                    [wdrivers EXCEPT ![w] = @ \cup {o.id : o \in found}], toWorker)
  BY DEF WorkerSchedulerStateResponse
<1> DEFINE called == state' # state
           ds == dstateAfter(found, "RUNNING")
           dw == [o \in DriverObj |-> IF o \in found THEN Ref(w) ELSE dworker[o]]
           wd == [wdrivers EXCEPT ![w] = @ \cup {o.id : o \in found}]
<1>2. Schedule(called, waitingDrivers, ds, dw, wd, toWorker)
  BY <1>1
<1>3. found \subseteq drivers /\ drivers \subseteq DriverObj /\ (found # {} => w \in idToWorker)
  BY DriverTypes DEF DriversInv, Found
<1>4. /\ dw \in [DriverObj -> WorkerRef \cup {None}]
      /\ wd \in [WorkerId -> SUBSET DriverId]
      /\ waitingDrivers \in Seq(DriverObj)
      /\ workers' \subseteq WorkerId
  BY <1>3, DriverTypes, ObjectTypes DEF DriversInv, Ref, WorkerRef, MasterInv, MasterTypeOK, WorkersTypeOK
<1>5. ASSUME NEW o \in drivers', NEW v \in WorkerId, submitted'[o.id] = 1, dw[o] = Ref(v)
      PROVE  v \in idToWorker' /\ o.id \in wd[v]
  <2>0. o \in drivers /\ o \in DriverObj
    BY <1>1, <1>3
  <2>1. CASE o \in found
    <3>1. v = w
      BY <1>5, <2>0, <2>1, RefInjective
    <3> QED
      BY <1>1, <1>3, <2>1, <3>1, DriverTypes DEF DriversInv
  <2>2. CASE o \notin found
    <3>1. v \in idToWorker /\ o.id \in wdrivers[v]
      BY <1>1, <1>5, <2>0, <2>2 DEF DriversInv, PlacementIndexes
    <3> QED
      BY <1>1, <3>1, DriverTypes DEF DriversInv
  <2> QED
    BY <2>1, <2>2
<1> HIDE DEF reported, called, ds, dw, wd
<1>6. PlacementIndexes'
  BY <1>2, <1>4, <1>5, PlacesAgree
<1>7. KnownSubmitted'
  <2>1. \A o \in DriverObj : dw[o] = None \/ dworker[o] # None \/ o \in drivers
    BY <1>3 DEF dw
  <2>2. \A d \in DriverId : pdrivers'[d] \in {None, pdrivers[d]}
    BY <1>1 DEF persistedVars
  <2>3. submitted' = submitted /\ drivers' \subseteq drivers
    BY <1>1
  <2> QED
    BY <1>2, <1>4, <2>1, <2>2, <2>3, KnownScheduled
<1>8. PersistedDriversMatch' /\ NoneRevived
  BY <1>1 DEF DriversInv, PersistedDriversMatch, Zk, NoneRevived, liveDrivers, persistedVars
<1> QED
  BY <1>6, <1>7, <1>8 DEF DriversInv

\* A step that may call schedule() and changes nothing else about drivers.
LEMMA DriversScheduled ==
  ASSUME DriversInv, MasterInv', NEW called,
         UNCHANGED <<workers, idToWorker, drivers, submitted, pdrivers>>,
         state' = "STANDBY" <=> state = "STANDBY",
         Schedule(called, waitingDrivers, dstate, dworker, wdrivers, toWorker)
  PROVE  DriversInv' /\ NoneRevived
<1>1. /\ dworker \in [DriverObj -> WorkerRef \cup {None}]
      /\ wdrivers \in [WorkerId -> SUBSET DriverId]
      /\ waitingDrivers \in Seq(DriverObj)
      /\ workers' \subseteq WorkerId
  BY DriverTypes DEF DriversInv, MasterInv, MasterTypeOK, WorkersTypeOK
<1>2. \A o \in drivers', w \in WorkerId :
        submitted'[o.id] = 1 /\ dworker[o] = Ref(w) => w \in idToWorker' /\ o.id \in wdrivers[w]
  BY DEF DriversInv, PlacementIndexes
<1>3. PlacementIndexes'
  BY <1>1, <1>2, PlacesAgree
<1>4. KnownSubmitted'
  BY <1>1, KnownScheduled
<1>5. PersistedDriversMatch' /\ NoneRevived
  BY DEF DriversInv, PersistedDriversMatch, Zk, NoneRevived, liveDrivers
<1> QED
  BY <1>3, <1>4, <1>5 DEF DriversInv

LEMMA DriversWorkerMessage ==
  ASSUME DriversInv, MasterInv', NEW w \in WorkerId, WorkerMessage(w) \/ TimePasses(w)
  PROVE  DriversInv' /\ NoneRevived
<1> USE DEF memoryVars, workerVars, driverVars, persistedVars
<1>1. CASE RegisterWorkerInStandby(w) \/ RegisterWorkerDuplicate(w) \/ RegisterWorkerAddressInUse(w)
  BY <1>1, DriversUnchanged
  DEF RegisterWorkerInStandby, RegisterWorkerDuplicate, RegisterWorkerAddressInUse
<1>2. CASE RegisterWorkerAccepted(w)
  BY <1>2, DriversWorkerAccepted
<1>3. CASE Heartbeat(w) \/ TimePasses(w)
  BY <1>3, DriversUnchanged DEF Heartbeat, TimePasses, masterVars
<1>4. ASSUME NEW ids \in SUBSET DriverId, WorkerSchedulerStateResponse(w, ids)
      PROVE  DriversInv' /\ NoneRevived
  BY <1>4, DriversReported
<1>5. ASSUME NEW ids \in SUBSET DriverId, WorkerLatestState(w, ids)
      PROVE  DriversInv' /\ NoneRevived
  BY <1>5, DriversUnchanged DEF WorkerLatestState
<1> QED
  BY <1>1, <1>2, <1>3, <1>4, <1>5 DEF WorkerMessage, RegisterWorker

LEMMA DriversAppMessage ==
  ASSUME DriversInv, MasterInv',
         \/ \E p \in AppProc : RegisterApplication(p)
         \/ \E d \in DriverId : ApplicationStateResponse(d)
  PROVE  DriversInv' /\ NoneRevived
<1>1. ASSUME NEW p \in AppProc, RegisterApplication(p)
      PROVE  DriversInv' /\ NoneRevived
  BY <1>1, DriversUnchanged DEF RegisterApplication, RegisterApplicationInStandby,
     RegisterApplicationRefused, RegisterApplicationAccepted, memoryVars, workerVars, driverVars,
     persistedVars
<1>2. ASSUME NEW d \in DriverId, ApplicationStateResponse(d)
      PROVE  DriversInv' /\ NoneRevived
  <2> DEFINE called == state' # state
  <2>1. /\ UNCHANGED <<workers, idToWorker, drivers, submitted, pdrivers>>
        /\ Schedule(called, waitingDrivers, dstate, dworker, wdrivers, toWorker)
    BY <1>2 DEF ApplicationStateResponse, persistedVars
  <2>2. state' = "STANDBY" <=> state = "STANDBY"
    BY <1>2 DEF ApplicationStateResponse
  <2> HIDE DEF called
  <2> QED
    BY <2>1, <2>2, DriversScheduled
<1> QED
  BY <1>1, <1>2

-----------------------------------------------------------------------------
(* Messages about drivers                                                  *)

\* A submission is a new object: nothing the master knew of is that object.
LEMMA FreshObject ==
  ASSUME DriversInv, NEW d \in DriverId, submitted[d] < MaxSubmit
  PROVE  /\ NextOf(d) \in DriverObj /\ NextOf(d).id = d /\ NextOf(d).seq = submitted[d] + 1
         /\ NextOf(d) \notin drivers
         /\ dworker[NextOf(d)] = None
         /\ submitted[d] \in Nat
<1>1. submitted[d] \in Nat /\ submitted \in [DriverId -> 0..MaxSubmit]
  BY DriverTypes, ConstantsAssumption DEF DriversInv
<1>2. NextOf(d) \in DriverObj /\ NextOf(d).id = d /\ NextOf(d).seq = submitted[d] + 1
  BY <1>1, ConstantsAssumption DEF NextOf, DriverObj
<1> HIDE DEF NextOf
<1>3. NextOf(d).seq > submitted[NextOf(d).id]
  BY <1>1, <1>2
<1>4. NextOf(d) \notin drivers /\ dworker[NextOf(d)] = None
  BY <1>1, <1>2, <1>3 DEF DriversInv, KnownSubmitted
<1> QED
  BY <1>1, <1>2, <1>4

LEMMA DriversSubmitted ==
  ASSUME DriversInv, MasterInv', NEW d \in DriverId, RequestSubmitDriver(d)
  PROVE  DriversInv' /\ (NoneRevived \/ Accepted(d))
<1>1. CASE state # "ACTIVE" /\ UNCHANGED <<memoryVars, toWorker, toApp>>
  BY <1>1, DriversUnchanged DEF memoryVars, workerVars, driverVars, persistedVars
<1>2. CASE state = "ACTIVE" /\ submitted[d] < MaxSubmit /\ UNCHANGED <<state, workers, idToWorker>>
  <2> DEFINE o == NextOf(d)
             waiting == Append(waitingDrivers, o)
  <2>1. /\ submitted' = [submitted EXCEPT ![d] = @ + 1]
        /\ pdrivers' = IF Zk THEN [pdrivers EXCEPT ![d] = o] ELSE pdrivers
        /\ drivers' = drivers \cup {o}
        /\ UNCHANGED <<state, workers, idToWorker>>
        /\ Schedule(TRUE, waiting, dstate, dworker, wdrivers, toWorker)
    BY <1>2 DEF RequestSubmitDriver, NextOf
  <2>2. /\ o \in DriverObj /\ o.id = d /\ o.seq = submitted[d] + 1
        /\ o \notin drivers /\ dworker[o] = None /\ submitted[d] \in Nat
    BY <1>2, FreshObject
  <2>3. /\ dworker \in [DriverObj -> WorkerRef \cup {None}]
        /\ wdrivers \in [WorkerId -> SUBSET DriverId]
        /\ waitingDrivers \in Seq(DriverObj) /\ Len(waitingDrivers) \in Nat
        /\ \A i \in 1..Len(waitingDrivers) : waitingDrivers[i] \in DriverObj
        /\ drivers \subseteq DriverObj
        /\ submitted \in [DriverId -> 0..MaxSubmit]
        /\ pdrivers \in [DriverId -> DriverObj \cup {None}]
    BY DriverTypes DEF DriversInv
  <2>4. workers' \subseteq WorkerId
    BY DEF MasterInv, MasterTypeOK, WorkersTypeOK
  <2> HIDE DEF o
  <2>5. /\ waiting \in Seq(DriverObj) /\ Len(waiting) = Len(waitingDrivers) + 1
        /\ \A i \in 1..Len(waiting) :
             waiting[i] = IF i = Len(waitingDrivers) + 1 THEN o ELSE waitingDrivers[i]
    BY <2>2, <2>3, AppendProperties
  <2> HIDE DEF waiting
  <2>6. \A e \in DriverId : /\ submitted[e] \in Nat /\ submitted'[e] \in Nat
                            /\ submitted[e] <= submitted'[e]
                            /\ e # d => submitted'[e] = submitted[e]
                            /\ submitted'[d] = submitted[d] + 1
    BY <2>1, <2>2, <2>3, ConstantsAssumption
  <2>7. \A x \in DriverObj : x.seq <= submitted[x.id] => x.seq <= submitted'[x.id]
    BY <2>6, ObjectTypes
  <2>8. \A i \in 1..Len(waiting) :
           waiting[i] \in DriverObj /\ waiting[i].seq <= submitted'[waiting[i].id]
    <3> SUFFICES ASSUME NEW i \in 1..Len(waiting)
                 PROVE  waiting[i] \in DriverObj /\ waiting[i].seq <= submitted'[waiting[i].id]
      OBVIOUS
    <3>1. CASE i = Len(waitingDrivers) + 1
      BY <2>2, <2>5, <2>6, <3>1
    <3>2. CASE i # Len(waitingDrivers) + 1
      <4>1. i \in 1..Len(waitingDrivers) /\ waiting[i] = waitingDrivers[i]
        BY <2>3, <2>5, <3>2
      <4> QED
        BY <2>3, <2>7, <4>1 DEF DriversInv, KnownSubmitted
    <3> QED
      BY <3>1, <3>2
  <2>9. /\ waitingDrivers' = <<>> \/ waitingDrivers' = waiting
        /\ \A x \in DriverObj :
             dworker'[x] = dworker[x] \/ \E i \in 1..Len(waiting) : waiting[i] = x
    BY <2>1, <2>3, <2>4, <2>5, SchedulePlaces
  <2>10. KnownSubmitted'
    <3>1. \A x \in drivers' : x.seq <= submitted'[x.id]
      BY <2>1, <2>2, <2>3, <2>6, <2>7 DEF DriversInv, KnownSubmitted
    <3>2. \A i \in 1..Len(waitingDrivers') : waitingDrivers'[i].seq <= submitted'[waitingDrivers'[i].id]
      BY <2>8, <2>9
    <3>3. ASSUME NEW e \in DriverId, pdrivers'[e] # None
          PROVE  pdrivers'[e].seq <= submitted'[e]
      <4>1. CASE pdrivers'[e] = pdrivers[e]
        <5>1. pdrivers[e] \in DriverObj /\ pdrivers[e].seq <= submitted[e]
          BY <2>3, <3>3, <4>1 DEF DriversInv, KnownSubmitted
        <5> QED
          BY <2>6, <4>1, <5>1, ObjectTypes
      <4>2. CASE e = d /\ pdrivers'[e] = o
        BY <2>2, <2>6, <4>2
      <4> QED
        BY <2>1, <2>3, <4>1, <4>2
    <3>4. ASSUME NEW x \in DriverObj, x.seq > submitted'[x.id]
          PROVE  dworker'[x] = None
      <4>1. x.id \in DriverId /\ x.seq \in Nat
        BY ObjectTypes
      <4>2. x.seq > submitted[x.id]
        BY <2>6, <3>4, <4>1
      <4>3. \A i \in 1..Len(waiting) : waiting[i] # x
        BY <2>6, <2>8, <3>4, <4>1
      <4>4. dworker[x] = None
        BY <4>2 DEF DriversInv, KnownSubmitted
      <4> QED
        BY <2>9, <4>3, <4>4
    <3> QED
      BY <3>1, <3>2, <3>3, <3>4 DEF KnownSubmitted
  <2>11. PersistedDriversMatch'
    <3>1. ASSUME NEW e \in DriverId, pdrivers'[e] # None
          PROVE  pdrivers'[e].id = e /\ pdrivers'[e] \in drivers'
      BY <1>2, <2>1, <2>2, <2>3, <3>1 DEF DriversInv, PersistedDriversMatch
    <3>2. ASSUME Zk, NEW x \in drivers', submitted'[x.id] = 1
          PROVE  pdrivers'[x.id] = x
      <4>1. CASE x = o
        BY <2>1, <2>2, <2>3, <3>2, <4>1
      <4>2. CASE x \in drivers
        <5>1. x \in DriverObj /\ x.id \in DriverId /\ x.seq >= 1 /\ x.seq \in Nat
          BY <2>3, <4>2, ObjectTypes
        <5>2. x.seq <= submitted[x.id]
          BY <4>2 DEF DriversInv, KnownSubmitted
        <5>3. x.id # d /\ submitted[x.id] = 1
          BY <2>2, <2>6, <3>2, <5>1, <5>2
        <5>4. pdrivers[x.id] = x
          BY <1>2, <3>2, <4>2, <5>3 DEF DriversInv, PersistedDriversMatch
        <5> QED
          BY <2>1, <2>3, <5>1, <5>3, <5>4
      <4> QED
        BY <2>1, <4>1, <4>2
    <3> QED
      BY <3>1, <3>2 DEF PersistedDriversMatch, Zk
  <2>12. PlacementIndexes'
    <3>1. ASSUME NEW x \in drivers', NEW w \in WorkerId, submitted'[x.id] = 1, dworker[x] = Ref(w)
          PROVE  w \in idToWorker' /\ x.id \in wdrivers[w]
      <4>1. x # o
        BY <2>2, <3>1, RefSome
      <4>2. x \in drivers /\ x \in DriverObj /\ x.id \in DriverId /\ x.seq \in Nat /\ x.seq >= 1
        BY <2>1, <2>3, <4>1, ObjectTypes
      <4>3. x.seq <= submitted[x.id]
        BY <4>2 DEF DriversInv, KnownSubmitted
      <4>4. submitted[x.id] = 1
        BY <2>6, <3>1, <4>2, <4>3
      <4>5. PlacementIndexes /\ dworker[x] = Ref(w)
        BY <3>1 DEF DriversInv
      <4>6. w \in idToWorker /\ x.id \in wdrivers[w]
        BY <4>2, <4>4, <4>5 DEF PlacementIndexes
      <4> QED
        BY <2>1, <4>6
    <3>2. \A x \in drivers', w \in WorkerId :
            submitted'[x.id] = 1 /\ dworker[x] = Ref(w) => w \in idToWorker' /\ x.id \in wdrivers[w]
      BY <3>1
    <3>3. PICK ds, net : Schedule(TRUE, waiting, ds, dworker, wdrivers, net)
      BY <2>1
    <3> QED
      BY <2>3, <2>5, <3>2, <3>3, PlacesAgree
  <2>13. Accepted(d)
    <3>1. liveDrivers = drivers /\ liveDrivers' = drivers'
      BY <1>2 DEF liveDrivers
    <3> QED
      BY <2>1, <2>2, <3>1 DEF Accepted, o
  <2> QED
    BY <2>10, <2>11, <2>12, <2>13 DEF DriversInv
<1> QED
  BY <1>1, <1>2 DEF RequestSubmitDriver

\* A driver that is killed while it waits leaves the queue; the others stay in it.
LEMMA DriversKill ==
  ASSUME DriversInv, MasterInv', NEW d \in DriverId, RequestKillDriver(d)
  PROVE  DriversInv' /\ NoneRevived
<1>1. UNCHANGED <<state, idToWorker, wdrivers, drivers, dworker, submitted, pdrivers>>
  BY DEF RequestKillDriver, workerVars, persistedVars
<1>2. waitingDrivers \in Seq(DriverObj) /\ Len(waitingDrivers) \in Nat
  BY DriverTypes DEF DriversInv
<1>3. \A k \in 1..Len(waitingDrivers') :
        \E j \in 1..Len(waitingDrivers) : waitingDrivers'[k] = waitingDrivers[j]
  <2>1. CASE UNCHANGED waitingDrivers
    BY <2>1
  <2>2. ASSUME NEW i \in 1..Len(waitingDrivers),
               waitingDrivers' = [j \in 1..(Len(waitingDrivers) - 1) |->
                                    IF j < i THEN waitingDrivers[j] ELSE waitingDrivers[j + 1]]
        PROVE  \A k \in 1..Len(waitingDrivers') :
                 \E j \in 1..Len(waitingDrivers) : waitingDrivers'[k] = waitingDrivers[j]
    <3> DEFINE n == Len(waitingDrivers) - 1
    <3>1. n \in Nat /\ \A j \in 1..n : j \in 1..Len(waitingDrivers) /\ j + 1 \in 1..Len(waitingDrivers)
      BY <1>2
    <3>2. waitingDrivers' \in Seq(DriverObj) /\ Len(waitingDrivers') = n
      <4>1. waitingDrivers' \in Seq(DriverObj)
        BY DriverTypes DEF MasterInv, MasterTypeOK, DriversTypeOK
      <4>2. DOMAIN waitingDrivers' = 1..n
        BY <2>2
      <4> QED
        BY <3>1, <4>1, <4>2, LenProperties
    <3> QED
      BY <2>2, <3>1, <3>2
  <2> QED
    BY <2>1, <2>2 DEF RequestKillDriver
<1>4. KnownSubmitted'
  <2>1. \A o \in DriverObj : dworker'[o] = None \/ dworker[o] # None
    BY <1>1
  <2> QED
    BY <1>1, <1>3, <2>1, KnownKept
<1>5. PersistedDriversMatch' /\ PlacementIndexes' /\ NoneRevived
  BY <1>1 DEF DriversInv, PersistedDriversMatch, Zk, PlacementIndexes, NoneRevived, liveDrivers
<1> QED
  BY <1>4, <1>5 DEF DriversInv

\* The report of a driver's end removes one driver of its id.
LEMMA DriversStateChanged ==
  ASSUME DriversInv, MasterInv', NEW d \in DriverId, NEW st, DriverStateChanged(d, st)
  PROVE  DriversInv' /\ NoneRevived
<1>1. CASE ~ isFinished(st)
  BY <1>1, DriversUnchanged DEF DriverStateChanged, workerVars, persistedVars
<1>2. CASE Named(d) = {} /\ UNCHANGED <<memoryVars, toWorker, toApp>>
  BY <1>2, DriversUnchanged DEF memoryVars, workerVars, driverVars, persistedVars
<1>3. ASSUME NEW o \in Named(d), NoNode({o}), RestartActor(pdrivers)
      PROVE  DriversInv' /\ NoneRevived
  BY <1>3, DriversForgotten DEF RestartActor
<1>4. ASSUME NEW o \in Named(d), RemoveDrivers({o}), UNCHANGED <<state, idToWorker, submitted>>,
             Schedule(TRUE, waitingDrivers, dstateAfter({o}, st), dworker, wdriversAfter({o}), toWorker)
      PROVE  DriversInv' /\ NoneRevived
  <2> DEFINE gone == {o}
             ds == dstateAfter({o}, st)
             R == {}
  <2>1. /\ gone \in SUBSET drivers /\ RemoveDrivers(gone)
        /\ Schedule(TRUE, waitingDrivers, ds, dworker, wdriversAfter(gone), toWorker)
        /\ idToWorker' = idToWorker \ R
        /\ \A x \in drivers \ gone, w \in R \cap WorkerId : submitted[x.id] = 1 => dworker[x] # Ref(w)
    BY <1>4 DEF Named
  <2>2. state' = "STANDBY" <=> state = "STANDBY"
    BY <1>4
  <2> HIDE DEF gone, ds, R
  <2> QED
    BY <1>4, <2>1, <2>2, DriversRemoved
<1> QED
  BY <1>1, <1>2, <1>3, <1>4 DEF DriverStateChanged, removeDriver

-----------------------------------------------------------------------------
(* The invariant                                                           *)

LEMMA DriversInit == MasterInit => DriversInv
<1> SUFFICES ASSUME MasterInit PROVE DriversInv
  OBVIOUS
<1>1. MasterInv
  BY InitInv
<1>2. KnownSubmitted /\ PersistedDriversMatch /\ PlacementIndexes
  BY DEF MasterInit, EmptyMemory, KnownSubmitted, PersistedDriversMatch, PlacementIndexes
<1> QED
  BY <1>1, <1>2 DEF DriversInv

\* Every step keeps the invariant, and revives no driver or accepts a new one.
LEMMA DriversStep ==
  ASSUME DriversInv, [MasterNext]_masterVars
  PROVE  DriversInv' /\ (NoneRevived \/ \E d \in DriverId : Accepted(d))
<1>0. MasterInv'
  BY InvStep DEF DriversInv
<1>1. CASE ElectedLeader
  BY <1>0, <1>1, DriversElected
<1>2. CASE CompleteRecovery
  BY <1>0, <1>2, DriversLost
<1>3. CASE ProcessExit
  <2>1. ForgetMemory /\ submitted' = submitted /\ pdrivers' = pdrivers
    BY <1>3 DEF ProcessExit, persistedVars
  <2> QED
    BY <1>0, <2>1, DriversForgotten
<1>4. CASE SelfMessage
  <2>1. toSelf \in Seq(ToSelfMsg) /\ toSelf # <<>>
    BY <1>4 DEF SelfMessage, DriversInv, MasterInv, MasterTypeOK, ChannelTypeOK
  <2>2. Head(toSelf) \in ToSelfMsg
    BY <2>1, HeadTailProperties
  <2>3. Head(toSelf).id \in DriverId
    BY <2>2 DEF ToSelfMsg
  <2> QED
    BY <1>0, <1>4, <2>3, DriversSubmitted, DriversStateChanged DEF SelfMessage
<1>5. CASE MessagesTaken \/ UNCHANGED masterVars
  BY <1>0, <1>5, DriversUnchanged DEF MessagesTaken, masterVars, memoryVars, workerVars,
     driverVars, persistedVars
<1>6. ASSUME NEW w \in WorkerId, WorkerMessage(w) \/ TimePasses(w) \/ CheckForWorkerTimeOut(w)
      PROVE  DriversInv' /\ NoneRevived
  BY <1>0, <1>6, DriversWorkerMessage, DriversLost
<1>7. ASSUME NEW d \in DriverId, DriverMessage(d)
      PROVE  DriversInv' /\ (NoneRevived \/ Accepted(d))
  BY <1>0, <1>7, DriversSubmitted, DriversKill, DriversStateChanged, DriversAppMessage DEF DriverMessage
<1>8. ASSUME NEW p \in AppProc, RegisterApplication(p)
      PROVE  DriversInv' /\ NoneRevived
  BY <1>0, <1>8, DriversAppMessage
<1>9. ASSUME NEW a \in Addr, onDisconnected(a)
      PROVE  DriversInv' /\ NoneRevived
  BY <1>0, <1>9, DriversLost
<1> QED
  BY <1>1, <1>2, <1>3, <1>4, <1>5, <1>6, <1>7, <1>8, <1>9 DEF MasterNext

\* The invariant holds in every state the master can reach.
THEOREM DriversInvariant == MasterSpec => []DriversInv
<1>1. MasterInit => DriversInv
  BY DriversInit
<1>2. DriversInv /\ [MasterNext]_masterVars => DriversInv'
  BY DriversStep
<1> QED
  BY <1>1, <1>2, PTL DEF MasterSpec

\* A leader's driver nodes are drivers it has not finished, and the driver of an id that was
\* submitted once keeps its node until it is finished: through restarts of the actor that
\* interrupt a removal, and failovers in the middle of a recovery.
THEOREM DriverNodesAgree == MasterSpec => []PersistedDriversMatch
<1>1. DriversInv => PersistedDriversMatch
  BY DEF DriversInv
<1> QED
  BY <1>1, DriversInvariant, PTL

\* A driver of an id submitted once that is placed on a worker is found when that worker is
\* lost, even if the worker was removed and has registered again in between.
THEOREM PlacesFound == MasterSpec => []PlacementIndexes
<1>1. DriversInv => PlacementIndexes
  BY DEF DriversInv
<1> QED
  BY <1>1, DriversInvariant, PTL

-----------------------------------------------------------------------------
(* The refinement                                                          *)

\* The entry of each driver.
LEMMA LedgerEntries ==
  ASSUME NEW o \in DriverObj
  PROVE  /\ o.seq > submitted[o.id] => ledger[o] = "none"
         /\ ~ (o.seq > submitted[o.id]) => ledger[o] = IF o \in liveDrivers THEN "live" ELSE "done"
BY DEF ledger

\* Live drivers have been submitted: in a standby master too, which knows none of them.
LEMMA LiveSubmitted ==
  ASSUME DriversInv, NEW o \in liveDrivers
  PROVE  o \in DriverObj /\ ~ (o.seq > submitted[o.id])
<1>1. o \in DriverObj /\ o.seq <= submitted[o.id]
  <2>1. CASE state = "STANDBY"
    <3>1. PICK d \in DriverId : o = pdrivers[d] /\ pdrivers[d] # None
      BY <2>1 DEF liveDrivers
    <3>2. pdrivers[d] \in DriverObj
      BY <3>1, DriverTypes DEF DriversInv
    <3> QED
      BY <3>1, <3>2 DEF DriversInv, KnownSubmitted, PersistedDriversMatch
  <2>2. CASE state # "STANDBY"
    BY <2>2, DriverTypes DEF liveDrivers, DriversInv, KnownSubmitted
  <2> QED
    BY <2>1, <2>2
<1>2. o.seq \in Nat /\ submitted[o.id] \in Nat
  BY <1>1, ObjectTypes, DriverTypes, ConstantsAssumption DEF DriversInv
<1> QED
  BY <1>1, <1>2

\* A step that revives no driver ends those that are live no more.
LEMMA LedgerFinish ==
  ASSUME DriversInv, DriversInv', NoneRevived
  PROVE  \E S \in SUBSET DriverObj : Ledger!Finish(S)
<1> DEFINE S == liveDrivers \ liveDrivers'
<1>1. \A o \in S : o \in DriverObj /\ ledger[o] = "live"
  BY LiveSubmitted, LedgerEntries
<1>2. ASSUME NEW o \in DriverObj
      PROVE  ledger'[o] = IF o \in S THEN "done" ELSE ledger[o]
  <2>1. submitted' = submitted /\ liveDrivers' \subseteq liveDrivers
    BY DEF NoneRevived
  <2>2. ledger'[o] = IF o.seq > submitted[o.id] THEN "none"
                     ELSE IF o \in liveDrivers' THEN "live" ELSE "done"
    BY <2>1 DEF ledger
  <2>3. CASE o.seq > submitted[o.id]
    BY <2>2, <2>3, LedgerEntries, LiveSubmitted
  <2>4. CASE ~ (o.seq > submitted[o.id])
    BY <2>1, <2>2, <2>4, LedgerEntries
  <2> QED
    BY <2>3, <2>4
<1>3. ledger' = [o \in DriverObj |-> ledger'[o]]
  BY DEF ledger
<1>4. S \in SUBSET DriverObj
  BY <1>1
<1>5. ledger' = [o \in DriverObj |-> IF o \in S THEN "done" ELSE ledger[o]]
  BY <1>2, <1>3
<1> HIDE DEF S
<1>6. Ledger!Finish(S)
  BY <1>1, <1>5 DEF Ledger!Finish
<1> QED
  BY <1>4, <1>6

\* A submission accepts the next object of its id.
LEMMA LedgerAccept ==
  ASSUME DriversInv, NEW d \in DriverId, Accepted(d)
  PROVE  \E o \in DriverObj : Ledger!Accept(o)
<1> DEFINE n == NextOf(d)
<1>1. /\ n \in DriverObj /\ submitted[d] \in Nat /\ n.id = d /\ n.seq = submitted[d] + 1
      /\ submitted' = [submitted EXCEPT ![d] = @ + 1]
      /\ liveDrivers' = liveDrivers \cup {n}
      /\ submitted \in [DriverId -> 0..MaxSubmit]
  BY DriverTypes, ConstantsAssumption DEF DriversInv, Accepted, NextOf
<1> HIDE DEF n
<1>2. ledger[n] = "none"
  BY <1>1, LedgerEntries
<1>3. ASSUME NEW o \in DriverObj
      PROVE  ledger'[o] = IF o = n THEN "live" ELSE ledger[o]
  <2>1. o.id \in DriverId /\ o.seq \in Nat /\ submitted[o.id] \in Nat
    BY <1>1, ObjectTypes, ConstantsAssumption
  <2>2. ledger'[o] = IF o.seq > submitted'[o.id] THEN "none"
                     ELSE IF o \in liveDrivers' THEN "live" ELSE "done"
    BY DEF ledger
  <2>3. submitted'[o.id] = IF o.id = d THEN submitted[d] + 1 ELSE submitted[o.id]
    BY <1>1, <2>1
  <2>4. CASE o = n
    BY <1>1, <2>2, <2>3, <2>4
  <2>5. CASE o # n
    <3>1. o.id = d => o.seq # submitted[d] + 1
      BY <1>1, <2>5, SameObject
    <3>2. o.seq > submitted'[o.id] <=> o.seq > submitted[o.id]
      BY <1>1, <2>1, <2>3, <3>1
    <3> QED
      BY <1>1, <2>2, <2>5, <3>2, LedgerEntries
  <2> QED
    BY <2>4, <2>5
<1>4. ledger' = [o \in DriverObj |-> ledger'[o]] /\ ledger = [o \in DriverObj |-> ledger[o]]
  BY DEF ledger
<1>5. ledger' = [ledger EXCEPT ![n] = "live"]
  BY <1>1, <1>3, <1>4
<1>6. Ledger!Accept(n)
  BY <1>2, <1>5 DEF Ledger!Accept
<1> QED
  BY <1>1, <1>6

\* The master implements DriverLedger: whatever order messages arrive in, whenever the actor
\* is restarted by its own exception, the process exits or another incarnation is elected,
\* each driver is accepted once and ends once.
THEOREM LedgerIsKept == MasterSpec => KeepsLedger
<1>1. MasterInit => Ledger!LedgerInit
  <2> SUFFICES ASSUME MasterInit PROVE Ledger!LedgerInit
    OBVIOUS
  <2>1. \A o \in DriverObj : o.seq > submitted[o.id]
    BY ObjectTypes DEF MasterInit
  <2>2. ledger = [o \in DriverObj |-> "none"]
    BY <2>1 DEF ledger
  <2> QED
    BY <2>2 DEF Ledger!LedgerInit
<1>2. DriversInv /\ DriversInv' /\ [MasterNext]_masterVars => [Ledger!LedgerNext]_ledger
  BY DriversStep, LedgerFinish, LedgerAccept DEF Ledger!LedgerNext
<1> QED
  BY <1>1, <1>2, DriversInvariant, PTL DEF MasterSpec, KeepsLedger, Ledger!LedgerSpec
=============================================================================
