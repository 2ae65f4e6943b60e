# Moonbox: a TLA+ model of the grid and of its queries

Moonbox is a federated query service on Spark. This directory models the parts of it that have to be right
under failure and concurrency: how a cluster of masters, workers and Spark applications agrees on who is there
and what runs where; how a query travels from a JDBC client to a session and its rows travel back; which parts
of a plan leave Spark for the systems that hold the tables; and how timed events are kept in step with the
catalog. TLC checks the modules on small instances. TLAPS proves, for every number of workers, drivers,
applications, addresses and failovers, the master's invariants, that it keeps the ledger of drivers, that all of
this holds in the grid, that the grid launches a driver at most once, that the drivers and applications the
master believes in are there, and that workers and applications follow the master that leads; for every number of connections, requests, rows, timeouts, cancellations and broken
channels, that no caller of the JDBC driver is forgotten, that a result set has the rows of its query, and that a
session whose `CloseSession` was answered stays closed; and for plans of any size that the pushdown rule is exact.

## 1. The system

| Part | Code | State | Operations |
|---|---|---|---|
| Master | `grid/deploy/master/MoonboxMaster.scala` and the `*Info` classes | recovery state; workers, drivers, applications and their indexes; the waiting list | election, recovery, registration, heartbeats, timeouts, submit, kill, state reports, disconnection |
| Recovery store | `PersistenceEngine`, `ZookeeperPersistenceEngine` | one node per worker, driver, application | persist, unpersist, read all |
| Leader election | `ZooKeeperLeaderElectionAgent` | the latch | elected, revoked (the process exits) |
| Worker | `grid/deploy/worker/MoonboxWorker.scala` | its master, registration flags and counter, its runners | register with retries, heartbeat, launch, kill, forward reports, shut down |
| Driver runner | `grid/deploy/app/DriverRunner.scala`, `*AppMaster.scala` | the handle of one Spark process | start, kill, report |
| Interactive application | `applications/spark-interactive/.../Main.scala`, `SparkServerHandler.scala`, `Runner.scala` | its master, registration flags; sessions, each with the data of its last query | register, answer a new master; open, query, fetch, cancel, close |
| REST services | `grid/deploy/rest/service` | the workbench's connection cache | start and stop applications; catalog operations |
| Service requests, timed events | `MoonboxMaster.scala`, `grid/timer` | Quartz jobs | route a request to an application; add, replace, delete, fire |
| RPC transport | `network/` | per channel, the table of outstanding callbacks | send, answer, fail a write, sweep the table, close |
| JDBC driver | `jdbc/` | the future of the running request, statement and result set states | execute, next, cancel, close |
| Listener bus | `grid/listener/MbListenerBus.scala` | – | dead code: nothing creates one |
| Catalog | `catalog/` | the metadata database | checks and multi-step updates |
| Session engine | `core/` | Spark session, privileges, plans | parse, check, optimise, push down |
| Thrift server, REPL, launcher, data source clients | `thriftserver/`, `repl/`, `launcher/`, `external/`, `catalyst/` | – | derived from Hive and Spark, or glue |

**How they interact.** Master, worker and `Main` are Akka actors (`MbActor.receive` first looks at
`DisassociatedEvent`, then at the messages). Workers and applications send `Register...` until they are
accepted; the master answers, and after a failover sends `MasterChanged` to everybody it finds in
ZooKeeper. `schedule()` moves waiting drivers to alive workers with `LaunchDriver`; a worker starts a
`DriverRunner` thread, whose listener reports the Spark process's states; the worker forwards them with
`DriverStateChanged`. REST clients start an application by asking for its driver's status and then
submitting it. An exception in a handler restarts the actor, which then has none of its fields.

A JDBC client asks the master for an application, opens a channel to it and a session on it, and sends
requests that are matched with their answers by an id. The application's handler takes the requests of a
channel in order and runs queries and fetches as futures. The session engine optimises the query's plan and
lets the pushdown rule hand parts of it to the systems that hold the tables. Commands on timed events go from
the session to the master's scheduler and then to the catalog.

**What is hard.** Registration retries, `MasterChanged`, heartbeats and disassociation events cross each
other; a failover falls between any two of the steps above; the recovery timer races the answers; driver
ids are application names, so two drivers may share one; `unpersist` throws; a kill meets a process that
is not there yet; everything a process has in flight is lost with it or with its connection. On the way of a
query, the table of callbacks is shared by the caller's thread, the canceller's and Netty's; a timeout leaves
its request outstanding; the futures of a session share its fields. An event is changed in two places. The list,
line by line, is under "hazards" in `PROJECT.json`.

**What makes the parts correct.** The master's collections and its stored nodes agree; a driver never waits
beside an idle worker; recovery ends and waits for nobody; no driver is launched twice, revived after it is
done, or believed where it is not; a worker is never left talking to nobody, and comes back after a timeout;
the applications clients are sent to are running, and follow a failover. Nobody waits for an answer that cannot come; a result set has
the rows of its query, each once and in order; sessions are apart and one that was closed is gone. What is pushed down
is what the other system may run, all of it. What has been dropped does not run.

## 2. The modules

| Module | What it is |
|---|---|
| `DeployMessages` | ids, driver states, the master's messages, the FIFO channels (external: Akka) |
| `MoonboxMaster` | the master's memory, its nodes in ZooKeeper, one action per handler; its own specification, `MasterSpec`, has an open environment |
| `MoonboxWorker` | workers, runners and Spark processes |
| `InteractiveMain` | membership of an interactive application |
| `DriverLedger` | the abstract specification: what the master promises about drivers |
| `Grid` | master, workers, applications and REST clients with the network and failures |
| `RpcChannel` | the transport: one channel per connection, the table of outstanding requests |
| `SparkSessions` | the sessions of an application and the futures that run in them |
| `JdbcClient` | the JDBC driver, composed with the two above |
| `Pushdown` | the pushdown rule over abstract plans, with a reference definition of what may be pushed down |
| `TimedEvents` | the commands on timed events, the scheduler and the catalog's rows |
| `MCMaster`, `MCGrid`, `MCJdbc`, `MCPushdown` | constants and corners for TLC |
| `MoonboxMaster_proofs` | lemmas about `schedule()` and the removals; type correctness; the inductive invariant of the master and what follows from it |
| `MasterDrivers_proofs` | drivers: their nodes, their places, and the refinement of `DriverLedger` |
| `Grid_proofs` | the types of the grid; the grid implements `MasterSpec`; the applications it lists run, and follow the leader |
| `GridDrivers_proofs` | a driver is launched at most once in the grid |
| `GridPlacement_proofs` | the drivers the master has placed are where it believes them, and it forgets no worker |
| `JdbcClient_proofs` | the inductive invariant of the table of outstanding requests; nobody waits in vain; types of the query path; rows belong to their connection; sessions whose close was answered stay closed |
| `JdbcResults_proofs` | a result set has the rows of its query, each once and in order |
| `Pushdown_proofs` | induction over plans; the pushdown rule is exact on all of them |

**State.** A `WorkerInfo` is at most once in `workers`, so its fields (`wstate`, `lastHeartbeat`, `wdrivers`)
are functions on worker ids and `workers`, `idToWorker` are sets of ids. The age of a heartbeat has three
values: fresh, older than `WORKER_TIMEOUT`, older than 15 times it. A `DriverInfo` is an id with the number of
its submission (`DriverObj`), because the code tells objects apart where it looks up ids: `drivers.find(_.id
== id)` may return any of several, which `Found` makes a choice. `dworker` is a reference to a `WorkerInfo`
that may not be current any more (`Replaced`), since a worker that registers again is a new object. A master
process is its incarnation number, `epoch`. `COMPLETING_RECOVERY` begins and ends inside one handler.

**Handlers.** Each is one action, with what it calls. `Schedule` runs at the end of a handler on the values
that handler has computed; a handler that calls `schedule()` once per driver it removes is modelled with one
call, since nothing in between adds a waiting driver. `RemoveAll` is `removeWorker` and `removeApplication`
for the sets that a timeout, a disconnection or the end of recovery removes. If a driver's node is missing,
`unpersist` throws (`NoNode`), the loop ends halfway and the actor restarts (`RemovalThrows`). `UNKNOWN`
workers hold no drivers, so a recovery timer that removes several workers cannot throw between them.
`beginRecovery` is split as the code is, into workers, drivers and applications. `RegisterWorker` is four
actions, one per answer.

**Workers and runners.** The scheduler task `tryRegisterAllMasters` is a step of its own: it runs on another
thread. A runner's life is `starting` (the thread has no handle yet), `running`, `stopping`, `failed`,
`ended`, `reported`. The report of a runner and the worker's forwarding of it are one step; the message
between them is local and nothing else in the worker depends on it. `AppMaster`s are registered by the
master's `preStart` only, so the shutdown hook of a worker finds none (`appMasterInWorker`).

**The network.** A channel per direction and peer, in order. Messages for an earlier incarnation are dead
letters. When a connection breaks or a process ends, what arrived had arrived before, the rest is lost; each
side handles its `DisassociatedEvent` at a time of its own, so messages sent after the break may overtake it.
A standby keeps no state and answers nothing of interest, so only the leading (or next) incarnation is
modelled. `Names` is the comparison of addresses: an incarnation on the same machine has the same address.

**The transport.** `send` files the callback and writes; Netty does the write on the channel's event loop, so
a write that comes while an exception is being handled meets a closed channel though `isActive` was true
(`Writable` against `isActive`). `failOutstandingRequests` is two steps, the loop and `clear()`, because other
threads file requests in between; it runs after an exception and again in `channelInactive`. A callback may be
called twice (by the sweep and by the failed write): a future that is set stays as it is.

**The client.** `execute` and `next` wait on the future in the field `result`, and their callback sets whatever
future is there when it is called: `by` records whose answer it was. The others wait on a future of their own
(`sendSync`). A wait that times out leaves the request in the table. `MoonboxResult` is the rows delivered so
far. Session ids are random, so a session is named after the connection that opened it; what a client that
gave up on `opensession` leaves behind is a session nobody uses.

**Sessions.** A `Runner`'s fields are read and written by its tasks without synchronisation, one loop turn or one
statement at a time. What Spark computes is `rowsOf`; `Row` says which connection, statement and position a row
comes from. `Runner.cancel` has no effect of its own: a query may fail at any moment anyway, and the answer
does not depend on it. A task may fail until its answer is made, and once more while it is made: `reply` is called
inside `onComplete`, so if `constructExecuteResult` throws nobody is told (the second disjunct of `Finish`). `sql` limits queries but not Spark commands, so `hasNext` has to count as well.

**Pushdown.** A plan is the postfix sequence of its operators, the order in which the recursion of
`buildDataSystemTree` finishes its nodes, so the recursion is a loop and a subtree is an interval. An operator says
how far back its children are and how large its subtree is; `IsPlan` says that these fit together to a tree. Apart
from that the model keeps of an operator its kind, the systems that support it with its expressions, those that are good at it, its row
count and, for a table, its system. No index is ever recorded (`indexes` stays empty), so the second cost the
code computes equals the first, or fails. A node's dependencies are its children, some of them crossed to.
`Pushable` is the reference: it says of a subtree, from the plan alone, that its tables are in one system which
supports every operator and that no join costs too much.

**Timed events.** A command is its steps: the request to the master (`timedEventExists`, then `addTimedEvent`, in
a future), the read of the row, the write. A command whose wait of ten seconds is over goes on by itself, as
one of another session would. The master may refuse a request at any time: its timer is out of service, the cron
expression is not one, or the scheduler throws. Two rows of one name, which the check-then-insert of the catalog admits, behave
as one. Renaming and altering refuse an enabled event, as the code does.

**Variants.** Definitions commented as variants are near misses of the code (a forgotten index, a dropped
guard). They are not used by any specification; the mutant list of `PROJECT.json` puts each in the place of
the definition it imitates and expects TLC to refute a property.

## 3. The runs

| Run | Instance | Checks | Result |
|---|---|---|---|
| `master_open` | 2 workers on one address, an application, a driver id submitted twice (once on boot), one failover; any message at any time | all the master's invariants and `KeepsLedger` | holds, about 200 000 states |
| `grid_drivers` | three corners of one grid: 2 workers, a client and a stop with a break or a kill; 1 worker, 2 clients and a failover; 2 processes of one application with a break, a kill and a failover to another machine | `LaunchedOnce`, `NoPhantomDriver`, `NoPhantomApp`, `NoStrandedApp`, types of all parts | holds, about 545 000 states |
| `grid_register` | 1 worker, a failover, a break, heartbeat timeouts, fairness | `NoForgottenWorker`, `WorkerRegisters` | holds |
| `queries` | two corners: 1 connection, 4 requests, with a timeout, a cancel and a broken channel; 2 undisturbed connections, 5 requests | `NoWaiterForgotten`, `BrokenCallsEnd`, `ResultExact`, `OwnRows`, `ClosedForGood`, types | holds, about 850 000 states |
| `pushdown_plans` | all plans of up to 4 nodes over 7 leaves, 4 unary and 5 binary operators, those of 5 nodes over fewer, unions of three tables, and a plan of 9 nodes in which one subtree occurs twice | `TreeExact`, `PointsExact`, types | holds, about 48 000 states |
| `duplicate_driver` | one client | `UniqueDriver` | violated |
| `recovered_driver_stuck` | a failover while a driver waits | `RecoveredDriversPlaced` | violated |
| `healthy_worker_refused` | a failover while a worker retries | `NoDuplicateNoRefusal` | violated |
| `heartbeat_ignored` | a worker silent for 15 timeouts | `IgnoredNeverRegistered` | violated |
| `stray_driver` | a kill while the Spark process is being started | `NoStrayDriver` | violated |
| `late_answer` | one connection, a timeout | `OwnAnswer` | violated |
| `dropped_event_runs` | one session, four commands | `DroppedNotRunning` | violated |

**Bounds.** Two workers on one address give the restarted worker, the reused address and the refusal; two
apart give placement and loss of one of two. Two `DriverInfo`s of one id are the least that makes `find`
ambiguous and a node missing. One failover reaches every recovery path; the next one starts from the same
kinds of state. `MaxAttempts` stands for 15, and 2 is enough for a retry that crosses an answer. `MaxInFlight`
bounds heartbeats and progress reports only: everything else is limited by what causes it. `master_open` uses
a view without the outgoing channels, which no handler reads. Round robin over several waiting drivers and
several workers is not reached: `NoIdleWaiting` means that when drivers wait the first alive worker takes
them all. Deadlock is not checked in the runs whose budgets of failures, attempts and submissions let the
system come to rest.

`grid_drivers` and `queries` restrict their steps to corners of the state space (`Corner` in the `MC` modules): a
grid, or two connections, with every kind of failure at once is out of TLC's reach, and each corner leaves out
what another one has. Steps that are fair stay inside their corner, so fairness is not weakened.

For `queries`: a result of two rows fetched one by one has a first, a last and a middle fetch; a limit below the
row count and a Spark command above it exercise both limits; four requests are an open session, a query, a
fetch and one more to meet what is late. Two connections are enough for sessions to be mixed up. For
`pushdown_plans`: three systems that run plans, one of which is not equal to itself (Kudu, MongoDB and
Elasticsearch have a `fastEquals` that is false), one that does not; a table too large to join, one without
statistics and one that Spark reads. Every case of `buildDataSystemTree` has a plan of three nodes; with four and
five each case occurs above and below each other case. The plan of nine nodes is the least in which a subtree that
is replaced has a copy inside a larger one that is not.

**Fairness** (`queries`). Netty handles the end of a channel and failed writes, and a thread whose future is set
goes on. Nothing is assumed of the application, and nothing of timeouts, which are an hour by default: that is
why `BrokenCallsEnd` is worth stating.

**Fairness** (`grid_register`). Weak fairness of deliveries, of the registration and heartbeat timers, of
election, of the recovery timer, of disassociation events and of the runner threads: Akka's dispatcher and
scheduler, and ZooKeeper's latch, give each of them. Failures, submissions and the ends of Spark processes
that nobody stopped have none. `WorkerRegisters` is about workers that have been registered once and so beat:
only `RegisteredWorker` starts the heartbeats. It holds with `MaxAge` = 1, as `NoForgottenWorker` does: a worker that
the master has dropped after 15 timeouts is ignored for ever (`heartbeat_ignored`).

**Mutants.** Every property of a passing run is refuted by at least one variant of a mapped definition.

## 4. Where the code departs from what it says

1. `duplicate_driver`. `RequestDriverStatus` looks among unfinished and completed drivers together. After a
   stop and a start both hold a driver of the id, the finished one may be found, and a further start submits
   the application again while it runs, though the service means to answer "has been started already".
2. `recovered_driver_stuck`. `beginRecovery` files stored drivers in `drivers` only; `completeRecovery` has
   `// TODO drivers`. A driver that no worker reports is never scheduled again nor removed.
3. `healthy_worker_refused`. A worker whose retry reaches the new leader after `beginRecovery` but which has not
   read `MasterChanged` is a "Duplicate worker ID" and shuts down.
4. `heartbeat_ignored`. A worker removed after 15 timeouts is told nothing when it beats again, so it never
   registers again, although the log says it was never registered.
5. `stray_driver`. `DriverRunner.kill` does nothing before the handle is set and nobody repeats the request.

6. `late_answer`. The callback of `execute` completes the field `result`. A query that timed out is still
   outstanding; its late answer completes the future of the next query, whose result set then has the other
   query's schema and rows.
7. `dropped_event_runs`. `CREATE EVENT ... ENABLE` registers the job and only then asks the catalog, which may
   refuse because a disabled event of that name exists. Its row still says disabled, so `DROP EVENT`, which means
   to refuse while the event runs, goes through and the job fires on.

Seen in the model, without a run of their own: of two processes of one application on different addresses, one that
was removed by the recovery timer may answer `MasterChanged` late, and after another election its answer is taken
for that of the other, which has died unnoticed meanwhile (the exception `NoPhantomApp` has to make); a worker
adopted by `MasterChanged` that never received `RegisteredWorker` sends no heartbeats and times out; the shutdown
hook stops no driver; a worker that the master holds as `DEAD` is stored nowhere, so when the actor restarts
(`RemovalThrows`, after two drivers of one id) the worker, which still follows that master, is ignored for ever;
an application that answers `MasterChanged` after the recovery timer is not registered again;
a join of one system that stays with Spark hides what its sides could push down (`Hidden`, the exception
`PointsExact` has to make), and since subtrees are replaced by plan equality, a copy of a replaced subtree inside a
larger hidden one is replaced too, so that a replaced part need not be as large as it could be;
a session whose channel breaks is never removed, nor one whose `close()` finds the channel inactive; enabled events are not registered again after a
failover; `cancel` may cancel the future of a later call.

## 5. The proofs

`MoonboxMaster_proofs` proves `TypeCorrect`: `MasterSpec => []MasterTypeOK`. The type invariant is inductive by
itself. The work is in `schedule()`: that the positions of a worker's share of the waiting list exist
(`LaunchPosition`, a fact about division), so that the messages carry drivers (`LaunchesType`, `ScheduleType`).

It also proves `NoIdleWaiting`, `WorkerIndexes`, `AppIndexes`, `PersistedMatchesRegistered` and
`RecoveryCompletes` from one inductive invariant, `MasterInv`, their conjunction with the types and with
`StandbyEmpty`. None is inductive alone:

* A handler that makes a worker `ALIVE` without calling `schedule()` would break `NoIdleWaiting`.
  `WorkerSchedulerStateResponse` is one, and is harmless on an active master because a registered worker is
  then `ALIVE` already. That is `RecoveryCompletes` (nobody is `UNKNOWN`) with `WorkerIndexes` (a registered
  worker is not `DEAD`).
* `WorkerIndexes` survives a removal because an index entry belongs to the removed worker only, and a recovery
  because stored workers have distinct addresses, which is part of `PersistedMatchesRegistered`.
* `PersistedMatchesRegistered` survives a failover because a master in standby has changed no node and knows
  nobody (`StandbyEmpty`).
* `RemoveAllInv` carries the three callers of the removals; its hypothesis is what each of them knows about the
  recovery it may end.

`MasterDrivers_proofs` extends `MasterInv` to `DriversInv` and proves `PersistedDriversMatch`, `PlacementIndexes`
and the refinement `KeepsLedger`. The code finds drivers by id, so two submissions of one id can be mistaken for
each other; what is stated of an id submitted once needs `KnownSubmitted`: whatever the master knows, queues,
stores or has placed has a number up to `submitted`, so that two drivers of such an id are the same object, and a
new submission meets nothing placed or stored. For the ledger every step is shown to accept one driver
(`Accepted`) or to revive none (`NoneRevived`): drivers that leave `liveDrivers` become done. A failover replaces
`drivers` by the stored ones, which is a subset by the first part of `PersistedDriversMatch`; an interrupted
removal (`RemovalThrows`) forgets the memory and keeps a subset of the nodes.

`Grid_proofs` proves the types of the grid (`GridTypes`) and `GridMaster`: `GridSpec => MasterSpec`. The types are
not inductive: a counter of attempts stays in its range because a process that has used its attempts up has
exited or stopped trying (`WorkerInv`, `AppInv`), and a `DisassociatedEvent` names an incarnation that exists because
`epoch` never passes `MaxEpoch`. For `GridMaster` every step of the grid is a step of the open master, or leaves its
variables alone, or takes messages off one of its channels; the messages a worker or an application sends are
typed, so they are among those the open master expects. Hence all theorems about `MasterSpec` hold in the grid:
`GridMasterInvariant` and `GridKeepsLedger` say so of the invariant and of the ledger.

It also proves `AppsAreReal` (`NoPhantomApp`). A process that ends while somebody leads is noticed, and one that
ends while nobody leads is removed by the recovery timer, unless somebody answers for it: answers to
`MasterChanged` are filed by application id. The invariant `PhantomInv` therefore says of every listed process
that it runs, or its end is on its way, or it is `UNKNOWN` in a recovery, or a process of its application was
started on another address; and, as `OwnAnswer`, that no other process on its address holds a `MasterChanged` or
its answer. That holds because such a process starts after the first has ended (`AppsRun`) and is told of a new
master only when it is stored, which it is only when the first is not. The attempt to prove the property without
the exception failed, and led to the behaviour described in section 4.

Its last theorem is `AppsFollow` (`NoStrandedApp`). `FollowInv` says that a master which names itself to an
application leads (`FromLeader`, since a master that fails takes its messages along), that an application which
tries to register does not take itself for registered, and that one which has stopped trying is connected to the
leader or has the `DisassociatedEvent` of its master still to come (`Settled`). The second part is what makes the
retries real: the scheduler stops itself when `registered` is set, so an application that kept the flag from its
last master would stop with nobody to talk to. The property says nothing of how the trying ends: an application
knows only the machine that launched it, and gives up if another one leads. Nor does it say that the leader lists the
application: one that answers `MasterChanged` after the recovery timer has been removed (section 4).

`GridDrivers_proofs` proves `LaunchedOnce`. The property counts; what is inductive (`OnceInv`) says where the one
launch of a driver is: in the queue, which has no driver twice, or at one place of one channel, or at its host,
and nowhere else; and a driver that has not been submitted is nowhere. The step that matters is `schedule()`:
each position of the waiting list is one position of one worker's share, because position and place determine
each other (`Place`, division again). A recovery is harmless since it queues no driver.

`GridPlacement_proofs` proves `DriversAreReal` (`NoPhantomDriver`). The property speaks of a link on which nothing
is under way; what is inductive (`PlaceInv`, which is `Links` and `Before`) speaks of any link, and of both its
directions. For a driver placed on a worker that can be reached

* its launch is under way, and the worker will report to this master when it arrives: the worker has adopted the
  master already, or the `RegisteredWorker` or `MasterChanged` by which it does is in the channel before the launch.
  `schedule()` sends launches only to workers that are `ALIVE`, and those have been told (`AliveToldIn`);
* or the worker has the driver, and a runner for it (`RunnersThere`);
* or the report of its end is under way to this master.

A failover drops all of it and starts again from what workers answer to `MasterChanged`, so an answer has to be
true (`AnswersTrue`): what it lists the worker had when it answered, and what has ended since is reported behind
it. Messages to an earlier incarnation count for nothing (`HearsLeader`, `Addressed`). The proof uses the
invariants above: one launch per driver (`OnceInvariant`) is why a worker that ends a driver has no second one.

The module also proves `NobodyForgotten` (`NoForgottenWorker`), from `KnownInv`:

* `Follows`: a worker that has stopped trying to register is connected and has adopted the leader, or the
  `DisassociatedEvent` of its master is still to come; nobody has adopted a master that does not lead yet. That a
  master which makes itself known is the one that leads is `HearsLeader`, from `PlaceInv`. This part holds for every
  value of the bounds and is `WorkersFollow`;
* `Alone`: one process runs on an address;
* `KnownIn`: a worker that follows the leader, or has a message under way by which it will, is in `workers`. A
  registration drops the `DEAD` workers on its address from there. None of them runs but the one that registers,
  which is put back: a process whose address is registered for another is not in `workers`, and neither is one that
  has not started.

The last part is stated under `Regular`. Proving it without failed twice, and TLC confirmed both: a heartbeat that
stops for 15 timeouts (`heartbeat_ignored`), and a restart of the actor while it holds a worker as `DEAD`, which
takes a driver whose node is missing and so two drivers of one id (`NodeMissing`, from `PersistedDriversMatch`).
Whatever leaves `Regular` true is covered: failovers, breaks, kills, refusals, and workers that time out and return.

Assumptions: the constants are typed as `ConstantsAssumption`, `NoneAssumption` and `MasterAssumption` say
(addresses total, workers and drivers finite), and `WorkerAssumption`, `InteractiveAssumption` and `GridAssumption`
for the grid: bounds are numbers, there is a first incarnation, `None` is no incarnation, and the states that runners report, those of the
Spark process and `ERROR`, are among the states `MasterSpec` lets workers report. TLC evaluates them in every run.

`JdbcClient_proofs` proves `NeverForgotten`: `JdbcSpec => []NoWaiterForgotten`. The property is not inductive: it
is content with an entry in the table, and `clear()` empties the table. The invariant `JdbcInv` adds

* `Kept`: from the loop of `failOutstandingRequests` on, an entry in the table is not enough. Whoever was there
  has been called back by the loop, and whoever comes between the loop and `clear()`, or after it, finds the
  channel not writable, so its write fails and its listener calls back. That the listener does so without
  looking into the table is what the proof of `WriteFailsInv` needs. The entry also has to say the right kind
  of future (`EntryOf`), or the callback would set another one;
* `Apart`: the canceller and the thread wait for different requests, so the answer that `CancelReturned` takes is
  never the thread's.

It assumes nothing of the constants; the application's steps are covered because they touch neither the
table nor a future (`TaskQuiet`).

The same module proves three properties of the whole query path.

* `JdbcTypes`. The types need `TypesInv`: a task that runs a query has a batch and a statement left, and whoever is
  in `execute` or `next` has a result set.
* `RowsAreOwn` (`OwnRows`). `OwnInv` says it of every place rows pass through: the cursor of a session, the tasks on
  it, the way back, the future in the field. A late answer may be another query's (finding 6), but never another
  connection's.
* `ClosedStaysClosed` (`ClosedForGood`). `OrderlyInv` follows request ids. A request is on the wire, in a task or
  answered, and only one of these (`InOnePlace`); an opening under way is the one waited for or given up for good
  (`OpensOnce`); so a positive answer to `CloseSession` means that the session is gone (`Closes`), and by then
  nothing is left that would open it. The property is about a `CloseSession` that was answered: `close()` on a
  channel that is not active returns normally too, asks nothing and leaves the session behind.

`JdbcResults_proofs` proves `ResultsAreExact` (`ResultExact`) from these and from `ServedInv`:

* `OneQuery`: while the channel is open and no call has lapsed, what is on the wire or at work for rows is what the
  thread waits for, so the fields of a `Runner`, which nothing synchronises, have one user;
* `Delivers`: wherever the rows are on their way (cursor, task, answer, future), they continue what has been
  delivered (`Brings`): consecutive rows, and the cursor stands where they end. That fetching stops at the right row
  is arithmetic on the two limits, the one of `sql` and the one of `hasNext` (`BringsRow`, `BringsLast`);
* `Wired`: a channel opens once and brings nothing after it has stopped. Tasks that outlive it still move the
  cursor, which then matters to nobody: `Brings` asks for the cursor of an open channel only.

Assumed is how batches and statements are typed, that a batch has a statement and is not null
(`ChannelAssumption`, `SessionsAssumption`), and that the bounds are numbers (`JdbcAssumption`).

`Pushdown_proofs` proves, for plans of any size, `PushdownTypes`, `TreeIsExact` and `PointsAreExact`. The library's
induction theorems cannot be used, since they take an operator as a parameter; the least-number principle can, for
a set of nodes given as a set (`Smallest`, from the well-foundedness of the strict subset order). A smallest
counterexample then shows what holds of every plan: subtrees are nested or apart and begin at a leaf (`Nested`,
`FirstIsLeaf`), and a proper subtree lies in a child (`Covered`). From there:

* `Built`: each turn of the loop gives its node what the reference says, provided its children have it. There is
  one lemma per case of `buildDataSystemTree`. The reference is about all tables and operators below a node, the
  code looks at the children's systems only; the two agree since equality of systems is symmetric and transitive,
  and equal systems support the same operators (`EqualRuns`, `PushableWithin`, `PushableAbove`).
* `Searched`: a subtree that is as large as can be is found, is below a node still to be visited, or is hidden.
* `Decided` and `PointsExact`: replacing by equality may hit other places than the search found. What it hits is
  equal to a point and so may leave Spark as well (`SamePushable`, `HitsAreGood`). The first form of `PointsExact`
  asked that every replaced part be as large as can be; the proof of it failed on a copy inside a larger hidden
  subtree, TLC confirmed the case, and the property says now what holds (section 4).

Assumed (`PushdownAssumption`): plans are trees in postfix order; `fastEquals` is symmetric and transitive, but not
reflexive, and Spark equals Spark only; equal systems are of one class and so support the same operators.

Only model-checked: liveness (`WorkerRegisters`, `BrokenCallsEnd`), which is out of the prover's reach.

## 6. What is not modelled, and the plan

Left out of the modelled parts: a write to ZooKeeper that fails (it is logged) and the deletion that then
throws; the moments in which two masters believe they lead; interleaving inside one scheduler task; what is
computed about memory and cores, which nothing decides on; the HDFS engine, a stub; several result sets on one
connection; the client's short channel to the master; temporary views; the two parts, job and trigger, of an
entry of the scheduler, and its firing.

Not modelled at all: the listener bus, which nothing creates, and the packages under `edp`, which nothing uses;
the workbench's connection cache, whose lookup never finds anything (`ConcurrentHashMap.contains` looks among
the values) and whose removal does nothing, so that it is no cache; parsing, analysis, privileges and
optimisation of queries, which are Spark's or made of its classes; Thrift server, REPL, launcher and the
clients of data sources, which are derived from Hive and Spark or glue.

Next, in this order:

1. *Failing persistence* and the *overlap of two leaders*, as extensions of `MoonboxMaster`.
2. *Service requests*: routing to an application that ends meanwhile.
3. Properties still missing on the grid: Spark processes nobody tracks, what becomes of applications that know one master only.
4. The *catalog*: the cascade when an organization is dropped.
