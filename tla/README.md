# A verification project for bk-turbo

bk-turbo accelerates builds. The TBS server (`src/src/backend/booster/server`)
accepts tasks, queues them until a cluster has room, launches workers for them
and takes the workers back; the distributed tools (`booster/bk_dist`) run the
jobs of one task: a controller beside the client, and a worker in each of the
containers the server launched. This directory holds TLA+ models of the parts of
that system where concurrency, failure and restarts decide what happens, the TLC
configurations that check them, and proofs of most of their invariants for every size.

Paths below are relative to `src/src/backend/booster`, unless they begin with
`src/`.

## 1. Inventory

### The TBS server

| part | state it keeps | operations | who it meets |
|---|---|---|---|
| manager (`server/pkg/manager/normal/manager.go`) | role, context of the term | start, stop, createTask, releaseTask, getters | starts and stops everything below with the master role |
| task layer (`layer.go`) | cache of task basics, task locks, project locks, staging queues | LockTask, GetTaskBasic, InitTaskBasic, UpdateTaskBasic, recover, the cleaner of released tasks | every handler; writes rows through the engines' MySQL |
| selector (`selector.go`) | one channel and picker per queue, a map of them | notification by OnTaskStatus, ticker, checkNewQueue, pick | layer, engines |
| tracker (`tracker.go`) | the starting tasks it follows | check of an engine's launch | layer, engines |
| keeper (`keeper.go`) | start time, whether heartbeats recovered | timeouts of init, staging, starting and of heartbeats | layer |
| cleaner (`cleaner.go`) | a map of tasks being cleaned, a channel | collect data, release resources, mark released | layer, engines |
| staging queue (`server/pkg/engine/queue.go`) | sublists by priority, a map, a length | Add, Delete, First, All, Rank, Clear | layer, selector, API |
| engines (`engine/disttask`, `distcc`, `fastbuild`, ...) | rows of their own | LaunchTask, CheckTask, ReleaseTask, CollectTaskData | manager; resource managers |
| container resource manager (`resource/crm/manager.go`) | registered resources and their status, rows, locks | Init, Launch, Scale, Release, recover, trace | engines; operator |
| broker (`resource/crm/broker.go`) | a pool of spare resources, wanted number | apply, supply, tracking, release loop | resource manager |
| operators (`resource/crm/operator`) | pool of nodes by label, promised amounts | LaunchServer, ScaleServer, ReleaseServer, refresh | BCS, k8s, mesos |
| direct resource manager (`resource/direct`) | agents, allocations | register, allocate, release | apisjob engine |
| role discovery (`server/pkg/rd`) | ZooKeeper session | master / slave events | manager |
| HTTP API (`server/pkg/api`) | none | decoding, one call of the manager | clients |

### The distributed tools

| part | state it keeps | operations | who it meets |
|---|---|---|---|
| controller: local slots and executor (`bk_dist/controller/pkg/manager/local`) | counters by usage, waiting lists, two channels | Lock, TryLock, Unlock, retry | the executor of each job |
| controller: remote slots (`manager/remote/slots.go`) | the workers, their slots, a total, a waiting list, three channels | Lock, Unlock, disable, mark dead, recover, reset | jobs, goroutines of the remote manager |
| controller: slots by worker offer (`remote/slotbyworkeroffer.go`) | the connection to each worker and its state, waiting jobs | query, consume an offer, disable, enable | jobs, workers |
| controller: remote manager (`remote/mgr.go`) | what was sent to each worker, what failed, how far its tool chain is, corked batches | ensure files and tool chain, execute, send again, recover, empty the caches | workers, remote slots |
| controller: basic and resource managers, recorder | a work's status, applied resources | register, start, heartbeat, end | server |
| worker: slot manager (`bk_dist/worker/pkg/manager/slotmgr.go`) | clients and their priority, offered slots | query, offer, consume | controllers |
| worker: command handlers, cache, protocol | files, connections | dispatch, sync time, save, check cache | controllers |
| booster, executor, tools | one build | start the controller, heartbeat, run commands | controller, server |

The gateway, the dashboards, the common libraries, the compilers' handlers and
the Kotlin backend (`src/src/backend/turbo`) have no concurrent protocol of their
own; PROJECT.json lists each with the reason.

### What is hard, and what makes it right

* Every handler of the server works on a task between LockTask and UnLockTask,
  but `recover()`, a crash, a write that a goroutine of its own saves
  (`layer.go:330`), the selection of a task (`selector.go:186`) and the cleaner's
  lists are outside the lock. Right is: queue, cache, database and resources
  agree; no resource is left to a task nobody will release; a released task
  stays released; statistics are counted once.
* A process can be master several times. Goroutines of an earlier term read the
  context of the present one (`s.ctx`, `k.ctx` are replaced), maps and flags
  outlive a term. Right is: a term behaves like the first one.
* A notification is sent on a channel of limited capacity while the task's lock
  is held (`selector.go:102`). Right is: a creation always ends.
* A heartbeat lives in the cache only, and a handler that updates a task puts
  back the beat it copied. Right is: no client that beats is taken for lost, and
  one that is lost is found out.
* A staging queue tells clients their rank and selectors their first task. Right
  is: both come from one order, and no element is lost or doubled.
* Slots are given back by one goroutine that must wake as many waiters as
  possible, in turn. Right is: no slot is lost, no wake-up is lost, no usage
  starves, and nobody works without a slot.
* A launch takes instances from the last report of the nodes and counts them as
  not ready until a later report shows them; the call of the cluster runs without
  the lock of the resource, and a release may overtake it. Right is: the nodes
  are not given out twice, nothing is held back for ever, and no service stays
  whose task is gone.
* A broker keeps its pools and its count in memory and builds them again from the
  rows; a sale, a dismissal, a tracker that gives up and the tracer of the manager
  may concern one spare at a time. Right is: the count is what the pools hold, a
  sold spare is not offered again, and no spare runs for nobody.
* A remote worker is disabled, dead, revived and reset by different goroutines
  while jobs hold its slots and others wait for it. Right is: the total is what the
  workers in service have, each slot is given back where it was taken, and a job
  ends whatever becomes of the workers.
* Jobs find in three caches whether a worker has their files, or who is sending
  them, while goroutines repair what failed and events empty the caches. Right is:
  one sender, no promise of what is not there, no waiter left waiting.
* A worker offers slots it has booked for nobody yet, and offers, answers, tasks and
  timeouts overtake each other. Right is: it never promises more than it has.

## 2. Modules

| module | what it is | code |
|---|---|---|
| `TaskManager` | life of a task: all handlers, queue, cache, rows, locks, crashes, roles | manager.go, layer.go, selector.go (pick), tracker.go, keeper.go (check), cleaner.go, engine/task.go |
| `TaskManagerInv` | its inductive invariant | |
| `TaskManager_proofs` | theorems | |
| `Selector` | the pickers, channels and contexts over terms | selector.go |
| `Keeper` | clock, heartbeats, grace times over terms | keeper.go, layer.go (updateHeartbeat) |
| `PriorityQueue` | abstract: a set of tasks whose First is a best one | interface StagingTaskQueue |
| `StagingQueue` | its implementation by sublists; refines `PriorityQueue` | engine/queue.go |
| `QueueAndKeeper_proofs` | the inductive invariants and theorems of `StagingQueue`, with the refinement, and of `Keeper` | |
| `LocalSlots` | the slots of a controller and the executors that use them | local/slots.go, local/executor.go |
| `LocalSlots_proofs` | its inductive invariant and theorems | |
| `CrmResource` | the resources of the container resource manager over one block of nodes, with the tasks that own them and a kubernetes cluster | crm/manager.go, operator/bcs.go, operator/k8s/operator.go, disttask/engine.go |
| `CrmResource_proofs` | its inductive invariant and theorems | |
| `Broker` | one broker with its pools, trackers, sales and release loop, over the rows and services it shares with the resource manager | crm/broker.go, crm/manager.go |
| `RemoteSlots` | the slots of the remote workers, and the jobs and goroutines that take, free and change them | remote/slots.go, remote/mgr.go, local/mgr.go |
| `RemoteSlots_proofs` | its inductive invariant and theorems | |
| `RemoteFiles` | how one worker gets the tool chain and the files of the jobs | remote/mgr.go |
| `RemoteFiles_proofs` | its inductive invariant and theorems | |
| `WorkerOffer` | one worker that offers slots, and the controllers that consume them | worker/pkg/manager/slotmgr.go, worker/pkg/manager/manager.go, remote/slotbyworkeroffer.go |
| `BrokerAndOffer_proofs` | the inductive invariants and theorems of `Broker` and of `WorkerOffer`: two counts kept beside what they count | |
| `SumTheorems` | lemmas on sums over finite sets, on least indices and on induction up to a bound, for the proofs | |
| `MC...` | the instances TLC checks | |

The models meet at what one of them leaves to another: `TaskManager`'s `res` is the
resources of `CrmResource`, whose `task` is a task of `TaskManager` seen from below;
`Broker` sells what `CrmResource` launches; a job of `RemoteSlots` that got a slot
calls `RemoteFiles`, whose failures are events there; `WorkerOffer` is the strategy
that takes the place of `RemoteSlots` when workers offer slots themselves.

### TaskManager

`tbm` is the layer's cache, `queue` the staging queues (as a set: their order is
`StagingQueue`'s), `db` the rows, `delayed` the writes handed to a goroutine,
`res` the tasks whose resources the engine holds, `job[t]` the handler that holds
the lock of `t` with its copy of the task and its program counter, `plock` the
project locks, `sel` what a picker selected and has not locked yet, `cleaning`
and `cleanCh` the cleaner's map and channel.

A task basic is abstracted to its status, whether it is released, whether its
status code is `ServerAlive()` (all that is ever asked of the code) and whether
its launch time is set (what the condition of the delayed write looks at).

A handler is a chain of actions, cut where another goroutine, a failing call or
a crash can come between:

* createTask: `CreateLock` (project lock and concurrency), `CreateInsert`,
  `CreateRow`, `CreateExtension`, `Save`;
* pick: `PickSelect` (no lock), `PickLock`, `PickLaunch`, `PickStore` with its
  `DelayedWrite`;
* tracker, keeper and releaseTask: one step that takes the lock and decides, then
  `Save`, or `SaveFail`; the keeper decides for one of three reasons, a client whose
  heartbeat is too old (`KeepClientLost`, of the tasks that are `silent`), a status
  that lasts too long (`KeepTimeout`), or an engine that finds the task unhealthy
  (`KeepUnhealthy`); `FallSilent` and `UpdateHeartbeat` are the client;
* cleaner: `CleanCheck` or `OnCleanNotify`, `CleanLock`, `CleanCollect`,
  `CleanFree`, `Save`;
* `RetireCheck` lists released tasks and `RetireTask` later drops one of the list from
  the cache;
* role: `Stop`, `RefreshQueueGroup` and `RecoverTaskBasics` (the two steps of
  recover), `Crash`.

A database call either works, fails without effect ("err") or fails after it took
effect ("lost").

### Selector and Keeper

Both look at one thing the task manager leaves out: what of an earlier term is
still there in the present one. `Selector` has a goroutine of Run and start per
term, a picker goroutine per channel made, `ctx` for the term whose context
`s.ctx` is, `chanMap` for `queueChanMap`. A picker takes the queues of its term once,
when it starts (`group`), and what these held when the next term replaced them is
`left`. Before the first Run `s.ctx` is nil, and
a picker made then panics (`PickerPanic`): the process starts again. `Keeper` has
a clock whose unit is 22.5 seconds, an eighth of the keeper's wait; `beat` is the time in
the cache, `row` the one in the database, `copy` what a handler has taken and will
put back. `Tick` waits for what happens within a unit: a beat of every connected
client, the end of a handler's update.

### StagingQueue and PriorityQueue

Priorities are three instead of twenty; `CheckPriority` maps a setting to one as
`TaskBasic.Check` does, outside values included. The lists, the map and the
length are the variables, and the result of First is the variable the refinement
is about: the abstract queue is a set, whose First may be any task of the highest
priority and, among these, the earliest time. The mapping is `waiting <- element`.
An entry is deleted from the list of its own priority, First is the head of the highest
list that is not empty, and Rank counts the lists before it and the entries in front.

### LocalSlots

`handleLock` is one goroutine: `GetSlot` and `PutSlot` are its two cases, `Done` its
end. A client is an executor: it asks (Lock, TryLock), waits, works, gives back.
`Awake` is the loop of putSlot, `Found` what getListByPoll looks for from `cursor`.
The order of `usages` is that of a Go map, so the initial states have each order.

### CrmResource

`cache` is `registeredResourceMap`, `row` the table, `flight[r]` the goroutine of
realLaunch with the copy of the resource it works on, `releasing[r]` a release
that is between ReleaseServer and saveResources and holds the lock of the
resource, `trace` the tracers, `seen[p][r]` what a caller of getServiceInfo has
read from the cluster and not yet brought in (freshDeployingStatus). `pool` is a
`NodeInfoBlock`; `asked` and `due` are the instances that goroutines of
releaseNoReadyInstance will give back, before and after the report they wait for.
`task` stands for the task of the engine: launchCRMTask until it works,
launchCRMDone while it starts, releaseCRMTask until that works; that a task ends
at any moment is `TaskManager`'s business and one action here.

External, from how the operator uses it: a deployment exists or not, and its pods
start one after the other. A deletion that finds nothing starts
trackAndReleaseDeployment, which deletes the deployment when it comes.

Two history variables record what the code does not keep: `drifted`, a release
overtook its launch or a report left the block out; `cut`, a crash left a service
with neither a row nor a watcher (the TODO at `crm/manager.go:977`).

### Broker

`cache`, `row`, `service` and `flight` are the manager's, as in `CrmResource` but
without the block of nodes. `free`, `tracked` and `releasePool` are the pools of the
broker, with one goroutine of tracker for each of `tracked`; `currentNum` is the
count its strategy compares; `todo` is what checkBroker decided and has not done
yet, since the launches and releases that follow the decision take their locks one
by one. `initPool` are the resources that are initialised and not launched,
`tracing` those that rm.trace follows. `buyer` is the task a spare was sold to, from
its sale (`Consume`, `ConsumeFails`) over its own row (`BuyerSaved`) to its release.

The parts of a launch are `Launch` (or `LaunchRefused`, `LaunchFails`), the call of
the cluster (`LaunchServer`, which may fail with or without effect) and the write of
what came of it (`SaveLaunched`). A tracker ends with `TrackRunning`, `TrackTooFew` or
`TrackTimeout`; a release that fails goes to `ReleaseLoop`. `Crash` empties what is in
memory and recovers both parts, each from the rows it asks for: the difference of
the two lists is what `cut` records. External: the cluster, whose service may
become ready or not. The release loop is one that the parameter ReleaseLoop of the
broker turns on (`broker.go:604`; `release_loop` in the configuration, off by default):
without it a failed release is not tried again. The strategy is the constant one; the choice among the
brokers of one user and changes of role without a crash are left out.

### RemoteSlots

`worker` has the fields of each worker, `total` and `occupied` the two counts of the
lock, `lockChan`, `unlockChan`, `emptyChan` and `waiting` its channels and list.
handleLock is `GetSlot`, `PutSlot`, `OnSlotEmpty`, `OccupyWaitList` (the ticker) and
`Done`; `Pick` is the loops of getWorkerWithMostFreeSlots, with the file size and
the ban list, that start from a maximum of 0. A job of `ExecuteTask` asks, is refused or
gets a worker, fails in one of the ways of remote/mgr.go or succeeds, gives back
and tries again, or runs locally. The ways: the tool chain (`SendToolchainFails`), a file
(`EnsureFilesFails`), a closed connection of the client or inputs that cannot be
adjusted, which ban nobody (`AttemptFails`), an execution whose error bans the worker and
is not counted (`ExecutionFails`), and a net error, which is counted (`NetError`), then
compared (`IsWorkerDead`), and may make the worker dead (`MakeDead`). The goroutines beside are
`RetryFiles`, `RetryToolChain` with `Resent`, `CheckDead` with `Checked`,
`ConfirmWorker`, `ResourceCheck` with `DisableAllWorker`, and `Reset`. One usage only
is ever locked, so the set of usages is left out; all jobs need one file.

### RemoteFiles

`sent`, `fail` and `coll` are the three caches about one worker, for one input file
and a tool chain of one file in each version. `proc[p]` is where a caller is: a job in
`EnsureFiles` or in sendToolchain, and the two retriers. `CheckFile` and
`CheckFileCollection` look and mark in one step, as their locks make them;
`Status`, `UpdateSendFile`, `UpdateFail` and `UpdateFileCollectionStatus` are the
separate steps after a sending. `SendCork` takes a batch and `Send` ends it, with the
transport failing, the worker refusing it, or all files there. The loop of sendToolchain
is `CheckToolChain`, which asks whether the tool chain changed and then whether it is
finished, `ClearOldFileCollection`, and a sending. `cleaning` counts the
three steps of `CleanWorkerCache`, which `Restart` brings on. `noticed` says that this
was done since the last restart; it need not be done ever, as syncHostToken
(`remote/mgr.go:2413`), when it is the first to see the token of the restarted worker,
takes it without cleaning. Several goroutines of confirmWorker may clean at once; one
does here. `CleanFileCache` is the release of all workers, in one step: it takes a lock
for each of four caches, and a call between two of them would be under way during the
cleaning, which sets `crossed`. External: the worker, as the set `has` of its files.

### WorkerOffer

A controller `c` has `ctl[c]`, its view of the worker with a waiting list, and a new
connection for each query. The worker deals with a query in two steps,
`DealQuerySlot` under the read lock and `AppendClient` under the lock; estimateSlot is
`est`, with `EstimateSlot`, `SelectClient`, `ReceiveAck` and `Book`, in which
bookedSlotNum is read, written and recorded in steps of their own as far as another
goroutine can come between. The estimate itself reads the running tasks, the booked
slots and the waiting tasks one after another without a lock; the order is that of the
text, which Go does not fix for plain variables. An answer that cannot be read makes the worker close the
connection (the last case of `ReceiveAck`). `CheckClient` and `CheckSlot` are its tickers. A task
comes in two halves, `ReceiveTask` and `OnTaskReceived`, and runs between
`ObtainChance` (or `CheckCmds`, one waiting task at a time) and `FreeChance`. It may come
without a slot, as those do that confirmWorker (`remote/mgr.go:689`), syncHostToken and
tasks for every worker send: the worker does not ask, and takes one of its controller's
slots off for it; `extra` counts these. Measured loads are left out: `Available` is what the
worker has. Times are left out: what waits for one may happen whenever it waits.

## 3. Runs

| run | bounds | shows |
|---|---|---|
| `task_crash` | 2 tasks of one project with concurrency 1, 1 failing call, 1 crash | the safety properties of the task manager, except that roles do not change |
| `task_live` | 1 task, 2 calls that fail or are lost, 2 crashes, 2 changes of role, fairness | the inductive invariant of the proofs, and `EveryTaskReleased`, unless the client beats for ever |
| `selector_terms` | 2 queues, 1 of them configured, 5 pickers, 2 terms | every queue of the first term, and a configured one later, is picked from; a creation ends |
| `keeper_terms` | 1 task, 15 units of 22.5 s, timeout 8, wait 8, grace 3, reconnection 2, 2 terms or 1 crash, 3 updates by other handlers in a term, fairness | no live client is lost, but by a keeper of a later term that should still be waiting; a lost one is found |
| `queue_order` | 4 tasks, 3 priorities, 3 times | queue, map, length and rank agree, and First is what is promised |
| `crm_block` | 2 resources that want 3 instances of 2, one of which may be released, 2 failing calls or reports, 1 crash (one fault of any kind while both use the block), fairness | the count of instances is exact and never leaks, the block is not given out twice, services are tracked, and one whose task is gone stops |
| `broker_pool` | 3 spares, 1 wanted, 2 failing or lost calls, 1 crash, fairness | `PoolIsExact`, `EverySpareSettles` |
| `local_slots` | 3 executors, 2 usages with 1 and 2 slots, weights 1 and 2, 1 retry | slots exact, no idle waiter, limits, every Lock returns |
| `remote_slots` | 3 jobs, one with a large file and 2 tries, hosts of 1 and 2 slots, 2 events, fairness | the total and the slots of each worker are right, a worker is overbooked by one at most, every job ends |
| `remote_files` | 2 jobs, 3 versions of the tool chain, 3 events, with corking and without, fairness | one sender, no false promise, every call returns but those that wait for a forgotten tool chain, what failed is repaired |
| `files_hang` | 2 jobs, 1 version, 1 event, fairness; a violation | who waits for a tool chain whose record is removed waits for ever (`EveryCallReturns`) |
| `worker_offer` | 2 controllers, of 2 jobs and 2 connections and of 1 and 1, priorities 1 and 2, 2 slots, 1 client, 1 event (among them: a task without a slot, an answer that cannot be read) | the booked slots add up, and no more is promised than there is, but for one slot for each task that came without one |

Some runs follow only part of the states. The two of `RemoteFiles` stop where `crossed`
becomes true (the caches were emptied while calls were under way) and `worker_offer`
where `raced` does (an update of bookedSlotNum was lost). Both variables stay true, and
each property of the run holds of whatever follows, as each has that variable as a
disjunct: what is cut off could not violate them. What happens beyond is the code's
disagreement with itself, listed below. `worker_offer` follows what comes after `astray`
only where no event has happened: `PromisesAreKept` says nothing there, and `BookedIsExact`
is left to the proof. `keeper_terms` stops
once the task failed, or when a crash and a second term would meet.
`crm_block` follows several faults only until the resource that stays is launched
(`OneAtATime`); what is cut off there is covered, for the safety properties, by the proofs.

Why the bounds are enough. Two tasks are what a race about a project's
concurrency needs, and one picker is what a launch needs; everything else in
`TaskManager` concerns one task and the goroutines that meet on its lock, all of
which are there. One crash at any point, with one failing call at any point
before or after it, covers what a crash can find half done; more crashes, more
failures and changes of role are covered by the proof (section 5). Two terms are
what a leftover of an earlier term needs. Five pickers are the most that two terms
of the selector can make with these queues, so the bound never blocks. Fifteen units
leave the keeper a full wait or a timeout after a client was lost or a server came back
at any of the first six; three updates are those in the life of a task (the end of
its creation, `manager.go`; its launch, `selector.go`; its start, `tracker.go`), and any
of them may put back an old heartbeat in each term. Four tasks in three
priorities allow two equal elements with a different one before, between and
after. Three executors allow a running one with two waiters in two lists. One
resource that is launched, released and traced, beside one that only competes for
the block, is what the counting needs: what the manager does to one resource
touches another only through the block; a second fault while both use it is left to the
proofs. Three spares with one wanted are one that
is offered, one that is being replaced and one that is new; with two failures, a
sale or a release may fail and be repeated wrongly. Three jobs on a worker of one
slot and one of two fill both, and a fourth request, the second try of the first
job, waits; two events are one that disables a worker and one that kills or resets
it meanwhile; recoveries are not bounded. Two jobs and two retriers are every pair that can meet in
the caches of one worker; three versions are two changes of the tool chain, the
least that clears an entry being sent. Two controllers with different priorities
and one place for a client are a refusal and a client above the limit; two slots for three
jobs make one wait.

Deadlock is checked in `task_crash` (all tasks released is an explicit stuttering
step, `Terminating`); in the other runs a behaviour stops where its bounds end or where the system
really has nothing left to do.

### The disagreements found

Each of these is something the code does; the properties leave it out where the
column says how, and hold everywhere else.

| where | what happens | left out by |
|---|---|---|
| `selector.go:261` | checkNewQueue takes a queue of `queueChanMap` for one that has a picker, but the map outlives the pickers of its term: nobody picks from a queue that was learned in an earlier term, although the comment (`:249`) says the check is there for restarts and changes of master | `QueuePicked` asks it of configured queues and of the first term |
| `keeper.go:122` | `heartBeatRecovered` is never reset: in a later term of the same process the wait for the clients' heartbeats does not happen | `LiveClientKept` excepts just this |
| `local/executor.go:364` | on windows a local task runs again after the deferred Unlock of its first run gave its slot back, and gives it back again after each round | `SlotsAreExact`, `RunningIsLimited` |
| `crm/manager.go:970`, `:981` | a launch that fails after a release of its resource gives its instances back a second time, from its own copy; one that succeeds puts the released resource back into the map | `drifted` |
| `crm/manager.go:977` | a crash between the call of the cluster and the row leaves a service with neither row nor watcher (a TODO in the code) | `cut` of `CrmResource` |
| pick's delayed write (`layer.go:330`) | brings a terminated row back to life when the role changes while it is under way; the cleaner can then free a task that was recovered as starting | `task_crash` has no change of role |
| `crm/manager.go:421`, `broker.go:268` | after a restart the manager loads init, deploying and running rows and the broker puts the deleting ones into its release pool: each release then finds no resource, for ever, and the service stays | `cut` of `Broker` |
| `broker.go:321` | a crash between the row of a sale and the row of its buyer leaves the sold service to nobody | `cut` of `Broker` |
| `remote/slots.go:334` | a worker that is disabled and dead at once is subtracted from the total twice and may come back once | `mixed` |
| `remote/slots.go:131` (Reset), `remote/mgr.go` | a reset forgets the slots that are held; a task that runs once on every worker gives back slots it never took | `displaced` |
| `remote/slots.go:549` | a full worker passes `free >= max` with `max` at 0: one job more than its slots | `OverbookedByOne` says so |
| `remote/mgr.go` (corked batches) | a batch whose reply has a return code other than 0 is recorded as sent | `refused` |
| `remote/mgr.go:2372` | emptying the caches of a restarted worker beside its senders: queued files of a batch are dropped with their callers, a retry that was sending survives as a second sender, a failure between the last steps is sent again for ever | `crossed` |
| `remote/mgr.go:2111` | a job that waits for the tool chain another sends takes a record that was removed for one that is being sent, and waits for ever when no other job comes | nothing: the run `files_hang` violates `EveryCallReturns`; `OnlyForgottenWaits` says that nothing else keeps a call |
| `remote/mgr.go:2413` | syncHostToken takes the token of a restarted worker without emptying the caches, which then promise files that are gone | `noticed` stays false |
| `remote/mgr.go:2271` | two changes of the tool chain remove an entry that is being sent | `overlapped` |
| `slotmgr.go:217` | bookedSlotNum is increased without the lock under which it is decreased | `raced` |
| `slotmgr.go:433`, `:46` | a task that comes without a slot takes a slot of its controller off, which is offered again | `PromisesAreKept` bounds it: one slot for each such task (`extra`) |
| `slotmgr.go:377`, `:433` | a slot is given up though its task comes later; a task that comes before its slot is recorded leaves the slot booked until its timeout; between the two halves of receiving a task, or when it begins to run between two reads of the estimate, it is not counted at all; an answer that the worker could not read may have been a promise | `astray` |
| `slotbyworkeroffer.go:570` | a result names the worker and not the connection: an offer of a closed connection is answered on the new one | `astray` |
| `slotmgr.go:153`, `:175` | two clients are checked under a read lock and both added: more than `maxClient`, or two of the highest priority | no property states the limit |

Seen and not modelled further: `cleaner.go:152` says that the collection "will not
be retried", and it is when the release after it fails (`CountedOnce` bounds by
how often); `task.go:134` says a greater priority "will be set to 20", and
`task.go:164` sets the default; `local/mgr.go` overwrites the error of a remote
execution with the result of checkHttpConn, so that the retry on a remote failure
is never reached; a spare that rm.trace releases while its tracker follows it is
counted for ever, because track takes a resource that is not found for a reason to
come back (`broker.go:448`), so that the broker then keeps fewer spares than the
strategy wants; a spare that is idle for more than a day is not listed after a
restart (`crm/manager.go:676`); a worker that is disabled for a failed connection
to ask for slots is not asked again until it is enabled; jobCheck spins while the
first waiting job is younger than its minute (`slotbyworkeroffer.go`).

## 4. Fairness

`TaskManager`: weak fairness of each goroutine that can run (steps of a handler,
the cleaner's ticker, delayed writes, both steps of recover) and strong fairness of
the keeper's steps about a lost client and about a timeout, which contend for the task
lock: sync.Mutex hands a lock to a waiter that starves. Each of the two is continually
possible only while its guard holds: a heartbeat that is too old, or a status init,
staging or starting, whose timeouts come (for starting the keeper also reads the
extension of the task, which is assumed not to fail for ever). The keeper fails no
running task whose client beats, so `EveryTaskReleased` has an assumption on clients:
from some moment on the client of a running task is silent, or the task runs no more.
A client that falls silent is no fair action, and no client is assumed to release its
task; nothing is assumed of launches (`PickLaunch` may fail for ever), of the tracker's
engine or of an engine that finds a task unhealthy. `Stop`, `Crash` and
failing calls have no fairness and are bounded.

`Selector`: goroutines and tickers run (weak), a picker gets a contended lock
(strong), and the ticker of checkNewQueue, which goes over all staging tasks,
reaches each queue (strong). Nothing is assumed of roles. `Keeper`: the clock and
the goroutines go on. `LocalSlots`: the handler serves each of its two channels,
whose cases a Go select chooses at random when both are ready, and what an
executor runs ends. `CrmResource`: the calls of the cluster return, the cleaner
comes back to an ending task until it is released, and the goroutines run; that
reports come, that pods start and that a tracer gives up is not assumed.

`Broker`: the call of the cluster returns, the row of a launch is written or fails, a
tracker and the release loop run (which the configuration must turn on); nothing is assumed of the strategy, of rm.trace, of
pods and of buyers. `RemoteSlots`: handleLock serves its channels and its ticker, or
some job that got its worker goes on: one weak fairness for all of them, weaker than
one for each. That a worker recovers, or a file is sent again, is not assumed.
`RemoteFiles`: callers and retriers go on, what is sent ends in one of three ways,
tickers tick; restarts, new tool chains and failures are bounded events without
fairness. `WorkerOffer` has safety properties only: its promises may expire.
`StagingQueue` has safety properties only.

## 5. Proofs

`TaskManager_proofs` proves, for every set of tasks, projects and pickers, every
concurrency, every kind and number of failing calls, crashes and changes of role
(only `ConstantsAssumption` of `TaskManager` is assumed):

* `TypeCorrect`: `Spec => []TypeOK`. One lemma per group of variables; `HoldIsTyped`
  and `HeldIsTyped` say that what a handler takes and hands on is a task basic.
* `Inductive`: `Spec => []IInv`, with `IInv` of `TaskManagerInv`.
* `QueueIsExact`, `ReleaseIsSafe`, `NothingLeaks`: `QueueMatchesCache`,
  `ReleasedHoldsNothing` and `ResourcesAreTracked` follow.

None of the three is inductive: the step that could break one is taken by a
handler from a copy it made earlier. `IInv` has five parts for each task. `RowInv`: a
released row holds nothing and is past the queue. `CacheInv`: the cache is ahead
of the row by the launch of pick alone, and an entry without a row is being
created. `LateInv`: what outlives the lock (a clean goroutine, a notification, a
delayed write, a selection) concerns a task past init, or past the queue.
`JobInv`: what a handler may rely on at each of its program counters, although
recover and the delayed writes do not take the lock. `QueueInv`: queue and cache
agree, and between the two steps of recover the new queue holds only tasks whose
creation ended just then. The proof has one step per action, and under it one per
part that the action disturbs.

The second half of `TaskManager_proofs` is about what does not hold for every kind of
fault. `Calm` says `MaxFlap = 0` and `FaultKinds \subseteq {"err"}`: the server keeps its
role, though it may crash at any moment and any number of times, and a call that fails has
no effect. These are the faults of the run `task_crash`, for any number of them and of
tasks, projects and pickers. Under `Calm`:

* `ConcurrencyIsRespected`, `NoRowIsOrphaned`, `CacheSurvives`, `TaskIsCountedOnce`:
  `ConcurrencyRespected`, `NoOrphanRow`, `CacheIsDurable` and `CountedOnce`;
* `OverIsOver` and `RunningKeepsItsWorkers`: `RowStaysTerminated` and
  `OnlyTerminatedFreed`, which are about steps.

They rest on `CalmInv` (`CalmInductive`). `AgreeInv`: cache and row agree, but for the
launch of pick; `CopyInv`: what a handler copied under the lock is still what the cache
says, so that what it decided from the copy is still right when it saves; `PendingInv`: a
delayed write brings what the cache has; `TallyInv`: how often a task was counted is
bounded by the faults and crashes so far and by where its cleaner is; `LockInv` and
`RoomInv`: between the check of the concurrency and the insertion nobody else of the
project can come, since the project lock is held, and the tasks that occupy the project
are no more than its limit. `Calm` is needed: TLC violates `ConcurrencyRespected`,
`NoOrphanRow`, `CacheIsDurable` and `RowStaysTerminated` with one change of role or with
one call that takes effect though it fails, and `CountedOnce` and `OnlyTerminatedFreed`
with the faults of `task_live`, where a launch or a delayed write of an earlier term
overwrites a row that is over while a clean goroutine survived. TLC checked `CalmInv`
with 2 tasks, 1 fault and 1 crash, and with 1 task, 2 pickers, 2 faults and 2 crashes.

`SumTheorems` has what the counters are compared with: the sum of a function over a
finite set (`SumFunctionOnSet`). The community module defines it by a recursive function
on the subsets of the set, and the induction theorems of the library cannot be used here,
as they take an operator. So each lemma takes the set of the subsets that refute it and
picks a minimal one (`MinimalSubset`, from the well-foundedness of strict inclusion): the
equation of the definition, that the order of the elements does not matter, what an
element adds, what a changed value changes, bounds, and what a renaming of the elements
keeps. `LeastIndex` does the same for indices.

`QueueAndKeeper_proofs` proves, for every number of tasks, priorities and moments,
`QueueStaysConsistent` (`[]QueueIsConsistent`), `RankIsRight` (`[]RankIsPosition`) and
`QueueKeepsPromise`, `Spec => QueueImplementsPromise`: the lists implement `PriorityQueue`.
The invariant is short: each list is in order of time without a task twice, holds the
entries of the map with its priority (`SortedInv`, `PlaceInv`, `OnceInv`), and the length
counts them. The work is in what follows from it. All is the concatenation of the lists,
which is a recursive operator of the library on sequences: where the entries of a list lie
in it is shown by a least index that would be wrong, and then the position of a task is
the number of entries of greater priority, which Rank sums, and its place in its list. For the
refinement each operation of the lists is shown to be the operation of the set, and First
to be one of the best entries; initial states map to initial ones. TLC checked the
invariant on the states of the run.

`KeeperIsPatient`, `Intervals /\ KeeperSpec => LiveClientKept`, is in the same module
(`Keeper` names its specification apart for that reason), for every set of tasks and
every bound on terms, crashes and updates, and for each term of a process, except for the
check of a later term before its wait is over, which the code does not prevent.
`Intervals` says how long the keeper has to be patient: the grace time is no longer than
the wait, the wait covers the time the clients take to come back and two units for each
update of another handler in a term, and a heartbeat may be late by two units for each
update and one more. Two, as a handler that takes its copy before the heartbeat of one
unit puts it back after that of the next. The invariant carries this as an age: what the
cache holds (`BeatInv`) and what a handler will put back (`CopyInv`) are no older than two
units for each update so far, or the clients are not due yet; it does so while the server
is up or the keeper has not noticed that it is not (`Awake`).

A unit is a time in which a connected client beats at least once and no handler holds its
copy for longer, so what the code's intervals mean depends on how slow a handler is. With
the three updates of a task and the disttask engine, a wait of three minutes and a
timeout of 36 ticks of 5 seconds (`disttask/engine.go:125`), the intervals are met if a
handler holds a copy for 22.5 seconds at most and clients are back within 45 seconds:
these are the values of `keeper_terms`, and with a wait of one unit less `Intervals` fails. Other
engines are less patient: fastbuild (30 ticks) needs handlers faster than 21 seconds,
and distcc, distcc_mac and apisjob (12 ticks, a minute) need ones faster than 8.5 seconds,
a seventh of their timeout. What a handler does while it holds its copy is a launch
or a write, calls of other services that have timeouts of their own; where they are slower
than that, nothing is claimed.

`LocalSlots_proofs` proves `SlotsStayExact`, `NobodyWaitsIdly` and `LimitIsKept`, which are
`SlotsAreExact`, `NoIdleWaiter` and `RunningIsLimited`, for any finite sets of executors
and usages and any slots, limits and weights (`SlotsAssumption`). One definition, `Exact`, says that a
counter is what the executors of a set of usages hold and what is on its way back of it; it
serves for the total and for each usage, so that what a grant, a return and a reading change
is shown once (`TakeIsExact`, `GiveIsExact`, `FreeIsExact`). With it the clamps of putSlot at
zero are never used. `QueueInv` says that each waiting executor is in the list of its usage,
once, and in no other. `BoundInv` bounds the counters by the limits and one request; it holds
after retries too, when exactness does not. The difficult step is putSlot, which wakes up
waiters in rounds: the recursive function `Awake` is unfolded into the states between rounds,
`Woken` holds in each of them, and a round that finds somebody takes him from the waiting
ones, so that after as many rounds as there are executors either the slots are used up or
no list has an entry that fits (`Stuck`). That a round finds somebody if there is one needs
that polling reaches every usage, wherever it starts, as `usages` has each usage once. TLC
checked the invariant on the 396,332 states of the run.

`CrmResource_proofs` proves `CapacityIsNeverLost`, `CountIsExact`, `BlockIsNotGivenTwice` and
`ServiceIsNeverForgotten`, which are `CapacityIsKept`, `NoReadyIsExact`, `NeverOvercommitted`
and `ServiceIsTracked`, for any finite set of resources, any size of the block and of the
tasks, any number of failing calls, crashes, and reports with or without the block (from
`CrmAssumption` and `NoneAssumption`). The counts are sums over resources: what each has
taken and not given back, what runs, what is on its way. A launch and a release may hold copies of one
record at once, so `RecordsInv` says who may still write which record and with which count:
a launch owns its record unless a release overtook it (`drifted`), a release counts what it
copied, which is no less than what the record still has, and nobody looks at a service
whose launch is under way. Then `CountInv` and `RoomInv` follow for each step from what it
adds to and takes from the sums. `TrackInv` lists, for each step of a release, who is there
to end the service. `noReady` and the requests are numbers without an upper bound in the
type invariant: a block that vanishes takes its count with it, while what the resources
hold is not forgotten, so that they are not bounded by the size of the block.

`BrokerAndOffer_proofs` proves `PoolIsCounted`, `Spec => []PoolIsExact`, for every finite set of
spares, every wanted number and every number of failing calls and crashes (from
`BrokerAssumption`: the spares are finite, the bounds are numbers, `None` is no record).
The count alone follows from what enters and leaves the two pools, but that a spare
enters a pool only once, and that a sold one stays out, does not: it depends on what a
goroutine that is still under way, or a restart, may do to the spare. `SpareInv` adds
that the five places a spare can be in exclude each other, except that one that is
traced may be tracked or wait for its release; that the call of a launch ends before
anything else begins; that a free one runs and is traced no more; and that the row of
a sold one says so, so that recovery leaves it out. `Wanted` adds what checkBroker
still launches to the count. Two lemmas say what a release, in all its ways to fail,
does to the map and the row; then one lemma for each part of `PoolInv` has one step per
action. `PoolInv` was checked by TLC before, with twice the crashes of the run.

`RemoteSlots_proofs` proves `SlotsStayBalanced`, `Spec => []SlotsAreBalanced`, and
`OverbookedByOneAtMost`, `Spec => []OverbookedByOne`, for every finite set of jobs and of
hosts, every number of slots, tries and events (from `RemoteAssumption`: jobs and hosts
are finite, every host has a slot, `None` is no host). Both are inductive once it is known
which job may be told what. `HolderInv`: a job has a worker exactly while it holds a slot
of it, so no answer overwrites one. `RequestInv`: while the work lasts, each request is
in one of the two queues, once, and its job asks, so none is answered twice.
`WithinOne`: a worker counts one above its slots at most, since only one that has none
free, but none overdrawn, is picked. The argument has two halves. The first says what
becomes of the counters, whoever takes the step: `Effect` lists the seven ways (nothing,
a grant, a slot given back, one that is read, that and a grant, a reset without holders,
or one that is remembered in `displaced`), and each action comes to one of them
(`JobStep`, `HandleLockStep`, `UpkeepStep`, `WorkStep`). The second counts: a grant puts a
job among those of its worker, giving back moves it to the channel, reading takes it off
(`TakingKeepsBalance`, `GivingKeepsBalance`, `FreeingKeepsBalance`, on cardinalities), so
`BalanceStep` follows for all of them.

`TotalStaysAvailable`, `Spec => []TotalIsAvailable`, is in the same module: unless a worker
was disabled and dead at once (`mixed`), the total is the sum of the slots of the workers
that are available. `AvailInv` adds that no worker is both while `mixed` is false; then each of the steps that
change a worker takes exactly its slots out of the sum or puts them back.

`RemoteFiles_proofs` proves `OneSenderAlways`, `Spec => []OneSender`, for any number of
jobs, versions of the tool chain and events (from `FilesAssumption`: the retriers are no
jobs, the input file is no version, `None` is no record of the cache). Two senders of one
file may come from two caches, as a job looks into what was sent and a retrier into what
failed, so the invariant has to tie the caches to each other and to the callers.
`FileInv`: a mark "sending" is that of one caller, who alone has to take it away, in the
first cache for a job and in the second for a retry; a file that failed was sent, and
stands in the first cache, so no job begins to send it. `ToolInv`: the one who sends a tool
chain, in whichever of its steps, has the record of its version; a version whose file
failed is the one in the record, and not finished there, so the files retrier sends none
beside a newer one. That a finished record cannot stand over a failed file needs `Relies`:
who will record success has a file that did not fail, also between its answer and the
record. `CleanInv`: while the caches are emptied in three steps nobody uses them, or
`crossed` says so. These three are proved up to the first step that sets `crossed` or
`overlapped`; `BatchInv` (each caller is in the queue or in one batch, once) and `PlaceInv`
(which caller may be about which file) hold throughout.

`JobAlwaysHasItsFiles`, `Spec => JobHasItsFiles`, is an action property of the same module:
a job that goes on to its execution finds its input and the tool chain at the worker. It
needs what the caches say about the worker, `HasInv`: while the controller knows the
worker that runs (`noticed`), nothing was emptied beside the callers and no batch was
refused, a file that is recorded as sent is there (`RecordedInv`) and so is what a caller
is about to record or has been told (`Knows`); a refused batch is the only one that records
what is not there (`RefusedInv`).

The same module as the broker's proves `BookedStaysExact`, `OfferSpec => []BookedIsExact`,
and `PromisesStayKept`, `OfferSpec => []PromisesAreKept`, of `WorkerOffer`, for any finite
set of controllers and any number of jobs, connections, slots and events (from
`OfferAssumption`: the controllers are finite, each has a priority to query with, the
worker has a slot). The module begins with what a list keeps when cleanSlot builds it anew
(`KeptSelects`: the operator is a recursive function, so by induction up to the length)
and what is then left of the sum over it, of all slots and of those of one client
(`CleanedSlots`, `AppendedSlots`, `UsedSlot`, `SlotsByClient`). The invariant has five
parts. `OfferTypeOK` are the types: a connection that is asked is one, and what is booked
is at least one slot. `BookedInv`: the count is the sum of the slots, and of what
estimateSlot adds before it has recorded the slots; between its read and its write the
count has not changed, unless `raced`. `ReadInv`: while the estimate is being read nothing is
booked, so that a count that was read is no less than the one there is: what is read too
early makes the estimate too small, but for tasks that begin to run meanwhile (`astray`). `ConnInv`: the worker keeps, or asks, a connection only
if nothing but its controller closes it, and an offer that is under way was made by a
connection that a query opened. So a controller that takes an offer answers by the
connection it came by, or is `astray`. `PromiseInv`: while neither has happened, at most one
offer may still be answered, that of the client that is asked, and its answer is at most
what the estimate has (`OfferedOnce`); the jobs of each client that have a slot, or whose
task has come and not been taken off, are covered by its slots, by what is being booked
for it and by the tasks that came without one (`Covered`); and what runs, waits and is
granted, with what the estimate has left, is no more than the worker has and one for each
task without a slot (`Fits`). An estimate establishes the last from the third, summed
over the clients, and from the exact count; each later step moves an amount from
one term to the next.

Only model-checked:

* All liveness (`EveryTaskReleased`, `LostClientFailed`, `EveryLockReturns`, both properties
  of `Selector` and the others), which rests on fairness and on ENABLED and is beyond the prover.

## 6. Not modelled

* In what is modelled: times other than the keeper's; the removal of locks older
  than a day (`layer.go:575`); queues whose name is a list (`selector.go:216`), whose
  launch, when it succeeded before a crash, is repeated for another queue; the
  failure of one engine of several during recovery (`layer.go:526`); changes of the
  master role without a crash in `CrmResource` and `Broker`, where a tracker of the
  earlier term may go on beside the one that recover starts (`broker.go:433`);
  several blocks of nodes; scaling; several workers in `WorkerOffer`, whose number
  decides the priority of a query (any, here); several files of one job.
* Sequential code over texts and file contents: the handlers of the compilers, the
  analyser, the reader of the shader and UBT traces, the protocols and their
  encoding, the tools. There is nothing in them that two actors reach in an order
  nobody wrote; their input is what their tests enumerate. This is most of the
  lines of the repository.
* SQL, HTTP and ZooKeeper, message texts, statistics, metrics and logging.
* Memory slots (`slots4memory.go`, whose callers are commented out in
  `remote/mgr.go`) and the caches on the side of the worker.
* The parts PROJECT.json lists as not modelled, each with its reason.

## 7. Plan

What is left, in this order:

1. Changes of the master role without a crash in `CrmResource` and `Broker`, whose
   goroutines read the context and the pools of the next term.
2. The composition of `TaskManager` with `CrmResource`, in place of `res` and of
   `task`: the engine's release takes ErrorResourceNoExist for success, also when it
   is the spare a resource was bought from that does not exist.
3. An abstract `TaskLife` (a client's view of a task: created, queued, working,
   ended, released), refined by `TaskManager`.
4. Several engines in recovery, and the cleaner of locks.
5. The direct resource manager and the life of a work (basic manager).

Theorems to come: what remains of
`CountedOnce` and `OnlyTerminatedFreed` with one change of role; the refinement of
`TaskLife`.
