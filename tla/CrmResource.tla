---------------------------- MODULE CrmResource ----------------------------
(***************************************************************************)
(* The container resource manager (resource/crm/manager.go) over one block *)
(* of nodes (crm/operator/bcs.go), with the tasks that call it             *)
(* (engine/disttask/engine.go) and a kubernetes cluster as the operator    *)
(* shows it (crm/operator/k8s/operator.go).                                *)
(*                                                                         *)
(* A launch takes instances from what the cluster last reported as free,   *)
(* and counts them as not ready until they are.  The call of the cluster   *)
(* runs in a goroutine of its own, without the lock of the resource, while *)
(* the task may be cancelled.  What brokers launch ahead is Broker's.      *)
(***************************************************************************)
EXTENDS Integers, FiniteSets, Functions

CONSTANTS
    Resource,
    Total,      \* Instances the block has room for
    Least,      \* LeastInstance, and RequestInstance of each task
    Want,
    Leaving,    \* Bound: resources that may be released
    MaxFault,   \* Bounds: calls that fail or reports without the block; crashes
    MaxCrash,
    BlockVanishes, \* Bound: whether a report may be without the block
    None

ASSUME CrmAssumption ==
    /\ IsFiniteSet(Resource)
    /\ {Total, Least} \subseteq Nat \ {0} /\ Want \in [Resource -> {n \in Nat : n >= Least}]
    /\ {MaxFault, MaxCrash} \subseteq Nat /\ BlockVanishes \in BOOLEAN
    /\ Leaving \subseteq Resource

Caller == {"task", "trace"}

VARIABLES
    cache,      \* registeredResourceMap
    row,        \* The table of resources
    flight,     \* The goroutine of realLaunch, with its copy
    releasing,  \* A release that holds the lock of the resource
    trace,      \* A goroutine of trace runs
    seen,       \* Instances a caller of getServiceInfo saw ready
    task,       \* The task of the engine that owns the resource
    pool,       \* NodeInfoBlock
    asked,      \* releaseNoReadyInstance: waits for a report
    due,        \* releaseNoReadyInstance: has its report
    service,    \* The deployment: its size and what is ready of it
    watcher,    \* trackAndReleaseDeployment runs
    faults, crashes,
    drifted,    \* History: a release overtook its launch, or the block vanished
    cut         \* History: resources a crash left without a row or a watcher

manager == <<cache, row, flight, releasing, trace, seen>>
counts == <<pool, asked, due>>
cluster == <<service, watcher>>
bounds == <<faults, crashes>>
vars == <<manager, task, counts, cluster, bounds, drifted, cut>>

Status == {"init", "deploying", "running", "released"}
Rec == [status: Status, noReady: Nat, request: Nat]
Launching == [rec: Rec, pc: {"call", "save"}]
Release == [rec: Rec, by: Caller]
View == [ready: Nat, terminated: BOOLEAN]
Deployment == [size: Nat, ready: Nat]
ASSUME NoneAssumption == None \notin Rec \cup Launching \cup Release \cup View \cup Deployment

Fresh == [status |-> "init", noReady |-> 0, request |-> 0]

TypeOK ==
    /\ cache \in [Resource -> Rec \cup {None}]
    /\ row \in [Resource -> Rec \cup {None}]
    /\ flight \in [Resource -> Launching \cup {None}]
    /\ releasing \in [Resource -> Release \cup {None}]
    /\ trace \in [Resource -> BOOLEAN]
    /\ seen \in [Caller -> [Resource -> View \cup {None}]]
    /\ task \in [Resource -> {"staging", "starting", "running", "ending", "ended"}]
    /\ pool \in [known: BOOLEAN, available: 0..Total, noReady: Int]
    /\ asked \in Nat /\ due \in Nat
    /\ service \in [Resource -> Deployment \cup {None}]
    /\ watcher \in [Resource -> BOOLEAN]
    /\ faults \in 0..MaxFault /\ crashes \in 0..MaxCrash
    /\ drifted \in BOOLEAN /\ cut \subseteq Resource

Init ==
    /\ cache = [r \in Resource |-> None] /\ row = cache
    /\ flight = cache /\ releasing = cache
    /\ trace = [r \in Resource |-> FALSE]
    /\ seen = [p \in Caller |-> [r \in Resource |-> None]]
    /\ task = [r \in Resource |-> "staging"]
    /\ pool = [known |-> TRUE, available |-> 0, noReady |-> 0]
    /\ asked = 0 /\ due = 0
    /\ service = cache /\ watcher = trace
    /\ faults = 0 /\ crashes = 0
    /\ drifted = FALSE /\ cut = {}

(***************************************************************************)
(* Launch                                                                  *)
(***************************************************************************)
Unlocked(r) == releasing[r] = None
Fail == faults < MaxFault /\ faults' = faults + 1

\* What the task takes of the instances that are free.
Take(r, free) == IF free < Want[r] THEN free ELSE Want[r]
FreeInstances == pool.available - pool.noReady
\* Otherwise ErrorApplicationAlreadyLaunched.
Launchable(r) == cache[r] # None => cache[r].status = "init"

\* launchCRMTask initialises the resource, unless it is, and launches it.
LaunchRefused(r) ==
    /\ task[r] = "staging" /\ Unlocked(r)
    /\ \/ cache[r] = None /\ cache' = [cache EXCEPT ![r] = Fresh]
       \/ cache[r] # None /\ UNCHANGED cache
    /\ Launchable(r) => ~pool.known \/ FreeInstances < Least
    /\ UNCHANGED <<row, flight, releasing, trace, seen, task, counts, cluster,
                   bounds, drifted, cut>>

Launch(r) ==
    /\ task[r] = "staging" /\ Unlocked(r)
    /\ Launchable(r)
    /\ pool.known /\ FreeInstances >= Least
    /\ LET n == Take(r, FreeInstances)
           rec == [Fresh EXCEPT !.noReady = n, !.request = n]
       IN /\ pool' = [pool EXCEPT !.noReady = @ + n]
          /\ cache' = [cache EXCEPT ![r] = rec]
          /\ flight' = [flight EXCEPT ![r] = [rec |-> rec, pc |-> "call"]]
    /\ task' = [task EXCEPT ![r] = "starting"]
    /\ UNCHANGED <<row, releasing, trace, seen, asked, due, cluster, bounds, drifted, cut>>

\* realLaunch: LaunchServer creates the deployment.
LaunchServer(r) ==
    /\ flight[r] # None /\ flight[r].pc = "call" /\ service[r] = None
    /\ service' = [service EXCEPT ![r] = [size |-> flight[r].rec.request, ready |-> 0]]
    /\ flight' = [flight EXCEPT ![r].pc = "save"]
    /\ UNCHANGED <<cache, row, releasing, trace, seen, task, counts, watcher, bounds,
                   drifted, cut>>

\* Mutant: what was taken is not given back.
LaunchServerFailsMutant(r) ==
    /\ flight[r] # None /\ flight[r].pc = "call" /\ service[r] = None /\ Fail
    /\ cache' = [cache EXCEPT ![r] = [flight[r].rec EXCEPT !.noReady = 0]]
    /\ flight' = [flight EXCEPT ![r] = None]
    /\ UNCHANGED <<row, releasing, trace, seen, task, counts, cluster, crashes, drifted, cut>>

\* LaunchServer fails: the name is taken, the cluster refuses, or its answer
\* is lost.  updateNoReadyInfo puts the copy in the map without the lock of
\* the resource.
LaunchServerFails(r) ==
    /\ flight[r] # None /\ flight[r].pc = "call"
    /\ \/ service[r] # None /\ UNCHANGED <<service, faults>>
       \/ service[r] = None /\ Fail
          /\ \/ UNCHANGED service
             \/ service' = [service EXCEPT ![r] =
                              [size |-> flight[r].rec.request, ready |-> 0]]
    /\ cache' = [cache EXCEPT ![r] = [flight[r].rec EXCEPT !.noReady = 0]]
    /\ asked' = asked + flight[r].rec.noReady
    /\ flight' = [flight EXCEPT ![r] = None]
    /\ UNCHANGED <<row, releasing, trace, seen, task, pool, due, watcher, crashes, drifted, cut>>

\* saveResources updates the map, and then the row, which may fail.
Save(r, rec) ==
    /\ cache' = [cache EXCEPT ![r] = rec]
    /\ \/ row' = [row EXCEPT ![r] = rec] /\ UNCHANGED faults
       \/ Fail /\ UNCHANGED row

SaveLaunched(r) ==
    /\ flight[r] # None /\ flight[r].pc = "save" /\ Unlocked(r)
    /\ Save(r, [flight[r].rec EXCEPT !.status = "deploying"])
    /\ flight' = [flight EXCEPT ![r] = None]
    /\ trace' = [trace EXCEPT ![r] = TRUE]
    /\ UNCHANGED <<releasing, seen, task, counts, cluster, crashes, drifted, cut>>

(***************************************************************************)
(* The state of the service, for the task and for the tracer               *)
(***************************************************************************)
Looking(p, r) ==
    /\ seen[p][r] = None
    /\ IF p = "trace" THEN trace[r]
       ELSE task[r] = "starting" /\ cache[r] # None /\ cache[r].status # "init"

\* getServiceInfo, up to the answer of the cluster; an error changes nothing.
GetServerStatus(p, r) ==
    /\ Looking(p, r) /\ Unlocked(r) /\ cache[r] # None /\ service[r] # None
    /\ seen' = [seen EXCEPT ![p][r] =
                 [ready |-> service[r].ready, terminated |-> service[r].ready = service[r].size]]
    /\ UNCHANGED <<cache, row, flight, releasing, trace, task, counts, cluster, bounds,
                   drifted, cut>>

TraceFindsNothing(r) ==
    /\ Looking("trace", r) /\ Unlocked(r) /\ cache[r] = None
    /\ trace' = [trace EXCEPT ![r] = FALSE]
    /\ UNCHANGED <<cache, row, flight, releasing, seen, task, counts, cluster, bounds,
                   drifted, cut>>

\* The record after freshDeployingStatus, for what was seen of the service.
Refreshed(rec, s) ==
    LET noReady == rec.request - s.ready
    IN [rec EXCEPT
          !.noReady = IF s.terminated THEN 0
                      ELSE IF noReady >= 0 /\ noReady < @ THEN noReady ELSE @,
          !.status = IF s.terminated /\ @ = "deploying" THEN "running" ELSE @]

\* freshDeployingStatus, and what the caller makes of the answer; the task
\* runs even when the resource is gone by now.
FreshDeployingStatus(p, r) ==
    LET s == seen[p][r] IN
    /\ s # None /\ Unlocked(r)
    /\ IF cache[r] = None THEN UNCHANGED <<cache, row, asked, faults>>
       ELSE LET new == Refreshed(cache[r], s)
            IN Save(r, new) /\ asked' = asked + cache[r].noReady - new.noReady
    /\ seen' = [seen EXCEPT ![p][r] = None]
    /\ trace' = [trace EXCEPT ![r] = @ /\ ~(p = "trace" /\ s.terminated)]
    /\ task' = [task EXCEPT ![r] =
                  IF p = "task" /\ s.terminated /\ @ = "starting" THEN "running" ELSE @]
    /\ UNCHANGED <<flight, releasing, pool, due, cluster, crashes, drifted, cut>>

(***************************************************************************)
(* Release                                                                 *)
(***************************************************************************)
\* The task is cancelled, fails or is done, in any state.
TaskEnds(r) ==
    /\ r \in Leaving /\ task[r] \in {"staging", "starting", "running"}
    /\ task' = [task EXCEPT ![r] = "ending"]
    /\ UNCHANGED <<manager, counts, cluster, bounds, drifted, cut>>

\* The cleaner releases the task; the tracer gives up after three minutes.
Releasing(p, r) ==
    /\ r \in Leaving /\ Unlocked(r)
    /\ IF p = "task" THEN task[r] = "ending" ELSE trace[r] /\ seen["trace"][r] = None

\* Whether release returns an error or not, the tracer ends; the cleaner comes
\* back unless there is none, or the resource does not exist.
Returns(p, r, done) ==
    /\ trace' = [trace EXCEPT ![r] = @ /\ p # "trace"]
    /\ task' = [task EXCEPT ![r] = IF p = "task" /\ done THEN "ended" ELSE @]

\* A deletion that fails may have taken effect.
ReleaseFails(p, r) ==
    /\ Releasing(p, r)
    /\ \/ cache[r] = None /\ Returns(p, r, TRUE) /\ UNCHANGED <<faults, service>>
       \/ cache[r] # None /\ Returns(p, r, FALSE) /\ Fail
          /\ service' \in {service, [service EXCEPT ![r] = None]}
    /\ UNCHANGED <<cache, row, flight, releasing, seen, counts, watcher, crashes,
                   drifted, cut>>

\* Mutants: an error of the deletion is taken for success; a deployment that is
\* not found is not watched for.
ReleaseServerMutant(p, r) ==
    /\ Releasing(p, r) /\ cache[r] # None
    /\ releasing' = [releasing EXCEPT ![r] = [rec |-> cache[r], by |-> p]]
    /\ drifted' = (drifted \/ flight[r] # None)
    /\ UNCHANGED <<cache, row, flight, trace, seen, task, counts, cluster, bounds, cut>>
ReleaseServerUnwatched(p, r) ==
    /\ Releasing(p, r) /\ cache[r] # None
    /\ service' = [service EXCEPT ![r] = None]
    /\ releasing' = [releasing EXCEPT ![r] = [rec |-> cache[r], by |-> p]]
    /\ drifted' = (drifted \/ flight[r] # None)
    /\ UNCHANGED <<cache, row, flight, trace, seen, task, counts, watcher, bounds, cut>>

\* releaseServer deletes the deployment, or watches for it to come.
ReleaseServer(p, r) ==
    /\ Releasing(p, r) /\ cache[r] # None
    /\ service' = [service EXCEPT ![r] = None]
    /\ watcher' = [watcher EXCEPT ![r] = @ \/ service[r] = None]
    /\ releasing' = [releasing EXCEPT ![r] = [rec |-> cache[r], by |-> p]]
    /\ drifted' = (drifted \/ flight[r] # None)
    /\ UNCHANGED <<cache, row, flight, trace, seen, task, counts, bounds, cut>>

\* The rest of release.  The resource leaves the map even if the row cannot be
\* written.
SaveReleased(r) ==
    /\ releasing[r] # None
    /\ LET rec == releasing[r].rec
           new == [rec EXCEPT !.noReady = 0, !.status = "released"]
       IN /\ asked' = asked + rec.noReady
          /\ cache' = [cache EXCEPT ![r] = None]
          /\ \/ row' = [row EXCEPT ![r] = new] /\ UNCHANGED faults
                /\ Returns(releasing[r].by, r, TRUE)
             \/ Fail /\ UNCHANGED row /\ Returns(releasing[r].by, r, FALSE)
    /\ releasing' = [releasing EXCEPT ![r] = None]
    /\ UNCHANGED <<flight, seen, pool, due, cluster, crashes, drifted, cut>>

(***************************************************************************)
(* The cluster and its reports                                             *)
(***************************************************************************)
InstanceStarts(r) ==
    /\ service[r] # None /\ service[r].ready < service[r].size
    /\ service' = [service EXCEPT ![r].ready = @ + 1]
    /\ UNCHANGED <<manager, task, counts, watcher, bounds, drifted, cut>>

\* trackAndReleaseDeployment deletes the deployment once it exists.
WatcherDeletes(r) ==
    /\ watcher[r] /\ service[r] # None
    /\ service' = [service EXCEPT ![r] = None]
    /\ watcher' = [watcher EXCEPT ![r] = FALSE]
    /\ UNCHANGED <<manager, task, counts, bounds, drifted, cut>>

\* It gives up after 15 minutes, which no call of LaunchServer takes.
WatcherGivesUp(r) ==
    /\ watcher[r] /\ service[r] = None /\ flight[r] = None
    /\ watcher' = [watcher EXCEPT ![r] = FALSE]
    /\ UNCHANGED <<manager, task, counts, service, bounds, drifted, cut>>

Used == SumFunction([r \in Resource |-> IF service[r] = None THEN 0 ELSE service[r].size])

\* What the nodes report as free.  It may be below zero (valid() looks at the
\* totals only): then nothing is launched, as with none free.
FreeOfNodes == IF Used < Total THEN Total - Used ELSE 0

\* The goroutines of releaseNoReadyInstance that waited for a report have it.
Reported == due' = due + asked /\ asked' = 0

\* sync: the block inherits its count of instances that are not ready.
Sync ==
    /\ pool' = [pool EXCEPT !.known = TRUE, !.available = FreeOfNodes]
    /\ Reported
    /\ UNCHANGED <<manager, task, cluster, bounds, drifted, cut>>

\* A report without nodes of the block: the block is gone, with its count.
SyncWithoutBlock ==
    /\ BlockVanishes /\ Fail
    /\ pool' = [known |-> FALSE, available |-> 0, noReady |-> 0]
    /\ Reported
    /\ drifted' = (drifted \/ pool.noReady # 0)
    /\ UNCHANGED <<manager, task, cluster, crashes, cut>>

\* Mutant: it does not wait for a report.
ReleaseNoReadyInstanceMutant ==
    \E n \in 1..asked :
        /\ asked' = asked - n
        /\ pool' = IF pool.known THEN [pool EXCEPT !.noReady = @ - n] ELSE pool
        /\ UNCHANGED <<manager, task, due, cluster, bounds, drifted, cut>>

ReleaseNoReadyInstance ==
    \E n \in 1..due :
        /\ due' = due - n
        /\ pool' = IF pool.known THEN [pool EXCEPT !.noReady = @ - n] ELSE pool
        /\ UNCHANGED <<manager, task, asked, cluster, bounds, drifted, cut>>

(***************************************************************************)
(* A crash, and recover of the next process                                *)
(***************************************************************************)
Alive(r) == row[r] # None /\ row[r].status # "released"

\* Nothing would end the service of r after a crash, or it may yet be created.
IsCut(r) ==
    \/ watcher[r] \/ flight[r] # None
    \/ service[r] # None /\ ~Alive(r)

\* RecoverNoReadyBlock adds up what the rows say.
RecoveredNoReadyMutant == 0
RecoveredNoReady ==
    SumFunction([r \in Resource |-> IF Alive(r) THEN row[r].noReady ELSE 0])

\* A call of LaunchServer under way may still take effect; a task whose start
\* was not written is staging again.
Crash ==
    /\ crashes < MaxCrash /\ crashes' = crashes + 1
    /\ \E made \in SUBSET {r \in Resource : /\ flight[r] # None /\ service[r] = None
                                            /\ flight[r].pc = "call"} :
        service' = [r \in Resource |->
            IF r \in made THEN [size |-> flight[r].rec.request, ready |-> 0] ELSE service[r]]
    /\ \E lost \in SUBSET {r \in Resource : task[r] = "starting"} :
        task' = [r \in Resource |-> IF r \in lost THEN "staging" ELSE task[r]]
    /\ cache' = [r \in Resource |-> IF Alive(r) THEN row[r] ELSE None]
    /\ pool' = [known |-> TRUE, available |-> 0, noReady |-> RecoveredNoReady]
    /\ trace' = [r \in Resource |-> Alive(r) /\ row[r].status = "deploying"]
    /\ flight' = [r \in Resource |-> None] /\ releasing' = flight'
    /\ seen' = [p \in Caller |-> flight'] /\ watcher' = [r \in Resource |-> FALSE]
    /\ asked' = 0 /\ due' = 0
    /\ cut' = cut \cup {r \in Resource : IsCut(r)}
    /\ UNCHANGED <<row, faults, drifted>>

Next ==
    \/ \E r \in Resource :
        \/ LaunchRefused(r) \/ Launch(r) \/ LaunchServer(r) \/ LaunchServerFails(r)
        \/ SaveLaunched(r) \/ TraceFindsNothing(r) \/ TaskEnds(r) \/ SaveReleased(r)
        \/ InstanceStarts(r) \/ WatcherDeletes(r) \/ WatcherGivesUp(r)
        \/ \E p \in Caller : GetServerStatus(p, r) \/ FreshDeployingStatus(p, r)
                             \/ ReleaseFails(p, r) \/ ReleaseServer(p, r)
    \/ Sync \/ SyncWithoutBlock \/ ReleaseNoReadyInstance \/ Crash

Spec == Init /\ [][Next]_vars

\* The cluster answers, the cleaner comes back to a task until it is released,
\* and the watcher and the goroutines run.
Fairness ==
    \A r \in Resource :
        /\ WF_vars(LaunchServer(r) \/ LaunchServerFails(r)) /\ WF_vars(SaveLaunched(r))
        /\ WF_vars(ReleaseServer("task", r)) /\ WF_vars(ReleaseFails("task", r))
        /\ WF_vars(SaveReleased(r)) /\ WF_vars(WatcherDeletes(r))
FairSpec == Spec /\ Fairness

(***************************************************************************)
(* Properties                                                              *)
(***************************************************************************)
Held == SumFunction([r \in Resource |-> IF cache[r] = None THEN 0 ELSE cache[r].noReady])
Promised == Held + asked + due

\* No instance is counted as not ready for ever: what the block holds back
\* belongs to a resource or is about to be given back, whatever fails, crashes
\* or overtakes (updateNoReadyInfo, releaseNoReadyInstance).
CapacityIsKept == pool.noReady <= Promised

\* The block counts exactly the instances that were taken and are not ready,
\* over launches, partial starts, failures, releases and recovery, as long as
\* no release overtakes the launch of its resource and the block is reported.
NoReadyIsExact == drifted \/ pool.noReady = (IF pool.known THEN Promised ELSE 0)

\* The block is not given out twice: what is deployed and what is about to be
\* fits into it, because a count is given back only after a report that shows
\* the instances (releaseNoReadyInstance waits for GetLastUpdateTime).
Calling(r) == flight[r] # None /\ flight[r].pc = "call"
Ordered ==
    SumFunction([r \in Resource |-> IF Calling(r) THEN flight[r].rec.request ELSE 0])
NeverOvercommitted == drifted \/ Used + Ordered <= Total

\* A service that runs is known to somebody who will end it: it has a resource
\* in the map, or a goroutine that will put it there or delete it; unless a
\* crash cut it off (the TODO in realLaunch).
ServiceIsTracked ==
    \A r \in Resource \ cut :
        service[r] # None => cache[r] # None \/ flight[r] # None \/ watcher[r]

\* The service of a task that was released stops, even if it was created after
\* the release found nothing to delete (trackAndReleaseDeployment).
EveryServiceStops ==
    \A r \in Leaving : task[r] = "ended" ~> (service[r] = None \/ r \in cut)
=============================================================================
