------------------------------- MODULE Broker -------------------------------
(***************************************************************************)
(* A broker of the container resource manager (resource/crm/broker.go): it *)
(* keeps a wanted number of spares, resources launched ahead of any task,  *)
(* and sells a running one to the task that applies for it.  The manager   *)
(* (resource/crm/manager.go) is here as the broker sees it; the instances  *)
(* a launch takes, and a release that overtakes the launch, are            *)
(* CrmResource's.                                                          *)
(*                                                                         *)
(* A spare is in the pool of free ones, or followed by a tracker until it  *)
(* runs, or in the pool of those whose release failed; a count of its own  *)
(* (currentNum) says how many the broker has.  All of these live in memory *)
(* and are built again from the rows after a restart.                      *)
(***************************************************************************)
EXTENDS Integers, FiniteSets

CONSTANTS
    Spare,      \* Bound: the identities generateID gives
    ConstNum,   \* The number of spares the strategy wants
    MaxFault,   \* Bounds: failing calls of the cluster or the database; crashes
    MaxCrash,
    None

Rec == [status: {"init", "deploying", "running", "deleting", "released"}, sold: BOOLEAN]

ASSUME BrokerAssumption ==
    /\ {ConstNum, MaxFault, MaxCrash} \subseteq Nat
    /\ IsFiniteSet(Spare)
    /\ None \notin Rec \cup {"call", "save"}

VARIABLES
    cache,      \* registeredResourceMap
    row,        \* The table of resources
    service,    \* What the cluster runs
    flight,     \* The goroutine of realLaunch
    tracing,    \* Resources that a goroutine of rm.trace follows
    free,       \* freeResources
    tracked,    \* Spares that a goroutine of tracker follows
    currentNum,
    initPool, releasePool,
    cooling,
    todo,       \* What checkBroker still launches (> 0) or releases (< 0)
    buyer,      \* The task a spare was sold to
    faults, crashes,
    cut         \* History: services a crash left without anyone to end them

manager == <<cache, row, service>>
launching == <<flight, tracing>>
pool == <<free, tracked, currentNum>>
checker == <<initPool, cooling, todo>>
bounds == <<faults, crashes>>
vars == <<manager, launching, pool, releasePool, checker, buyer, bounds, cut>>

Fresh == [status |-> "init", sold |-> FALSE]

TypeOK ==
    /\ cache \in [Spare -> Rec \cup {None}] /\ row \in [Spare -> Rec \cup {None}]
    /\ service \in [Spare -> {"none", "starting", "ready"}]
    /\ flight \in [Spare -> {"call", "save", None}]
    /\ {tracing, free, tracked, initPool, releasePool, cut} \subseteq SUBSET Spare
    /\ currentNum \in Nat /\ cooling \in BOOLEAN /\ todo \in Int
    /\ buyer \in [Spare -> {"none", "launched", "written", "ended"}]
    /\ faults \in 0..MaxFault /\ crashes \in 0..MaxCrash

Init ==
    /\ cache = [r \in Spare |-> None] /\ row = cache /\ flight = cache
    /\ service = [r \in Spare |-> "none"] /\ buyer = service
    /\ tracing = {} /\ free = {} /\ tracked = {} /\ currentNum = 0
    /\ initPool = {} /\ releasePool = {} /\ cooling = FALSE /\ todo = 0
    /\ faults = 0 /\ crashes = 0 /\ cut = {}

Fail == faults < MaxFault /\ faults' = faults + 1

(***************************************************************************)
(* Releasing a resource                                                    *)
(***************************************************************************)
\* ReleaseServer fails, though it may have deleted the deployment.
ReleaseServerFails(r) ==
    Fail /\ service' \in {service, [service EXCEPT ![r] = "none"]}

\* The rest of release: the resource leaves the map even if its row cannot be
\* written, which is an error all the same.
SaveReleased(r, ok) ==
    /\ service' = [service EXCEPT ![r] = "none"]
    /\ cache' = [cache EXCEPT ![r] = None]
    /\ LET written == [row EXCEPT ![r] = [sold |-> cache[r] # None /\ cache[r].sold,
                                          status |-> "released"]]
       IN \/ ok /\ row' = written /\ UNCHANGED faults
          \/ ~ok /\ Fail /\ row' \in {row, written}

\* rm.release of a resource that is in the map.
Release(r, ok) ==
    \/ SaveReleased(r, ok)
    \/ ~ok /\ ReleaseServerFails(r) /\ UNCHANGED <<cache, row>>

\* Mutant: a spare whose release failed is forgotten.
ReleaseOrAddMutant(r) == UNCHANGED releasePool /\ \E ok \in BOOLEAN : Release(r, ok)

\* The broker releases a spare; when that fails, addReleaseResource marks what
\* is left of it in the map, and keeps it for the release loop.
ReleaseOrAdd(r) ==
    \/ SaveReleased(r, TRUE) /\ UNCHANGED releasePool
    \/ /\ releasePool' = releasePool \cup {r}
       /\ \/ SaveReleased(r, FALSE)
          \/ /\ ReleaseServerFails(r)
             /\ LET rec == [sold |-> cache[r] # None /\ cache[r].sold,
                            status |-> "deleting"]
                IN /\ cache' = [cache EXCEPT ![r] = rec]
                   /\ row' \in {row, [row EXCEPT ![r] = rec]}

\* doReleaseLoop, of a broker whose parameter ReleaseLoop is set; one that does
\* not exist, or fails again, stays in the pool.
ReleaseLoop(r) ==
    /\ r \in releasePool /\ cache[r] # None
    /\ \/ Release(r, TRUE) /\ releasePool' = releasePool \ {r}
       \/ Release(r, FALSE) /\ UNCHANGED releasePool
    /\ UNCHANGED <<launching, pool, checker, buyer, crashes, cut>>

(***************************************************************************)
(* checkBroker: one goroutine launches or releases what the strategy says, *)
(* from a count it read before, and stops at the first error               *)
(***************************************************************************)
CheckBroker ==
    /\ todo = 0 /\ currentNum # ConstNum
    /\ todo' = ConstNum - currentNum
    /\ UNCHANGED <<manager, launching, pool, releasePool, initPool, cooling, buyer,
                   bounds, cut>>

Unused(r) ==
    /\ cache[r] = None /\ row[r] = None /\ service[r] = "none" /\ flight[r] = None
    /\ r \notin tracked \cup releasePool
Candidate(r) == IF initPool # {} THEN r \in initPool ELSE Unused(r)

\* The instances were taken: realLaunch and the tracker begin.
Launch(r) ==
    /\ todo > 0 /\ ~cooling /\ Candidate(r)
    /\ cache' = [cache EXCEPT ![r] = Fresh]
    /\ flight' = [flight EXCEPT ![r] = "call"]
    /\ currentNum' = currentNum + 1 /\ tracked' = tracked \cup {r}
    /\ initPool' = initPool \ {r} /\ todo' = todo - 1
    /\ UNCHANGED <<row, service, tracing, free, releasePool, cooling, buyer, bounds, cut>>

\* ErrorBrokerNotEnoughResources: the initialised resource waits for the next turn.
LaunchRefused(r) ==
    /\ todo > 0 /\ ~cooling /\ Candidate(r)
    /\ cache' = [cache EXCEPT ![r] = Fresh]
    /\ initPool' = initPool \cup {r} /\ todo' = 0
    /\ UNCHANGED <<row, service, launching, pool, releasePool, cooling, buyer, bounds, cut>>

\* Any other error, as when no node of the city is reported.
LaunchFails(r) ==
    /\ todo > 0 /\ ~cooling /\ Candidate(r)
    /\ ReleaseOrAdd(r)
    /\ initPool' = initPool \ {r} /\ cooling' = TRUE /\ todo' = 0
    /\ UNCHANGED <<launching, pool, buyer, crashes, cut>>

LaunchCooling ==
    /\ todo > 0 /\ cooling /\ todo' = 0
    /\ UNCHANGED <<manager, launching, pool, releasePool, initPool, cooling, buyer, bounds, cut>>

CoolingEnds ==
    /\ cooling /\ cooling' = FALSE
    /\ UNCHANGED <<manager, launching, pool, releasePool, initPool, todo, buyer, bounds, cut>>

\* A free spare leaves the pool, and is released.
Dismiss(r) ==
    /\ r \in free /\ free' = free \ {r} /\ currentNum' = currentNum - 1
    /\ ReleaseOrAdd(r)
    /\ UNCHANGED <<launching, tracked, initPool, cooling, buyer, crashes, cut>>

ReleaseFree(r) ==
    /\ todo < 0 /\ Dismiss(r)
    /\ todo' = IF releasePool' = releasePool THEN todo + 1 ELSE 0

ReleaseNone ==
    /\ todo < 0 /\ free = {} /\ todo' = todo + 1
    /\ UNCHANGED <<manager, launching, pool, releasePool, initPool, cooling, buyer, bounds, cut>>

\* doWatchFree: the spare was idle for too long.
WatchFree(r) == Dismiss(r) /\ UNCHANGED todo

(***************************************************************************)
(* The launch of a spare: realLaunch, trace and tracker                    *)
(***************************************************************************)
LaunchServer(r) ==
    /\ flight[r] = "call"
    /\ service' = [service EXCEPT ![r] = "starting"]
    /\ flight' = [flight EXCEPT ![r] = "save"]
    /\ UNCHANGED <<cache, row, tracing, pool, releasePool, checker, buyer, bounds, cut>>

\* The spare stays as it was initialised; the deployment may have been created.
LaunchServerFails(r) ==
    /\ flight[r] = "call" /\ Fail
    /\ service' \in {service, [service EXCEPT ![r] = "starting"]}
    /\ flight' = [flight EXCEPT ![r] = None]
    /\ UNCHANGED <<cache, row, tracing, pool, releasePool, checker, buyer, crashes, cut>>

\* saveResources updates the map, and then the row; the error is logged.
Save(r, rec) ==
    /\ cache' = [cache EXCEPT ![r] = rec]
    /\ \/ row' = [row EXCEPT ![r] = rec] /\ UNCHANGED faults
       \/ Fail /\ UNCHANGED row

SaveLaunched(r) ==
    /\ flight[r] = "save"
    /\ Save(r, [Fresh EXCEPT !.status = "deploying"])
    /\ flight' = [flight EXCEPT ![r] = None] /\ tracing' = tracing \cup {r}
    /\ UNCHANGED <<service, pool, releasePool, checker, buyer, crashes, cut>>

ServiceStarts(r) ==
    /\ service[r] = "starting" /\ service' = [service EXCEPT ![r] = "ready"]
    /\ UNCHANGED <<cache, row, launching, pool, releasePool, checker, buyer, bounds, cut>>

\* rm.trace sees the service ready (freshDeployingStatus), or the resource gone.
TraceFinished(r) ==
    /\ r \in tracing /\ tracing' = tracing \ {r}
    /\ \/ cache[r] = None /\ UNCHANGED <<cache, row, faults>>
       \/ /\ cache[r] # None /\ service[r] = "ready"
          /\ Save(r, [cache[r] EXCEPT !.status = IF @ = "deploying" THEN "running" ELSE @])
    /\ UNCHANGED <<service, flight, pool, releasePool, checker, buyer, crashes, cut>>

\* It gives up after three minutes, whether its release works or not.
TraceTimeout(r) ==
    /\ r \in tracing /\ tracing' = tracing \ {r}
    /\ cache[r] # None /\ \E ok \in BOOLEAN : Release(r, ok)
    /\ UNCHANGED <<flight, pool, releasePool, checker, buyer, crashes, cut>>

\* track finds the resource running.  More than half of its instances answer:
\* it is free.  Otherwise, or after three failing calls, it is released.
TrackRunning(r) ==
    /\ r \in tracked /\ cache[r] # None /\ cache[r].status = "running"
    /\ tracked' = tracked \ {r} /\ free' = free \cup {r}
    /\ UNCHANGED <<manager, launching, currentNum, releasePool, checker, buyer, bounds, cut>>

Untrack(r) ==
    /\ tracked' = tracked \ {r} /\ currentNum' = currentNum - 1
    /\ ReleaseOrAdd(r)
    /\ UNCHANGED <<launching, free, checker, buyer, crashes, cut>>

TrackTooFew(r) ==
    /\ r \in tracked /\ cache[r] # None /\ cache[r].status = "running"
    /\ Untrack(r)

\* It is still init or deploying after four minutes, in which a call of
\* LaunchServer has returned.  One that rm.trace released before is tracked for
\* ever: track takes every error for a reason to come back.
TrackTimeout(r) ==
    /\ r \in tracked /\ cache[r] # None /\ cache[r].status \in {"init", "deploying"}
    /\ flight[r] = None
    /\ Untrack(r)

(***************************************************************************)
(* Selling, and what the buyer does                                        *)
(***************************************************************************)
Sold(r) == [cache[r] EXCEPT !.sold = TRUE]

\* Mutant: the sale is not written.
ConsumeMutant(r) ==
    /\ r \in free /\ cache' = [cache EXCEPT ![r] = Sold(r)]
    /\ free' = free \ {r} /\ currentNum' = currentNum - 1
    /\ buyer' = [buyer EXCEPT ![r] = "launched"]
    /\ UNCHANGED <<row, service, launching, tracked, releasePool, checker, bounds, cut>>

Consume(r) ==
    /\ r \in free /\ cache' = [cache EXCEPT ![r] = Sold(r)]
    /\ row' = [row EXCEPT ![r] = Sold(r)]
    /\ free' = free \ {r} /\ currentNum' = currentNum - 1
    /\ buyer' = [buyer EXCEPT ![r] = "launched"]
    /\ UNCHANGED <<service, launching, tracked, releasePool, checker, bounds, cut>>

\* The row is not written, or its answer is lost: the task does without the
\* spare, which stays free.
ConsumeFails(r) ==
    /\ r \in free /\ Fail /\ cache' = [cache EXCEPT ![r] = Sold(r)]
    /\ row' \in {row, [row EXCEPT ![r] = Sold(r)]}
    /\ UNCHANGED <<service, launching, pool, releasePool, checker, buyer, crashes, cut>>

\* realLaunch of the buyer writes the buyer's row, which names the spare.
BuyerSaved(r) ==
    /\ buyer[r] = "launched" /\ buyer' = [buyer EXCEPT ![r] = "written"]
    /\ UNCHANGED <<manager, launching, pool, releasePool, checker, bounds, cut>>

\* The task ends: release of the buyer releases the spare first, and is
\* repeated until it works.  The engine takes ErrorResourceNoExist for success.
BuyerReleases(r) ==
    /\ buyer[r] \in {"launched", "written"}
    /\ \/ cache[r] = None /\ UNCHANGED <<manager, faults>>
          /\ buyer' = [buyer EXCEPT ![r] = "ended"]
       \/ /\ cache[r] # None
          /\ \/ Release(r, TRUE) /\ buyer' = [buyer EXCEPT ![r] = "ended"]
             \/ Release(r, FALSE) /\ UNCHANGED buyer
    /\ UNCHANGED <<launching, pool, releasePool, checker, crashes, cut>>

(***************************************************************************)
(* A crash, and recover of the manager and of the broker                   *)
(***************************************************************************)
Listed(r) == row[r] # None /\ row[r].status \in {"deploying", "running"}
Unsold == {r \in Spare : Listed(r) /\ ~row[r].sold}
Deploying == {r \in Spare : Listed(r) /\ row[r].status = "deploying"}
Deleting == {r \in Spare : row[r] # None /\ row[r].status = "deleting"}

\* Nobody ends the service of r after a restart: it has no row that is listed
\* (the manager leaves out rows of spares whose release failed, so that the
\* release loop finds no resource), or it is sold and its buyer has no row.
IsCut(r) ==
    \/ ~Listed(r)
    \/ row[r].sold /\ buyer[r] # "written"

\* A call of LaunchServer under way may still take effect; a task whose row was
\* not written is launched anew.
Crash ==
    /\ crashes < MaxCrash /\ crashes' = crashes + 1
    /\ \E made \in SUBSET {r \in Spare : flight[r] = "call"} :
        service' = [r \in Spare |-> IF r \in made THEN "starting" ELSE service[r]]
    /\ cut' = cut \cup {r \in Spare : service'[r] # "none" /\ IsCut(r)}
    /\ cache' = [r \in Spare |-> IF Listed(r) THEN row[r] ELSE None]
    /\ tracing' = Deploying
    /\ tracked' = Unsold \cap Deploying /\ free' = Unsold \ Deploying
    /\ currentNum' = Cardinality(Unsold)
    /\ releasePool' = Deleting
    /\ flight' = [r \in Spare |-> None]
    /\ initPool' = {} /\ cooling' = FALSE /\ todo' = 0
    /\ buyer' = [r \in Spare |-> IF buyer[r] = "launched" THEN "none" ELSE buyer[r]]
    /\ UNCHANGED <<row, faults>>

Next ==
    \/ CheckBroker \/ LaunchCooling \/ CoolingEnds \/ ReleaseNone \/ Crash
    \/ \E r \in Spare :
        \/ Launch(r) \/ LaunchRefused(r) \/ LaunchFails(r) \/ ReleaseFree(r) \/ WatchFree(r)
        \/ ReleaseLoop(r) \/ LaunchServer(r) \/ LaunchServerFails(r) \/ SaveLaunched(r)
        \/ ServiceStarts(r) \/ TraceFinished(r) \/ TraceTimeout(r)
        \/ TrackRunning(r) \/ TrackTooFew(r) \/ TrackTimeout(r)
        \/ Consume(r) \/ ConsumeFails(r) \/ BuyerSaved(r) \/ BuyerReleases(r)

\* The cluster answers, and the goroutines and tickers of the broker run: its
\* release loop too, which broker.go:604 leaves out unless ReleaseLoop is set.
\* Nothing is assumed of the strategy, of rm.trace, of pods or of buyers.
Fairness ==
    \A r \in Spare :
        /\ WF_vars(LaunchServer(r) \/ LaunchServerFails(r)) /\ WF_vars(SaveLaunched(r))
        /\ WF_vars(TrackRunning(r) \/ TrackTooFew(r) \/ TrackTimeout(r))
        /\ WF_vars(ReleaseLoop(r))

Spec == Init /\ [][Next]_vars
FairSpec == Spec /\ Fairness

(***************************************************************************)
(* Properties                                                              *)
(***************************************************************************)
\* currentNum, by which the strategy decides, counts what the broker has: the
\* spares it offers and those it waits for, and no more of them than wanted as
\* long as none came from an earlier process.  What it offers belongs to no
\* task, over failing sales and restarts (consume, recover).
PoolIsExact ==
    /\ currentNum = Cardinality(free) + Cardinality(tracked)
    /\ crashes = 0 => currentNum <= ConstNum
    /\ \A r \in free : buyer[r] \notin {"launched", "written"} /\ cache[r] # None

\* A service launched ahead does not stay for nobody: it is offered, sold or
\* ended, whatever fails on the way (tracker, addReleaseResource, releaseLoop);
\* unless a crash cut it off, in a broker with a release loop.
EverySpareSettles ==
    \A r \in Spare :
        service[r] # "none" ~>
            \/ service[r] = "none" \/ r \in free \/ r \in cut
            \/ buyer[r] \in {"launched", "written"}
=============================================================================
