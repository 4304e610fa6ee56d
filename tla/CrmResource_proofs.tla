-------------------------- MODULE CrmResource_proofs --------------------------
(***************************************************************************)
(* CapacityIsKept, NoReadyIsExact, NeverOvercommitted and ServiceIsTracked  *)
(* of CrmResource, for any number of resources, instances, failing calls    *)
(* and crashes.  The first three compare counts with sums over resources;   *)
(* they are inductive once it is known which record a launch and a release  *)
(* may still write (RecordsInv), and the fourth once it is known who is     *)
(* there to end a service at each step of its release (TrackInv).           *)
(***************************************************************************)
EXTENDS CrmResource, SumTheorems

\* What a record in the map says, and who may still touch it.
RecordInv(r) ==
    /\ row[r] # None => row[r].status # "init"
    /\ cache[r] # None /\ cache[r].status = "init" /\ flight[r] = None
       => cache[r].noReady = 0

\* A launch under way owns its record, unless a release has overtaken it.
FlightInv(r) == flight[r] # None =>
    /\ task[r] # "staging"
    /\ flight[r].rec.status = "init" /\ flight[r].rec.noReady = flight[r].rec.request
    /\ cache[r] \in {None, flight[r].rec}
    /\ cache[r] = None => drifted

\* A release counts what the record it copied holds.
ReleaseInv(r) == releasing[r] # None =>
    /\ cache[r] # None /\ cache[r].noReady <= releasing[r].rec.noReady
    /\ drifted \/ (cache[r] = releasing[r].rec /\ flight[r] = None)
    /\ releasing[r].by = "task" => task[r] # "staging"
    /\ releasing[r].by = "trace" => seen["trace"][r] = None

\* Nobody looks at a service whose launch is under way.
LookInv(r) ==
    /\ trace[r] => /\ flight[r] = None
                   /\ cache[r] # None => cache[r].status # "init"
                   /\ task[r] = "staging" => cache[r] # None
    /\ \A p \in Caller : seen[p][r] # None =>
         /\ flight[r] = None
         /\ cache[r] # None => cache[r].status # "init"
    /\ seen["trace"][r] # None => trace[r]
    /\ seen["task"][r] # None => task[r] # "staging"

\* The count of the block, the instances it has room for, and the sums of both.
CountInv ==
    /\ pool.noReady <= Promised
    /\ ~pool.known => pool.noReady = 0
    /\ drifted \/ pool.noReady = Promised
RoomInv == drifted \/
    /\ Used + Ordered <= Total
    /\ Used + Ordered <= Total - pool.available + Held + asked

\* Who ends the service.
Unlaunched(r) == task[r] = "staging" /\ (cache[r] = None \/ cache[r].status = "init")
TrackInv(r) ==
    /\ service[r] # None => cache[r] # None \/ flight[r] # None \/ watcher[r]
    /\ releasing[r] # None /\ service[r] # None => flight[r] # None \/ watcher[r]
    /\ releasing[r] # None /\ task[r] = "staging" => service[r] = None
    /\ releasing[r] # None /\ Calling(r) => watcher[r]
    /\ Calling(r) \/ Unlaunched(r) => service[r] = None

IInv ==
    /\ TypeOK
    /\ \A r \in Resource : RecordInv(r) /\ FlightInv(r) /\ ReleaseInv(r) /\ LookInv(r)
    /\ CountInv /\ RoomInv
    /\ \A r \in Resource \ cut : TrackInv(r)

-----------------------------------------------------------------------------
(* Types. *)

LEMMA Constants ==
    /\ Total \in Nat \ {0} /\ Least \in Nat \ {0} /\ MaxFault \in Nat /\ MaxCrash \in Nat
    /\ \A r \in Resource : Want[r] \in Nat \ {0} /\ Want[r] >= Least
BY CrmAssumption

LEMMA InitTyped == Init => TypeOK
<1> SUFFICES ASSUME Init PROVE TypeOK
    OBVIOUS
<1>1. /\ cache \in [Resource -> Rec \cup {None}] /\ row \in [Resource -> Rec \cup {None}]
      /\ flight \in [Resource -> Launching \cup {None}]
      /\ releasing \in [Resource -> Release \cup {None}]
      /\ service \in [Resource -> Deployment \cup {None}]
    BY DEF Init
<1>2. trace \in [Resource -> BOOLEAN] /\ watcher \in [Resource -> BOOLEAN]
    BY DEF Init
<1>3. seen \in [Caller -> [Resource -> View \cup {None}]]
    BY DEF Init
<1>4. /\ task \in [Resource -> {"staging", "starting", "running", "ending", "ended"}]
      /\ asked \in Nat /\ due \in Nat /\ faults \in 0..MaxFault /\ crashes \in 0..MaxCrash
      /\ cut \subseteq Resource
    BY Constants DEF Init
<1>5. pool \in [known: BOOLEAN, available: 0..Total, noReady: Int]
    BY CrmAssumption DEF Init
<1>6. drifted \in BOOLEAN
    BY Zenon DEF Init
<1>7. QED BY <1>1, <1>2, <1>3, <1>4, <1>5, <1>6 DEF TypeOK

LEMMA SaveTyped ==
    ASSUME TypeOK, NEW r \in Resource, NEW rec \in Rec, Save(r, rec)
    PROVE  /\ cache' \in [Resource -> Rec \cup {None}]
           /\ row' \in [Resource -> Rec \cup {None}]
BY DEF TypeOK, Save

\* What is taken of the instances that are free.
LEMMA TakeTyped ==
    ASSUME TypeOK, NEW r \in Resource, FreeInstances >= Least
    PROVE  Take(r, FreeInstances) \in Nat \ {0} /\ Take(r, FreeInstances) <= FreeInstances
           /\ FreeInstances \in Int
BY CrmAssumption DEF TypeOK, Take, FreeInstances

LEMMA RefreshedTyped ==
    ASSUME NEW rec \in Rec, NEW s \in View
    PROVE  /\ Refreshed(rec, s) \in Rec
           /\ Refreshed(rec, s).noReady <= rec.noReady
           /\ Refreshed(rec, s).status = "init" <=> rec.status = "init"
<1>1. rec.request - s.ready \in Int
    BY DEF Rec, View
<1>2. Refreshed(rec, s).noReady \in 0..rec.noReady
    BY <1>1 DEF Rec, View, Refreshed
<1>3. Refreshed(rec, s).status \in Status
      /\ (Refreshed(rec, s).status = "init" <=> rec.status = "init")
    BY DEF Rec, Status, View, Refreshed
<1>4. Refreshed(rec, s).request = rec.request
    BY DEF Rec, View, Refreshed
<1>5. Refreshed(rec, s) \in Rec
    <2>1. ASSUME NEW a \in Nat, NEW b \in Status
          PROVE  [rec EXCEPT !.noReady = a, !.status = b] \in Rec
        BY DEF Rec
    <2>2. PICK a, b : Refreshed(rec, s) = [rec EXCEPT !.noReady = a, !.status = b]
        BY DEF Refreshed
    <2>3. a = Refreshed(rec, s).noReady /\ b = Refreshed(rec, s).status
        BY <2>2 DEF Rec
    <2>4. a \in Nat /\ b \in Status
        BY <1>2, <1>3, <2>3 DEF Rec
    <2>5. [rec EXCEPT !.noReady = a, !.status = b] \in Rec
        BY <2>1, <2>4
    <2>6. QED BY <2>2, <2>5
<1>6. QED BY <1>2, <1>3, <1>5 DEF Rec

LEMMA FaultsTyped ==
    ASSUME TypeOK, Fail \/ UNCHANGED faults
    PROVE  faults' \in 0..MaxFault
BY Constants DEF TypeOK, Fail

\* The sums the counts are compared with.
LEMMA SumsTyped ==
    ASSUME TypeOK
    PROVE  Used \in Nat /\ Held \in Nat /\ Ordered \in Nat /\ RecoveredNoReady \in Nat
<1>1. Used \in Nat
    <2> DEFINE f == [r \in Resource |-> IF service[r] = None THEN 0 ELSE service[r].size]
    <2>1. \A r \in Resource : f[r] \in Nat
        BY DEF TypeOK, Deployment
    <2> HIDE DEF f
    <2>2. SumFunctionOnSet(f, Resource) \in Nat
        BY <2>1, SumNat, CrmAssumption
    <2>3. DOMAIN f = Resource
        BY DEF f
    <2>4. QED BY <2>2, <2>3 DEF Used, SumFunction, f
<1>2. Held \in Nat
    <2> DEFINE f == [r \in Resource |-> IF cache[r] = None THEN 0 ELSE cache[r].noReady]
    <2>1. \A r \in Resource : f[r] \in Nat
        BY DEF TypeOK, Rec
    <2> HIDE DEF f
    <2>2. SumFunctionOnSet(f, Resource) \in Nat
        BY <2>1, SumNat, CrmAssumption
    <2>3. DOMAIN f = Resource
        BY DEF f
    <2>4. QED BY <2>2, <2>3 DEF Held, SumFunction, f
<1>3. Ordered \in Nat
    <2> DEFINE f == [r \in Resource |-> IF Calling(r) THEN flight[r].rec.request ELSE 0]
    <2>1. \A r \in Resource : f[r] \in Nat
        BY DEF TypeOK, Launching, Rec, Calling
    <2> HIDE DEF f
    <2>2. SumFunctionOnSet(f, Resource) \in Nat
        BY <2>1, SumNat, CrmAssumption
    <2>3. DOMAIN f = Resource
        BY DEF f
    <2>4. QED BY <2>2, <2>3 DEF Ordered, SumFunction, f
<1>4. RecoveredNoReady \in Nat
    <2> DEFINE f == [r \in Resource |-> IF Alive(r) THEN row[r].noReady ELSE 0]
    <2>1. \A r \in Resource : f[r] \in Nat
        BY DEF TypeOK, Rec, Alive
    <2> HIDE DEF f
    <2>2. SumFunctionOnSet(f, Resource) \in Nat
        BY <2>1, SumNat, CrmAssumption
    <2>3. DOMAIN f = Resource
        BY DEF f
    <2>4. QED BY <2>2, <2>3 DEF RecoveredNoReady, SumFunction, f
<1>5. QED BY <1>1, <1>2, <1>3, <1>4

LEMMA NextTyped ==
    ASSUME TypeOK, [Next]_vars
    PROVE  TypeOK'
<1> USE Constants DEF TypeOK, manager, counts, cluster, bounds
<1>1. ASSUME NEW r \in Resource, LaunchRefused(r) PROVE TypeOK'
    <2>1. Fresh \in Rec
        BY DEF Fresh, Rec, Status
    <2>2. QED BY <1>1, <2>1 DEF LaunchRefused
<1>2. ASSUME NEW r \in Resource, Launch(r) PROVE TypeOK'
    <2> DEFINE n == Take(r, FreeInstances)
               rec == [Fresh EXCEPT !.noReady = n, !.request = n]
    <2>1. n \in Nat
        BY <1>2, TakeTyped DEF Launch
    <2> HIDE DEF n
    <2>2. rec \in Rec
        BY <2>1 DEF Fresh, Rec, Status
    <2> HIDE DEF rec
    <2>3. [rec |-> rec, pc |-> "call"] \in Launching
        BY <2>2 DEF Launching
    <2>4. /\ cache' = [cache EXCEPT ![r] = rec]
          /\ flight' = [flight EXCEPT ![r] = [rec |-> rec, pc |-> "call"]]
          /\ pool' = [pool EXCEPT !.noReady = @ + n]
        BY <1>2 DEF Launch, n, rec
    <2>5. cache' \in [Resource -> Rec \cup {None}] /\ flight' \in [Resource -> Launching \cup
        {None}]
        BY <2>2, <2>3, <2>4
    <2>6. pool' \in [known: BOOLEAN, available: 0..Total, noReady: Int]
        BY <2>1, <2>4
    <2>7. task' \in [Resource -> {"staging", "starting", "running", "ending", "ended"}]
        BY <1>2 DEF Launch
    <2>8. QED BY <1>2, <2>5, <2>6, <2>7 DEF Launch
<1>3. ASSUME NEW r \in Resource, LaunchServer(r) PROVE TypeOK'
    <2>1. flight[r] \in Launching /\ flight[r].rec.request \in Nat
        BY <1>3 DEF LaunchServer, Launching, Rec
    <2>2. [size |-> flight[r].rec.request, ready |-> 0] \in Deployment
        BY <2>1 DEF Deployment
    <2>3. [flight[r] EXCEPT !.pc = "save"] \in Launching
        BY <2>1 DEF Launching
    <2>4. flight' = [flight EXCEPT ![r] = [flight[r] EXCEPT !.pc = "save"]]
        BY <1>3 DEF LaunchServer
    <2>5. service' \in [Resource -> Deployment \cup {None}]
        BY <1>3, <2>2 DEF LaunchServer
    <2>6. flight' \in [Resource -> Launching \cup {None}]
        BY <2>3, <2>4
    <2>7. QED BY <1>3, <2>5, <2>6 DEF LaunchServer
<1>4. ASSUME NEW r \in Resource, LaunchServerFails(r) PROVE TypeOK'
    <2>1. flight[r] \in Launching /\ flight[r].rec \in Rec
        BY <1>4 DEF LaunchServerFails, Launching
    <2>2. [flight[r].rec EXCEPT !.noReady = 0] \in Rec /\ flight[r].rec.noReady \in Nat
        BY <2>1 DEF Rec
    <2>3. [size |-> flight[r].rec.request, ready |-> 0] \in Deployment
        BY <2>1 DEF Deployment, Rec
    <2>4. cache' \in [Resource -> Rec \cup {None}]
        BY <1>4, <2>2 DEF LaunchServerFails
    <2>5. service' \in [Resource -> Deployment \cup {None}] /\ faults' \in 0..MaxFault
        BY <1>4, <2>3 DEF LaunchServerFails, Fail
    <2>6. asked' \in Nat /\ flight' \in [Resource -> Launching \cup {None}]
        BY <1>4, <2>2 DEF LaunchServerFails
    <2>7. QED BY <1>4, <2>4, <2>5, <2>6 DEF LaunchServerFails
<1>5. ASSUME NEW r \in Resource, SaveLaunched(r) PROVE TypeOK'
    <2>1. flight[r] \in Launching /\ flight[r].rec \in Rec
        BY <1>5 DEF SaveLaunched, Launching
    <2>2. [flight[r].rec EXCEPT !.status = "deploying"] \in Rec
        BY <2>1 DEF Rec, Status
    <2>3. cache' \in [Resource -> Rec \cup {None}] /\ row' \in [Resource -> Rec \cup {None}]
        BY <1>5, <2>2, SaveTyped DEF SaveLaunched
    <2>4. faults' \in 0..MaxFault
        BY <1>5 DEF SaveLaunched, Save, Fail
    <2>5. flight' \in [Resource -> Launching \cup {None}] /\ trace' \in [Resource -> BOOLEAN]
        BY <1>5 DEF SaveLaunched
    <2>6. QED BY <1>5, <2>3, <2>4, <2>5 DEF SaveLaunched
<1>6. ASSUME NEW r \in Resource, TraceFindsNothing(r) PROVE TypeOK'
    BY <1>6 DEF TraceFindsNothing
<1>7. ASSUME NEW r \in Resource, TaskEnds(r) PROVE TypeOK'
    BY <1>7 DEF TaskEnds
<1>8. ASSUME NEW r \in Resource, SaveReleased(r) PROVE TypeOK'
    <2>1. releasing[r] \in Release /\ releasing[r].rec \in Rec
        BY <1>8 DEF SaveReleased, Release
    <2>2. [releasing[r].rec EXCEPT !.noReady = 0, !.status = "released"] \in Rec
          /\ releasing[r].rec.noReady \in Nat
        BY <2>1 DEF Rec, Status
    <2>3. /\ asked' \in Nat /\ cache' \in [Resource -> Rec \cup {None}]
          /\ releasing' \in [Resource -> Release \cup {None}]
        BY <1>8, <2>2 DEF SaveReleased
    <2>4. row' \in [Resource -> Rec \cup {None}]
        BY <1>8, <2>2 DEF SaveReleased
    <2>7. faults' \in 0..MaxFault
        <3>1. Fail \/ UNCHANGED faults
            BY <1>8 DEF SaveReleased
        <3>2. QED BY <3>1, FaultsTyped
    <2>5. /\ trace' \in [Resource -> BOOLEAN]
          /\ task' \in [Resource -> {"staging", "starting", "running", "ending", "ended"}]
        BY <1>8 DEF SaveReleased, Returns
    <2>8. QED BY <1>8, <2>3, <2>4, <2>5, <2>7 DEF SaveReleased
<1>9. ASSUME NEW r \in Resource, InstanceStarts(r) PROVE TypeOK'
    BY <1>9 DEF InstanceStarts, Deployment
<1>10. ASSUME NEW r \in Resource, WatcherDeletes(r) PROVE TypeOK'
    BY <1>10 DEF WatcherDeletes
<1>11. ASSUME NEW r \in Resource, WatcherGivesUp(r) PROVE TypeOK'
    BY <1>11 DEF WatcherGivesUp
<1>12. ASSUME NEW r \in Resource, NEW p \in Caller, GetServerStatus(p, r) PROVE TypeOK'
    BY <1>12 DEF GetServerStatus, Looking, View, Caller, Deployment
<1>13. ASSUME NEW r \in Resource, NEW p \in Caller, FreshDeployingStatus(p, r) PROVE TypeOK'
    <2>1. seen[p][r] \in View
        BY <1>13 DEF FreshDeployingStatus
    <2>2. /\ cache' \in [Resource -> Rec \cup {None}] /\ row' \in [Resource -> Rec \cup {None}]
          /\ asked' \in Nat /\ faults' \in 0..MaxFault
        <3>1. CASE cache[r] = None
            BY <1>13, <3>1 DEF FreshDeployingStatus
        <3>2. CASE cache[r] # None
            <4>1. cache[r] \in Rec
                BY <3>2
            <4>2. PICK new : new = Refreshed(cache[r], seen[p][r])
                OBVIOUS
            <4>3. new \in Rec /\ new.noReady <= cache[r].noReady
                BY <2>1, <4>1, <4>2, RefreshedTyped
            <4>4. Save(r, new) /\ asked' = asked + cache[r].noReady - new.noReady
                BY <1>13, <3>2, <4>2 DEF FreshDeployingStatus
            <4>5. cache[r].noReady \in Nat /\ new.noReady \in Nat
                BY <4>1, <4>3 DEF Rec
            <4>6. asked' \in Nat
                BY <4>3, <4>4, <4>5
            <4>7. faults' \in 0..MaxFault
                BY <4>4 DEF Save, Fail
            <4>8. QED BY <4>3, <4>4, <4>6, <4>7, SaveTyped
        <3>3. QED BY <3>1, <3>2
    <2>3. seen' \in [Caller -> [Resource -> View \cup {None}]]
        BY <1>13 DEF FreshDeployingStatus
    <2>4. trace' \in [Resource -> BOOLEAN]
        BY <1>13 DEF FreshDeployingStatus
    <2>5. task' \in [Resource -> {"staging", "starting", "running", "ending", "ended"}]
        BY <1>13 DEF FreshDeployingStatus
    <2>6. QED BY <1>13, <2>2, <2>3, <2>4, <2>5 DEF FreshDeployingStatus
<1>14. ASSUME NEW r \in Resource, NEW p \in Caller, ReleaseFails(p, r) PROVE TypeOK'
    <2>1. service' \in [Resource -> Deployment \cup {None}]
        BY <1>14 DEF ReleaseFails
    <2>4. faults' \in 0..MaxFault
        <3>1. Fail \/ UNCHANGED faults
            BY <1>14 DEF ReleaseFails
        <3>2. QED BY <3>1, FaultsTyped
    <2>2. /\ trace' \in [Resource -> BOOLEAN]
          /\ task' \in [Resource -> {"staging", "starting", "running", "ending", "ended"}]
        BY <1>14 DEF ReleaseFails, Returns
    <2>5. QED BY <1>14, <2>1, <2>2, <2>4 DEF ReleaseFails
<1>15. ASSUME NEW r \in Resource, NEW p \in Caller, ReleaseServer(p, r) PROVE TypeOK'
    BY <1>15 DEF ReleaseServer, Release, Caller
<1>16. CASE Sync
    <2>1. FreeOfNodes \in 0..Total
        BY SumsTyped DEF FreeOfNodes
    <2>2. pool' \in [known: BOOLEAN, available: 0..Total, noReady: Int]
        BY <1>16, <2>1 DEF Sync
    <2>3. QED BY <1>16, <2>2 DEF Sync, Reported
<1>17. CASE SyncWithoutBlock
    BY <1>17 DEF SyncWithoutBlock, Reported, Fail
<1>18. CASE ReleaseNoReadyInstance
    BY <1>18 DEF ReleaseNoReadyInstance
<1>19. CASE Crash
    <2>1. \A r \in Resource : Alive(r) => row[r] \in Rec
        BY DEF Alive
    <2>2. cache' \in [Resource -> Rec \cup {None}]
        BY <1>19, <2>1 DEF Crash
    <2>3. PICK made \in SUBSET {r \in Resource : /\ flight[r] # None /\ service[r] = None
                                                 /\ flight[r].pc = "call"} :
            service' = [r \in Resource |-> IF r \in made
                          THEN [size |-> flight[r].rec.request, ready |-> 0] ELSE service[r]]
        BY <1>19 DEF Crash
    <2>4. \A r \in made : [size |-> flight[r].rec.request, ready |-> 0] \in Deployment
        BY DEF Deployment, Launching, Rec
    <2>5. service' \in [Resource -> Deployment \cup {None}]
        BY <2>3, <2>4
    <2>6. task' \in [Resource -> {"staging", "starting", "running", "ending", "ended"}]
        BY <1>19 DEF Crash
    <2>7. pool' \in [known: BOOLEAN, available: 0..Total, noReady: Int]
        BY <1>19, SumsTyped DEF Crash
    <2>8. trace' \in [Resource -> BOOLEAN] /\ watcher' \in [Resource -> BOOLEAN]
        BY <1>19 DEF Crash
    <2>9. /\ flight' \in [Resource -> Launching \cup {None}]
          /\ releasing' \in [Resource -> Release \cup {None}]
          /\ seen' \in [Caller -> [Resource -> View \cup {None}]]
        BY <1>19 DEF Crash
    <2>10. /\ asked' \in Nat /\ due' \in Nat /\ faults' \in 0..MaxFault
           /\ crashes' \in 0..MaxCrash /\ cut' \subseteq Resource
           /\ row' \in [Resource -> Rec \cup {None}] /\ drifted' \in BOOLEAN
        BY <1>19 DEF Crash
    <2>11. QED BY <2>2, <2>5, <2>6, <2>7, <2>8, <2>9, <2>10
<1>20. CASE UNCHANGED vars
    BY <1>20 DEF vars
<1>21. QED BY <1>1, <1>2, <1>3, <1>4, <1>5, <1>6, <1>7, <1>8, <1>9, <1>10, <1>11, <1>12, <1>13,
              <1>14, <1>15, <1>16, <1>17, <1>18, <1>19, <1>20
        DEF Next

-----------------------------------------------------------------------------
(* Records. *)

RecordsInv == \A r \in Resource : RecordInv(r) /\ FlightInv(r) /\ ReleaseInv(r) /\ LookInv(r)

LEMMA LaunchRefusedRecords ==
    ASSUME TypeOK, RecordsInv, NoneAssumption, NEW r \in Resource, LaunchRefused(r)
    PROVE  RecordsInv'
<1> SUFFICES ASSUME NEW q \in Resource
             PROVE  (RecordInv(q) /\ FlightInv(q) /\ ReleaseInv(q) /\ LookInv(q))'
    BY DEF RecordsInv
<1>0. RecordInv(q) /\ FlightInv(q) /\ ReleaseInv(q) /\ LookInv(q)
      /\ RecordInv(r) /\ FlightInv(r) /\ ReleaseInv(r) /\ LookInv(r)
    BY DEF RecordsInv
<1>1. QED BY <1>0
        DEF TypeOK, LaunchRefused, Fresh, Rec, Unlocked, Launchable, Caller, manager, RecordInv,
            FlightInv, ReleaseInv, LookInv

\* What Launch puts in the map and hands to its goroutine.
LEMMA LaunchEffect ==
    ASSUME TypeOK, NEW r \in Resource, Launch(r)
    PROVE  \E n \in Nat \ {0}, rec \in Rec :
             /\ rec.status = "init" /\ rec.noReady = n /\ rec.request = n
             /\ n <= FreeInstances /\ FreeInstances \in Int
             /\ cache' = [cache EXCEPT ![r] = rec]
             /\ flight' = [flight EXCEPT ![r] = [rec |-> rec, pc |-> "call"]]
             /\ pool' = [pool EXCEPT !.noReady = @ + n]
<1> DEFINE n == Take(r, FreeInstances)
           rec == [Fresh EXCEPT !.noReady = n, !.request = n]
<1>1. n \in Nat \ {0} /\ n <= FreeInstances /\ FreeInstances \in Int
    BY TakeTyped DEF Launch
<1>2. /\ cache' = [cache EXCEPT ![r] = rec]
      /\ flight' = [flight EXCEPT ![r] = [rec |-> rec, pc |-> "call"]]
      /\ pool' = [pool EXCEPT !.noReady = @ + n]
    BY DEF Launch
<1> HIDE DEF n
<1>3. rec \in Rec /\ rec.status = "init" /\ rec.noReady = n /\ rec.request = n
    BY <1>1 DEF Fresh, Rec, Status
<1> HIDE DEF rec
<1>4. QED BY <1>1, <1>2, <1>3

LEMMA LaunchRecords ==
    ASSUME TypeOK, RecordsInv, NoneAssumption, NEW r \in Resource, Launch(r)
    PROVE  RecordsInv'
<1> SUFFICES ASSUME NEW q \in Resource
             PROVE  (RecordInv(q) /\ FlightInv(q) /\ ReleaseInv(q) /\ LookInv(q))'
    BY DEF RecordsInv
<1>0. RecordInv(q) /\ FlightInv(q) /\ ReleaseInv(q) /\ LookInv(q)
      /\ RecordInv(r) /\ FlightInv(r) /\ ReleaseInv(r) /\ LookInv(r)
    BY DEF RecordsInv
<1>6. PICK n \in Nat \ {0}, rec \in Rec :
        /\ rec.status = "init" /\ rec.noReady = n /\ rec.request = n
        /\ cache' = [cache EXCEPT ![r] = rec]
        /\ flight' = [flight EXCEPT ![r] = [rec |-> rec, pc |-> "call"]]
    BY LaunchEffect
<1>7. /\ task[r] = "staging" /\ releasing[r] = None /\ Launchable(r)
      /\ task' = [task EXCEPT ![r] = "starting"]
      /\ UNCHANGED <<row, releasing, trace, seen, drifted>>
    BY DEF Launch, Unlocked
<1>8. [rec |-> rec, pc |-> "call"] # None /\ rec # None
    <2>1. [rec |-> rec, pc |-> "call"] \in Launching
        BY DEF Launching
    <2>2. QED BY <2>1, NoneAssumption
<1>1. QED BY <1>0, <1>6, <1>7, <1>8
        DEF TypeOK, Launchable, Caller, manager, RecordInv, FlightInv, ReleaseInv, LookInv

LEMMA LaunchServerRecords ==
    ASSUME TypeOK, RecordsInv, NoneAssumption, NEW r \in Resource, LaunchServer(r)
    PROVE  RecordsInv'
<1> SUFFICES ASSUME NEW q \in Resource
             PROVE  (RecordInv(q) /\ FlightInv(q) /\ ReleaseInv(q) /\ LookInv(q))'
    BY DEF RecordsInv
<1>0. RecordInv(q) /\ FlightInv(q) /\ ReleaseInv(q) /\ LookInv(q)
      /\ RecordInv(r) /\ FlightInv(r) /\ ReleaseInv(r) /\ LookInv(r)
    BY DEF RecordsInv
<1>1. QED BY <1>0
        DEF TypeOK, LaunchServer, Launching, manager, RecordInv, FlightInv, ReleaseInv, LookInv

LEMMA LaunchServerFailsRecords ==
    ASSUME TypeOK, RecordsInv, NoneAssumption, NEW r \in Resource, LaunchServerFails(r)
    PROVE  RecordsInv'
<1> SUFFICES ASSUME NEW q \in Resource
             PROVE  (RecordInv(q) /\ FlightInv(q) /\ ReleaseInv(q) /\ LookInv(q))'
    BY DEF RecordsInv
<1>0. RecordInv(q) /\ FlightInv(q) /\ ReleaseInv(q) /\ LookInv(q)
      /\ RecordInv(r) /\ FlightInv(r) /\ ReleaseInv(r) /\ LookInv(r)
    BY DEF RecordsInv
<1>6. /\ flight[r] # None /\ flight[r].rec \in Rec
      /\ cache' = [cache EXCEPT ![r] = [flight[r].rec EXCEPT !.noReady = 0]]
      /\ flight' = [flight EXCEPT ![r] = None]
      /\ UNCHANGED <<row, releasing, trace, seen, task, drifted>>
    BY DEF LaunchServerFails, TypeOK, Launching
<1>7. PICK new : new = [flight[r].rec EXCEPT !.noReady = 0]
    OBVIOUS
<1>8. new \in Rec /\ new.noReady = 0 /\ new.status = flight[r].rec.status /\ new # None
    BY <1>6, <1>7, NoneAssumption DEF Rec
<1>9. cache' = [cache EXCEPT ![r] = new]
    BY <1>6, <1>7
<1>1. QED BY <1>0, <1>6, <1>8, <1>9
        DEF TypeOK, Rec, Release, manager, RecordInv, FlightInv, ReleaseInv, LookInv

LEMMA SaveLaunchedRecords ==
    ASSUME TypeOK, RecordsInv, NoneAssumption, NEW r \in Resource, SaveLaunched(r)
    PROVE  RecordsInv'
<1> SUFFICES ASSUME NEW q \in Resource
             PROVE  (RecordInv(q) /\ FlightInv(q) /\ ReleaseInv(q) /\ LookInv(q))'
    BY DEF RecordsInv
<1>0. RecordInv(q) /\ FlightInv(q) /\ ReleaseInv(q) /\ LookInv(q)
      /\ RecordInv(r) /\ FlightInv(r) /\ ReleaseInv(r) /\ LookInv(r)
    BY DEF RecordsInv
<1>1. QED BY <1>0
        DEF TypeOK, SaveLaunched, Save, Rec, Launching, Unlocked, manager, RecordInv, FlightInv,
            ReleaseInv, LookInv

LEMMA TraceFindsNothingRecords ==
    ASSUME TypeOK, RecordsInv, NoneAssumption, NEW r \in Resource, TraceFindsNothing(r)
    PROVE  RecordsInv'
<1> SUFFICES ASSUME NEW q \in Resource
             PROVE  (RecordInv(q) /\ FlightInv(q) /\ ReleaseInv(q) /\ LookInv(q))'
    BY DEF RecordsInv
<1>0. RecordInv(q) /\ FlightInv(q) /\ ReleaseInv(q) /\ LookInv(q)
      /\ RecordInv(r) /\ FlightInv(r) /\ ReleaseInv(r) /\ LookInv(r)
    BY DEF RecordsInv
<1>1. QED BY <1>0
        DEF TypeOK, TraceFindsNothing, Looking, Unlocked, manager, RecordInv, FlightInv, ReleaseInv,
            LookInv

LEMMA TaskEndsRecords ==
    ASSUME TypeOK, RecordsInv, NoneAssumption, NEW r \in Resource, TaskEnds(r)
    PROVE  RecordsInv'
<1> SUFFICES ASSUME NEW q \in Resource
             PROVE  (RecordInv(q) /\ FlightInv(q) /\ ReleaseInv(q) /\ LookInv(q))'
    BY DEF RecordsInv
<1>0. RecordInv(q) /\ FlightInv(q) /\ ReleaseInv(q) /\ LookInv(q)
      /\ RecordInv(r) /\ FlightInv(r) /\ ReleaseInv(r) /\ LookInv(r)
    BY DEF RecordsInv
<1>1. QED BY <1>0 DEF TypeOK, TaskEnds, manager, RecordInv, FlightInv, ReleaseInv, LookInv

LEMMA SaveReleasedRecords ==
    ASSUME TypeOK, RecordsInv, NoneAssumption, NEW r \in Resource, SaveReleased(r)
    PROVE  RecordsInv'
<1> SUFFICES ASSUME NEW q \in Resource
             PROVE  (RecordInv(q) /\ FlightInv(q) /\ ReleaseInv(q) /\ LookInv(q))'
    BY DEF RecordsInv
<1>0. RecordInv(q) /\ FlightInv(q) /\ ReleaseInv(q) /\ LookInv(q)
      /\ RecordInv(r) /\ FlightInv(r) /\ ReleaseInv(r) /\ LookInv(r)
    BY DEF RecordsInv
<1>6. releasing[r] \in Release /\ releasing[r].rec \in Rec /\ releasing[r].by \in Caller
    BY DEF SaveReleased, TypeOK, Release
<1>7. PICK new : new = [releasing[r].rec EXCEPT !.noReady = 0, !.status = "released"]
    OBVIOUS
<1>8. new \in Rec /\ new.status = "released"
    BY <1>6, <1>7 DEF Rec, Status
<1>9. /\ releasing[r] # None
      /\ cache' = [cache EXCEPT ![r] = None] /\ releasing' = [releasing EXCEPT ![r] = None]
      /\ row' = [row EXCEPT ![r] = new] \/ row' = row
      /\ trace' = [trace EXCEPT ![r] = @ /\ releasing[r].by # "trace"]
      /\ task' = task \/ (releasing[r].by = "task" /\ task' = [task EXCEPT ![r] = "ended"])
      /\ UNCHANGED <<flight, seen, drifted>>
    <2>1. /\ releasing[r] # None
          /\ Returns(releasing[r].by, r, TRUE) \/ Returns(releasing[r].by, r, FALSE)
        BY DEF SaveReleased
    <2>2. task' = task \/ (releasing[r].by = "task" /\ task' = [task EXCEPT ![r] = "ended"])
        BY <2>1 DEF Returns, TypeOK
    <2>3. trace' = [trace EXCEPT ![r] = @ /\ releasing[r].by # "trace"]
        BY <2>1 DEF Returns
    <2>4. QED BY <1>7, <2>1, <2>2, <2>3 DEF SaveReleased
<1>1. RecordInv(q)'
    BY <1>0, <1>6, <1>8, <1>9
        DEF TypeOK, Caller, manager, counts, cluster, bounds, RecordInv, FlightInv, LookInv,
            ReleaseInv
<1>2. FlightInv(q)'
    BY <1>0, <1>6, <1>8, <1>9
        DEF TypeOK, Caller, manager, counts, cluster, bounds, RecordInv, FlightInv, LookInv,
            ReleaseInv
<1>3. ReleaseInv(q)'
    BY <1>0, <1>6, <1>8, <1>9
        DEF TypeOK, Caller, manager, counts, cluster, bounds, RecordInv, FlightInv, LookInv,
            ReleaseInv
<1>4. LookInv(q)'
    <2>1. CASE q # r
        BY <1>0, <1>6, <1>9, <2>1 DEF TypeOK, Caller, LookInv
    <2>2. CASE q = r
        <3>1. cache'[r] = None /\ seen' = seen /\ flight' = flight
            BY <1>9 DEF TypeOK
        <3>2. trace'[r] => trace[r] /\ releasing[r].by = "task"
            BY <1>6, <1>9 DEF TypeOK, Caller
        <3>3. task'[r] = "staging" => task[r] = "staging"
            BY <1>9 DEF TypeOK
        <3>4. seen["trace"][r] # None => trace'[r]
            BY <1>0, <1>6, <1>9 DEF TypeOK, Caller, LookInv, ReleaseInv
        <3>5. QED BY <1>0, <1>9, <2>2, <3>1, <3>2, <3>3, <3>4 DEF LookInv, ReleaseInv
    <2>3. QED BY <2>1, <2>2
<1>5. QED BY <1>1, <1>2, <1>3, <1>4

LEMMA InstanceStartsRecords ==
    ASSUME TypeOK, RecordsInv, NoneAssumption, NEW r \in Resource, InstanceStarts(r)
    PROVE  RecordsInv'
<1> SUFFICES ASSUME NEW q \in Resource
             PROVE  (RecordInv(q) /\ FlightInv(q) /\ ReleaseInv(q) /\ LookInv(q))'
    BY DEF RecordsInv
<1>0. RecordInv(q) /\ FlightInv(q) /\ ReleaseInv(q) /\ LookInv(q)
      /\ RecordInv(r) /\ FlightInv(r) /\ ReleaseInv(r) /\ LookInv(r)
    BY DEF RecordsInv
<1>1. QED BY <1>0 DEF TypeOK, InstanceStarts, manager, RecordInv, FlightInv, ReleaseInv, LookInv

LEMMA WatcherDeletesRecords ==
    ASSUME TypeOK, RecordsInv, NoneAssumption, NEW r \in Resource, WatcherDeletes(r)
    PROVE  RecordsInv'
<1> SUFFICES ASSUME NEW q \in Resource
             PROVE  (RecordInv(q) /\ FlightInv(q) /\ ReleaseInv(q) /\ LookInv(q))'
    BY DEF RecordsInv
<1>0. RecordInv(q) /\ FlightInv(q) /\ ReleaseInv(q) /\ LookInv(q)
      /\ RecordInv(r) /\ FlightInv(r) /\ ReleaseInv(r) /\ LookInv(r)
    BY DEF RecordsInv
<1>1. QED BY <1>0 DEF TypeOK, WatcherDeletes, manager, RecordInv, FlightInv, ReleaseInv, LookInv

LEMMA WatcherGivesUpRecords ==
    ASSUME TypeOK, RecordsInv, NoneAssumption, NEW r \in Resource, WatcherGivesUp(r)
    PROVE  RecordsInv'
<1> SUFFICES ASSUME NEW q \in Resource
             PROVE  (RecordInv(q) /\ FlightInv(q) /\ ReleaseInv(q) /\ LookInv(q))'
    BY DEF RecordsInv
<1>0. RecordInv(q) /\ FlightInv(q) /\ ReleaseInv(q) /\ LookInv(q)
      /\ RecordInv(r) /\ FlightInv(r) /\ ReleaseInv(r) /\ LookInv(r)
    BY DEF RecordsInv
<1>1. QED BY <1>0 DEF TypeOK, WatcherGivesUp, manager, RecordInv, FlightInv, ReleaseInv, LookInv

LEMMA GetServerStatusRecords ==
    ASSUME TypeOK, RecordsInv, NoneAssumption, NEW r \in Resource, NEW p \in Caller,
           GetServerStatus(p, r)
    PROVE  RecordsInv'
<1> SUFFICES ASSUME NEW q \in Resource
             PROVE  (RecordInv(q) /\ FlightInv(q) /\ ReleaseInv(q) /\ LookInv(q))'
    BY DEF RecordsInv
<1>0. RecordInv(q) /\ FlightInv(q) /\ ReleaseInv(q) /\ LookInv(q)
      /\ RecordInv(r) /\ FlightInv(r) /\ ReleaseInv(r) /\ LookInv(r)
    BY DEF RecordsInv
<1>1. QED BY <1>0
        DEF TypeOK, GetServerStatus, Looking, Unlocked, Caller, manager, RecordInv, FlightInv,
            ReleaseInv, LookInv

\* What is written back after a look at the service.
LEMMA FreshEffect ==
    ASSUME TypeOK, NEW r \in Resource, NEW p \in Caller, FreshDeployingStatus(p, r),
           cache[r] # None
    PROVE  \E new \in Rec :
             /\ new # None /\ cache[r] \in Rec /\ new.noReady <= cache[r].noReady
             /\ new.status = "init" <=> cache[r].status = "init"
             /\ cache' = [cache EXCEPT ![r] = new]
             /\ row' = [row EXCEPT ![r] = new] \/ row' = row
             /\ asked' = asked + cache[r].noReady - new.noReady
<1>1. seen[p][r] \in View /\ cache[r] \in Rec
    BY DEF TypeOK, FreshDeployingStatus
<1>2. PICK new : new = Refreshed(cache[r], seen[p][r])
    OBVIOUS
<1>3. new \in Rec /\ new.noReady <= cache[r].noReady
      /\ (new.status = "init" <=> cache[r].status = "init")
    BY <1>1, <1>2, RefreshedTyped
<1>4. Save(r, new) /\ asked' = asked + cache[r].noReady - new.noReady
    BY <1>2 DEF FreshDeployingStatus
<1>5. new # None
    BY <1>3, NoneAssumption
<1>6. QED BY <1>1, <1>3, <1>4, <1>5 DEF Save

LEMMA FreshDeployingStatusRecords ==
    ASSUME TypeOK, RecordsInv, NoneAssumption, NEW r \in Resource, NEW p \in Caller,
           FreshDeployingStatus(p, r)
    PROVE  RecordsInv'
<1> SUFFICES ASSUME NEW q \in Resource
             PROVE  (RecordInv(q) /\ FlightInv(q) /\ ReleaseInv(q) /\ LookInv(q))'
    BY DEF RecordsInv
<1>0. RecordInv(q) /\ FlightInv(q) /\ ReleaseInv(q) /\ LookInv(q)
      /\ RecordInv(r) /\ FlightInv(r) /\ ReleaseInv(r) /\ LookInv(r)
    BY DEF RecordsInv
<1>6. /\ seen[p][r] # None /\ releasing[r] = None
      /\ seen' = [seen EXCEPT ![p][r] = None]
      /\ trace' = [trace EXCEPT ![r] = @ /\ ~(p = "trace" /\ seen[p][r].terminated)]
      /\ task' = task \/ (task[r] = "starting" /\ task' = [task EXCEPT ![r] = "running"])
      /\ UNCHANGED <<flight, releasing, drifted>>
    <2>1. task' = task \/ (task[r] = "starting" /\ task' = [task EXCEPT ![r] = "running"])
        BY DEF FreshDeployingStatus, TypeOK
    <2>2. QED BY <2>1 DEF FreshDeployingStatus, Unlocked
<1>7. CASE cache[r] = None
    <2>1. UNCHANGED <<cache, row>>
        BY <1>7 DEF FreshDeployingStatus
    <2>2. QED BY <1>0, <1>6, <2>1 DEF TypeOK, Caller, RecordInv, FlightInv, LookInv, ReleaseInv
<1>8. CASE cache[r] # None
    <2>1. PICK new \in Rec :
             /\ new # None /\ cache[r] \in Rec /\ new.noReady <= cache[r].noReady
             /\ new.status = "init" <=> cache[r].status = "init"
             /\ cache' = [cache EXCEPT ![r] = new]
             /\ row' = [row EXCEPT ![r] = new] \/ row' = row
        BY <1>8, FreshEffect
    <2>2. flight[r] = None /\ cache[r].status # "init"
        BY <1>0, <1>6, <1>8 DEF LookInv
    <2>3. RecordInv(q)' /\ FlightInv(q)' /\ ReleaseInv(q)'
        BY <1>0, <1>6, <2>1, <2>2 DEF TypeOK, RecordInv, FlightInv, ReleaseInv
    <2>4. LookInv(q)'
        BY <1>0, <1>6, <1>8, <2>1, <2>2 DEF TypeOK, Caller, LookInv
    <2>5. QED BY <2>3, <2>4
<1>9. QED BY <1>7, <1>8

LEMMA ReleaseFailsRecords ==
    ASSUME TypeOK, RecordsInv, NoneAssumption, NEW r \in Resource, NEW p \in Caller, ReleaseFails(p,
           r)
    PROVE  RecordsInv'
<1> SUFFICES ASSUME NEW q \in Resource
             PROVE  (RecordInv(q) /\ FlightInv(q) /\ ReleaseInv(q) /\ LookInv(q))'
    BY DEF RecordsInv
<1>0. RecordInv(q) /\ FlightInv(q) /\ ReleaseInv(q) /\ LookInv(q)
      /\ RecordInv(r) /\ FlightInv(r) /\ ReleaseInv(r) /\ LookInv(r)
    BY DEF RecordsInv
<1>1. QED BY <1>0
        DEF TypeOK, ReleaseFails, Returns, Releasing, Unlocked, Caller, manager, RecordInv,
            FlightInv, ReleaseInv, LookInv

LEMMA ReleaseServerRecords ==
    ASSUME TypeOK, RecordsInv, NoneAssumption, NEW r \in Resource, NEW p \in Caller,
           ReleaseServer(p, r)
    PROVE  RecordsInv'
<1> SUFFICES ASSUME NEW q \in Resource
             PROVE  (RecordInv(q) /\ FlightInv(q) /\ ReleaseInv(q) /\ LookInv(q))'
    BY DEF RecordsInv
<1>0. RecordInv(q) /\ FlightInv(q) /\ ReleaseInv(q) /\ LookInv(q)
      /\ RecordInv(r) /\ FlightInv(r) /\ ReleaseInv(r) /\ LookInv(r)
    BY DEF RecordsInv
<1>6. cache[r] \in Rec /\ [rec |-> cache[r], by |-> p] # None
    <2>1. cache[r] \in Rec
        BY DEF ReleaseServer, TypeOK
    <2>2. [rec |-> cache[r], by |-> p] \in Release
        BY <2>1 DEF Release
    <2>3. QED BY <2>1, <2>2, NoneAssumption
<1>7. drifted' <=> (drifted \/ flight[r] # None)
    BY DEF ReleaseServer
<1>8. /\ releasing[r] = None
      /\ p = "task" => task[r] = "ending"
      /\ p = "trace" => seen["trace"][r] = None
      /\ releasing' = [releasing EXCEPT ![r] = [rec |-> cache[r], by |-> p]]
      /\ UNCHANGED <<cache, row, flight, trace, seen, task>>
    BY DEF ReleaseServer, Releasing, Unlocked, Caller
<1>1. RecordInv(q)'
    BY <1>0, <1>6, <1>7, <1>8
        DEF TypeOK, Rec, manager, counts, cluster, bounds, RecordInv, FlightInv, LookInv, ReleaseInv
<1>2. FlightInv(q)'
    BY <1>0, <1>6, <1>7, <1>8
        DEF TypeOK, Rec, manager, counts, cluster, bounds, RecordInv, FlightInv, LookInv, ReleaseInv
<1>3. ReleaseInv(q)'
    <2>1. CASE q # r
        BY <1>0, <1>7, <1>8, <2>1 DEF TypeOK, ReleaseInv
    <2>2. CASE q = r
        <3>1. releasing'[r] = [rec |-> cache[r], by |-> p]
            BY <1>8 DEF TypeOK
        <3>2. cache'[r] # None /\ cache'[r].noReady <= releasing'[r].rec.noReady
            BY <1>6, <1>8, <3>1, NoneAssumption DEF Rec
        <3>3. drifted' \/ (cache'[r] = releasing'[r].rec /\ flight'[r] = None)
            BY <1>7, <1>8, <3>1
        <3>4. releasing'[r].by = "task" => task'[r] # "staging"
            BY <1>8, <3>1
        <3>5. releasing'[r].by = "trace" => seen'["trace"][r] = None
            BY <1>8, <3>1
        <3>6. QED BY <2>2, <3>2, <3>3, <3>4, <3>5 DEF ReleaseInv
    <2>3. QED BY <2>1, <2>2
<1>4. LookInv(q)'
    BY <1>0, <1>6, <1>7, <1>8
        DEF TypeOK, Rec, manager, counts, cluster, bounds, RecordInv, FlightInv, LookInv, ReleaseInv
<1>5. QED BY <1>1, <1>2, <1>3, <1>4

LEMMA CrashRecords ==
    ASSUME TypeOK, RecordsInv, Crash
    PROVE  RecordsInv'
<1> SUFFICES ASSUME NEW q \in Resource
             PROVE  (RecordInv(q) /\ FlightInv(q) /\ ReleaseInv(q) /\ LookInv(q))'
    BY DEF RecordsInv
<1>1. /\ flight'[q] = None /\ releasing'[q] = None /\ row'[q] = row[q]
      /\ seen'["task"][q] = None /\ seen'["trace"][q] = None
      /\ cache'[q] = IF Alive(q) THEN row[q] ELSE None
      /\ trace'[q] => Alive(q)
    BY DEF Crash, Caller
<1>2. row[q] # None => row[q].status # "init"
    BY DEF RecordsInv, RecordInv
<1>3. RecordInv(q)' /\ FlightInv(q)' /\ ReleaseInv(q)'
    BY <1>1, <1>2 DEF RecordInv, FlightInv, ReleaseInv, Alive
<1>4. LookInv(q)'
    BY <1>1, <1>2 DEF LookInv, Alive, Caller
<1>5. QED BY <1>3, <1>4

\* No step breaks what is said of the records.
LEMMA NextRecords ==
    ASSUME TypeOK, RecordsInv, [Next]_vars
    PROVE  RecordsInv'
<1> USE NoneAssumption
<1>1. ASSUME NEW r \in Resource, LaunchRefused(r) PROVE RecordsInv'
    BY <1>1, LaunchRefusedRecords
<1>2. ASSUME NEW r \in Resource, Launch(r) PROVE RecordsInv'
    BY <1>2, LaunchRecords
<1>3. ASSUME NEW r \in Resource, LaunchServer(r) PROVE RecordsInv'
    BY <1>3, LaunchServerRecords
<1>4. ASSUME NEW r \in Resource, LaunchServerFails(r) PROVE RecordsInv'
    BY <1>4, LaunchServerFailsRecords
<1>5. ASSUME NEW r \in Resource, SaveLaunched(r) PROVE RecordsInv'
    BY <1>5, SaveLaunchedRecords
<1>6. ASSUME NEW r \in Resource, TraceFindsNothing(r) PROVE RecordsInv'
    BY <1>6, TraceFindsNothingRecords
<1>7. ASSUME NEW r \in Resource, TaskEnds(r) PROVE RecordsInv'
    BY <1>7, TaskEndsRecords
<1>8. ASSUME NEW r \in Resource, SaveReleased(r) PROVE RecordsInv'
    BY <1>8, SaveReleasedRecords
<1>9. ASSUME NEW r \in Resource, InstanceStarts(r) PROVE RecordsInv'
    BY <1>9, InstanceStartsRecords
<1>10. ASSUME NEW r \in Resource, WatcherDeletes(r) PROVE RecordsInv'
    BY <1>10, WatcherDeletesRecords
<1>11. ASSUME NEW r \in Resource, WatcherGivesUp(r) PROVE RecordsInv'
    BY <1>11, WatcherGivesUpRecords
<1>12. ASSUME NEW r \in Resource, NEW p \in Caller, GetServerStatus(p, r) PROVE RecordsInv'
    BY <1>12, GetServerStatusRecords
<1>13. ASSUME NEW r \in Resource, NEW p \in Caller, FreshDeployingStatus(p, r) PROVE RecordsInv'
    BY <1>13, FreshDeployingStatusRecords
<1>14. ASSUME NEW r \in Resource, NEW p \in Caller, ReleaseFails(p, r) PROVE RecordsInv'
    BY <1>14, ReleaseFailsRecords
<1>15. ASSUME NEW r \in Resource, NEW p \in Caller, ReleaseServer(p, r) PROVE RecordsInv'
    BY <1>15, ReleaseServerRecords
<1>16. CASE Crash
    BY <1>16, CrashRecords
<1>17. CASE SyncWithoutBlock
    <2>1. drifted => drifted'
        BY <1>17 DEF SyncWithoutBlock
    <2>2. QED BY <1>17, <2>1
            DEF SyncWithoutBlock, manager, RecordsInv, RecordInv, FlightInv, ReleaseInv, LookInv
<1>18. CASE Sync \/ ReleaseNoReadyInstance \/ UNCHANGED vars
    BY <1>18
        DEF Sync, ReleaseNoReadyInstance, vars, manager, RecordsInv, RecordInv, FlightInv,
            ReleaseInv, LookInv
<1>19. QED BY <1>1, <1>2, <1>3, <1>4, <1>5, <1>6, <1>7, <1>8, <1>9, <1>10, <1>11, <1>12, <1>13,
              <1>14, <1>15, <1>16, <1>17, <1>18
        DEF Next

-----------------------------------------------------------------------------
(* Tracking. *)

TrackingInv == \A r \in Resource \ cut : TrackInv(r)

LEMMA LaunchRefusedTracked ==
    ASSUME TypeOK, RecordsInv, TrackingInv, NoneAssumption, NEW r \in Resource, LaunchRefused(r)
    PROVE  TrackingInv'
<1> SUFFICES ASSUME NEW q \in Resource \ cut PROVE TrackInv(q)'
    BY DEF TrackingInv, LaunchRefused
<1>0. TrackInv(q) /\ RecordInv(q) /\ FlightInv(q) /\ ReleaseInv(q) /\ LookInv(q)
    BY DEF TrackingInv, RecordsInv
<1>1. QED BY <1>0
        DEF TypeOK, TrackInv, Unlaunched, Calling, LaunchRefused, Fresh, Rec, Unlocked, Launchable,
            manager, cluster, FlightInv, ReleaseInv, LookInv

LEMMA LaunchTracked ==
    ASSUME TypeOK, RecordsInv, TrackingInv, NoneAssumption, NEW r \in Resource, Launch(r)
    PROVE  TrackingInv'
<1> SUFFICES ASSUME NEW q \in Resource \ cut PROVE TrackInv(q)'
    BY DEF TrackingInv, Launch
<1>0. TrackInv(q) /\ RecordInv(q) /\ FlightInv(q) /\ ReleaseInv(q) /\ LookInv(q)
    BY DEF TrackingInv, RecordsInv
<1>1. QED BY <1>0
        DEF TypeOK, TrackInv, Unlaunched, Calling, Launch, Fresh, Rec, Launching, Unlocked,
            Launchable, manager, cluster, FlightInv, ReleaseInv, LookInv

LEMMA LaunchServerTracked ==
    ASSUME TypeOK, RecordsInv, TrackingInv, NoneAssumption, NEW r \in Resource, LaunchServer(r)
    PROVE  TrackingInv'
<1> SUFFICES ASSUME NEW q \in Resource \ cut PROVE TrackInv(q)'
    BY DEF TrackingInv, LaunchServer
<1>0. TrackInv(q) /\ RecordInv(q) /\ FlightInv(q) /\ ReleaseInv(q) /\ LookInv(q)
    BY DEF TrackingInv, RecordsInv
<1>1. QED BY <1>0
        DEF TypeOK, TrackInv, Unlaunched, Calling, LaunchServer, Launching, manager, cluster, FlightInv,
            ReleaseInv, LookInv

LEMMA LaunchServerFailsTracked ==
    ASSUME TypeOK, RecordsInv, TrackingInv, NoneAssumption, NEW r \in Resource, LaunchServerFails(r)
    PROVE  TrackingInv'
<1> SUFFICES ASSUME NEW q \in Resource \ cut PROVE TrackInv(q)'
    BY DEF TrackingInv, LaunchServerFails
<1>0. TrackInv(q) /\ RecordInv(q) /\ FlightInv(q) /\ ReleaseInv(q) /\ LookInv(q)
    BY DEF TrackingInv, RecordsInv
<1>1. QED BY <1>0
        DEF TypeOK, TrackInv, Unlaunched, Calling, LaunchServerFails, Launching, Rec, manager, cluster,
            FlightInv, ReleaseInv, LookInv

LEMMA SaveLaunchedTracked ==
    ASSUME TypeOK, RecordsInv, TrackingInv, NoneAssumption, NEW r \in Resource, SaveLaunched(r)
    PROVE  TrackingInv'
<1> SUFFICES ASSUME NEW q \in Resource \ cut PROVE TrackInv(q)'
    BY DEF TrackingInv, SaveLaunched
<1>0. TrackInv(q) /\ RecordInv(q) /\ FlightInv(q) /\ ReleaseInv(q) /\ LookInv(q)
    BY DEF TrackingInv, RecordsInv
<1>1. PICK new : new = [flight[r].rec EXCEPT !.status = "deploying"]
    OBVIOUS
<1>2. new # None /\ new.status = "deploying"
    <2>1. flight[r].rec \in Rec
        BY DEF SaveLaunched, TypeOK, Launching
    <2>2. new \in Rec /\ new.status = "deploying"
        BY <1>1, <2>1 DEF Rec, Status
    <2>3. QED BY <2>2, NoneAssumption
<1>3. /\ flight[r] # None /\ flight[r].pc = "save" /\ releasing[r] = None
      /\ cache' = [cache EXCEPT ![r] = new] /\ flight' = [flight EXCEPT ![r] = None]
      /\ UNCHANGED <<releasing, task, service, watcher>>
    BY <1>1 DEF SaveLaunched, Save, Unlocked, cluster
<1>4. QED BY <1>0, <1>2, <1>3 DEF TypeOK, TrackInv, Unlaunched, Calling

LEMMA TraceFindsNothingTracked ==
    ASSUME TypeOK, RecordsInv, TrackingInv, NoneAssumption, NEW r \in Resource, TraceFindsNothing(r)
    PROVE  TrackingInv'
<1> SUFFICES ASSUME NEW q \in Resource \ cut PROVE TrackInv(q)'
    BY DEF TrackingInv, TraceFindsNothing
<1>0. TrackInv(q) /\ RecordInv(q) /\ FlightInv(q) /\ ReleaseInv(q) /\ LookInv(q)
    BY DEF TrackingInv, RecordsInv
<1>1. QED BY <1>0
        DEF TypeOK, TrackInv, Unlaunched, Calling, TraceFindsNothing, Looking, Unlocked, manager, cluster,
            FlightInv, ReleaseInv, LookInv

LEMMA TaskEndsTracked ==
    ASSUME TypeOK, RecordsInv, TrackingInv, NoneAssumption, NEW r \in Resource, TaskEnds(r)
    PROVE  TrackingInv'
<1> SUFFICES ASSUME NEW q \in Resource \ cut PROVE TrackInv(q)'
    BY DEF TrackingInv, TaskEnds
<1>0. TrackInv(q) /\ RecordInv(q) /\ FlightInv(q) /\ ReleaseInv(q) /\ LookInv(q)
    BY DEF TrackingInv, RecordsInv
<1>1. QED BY <1>0
        DEF TypeOK, TrackInv, Unlaunched, Calling, TaskEnds, manager, cluster, FlightInv, ReleaseInv, LookInv

LEMMA SaveReleasedTracked ==
    ASSUME TypeOK, RecordsInv, TrackingInv, NoneAssumption, NEW r \in Resource, SaveReleased(r)
    PROVE  TrackingInv'
<1> SUFFICES ASSUME NEW q \in Resource \ cut PROVE TrackInv(q)'
    BY DEF TrackingInv, SaveReleased
<1>0. TrackInv(q) /\ RecordInv(q) /\ FlightInv(q) /\ ReleaseInv(q) /\ LookInv(q)
    BY DEF TrackingInv, RecordsInv
<1>1. QED BY <1>0
        DEF TypeOK, TrackInv, Unlaunched, Calling, SaveReleased, Returns, Release, Rec, manager, cluster,
            FlightInv, ReleaseInv, LookInv

LEMMA InstanceStartsTracked ==
    ASSUME TypeOK, RecordsInv, TrackingInv, NoneAssumption, NEW r \in Resource, InstanceStarts(r)
    PROVE  TrackingInv'
<1> SUFFICES ASSUME NEW q \in Resource \ cut PROVE TrackInv(q)'
    BY DEF TrackingInv, InstanceStarts
<1>0. TrackInv(q) /\ RecordInv(q) /\ FlightInv(q) /\ ReleaseInv(q) /\ LookInv(q)
    BY DEF TrackingInv, RecordsInv
<1>1. QED BY <1>0
        DEF TypeOK, TrackInv, Unlaunched, Calling, InstanceStarts, Deployment, manager, cluster, FlightInv,
            ReleaseInv, LookInv

LEMMA WatcherDeletesTracked ==
    ASSUME TypeOK, RecordsInv, TrackingInv, NoneAssumption, NEW r \in Resource, WatcherDeletes(r)
    PROVE  TrackingInv'
<1> SUFFICES ASSUME NEW q \in Resource \ cut PROVE TrackInv(q)'
    BY DEF TrackingInv, WatcherDeletes
<1>0. TrackInv(q) /\ RecordInv(q) /\ FlightInv(q) /\ ReleaseInv(q) /\ LookInv(q)
    BY DEF TrackingInv, RecordsInv
<1>1. QED BY <1>0
        DEF TypeOK, TrackInv, Unlaunched, Calling, WatcherDeletes, manager, cluster, FlightInv, ReleaseInv,
            LookInv

LEMMA WatcherGivesUpTracked ==
    ASSUME TypeOK, RecordsInv, TrackingInv, NoneAssumption, NEW r \in Resource, WatcherGivesUp(r)
    PROVE  TrackingInv'
<1> SUFFICES ASSUME NEW q \in Resource \ cut PROVE TrackInv(q)'
    BY DEF TrackingInv, WatcherGivesUp
<1>0. TrackInv(q) /\ RecordInv(q) /\ FlightInv(q) /\ ReleaseInv(q) /\ LookInv(q)
    BY DEF TrackingInv, RecordsInv
<1>1. QED BY <1>0
        DEF TypeOK, TrackInv, Unlaunched, Calling, WatcherGivesUp, manager, cluster, FlightInv, ReleaseInv,
            LookInv

LEMMA GetServerStatusTracked ==
    ASSUME TypeOK, RecordsInv, TrackingInv, NoneAssumption, NEW r \in Resource, NEW p \in Caller,
           GetServerStatus(p, r)
    PROVE  TrackingInv'
<1> SUFFICES ASSUME NEW q \in Resource \ cut PROVE TrackInv(q)'
    BY DEF TrackingInv, GetServerStatus
<1>0. TrackInv(q) /\ RecordInv(q) /\ FlightInv(q) /\ ReleaseInv(q) /\ LookInv(q)
    BY DEF TrackingInv, RecordsInv
<1>1. QED BY <1>0
        DEF TypeOK, TrackInv, Unlaunched, Calling, GetServerStatus, Looking, Unlocked, Caller,
            manager, cluster, FlightInv, ReleaseInv, LookInv

LEMMA FreshDeployingStatusTracked ==
    ASSUME TypeOK, RecordsInv, TrackingInv, NoneAssumption, NEW r \in Resource, NEW p \in Caller,
           FreshDeployingStatus(p, r)
    PROVE  TrackingInv'
<1> SUFFICES ASSUME NEW q \in Resource \ cut PROVE TrackInv(q)'
    BY DEF TrackingInv, FreshDeployingStatus
<1>0. TrackInv(q) /\ RecordInv(q) /\ FlightInv(q) /\ ReleaseInv(q) /\ LookInv(q)
    BY DEF TrackingInv, RecordsInv
<1>1. /\ task'[q] = "staging" => task[q] = "staging"
      /\ UNCHANGED <<flight, releasing, service, watcher>>
    BY DEF FreshDeployingStatus, TypeOK, cluster
<1>2. /\ cache'[q] = None <=> cache[q] = None
      /\ cache[q] # None => (cache'[q].status = "init" <=> cache[q].status = "init")
    <2>1. CASE cache[r] = None
        BY <2>1 DEF FreshDeployingStatus
    <2>2. CASE cache[r] # None
        <3>1. PICK new \in Rec :
                /\ new # None
                /\ new.status = "init" <=> cache[r].status = "init"
                /\ cache' = [cache EXCEPT ![r] = new]
            BY <2>2, FreshEffect
        <3>2. CASE q = r
            <4>1. cache'[q] = new
                BY <3>1, <3>2 DEF TypeOK
            <4>2. QED BY <2>2, <3>1, <3>2, <4>1
        <3>3. CASE q # r
            <4>1. cache'[q] = cache[q]
                BY <3>1, <3>3 DEF TypeOK
            <4>2. QED BY <4>1
        <3>4. QED BY <3>2, <3>3
    <2>3. QED BY <2>1, <2>2
<1>3. QED BY <1>0, <1>1, <1>2 DEF TrackInv, Unlaunched, Calling

LEMMA ReleaseFailsTracked ==
    ASSUME TypeOK, RecordsInv, TrackingInv, NoneAssumption, NEW r \in Resource, NEW p \in Caller,
           ReleaseFails(p, r)
    PROVE  TrackingInv'
<1> SUFFICES ASSUME NEW q \in Resource \ cut PROVE TrackInv(q)'
    BY DEF TrackingInv, ReleaseFails
<1>0. TrackInv(q) /\ RecordInv(q) /\ FlightInv(q) /\ ReleaseInv(q) /\ LookInv(q)
    BY DEF TrackingInv, RecordsInv
<1>1. QED BY <1>0
        DEF TypeOK, TrackInv, Unlaunched, Calling, ReleaseFails, Returns, Releasing, Unlocked,
            Caller, manager, cluster, FlightInv, ReleaseInv, LookInv

LEMMA ReleaseServerTracked ==
    ASSUME TypeOK, RecordsInv, TrackingInv, NoneAssumption, NEW r \in Resource, NEW p \in Caller,
           ReleaseServer(p, r)
    PROVE  TrackingInv'
<1> SUFFICES ASSUME NEW q \in Resource \ cut PROVE TrackInv(q)'
    BY DEF TrackingInv, ReleaseServer
<1>0. TrackInv(q) /\ RecordInv(q) /\ FlightInv(q) /\ ReleaseInv(q) /\ LookInv(q)
    BY DEF TrackingInv, RecordsInv
<1>1. QED BY <1>0
        DEF TypeOK, TrackInv, Unlaunched, Calling, ReleaseServer, Releasing, Unlocked, Caller,
            Release, manager, cluster, FlightInv, ReleaseInv, LookInv

LEMMA CrashTracked ==
    ASSUME TypeOK, RecordsInv, TrackingInv, Crash
    PROVE  TrackingInv'
<1> SUFFICES ASSUME NEW q \in Resource \ cut' PROVE TrackInv(q)'
    BY DEF TrackingInv
<1>1. q \in Resource /\ q \notin cut /\ ~IsCut(q)
    BY DEF Crash
<1>2. /\ watcher[q] = FALSE
      /\ flight[q] = None
      /\ service[q] # None => Alive(q)
    BY <1>1 DEF IsCut, TypeOK
<1>3. service'[q] = service[q]
    <2>1. PICK made \in SUBSET {r \in Resource : /\ flight[r] # None /\ service[r] = None
                                                 /\ flight[r].pc = "call"} :
            service' = [r \in Resource |-> IF r \in made
                          THEN [size |-> flight[r].rec.request, ready |-> 0] ELSE service[r]]
        BY DEF Crash
    <2>2. q \notin made
        BY <1>2
    <2>3. QED BY <1>1, <2>1, <2>2
<1>4. /\ flight'[q] = None /\ releasing'[q] = None
      /\ cache'[q] = IF Alive(q) THEN row[q] ELSE None
    BY <1>1 DEF Crash
<1>5. Alive(q) => row[q] # None /\ row[q].status # "init"
    BY <1>1 DEF RecordsInv, RecordInv, Alive
<1>6. QED BY <1>2, <1>3, <1>4, <1>5 DEF TrackInv, Unlaunched, Calling

LEMMA NextTracked ==
    ASSUME TypeOK, RecordsInv, TrackingInv, [Next]_vars
    PROVE  TrackingInv'
<1> USE NoneAssumption
<1>1. ASSUME NEW r \in Resource, LaunchRefused(r) PROVE TrackingInv'
    BY <1>1, LaunchRefusedTracked
<1>2. ASSUME NEW r \in Resource, Launch(r) PROVE TrackingInv'
    BY <1>2, LaunchTracked
<1>3. ASSUME NEW r \in Resource, LaunchServer(r) PROVE TrackingInv'
    BY <1>3, LaunchServerTracked
<1>4. ASSUME NEW r \in Resource, LaunchServerFails(r) PROVE TrackingInv'
    BY <1>4, LaunchServerFailsTracked
<1>5. ASSUME NEW r \in Resource, SaveLaunched(r) PROVE TrackingInv'
    BY <1>5, SaveLaunchedTracked
<1>6. ASSUME NEW r \in Resource, TraceFindsNothing(r) PROVE TrackingInv'
    BY <1>6, TraceFindsNothingTracked
<1>7. ASSUME NEW r \in Resource, TaskEnds(r) PROVE TrackingInv'
    BY <1>7, TaskEndsTracked
<1>8. ASSUME NEW r \in Resource, SaveReleased(r) PROVE TrackingInv'
    BY <1>8, SaveReleasedTracked
<1>9. ASSUME NEW r \in Resource, InstanceStarts(r) PROVE TrackingInv'
    BY <1>9, InstanceStartsTracked
<1>10. ASSUME NEW r \in Resource, WatcherDeletes(r) PROVE TrackingInv'
    BY <1>10, WatcherDeletesTracked
<1>11. ASSUME NEW r \in Resource, WatcherGivesUp(r) PROVE TrackingInv'
    BY <1>11, WatcherGivesUpTracked
<1>12. ASSUME NEW r \in Resource, NEW p \in Caller, GetServerStatus(p, r) PROVE TrackingInv'
    BY <1>12, GetServerStatusTracked
<1>13. ASSUME NEW r \in Resource, NEW p \in Caller, FreshDeployingStatus(p, r) PROVE TrackingInv'
    BY <1>13, FreshDeployingStatusTracked
<1>14. ASSUME NEW r \in Resource, NEW p \in Caller, ReleaseFails(p, r) PROVE TrackingInv'
    BY <1>14, ReleaseFailsTracked
<1>15. ASSUME NEW r \in Resource, NEW p \in Caller, ReleaseServer(p, r) PROVE TrackingInv'
    BY <1>15, ReleaseServerTracked
<1>16. CASE Crash
    BY <1>16, CrashTracked
<1>17. CASE Sync \/ SyncWithoutBlock \/ ReleaseNoReadyInstance \/ UNCHANGED vars
    BY <1>17
        DEF Sync, SyncWithoutBlock, ReleaseNoReadyInstance, vars, manager, cluster, TrackingInv,
            TrackInv, Unlaunched, Calling
<1>18. QED BY <1>1, <1>2, <1>3, <1>4, <1>5, <1>6, <1>7, <1>8, <1>9, <1>10, <1>11, <1>12, <1>13,
              <1>14, <1>15, <1>16, <1>17
        DEF Next
-----------------------------------------------------------------------------
(* Sums of the counts. *)

HeldBy(r) == IF cache[r] = None THEN 0 ELSE cache[r].noReady
OrderedBy(r) == IF Calling(r) THEN flight[r].rec.request ELSE 0
UsedBy(r) == IF service[r] = None THEN 0 ELSE service[r].size

LEMMA PartsTyped ==
    ASSUME TypeOK, NEW r \in Resource
    PROVE  HeldBy(r) \in Nat /\ OrderedBy(r) \in Nat /\ UsedBy(r) \in Nat
<1>1. HeldBy(r) \in Nat /\ UsedBy(r) \in Nat
    BY DEF TypeOK, HeldBy, UsedBy, Rec, Deployment
<1>2. OrderedBy(r) \in Nat
    BY DEF TypeOK, OrderedBy, Calling, Launching, Rec
<1>3. QED BY <1>1, <1>2

LEMMA PartsTypedNext ==
    ASSUME TypeOK', NEW r \in Resource
    PROVE  HeldBy(r)' \in Nat /\ OrderedBy(r)' \in Nat /\ UsedBy(r)' \in Nat
<1>1. HeldBy(r)' \in Nat /\ UsedBy(r)' \in Nat
    BY DEF TypeOK, HeldBy, UsedBy, Rec, Deployment
<1>2. OrderedBy(r)' \in Nat
    BY DEF TypeOK, OrderedBy, Calling, Launching, Rec
<1>3. QED BY <1>1, <1>2

\* A step that changes what one resource adds to a sum changes the sum by it.
LEMMA HeldChanges ==
    ASSUME TypeOK, TypeOK', NEW r \in Resource,
           \A q \in Resource \ {r} : cache'[q] = cache[q]
    PROVE  Held' = Held - HeldBy(r) + HeldBy(r)'
<1> DEFINE f == [q \in Resource |-> IF cache[q] = None THEN 0 ELSE cache[q].noReady]
           g == [q \in Resource |-> IF cache'[q] = None THEN 0 ELSE cache'[q].noReady]
<1>1. \A q \in Resource : f[q] \in Int
    BY DEF TypeOK, Rec
<1>2. g[r] \in Int /\ \A q \in Resource \ {r} : g[q] = f[q]
    BY DEF TypeOK, Rec
<1>3. f[r] = HeldBy(r) /\ g[r] = HeldBy(r)'
    BY DEF HeldBy
<1>4. Held = SumFunctionOnSet(f, Resource) /\ Held' = SumFunctionOnSet(g, Resource)
    BY DEF Held, SumFunction
<1> HIDE DEF f, g
<1>5. SumFunctionOnSet(g, Resource) = SumFunctionOnSet(f, Resource) - f[r] + g[r]
    BY <1>1, <1>2, SumChange, CrmAssumption
<1>6. QED BY <1>3, <1>4, <1>5

LEMMA OrderedChanges ==
    ASSUME TypeOK, TypeOK', NEW r \in Resource,
           \A q \in Resource \ {r} : flight'[q] = flight[q]
    PROVE  Ordered' = Ordered - OrderedBy(r) + OrderedBy(r)'
<1> DEFINE f == [q \in Resource |-> IF Calling(q) THEN flight[q].rec.request ELSE 0]
           g == [q \in Resource |-> IF Calling(q)' THEN flight'[q].rec.request ELSE 0]
<1>1. \A q \in Resource : f[q] \in Int
    BY DEF TypeOK, Rec, Launching, Calling
<1>2. g[r] \in Int /\ \A q \in Resource \ {r} : g[q] = f[q]
    BY DEF TypeOK, Rec, Launching, Calling
<1>3. f[r] = OrderedBy(r) /\ g[r] = OrderedBy(r)'
    BY DEF OrderedBy
<1>4. Ordered = SumFunctionOnSet(f, Resource) /\ Ordered' = SumFunctionOnSet(g, Resource)
    BY DEF Ordered, SumFunction
<1> HIDE DEF f, g
<1>5. SumFunctionOnSet(g, Resource) = SumFunctionOnSet(f, Resource) - f[r] + g[r]
    BY <1>1, <1>2, SumChange, CrmAssumption
<1>6. QED BY <1>3, <1>4, <1>5

LEMMA UsedChanges ==
    ASSUME TypeOK, TypeOK', NEW r \in Resource,
           \A q \in Resource \ {r} : service'[q] = service[q]
    PROVE  Used' = Used - UsedBy(r) + UsedBy(r)'
<1> DEFINE f == [q \in Resource |-> IF service[q] = None THEN 0 ELSE service[q].size]
           g == [q \in Resource |-> IF service'[q] = None THEN 0 ELSE service'[q].size]
<1>1. \A q \in Resource : f[q] \in Int
    BY DEF TypeOK, Deployment
<1>2. g[r] \in Int /\ \A q \in Resource \ {r} : g[q] = f[q]
    BY DEF TypeOK, Deployment
<1>3. f[r] = UsedBy(r) /\ g[r] = UsedBy(r)'
    BY DEF UsedBy
<1>4. Used = SumFunctionOnSet(f, Resource) /\ Used' = SumFunctionOnSet(g, Resource)
    BY DEF Used, SumFunction
<1> HIDE DEF f, g
<1>5. SumFunctionOnSet(g, Resource) = SumFunctionOnSet(f, Resource) - f[r] + g[r]
    BY <1>1, <1>2, SumChange, CrmAssumption
<1>6. QED BY <1>3, <1>4, <1>5

\* What is about to be deployed is held back, unless a release overtook it.
LEMMA OrderedIsHeld ==
    ASSUME TypeOK, RecordsInv, ~drifted
    PROVE  Ordered <= Held
<1> DEFINE f == [q \in Resource |-> IF Calling(q) THEN flight[q].rec.request ELSE 0]
           g == [q \in Resource |-> IF cache[q] = None THEN 0 ELSE cache[q].noReady]
<1>1. \A q \in Resource : f[q] \in Int /\ g[q] \in Int
    BY DEF TypeOK, Rec, Launching, Calling
<1>2. \A q \in Resource : f[q] <= g[q]
    <2> SUFFICES ASSUME NEW q \in Resource PROVE f[q] <= g[q]
        OBVIOUS
    <2>1. CASE ~Calling(q)
        BY <2>1 DEF TypeOK, Rec
    <2>2. CASE Calling(q)
        <3>1. flight[q] # None /\ FlightInv(q)
            BY <2>2 DEF Calling, RecordsInv
        <3>2. cache[q] # None /\ cache[q] = flight[q].rec
              /\ flight[q].rec.noReady = flight[q].rec.request
            BY <3>1 DEF FlightInv
        <3>3. g[q] = flight[q].rec.request /\ f[q] = g[q]
            BY <2>2, <3>2
        <3>4. QED BY <1>1, <3>3
    <2>3. QED BY <2>1, <2>2
<1>3. Ordered = SumFunctionOnSet(f, Resource) /\ Held = SumFunctionOnSet(g, Resource)
    BY DEF Ordered, Held, SumFunction
<1> HIDE DEF f, g
<1>4. QED BY <1>1, <1>2, <1>3, SumMonotone, CrmAssumption

\* A crash leaves in the map what the rows say, ends the calls, and creates at
\* most what they asked for.
LEMMA CrashHeld ==
    ASSUME TypeOK, TypeOK', Crash
    PROVE  Held' = RecoveredNoReady
<1> DEFINE f == [q \in Resource |-> IF Alive(q) THEN row[q].noReady ELSE 0]
           g == [q \in Resource |-> IF cache'[q] = None THEN 0 ELSE cache'[q].noReady]
<1>1. \A q \in Resource : f[q] \in Int
    BY DEF TypeOK, Rec, Alive
<1>2. \A q \in Resource : g[q] = f[q]
    BY DEF Crash, Alive
<1>3. RecoveredNoReady = SumFunctionOnSet(f, Resource) /\ Held' = SumFunctionOnSet(g, Resource)
    BY DEF RecoveredNoReady, Held, SumFunction
<1> HIDE DEF f, g
<1>4. QED BY <1>1, <1>2, <1>3, SumAgrees, CrmAssumption

LEMMA CrashUsed ==
    ASSUME TypeOK, TypeOK', Crash
    PROVE  Ordered' = 0 /\ Used' <= Used + Ordered
<1> DEFINE f == [q \in Resource |-> IF service[q] = None THEN 0 ELSE service[q].size]
           g == [q \in Resource |-> IF Calling(q) THEN flight[q].rec.request ELSE 0]
           h == [q \in Resource |-> f[q] + g[q]]
           k == [q \in Resource |-> IF service'[q] = None THEN 0 ELSE service'[q].size]
           e == [q \in Resource |-> IF Calling(q)' THEN flight'[q].rec.request ELSE 0]
<1>1. \A q \in Resource : f[q] \in Nat /\ g[q] \in Nat
    <2>1. \A q \in Resource : f[q] \in Nat
        BY DEF TypeOK, Deployment
    <2>2. \A q \in Resource : g[q] \in Nat
        BY DEF TypeOK, Rec, Launching, Calling
    <2>3. QED BY <2>1, <2>2
<1>2. \A q \in Resource : h[q] = f[q] + g[q] /\ h[q] \in Nat
    <2> HIDE DEF f, g
    <2>1. QED BY <1>1
<1>3. \A q \in Resource : e[q] = 0
    BY DEF Crash, Calling
<1>4. \A q \in Resource : k[q] \in Int
    BY DEF TypeOK, Deployment
<1>5. \A q \in Resource : k[q] <= h[q]
    <2> SUFFICES ASSUME NEW q \in Resource PROVE k[q] <= h[q]
        OBVIOUS
    <2>1. PICK made \in SUBSET {r \in Resource : /\ flight[r] # None /\ service[r] = None
                                                 /\ flight[r].pc = "call"} :
            service' = [r \in Resource |-> IF r \in made
                          THEN [size |-> flight[r].rec.request, ready |-> 0] ELSE service[r]]
        BY DEF Crash
    <2>2. CASE q \in made
        <3>1. Calling(q) /\ service[q] = None
            BY <2>2 DEF Calling
        <3>2. service'[q] = [size |-> flight[q].rec.request, ready |-> 0]
            BY <2>1, <2>2
        <3>3. service'[q] # None
            <4>1. service'[q] \in Deployment
                BY <3>1, <3>2 DEF TypeOK, Launching, Rec, Deployment, Calling
            <4>2. QED BY <4>1, NoneAssumption
        <3>4. k[q] = flight[q].rec.request
            BY <3>2, <3>3
        <3>5. g[q] = flight[q].rec.request /\ f[q] = 0
            BY <3>1
        <3>6. h[q] = k[q]
            BY <1>1, <1>2, <3>4, <3>5
        <3>7. QED BY <1>4, <3>6
    <2>3. CASE q \notin made
        <3>1. service'[q] = service[q]
            BY <2>1, <2>3
        <3>2. k[q] = f[q]
            BY <3>1
        <3> HIDE DEF f, g, h, k
        <3>3. QED BY <1>1, <1>2, <3>2
    <2>4. QED BY <2>2, <2>3
<1>6. /\ Used = SumFunctionOnSet(f, Resource) /\ Ordered = SumFunctionOnSet(g, Resource)
      /\ Used' = SumFunctionOnSet(k, Resource) /\ Ordered' = SumFunctionOnSet(e, Resource)
    BY DEF Used, Ordered, SumFunction
<1> HIDE DEF f, g, h, k, e
<1>7. SumFunctionOnSet(h, Resource) = SumFunctionOnSet(f, Resource) + SumFunctionOnSet(g, Resource)
    BY <1>1, <1>2, SumPlus, CrmAssumption
<1>8. SumFunctionOnSet(k, Resource) <= SumFunctionOnSet(h, Resource)
    BY <1>2, <1>4, <1>5, SumMonotone, CrmAssumption
<1>9. SumFunctionOnSet(e, Resource) = 0
    <2>1. SumFunctionOnSet(e, Resource) = SumFunctionOnSet(e, {})
        BY <1>3, SumZeros, CrmAssumption
    <2>2. QED BY <2>1, SumEmpty
<1>10. QED BY <1>6, <1>7, <1>8, <1>9
-----------------------------------------------------------------------------
(* Counts. *)

BookInv == CountInv /\ RoomInv

\* How much a step of resource r moves between the counts: what it changes in
\* what is held back, in the sizes of the deployments, and in what is ordered.
LEMMA BookMoves ==
    ASSUME TypeOK, TypeOK', BookInv, NEW r \in Resource,
           \A q \in Resource \ {r} : /\ cache'[q] = cache[q] /\ flight'[q] = flight[q]
                                     /\ service'[q] = service[q],
           UNCHANGED <<pool, due>>, drifted => drifted',
           HeldBy(r) + asked <= HeldBy(r)' + asked',
           drifted' \/ /\ HeldBy(r) + asked = HeldBy(r)' + asked'
                       /\ UsedBy(r)' + OrderedBy(r)' <= UsedBy(r) + OrderedBy(r)
    PROVE  BookInv'
<1>1. /\ Held' = Held - HeldBy(r) + HeldBy(r)'
      /\ Ordered' = Ordered - OrderedBy(r) + OrderedBy(r)'
      /\ Used' = Used - UsedBy(r) + UsedBy(r)'
    BY HeldChanges, OrderedChanges, UsedChanges
<1>2. Held \in Nat /\ Used \in Nat /\ Ordered \in Nat
    BY SumsTyped
<1>3. /\ HeldBy(r) \in Nat /\ OrderedBy(r) \in Nat /\ UsedBy(r) \in Nat
      /\ HeldBy(r)' \in Nat /\ OrderedBy(r)' \in Nat /\ UsedBy(r)' \in Nat
    BY PartsTyped, PartsTypedNext
<1>4. /\ asked \in Nat /\ asked' \in Nat /\ due \in Nat /\ due' = due
      /\ pool' = pool /\ pool.noReady \in Int /\ pool.available \in Int /\ Total \in Nat
    BY Constants DEF TypeOK
<1>5. CountInv'
    BY <1>1, <1>2, <1>3, <1>4 DEF BookInv, CountInv, Promised
<1>6. RoomInv'
    BY <1>1, <1>2, <1>3, <1>4 DEF BookInv, RoomInv
<1>7. QED BY <1>5, <1>6 DEF BookInv

LEMMA LaunchRefusedBooks ==
    ASSUME TypeOK, TypeOK', RecordsInv, BookInv, NEW r \in Resource, LaunchRefused(r)
    PROVE  BookInv'
<1>1. HeldBy(r)' = HeldBy(r)
    BY DEF LaunchRefused, HeldBy, TypeOK, Fresh
<1>2. /\ UNCHANGED <<flight, service, pool, asked, due, drifted>>
      /\ \A q \in Resource \ {r} : cache'[q] = cache[q]
    BY DEF LaunchRefused, TypeOK, counts, cluster
<1>3. OrderedBy(r)' = OrderedBy(r) /\ UsedBy(r)' = UsedBy(r)
    BY <1>2 DEF OrderedBy, UsedBy, Calling
<1>4. /\ HeldBy(r) \in Nat /\ OrderedBy(r) \in Nat /\ UsedBy(r) \in Nat /\ asked \in Nat
    BY PartsTyped DEF TypeOK
<1>5. QED BY <1>1, <1>2, <1>3, <1>4, BookMoves

\* Launch moves what it takes from the free instances to the count of the block,
\* to the record and to the order.
LEMMA LaunchBooks ==
    ASSUME TypeOK, TypeOK', RecordsInv, BookInv, NEW r \in Resource, Launch(r)
    PROVE  BookInv'
<1>1. PICK n \in Nat \ {0}, rec \in Rec :
        /\ rec.status = "init" /\ rec.noReady = n /\ rec.request = n
        /\ n <= FreeInstances /\ FreeInstances \in Int
        /\ cache' = [cache EXCEPT ![r] = rec]
        /\ flight' = [flight EXCEPT ![r] = [rec |-> rec, pc |-> "call"]]
        /\ pool' = [pool EXCEPT !.noReady = @ + n]
    BY LaunchEffect
<1>2. /\ task[r] = "staging" /\ Launchable(r) /\ pool.known
      /\ UNCHANGED <<service, asked, due, drifted>>
    BY DEF Launch, cluster
<1>3. [rec |-> rec, pc |-> "call"] # None /\ rec # None
    <2>1. [rec |-> rec, pc |-> "call"] \in Launching
        BY DEF Launching
    <2>2. QED BY <2>1, NoneAssumption
<1>4. flight[r] = None /\ HeldBy(r) = 0
    BY <1>2 DEF RecordsInv, FlightInv, RecordInv, Launchable, HeldBy
<1>5. OrderedBy(r) = 0
    BY <1>4 DEF OrderedBy, Calling
<1>6. HeldBy(r)' = n
    BY <1>1, <1>3 DEF HeldBy, TypeOK
<1>7. OrderedBy(r)' = n
    BY <1>1, <1>3 DEF OrderedBy, Calling, TypeOK
<1>8. Used' = Used
    BY <1>2 DEF Used
<1>9. Held' = Held + n /\ Ordered' = Ordered + n
    <2>1. /\ Held' = Held - HeldBy(r) + HeldBy(r)'
          /\ Ordered' = Ordered - OrderedBy(r) + OrderedBy(r)'
        BY <1>1, HeldChanges, OrderedChanges DEF TypeOK
    <2>2. Held \in Nat /\ Ordered \in Nat
        BY SumsTyped
    <2>3. QED BY <1>4, <1>5, <1>6, <1>7, <2>1, <2>2
<1>10. Held \in Nat /\ Ordered \in Nat /\ Used \in Nat /\ asked \in Nat /\ due \in Nat
       /\ pool.noReady \in Int /\ pool.available \in Int /\ Total \in Nat
    BY SumsTyped, Constants DEF TypeOK
<1>11. pool'.noReady = pool.noReady + n /\ pool'.known /\ pool'.available = pool.available
    BY <1>1, <1>2 DEF TypeOK
<1>12. CountInv'
    BY <1>2, <1>9, <1>10, <1>11 DEF BookInv, CountInv, Promised
<1>13. RoomInv'
    <2>1. CASE drifted
        BY <1>2, <2>1 DEF RoomInv
    <2>2. CASE ~drifted
        <3>1. pool.noReady = Held + asked + due
            BY <2>2 DEF BookInv, CountInv, Promised
        <3>2. n <= pool.available - pool.noReady
            BY <1>1 DEF FreeInstances
        <3>3. Used + Ordered <= Total - pool.available + Held + asked
            BY <2>2 DEF BookInv, RoomInv
        <3>4. Used + Ordered + n <= Total
            BY <1>10, <3>1, <3>2, <3>3
        <3>5. Used + Ordered + n <= Total - pool.available + (Held + n) + asked
            BY <1>10, <3>3
        <3>6. QED BY <1>2, <1>8, <1>9, <1>10, <1>11, <3>4, <3>5 DEF RoomInv
    <2>3. QED BY <2>1, <2>2
<1>14. QED BY <1>12, <1>13 DEF BookInv

LEMMA LaunchServerBooks ==
    ASSUME TypeOK, TypeOK', RecordsInv, BookInv, NEW r \in Resource, LaunchServer(r)
    PROVE  BookInv'
<1>1. flight[r] \in Launching /\ flight[r].pc = "call" /\ flight[r].rec.request \in Nat
      /\ service[r] = None
    BY DEF LaunchServer, TypeOK, Launching, Rec
<1>2. /\ service'[r] = [size |-> flight[r].rec.request, ready |-> 0]
      /\ flight'[r].pc = "save"
      /\ \A q \in Resource \ {r} : flight'[q] = flight[q] /\ service'[q] = service[q]
      /\ UNCHANGED <<cache, pool, asked, due, drifted>>
    BY <1>1 DEF LaunchServer, TypeOK, counts, Launching
<1>3. service'[r] # None
    <2>1. service'[r] \in Deployment
        BY <1>1, <1>2 DEF Deployment
    <2>2. QED BY <2>1, NoneAssumption
<1>4. HeldBy(r)' = HeldBy(r)
    BY <1>2 DEF HeldBy
<1>5. OrderedBy(r) = flight[r].rec.request /\ OrderedBy(r)' = 0
    BY <1>1, <1>2, NoneAssumption DEF OrderedBy, Calling
<1>6. UsedBy(r) = 0 /\ UsedBy(r)' = flight[r].rec.request
    BY <1>1, <1>2, <1>3 DEF UsedBy
<1>7. HeldBy(r) \in Nat /\ asked \in Nat
    BY PartsTyped DEF TypeOK
<1>8. QED BY <1>1, <1>2, <1>4, <1>5, <1>6, <1>7, BookMoves

LEMMA LaunchServerFailsBooks ==
    ASSUME TypeOK, TypeOK', RecordsInv, BookInv, NEW r \in Resource, LaunchServerFails(r)
    PROVE  BookInv'
<1>1. flight[r] # None /\ flight[r].pc = "call" /\ flight[r].rec \in Rec
    BY DEF LaunchServerFails, TypeOK, Launching
<1>2. PICK new : new = [flight[r].rec EXCEPT !.noReady = 0]
    OBVIOUS
<1>3. new \in Rec /\ new.noReady = 0 /\ new # None
    BY <1>1, <1>2, NoneAssumption DEF Rec
<1>4. /\ cache' = [cache EXCEPT ![r] = new] /\ flight' = [flight EXCEPT ![r] = None]
      /\ asked' = asked + flight[r].rec.noReady
      /\ UNCHANGED <<pool, due, drifted>>
    BY <1>2 DEF LaunchServerFails
<1>5. /\ service' = service \/ (service[r] = None
           /\ service' = [service EXCEPT ![r] = [size |-> flight[r].rec.request, ready |-> 0]])
    BY DEF LaunchServerFails
<1>6. flight[r].rec.noReady \in Nat /\ flight[r].rec.request \in Nat
      /\ HeldBy(r) \in Nat /\ UsedBy(r) \in Nat /\ asked \in Nat
    BY <1>1, PartsTyped DEF Rec, TypeOK
<1>7. HeldBy(r)' = 0 /\ OrderedBy(r)' = 0 /\ OrderedBy(r) = flight[r].rec.request
    BY <1>1, <1>3, <1>4 DEF HeldBy, OrderedBy, Calling, TypeOK
<1>8. HeldBy(r) <= flight[r].rec.noReady /\ (drifted \/ HeldBy(r) = flight[r].rec.noReady)
    <2>1. cache[r] \in {None, flight[r].rec} /\ (cache[r] = None => drifted)
        BY <1>1 DEF RecordsInv, FlightInv
    <2>2. QED BY <1>6, <2>1 DEF HeldBy
<1>9. UsedBy(r)' <= UsedBy(r) + flight[r].rec.request
    <2>1. CASE service' = service
        BY <1>6, <2>1 DEF UsedBy
    <2>2. CASE service[r] = None
               /\ service' = [service EXCEPT ![r] = [size |-> flight[r].rec.request, ready |-> 0]]
        <3>1. service'[r] = [size |-> flight[r].rec.request, ready |-> 0]
            BY <2>2 DEF TypeOK
        <3>2. UsedBy(r)' \in {0, flight[r].rec.request}
            BY <3>1 DEF UsedBy
        <3>3. QED BY <1>6, <3>2
    <2>3. QED BY <1>5, <2>1, <2>2
<1>10. \A q \in Resource \ {r} : /\ cache'[q] = cache[q] /\ flight'[q] = flight[q]
                                 /\ service'[q] = service[q]
    BY <1>4, <1>5 DEF TypeOK
<1>11. UsedBy(r)' \in Nat
    BY PartsTypedNext
<1>12. QED BY <1>4, <1>6, <1>7, <1>8, <1>9, <1>10, <1>11, BookMoves

LEMMA SaveLaunchedBooks ==
    ASSUME TypeOK, TypeOK', RecordsInv, BookInv, NEW r \in Resource, SaveLaunched(r)
    PROVE  BookInv'
<1>1. flight[r] # None /\ flight[r].pc = "save" /\ flight[r].rec \in Rec
    BY DEF SaveLaunched, TypeOK, Launching
<1>2. PICK new : new = [flight[r].rec EXCEPT !.status = "deploying"]
    OBVIOUS
<1>3. new \in Rec /\ new.noReady = flight[r].rec.noReady /\ new # None
    <2>1. new \in Rec /\ new.noReady = flight[r].rec.noReady
        BY <1>1, <1>2 DEF Rec, Status
    <2>2. QED BY <2>1, NoneAssumption
<1>4. /\ cache' = [cache EXCEPT ![r] = new] /\ flight' = [flight EXCEPT ![r] = None]
      /\ UNCHANGED <<pool, asked, due, drifted, service>>
    BY <1>2 DEF SaveLaunched, Save, counts, cluster
<1>5. flight[r].rec.noReady \in Nat /\ HeldBy(r) \in Nat /\ UsedBy(r) \in Nat /\ asked \in Nat
    BY <1>1, PartsTyped DEF Rec, TypeOK
<1>6. HeldBy(r)' = flight[r].rec.noReady /\ OrderedBy(r)' = 0 /\ OrderedBy(r) = 0
    BY <1>1, <1>3, <1>4 DEF HeldBy, OrderedBy, Calling, TypeOK
<1>7. HeldBy(r) <= flight[r].rec.noReady /\ (drifted \/ HeldBy(r) = flight[r].rec.noReady)
    <2>1. cache[r] \in {None, flight[r].rec} /\ (cache[r] = None => drifted)
        BY <1>1 DEF RecordsInv, FlightInv
    <2>2. QED BY <1>5, <2>1 DEF HeldBy
<1>8. UsedBy(r)' = UsedBy(r)
    BY <1>4 DEF UsedBy
<1>9. \A q \in Resource \ {r} : /\ cache'[q] = cache[q] /\ flight'[q] = flight[q]
                                /\ service'[q] = service[q]
    BY <1>4 DEF TypeOK
<1>10. QED BY <1>4, <1>5, <1>6, <1>7, <1>8, <1>9, BookMoves

LEMMA FreshDeployingStatusBooks ==
    ASSUME TypeOK, TypeOK', RecordsInv, BookInv, NEW r \in Resource, NEW p \in Caller,
           FreshDeployingStatus(p, r)
    PROVE  BookInv'
<1>1. UNCHANGED <<flight, pool, due, service, drifted>>
    BY DEF FreshDeployingStatus, cluster
<1>2. OrderedBy(r)' = OrderedBy(r) /\ UsedBy(r)' = UsedBy(r)
    BY <1>1 DEF OrderedBy, UsedBy, Calling
<1>3. /\ HeldBy(r) \in Nat /\ OrderedBy(r) \in Nat /\ UsedBy(r) \in Nat /\ asked \in Nat
    BY PartsTyped DEF TypeOK
<1>4. CASE cache[r] = None
    <2>1. UNCHANGED <<cache, asked>>
        BY <1>4 DEF FreshDeployingStatus
    <2>2. HeldBy(r)' = HeldBy(r)
        BY <2>1 DEF HeldBy
    <2>3. QED BY <1>1, <1>2, <1>3, <2>1, <2>2, BookMoves
<1>5. CASE cache[r] # None
    <2>1. PICK new \in Rec :
             /\ new # None /\ cache[r] \in Rec
             /\ cache' = [cache EXCEPT ![r] = new]
             /\ asked' = asked + cache[r].noReady - new.noReady
        BY <1>5, FreshEffect
    <2>2. HeldBy(r) = cache[r].noReady /\ HeldBy(r)' = new.noReady
        BY <1>5, <2>1 DEF HeldBy, TypeOK
    <2>3. cache[r].noReady \in Nat /\ new.noReady \in Nat
        BY <2>1 DEF Rec
    <2>4. \A q \in Resource \ {r} : cache'[q] = cache[q]
        BY <2>1 DEF TypeOK
    <2>5. HeldBy(r) + asked = HeldBy(r)' + asked' /\ asked' \in Nat
        BY <1>3, <2>1, <2>2, <2>3 DEF TypeOK
    <2>6. QED BY <1>1, <1>2, <1>3, <2>2, <2>3, <2>4, <2>5, BookMoves
<1>6. QED BY <1>4, <1>5

LEMMA SaveReleasedBooks ==
    ASSUME TypeOK, TypeOK', RecordsInv, BookInv, NEW r \in Resource, SaveReleased(r)
    PROVE  BookInv'
<1>1. releasing[r] # None /\ releasing[r].rec \in Rec
    BY DEF SaveReleased, TypeOK, Release
<1>2. /\ asked' = asked + releasing[r].rec.noReady
      /\ cache' = [cache EXCEPT ![r] = None]
      /\ UNCHANGED <<flight, pool, due, service, drifted>>
    BY DEF SaveReleased, cluster
<1>3. /\ cache[r] # None /\ cache[r].noReady <= releasing[r].rec.noReady
      /\ drifted \/ cache[r] = releasing[r].rec
    BY <1>1 DEF RecordsInv, ReleaseInv
<1>4. HeldBy(r) = cache[r].noReady /\ HeldBy(r)' = 0
    BY <1>2, <1>3 DEF HeldBy, TypeOK
<1>5. OrderedBy(r)' = OrderedBy(r) /\ UsedBy(r)' = UsedBy(r)
    BY <1>2 DEF OrderedBy, UsedBy, Calling
<1>6. /\ OrderedBy(r) \in Nat /\ UsedBy(r) \in Nat /\ asked \in Nat
      /\ releasing[r].rec.noReady \in Nat /\ cache[r].noReady \in Nat
    BY <1>1, <1>3, PartsTyped DEF TypeOK, Rec
<1>7. \A q \in Resource \ {r} : cache'[q] = cache[q]
    BY <1>2 DEF TypeOK
<1>8. QED BY <1>2, <1>3, <1>4, <1>5, <1>6, <1>7, BookMoves
\* A step that leaves the records alone and creates no deployment.
LEMMA OthersBooks ==
    ASSUME TypeOK, TypeOK', BookInv, NEW r \in Resource,
           \A q \in Resource \ {r} : service'[q] = service[q], UsedBy(r)' <= UsedBy(r),
           UNCHANGED <<cache, flight, pool, asked, due>>, drifted => drifted'
    PROVE  BookInv'
<1>1. HeldBy(r)' = HeldBy(r) /\ OrderedBy(r)' = OrderedBy(r)
    BY DEF HeldBy, OrderedBy, Calling
<1>2. /\ HeldBy(r) \in Nat /\ OrderedBy(r) \in Nat /\ UsedBy(r) \in Nat /\ UsedBy(r)' \in Nat
      /\ asked \in Nat
    BY PartsTyped, PartsTypedNext DEF TypeOK
<1>3. QED BY <1>1, <1>2, BookMoves

LEMMA ServiceBooks ==
    ASSUME TypeOK, TypeOK', BookInv, NEW r \in Resource,
           \/ InstanceStarts(r) \/ WatcherDeletes(r) \/ WatcherGivesUp(r)
           \/ TraceFindsNothing(r) \/ TaskEnds(r)
           \/ \E p \in Caller : \/ GetServerStatus(p, r) \/ ReleaseFails(p, r)
                                \/ ReleaseServer(p, r)
    PROVE  BookInv'
<1>1. UNCHANGED <<cache, flight, pool, asked, due>>
    BY
        DEF InstanceStarts, WatcherDeletes, WatcherGivesUp, TraceFindsNothing, TaskEnds,
            GetServerStatus, ReleaseFails, ReleaseServer, manager, counts
<1>2. drifted => drifted'
    BY
        DEF InstanceStarts, WatcherDeletes, WatcherGivesUp, TraceFindsNothing, TaskEnds,
            GetServerStatus, ReleaseFails, ReleaseServer
<1>3. \/ service' = service
      \/ service' = [service EXCEPT ![r] = None]
      \/ service[r] # None /\ service' = [service EXCEPT ![r].ready = @ + 1]
    BY
        DEF InstanceStarts, WatcherDeletes, WatcherGivesUp, TraceFindsNothing, TaskEnds,
            GetServerStatus, ReleaseFails, ReleaseServer, cluster
<1>4. \A q \in Resource \ {r} : service'[q] = service[q]
    BY <1>3 DEF TypeOK
<1>5. UsedBy(r) \in Nat
    BY PartsTyped
<1>6. UsedBy(r)' <= UsedBy(r)
    <2>1. CASE service' = service
        BY <1>5, <2>1 DEF UsedBy
    <2>2. CASE service' = [service EXCEPT ![r] = None]
        BY <1>5, <2>2 DEF UsedBy, TypeOK
    <2>3. CASE service[r] # None /\ service' = [service EXCEPT ![r].ready = @ + 1]
        <3>1. service[r] \in Deployment
            BY <2>3 DEF TypeOK
        <3>2. service'[r] = [service[r] EXCEPT !.ready = @ + 1]
            BY <2>3 DEF TypeOK
        <3>3. service'[r].size = service[r].size
            BY <3>1, <3>2 DEF Deployment
        <3>4. UsedBy(r)' \in {0, service[r].size} /\ UsedBy(r) = service[r].size
            BY <2>3, <3>3 DEF UsedBy
        <3>5. QED BY <1>5, <3>4
    <2>4. QED BY <1>3, <2>1, <2>2, <2>3
<1>7. QED BY <1>1, <1>2, <1>4, <1>6, OthersBooks

\* A report says what is free without what is deployed, so that the requests
\* to give back that waited for it may go ahead.
LEMMA SyncBooks ==
    ASSUME TypeOK, TypeOK', RecordsInv, BookInv, Sync
    PROVE  BookInv'
<1>1. UNCHANGED <<cache, flight, service, drifted>>
    BY DEF Sync, manager, cluster
<1>2. Held' = Held /\ Ordered' = Ordered /\ Used' = Used
    BY <1>1 DEF Held, Ordered, Used, Calling
<1>3. /\ Held \in Nat /\ Ordered \in Nat /\ Used \in Nat /\ asked \in Nat /\ due \in Nat
      /\ pool.noReady \in Int /\ pool.available \in Int /\ Total \in Nat
    BY SumsTyped, Constants DEF TypeOK
<1>4. asked' = 0 /\ due' = due + asked /\ pool'.noReady = pool.noReady /\ pool'.known
      /\ pool'.available = FreeOfNodes
    BY DEF Sync, Reported, TypeOK
<1>5. CountInv'
    BY <1>1, <1>2, <1>3, <1>4 DEF BookInv, CountInv, Promised
<1>6. RoomInv'
    <2>1. CASE drifted
        BY <1>1, <2>1 DEF RoomInv
    <2>2. CASE ~drifted
        <3>1. Used + Ordered <= Total /\ Ordered <= Held
            BY <2>2, OrderedIsHeld DEF BookInv, RoomInv
        <3>2. FreeOfNodes = Total - Used
            BY <1>3, <3>1 DEF FreeOfNodes
        <3>3. QED BY <1>2, <1>3, <1>4, <3>1, <3>2 DEF RoomInv
    <2>3. QED BY <2>1, <2>2
<1>7. QED BY <1>5, <1>6 DEF BookInv

LEMMA SyncWithoutBlockBooks ==
    ASSUME TypeOK, TypeOK', BookInv, SyncWithoutBlock
    PROVE  BookInv'
<1>1. UNCHANGED <<cache, flight, service>> /\ (drifted' <=> (drifted \/ pool.noReady # 0))
    BY DEF SyncWithoutBlock, manager, cluster
<1>2. Held' = Held /\ Ordered' = Ordered /\ Used' = Used
    BY <1>1 DEF Held, Ordered, Used, Calling
<1>3. /\ Held \in Nat /\ Ordered \in Nat /\ Used \in Nat /\ asked \in Nat /\ due \in Nat
      /\ pool.noReady \in Int /\ pool.available \in Int /\ Total \in Nat
    BY SumsTyped, Constants DEF TypeOK
<1>4. asked' = 0 /\ due' = due + asked /\ pool'.noReady = 0 /\ ~pool'.known
      /\ pool'.available = 0
    BY DEF SyncWithoutBlock, Reported
<1>5. CountInv'
    BY <1>1, <1>2, <1>3, <1>4 DEF BookInv, CountInv, Promised
<1>6. RoomInv'
    BY <1>1, <1>2, <1>3, <1>4 DEF BookInv, RoomInv
<1>7. QED BY <1>5, <1>6 DEF BookInv

LEMMA ReleaseNoReadyInstanceBooks ==
    ASSUME TypeOK, TypeOK', BookInv, ReleaseNoReadyInstance
    PROVE  BookInv'
<1>1. PICK n \in 1..due : due' = due - n
        /\ pool' = IF pool.known THEN [pool EXCEPT !.noReady = @ - n] ELSE pool
    BY DEF ReleaseNoReadyInstance
<1>2. UNCHANGED <<cache, flight, service, asked, drifted>>
    BY DEF ReleaseNoReadyInstance, manager, cluster
<1>3. Held' = Held /\ Ordered' = Ordered /\ Used' = Used
    BY <1>2 DEF Held, Ordered, Used, Calling
<1>4. /\ Held \in Nat /\ Ordered \in Nat /\ Used \in Nat /\ asked \in Nat /\ due \in Nat
      /\ pool.noReady \in Int /\ pool.available \in Int /\ Total \in Nat
    BY SumsTyped, Constants DEF TypeOK
<1>5. pool'.available = pool.available
    BY <1>1 DEF TypeOK
<1>6. CountInv'
    <2>1. CASE pool.known
        <3>1. pool'.known /\ pool'.noReady = pool.noReady - n
            BY <1>1, <2>1 DEF TypeOK
        <3>2. QED BY <1>1, <1>2, <1>3, <1>4, <3>1 DEF BookInv, CountInv, Promised
    <2>2. CASE ~pool.known
        <3>1. pool' = pool /\ pool.noReady = 0
            BY <1>1, <2>2 DEF BookInv, CountInv
        <3>2. drifted
            BY <1>1, <1>4, <3>1 DEF BookInv, CountInv, Promised
        <3>3. QED BY <1>1, <1>2, <1>3, <1>4, <3>1, <3>2 DEF CountInv, Promised
    <2>3. QED BY <2>1, <2>2
<1>7. RoomInv'
    BY <1>2, <1>3, <1>4, <1>5 DEF BookInv, RoomInv
<1>8. QED BY <1>6, <1>7 DEF BookInv

LEMMA CrashBooks ==
    ASSUME TypeOK, TypeOK', BookInv, Crash
    PROVE  BookInv'
<1>1. /\ pool'.known /\ pool'.available = 0 /\ pool'.noReady = RecoveredNoReady
      /\ asked' = 0 /\ due' = 0 /\ drifted' = drifted
    BY DEF Crash
<1>2. Held' = RecoveredNoReady /\ Ordered' = 0 /\ Used' <= Used + Ordered
    BY CrashHeld, CrashUsed
<1>3. /\ Ordered \in Nat /\ Used \in Nat /\ RecoveredNoReady \in Nat /\ Total \in Nat
    BY SumsTyped, Constants
<1>4. Used' \in Nat
    <2> DEFINE k == [q \in Resource |-> IF service'[q] = None THEN 0 ELSE service'[q].size]
    <2>1. \A q \in Resource : k[q] \in Nat
        BY DEF TypeOK, Deployment
    <2>2. Used' = SumFunctionOnSet(k, Resource)
        BY DEF Used, SumFunction
    <2> HIDE DEF k
    <2>3. QED BY <2>1, <2>2, SumNat, CrmAssumption
<1>5. CountInv'
    BY <1>1, <1>2, <1>3 DEF CountInv, Promised
<1>6. RoomInv'
    <2>1. CASE drifted
        BY <1>1, <2>1 DEF RoomInv
    <2>2. CASE ~drifted
        <3>1. Used + Ordered <= Total
            BY <2>2 DEF BookInv, RoomInv
        <3>2. PICK u \in Nat : u = Used' /\ u <= Used + Ordered
            BY <1>2, <1>4
        <3>3. PICK h \in Nat : h = Held'
            BY <1>2, <1>3
        <3>4. u <= Total
            BY <1>3, <3>1, <3>2
        <3>5. u + 0 <= Total /\ u + 0 <= Total - 0 + h + 0
            BY <1>3, <3>4
        <3>6. QED BY <1>1, <1>2, <3>2, <3>3, <3>5 DEF RoomInv
    <2>3. QED BY <2>1, <2>2
<1>7. QED BY <1>5, <1>6 DEF BookInv

LEMMA NextBooks ==
    ASSUME TypeOK, TypeOK', RecordsInv, BookInv, [Next]_vars
    PROVE  BookInv'
<1>1. ASSUME NEW r \in Resource, LaunchRefused(r) PROVE BookInv'
    BY <1>1, LaunchRefusedBooks
<1>2. ASSUME NEW r \in Resource, Launch(r) PROVE BookInv'
    BY <1>2, LaunchBooks
<1>3. ASSUME NEW r \in Resource, LaunchServer(r) PROVE BookInv'
    BY <1>3, LaunchServerBooks
<1>4. ASSUME NEW r \in Resource, LaunchServerFails(r) PROVE BookInv'
    BY <1>4, LaunchServerFailsBooks
<1>5. ASSUME NEW r \in Resource, SaveLaunched(r) PROVE BookInv'
    BY <1>5, SaveLaunchedBooks
<1>6. ASSUME NEW r \in Resource, SaveReleased(r) PROVE BookInv'
    BY <1>6, SaveReleasedBooks
<1>7. ASSUME NEW r \in Resource, NEW p \in Caller, FreshDeployingStatus(p, r) PROVE BookInv'
    BY <1>7, FreshDeployingStatusBooks
<1>8. ASSUME NEW r \in Resource,
             \/ InstanceStarts(r) \/ WatcherDeletes(r) \/ WatcherGivesUp(r)
             \/ TraceFindsNothing(r) \/ TaskEnds(r)
             \/ \E p \in Caller : \/ GetServerStatus(p, r) \/ ReleaseFails(p, r)
                                  \/ ReleaseServer(p, r)
      PROVE  BookInv'
    BY <1>8, ServiceBooks
<1>9. CASE Sync
    BY <1>9, SyncBooks
<1>10. CASE SyncWithoutBlock
    BY <1>10, SyncWithoutBlockBooks
<1>11. CASE ReleaseNoReadyInstance
    BY <1>11, ReleaseNoReadyInstanceBooks
<1>12. CASE Crash
    BY <1>12, CrashBooks
<1>13. CASE UNCHANGED vars
    BY <1>13
        DEF vars, manager, counts, cluster, BookInv, CountInv, RoomInv, Promised, Held, Used,
            Ordered, Calling
<1>14. QED BY <1>1, <1>2, <1>3, <1>4, <1>5, <1>6, <1>7, <1>8, <1>9, <1>10, <1>11, <1>12, <1>13
        DEF Next

-----------------------------------------------------------------------------
(* Theorems. *)

LEMMA InitBooks ==
    ASSUME Init, TypeOK
    PROVE  BookInv
<1>1. Held = 0
    <2> DEFINE f == [q \in Resource |-> IF cache[q] = None THEN 0 ELSE cache[q].noReady]
    <2>1. \A q \in Resource : f[q] = 0
        BY DEF Init
    <2>2. Held = SumFunctionOnSet(f, Resource)
        BY DEF Held, SumFunction
    <2> HIDE DEF f
    <2>3. QED BY <2>1, <2>2, SumZeros, SumEmpty, CrmAssumption
<1>2. Used = 0
    <2> DEFINE f == [q \in Resource |-> IF service[q] = None THEN 0 ELSE service[q].size]
    <2>1. \A q \in Resource : f[q] = 0
        BY DEF Init
    <2>2. Used = SumFunctionOnSet(f, Resource)
        BY DEF Used, SumFunction
    <2> HIDE DEF f
    <2>3. QED BY <2>1, <2>2, SumZeros, SumEmpty, CrmAssumption
<1>3. Ordered = 0
    <2> DEFINE f == [q \in Resource |-> IF Calling(q) THEN flight[q].rec.request ELSE 0]
    <2>1. \A q \in Resource : f[q] = 0
        BY DEF Init, Calling
    <2>2. Ordered = SumFunctionOnSet(f, Resource)
        BY DEF Ordered, SumFunction
    <2> HIDE DEF f
    <2>3. QED BY <2>1, <2>2, SumZeros, SumEmpty, CrmAssumption
<1>4. /\ pool.known /\ pool.noReady = 0 /\ pool.available = 0 /\ asked = 0 /\ due = 0
      /\ Total \in Nat
    BY Constants DEF Init
<1>5. QED BY <1>1, <1>2, <1>3, <1>4 DEF BookInv, CountInv, RoomInv, Promised

LEMMA InitInv == Init => IInv
<1> SUFFICES ASSUME Init PROVE IInv
    OBVIOUS
<1>1. TypeOK
    BY InitTyped
<1>2. RecordsInv
    BY DEF Init, RecordsInv, RecordInv, FlightInv, ReleaseInv, LookInv, Caller
<1>3. TrackingInv
    BY DEF Init, TrackingInv, TrackInv, Calling, Unlaunched
<1>4. BookInv
    BY <1>1, InitBooks
<1>5. QED BY <1>1, <1>2, <1>3, <1>4 DEF IInv, RecordsInv, TrackingInv, BookInv

LEMMA NextInv == IInv /\ [Next]_vars => IInv'
<1> SUFFICES ASSUME IInv, [Next]_vars PROVE IInv'
    OBVIOUS
<1>1. TypeOK /\ RecordsInv /\ TrackingInv /\ BookInv
    BY DEF IInv, RecordsInv, TrackingInv, BookInv
<1>2. TypeOK'
    BY <1>1, NextTyped
<1>3. RecordsInv'
    BY <1>1, NextRecords
<1>4. TrackingInv'
    BY <1>1, NextTracked
<1>5. BookInv'
    BY <1>1, <1>2, NextBooks
<1>6. QED BY <1>2, <1>3, <1>4, <1>5 DEF IInv, RecordsInv, TrackingInv, BookInv

LEMMA InvariantHolds == Spec => []IInv
BY InitInv, NextInv, PTL DEF Spec

LEMMA InvImplies == IInv => TypeOK /\ CapacityIsKept /\ NoReadyIsExact
                             /\ NeverOvercommitted /\ ServiceIsTracked
<1> SUFFICES ASSUME IInv
             PROVE  TypeOK /\ CapacityIsKept /\ NoReadyIsExact
                    /\ NeverOvercommitted /\ ServiceIsTracked
    OBVIOUS
<1>1. TypeOK /\ CapacityIsKept
    BY DEF IInv, CountInv, CapacityIsKept
<1>2. NoReadyIsExact
    BY DEF IInv, CountInv, NoReadyIsExact
<1>3. NeverOvercommitted
    BY DEF IInv, RoomInv, NeverOvercommitted
<1>4. ServiceIsTracked
    BY DEF IInv, TrackInv, ServiceIsTracked
<1>5. QED BY <1>1, <1>2, <1>3, <1>4

\* Every variable has its type: the count of a block may be any integer, since
\* a block that vanished takes its count with it.
THEOREM TypeCorrect == Spec => []TypeOK
BY InvariantHolds, InvImplies, PTL

\* No instance is counted as not ready for ever: what a block holds back belongs
\* to a resource or is about to be given back, for any number of resources.
THEOREM CapacityIsNeverLost == Spec => []CapacityIsKept
BY InvariantHolds, InvImplies, PTL

\* The count of a block is exactly what was taken and is not ready, as long as
\* no release overtakes a launch and the block stays in the reports.
THEOREM CountIsExact == Spec => []NoReadyIsExact
BY InvariantHolds, InvImplies, PTL

\* What is deployed and what is about to be fits into the block.
THEOREM BlockIsNotGivenTwice == Spec => []NeverOvercommitted
BY InvariantHolds, InvImplies, PTL

\* A deployment that exists has a record, a launch or a watcher that ends it.
THEOREM ServiceIsNeverForgotten == Spec => []ServiceIsTracked
BY InvariantHolds, InvImplies, PTL
===============================================================================
