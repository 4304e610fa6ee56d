------------------------ MODULE BrokerAndOffer_proofs ------------------------
(***************************************************************************)
(* The theorems about two counts that are kept beside what they count: the *)
(* spares of a broker of the TBS server, and the slots a worker has booked *)
(* for the controllers it made an offer.                                   *)
(*                                                                         *)
(* PoolIsExact of Broker for every number of spares, wanted or bound, of   *)
(* failing calls and of crashes.  It is not inductive: a spare changes     *)
(* pools by what its status, its tracer and its row say, which goroutines  *)
(* and restarts change.  SpareInv says what they are in each pool.         *)
(*                                                                         *)
(* BookedIsExact and PromisesAreKept of WorkerOffer for every number of    *)
(* controllers, jobs, connections and slots.  A promise is an offer, then  *)
(* an answer, then what estimateSlot has taken and not booked, then a slot, *)
(* and at last a task that has come and still has its slot.  PromiseInv    *)
(* follows it: one offer at a time that may be answered (OfferedOnce),     *)
(* every promise backed by slots or by what is being booked for it         *)
(* (Covered), and room for what the estimate has left (Fits).  ConnInv     *)
(* says by which connections an answer may come.  The lists are rebuilt by *)
(* loops and added up, so the first part is about what stays of a list and *)
(* of its sum.                                                             *)
(***************************************************************************)
EXTENDS Broker, WorkerOffer, SumTheorems, SequenceTheorems

-----------------------------------------------------------------------------
(* The broker.                                                             *)

\* A task has the spare.
Sale == {"launched", "written"}

\* A spare is in one pool at most.  A free one runs, and nobody works on it; the
\* goroutine of its launch ends before another begins; a sale is in its row, so
\* that no restart offers it again.
SpareInv(r) ==
    /\ r \in free => /\ cache[r] # None /\ cache[r].status = "running" /\ flight[r] = None
                     /\ r \notin tracked \cup tracing \cup releasePool \cup initPool
    /\ r \in tracked => r \notin releasePool \cup initPool
    /\ r \in initPool => r \notin releasePool \cup tracing /\ flight[r] = None
    /\ flight[r] # None => /\ r \in tracked /\ r \notin tracing
                           /\ cache[r] # None /\ cache[r].status = "init"
    /\ r \in tracing => /\ cache[r] # None => cache[r].status # "running"
                        /\ cache[r] # None \/ row[r] # None \/ r \in tracked \cup releasePool
    /\ buyer[r] \in Sale =>
          /\ r \notin free \cup tracked \cup tracing \cup releasePool \cup initPool
          /\ row[r] # None
          /\ row[r].status = "released" \/ (row[r].sold /\ row[r].status = "running")
          /\ cache[r] = None \/ cache[r].sold

\* The two numeric parts of PoolIsExact; what checkBroker still launches counts.
Counted == currentNum = Cardinality(free) + Cardinality(tracked)
Wanted == crashes = 0 => currentNum <= ConstNum /\ currentNum + todo <= ConstNum

PoolInv == TypeOK /\ Counted /\ Wanted /\ \A r \in Spare : SpareInv(r)

\* The records that launch, sale and release write.
LEMMA RecordsAreTyped ==
    /\ Fresh \in Rec /\ [Fresh EXCEPT !.status = "deploying"] \in Rec
    /\ \A sold \in BOOLEAN : [sold |-> sold, status |-> "released"] \in Rec
    /\ \A sold \in BOOLEAN : [sold |-> sold, status |-> "deleting"] \in Rec
    /\ \A rec \in Rec : /\ rec # None
                        /\ rec.sold \in BOOLEAN
                        /\ [rec EXCEPT !.sold = TRUE] \in Rec
                        /\ [rec EXCEPT !.status = "running"] \in Rec
BY BrokerAssumption DEF Rec, Fresh

\* What Release does to the resource and its row, and that it touches no other.
LEMMA ReleaseEffect ==
    ASSUME TypeOK, NEW r \in Spare, NEW ok \in BOOLEAN, Release(r, ok)
    PROVE  /\ cache' \in [Spare -> Rec \cup {None}] /\ row' \in [Spare -> Rec \cup {None}]
           /\ service' \in [Spare -> {"none", "starting", "ready"}]
           /\ faults' \in 0..MaxFault
           /\ \A s \in Spare \ {r} : cache'[s] = cache[s] /\ row'[s] = row[s]
           /\ cache'[r] \in {None, cache[r]}
           /\ \/ row'[r] = row[r]
              \/ row'[r] # None /\ row'[r].status = "released"
           /\ ok => row'[r] # None
<1> DEFINE rec == [sold |-> cache[r] # None /\ cache[r].sold, status |-> "released"]
           written == [row EXCEPT ![r] = rec]
<1>1. rec \in Rec /\ rec # None /\ rec.status = "released"
  <2>1. (cache[r] # None /\ cache[r].sold) \in BOOLEAN
    BY RecordsAreTyped DEF TypeOK
  <2> QED  BY <2>1, RecordsAreTyped
<1> HIDE DEF rec
<1>2. written \in [Spare -> Rec \cup {None}] /\ written[r] = rec
      /\ \A s \in Spare \ {r} : written[s] = row[s]
  BY <1>1 DEF TypeOK
<1>3. CASE SaveReleased(r, ok)
  <2>1. /\ service' = [service EXCEPT ![r] = "none"] /\ cache' = [cache EXCEPT ![r] = None]
        /\ \/ ok /\ row' = written /\ UNCHANGED faults
           \/ ~ok /\ Fail /\ row' \in {row, written}
    BY <1>3 DEF SaveReleased, rec
  <2> HIDE DEF written
  <2>2. faults' \in 0..MaxFault
    BY <2>1, BrokerAssumption DEF TypeOK, Fail
  <2> QED  BY <2>1, <2>2, <1>1, <1>2 DEF TypeOK
<1>4. CASE ~ok /\ ReleaseServerFails(r) /\ UNCHANGED <<cache, row>>
  <2>1. faults' \in 0..MaxFault
    BY <1>4, BrokerAssumption DEF TypeOK, Fail, ReleaseServerFails
  <2> QED  BY <1>4, <2>1 DEF TypeOK, ReleaseServerFails
<1> QED  BY <1>3, <1>4 DEF Release

\* The same of ReleaseOrAdd; what is not released is in the release pool.
LEMMA ReleaseOrAddEffect ==
    ASSUME TypeOK, NEW r \in Spare, ReleaseOrAdd(r)
    PROVE  /\ cache' \in [Spare -> Rec \cup {None}] /\ row' \in [Spare -> Rec \cup {None}]
           /\ service' \in [Spare -> {"none", "starting", "ready"}]
           /\ faults' \in 0..MaxFault
           /\ releasePool' \in {releasePool, releasePool \cup {r}}
           /\ \A s \in Spare \ {r} : cache'[s] = cache[s] /\ row'[s] = row[s]
           /\ cache'[r] = None \/ (cache'[r] # None /\ cache'[r].status = "deleting")
           /\ row'[r] # None \/ r \in releasePool'
<1> DEFINE rec == [sold |-> cache[r] # None /\ cache[r].sold, status |-> "deleting"]
<1>1. rec \in Rec /\ rec # None /\ rec.status = "deleting"
  <2>1. (cache[r] # None /\ cache[r].sold) \in BOOLEAN
    BY RecordsAreTyped DEF TypeOK
  <2> QED  BY <2>1, RecordsAreTyped
<1> HIDE DEF rec
<1>2. ASSUME NEW ok \in BOOLEAN, SaveReleased(r, ok),
             releasePool' \in {releasePool, releasePool \cup {r}}, ok \/ r \in releasePool'
      PROVE  /\ cache' \in [Spare -> Rec \cup {None}] /\ row' \in [Spare -> Rec \cup {None}]
             /\ service' \in [Spare -> {"none", "starting", "ready"}]
             /\ faults' \in 0..MaxFault
             /\ \A s \in Spare \ {r} : cache'[s] = cache[s] /\ row'[s] = row[s]
             /\ cache'[r] = None
             /\ row'[r] # None \/ r \in releasePool'
  <2>1. Release(r, ok)
    BY <1>2 DEF Release
  <2>2. cache'[r] = None
    BY <1>2 DEF SaveReleased, TypeOK
  <2> QED  BY <1>2, <2>1, <2>2, ReleaseEffect
<1>3. CASE SaveReleased(r, TRUE) /\ UNCHANGED releasePool
  BY <1>2, <1>3
<1>4. CASE releasePool' = releasePool \cup {r} /\ SaveReleased(r, FALSE)
  BY <1>2, <1>4
<1>5. CASE /\ releasePool' = releasePool \cup {r} /\ ReleaseServerFails(r)
           /\ cache' = [cache EXCEPT ![r] = rec]
           /\ row' \in {row, [row EXCEPT ![r] = rec]}
  <2>1. faults' \in 0..MaxFault /\ service' \in [Spare -> {"none", "starting", "ready"}]
    BY <1>5, BrokerAssumption DEF TypeOK, Fail, ReleaseServerFails
  <2> QED  BY <1>1, <1>5, <2>1 DEF TypeOK
<1> QED  BY <1>3, <1>4, <1>5 DEF ReleaseOrAdd, rec

-----------------------------------------------------------------------------
\* A step keeps the type invariant.
LEMMA TypeStep ==
    ASSUME PoolInv, [Next]_vars
    PROVE  TypeOK'
<1> USE BrokerAssumption DEF PoolInv, TypeOK
<1>0. TypeOK
  OBVIOUS
<1>1. CASE CheckBroker \/ LaunchCooling \/ CoolingEnds \/ ReleaseNone
  <2>1. todo' \in Int
    BY <1>1 DEF CheckBroker, LaunchCooling, CoolingEnds, ReleaseNone
  <2>2. cooling' \in BOOLEAN
    BY <1>1 DEF CheckBroker, LaunchCooling, CoolingEnds, ReleaseNone
  <2>3. UNCHANGED <<manager, launching, pool, releasePool, initPool, buyer, bounds, cut>>
    BY <1>1 DEF CheckBroker, LaunchCooling, CoolingEnds, ReleaseNone
  <2> QED  BY <2>1, <2>2, <2>3 DEF manager, launching, pool, bounds
<1>2. CASE Crash
  <2>1. IsFiniteSet(Unsold)
    BY FS_Subset DEF Unsold
  <2>2. Cardinality(Unsold) \in Nat
    BY <2>1, FS_CardinalityType
  <2>3. service' \in [Spare -> {"none", "starting", "ready"}]
    BY <1>2 DEF Crash
  <2>4. cache' \in [Spare -> Rec \cup {None}]
    BY <1>2 DEF Crash, Listed
  <2>5. crashes' \in 0..MaxCrash
    BY <1>2 DEF Crash
  <2>6. buyer' \in [Spare -> {"none", "launched", "written", "ended"}]
    BY <1>2 DEF Crash
  <2>7. /\ tracing' \subseteq Spare /\ free' \subseteq Spare /\ tracked' \subseteq Spare
        /\ releasePool' \subseteq Spare /\ initPool' \subseteq Spare
    BY <1>2 DEF Crash, Unsold, Deploying, Deleting
  <2>8. cut' \subseteq Spare
    BY <1>2 DEF Crash
  <2>9. flight' \in [Spare -> {"call", "save", None}]
    BY <1>2 DEF Crash
  <2>10. currentNum' \in Nat
    BY <1>2, <2>2 DEF Crash
  <2>11. cooling' \in BOOLEAN
    <3>1. cooling' = FALSE
      BY <1>2 DEF Crash
    <3> QED  BY <3>1, Zenon
  <2>12. todo' = 0 /\ row' = row /\ faults' = faults
    BY <1>2 DEF Crash
  <2> QED  BY <2>3, <2>4, <2>5, <2>6, <2>7, <2>8, <2>9, <2>10, <2>11, <2>12
<1>3. ASSUME NEW r \in Spare, Launch(r) \/ LaunchRefused(r)
      PROVE  TypeOK'
  BY <1>3, RecordsAreTyped DEF Launch, LaunchRefused, launching, pool, bounds
<1>4. ASSUME NEW r \in Spare, LaunchFails(r)
      PROVE  TypeOK'
  BY <1>0, <1>4, ReleaseOrAddEffect DEF LaunchFails, launching, pool
<1>5. ASSUME NEW r \in Spare, ReleaseFree(r) \/ WatchFree(r)
      PROVE  TypeOK'
  <2>1. Cardinality(free) > 0
    <3>1. IsFiniteSet(free) /\ r \in free
      BY <1>5, FS_Subset DEF ReleaseFree, WatchFree, Dismiss
    <3> QED  BY <3>1, FS_EmptySet, FS_CardinalityType
  <2>2. currentNum > 0
    <3>1. IsFiniteSet(tracked)
      BY FS_Subset
    <3> QED  BY <2>1, <3>1, FS_CardinalityType, FS_Subset DEF Counted
  <2> QED  BY <1>0, <1>5, <2>2, ReleaseOrAddEffect DEF ReleaseFree, WatchFree, Dismiss, launching
<1>6. ASSUME NEW r \in Spare, ReleaseLoop(r) \/ TraceTimeout(r) \/ BuyerReleases(r)
      PROVE  TypeOK'
  <2>1. CASE ReleaseLoop(r)
    <3>1. \E ok \in BOOLEAN : Release(r, ok)
      BY <2>1 DEF ReleaseLoop
    <3>2. releasePool' \subseteq Spare
      BY <2>1 DEF ReleaseLoop
    <3>3. UNCHANGED <<launching, pool, checker, buyer, crashes, cut>>
      BY <2>1 DEF ReleaseLoop
    <3> QED  BY <1>0, <3>1, <3>2, <3>3, ReleaseEffect DEF launching, pool, checker
  <2>2. CASE TraceTimeout(r)
    BY <1>0, <2>2, ReleaseEffect DEF TraceTimeout, pool, checker
  <2>3. CASE BuyerReleases(r)
    BY <1>0, <2>3, ReleaseEffect DEF BuyerReleases, manager, launching, pool, checker
  <2> QED  BY <1>6, <2>1, <2>2, <2>3
<1>7. ASSUME NEW r \in Spare, LaunchServer(r) \/ LaunchServerFails(r) \/ ServiceStarts(r)
                              \/ BuyerSaved(r)
      PROVE  TypeOK'
  BY <1>7 DEF LaunchServer, LaunchServerFails, ServiceStarts, BuyerSaved, Fail, manager,
              launching, pool, checker, bounds
<1>8. ASSUME NEW r \in Spare, SaveLaunched(r) \/ TraceFinished(r)
      PROVE  TypeOK'
  <2>1. ASSUME NEW rec \in Rec, Save(r, rec)
        PROVE  /\ cache' \in [Spare -> Rec \cup {None}] /\ row' \in [Spare -> Rec \cup {None}]
               /\ faults' \in 0..MaxFault
    BY <2>1 DEF Save, Fail
  <2>2. CASE SaveLaunched(r)
    BY <2>1, <2>2, RecordsAreTyped DEF SaveLaunched, pool, checker
  <2>3. CASE TraceFinished(r)
    <3>1. cache[r] # None =>
            [cache[r] EXCEPT !.status = IF @ = "deploying" THEN "running" ELSE @] \in Rec
      BY DEF Rec
    <3> QED  BY <2>1, <2>3, <3>1 DEF TraceFinished, pool, checker
  <2> QED  BY <1>8, <2>2, <2>3
<1>9. ASSUME NEW r \in Spare, TrackRunning(r)
      PROVE  TypeOK'
  BY <1>9 DEF TrackRunning, manager, launching, checker, bounds
<1>10. ASSUME NEW r \in Spare, TrackTooFew(r) \/ TrackTimeout(r)
       PROVE  TypeOK'
  <2>1. Cardinality(tracked) > 0
    <3>1. IsFiniteSet(tracked) /\ r \in tracked
      BY <1>10, FS_Subset DEF TrackTooFew, TrackTimeout
    <3> QED  BY <3>1, FS_EmptySet, FS_CardinalityType
  <2>2. currentNum > 0
    <3>1. IsFiniteSet(free)
      BY FS_Subset
    <3> QED  BY <2>1, <3>1, FS_CardinalityType, FS_Subset DEF Counted
  <2> QED  BY <1>0, <1>10, <2>2, ReleaseOrAddEffect
           DEF TrackTooFew, TrackTimeout, Untrack, launching, checker
<1>11. ASSUME NEW r \in Spare, Consume(r) \/ ConsumeFails(r)
       PROVE  TypeOK'
  <2>1. Sold(r) \in Rec
    BY <1>11, RecordsAreTyped DEF Consume, ConsumeFails, Sold, SpareInv
  <2>2. currentNum - 1 \in Nat
    <3>1. IsFiniteSet(free) /\ r \in free /\ IsFiniteSet(tracked)
      BY <1>11, FS_Subset DEF Consume, ConsumeFails
    <3>2. Cardinality(free) # 0
      BY <3>1, FS_EmptySet
    <3> QED  BY <3>1, <3>2, FS_CardinalityType DEF Counted
  <2> QED  BY <1>11, <2>1, <2>2 DEF Consume, ConsumeFails, Fail, launching, pool, checker, bounds
<1>12. CASE UNCHANGED vars
  BY <1>12 DEF vars, manager, launching, pool, checker, bounds
<1> QED  BY <1>1, <1>2, <1>3, <1>4, <1>5, <1>6, <1>7, <1>8, <1>9, <1>10, <1>11, <1>12 DEF Next

\* The count follows the two pools: what leaves one of them for good is
\* subtracted, and no spare is in both.
LEMMA CountedStep ==
    ASSUME PoolInv, [Next]_vars
    PROVE  Counted'
<1> USE BrokerAssumption DEF PoolInv
<1>1. /\ IsFiniteSet(free) /\ Cardinality(free) \in Nat
      /\ IsFiniteSet(tracked) /\ Cardinality(tracked) \in Nat
  BY FS_Subset, FS_CardinalityType DEF TypeOK
<1>2. currentNum = Cardinality(free) + Cardinality(tracked)
  BY DEF Counted
<1>3. CASE UNCHANGED <<free, tracked, currentNum>>
  BY <1>2, <1>3 DEF Counted
<1>4. ASSUME NEW r \in Spare, Launch(r)
      PROVE  Counted'
  <2>1. r \notin tracked
    BY <1>4 DEF Launch, Candidate, Unused, SpareInv
  <2>2. Cardinality(tracked \cup {r}) = Cardinality(tracked) + 1
    BY <1>1, <2>1, FS_AddElement
  <2>3. free' = free /\ tracked' = tracked \cup {r} /\ currentNum' = currentNum + 1
    BY <1>4 DEF Launch
  <2> QED  BY <1>1, <1>2, <2>2, <2>3 DEF Counted
<1>5. ASSUME NEW r \in Spare, r \in free, free' = free \ {r}, tracked' = tracked,
             currentNum' = currentNum - 1
      PROVE  Counted'
  <2>1. Cardinality(free \ {r}) = Cardinality(free) - 1
    BY <1>1, <1>5, FS_RemoveElement
  <2> QED  BY <1>1, <1>2, <1>5, <2>1 DEF Counted
<1>6. ASSUME NEW r \in Spare, r \in tracked, tracked' = tracked \ {r}, free' = free,
             currentNum' = currentNum - 1
      PROVE  Counted'
  <2>1. Cardinality(tracked \ {r}) = Cardinality(tracked) - 1
    BY <1>1, <1>6, FS_RemoveElement
  <2> QED  BY <1>1, <1>2, <1>6, <2>1 DEF Counted
<1>7. ASSUME NEW r \in Spare, TrackRunning(r)
      PROVE  Counted'
  <2>1. r \in tracked /\ r \notin free
    BY <1>7 DEF TrackRunning, SpareInv
  <2>2. Cardinality(tracked \ {r}) = Cardinality(tracked) - 1
    BY <1>1, <2>1, FS_RemoveElement
  <2>3. Cardinality(free \cup {r}) = Cardinality(free) + 1
    BY <1>1, <2>1, FS_AddElement
  <2>4. tracked' = tracked \ {r} /\ free' = free \cup {r} /\ currentNum' = currentNum
    BY <1>7 DEF TrackRunning
  <2> QED  BY <1>1, <1>2, <2>2, <2>3, <2>4 DEF Counted
<1>8. CASE Crash
  <2>1. /\ IsFiniteSet(Unsold) /\ IsFiniteSet(Unsold \cap Deploying)
        /\ IsFiniteSet(Unsold \ Deploying)
    BY FS_Subset DEF Unsold
  <2>2. (Unsold \cap Deploying) \cup (Unsold \ Deploying) = Unsold
        /\ (Unsold \cap Deploying) \cap (Unsold \ Deploying) = {}
    OBVIOUS
  <2>3. Cardinality(Unsold) = Cardinality(Unsold \cap Deploying)
                              + Cardinality(Unsold \ Deploying)
    <3>1. /\ Cardinality(Unsold \cap Deploying) \in Nat
          /\ Cardinality(Unsold \ Deploying) \in Nat
      BY <2>1, FS_CardinalityType
    <3>2. Cardinality((Unsold \cap Deploying) \cup (Unsold \ Deploying)) =
            Cardinality(Unsold \cap Deploying) + Cardinality(Unsold \ Deploying)
            - Cardinality((Unsold \cap Deploying) \cap (Unsold \ Deploying))
      BY <2>1, FS_Union
    <3>3. Cardinality((Unsold \cap Deploying) \cap (Unsold \ Deploying)) = 0
      BY <2>2, FS_EmptySet
    <3>4. Cardinality((Unsold \cap Deploying) \cup (Unsold \ Deploying)) = Cardinality(Unsold)
      BY <2>2
    <3> QED  BY <3>1, <3>2, <3>3, <3>4
  <2>4. /\ tracked' = Unsold \cap Deploying /\ free' = Unsold \ Deploying
        /\ currentNum' = Cardinality(Unsold)
    BY <1>8 DEF Crash
  <2>5. Cardinality(Unsold \cap Deploying) \in Nat /\ Cardinality(Unsold \ Deploying) \in Nat
    BY <2>1, FS_CardinalityType
  <2> QED  BY <2>3, <2>4, <2>5 DEF Counted
<1>9. ASSUME NEW r \in Spare, ReleaseFree(r) \/ WatchFree(r) \/ Consume(r)
      PROVE  Counted'
  BY <1>5, <1>9 DEF ReleaseFree, WatchFree, Dismiss, Consume
<1>10. ASSUME NEW r \in Spare, TrackTooFew(r) \/ TrackTimeout(r)
       PROVE  Counted'
  BY <1>6, <1>10 DEF TrackTooFew, TrackTimeout, Untrack
<1>11. CASE CheckBroker \/ LaunchCooling \/ CoolingEnds \/ ReleaseNone
  BY <1>3, <1>11 DEF CheckBroker, LaunchCooling, CoolingEnds, ReleaseNone, pool
<1>12. ASSUME NEW r \in Spare,
              \/ LaunchRefused(r) \/ LaunchFails(r) \/ ReleaseLoop(r) \/ LaunchServer(r)
              \/ LaunchServerFails(r) \/ SaveLaunched(r) \/ ServiceStarts(r)
              \/ TraceFinished(r) \/ TraceTimeout(r) \/ ConsumeFails(r) \/ BuyerSaved(r)
              \/ BuyerReleases(r)
       PROVE  Counted'
  BY <1>3, <1>12
     DEF LaunchRefused, LaunchFails, ReleaseLoop, LaunchServer, LaunchServerFails, SaveLaunched,
         ServiceStarts, TraceFinished, TraceTimeout, ConsumeFails, BuyerSaved, BuyerReleases, pool
<1>13. CASE UNCHANGED vars
  BY <1>3, <1>13 DEF vars, pool
<1> QED  BY <1>4, <1>7, <1>8, <1>9, <1>10, <1>11, <1>12, <1>13 DEF Next

\* As long as nothing was recovered, the count and what checkBroker still
\* launches stay within what is wanted.
LEMMA WantedStep ==
    ASSUME PoolInv, [Next]_vars
    PROVE  Wanted'
<1> USE BrokerAssumption DEF PoolInv, Wanted, TypeOK
<1>1. CASE UNCHANGED <<currentNum, todo, crashes>>
  BY <1>1
<1>2. CASE Crash
  BY <1>2 DEF Crash
<1>3. CASE CheckBroker \/ LaunchCooling \/ CoolingEnds \/ ReleaseNone
  BY <1>3 DEF CheckBroker, LaunchCooling, CoolingEnds, ReleaseNone, pool, bounds
<1>4. ASSUME NEW r \in Spare, Launch(r)
      PROVE  Wanted'
  BY <1>4 DEF Launch, bounds
<1>5. ASSUME NEW r \in Spare, LaunchRefused(r) \/ LaunchFails(r)
      PROVE  Wanted'
  BY <1>5 DEF LaunchRefused, LaunchFails, pool, bounds
<1>6. ASSUME NEW r \in Spare, currentNum' = currentNum - 1, UNCHANGED crashes,
             todo' = todo \/ (todo < 0 /\ todo' \in {todo + 1, 0})
      PROVE  Wanted'
  BY <1>6
<1>7. ASSUME NEW r \in Spare, ReleaseFree(r) \/ WatchFree(r) \/ Consume(r)
      PROVE  Wanted'
  BY <1>6, <1>7 DEF ReleaseFree, WatchFree, Dismiss, Consume, checker, bounds
<1>8. ASSUME NEW r \in Spare, TrackTooFew(r) \/ TrackTimeout(r)
      PROVE  Wanted'
  BY <1>6, <1>8 DEF TrackTooFew, TrackTimeout, Untrack, checker
<1>9. ASSUME NEW r \in Spare,
             \/ TrackRunning(r) \/ ReleaseLoop(r) \/ LaunchServer(r)
             \/ LaunchServerFails(r) \/ SaveLaunched(r) \/ ServiceStarts(r)
             \/ TraceFinished(r) \/ TraceTimeout(r) \/ ConsumeFails(r) \/ BuyerSaved(r)
             \/ BuyerReleases(r)
      PROVE  Wanted'
  <2> HIDE DEF PoolInv, Wanted, TypeOK
  <2> QED  BY <1>1, <1>9
           DEF TrackRunning, ReleaseLoop, LaunchServer, LaunchServerFails, SaveLaunched,
               ServiceStarts, TraceFinished, TraceTimeout, ConsumeFails, BuyerSaved,
               BuyerReleases, pool, checker, bounds
<1>10. CASE UNCHANGED vars
  BY <1>1, <1>10 DEF vars, pool, checker, bounds
<1> QED  BY <1>2, <1>3, <1>4, <1>5, <1>7, <1>8, <1>9, <1>10 DEF Next

\* Each spare stays in at most one pool, in a state that fits the pool.
LEMMA SpareStep ==
    ASSUME PoolInv, [Next]_vars, NEW s \in Spare
    PROVE  SpareInv(s)'
<1> USE BrokerAssumption
<1>0. TypeOK /\ \A r \in Spare : SpareInv(r)
  BY DEF PoolInv
<1>1. CASE UNCHANGED <<cache, row, flight, tracing, free, tracked, initPool, releasePool, buyer>>
  BY <1>0, <1>1 DEF SpareInv
<1>2. CASE CheckBroker \/ LaunchCooling \/ CoolingEnds \/ ReleaseNone
  BY <1>1, <1>2 DEF CheckBroker, LaunchCooling, CoolingEnds, ReleaseNone, manager, launching, pool
<1>3. CASE Crash
  <2>1. /\ row' = row /\ flight'[s] = None /\ initPool' = {}
        /\ cache'[s] = IF Listed(s) THEN row[s] ELSE None
        /\ buyer'[s] = IF buyer[s] = "launched" THEN "none" ELSE buyer[s]
    BY <1>3 DEF Crash
  <2>2. /\ s \in tracing' <=> Listed(s) /\ row[s].status = "deploying"
        /\ s \in tracked' <=> Listed(s) /\ ~row[s].sold /\ row[s].status = "deploying"
        /\ s \in free' <=> Listed(s) /\ ~row[s].sold /\ row[s].status # "deploying"
        /\ s \in releasePool' <=> row[s] # None /\ row[s].status = "deleting"
    BY <1>3 DEF Crash, Unsold, Deploying, Deleting
  <2> QED  BY <1>0, <2>1, <2>2 DEF SpareInv, Listed, Sale, TypeOK
<1>4. ASSUME NEW r \in Spare, Launch(r) \/ LaunchRefused(r)
      PROVE  SpareInv(s)'
  <2>1. SpareInv(r) /\ SpareInv(s)
    BY <1>0
  <2>2. /\ r \notin free \cup tracked \cup tracing \cup releasePool
        /\ flight[r] = None /\ buyer[r] \notin Sale
    BY <1>4, <2>1 DEF Launch, LaunchRefused, Candidate, Unused, SpareInv
  <2>3. /\ UNCHANGED <<row, tracing, free, releasePool, buyer>>
        /\ cache' = [cache EXCEPT ![r] = Fresh]
    BY <1>4 DEF Launch, LaunchRefused, launching, pool
  <2>4. Fresh # None /\ Fresh.status = "init"
    BY RecordsAreTyped DEF Fresh
  <2>5. CASE Launch(r)
    <3>1. /\ flight' = [flight EXCEPT ![r] = "call"]
          /\ tracked' = tracked \cup {r} /\ initPool' = initPool \ {r}
      BY <2>5 DEF Launch
    <3> QED  BY <1>0, <2>1, <2>2, <2>3, <2>4, <3>1 DEF SpareInv, TypeOK
  <2>6. CASE LaunchRefused(r)
    <3>1. UNCHANGED <<flight, tracked>> /\ initPool' = initPool \cup {r}
      BY <2>6 DEF LaunchRefused, launching, pool
    <3> QED  BY <1>0, <2>1, <2>2, <2>3, <2>4, <3>1 DEF SpareInv, TypeOK
  <2> QED  BY <1>4, <2>5, <2>6
<1>5. ASSUME NEW r \in Spare, LaunchFails(r)
      PROVE  SpareInv(s)'
  <2>1. /\ r \notin free \cup tracked \cup tracing \cup releasePool
        /\ flight[r] = None /\ buyer[r] \notin Sale
    BY <1>0, <1>5 DEF LaunchFails, Candidate, Unused, SpareInv
  <2>2. /\ UNCHANGED <<flight, tracing, free, tracked, buyer>>
        /\ initPool' = initPool \ {r} /\ ReleaseOrAdd(r)
    BY <1>5 DEF LaunchFails, launching, pool
  <2> QED  BY <1>0, <2>1, <2>2, ReleaseOrAddEffect DEF SpareInv
<1>6. ASSUME NEW r \in Spare, ReleaseFree(r) \/ WatchFree(r)
      PROVE  SpareInv(s)'
  <2>1. /\ UNCHANGED <<flight, tracing, tracked, initPool, buyer>>
        /\ r \in free /\ free' = free \ {r} /\ ReleaseOrAdd(r)
    BY <1>6 DEF ReleaseFree, WatchFree, Dismiss, launching
  <2> QED  BY <1>0, <2>1, ReleaseOrAddEffect DEF SpareInv
<1>7. ASSUME NEW r \in Spare, ReleaseLoop(r)
      PROVE  SpareInv(s)'
  <2>1. r \in releasePool /\ UNCHANGED <<flight, tracing, free, tracked, initPool, buyer>>
    BY <1>7 DEF ReleaseLoop, launching, pool, checker
  <2>2. CASE Release(r, TRUE) /\ releasePool' = releasePool \ {r}
    <3>1. /\ \A q \in Spare \ {r} : cache'[q] = cache[q] /\ row'[q] = row[q]
          /\ cache'[r] \in {None, cache[r]} /\ row'[r] # None
      BY <1>0, <2>2, ReleaseEffect
    <3>2. SpareInv(r) /\ SpareInv(s)
      BY <1>0
    <3> QED  BY <2>1, <2>2, <3>1, <3>2 DEF SpareInv
  <2>3. CASE Release(r, FALSE) /\ UNCHANGED releasePool
    <3>1. /\ \A q \in Spare \ {r} : cache'[q] = cache[q] /\ row'[q] = row[q]
          /\ cache'[r] \in {None, cache[r]}
      BY <1>0, <2>3, ReleaseEffect
    <3>2. SpareInv(r) /\ SpareInv(s)
      BY <1>0
    <3> QED  BY <2>1, <2>3, <3>1, <3>2 DEF SpareInv
  <2> QED  BY <1>7, <2>2, <2>3 DEF ReleaseLoop
<1>8. ASSUME NEW r \in Spare, TraceTimeout(r)
      PROVE  SpareInv(s)'
  <2>1. /\ r \in tracing /\ tracing' = tracing \ {r}
        /\ UNCHANGED <<flight, free, tracked, releasePool, initPool, buyer>>
        /\ \E ok \in BOOLEAN : Release(r, ok)
    BY <1>8 DEF TraceTimeout, pool, checker
  <2> QED  BY <1>0, <2>1, ReleaseEffect DEF SpareInv
<1>9. ASSUME NEW r \in Spare, BuyerReleases(r)
      PROVE  SpareInv(s)'
  <2>1. /\ buyer[r] \in Sale
        /\ UNCHANGED <<flight, tracing, free, tracked, releasePool, initPool>>
    BY <1>9 DEF BuyerReleases, Sale, launching, pool, checker
  <2>2. buyer' \in {buyer, [buyer EXCEPT ![r] = "ended"]}
    BY <1>9 DEF BuyerReleases
  <2>3. CASE UNCHANGED <<cache, row>>
    BY <1>0, <2>1, <2>2, <2>3 DEF SpareInv, Sale, TypeOK
  <2>4. ASSUME NEW ok \in BOOLEAN, Release(r, ok)
        PROVE  SpareInv(s)'
    BY <1>0, <2>1, <2>2, <2>4, ReleaseEffect DEF SpareInv, Sale, TypeOK
  <2> QED  BY <1>9, <2>3, <2>4 DEF BuyerReleases, manager
<1>10. ASSUME NEW r \in Spare, LaunchServer(r) \/ LaunchServerFails(r) \/ ServiceStarts(r)
       PROVE  SpareInv(s)'
  <2>1. /\ UNCHANGED <<cache, row, tracing, free, tracked, initPool, releasePool, buyer>>
        /\ flight' = flight \/ (flight[r] # None /\ \E f \in {"save", None} :
                                                      flight' = [flight EXCEPT ![r] = f])
    BY <1>10 DEF LaunchServer, LaunchServerFails, ServiceStarts, launching, pool, checker
  <2> QED  BY <1>0, <2>1 DEF SpareInv, TypeOK
<1>11. ASSUME NEW r \in Spare, SaveLaunched(r)
       PROVE  SpareInv(s)'
  <2>1. r \in tracked /\ r \notin free /\ buyer[r] \notin Sale
    BY <1>0, <1>11 DEF SaveLaunched, SpareInv
  <2>2. /\ UNCHANGED <<free, tracked, initPool, releasePool, buyer>>
        /\ tracing' = tracing \cup {r} /\ flight' = [flight EXCEPT ![r] = None]
        /\ cache' = [cache EXCEPT ![r] = [Fresh EXCEPT !.status = "deploying"]]
        /\ \A q \in Spare \ {r} : row'[q] = row[q]
    BY <1>0, <1>11 DEF SaveLaunched, Save, pool, checker, TypeOK
  <2>3. cache'[r].status = "deploying" /\ cache'[r] # None
    <3>1. [Fresh EXCEPT !.status = "deploying"].status = "deploying"
      BY DEF Fresh
    <3> QED  BY <1>0, <2>2, <3>1, RecordsAreTyped DEF TypeOK
  <2> QED  BY <1>0, <2>1, <2>2, <2>3 DEF SpareInv, TypeOK
<1>12. ASSUME NEW r \in Spare, TraceFinished(r)
       PROVE  SpareInv(s)'
  <2>1. /\ r \in tracing /\ tracing' = tracing \ {r}
        /\ UNCHANGED <<flight, free, tracked, initPool, releasePool, buyer>>
    BY <1>12 DEF TraceFinished, pool, checker
  <2>2. /\ cache'[r] = None <=> cache[r] = None
        /\ \A q \in Spare \ {r} : cache'[q] = cache[q] /\ row'[q] = row[q]
    BY <1>0, <1>12 DEF TraceFinished, Save, TypeOK, Rec
  <2> QED  BY <1>0, <2>1, <2>2 DEF SpareInv
<1>13. ASSUME NEW r \in Spare, TrackRunning(r)
       PROVE  SpareInv(s)'
  BY <1>0, <1>13 DEF TrackRunning, SpareInv, manager, launching, checker
<1>14. ASSUME NEW r \in Spare, TrackTooFew(r) \/ TrackTimeout(r)
       PROVE  SpareInv(s)'
  <2>1. /\ r \in tracked /\ tracked' = tracked \ {r} /\ ReleaseOrAdd(r)
        /\ UNCHANGED <<flight, tracing, free, initPool, buyer>>
    BY <1>14 DEF TrackTooFew, TrackTimeout, Untrack, launching, checker
  <2>2. flight[r] = None
    BY <1>0, <1>14 DEF TrackTooFew, TrackTimeout, SpareInv
  <2> QED  BY <1>0, <2>1, <2>2, ReleaseOrAddEffect DEF SpareInv
<1>15. ASSUME NEW r \in Spare, Consume(r) \/ ConsumeFails(r)
       PROVE  SpareInv(s)'
  <2>1. /\ r \in free /\ cache[r] \in Rec /\ SpareInv(r)
    BY <1>0, <1>15 DEF Consume, ConsumeFails, SpareInv, TypeOK
  <2>2. Sold(r) # None /\ Sold(r).sold /\ Sold(r).status = cache[r].status
    BY <2>1, RecordsAreTyped DEF Sold, Rec
  <2>3. /\ UNCHANGED <<flight, tracing, tracked, initPool, releasePool>>
        /\ cache' = [cache EXCEPT ![r] = Sold(r)]
    BY <1>15 DEF Consume, ConsumeFails, launching, pool, checker
  <2>4. CASE Consume(r)
    <3>1. /\ row' = [row EXCEPT ![r] = Sold(r)] /\ free' = free \ {r}
          /\ buyer' = [buyer EXCEPT ![r] = "launched"]
      BY <2>4 DEF Consume
    <3> QED  BY <1>0, <2>1, <2>2, <2>3, <3>1 DEF SpareInv, Sale, TypeOK
  <2>5. CASE ConsumeFails(r)
    <3>1. /\ row' \in {row, [row EXCEPT ![r] = Sold(r)]} /\ free' = free /\ buyer' = buyer
      BY <2>5 DEF ConsumeFails, pool
    <3> QED  BY <1>0, <2>1, <2>2, <2>3, <3>1 DEF SpareInv, Sale, TypeOK
  <2> QED  BY <1>15, <2>4, <2>5
<1>16. ASSUME NEW r \in Spare, BuyerSaved(r)
       PROVE  SpareInv(s)'
  BY <1>0, <1>16 DEF BuyerSaved, SpareInv, Sale, TypeOK, manager, launching, pool, checker
<1>17. CASE UNCHANGED vars
  BY <1>1, <1>17 DEF vars, manager, launching, pool, checker
<1> QED  BY <1>2, <1>3, <1>4, <1>5, <1>6, <1>7, <1>8, <1>9, <1>10, <1>11, <1>12, <1>13, <1>14,
            <1>15, <1>16, <1>17 DEF Next

-----------------------------------------------------------------------------
\* The inductive invariant holds: pools, status, tracers, rows and buyers of every
\* spare agree, whatever fails and whenever the server is started again.
THEOREM PoolIsInvariant == Spec => []PoolInv
<1>1. Init => PoolInv
  <2> SUFFICES ASSUME Init
               PROVE  PoolInv
    OBVIOUS
  <2> USE BrokerAssumption DEF Init
  <2>1. TypeOK
    <3>1. cooling \in BOOLEAN
      <4>1. cooling = FALSE
        OBVIOUS
      <4> HIDE DEF Init
      <4> QED  BY <4>1, Zenon
    <3> QED  BY <3>1 DEF TypeOK
  <2>2. Counted
    BY FS_EmptySet DEF Counted
  <2>3. Wanted
    BY DEF Wanted
  <2>4. \A r \in Spare : SpareInv(r)
    BY DEF SpareInv, Sale
  <2> QED  BY <2>1, <2>2, <2>3, <2>4 DEF PoolInv
<1>2. PoolInv /\ [Next]_vars => PoolInv'
  BY TypeStep, CountedStep, WantedStep, SpareStep DEF PoolInv
<1> QED  BY <1>1, <1>2, PTL DEF Spec

\* The count of the broker is what its pools hold, it launches no more spares than
\* wanted, and it offers none that a task has: over every failing sale, launch and
\* release, dismissal and restart.
THEOREM PoolIsCounted == Spec => []PoolIsExact
<1>1. PoolInv => PoolIsExact
  <2> SUFFICES ASSUME PoolInv
               PROVE  PoolIsExact
    OBVIOUS
  <2>1. currentNum = Cardinality(free) + Cardinality(tracked)
    BY DEF PoolInv, Counted
  <2>2. crashes = 0 => currentNum <= ConstNum
    BY DEF PoolInv, Wanted
  <2>3. ASSUME NEW r \in free
        PROVE  buyer[r] \notin {"launched", "written"} /\ cache[r] # None
    BY DEF PoolInv, TypeOK, SpareInv, Sale
  <2> QED  BY <2>1, <2>2, <2>3 DEF PoolIsExact
<1> QED  BY <1>1, PoolIsInvariant, PTL

-----------------------------------------------------------------------------
(* What stays of a list.                                                   *)

\* g is the function Kept is defined by, up to n.
Keeps(g, s, I, n) ==
    g = [i \in 0..n |->
           IF i = 0 THEN <<>> ELSE IF i \in I THEN Append(g[i - 1], s[i]) ELSE g[i - 1]]

LEMMA KeepsExists ==
    ASSUME NEW s, NEW I, NEW n \in Nat
    PROVE  \E g : Keeps(g, s, I, n)
<1> DEFINE G == {m \in 0..n : \E g : Keeps(g, s, I, m)}
<1>1. 0 \in G
  <2>1. Keeps([i \in 0..0 |-> <<>>], s, I, 0)
    BY DEF Keeps
  <2> QED  BY <2>1
<1>2. ASSUME NEW m \in 0..n, m < n, m \in G PROVE m + 1 \in G
  <2>1. PICK g : Keeps(g, s, I, m)
    BY <1>2
  <2> DEFINE h == [i \in 0..(m + 1) |->
                     IF i <= m THEN g[i]
                     ELSE IF i \in I THEN Append(g[i - 1], s[i]) ELSE g[i - 1]]
  <2>2. ASSUME NEW i \in 0..(m + 1)
        PROVE  h[i] = IF i = 0 THEN <<>>
                      ELSE IF i \in I THEN Append(h[i - 1], s[i]) ELSE h[i - 1]
    <3>1. CASE i = 0
      BY <2>1, <3>1 DEF Keeps
    <3>2. CASE i # 0 /\ i <= m
      <4>1. i \in 0..m /\ i - 1 \in 0..m /\ i - 1 \in 0..(m + 1) /\ i - 1 <= m
        BY <3>2
      <4>2. g[i] = IF i = 0 THEN <<>>
                   ELSE IF i \in I THEN Append(g[i - 1], s[i]) ELSE g[i - 1]
        BY <4>1, <2>1 DEF Keeps
      <4> QED  BY <3>2, <4>1, <4>2
    <3>3. CASE i = m + 1
      <4>1. i - 1 \in 0..(m + 1) /\ i - 1 <= m /\ ~ i <= m /\ i # 0
        BY <3>3
      <4> QED  BY <4>1
    <3> QED  BY <3>1, <3>2, <3>3
  <2>3. h = [i \in 0..(m + 1) |-> h[i]]
    OBVIOUS
  <2> HIDE DEF h
  <2>4. Keeps(h, s, I, m + 1)
    BY <2>2, <2>3 DEF Keeps
  <2>5. m + 1 \in 0..n
    BY <1>2
  <2> QED  BY <2>4, <2>5
<1>3. 0..n \subseteq G
  <2> HIDE DEF G
  <2> QED  BY <1>1, <1>2, BoundedInduction
<1> QED  BY <1>3

\* t is s without what is not at I: h says where its elements were.
Selects(t, s, I, h) ==
    /\ h \in [DOMAIN t -> I]
    /\ \A j \in DOMAIN t : t[j] = s[h[j]]
    /\ \A i, j \in DOMAIN t : h[i] = h[j] => i = j
    /\ \A i \in I : \E j \in DOMAIN t : h[j] = i

LEMMA KeptSelects ==
    ASSUME NEW T, NEW s \in Seq(T), NEW I, I \subseteq DOMAIN s
    PROVE  Kept(s, I) \in Seq(T) /\ \E h : Selects(Kept(s, I), s, I, h)
<1> DEFINE n == Len(s)
           g == CHOOSE f : Keeps(f, s, I, n)
<1>1. n \in Nat /\ DOMAIN s = 1..n /\ \A i \in 1..n : s[i] \in T
  BY LenProperties, ElementOfSeq
<1>2. Keeps(g, s, I, n)
  BY <1>1, KeepsExists
<1>3. Kept(s, I) = g[n]
  BY DEF Kept, Keeps
<1> DEFINE G == {m \in 0..n : g[m] \in Seq(T) /\ \E h : Selects(g[m], s, I \cap (1..m), h)}
<1> HIDE DEF g, n
<1>4. 0 \in G
  <2>1. g[0] = <<>>
    BY <1>1, <1>2 DEF Keeps
  <2>2. Selects(<<>>, s, {}, <<>>)
    BY DEF Selects
  <2>3. I \cap (1..0) = {}
    OBVIOUS
  <2>4. <<>> \in Seq(T) /\ 0 \in 0..n
    BY <1>1
  <2> QED  BY <2>1, <2>2, <2>3, <2>4
<1>5. ASSUME NEW m \in 0..n, m < n, m \in G PROVE m + 1 \in G
  <2>1. g[m] \in Seq(T)
    BY <1>5
  <2>2. PICK h : Selects(g[m], s, I \cap (1..m), h)
    BY <1>5
  <2>3. m + 1 \in 0..n /\ m + 1 \in 1..n /\ m + 1 # 0 /\ (m + 1) - 1 = m /\ m \in Nat
    BY <1>1, <1>5
  <2>4. g[m + 1] = IF m + 1 \in I THEN Append(g[m], s[m + 1]) ELSE g[m]
    BY <1>2, <2>3 DEF Keeps
  <2>5. CASE m + 1 \notin I
    <3>1. I \cap (1..(m + 1)) = I \cap (1..m)
      BY <2>3, <2>5
    <3> QED  BY <2>1, <2>2, <2>3, <2>4, <2>5, <3>1
  <2>6. CASE m + 1 \in I
    <3> DEFINE t == g[m]
               u == Append(t, s[m + 1])
               l == Len(t)
               k == [j \in 1..(l + 1) |-> IF j <= l THEN h[j] ELSE m + 1]
    <3>1. l \in Nat /\ DOMAIN t = 1..l
      BY <2>1, LenProperties
    <3>2. /\ u \in Seq(T) /\ DOMAIN u = 1..(l + 1) /\ u[l + 1] = s[m + 1]
          /\ \A j \in 1..l : u[j] = t[j]
      BY <1>1, <2>1, <2>3, AppendProperties
    <3>3. g[m + 1] = u
      BY <2>4, <2>6
    <3>4. I \cap (1..(m + 1)) = (I \cap (1..m)) \cup {m + 1} /\ m + 1 \notin 1..m
      BY <2>3, <2>6
    <3> HIDE DEF t, u, l
    <3>5. /\ h \in [1..l -> I \cap (1..m)]
          /\ \A j \in 1..l : t[j] = s[h[j]]
          /\ \A i, j \in 1..l : h[i] = h[j] => i = j
          /\ \A i \in I \cap (1..m) : \E j \in 1..l : h[j] = i
      BY <2>2, <3>1 DEF Selects, t
    <3>6. k \in [1..(l + 1) -> (I \cap (1..m)) \cup {m + 1}]
      BY <3>1, <3>5
    <3>7. ASSUME NEW j \in 1..(l + 1) PROVE u[j] = s[k[j]]
      BY <3>1, <3>2, <3>5
    <3>8. ASSUME NEW i \in 1..(l + 1), NEW j \in 1..(l + 1), k[i] = k[j] PROVE i = j
      BY <3>1, <3>4, <3>5, <3>8
    <3>9. ASSUME NEW i \in (I \cap (1..m)) \cup {m + 1} PROVE \E j \in 1..(l + 1) : k[j] = i
      <4>1. CASE i = m + 1
        <5>1. l + 1 \in 1..(l + 1) /\ ~ l + 1 <= l
          BY <3>1
        <5> QED  BY <4>1, <5>1
      <4>2. CASE i \in I \cap (1..m)
        <5>1. PICK j \in 1..l : h[j] = i
          BY <3>5, <4>2
        <5>2. j \in 1..(l + 1) /\ j <= l
          BY <3>1
        <5> QED  BY <5>1, <5>2
      <4> QED  BY <4>1, <4>2
    <3> HIDE DEF k
    <3>10. Selects(u, s, I \cap (1..(m + 1)), k)
      BY <3>2, <3>4, <3>6, <3>7, <3>8, <3>9 DEF Selects
    <3> QED  BY <2>3, <3>2, <3>3, <3>10
  <2> QED  BY <2>5, <2>6
<1>6. 0..n \subseteq G
  <2> HIDE DEF G
  <2> QED  BY <1>1, <1>4, <1>5, BoundedInduction
<1>7. n \in G
  <2>1. n \in 0..n
    BY <1>1
  <2> QED  BY <2>1, <1>6
<1>8. I \cap (1..n) = I
  BY <1>1
<1> QED  BY <1>3, <1>7, <1>8

\* What is in the list after it was there before.
LEMMA KeptElements ==
    ASSUME NEW T, NEW s \in Seq(T), NEW I, I \subseteq DOMAIN s
    PROVE  /\ Kept(s, I) \in Seq(T)
           /\ \A j \in DOMAIN Kept(s, I) : \E i \in I : Kept(s, I)[j] = s[i]
<1>1. PICK h : Selects(Kept(s, I), s, I, h)
  BY KeptSelects
<1> QED  BY <1>1, KeptSelects DEF Selects

-----------------------------------------------------------------------------
(* What slots add up to.                                                   *)

Slot == [conn : Conn, num : Nat \ {0}]
Num(s) == [i \in DOMAIN s |-> s[i].num]
Of(s, c) == {i \in DOMAIN s : s[i].conn[1] = c}
All(s) == SumFunctionOnSet(Num(s), DOMAIN s)
SlotsOf(s, c) == SumFunctionOnSet(Num(s), Of(s, c))

LEMMA ConnIsPair ==
    ASSUME NEW k \in Conn
    PROVE  k[1] \in Client /\ k[2] \in 1..MaxConn(k[1]) /\ k[2] \in Nat /\ k = <<k[1], k[2]>>
<1>1. PICK c \in Client : k \in {c} \X (1..MaxConn(c))
  BY DEF Conn
<1> QED  BY <1>1, OfferAssumption

LEMMA PairIsConn ==
    ASSUME NEW c \in Client, NEW n \in 1..MaxConn(c)
    PROVE  <<c, n>> \in Conn
<1>1. <<c, n>> \in {c} \X (1..MaxConn(c))
  OBVIOUS
<1> QED  BY <1>1 DEF Conn

LEMMA SlotsAreNat ==
    ASSUME NEW s \in Seq(Slot)
    PROVE  /\ IsFiniteSet(DOMAIN s) /\ \A i \in DOMAIN s : Num(s)[i] \in Nat \ {0}
           /\ \A R \in SUBSET DOMAIN s : IsFiniteSet(R) /\ SumFunctionOnSet(Num(s), R) \in Nat
           /\ \A c : Of(s, c) \in SUBSET DOMAIN s /\ SlotsOf(s, c) \in Nat
           /\ All(s) \in Nat
<1>1. DOMAIN s = 1..Len(s) /\ Len(s) \in Nat /\ \A i \in DOMAIN s : s[i] \in Slot
  BY LenProperties, ElementOfSeq
<1>2. IsFiniteSet(DOMAIN s)
  BY <1>1, FS_Interval
<1>3. \A i \in DOMAIN s : Num(s)[i] \in Nat \ {0}
  BY <1>1 DEF Num, Slot
<1>4. ASSUME NEW R \in SUBSET DOMAIN s
      PROVE  IsFiniteSet(R) /\ SumFunctionOnSet(Num(s), R) \in Nat
  <2>1. IsFiniteSet(R)
    BY <1>2, FS_Subset
  <2> QED  BY <2>1, <1>3, SumNat
<1>5. \A c : Of(s, c) \in SUBSET DOMAIN s
  BY DEF Of
<1> QED  BY <1>2, <1>3, <1>4, <1>5 DEF SlotsOf, All

\* A slot that is recorded adds its number.
LEMMA AppendedSlots ==
    ASSUME NEW s \in Seq(Slot), NEW r \in Slot
    PROVE  /\ Append(s, r) \in Seq(Slot)
           /\ All(Append(s, r)) = All(s) + r.num
           /\ \A c : SlotsOf(Append(s, r), c) =
                       SlotsOf(s, c) + (IF r.conn[1] = c THEN r.num ELSE 0)
<1> DEFINE t == Append(s, r)
           n == Len(s) + 1
<1>1. /\ DOMAIN s = 1..Len(s) /\ Len(s) \in Nat /\ t \in Seq(Slot)
      /\ DOMAIN t = DOMAIN s \cup {n} /\ n \notin DOMAIN s /\ t[n] = r
      /\ \A i \in DOMAIN s : t[i] = s[i]
  BY AppendProperties, LenProperties
<1> HIDE DEF t, n
<1>2. \A i \in DOMAIN s : Num(t)[i] = Num(s)[i]
  BY <1>1 DEF Num
<1>3. Num(t)[n] = r.num /\ r.num \in Nat
  BY <1>1 DEF Num, Slot
<1>4. ASSUME NEW R \in SUBSET DOMAIN s
      PROVE  /\ SumFunctionOnSet(Num(t), R) = SumFunctionOnSet(Num(s), R)
             /\ SumFunctionOnSet(Num(t), R \cup {n}) = SumFunctionOnSet(Num(s), R) + r.num
  <2>1. IsFiniteSet(R) /\ n \notin R /\ SumFunctionOnSet(Num(s), R) \in Nat
    BY <1>1, SlotsAreNat
  <2>2. \A i \in R \cup {n} : Num(t)[i] \in Int
    BY <1>2, <1>3, SlotsAreNat
  <2>3. SumFunctionOnSet(Num(t), R \cup {n}) = Num(t)[n] + SumFunctionOnSet(Num(t), R)
    BY <2>1, <2>2, SumAdd
  <2>4. SumFunctionOnSet(Num(t), R) = SumFunctionOnSet(Num(s), R)
    BY <2>1, <1>2, SlotsAreNat, SumAgrees
  <2> QED  BY <1>3, <2>1, <2>3, <2>4
<1>5. All(t) = All(s) + r.num
  BY <1>1, <1>4 DEF All
<1>6. ASSUME NEW c
      PROVE  SlotsOf(t, c) = SlotsOf(s, c) + (IF r.conn[1] = c THEN r.num ELSE 0)
  <2>1. Of(t, c) = Of(s, c) \cup (IF r.conn[1] = c THEN {n} ELSE {})
    BY <1>1 DEF Of
  <2>2. Of(s, c) \in SUBSET DOMAIN s /\ SlotsOf(s, c) \in Nat
    BY SlotsAreNat
  <2>3. CASE r.conn[1] = c
    BY <2>1, <2>2, <2>3, <1>4 DEF SlotsOf
  <2>4. CASE r.conn[1] # c
    <3>1. Of(t, c) = Of(s, c)
      BY <2>1, <2>4
    <3>2. SumFunctionOnSet(Num(t), Of(s, c)) = SumFunctionOnSet(Num(s), Of(s, c))
      BY <2>2, <1>4
    <3> QED  BY <3>1, <3>2, <2>2, <2>4 DEF SlotsOf
  <2> QED  BY <2>3, <2>4
<1> QED  BY <1>1, <1>5, <1>6 DEF t

\* Slots that are cleaned take their numbers with them, and no others.
LEMMA CleanedSlots ==
    ASSUME NEW s \in Seq(Slot), NEW gone \in SUBSET DOMAIN s
    PROVE  LET t == Kept(s, DOMAIN s \ gone)
           IN  /\ t \in Seq(Slot)
               /\ All(t) = All(s) - SumFunctionOnSet(Num(s), gone)
               /\ \A c : SlotsOf(t, c) =
                           SlotsOf(s, c) - SumFunctionOnSet(Num(s), gone \cap Of(s, c))
<1> DEFINE I == DOMAIN s \ gone
           t == Kept(s, I)
<1>1. t \in Seq(Slot) /\ \E h : Selects(t, s, I, h)
  BY KeptSelects
<1>2. PICK h : Selects(t, s, I, h)
  BY <1>1
<1> HIDE DEF t
<1>3. ASSUME NEW P \in SUBSET DOMAIN t, NEW R \in SUBSET I, R = {h[j] : j \in P}
      PROVE  SumFunctionOnSet(Num(t), P) = SumFunctionOnSet(Num(s), R)
  <2>1. \A j \in P : Num(t)[j] \in Int /\ Num(s)[h[j]] = Num(t)[j]
    <3>1. \A j \in P : Num(t)[j] \in Int
      BY <1>1, SlotsAreNat
    <3>2. \A j \in P : h[j] \in DOMAIN s /\ t[j] = s[h[j]]
      BY <1>2 DEF Selects
    <3> QED  BY <3>1, <3>2 DEF Num
  <2>2. \A i, j \in P : h[i] = h[j] => i = j
    BY <1>2 DEF Selects
  <2>3. IsFiniteSet(P)
    BY <1>1, SlotsAreNat
  <2> QED  BY <1>3, <2>1, <2>2, <2>3, SumImage
<1>4. All(t) = SumFunctionOnSet(Num(s), I)
  <2>1. I = {h[j] : j \in DOMAIN t}
    BY <1>2 DEF Selects
  <2> QED  BY <1>3, <2>1 DEF All
<1>5. ASSUME NEW c PROVE SlotsOf(t, c) = SumFunctionOnSet(Num(s), Of(s, c) \ gone)
  <2>1. Of(s, c) \ gone = {h[j] : j \in Of(t, c)}
    BY <1>2 DEF Selects, Of
  <2>2. Of(t, c) \in SUBSET DOMAIN t /\ Of(s, c) \ gone \in SUBSET I
    BY DEF Of
  <2> QED  BY <1>3, <2>1, <2>2 DEF SlotsOf
<1>6. \A i \in DOMAIN s : Num(s)[i] \in Int
  BY SlotsAreNat
<1>7. SumFunctionOnSet(Num(s), I) = All(s) - SumFunctionOnSet(Num(s), gone)
  BY <1>6, SlotsAreNat, SumMinus DEF All
<1>8. ASSUME NEW c
      PROVE  SumFunctionOnSet(Num(s), Of(s, c) \ gone) =
               SlotsOf(s, c) - SumFunctionOnSet(Num(s), gone \cap Of(s, c))
  <2> DEFINE S == Of(s, c)
             R == gone \cap Of(s, c)
  <2>1. IsFiniteSet(S) /\ S \subseteq DOMAIN s /\ R \in SUBSET S /\ S \ R = Of(s, c) \ gone
    BY SlotsAreNat
  <2> HIDE DEF S, R
  <2>2. SumFunctionOnSet(Num(s), S \ R) = SumFunctionOnSet(Num(s), S) - SumFunctionOnSet(Num(s), R)
    BY <2>1, <1>6, SumMinus
  <2> QED  BY <2>1, <2>2 DEF SlotsOf, S, R
<1> QED  BY <1>1, <1>4, <1>5, <1>7, <1>8 DEF t

\* A task takes one off its slot.
Used(s, i) == IF s[i].num > 1 THEN [s EXCEPT ![i].num = @ - 1] ELSE Kept(s, DOMAIN s \ {i})

LEMMA UsedSlot ==
    ASSUME NEW s \in Seq(Slot), NEW i \in DOMAIN s, NEW t, t = Used(s, i)
    PROVE  /\ t \in Seq(Slot) /\ All(t) = All(s) - 1
           /\ \A c : SlotsOf(t, c) = SlotsOf(s, c) - (IF s[i].conn[1] = c THEN 1 ELSE 0)
<1>1. \A j \in DOMAIN s : Num(s)[j] \in Int
  BY SlotsAreNat
<1>2. s[i] \in Slot /\ Num(s)[i] = s[i].num /\ s[i].num \in Nat \ {0}
  BY ElementOfSeq, SlotsAreNat DEF Num
<1>3. CASE s[i].num > 1
  <2>1. [s[i] EXCEPT !.num = @ - 1] \in Slot
    BY <1>2, <1>3 DEF Slot
  <2>2. t = [s EXCEPT ![i] = [s[i] EXCEPT !.num = @ - 1]]
    BY <1>3 DEF Used
  <2>3. t \in Seq(Slot)
    BY <2>1, <2>2, ExceptSeq
  <2>4. DOMAIN t = DOMAIN s
    BY <2>2
  <2>5. /\ t[i] = [s[i] EXCEPT !.num = @ - 1]
        /\ \A j \in DOMAIN s \ {i} : t[j] = s[j]
    BY <2>2
  <2>6. t[i].num = s[i].num - 1 /\ t[i].conn = s[i].conn
    BY <2>5, <1>2 DEF Slot
  <2>7. /\ Num(t)[i] = Num(s)[i] - 1
        /\ \A j \in DOMAIN s \ {i} : Num(t)[j] = Num(s)[j]
    BY <2>4, <2>5, <2>6 DEF Num
  <2>8. \A c : Of(t, c) = Of(s, c)
    <3>1. \A j \in DOMAIN s : t[j].conn = s[j].conn
      BY <2>5, <2>6
    <3>2. ASSUME NEW c PROVE Of(t, c) = Of(s, c)
      BY <2>4, <3>1, Zenon DEF Of
    <3> QED  BY <3>2
  <2>9. ASSUME NEW R \in SUBSET DOMAIN s
        PROVE  SumFunctionOnSet(Num(t), R) =
                 SumFunctionOnSet(Num(s), R) - (IF i \in R THEN 1 ELSE 0)
    <3>1. IsFiniteSet(R) /\ SumFunctionOnSet(Num(s), R) \in Nat
      BY SlotsAreNat
    <3> DEFINE f == Num(s)
               g == Num(t)
    <3>4. \A j \in R : f[j] \in Int
      BY <1>1
    <3>5. g[i] = f[i] - 1 /\ f[i] \in Int /\ \A j \in R \ {i} : g[j] = f[j]
      BY <2>7, <1>1
    <3> HIDE DEF f, g
    <3>2. CASE i \in R
      <4>1. SumFunctionOnSet(g, R) = SumFunctionOnSet(f, R) - f[i] + g[i]
        BY <3>1, <3>2, <3>4, <3>5, SumChange
      <4> QED  BY <4>1, <3>1, <3>2, <3>5 DEF f, g
    <3>3. CASE i \notin R
      <4>1. \A j \in R : g[j] = f[j]
        BY <3>3, <3>5
      <4>2. SumFunctionOnSet(g, R) = SumFunctionOnSet(f, R)
        BY <3>1, <3>4, <4>1, SumAgrees
      <4> QED  BY <4>2, <3>1, <3>3 DEF f, g
    <3> QED  BY <3>2, <3>3
  <2>10. All(t) = All(s) - 1
    BY <2>4, <2>9 DEF All
  <2>11. ASSUME NEW c
         PROVE  SlotsOf(t, c) = SlotsOf(s, c) - (IF s[i].conn[1] = c THEN 1 ELSE 0)
    <3>1. Of(s, c) \in SUBSET DOMAIN s /\ (i \in Of(s, c) <=> s[i].conn[1] = c)
      BY DEF Of
    <3> QED  BY <3>1, <2>8, <2>9 DEF SlotsOf
  <2> QED  BY <2>3, <2>10, <2>11
<1>4. CASE ~ s[i].num > 1
  <2>1. Num(s)[i] = 1 /\ t = Kept(s, DOMAIN s \ {i})
    BY <1>2, <1>4 DEF Used
  <2>2. SumFunctionOnSet(Num(s), {i}) = 1 /\ SumFunctionOnSet(Num(s), {}) = 0
    <3>1. SumFunctionOnSet(Num(s), {}) = 0
      BY SumEmpty
    <3>2. IsFiniteSet({}) /\ i \notin {} /\ {i} = {} \cup {i}
      BY FS_EmptySet
    <3>3. SumFunctionOnSet(Num(s), {i}) = Num(s)[i] + SumFunctionOnSet(Num(s), {})
      <4>1. SumFunctionOnSet(Num(s), {} \cup {i}) = Num(s)[i] + SumFunctionOnSet(Num(s), {})
        BY <3>2, <1>1, SumAdd
      <4> QED  BY <4>1, <3>2
    <3> QED  BY <3>1, <3>3, <2>1
  <2>3. /\ t \in Seq(Slot)
        /\ All(t) = All(s) - SumFunctionOnSet(Num(s), {i})
        /\ \A c : SlotsOf(t, c) = SlotsOf(s, c) - SumFunctionOnSet(Num(s), {i} \cap Of(s, c))
    <3>1. {i} \in SUBSET DOMAIN s
      OBVIOUS
    <3> QED  BY <2>1, <3>1, CleanedSlots
  <2>4. \A c : {i} \cap Of(s, c) = IF s[i].conn[1] = c THEN {i} ELSE {}
    BY DEF Of
  <2> QED  BY <2>2, <2>3, <2>4
<1> QED  BY <1>3, <1>4

\* Every slot is one of a client.
LEMMA SlotsByClient ==
    ASSUME NEW s \in Seq(Slot)
    PROVE  SumFunctionOnSet([c \in Client |-> SlotsOf(s, c)], Client) = All(s)
<1> DEFINE g == [i \in DOMAIN s |-> s[i].conn[1]]
           D == DOMAIN s
           f == Num(s)
<1>1. \A i \in D : g[i] \in Client
  <2>1. ASSUME NEW i \in D PROVE s[i].conn[1] \in Client
    <3>1. i \in 1..Len(s)
      BY LenProperties
    <3>2. s[i] \in Slot
      BY <3>1, ElementOfSeq
    <3>3. s[i].conn \in Conn
      BY <3>2 DEF Slot
    <3> QED  BY <3>3, ConnIsPair
  <2> QED  BY <2>1
<1>2. IsFiniteSet(D) /\ \A i \in D : f[i] \in Int
  BY SlotsAreNat
<1>3. \A c \in Client : {i \in D : g[i] = c} = Of(s, c)
  BY DEF Of
<1> HIDE DEF g, D, f
<1>4. SumFunctionOnSet([c \in Client |-> SumFunctionOnSet(f, {i \in D : g[i] = c})], Client) =
        SumFunctionOnSet(f, D)
  BY <1>1, <1>2, OfferAssumption, SumByClass
<1>5. [c \in Client |-> SumFunctionOnSet(f, {i \in D : g[i] = c})] =
        [c \in Client |-> SlotsOf(s, c)]
  BY <1>3 DEF SlotsOf, f
<1> QED  BY <1>4, <1>5 DEF All, f, D

-----------------------------------------------------------------------------
(* Types.                                                                  *)

Ctl == [status : {"init", "detectsucceed", "detectfailed", "inservice", "refused"},
        disabled : BOOLEAN, conn : Nat, opened : Nat, waiting : Nat, empty : BOOLEAN]
Result == [kind : {"error", "refused", "offer"}, conn : Nat, num : Nat]
Known == [conn : Conn, priority : Nat]
Estimate == [pc : {"idle", "select", "ack", "book", "write", "record"}, avail : Nat,
             excludes : SUBSET Conn, conn : Conn \cup {<<>>}, num : Nat, read : Nat]

Read == [step : 0..2, running : Nat, booked : Nat]

\* A client is asked, and then booked, by its connection.
Asked(e) ==
    /\ e.pc \notin {"idle", "select"} => e.conn \in Conn
    /\ e.pc \in {"book", "write", "record"} => e.num # 0

OfferTypeOK ==
    /\ ctl \in [Client -> Ctl] /\ asked \in [Client -> Nat] /\ granted \in [Client -> Nat]
    /\ results \in [Client -> Seq(Result)] /\ acks \in [Conn -> Seq(Nat)]
    /\ open \subseteq Conn /\ reading \subseteq Conn /\ prio \in [Conn -> Nat]
    /\ deal \in [Conn -> {"none", "check", "append", "refused", "done"}]
    /\ clients \in Seq(Known) /\ slots \in Seq(Slot) /\ booked \in Nat
    /\ load \in Read /\ est \in Estimate /\ Asked(est)
    /\ got \in Nat /\ note \in [Client -> Nat] /\ extra \in [Client -> Nat]
    /\ running \in Nat /\ waiting \in Nat
    /\ events \in Nat /\ raced \in BOOLEAN /\ astray \in BOOLEAN

LEMMA LeastOfTwo ==
    ASSUME NEW a \in Int, NEW b \in Int
    PROVE  Min({a, b}) = IF a <= b THEN a ELSE b
BY DEF Min

LEMMA GreatestOfTwo ==
    ASSUME NEW a \in Int, NEW b \in Int
    PROVE  Max({a, b}) = IF a >= b THEN a ELSE b
BY DEF Max

LEMMA LeastIsIndex ==
    ASSUME NEW n \in Nat, NEW S, S \subseteq 1..n, S # {}
    PROVE  Min(S) \in S
<1>1. \E i \in S : \A j \in S : i <= j
  BY LeastIndex
<1> QED  BY <1>1 DEF Min

\* What Unbook takes, and that it counts it.
LEMMA UnbookEffect ==
    ASSUME OfferTypeOK, NEW gone \in SUBSET DOMAIN slots, Unbook(gone)
    PROVE  /\ slots' \in Seq(Slot) /\ booked' \in Nat
           /\ raced' = (raced \/ est.pc = "write") /\ raced' \in BOOLEAN
           /\ astray' = (astray \/ \E i \in gone : Promised(slots[i].conn[1]) > 0)
           /\ astray' \in BOOLEAN
           /\ booked' <= booked
           /\ booked >= All(slots) => booked - booked' = All(slots) - All(slots')
           /\ \A c : SlotsOf(slots', c) =
                       SlotsOf(slots, c) - SumFunctionOnSet(Num(slots), gone \cap Of(slots, c))
<1> DEFINE num == SumFunctionOnSet(Num(slots), gone)
<1>1. /\ slots' = Kept(slots, DOMAIN slots \ gone)
      /\ booked' = Max({booked - num, 0})
      /\ raced' = (raced \/ est.pc = "write")
      /\ astray' = (astray \/ \E i \in gone : Promised(slots[i].conn[1]) > 0)
  BY DEF Unbook, Num
<1>2. slots \in Seq(Slot) /\ booked \in Nat
  BY DEF OfferTypeOK
<1>3. num \in Nat /\ All(slots) \in Nat
  BY <1>2, SlotsAreNat
<1>4. /\ slots' \in Seq(Slot)
      /\ All(slots') = All(slots) - num
      /\ \A c : SlotsOf(slots', c) =
                  SlotsOf(slots, c) - SumFunctionOnSet(Num(slots), gone \cap Of(slots, c))
  BY <1>1, <1>2, CleanedSlots
<1>5. All(slots') \in Nat
  BY <1>4, SlotsAreNat
<1> HIDE DEF num
<1>6. booked' = IF booked - num >= 0 THEN booked - num ELSE 0
  BY <1>1, <1>2, <1>3, GreatestOfTwo
<1>7. /\ booked' \in Nat /\ booked' <= booked
      /\ (booked >= All(slots) => booked - booked' = All(slots) - All(slots'))
  BY <1>2, <1>3, <1>4, <1>5, <1>6
<1>8. raced' \in BOOLEAN /\ astray' \in BOOLEAN
  BY <1>1, Zenon
<1> QED  BY <1>1, <1>4, <1>7, <1>8

\* The clients that are not forgotten; the slots of the others go.
LEMMA CheckClientEffect ==
    ASSUME OfferTypeOK, CheckClient
    PROVE  /\ clients' \in Seq(Known)
           /\ \A j \in DOMAIN clients' : \E i \in DOMAIN clients : clients'[j] = clients[i]
           /\ \/ \E gone \in SUBSET DOMAIN slots : Unbook(gone)
              \/ UNCHANGED <<slots, booked, raced, astray>>
<1> DEFINE I == {i \in DOMAIN clients : clients[i].conn \in open}
<1>1. clients' = Kept(clients, I)
  BY DEF CheckClient
<1>2. I \subseteq DOMAIN clients /\ clients \in Seq(Known)
  BY DEF OfferTypeOK
<1>3. clients' \in Seq(Known) /\ \A j \in DOMAIN clients' : \E i \in I : clients'[j] = clients[i]
  <2> HIDE DEF I
  <2> QED  BY <1>1, <1>2, KeptElements
<1>4. \/ \E gone \in SUBSET DOMAIN slots : Unbook(gone)
      \/ UNCHANGED <<slots, booked, raced, astray>>
  <2> DEFINE closed == {clients[i].conn : i \in {i \in DOMAIN clients : clients[i].conn \notin open}}
             gone == {i \in DOMAIN slots : slots[i].conn \in closed}
  <2>1. IF gone # {} THEN Unbook(gone) ELSE UNCHANGED <<slots, booked, raced, astray>>
    BY DEF CheckClient
  <2>2. gone \in SUBSET DOMAIN slots
    OBVIOUS
  <2> HIDE DEF gone
  <2> QED  BY <2>1, <2>2
<1> QED  BY <1>3, <1>4

\* A query that is refused may raise the priority of a client that is known.
LEMMA DealEffect ==
    ASSUME OfferTypeOK, NEW k \in Conn, DealQuerySlot(k)
    PROVE  /\ clients' \in Seq(Known) /\ DOMAIN clients' = DOMAIN clients
           /\ \A i \in DOMAIN clients : clients'[i].conn = clients[i].conn
<1>1. CASE clients' = clients
  BY <1>1 DEF OfferTypeOK
<1>2. CASE /\ Entries(k[1]) # {}
           /\ clients' = [clients EXCEPT ![Min(Entries(k[1]))].priority = Max({@, prio[k]})]
  <2> DEFINE i == Min(Entries(k[1]))
             p == Max({clients[i].priority, prio[k]})
  <2>1. DOMAIN clients = 1..Len(clients) /\ Len(clients) \in Nat
        /\ \A j \in DOMAIN clients : clients[j] \in Known
    BY LenProperties, ElementOfSeq DEF OfferTypeOK
  <2>2. i \in DOMAIN clients
    <3>1. Entries(k[1]) \subseteq 1..Len(clients)
      BY <2>1 DEF Entries
    <3>2. i \in Entries(k[1])
      BY <1>2, <2>1, <3>1, LeastIsIndex
    <3> QED  BY <3>2 DEF Entries
  <2>3. clients' = [clients EXCEPT ![i] = [clients[i] EXCEPT !.priority = p]]
    BY <1>2
  <2>4. p \in Nat
    <3> HIDE DEF i
    <3>1. clients[i].priority \in Nat /\ prio[k] \in Nat
      BY <2>1, <2>2 DEF OfferTypeOK, Known
    <3> QED  BY <3>1, GreatestOfTwo
  <2> HIDE DEF i, p
  <2>5. ASSUME NEW j \in DOMAIN clients
        PROVE  clients'[j] \in Known /\ clients'[j].conn = clients[j].conn
    <3>1. clients'[j] \in {clients[j], [clients[j] EXCEPT !.priority = p]}
      BY <2>3
    <3> QED  BY <2>1, <2>4, <3>1 DEF Known
  <2>6. DOMAIN clients' = DOMAIN clients /\ clients' = [j \in DOMAIN clients |-> clients'[j]]
    BY <2>3
  <2>7. clients' \in [1..Len(clients) -> Known]
    BY <2>1, <2>5, <2>6
  <2> QED  BY <2>1, <2>5, <2>6, <2>7, SeqDef
<1> QED  BY <1>1, <1>2 DEF DealQuerySlot

\* A task that comes takes one slot of its client, if there is one.
LEMMA TaskReceivedEffect ==
    ASSUME OfferTypeOK, NEW c \in Client, OnTaskReceived(c)
    PROVE  \/ /\ Of(slots, c) = {} /\ UNCHANGED <<slots, booked, raced>>
           \/ /\ slots' \in Seq(Slot) /\ booked' = (IF booked > 0 THEN booked - 1 ELSE 0)
              /\ All(slots') = All(slots) - 1
              /\ \A d : SlotsOf(slots', d) = SlotsOf(slots, d) - (IF d = c THEN 1 ELSE 0)
              /\ raced' = (raced \/ est.pc = "write") /\ raced' \in BOOLEAN
<1> DEFINE i == Min(Of(slots, c))
<1>1. CASE Of(slots, c) = {}
  BY <1>1 DEF OnTaskReceived, Of
<1>2. CASE Of(slots, c) # {}
  <2>1. slots \in Seq(Slot) /\ DOMAIN slots = 1..Len(slots) /\ Len(slots) \in Nat /\ booked \in Nat
    BY LenProperties DEF OfferTypeOK
  <2>2. i \in DOMAIN slots /\ slots[i].conn[1] = c
    <3>1. Of(slots, c) \subseteq 1..Len(slots)
      BY <2>1 DEF Of
    <3>2. i \in Of(slots, c)
      BY <1>2, <2>1, <3>1, LeastIsIndex
    <3> QED  BY <3>2 DEF Of
  <2>3. /\ slots' = Used(slots, i)
        /\ booked' = Max({booked - 1, 0})
        /\ raced' = (raced \/ est.pc = "write")
    BY <1>2 DEF OnTaskReceived, Of, Used
  <2> HIDE DEF i
  <2>4. /\ slots' \in Seq(Slot) /\ All(slots') = All(slots) - 1
        /\ \A d : SlotsOf(slots', d) = SlotsOf(slots, d) - (IF slots[i].conn[1] = d THEN 1 ELSE 0)
    BY <2>1, <2>2, <2>3, UsedSlot
  <2>5. booked' = IF booked > 0 THEN booked - 1 ELSE 0
    <3>1. booked - 1 \in Int
      BY <2>1
    <3>2. booked' = IF booked - 1 >= 0 THEN booked - 1 ELSE 0
      BY <2>3, <3>1, GreatestOfTwo
    <3> QED  BY <2>1, <3>2
  <2>6. raced' \in BOOLEAN
    BY <2>3, Zenon
  <2> QED  BY <2>2, <2>3, <2>4, <2>5, <2>6
<1> QED  BY <1>1, <1>2

\* Among clients that are left there is a first of the highest priority.
LEMMA FirstExists ==
    ASSUME NEW s \in Seq(Known), NEW left \in SUBSET DOMAIN s, left # {}
    PROVE  \E i \in left : \A j \in left \ {i} :
             s[i].priority > s[j].priority \/ (s[i].priority = s[j].priority /\ i < j)
<1> DEFINE P == {s[i].priority : i \in left}
<1>1. DOMAIN s = 1..Len(s) /\ Len(s) \in Nat /\ \A i \in left : s[i].priority \in Nat
  <2>1. DOMAIN s = 1..Len(s) /\ Len(s) \in Nat
    BY LenProperties
  <2>2. \A i \in left : s[i] \in Known
    BY <2>1, ElementOfSeq
  <2> QED  BY <2>1, <2>2 DEF Known
<1>2. IsFiniteSet(P)
  <2>1. IsFiniteSet(left)
    <3>1. IsFiniteSet(1..Len(s)) /\ left \subseteq 1..Len(s)
      BY <1>1, FS_Interval
    <3> QED  BY <3>1, FS_Subset
  <2> DEFINE m == [i \in left |-> s[i].priority]
  <2>2. m \in Surjection(left, P)
    BY DEF Surjection
  <2> HIDE DEF m, P
  <2> QED  BY <2>1, <2>2, FS_Surjection
<1>3. PICK p \in P : \A q \in P : p >= q
  <2>1. P # {} /\ \A q \in P : q \in Nat
    BY <1>1
  <2> HIDE DEF P
  <2> QED  BY <1>2, <2>1, GreatestOfFinite
<1> DEFINE B == {i \in left : s[i].priority = p}
<1>4. PICK i \in B : \A j \in B : i <= j
  <2>1. B # {} /\ B \subseteq 1..Len(s)
    BY <1>1
  <2> HIDE DEF B
  <2> QED  BY <1>1, <2>1, LeastIndex
<1>5. ASSUME NEW j \in left \ {i}
      PROVE  s[i].priority > s[j].priority \/ (s[i].priority = s[j].priority /\ i < j)
  <2>1. s[i].priority = p /\ p \in Nat /\ s[j].priority \in Nat /\ p >= s[j].priority
    BY <1>1, <1>3, <1>4
  <2>2. i \in Nat /\ j \in Nat
    BY <1>1, <1>4
  <2>3. s[j].priority = p => i <= j
    BY <1>4
  <2> QED  BY <2>1, <2>2, <2>3
<1> QED  BY <1>4, <1>5

Offer(n, num) == [kind |-> "offer", conn |-> n, num |-> num]

\* A client that is known gets the offer, if its connection is open.
LEMMA SelectEffect ==
    ASSUME OfferTypeOK, SelectClient
    PROVE  \/ est' = Resting /\ UNCHANGED results
           \/ \E i \in DOMAIN clients :
                LET k == clients[i].conn
                IN  /\ k \in Conn
                    /\ \/ /\ k \notin open /\ UNCHANGED results
                          /\ est' = [est EXCEPT !.excludes = @ \cup {k}]
                       \/ /\ k \in open
                          /\ est' = [est EXCEPT !.pc = "ack", !.conn = k, !.excludes = @ \cup {k}]
                          /\ results' = [results EXCEPT ![k[1]] = Append(@, Offer(k[2], est.avail))]
<1> DEFINE left == {i \in DOMAIN clients : clients[i].conn \notin est.excludes}
           first == CHOOSE i \in left : \A j \in left \ {i} :
                      \/ clients[i].priority > clients[j].priority
                      \/ clients[i].priority = clients[j].priority /\ i < j
           k == clients[first].conn
<1>1. \/ left = {} /\ est' = Resting /\ UNCHANGED results
      \/ /\ left # {}
         /\ est' = IF k \in open
                   THEN [est EXCEPT !.pc = "ack", !.conn = k, !.excludes = @ \cup {k}]
                   ELSE [est EXCEPT !.excludes = @ \cup {k}]
         /\ results' = IF k \in open
                       THEN [results EXCEPT ![k[1]] = Append(@, Offer(k[2], est.avail))]
                       ELSE results
  BY DEF SelectClient, Offer
<1>2. CASE left # {}
  <2>1. clients \in Seq(Known) /\ left \in SUBSET DOMAIN clients
    BY DEF OfferTypeOK
  <2>2. first \in left
    <3> HIDE DEF left
    <3>1. \E i \in left : \A j \in left \ {i} :
            \/ clients[i].priority > clients[j].priority
            \/ clients[i].priority = clients[j].priority /\ i < j
      BY <1>2, <2>1, FirstExists
    <3> QED  BY <3>1
  <2> HIDE DEF first
  <2>3. first \in DOMAIN clients
    BY <2>2
  <2>4. k \in Conn
    <3>1. first \in 1..Len(clients)
      BY <2>1, <2>3, LenProperties
    <3>2. clients[first] \in Known
      BY <2>1, <3>1, ElementOfSeq
    <3> QED  BY <3>2 DEF Known
  <2>5. \/ /\ k \notin open /\ UNCHANGED results
           /\ est' = [est EXCEPT !.excludes = @ \cup {k}]
        \/ /\ k \in open
           /\ est' = [est EXCEPT !.pc = "ack", !.conn = k, !.excludes = @ \cup {k}]
           /\ results' = [results EXCEPT ![k[1]] = Append(@, Offer(k[2], est.avail))]
    <3> HIDE DEF k, left
    <3> QED  BY <1>1, <1>2
  <2> QED  BY <2>3, <2>4, <2>5
<1> QED  BY <1>1, <1>2

-----------------------------------------------------------------------------

\* The worker knows nothing and no controller has asked it.
LEMMA OfferInitTypes == OfferInit => OfferTypeOK
<1> SUFFICES ASSUME OfferInit PROVE OfferTypeOK
  OBVIOUS
<1>1. ctl \in [Client -> Ctl] /\ asked \in [Client -> Nat] /\ granted \in [Client -> Nat]
      /\ note \in [Client -> Nat] /\ extra \in [Client -> Nat]
  BY DEF OfferInit, Ctl
<1>2. results \in [Client -> Seq(Result)] /\ acks \in [Conn -> Seq(Nat)]
  BY DEF OfferInit
<1>3. prio \in [Conn -> Nat]
  <2>1. ASSUME NEW k \in Conn PROVE Min(Priority(k[1])) \in Nat
    <3> DEFINE S == Priority(k[1])
    <3>1. S # {} /\ S \subseteq 1..PriorityHight /\ PriorityHight \in Nat
      BY ConnIsPair, OfferAssumption
    <3> HIDE DEF S
    <3>2. Min(S) \in S
      BY <3>1, LeastIsIndex
    <3> QED  BY <3>1, <3>2 DEF S
  <2> QED  BY <2>1 DEF OfferInit
<1>4. /\ open \subseteq Conn /\ reading \subseteq Conn
      /\ deal \in [Conn -> {"none", "check", "append", "refused", "done"}]
      /\ clients \in Seq(Known) /\ slots \in Seq(Slot) /\ booked \in Nat
      /\ got \in Nat /\ running \in Nat /\ waiting \in Nat /\ events \in Nat
  BY DEF OfferInit
<1>5. load \in Read /\ est \in Estimate /\ Asked(est)
  BY DEF OfferInit, Unread, Resting, Read, Estimate, Asked
<1>6. raced \in BOOLEAN /\ astray \in BOOLEAN
  BY DEF OfferInit
<1> QED  BY <1>1, <1>2, <1>3, <1>4, <1>5, <1>6 DEF OfferTypeOK

\* What a controller may set of the worker it has.
Statuses == {"init", "detectsucceed", "detectfailed", "inservice", "refused"}

LEMMA CtlChanges ==
    ASSUME NEW r \in Ctl
    PROVE  /\ \A n \in Nat : [r EXCEPT !.waiting = n] \in Ctl
           /\ \A s \in Statuses : [r EXCEPT !.status = s] \in Ctl
           /\ ResetSlot(r) \in Ctl
           /\ \A b \in BOOLEAN : [r EXCEPT !.disabled = b] \in Ctl
           /\ \A b \in BOOLEAN : [r EXCEPT !.empty = b] \in Ctl
           /\ \A n \in Nat : [r EXCEPT !.conn = n] \in Ctl
           /\ \A n \in Nat : [r EXCEPT !.opened = n] \in Ctl
BY DEF Ctl, ResetSlot, Statuses

\* The worker of one controller is set.
LEMMA CtlIsSet ==
    ASSUME ctl \in [Client -> Ctl], NEW c \in Client, NEW r \in Ctl, ctl' = [ctl EXCEPT ![c] = r]
    PROVE  /\ ctl' \in [Client -> Ctl] /\ ctl'[c] = r
           /\ \A d \in Client \ {c} : ctl'[d] = ctl[d]
OBVIOUS

\* The connections, and how many were opened, stay.
SameConns(new, old) == \A c \in Client : new[c].conn = old[c].conn /\ new[c].opened = old[c].opened

LEMMA JobsEffect ==
    ASSUME ctl \in [Client -> Ctl], NEW c \in Client,
           GetSlot(c) \/ JobCheck(c) \/ EnableWorker(c) \/ OnSlotEmpty(c)
    PROVE  ctl' \in [Client -> Ctl] /\ SameConns(ctl', ctl)
<1>1. ctl[c] \in Ctl /\ DOMAIN ctl = Client
  OBVIOUS
<1>2. ASSUME NEW r \in Ctl, ctl' = [ctl EXCEPT ![c] = r],
             r.conn = ctl[c].conn, r.opened = ctl[c].opened
      PROVE  ctl' \in [Client -> Ctl] /\ SameConns(ctl', ctl)
  BY <1>2, CtlIsSet DEF SameConns
<1>3. ASSUME NEW n \in Nat, ctl' = [ctl EXCEPT ![c] = [ctl[c] EXCEPT !.waiting = n]]
      PROVE  ctl' \in [Client -> Ctl] /\ SameConns(ctl', ctl)
  <2> DEFINE r == [ctl[c] EXCEPT !.waiting = n]
  <2>1. r \in Ctl
    BY <1>1, CtlChanges
  <2>2. r.conn = ctl[c].conn /\ r.opened = ctl[c].opened
    BY <1>1 DEF Ctl
  <2>3. ctl' = [ctl EXCEPT ![c] = r]
    BY <1>3
  <2> HIDE DEF r
  <2> QED  BY <1>2, <2>1, <2>2, <2>3
<1>4. ctl[c].waiting \in Nat
  BY <1>1 DEF Ctl
<1>5. CASE GetSlot(c)
  <2>1. CASE ctl' = ctl
    BY <2>1 DEF SameConns
  <2>2. CASE ctl' = [ctl EXCEPT ![c].waiting = @ + 1]
    <3>1. ctl[c].waiting + 1 \in Nat
      BY <1>4
    <3>2. ctl' = [ctl EXCEPT ![c] = [ctl[c] EXCEPT !.waiting = ctl[c].waiting + 1]]
      BY <2>2
    <3> QED  BY <1>3, <3>1, <3>2
  <2> QED  BY <1>5, <2>1, <2>2 DEF GetSlot
<1>6. CASE JobCheck(c)
  <2>1. ctl[c].waiting - 1 \in Nat
    BY <1>4, <1>6 DEF JobCheck
  <2>2. ctl' = [ctl EXCEPT ![c] = [ctl[c] EXCEPT !.waiting = ctl[c].waiting - 1]]
    BY <1>6 DEF JobCheck
  <2> QED  BY <1>3, <2>1, <2>2
<1>7. CASE OnSlotEmpty(c)
  <2> DEFINE r == [[ctl[c] EXCEPT !.empty = FALSE] EXCEPT !.waiting = 0]
  <2>1. r \in Ctl
    <3>1. [ctl[c] EXCEPT !.empty = FALSE] \in Ctl
      BY <1>1, CtlChanges
    <3> QED  BY <3>1, CtlChanges
  <2>2. ctl' = [ctl EXCEPT ![c] = r]
    BY <1>7, <1>1 DEF OnSlotEmpty
  <2>3. r.conn = ctl[c].conn /\ r.opened = ctl[c].opened
    BY <1>1 DEF Ctl
  <2> HIDE DEF r
  <2> QED  BY <1>2, <2>1, <2>2, <2>3
<1>8. CASE EnableWorker(c)
  <2> DEFINE r == [[ctl[c] EXCEPT !.disabled = FALSE] EXCEPT !.status = "init"]
  <2>1. r \in Ctl
    <3>1. [ctl[c] EXCEPT !.disabled = FALSE] \in Ctl
      BY <1>1, CtlChanges
    <3> QED  BY <3>1, CtlChanges DEF Statuses
  <2>2. ctl' = [ctl EXCEPT ![c] = r]
    BY <1>8, <1>1 DEF EnableWorker
  <2>3. r.conn = ctl[c].conn /\ r.opened = ctl[c].opened
    BY <1>1 DEF Ctl
  <2> HIDE DEF r
  <2> QED  BY <1>2, <2>1, <2>2, <2>3
<1> QED  BY <1>5, <1>6, <1>7, <1>8

\* The connection is given up.
LEMMA DisableEffect ==
    ASSUME ctl \in [Client -> Ctl], NEW c \in Client, DisableWorker(c)
    PROVE  /\ ctl' \in [Client -> Ctl] /\ \A d \in Client \ {c} : ctl'[d] = ctl[d]
           /\ ctl'[c].conn = 0 /\ ctl'[c].opened = ctl[c].opened
<1>1. ctl[c] \in Ctl /\ DOMAIN ctl = Client
  OBVIOUS
<1> DEFINE q == [ResetSlot(ctl[c]) EXCEPT !.disabled = TRUE]
           r == [q EXCEPT !.empty = TRUE]
<1>2. r \in Ctl
  <2>1. ResetSlot(ctl[c]) \in Ctl
    BY <1>1, CtlChanges
  <2>2. q \in Ctl
    BY <2>1, CtlChanges
  <2> QED  BY <2>2, CtlChanges
<1>3. ctl' = [ctl EXCEPT ![c] = r]
  BY <1>1 DEF DisableWorker
<1>4. r.conn = 0 /\ r.opened = ctl[c].opened
  BY <1>1 DEF Ctl, ResetSlot
<1> HIDE DEF r
<1> QED  BY <1>2, <1>3, <1>4, CtlIsSet

\* A connection is opened that never was before, or opening it fails.
LEMMA QueryEffect ==
    ASSUME ctl \in [Client -> Ctl], prio \in [Conn -> Nat], events \in Nat,
           NEW c \in Client, QuerySlot(c)
    PROVE  LET n == ctl[c].opened + 1
           IN  /\ ctl' \in [Client -> Ctl] /\ \A d \in Client \ {c} : ctl'[d] = ctl[d]
               /\ n \in Nat /\ <<c, n>> \in Conn /\ prio' \in [Conn -> Nat] /\ events' \in Nat
               /\ \/ /\ ctl'[c].conn = n /\ ctl'[c].opened = n
                     /\ open' = (open \ {<<c, ctl[c].conn>>}) \cup {<<c, n>>}
                     /\ reading' = reading \cup {<<c, n>>}
                     /\ deal' = [deal EXCEPT ![<<c, n>>] = "check"]
                  \/ /\ ctl'[c].conn = 0 /\ ctl'[c].opened = ctl[c].opened
                     /\ open' = open \ {<<c, ctl[c].conn>>}
                     /\ reading' = reading /\ deal' = deal
<1> DEFINE n == ctl[c].opened + 1
<1>1. ctl[c] \in Ctl /\ DOMAIN ctl = Client
  OBVIOUS
<1>2. ctl[c].opened \in Nat /\ n \in Nat
  BY <1>1 DEF Ctl
<1>3. ctl[c].opened < MaxConn(c) /\ MaxConn(c) \in Nat
  BY OfferAssumption DEF QuerySlot
<1>4. <<c, n>> \in Conn
  BY <1>2, <1>3, PairIsConn
<1>5. prio' \in [Conn -> Nat]
  <2>1. Priority(c) \subseteq 1..PriorityHight /\ PriorityHight \in Nat
    BY OfferAssumption
  <2>2. Priority(c) \subseteq Nat
    BY <2>1
  <2>3. prio' = prio \/ \E p \in Priority(c) : prio' = [prio EXCEPT ![<<c, n>>] = p]
    BY DEF QuerySlot
  <2> QED  BY <2>2, <2>3
<1>6. events' \in Nat
  BY DEF QuerySlot, Event
<1>7. CASE /\ ctl' = [ctl EXCEPT ![c].conn = ctl[c].opened + 1, ![c].opened = @ + 1,
                                 ![c].status = "detectsucceed"]
           /\ open' = WithoutConn(c) \cup {<<c, n>>}
           /\ reading' = reading \cup {<<c, n>>}
           /\ deal' = [deal EXCEPT ![<<c, n>>] = "check"]
  <2> DEFINE q == [ctl[c] EXCEPT !.conn = n]
             p == [q EXCEPT !.opened = n]
             r == [p EXCEPT !.status = "detectsucceed"]
  <2>1. r \in Ctl
    <3>1. q \in Ctl
      BY <1>1, <1>2, CtlChanges
    <3>2. p \in Ctl
      BY <1>2, <3>1, CtlChanges
    <3> QED  BY <3>2, CtlChanges DEF Statuses
  <2>2. ctl' = [ctl EXCEPT ![c] = r]
    BY <1>1, <1>7
  <2>3. r.conn = n /\ r.opened = n
    BY <1>1 DEF Ctl
  <2> HIDE DEF r
  <2>4. ctl' \in [Client -> Ctl] /\ ctl'[c] = r /\ \A d \in Client \ {c} : ctl'[d] = ctl[d]
    BY <2>1, <2>2, CtlIsSet
  <2> HIDE DEF n
  <2> QED  BY <1>2, <1>4, <1>5, <1>6, <1>7, <2>3, <2>4 DEF WithoutConn, n
<1>8. CASE /\ ctl' = [ctl EXCEPT ![c].conn = 0, ![c].status = "detectfailed"]
           /\ open' = WithoutConn(c) /\ UNCHANGED <<prio, reading, deal>>
  <2> DEFINE q == [ctl[c] EXCEPT !.conn = 0]
             r == [q EXCEPT !.status = "detectfailed"]
  <2>1. r \in Ctl
    <3>1. q \in Ctl
      BY <1>1, CtlChanges
    <3> QED  BY <3>1, CtlChanges DEF Statuses
  <2>2. ctl' = [ctl EXCEPT ![c] = r]
    BY <1>1, <1>8
  <2>3. r.conn = 0 /\ r.opened = ctl[c].opened
    BY <1>1 DEF Ctl
  <2> HIDE DEF r
  <2>4. ctl' \in [Client -> Ctl] /\ ctl'[c] = r /\ \A d \in Client \ {c} : ctl'[d] = ctl[d]
    BY <2>1, <2>2, CtlIsSet
  <2> QED  BY <1>2, <1>4, <1>5, <1>6, <1>8, <2>3, <2>4 DEF WithoutConn
<1> QED  BY <1>7, <1>8 DEF QuerySlot

\* A result is taken: it is dropped, or refuses, or ends the connection, or
\* offers what is then promised.
LEMMA ResultEffect ==
    ASSUME OfferTypeOK, NEW c \in Client, OnSlotResult(c)
    PROVE  LET r == Head(results[c])
               n == ctl[c].conn
           IN  /\ results[c] # <<>> /\ r \in Result
               /\ results' = [results EXCEPT ![c] = Tail(@)] /\ results' \in [Client -> Seq(Result)]
               /\ ctl' \in [Client -> Ctl] /\ \A d \in Client \ {c} : ctl'[d] = ctl[d]
               /\ ctl'[c].opened = ctl[c].opened
               /\ \/ ctl'[c].conn = n /\ UNCHANGED <<granted, open, acks, astray>>
                       /\ (r.kind = "offer" => n = 0)
                  \/ /\ r.kind = "error" /\ ctl'[c].conn = 0 /\ open' = open \ {<<c, n>>}
                     /\ UNCHANGED <<granted, acks, astray>>
                  \/ /\ r.kind = "offer" /\ n # 0 /\ ctl'[c].conn = n /\ UNCHANGED open
                     /\ \E consumed \in Nat :
                          /\ consumed <= r.num
                          /\ granted' = [granted EXCEPT ![c] = @ + consumed]
                          /\ acks' = [acks EXCEPT ![<<c, n>>] = Append(@, consumed)]
                     /\ astray' = (astray \/ r.conn # n)
<1> DEFINE r == Head(results[c])
           n == ctl[c].conn
           consumed == Min({r.num, ctl[c].waiting})
<1>1. ctl \in [Client -> Ctl] /\ ctl[c] \in Ctl /\ DOMAIN ctl = Client
      /\ results \in [Client -> Seq(Result)]
  BY DEF OfferTypeOK
<1>2. results[c] # <<>> /\ results' = [results EXCEPT ![c] = Tail(@)]
  BY DEF OnSlotResult
<1>3. r \in Result /\ Tail(results[c]) \in Seq(Result)
  BY <1>1, <1>2, HeadTailProperties
<1>4. results' \in [Client -> Seq(Result)]
  BY <1>1, <1>2, <1>3
<1>5. consumed \in Nat /\ consumed <= ctl[c].waiting /\ consumed <= r.num
      /\ ctl[c].waiting - consumed \in Nat
  <2>1. r.num \in Nat /\ ctl[c].waiting \in Nat
    BY <1>1, <1>3 DEF Result, Ctl
  <2> QED  BY <2>1, LeastOfTwo
<1>6. ASSUME NEW q \in Ctl, ctl' = [ctl EXCEPT ![c] = q], q.opened = ctl[c].opened
      PROVE  /\ ctl' \in [Client -> Ctl] /\ \A d \in Client \ {c} : ctl'[d] = ctl[d]
             /\ ctl'[c].opened = ctl[c].opened /\ ctl'[c].conn = q.conn
  BY <1>1, <1>6, CtlIsSet
<1> HIDE DEF consumed
<1>7. CASE n = 0 /\ UNCHANGED <<ctl, granted, open, acks, astray>>
  BY <1>1, <1>2, <1>3, <1>4, <1>7
<1>8. CASE /\ r.kind = "refused" /\ ctl' = [ctl EXCEPT ![c].status = "refused"]
           /\ UNCHANGED <<granted, open, acks, astray>>
  <2> DEFINE q == [ctl[c] EXCEPT !.status = "refused"]
  <2>1. q \in Ctl /\ q.opened = ctl[c].opened /\ q.conn = n
    <3>1. q \in Ctl
      BY <1>1, CtlChanges DEF Statuses
    <3> QED  BY <3>1, <1>1 DEF Ctl
  <2>2. ctl' = [ctl EXCEPT ![c] = q]
    BY <1>8
  <2> HIDE DEF q
  <2>3. /\ ctl' \in [Client -> Ctl] /\ \A d \in Client \ {c} : ctl'[d] = ctl[d]
        /\ ctl'[c].opened = ctl[c].opened /\ ctl'[c].conn = q.conn
    BY <1>6, <2>1, <2>2
  <2> QED  BY <1>2, <1>3, <1>4, <1>8, <2>1, <2>3
<1>9. CASE /\ r.kind = "error" /\ ctl' = [ctl EXCEPT ![c] = ResetSlot(@)] /\ open' = WithoutConn(c)
           /\ UNCHANGED <<granted, acks, astray>>
  <2> DEFINE q == ResetSlot(ctl[c])
  <2>1. q \in Ctl /\ q.opened = ctl[c].opened /\ q.conn = 0
    BY <1>1, CtlChanges DEF ResetSlot, Ctl
  <2>2. ctl' = [ctl EXCEPT ![c] = q]
    BY <1>9
  <2> HIDE DEF q
  <2>3. /\ ctl' \in [Client -> Ctl] /\ \A d \in Client \ {c} : ctl'[d] = ctl[d]
        /\ ctl'[c].opened = ctl[c].opened /\ ctl'[c].conn = q.conn
    BY <1>6, <2>1, <2>2
  <2> QED  BY <1>2, <1>3, <1>4, <1>9, <2>1, <2>3 DEF WithoutConn
<1>10. CASE /\ n # 0 /\ r.kind = "offer"
            /\ ctl' = [ctl EXCEPT ![c].status = "inservice", ![c].waiting = @ - consumed]
            /\ granted' = [granted EXCEPT ![c] = @ + consumed]
            /\ acks' = [acks EXCEPT ![<<c, n>>] = Append(@, consumed)]
            /\ astray' = (astray \/ r.conn # n)
            /\ UNCHANGED open
  <2> DEFINE p == [ctl[c] EXCEPT !.status = "inservice"]
             q == [p EXCEPT !.waiting = ctl[c].waiting - consumed]
  <2>1. q \in Ctl
    <3>1. p \in Ctl
      BY <1>1, CtlChanges DEF Statuses
    <3> QED  BY <3>1, <1>5, CtlChanges
  <2>2. q.opened = ctl[c].opened /\ q.conn = n
    BY <1>1 DEF Ctl
  <2>3. ctl' = [ctl EXCEPT ![c] = q]
    BY <1>1, <1>10 DEF Ctl
  <2> HIDE DEF q
  <2>4. /\ ctl' \in [Client -> Ctl] /\ \A d \in Client \ {c} : ctl'[d] = ctl[d]
        /\ ctl'[c].opened = ctl[c].opened /\ ctl'[c].conn = q.conn
    BY <1>6, <2>1, <2>2, <2>3
  <2> HIDE DEF r, n
  <2>5. \E v \in Nat : /\ v <= r.num
                       /\ granted' = [granted EXCEPT ![c] = @ + v]
                       /\ acks' = [acks EXCEPT ![<<c, n>>] = Append(@, v)]
    BY <1>5, <1>10
  <2> QED  BY <1>2, <1>3, <1>4, <1>10, <2>2, <2>4, <2>5 DEF r, n
<1> QED  BY <1>7, <1>8, <1>9, <1>10 DEF OnSlotResult, consumed

\* A step keeps the types: the actions of a controller.
LEMMA ControllerTypes ==
    ASSUME OfferTypeOK, NEW c \in Client,
           GetSlot(c) \/ QuerySlot(c) \/ OnSlotResult(c) \/ JobCheck(c) \/ DisableWorker(c)
             \/ EnableWorker(c) \/ OnSlotEmpty(c) \/ GiveUp(c)
    PROVE  OfferTypeOK'
<1>1. ctl \in [Client -> Ctl] /\ prio \in [Conn -> Nat] /\ events \in Nat
  BY DEF OfferTypeOK
<1>2. CASE GetSlot(c) \/ JobCheck(c) \/ EnableWorker(c) \/ OnSlotEmpty(c)
  <2>1. ctl' \in [Client -> Ctl]
    BY <1>1, <1>2, JobsEffect
  <2>2. asked' \in [Client -> Nat]
    <3>1. asked \in [Client -> Nat]
      BY DEF OfferTypeOK
    <3> QED  BY <3>1, <1>2 DEF GetSlot, JobCheck, EnableWorker, OnSlotEmpty
  <2>3. UNCHANGED <<granted, net, worker, tasks, events, raced, astray>>
    BY <1>2 DEF GetSlot, JobCheck, EnableWorker, OnSlotEmpty
  <2> QED  BY <2>1, <2>2, <2>3 DEF OfferTypeOK, net, worker, tasks
<1>3. CASE QuerySlot(c)
  <2> DEFINE k == <<c, ctl[c].opened + 1>>
  <2>1. /\ ctl' \in [Client -> Ctl] /\ k \in Conn /\ prio' \in [Conn -> Nat] /\ events' \in Nat
        /\ open' \subseteq open \cup {k} /\ reading' \subseteq reading \cup {k}
        /\ deal' = deal \/ deal' = [deal EXCEPT ![k] = "check"]
    BY <1>1, <1>3, QueryEffect
  <2>2. UNCHANGED <<asked, granted, results, acks, clients, slots, booked, load, est, tasks, raced,
                    astray>>
    BY <1>3 DEF QuerySlot
  <2> HIDE DEF k
  <2>3. open' \subseteq Conn /\ reading' \subseteq Conn
    BY <2>1 DEF OfferTypeOK
  <2>4. deal' \in [Conn -> {"none", "check", "append", "refused", "done"}]
    BY <2>1 DEF OfferTypeOK
  <2> QED  BY <2>1, <2>2, <2>3, <2>4 DEF OfferTypeOK, tasks
<1>4. CASE OnSlotResult(c)
  <2> DEFINE n == ctl[c].conn
             r == Head(results[c])
  <2>1. ctl' \in [Client -> Ctl] /\ results' \in [Client -> Seq(Result)]
    BY <1>4, ResultEffect
  <2>2. \/ UNCHANGED <<granted, open, acks, astray>>
        \/ open' = open \ {<<c, n>>} /\ UNCHANGED <<granted, acks, astray>>
        \/ /\ \E consumed \in Nat :
                /\ granted' = [granted EXCEPT ![c] = @ + consumed]
                /\ acks' = [acks EXCEPT ![<<c, n>>] = Append(@, consumed)]
           /\ astray' = (astray \/ r.conn # n) /\ UNCHANGED open
    BY <1>4, ResultEffect
  <2> HIDE DEF n
  <2>3. granted' \in [Client -> Nat] /\ open' \subseteq Conn /\ acks' \in [Conn -> Seq(Nat)]
    <3>1. \A v \in Nat : \A k \in Conn : Append(acks[k], v) \in Seq(Nat)
      BY AppendProperties DEF OfferTypeOK
    <3>2. granted \in [Client -> Nat] /\ open \subseteq Conn /\ acks \in [Conn -> Seq(Nat)]
      BY DEF OfferTypeOK
    <3>3. CASE UNCHANGED <<granted, acks>> /\ open' \subseteq open
      BY <3>2, <3>3
    <3>4. ASSUME NEW v \in Nat, granted' = [granted EXCEPT ![c] = @ + v],
                 acks' = [acks EXCEPT ![<<c, n>>] = Append(@, v)], open' = open
          PROVE  granted' \in [Client -> Nat] /\ open' \subseteq Conn /\ acks' \in [Conn -> Seq(Nat)]
      <4>1. granted' \in [Client -> Nat]
        BY <3>2, <3>4
      <4>2. acks' \in [Conn -> Seq(Nat)]
        BY <3>1, <3>2, <3>4
      <4> QED  BY <3>2, <3>4, <4>1, <4>2
    <3> HIDE DEF r
    <3> QED  BY <2>2, <3>3, <3>4
  <2>4. astray' \in BOOLEAN
    <3>1. astray \in BOOLEAN
      BY DEF OfferTypeOK
    <3> HIDE DEF r
    <3> QED  BY <2>2, <3>1, Zenon
  <2>5. UNCHANGED <<asked, prio, reading, worker, tasks, events, raced>>
    BY <1>4 DEF OnSlotResult
  <2> QED  BY <2>1, <2>3, <2>4, <2>5 DEF OfferTypeOK, worker, tasks
<1>5. CASE DisableWorker(c)
  <2>1. ctl' \in [Client -> Ctl]
    BY <1>1, <1>5, DisableEffect
  <2>2. open' \subseteq open /\ events' \in Nat
    BY <1>1, <1>5 DEF DisableWorker, WithoutConn, Event
  <2>3. UNCHANGED <<asked, granted, results, acks, prio, reading, worker, tasks, raced, astray>>
    BY <1>5 DEF DisableWorker
  <2> QED  BY <2>1, <2>2, <2>3 DEF OfferTypeOK, worker, tasks
<1>6. CASE GiveUp(c)
  <2>1. granted' \in [Client -> Nat] /\ events' \in Nat
    BY <1>6 DEF GiveUp, Event, OfferTypeOK
  <2>2. UNCHANGED <<ctl, asked, net, worker, tasks, raced, astray>>
    BY <1>6 DEF GiveUp
  <2> QED  BY <2>1, <2>2 DEF OfferTypeOK, net, worker, tasks
<1> QED  BY <1>2, <1>3, <1>4, <1>5, <1>6

\* What is on its way to a controller has one result more.
LEMMA ResultAppended ==
    ASSUME results \in [Client -> Seq(Result)], NEW c \in Client, NEW r \in Result,
           results' = [results EXCEPT ![c] = Append(@, r)]
    PROVE  results' \in [Client -> Seq(Result)]
<1>1. Append(results[c], r) \in Seq(Result)
  BY AppendProperties
<1> QED  BY <1>1

\* The clients of the worker.
LEMMA ClientTypes ==
    ASSUME OfferTypeOK, NEW k \in Conn,
           ConnError(k) \/ DealQuerySlot(k) \/ AppendClient(k) \/ CloseRefused(k)
    PROVE  OfferTypeOK'
<1>1. k[1] \in Client /\ k[2] \in Nat
  BY ConnIsPair
<1>2. /\ results \in [Client -> Seq(Result)] /\ clients \in Seq(Known) /\ prio \in [Conn -> Nat]
      /\ deal \in [Conn -> {"none", "check", "append", "refused", "done"}]
  BY DEF OfferTypeOK
<1>3. CASE ConnError(k)
  <2>1. [kind |-> "error", conn |-> k[2], num |-> 0] \in Result
    BY <1>1 DEF Result
  <2>2. results' \in [Client -> Seq(Result)]
    BY <1>1, <1>2, <1>3, <2>1, ResultAppended DEF ConnError
  <2> QED  BY <1>3, <2>2 DEF ConnError, OfferTypeOK, controllers, worker, tasks
<1>4. CASE DealQuerySlot(k)
  <2>1. clients' \in Seq(Known)
    BY <1>4, DealEffect
  <2>2. results' \in [Client -> Seq(Result)]
    <3>1. [kind |-> "refused", conn |-> k[2], num |-> 0] \in Result
      BY <1>1 DEF Result
    <3>2. CASE results' = results
      BY <1>2, <3>2
    <3>3. CASE results' = [results EXCEPT ![k[1]] =
                             Append(@, [kind |-> "refused", conn |-> k[2], num |-> 0])]
      BY <1>1, <1>2, <3>1, <3>3, ResultAppended
    <3> QED  BY <1>4, <3>2, <3>3 DEF DealQuerySlot
  <2>3. deal' \in [Conn -> {"none", "check", "append", "refused", "done"}]
    BY <1>2, <1>4 DEF DealQuerySlot
  <2>4. UNCHANGED <<controllers, acks, open, prio, reading, slots, booked, load, est, tasks, events,
                    raced, astray>>
    BY <1>4 DEF DealQuerySlot
  <2> QED  BY <2>1, <2>2, <2>3, <2>4 DEF OfferTypeOK, controllers, tasks
<1>5. CASE AppendClient(k)
  <2>1. [conn |-> k, priority |-> prio[k]] \in Known
    BY <1>2 DEF Known
  <2>2. clients' \in Seq(Known)
    BY <1>2, <1>5, <2>1, AppendProperties DEF AppendClient
  <2>3. deal' \in [Conn -> {"none", "check", "append", "refused", "done"}]
    BY <1>2, <1>5 DEF AppendClient
  <2>4. UNCHANGED <<controllers, net, slots, booked, load, est, tasks, events, raced, astray>>
    BY <1>5 DEF AppendClient
  <2> QED  BY <2>2, <2>3, <2>4 DEF OfferTypeOK, controllers, net, tasks
<1>6. CASE CloseRefused(k)
  <2>1. open' \subseteq open
        /\ deal' \in [Conn -> {"none", "check", "append", "refused", "done"}]
    BY <1>2, <1>6 DEF CloseRefused
  <2> QED  BY <1>6, <2>1 DEF CloseRefused, OfferTypeOK, controllers, tasks
<1> QED  BY <1>3, <1>4, <1>5, <1>6

\* The estimate goes on to the next client, with what is left.
LEMMA NextClientIs ==
    ASSUME est \in Estimate, NEW n \in Nat, n <= est.avail
    PROVE  /\ NextClient(n) \in Estimate /\ Asked(NextClient(n))
           /\ NextClient(n).pc = "select" /\ NextClient(n).avail = est.avail - n
<1> DEFINE v == est.avail - n
           e1 == [est EXCEPT !.pc = "select"]
           e2 == [e1 EXCEPT !.avail = v]
           e3 == [e2 EXCEPT !.conn = <<>>]
           e4 == [e3 EXCEPT !.num = 0]
<1>1. v \in Nat
  BY DEF Estimate
<1>2. NextClient(n) = e4
  BY DEF NextClient, Estimate
<1> HIDE DEF v
<1>3. e1 \in Estimate /\ e1.pc = "select"
  BY DEF Estimate
<1> HIDE DEF e1
<1>4. e2 \in Estimate /\ e2.pc = "select" /\ e2.avail = v
  BY <1>1, <1>3 DEF Estimate
<1> HIDE DEF e2
<1>5. e3 \in Estimate /\ e3.pc = "select" /\ e3.avail = v
  BY <1>4 DEF Estimate
<1> HIDE DEF e3
<1>6. e4 \in Estimate /\ e4.pc = "select" /\ e4.avail = v
  BY <1>5 DEF Estimate
<1> HIDE DEF e4
<1> QED  BY <1>2, <1>6 DEF Asked, v

\* What else becomes of an answer, or of the connection it should come by.
Lost(k) == \E i \in DOMAIN acks[k] : acks[k][i] > 0
Offered(k) == \E i \in DOMAIN results[k[1]] :
                results[k[1]][i].kind = "offer" /\ results[k[1]][i].conn = k[2]

LEMMA AckEffect ==
    ASSUME OfferTypeOK, ReceiveAck
    PROVE  /\ open' \subseteq open /\ events' \in Nat /\ astray' \in BOOLEAN
           /\ \/ UNCHANGED astray
              \/ astray' = (astray \/ Lost(est.conn))
              \/ astray' = (astray \/ Lost(est.conn) \/ Offered(est.conn))
<1>0. events \in Nat /\ astray \in BOOLEAN
  BY DEF OfferTypeOK
<1>1. \/ UNCHANGED <<open, events, astray>>
      \/ UNCHANGED <<open, events>> /\ astray' = (astray \/ Lost(est.conn))
      \/ /\ open' = open \ {est.conn} /\ Event
         /\ astray' = (astray \/ Lost(est.conn) \/ Offered(est.conn))
  BY Zenon DEF ReceiveAck, Lost, Offered
<1>2. astray' \in BOOLEAN
  BY <1>0, <1>1, Zenon
<1>3. open' \subseteq open /\ events' \in Nat
  BY <1>0, <1>1 DEF Event
<1> QED  BY <1>1, <1>2, <1>3

\* The slots, and estimateSlot.
LEMMA SlotTypes ==
    ASSUME OfferTypeOK,
           CheckClient \/ CheckSlot \/ EstimateSlot \/ SelectClient \/ ReceiveAck \/ Book
    PROVE  OfferTypeOK'
<1>0. /\ est \in Estimate /\ Asked(est) /\ slots \in Seq(Slot) /\ booked \in Nat
      /\ acks \in [Conn -> Seq(Nat)] /\ results \in [Client -> Seq(Result)]
      /\ raced \in BOOLEAN /\ astray \in BOOLEAN
  BY DEF OfferTypeOK
<1>1. CASE CheckClient
  <2>1. clients' \in Seq(Known)
    BY <1>1, CheckClientEffect
  <2>2. slots' \in Seq(Slot) /\ booked' \in Nat /\ raced' \in BOOLEAN /\ astray' \in BOOLEAN
    <3>1. CASE \E gone \in SUBSET DOMAIN slots : Unbook(gone)
      BY <3>1, UnbookEffect
    <3>2. CASE UNCHANGED <<slots, booked, raced, astray>>
      BY <3>2, <1>0
    <3> QED  BY <1>1, <3>1, <3>2, CheckClientEffect
  <2>3. UNCHANGED <<controllers, net, deal, load, est, tasks, events>>
    BY <1>1 DEF CheckClient
  <2> QED  BY <2>1, <2>2, <2>3 DEF OfferTypeOK, controllers, net, tasks
<1>2. CASE CheckSlot
  <2>1. PICK i \in DOMAIN slots : Unbook({i})
    BY <1>2 DEF CheckSlot
  <2>2. {i} \in SUBSET DOMAIN slots
    OBVIOUS
  <2>3. slots' \in Seq(Slot) /\ booked' \in Nat /\ raced' \in BOOLEAN /\ astray' \in BOOLEAN
    BY <2>1, <2>2, UnbookEffect
  <2>4. UNCHANGED <<controllers, net, deal, clients, load, est, tasks, events>>
    BY <1>2 DEF CheckSlot
  <2> QED  BY <2>3, <2>4 DEF OfferTypeOK, controllers, net, tasks
<1>3. CASE EstimateSlot
  <2>0. load \in Read /\ running \in Nat /\ waiting \in Nat
    BY DEF OfferTypeOK
  <2>1. load' \in Read
    <3>1. \/ load' = [load EXCEPT !.step = 1, !.running = running]
          \/ load' = [load EXCEPT !.step = 2, !.booked = booked]
          \/ load' = Unread
      BY <1>3, Zenon DEF EstimateSlot
    <3>2. CASE load' = [load EXCEPT !.step = 1, !.running = running]
      <4> DEFINE l == [load EXCEPT !.step = 1]
      <4>1. l \in Read
        BY <2>0 DEF Read
      <4> HIDE DEF l
      <4>2. [l EXCEPT !.running = running] \in Read
        BY <2>0, <4>1 DEF Read
      <4> QED  BY <3>2, <4>2 DEF l
    <3>3. CASE load' = [load EXCEPT !.step = 2, !.booked = booked]
      <4> DEFINE l == [load EXCEPT !.step = 2]
      <4>1. l \in Read
        BY <2>0 DEF Read
      <4> HIDE DEF l
      <4>2. [l EXCEPT !.booked = booked] \in Read
        BY <1>0, <4>1 DEF Read
      <4> QED  BY <3>3, <4>2 DEF l
    <3>4. CASE load' = Unread
      BY <3>4 DEF Read, Unread
    <3> QED  BY <3>1, <3>2, <3>3, <3>4
  <2>2. est' \in Estimate /\ Asked(est') /\ astray' \in BOOLEAN
    <3>1. CASE UNCHANGED <<est, astray>>
      BY <1>0, <3>1
    <3>2. ASSUME NEW v \in Nat, est' = [Resting EXCEPT !.pc = "select", !.avail = v],
                 astray' = (astray \/ running > load.running \/ got > Total(note))
          PROVE  est' \in Estimate /\ Asked(est') /\ astray' \in BOOLEAN
      <4>1. astray' \in BOOLEAN
        BY <3>2, Zenon
      <4> QED  BY <3>2, <4>1 DEF Resting, Estimate, Asked
    <3>3. Available - load.running - load.booked - waiting \in Int
      BY <2>0, OfferAssumption DEF Read
    <3>4. UNCHANGED <<est, astray>>
          \/ \E v \in Nat : /\ est' = [Resting EXCEPT !.pc = "select", !.avail = v]
                           /\ astray' = (astray \/ running > load.running \/ got > Total(note))
      <4> DEFINE v == Available - load.running - load.booked - waiting
      <4>1. UNCHANGED <<est, astray>>
            \/ /\ v > 0 /\ est' = [Resting EXCEPT !.pc = "select", !.avail = v]
               /\ astray' = (astray \/ running > load.running \/ got > Total(note))
        BY <1>3 DEF EstimateSlot
      <4>2. v > 0 => v \in Nat
        BY <3>3
      <4> HIDE DEF v
      <4> QED  BY <4>1, <4>2
    <3> QED  BY <3>1, <3>2, <3>4
  <2>3. UNCHANGED <<controllers, net, deal, clients, slots, booked, tasks, events, raced>>
    BY <1>3 DEF EstimateSlot
  <2> QED  BY <2>1, <2>2, <2>3 DEF OfferTypeOK, controllers, net, tasks
<1>4. CASE SelectClient
  <2>1. est' \in Estimate /\ Asked(est') /\ results' \in [Client -> Seq(Result)]
    <3>1. CASE est' = Resting /\ UNCHANGED results
      BY <1>0, <3>1 DEF Resting, Estimate, Asked
    <3>2. ASSUME NEW k \in Conn, est' = [est EXCEPT !.excludes = @ \cup {k}], UNCHANGED results
          PROVE  est' \in Estimate /\ Asked(est') /\ results' \in [Client -> Seq(Result)]
      BY <1>0, <3>2 DEF Estimate, Asked
    <3>3. ASSUME NEW k \in Conn,
                 est' = [est EXCEPT !.pc = "ack", !.conn = k, !.excludes = @ \cup {k}],
                 results' = [results EXCEPT ![k[1]] = Append(@, Offer(k[2], est.avail))]
          PROVE  est' \in Estimate /\ Asked(est') /\ results' \in [Client -> Seq(Result)]
      <4>1. est' \in Estimate /\ Asked(est')
        BY <1>0, <3>3 DEF Estimate, Asked
      <4>2. Offer(k[2], est.avail) \in Result /\ k[1] \in Client
        BY <1>0, ConnIsPair DEF Offer, Result, Estimate
      <4> QED  BY <1>0, <3>3, <4>1, <4>2, ResultAppended
    <3> QED  BY <1>4, <3>1, <3>2, <3>3, SelectEffect
  <2> QED  BY <1>4, <2>1 DEF SelectClient, OfferTypeOK, controllers, tasks
<1>5. CASE ReceiveAck
  <2> DEFINE k == est.conn
  <2>1. k \in Conn /\ est.pc = "ack"
    BY <1>0, <1>5 DEF ReceiveAck, Asked
  <2>2. acks' \in [Conn -> Seq(Nat)]
    <3>1. acks[k] # <<>> => Tail(acks[k]) \in Seq(Nat)
      BY <1>0, <2>1, HeadTailProperties
    <3>2. \/ acks[k] # <<>> /\ acks' = [acks EXCEPT ![k] = Tail(@)]
          \/ acks' = [acks EXCEPT ![k] = <<>>]
      BY <1>5, Zenon DEF ReceiveAck
    <3>3. PICK u \in Seq(Nat) : acks' = [acks EXCEPT ![k] = u]
      <4>1. <<>> \in Seq(Nat)
        OBVIOUS
      <4> QED  BY <3>1, <3>2, <4>1
    <3> HIDE DEF k
    <3> QED  BY <1>0, <3>3
  <2>3. est' \in Estimate /\ Asked(est')
    <3>1. NextClient(0) \in Estimate /\ Asked(NextClient(0))
      <4>1. 0 <= est.avail
        BY <1>0 DEF Estimate
      <4> QED  BY <1>0, <4>1, NextClientIs
    <3>2. ASSUME acks[k] # <<>>, est' = [est EXCEPT !.pc = "book", !.num = Head(acks[k])],
                 Head(acks[k]) > 0
          PROVE  est' \in Estimate /\ Asked(est')
      <4>1. Head(acks[k]) \in Nat /\ Head(acks[k]) # 0
        BY <1>0, <2>1, <3>2, HeadTailProperties
      <4> QED  BY <1>0, <2>1, <3>2, <4>1 DEF Estimate, Asked
    <3> QED  BY <1>5, <3>1, <3>2 DEF ReceiveAck
  <2>4. astray' \in BOOLEAN
    BY <1>0, <1>5, AckEffect
  <2>5. open' \subseteq open /\ events' \in Nat
    BY <1>5, AckEffect
  <2>6. UNCHANGED <<controllers, results, prio, reading, deal, clients, slots, booked, load, tasks,
                    raced>>
    BY <1>5 DEF ReceiveAck
  <2> QED  BY <2>2, <2>3, <2>4, <2>5, <2>6 DEF OfferTypeOK, controllers, tasks
<1>6. CASE Book
  <2>1. UNCHANGED <<controllers, net, deal, clients, load, tasks, events, raced, astray>>
    BY <1>6 DEF Book
  <2>2. est' \in Estimate /\ Asked(est') /\ booked' \in Nat /\ slots' \in Seq(Slot)
    <3>1. CASE /\ est.pc = "book" /\ est' = [est EXCEPT !.pc = "write", !.read = booked]
               /\ UNCHANGED <<slots, booked>>
      BY <1>0, <3>1 DEF Estimate, Asked
    <3>2. CASE /\ est.pc = "write" /\ booked' = est.read + est.num
               /\ est' = [est EXCEPT !.pc = "record", !.read = 0] /\ UNCHANGED slots
      <4>1. est.read \in Nat /\ est.num \in Nat
        BY <1>0 DEF Estimate
      <4>2. est' \in Estimate /\ Asked(est')
        BY <1>0, <3>2 DEF Estimate, Asked
      <4> QED  BY <1>0, <3>2, <4>1, <4>2
    <3>3. CASE /\ est.pc = "record"
               /\ slots' = Append(slots, [conn |-> est.conn, num |-> est.num])
               /\ est' = IF est.avail > est.num THEN NextClient(est.num) ELSE Resting
               /\ UNCHANGED booked
      <4>1. [conn |-> est.conn, num |-> est.num] \in Slot
        BY <1>0, <3>3 DEF Slot, Estimate, Asked
      <4>2. slots' \in Seq(Slot)
        BY <1>0, <3>3, <4>1, AppendProperties
      <4>3. CASE est.avail > est.num
        <5>1. est.num \in Nat /\ est.num <= est.avail
          BY <1>0, <4>3 DEF Estimate
        <5>2. est' = NextClient(est.num)
          BY <3>3, <4>3
        <5>3. est' \in Estimate /\ Asked(est')
          BY <1>0, <5>1, <5>2, NextClientIs
        <5> QED  BY <1>0, <3>3, <4>2, <5>3
      <4>4. CASE ~ est.avail > est.num
        <5>1. est' = Resting
          BY <3>3, <4>4
        <5> QED  BY <1>0, <3>3, <4>2, <5>1 DEF Resting, Estimate, Asked
      <4> QED  BY <4>3, <4>4
    <3> QED  BY <1>6, <3>1, <3>2, <3>3 DEF Book
  <2> QED  BY <2>1, <2>2 DEF OfferTypeOK, controllers, net, tasks
<1> QED  BY <1>1, <1>2, <1>3, <1>4, <1>5, <1>6

\* Tasks, and a restart.
LEMMA TaskTypes ==
    ASSUME OfferTypeOK,
           \/ \E c \in Client : ReceiveTask(c) \/ OnTaskReceived(c)
           \/ ObtainChance \/ FreeChance \/ CheckCmds \/ Restart
    PROVE  OfferTypeOK'
<1>1. ASSUME NEW c \in Client, ReceiveTask(c)
      PROVE  OfferTypeOK'
  <2>1. granted' \in [Client -> Nat] /\ extra' \in [Client -> Nat] /\ events' \in Nat
    <3>1. granted \in [Client -> Nat] /\ extra \in [Client -> Nat] /\ events \in Nat
      BY DEF OfferTypeOK
    <3>2. \/ /\ granted[c] > 0 /\ granted' = [granted EXCEPT ![c] = @ - 1]
             /\ UNCHANGED <<extra, events>>
          \/ Event /\ extra' = [extra EXCEPT ![c] = @ + 1] /\ UNCHANGED granted
      BY <1>1, Zenon DEF ReceiveTask
    <3>3. CASE /\ granted[c] > 0 /\ granted' = [granted EXCEPT ![c] = @ - 1]
               /\ UNCHANGED <<extra, events>>
      <4>1. granted[c] - 1 \in Nat
        BY <3>1, <3>3
      <4> QED  BY <3>1, <3>3, <4>1
    <3>4. CASE Event /\ extra' = [extra EXCEPT ![c] = @ + 1] /\ UNCHANGED granted
      BY <3>1, <3>4 DEF Event
    <3> QED  BY <3>2, <3>3, <3>4
  <2>2. note' \in [Client -> Nat] /\ got' \in Nat
    BY <1>1 DEF ReceiveTask, OfferTypeOK
  <2> QED  BY <1>1, <2>1, <2>2 DEF ReceiveTask, OfferTypeOK, net, worker
<1>2. ASSUME NEW c \in Client, OnTaskReceived(c)
      PROVE  OfferTypeOK'
  <2>1. note' \in [Client -> Nat]
    BY <1>2 DEF OnTaskReceived, OfferTypeOK
  <2>2. slots' \in Seq(Slot) /\ booked' \in Nat /\ raced' \in BOOLEAN
    <3>1. booked \in Nat /\ slots \in Seq(Slot) /\ raced \in BOOLEAN
      BY DEF OfferTypeOK
    <3>2. (IF booked > 0 THEN booked - 1 ELSE 0) \in Nat
      BY <3>1
    <3> QED  BY <1>2, <3>1, <3>2, TaskReceivedEffect
  <2>3. UNCHANGED <<controllers, net, deal, clients, load, est, got, running, waiting, extra, events,
                    astray>>
    BY <1>2 DEF OnTaskReceived
  <2> QED  BY <2>1, <2>2, <2>3 DEF OfferTypeOK, controllers, net
<1>3. CASE ObtainChance \/ FreeChance \/ CheckCmds
  <2>1. got' \in Nat /\ running' \in Nat /\ waiting' \in Nat
    BY <1>3 DEF ObtainChance, FreeChance, CheckCmds, OfferTypeOK
  <2>2. UNCHANGED <<controllers, net, worker, note, extra, events, raced, astray>>
    BY <1>3 DEF ObtainChance, FreeChance, CheckCmds
  <2> QED  BY <2>1, <2>2 DEF OfferTypeOK, controllers, net, worker
<1>4. CASE Restart
  <2>1. /\ open' = {} /\ clients' = <<>> /\ slots' = <<>> /\ booked' = 0 /\ est' = Resting
        /\ acks' = [k \in Conn |-> <<>>] /\ note' = [c \in Client |-> 0] /\ got' = 0
        /\ running' = 0 /\ waiting' = 0 /\ load' = Unread
        /\ deal' = [k \in Conn |-> IF deal[k] = "none" THEN "none" ELSE "done"]
        /\ UNCHANGED <<controllers, results, prio, reading, extra, raced>>
    BY <1>4 DEF Restart
  <2>2. astray' \in BOOLEAN
    BY <1>4, Zenon DEF Restart
  <2>3. events' \in Nat
    BY <1>4 DEF Restart, Event, OfferTypeOK
  <2>4. load' \in Read /\ est' \in Estimate /\ Asked(est')
    BY <2>1 DEF Unread, Resting, Read, Estimate, Asked
  <2>5. clients' \in Seq(Known) /\ slots' \in Seq(Slot) /\ acks' \in [Conn -> Seq(Nat)]
        /\ note' \in [Client -> Nat]
    BY <2>1
  <2>6. deal' \in [Conn -> {"none", "check", "append", "refused", "done"}]
    BY <2>1
  <2> QED  BY <2>1, <2>2, <2>3, <2>4, <2>5, <2>6 DEF OfferTypeOK, controllers
<1> QED  BY <1>1, <1>2, <1>3, <1>4

LEMMA OfferTypes == OfferTypeOK /\ [OfferNext]_offerVars => OfferTypeOK'
<1> SUFFICES ASSUME OfferTypeOK, [OfferNext]_offerVars PROVE OfferTypeOK'
  OBVIOUS
<1>1. CASE UNCHANGED offerVars
  BY <1>1 DEF offerVars, controllers, net, worker, tasks, OfferTypeOK
<1>2. CASE OfferNext
  BY <1>2, ControllerTypes, ClientTypes, SlotTypes, TaskTypes DEF OfferNext
<1> QED  BY <1>1, <1>2

-----------------------------------------------------------------------------
(* bookedSlotNum.                                                          *)

\* The count is what the slots add up to, and what estimateSlot adds before it
\* has recorded the slots; it adds to what it has read.
BookedInv ==
    ~raced =>
      /\ booked = All(slots) + (IF est.pc = "record" THEN est.num ELSE 0)
      /\ est.pc = "write" => est.read = booked

\* estimateSlot reads when it offers nothing, and nothing is booked meanwhile.
ReadInv ==
    /\ load.step # 0 => est.pc = "idle"
    /\ load.step = 2 => booked <= load.booked

\* How far estimateSlot is after its steps.
LEMMA Phases ==
    ASSUME OfferTypeOK, ReadInv
    PROVE  /\ EstimateSlot => est.pc = "idle" /\ est'.pc \in {"idle", "select"}
           /\ SelectClient => est.pc = "select" /\ est'.pc \in {"idle", "select", "ack"}
           /\ ReceiveAck => est.pc = "ack" /\ est'.pc \in {"book", "select"}
           /\ Book => est'.pc # "ack"
<1>0. est \in Estimate /\ acks \in [Conn -> Seq(Nat)] /\ Asked(est)
  BY DEF OfferTypeOK
<1>1. ASSUME EstimateSlot PROVE est.pc = "idle" /\ est'.pc \in {"idle", "select"}
  <2>1. (load.step = 0 /\ est.pc = "idle") \/ load.step = 1 \/ load.step = 2
    BY <1>1, Zenon DEF EstimateSlot
  <2>2. est.pc = "idle"
    BY <2>1 DEF ReadInv
  <2>3. est' = est \/ \E v : est' = [Resting EXCEPT !.pc = "select", !.avail = v]
    BY <1>1, Zenon DEF EstimateSlot
  <2> QED  BY <2>2, <2>3 DEF Resting
<1>2. ASSUME SelectClient PROVE est.pc = "select" /\ est'.pc \in {"idle", "select", "ack"}
  <2>1. est.pc = "select"
    BY <1>2 DEF SelectClient
  <2>2. \/ est' = Resting
        \/ \E k \in Conn : est' = [est EXCEPT !.excludes = @ \cup {k}]
        \/ \E k \in Conn : est' = [est EXCEPT !.pc = "ack", !.conn = k, !.excludes = @ \cup {k}]
    BY <1>2, SelectEffect
  <2>3. CASE est' = Resting
    BY <2>1, <2>3 DEF Resting
  <2>4. ASSUME NEW k \in Conn, est' = [est EXCEPT !.excludes = @ \cup {k}]
        PROVE  est'.pc = "select"
    BY <1>0, <2>1, <2>4 DEF Estimate
  <2>5. ASSUME NEW k \in Conn,
               est' = [est EXCEPT !.pc = "ack", !.conn = k, !.excludes = @ \cup {k}]
        PROVE  est'.pc = "ack"
    BY <1>0, <2>5 DEF Estimate
  <2> QED  BY <2>1, <2>2, <2>3, <2>4, <2>5
<1>3. ASSUME ReceiveAck PROVE est.pc = "ack" /\ est'.pc \in {"book", "select"}
  <2>1. est.pc = "ack"
    BY <1>3 DEF ReceiveAck
  <2>2. est'.pc = "book" \/ est' = NextClient(0)
    BY <1>0, <1>3 DEF ReceiveAck, Estimate
  <2>3. 0 <= est.avail
    BY <1>0 DEF Estimate
  <2> QED  BY <1>0, <2>1, <2>2, <2>3, NextClientIs
<1>4. ASSUME Book PROVE est'.pc # "ack"
  <2>1. CASE est' = [est EXCEPT !.pc = "write", !.read = booked]
    BY <1>0, <2>1 DEF Estimate
  <2>2. CASE est' = [est EXCEPT !.pc = "record", !.read = 0]
    BY <1>0, <2>2 DEF Estimate
  <2>3. CASE est' = IF est.avail > est.num THEN NextClient(est.num) ELSE Resting
    <3>1. CASE est.avail > est.num
      <4>1. est.num \in Nat /\ est.num <= est.avail
        BY <1>0, <3>1 DEF Estimate
      <4> QED  BY <1>0, <2>3, <3>1, <4>1, NextClientIs
    <3>2. CASE ~ est.avail > est.num
      BY <2>3, <3>2 DEF Resting
    <3> QED  BY <3>1, <3>2
  <2> QED  BY <1>4, <2>1, <2>2, <2>3 DEF Book
<1> QED  BY <1>1, <1>2, <1>3, <1>4

\* Slots that are given back are given back in the count too.
LEMMA UnbookKeepsCount ==
    ASSUME OfferTypeOK, BookedInv, NEW gone \in SUBSET DOMAIN slots, Unbook(gone), est' = est
    PROVE  BookedInv'
<1>1. raced' = (raced \/ est.pc = "write") /\ slots' \in Seq(Slot) /\ booked' \in Nat
      /\ (booked >= All(slots) => booked - booked' = All(slots) - All(slots'))
  BY UnbookEffect
<1>2. SUFFICES ASSUME ~raced, est.pc # "write"
               PROVE  booked' = All(slots') + (IF est.pc = "record" THEN est.num ELSE 0)
  BY <1>1 DEF BookedInv
<1>3. All(slots) \in Nat /\ All(slots') \in Nat /\ booked \in Nat /\ est.num \in Nat
  BY <1>1, SlotsAreNat DEF OfferTypeOK, Estimate
<1>4. booked = All(slots) + (IF est.pc = "record" THEN est.num ELSE 0)
  BY <1>2 DEF BookedInv
<1> QED  BY <1>1, <1>3, <1>4

LEMMA ReadStep ==
    ASSUME OfferTypeOK, ReadInv, [OfferNext]_offerVars
    PROVE  ReadInv'
<1>0. load \in Read /\ est \in Estimate /\ booked \in Nat
  BY DEF OfferTypeOK
<1>1. ASSUME UNCHANGED <<load, est>>, booked' \in Nat, booked' <= booked PROVE ReadInv'
  BY <1>0, <1>1 DEF ReadInv, Read
<1>2. ASSUME NEW gone \in SUBSET DOMAIN slots, Unbook(gone), UNCHANGED <<load, est>> PROVE ReadInv'
  BY <1>1, <1>2, UnbookEffect
<1>3. CASE CheckClient
  <2>1. UNCHANGED <<load, est>>
    BY <1>3 DEF CheckClient
  <2>2. (\E gone \in SUBSET DOMAIN slots : Unbook(gone)) \/ UNCHANGED booked
    BY <1>3, CheckClientEffect
  <2> QED  BY <1>0, <1>1, <1>2, <2>1, <2>2
<1>4. CASE CheckSlot
  <2>1. UNCHANGED <<load, est>>
    BY <1>4 DEF CheckSlot
  <2>2. PICK i \in DOMAIN slots : Unbook({i})
    BY <1>4 DEF CheckSlot
  <2>3. {i} \in SUBSET DOMAIN slots
    OBVIOUS
  <2> QED  BY <1>2, <2>1, <2>2, <2>3
<1>5. CASE EstimateSlot
  <2>1. UNCHANGED booked
    BY <1>5 DEF EstimateSlot
  <2>2. CASE load' = Unread
    BY <2>2 DEF ReadInv, Unread
  <2>3. CASE load.step = 0 /\ est.pc = "idle" /\ UNCHANGED est
             /\ load' = [load EXCEPT !.step = 1, !.running = running]
    BY <1>0, <2>3 DEF ReadInv, Read
  <2>4. CASE load.step = 1 /\ UNCHANGED est
             /\ load' = [load EXCEPT !.step = 2, !.booked = booked]
    BY <1>0, <2>1, <2>4 DEF ReadInv, Read
  <2> QED  BY <1>5, <2>2, <2>3, <2>4 DEF EstimateSlot
<1>6. CASE SelectClient \/ ReceiveAck \/ Book
  <2>1. est.pc # "idle" /\ UNCHANGED load
    BY <1>6 DEF SelectClient, ReceiveAck, Book
  <2> QED  BY <2>1 DEF ReadInv
<1>7. ASSUME NEW c \in Client, OnTaskReceived(c)
      PROVE  ReadInv'
  <2>1. UNCHANGED <<load, est>>
    BY <1>7 DEF OnTaskReceived
  <2>2. UNCHANGED booked \/ booked' = (IF booked > 0 THEN booked - 1 ELSE 0)
    BY <1>7, TaskReceivedEffect
  <2>3. booked' \in Nat /\ booked' <= booked
    BY <1>0, <2>2
  <2> QED  BY <1>1, <2>1, <2>3
<1>8. CASE Restart
  BY <1>8 DEF Restart, Unread, ReadInv
<1>9. ASSUME UNCHANGED worker \/ UNCHANGED <<load, est, booked>> PROVE ReadInv'
  BY <1>0, <1>1, <1>9 DEF worker
<1>10. ASSUME NEW c \in Client,
              GetSlot(c) \/ QuerySlot(c) \/ OnSlotResult(c) \/ JobCheck(c) \/ DisableWorker(c)
                \/ EnableWorker(c) \/ OnSlotEmpty(c) \/ GiveUp(c) \/ ReceiveTask(c)
       PROVE  ReadInv'
  BY <1>9, <1>10 DEF GetSlot, QuerySlot, OnSlotResult, JobCheck, DisableWorker, EnableWorker,
                     OnSlotEmpty, GiveUp, ReceiveTask
<1>11. ASSUME NEW k \in Conn,
              ConnError(k) \/ DealQuerySlot(k) \/ AppendClient(k) \/ CloseRefused(k)
       PROVE  ReadInv'
  BY <1>9, <1>11 DEF ConnError, DealQuerySlot, AppendClient, CloseRefused
<1>12. CASE ObtainChance \/ FreeChance \/ CheckCmds \/ UNCHANGED offerVars
  BY <1>9, <1>12 DEF ObtainChance, FreeChance, CheckCmds, offerVars
<1> QED  BY <1>3, <1>4, <1>5, <1>6, <1>7, <1>8, <1>10, <1>11, <1>12 DEF OfferNext

LEMMA BookedStep ==
    ASSUME OfferTypeOK, ReadInv, BookedInv, [OfferNext]_offerVars
    PROVE  BookedInv'
<1>0. /\ est \in Estimate /\ slots \in Seq(Slot) /\ booked \in Nat /\ All(slots) \in Nat
      /\ est.num \in Nat /\ est.read \in Nat
  BY SlotsAreNat DEF OfferTypeOK, Estimate
<1>1. CASE UNCHANGED <<slots, booked, est, raced>>
  BY <1>1 DEF BookedInv
<1>2. CASE UNCHANGED <<slots, booked, raced>> /\ (EstimateSlot \/ SelectClient \/ ReceiveAck)
  <2>1. est.pc # "record" /\ est'.pc # "record" /\ est'.pc # "write"
    BY <1>2, Phases
  <2> QED  BY <1>2, <2>1 DEF BookedInv
<1>3. CASE Book
  <2>1. UNCHANGED raced
    BY <1>3 DEF Book
  <2>2. SUFFICES ASSUME ~raced PROVE BookedInv'
    BY <2>1 DEF BookedInv
  <2>3. CASE /\ est.pc = "book" /\ est' = [est EXCEPT !.pc = "write", !.read = booked]
             /\ UNCHANGED <<slots, booked>>
    <3>1. est'.pc = "write" /\ est'.read = booked
      BY <1>0, <2>3 DEF Estimate
    <3> QED  BY <2>2, <2>3, <3>1 DEF BookedInv
  <2>4. CASE /\ est.pc = "write" /\ booked' = est.read + est.num
             /\ est' = [est EXCEPT !.pc = "record", !.read = 0] /\ UNCHANGED slots
    <3>1. est'.pc = "record" /\ est'.num = est.num
      BY <1>0, <2>4 DEF Estimate
    <3>2. booked = All(slots) /\ est.read = booked
      BY <1>0, <2>2, <2>4 DEF BookedInv
    <3> QED  BY <2>2, <2>4, <3>1, <3>2 DEF BookedInv
  <2>5. CASE /\ est.pc = "record"
             /\ slots' = Append(slots, [conn |-> est.conn, num |-> est.num])
             /\ est' = IF est.avail > est.num THEN NextClient(est.num) ELSE Resting
             /\ UNCHANGED booked
    <3>1. [conn |-> est.conn, num |-> est.num] \in Slot
      BY <2>5 DEF OfferTypeOK, Asked, Estimate, Slot
    <3>2. All(slots') = All(slots) + est.num
      BY <1>0, <2>5, <3>1, AppendedSlots
    <3>3. est'.pc \in {"idle", "select"}
      <4>1. CASE est.avail > est.num
        <5>1. est.num <= est.avail
          BY <1>0, <4>1 DEF Estimate
        <5>2. est' = NextClient(est.num)
          BY <2>5, <4>1
        <5> QED  BY <1>0, <5>1, <5>2, NextClientIs
      <4>2. CASE ~ est.avail > est.num
        BY <2>5, <4>2 DEF Resting
      <4> QED  BY <4>1, <4>2
    <3>4. booked = All(slots) + est.num
      BY <2>2, <2>5 DEF BookedInv
    <3> QED  BY <1>0, <2>5, <3>2, <3>3, <3>4 DEF BookedInv
  <2> QED  BY <1>3, <2>3, <2>4, <2>5 DEF Book
<1>4. CASE CheckClient
  <2>1. est' = est
    BY <1>4 DEF CheckClient
  <2> QED  BY <1>1, <1>4, <2>1, CheckClientEffect, UnbookKeepsCount
<1>5. CASE CheckSlot
  <2>1. est' = est /\ \E i \in DOMAIN slots : Unbook({i})
    BY <1>5 DEF CheckSlot
  <2>2. \A i \in DOMAIN slots : {i} \in SUBSET DOMAIN slots
    OBVIOUS
  <2> QED  BY <2>1, <2>2, UnbookKeepsCount
<1>6. ASSUME NEW c \in Client, OnTaskReceived(c)
      PROVE  BookedInv'
  <2>1. est' = est
    BY <1>6 DEF OnTaskReceived
  <2>2. CASE UNCHANGED <<slots, booked, raced>>
    BY <1>1, <2>1, <2>2
  <2>3. CASE /\ slots' \in Seq(Slot) /\ booked' = (IF booked > 0 THEN booked - 1 ELSE 0)
             /\ All(slots') = All(slots) - 1 /\ raced' = (raced \/ est.pc = "write")
    <3>1. SUFFICES ASSUME ~raced, est.pc # "write"
                   PROVE  booked' = All(slots') + (IF est.pc = "record" THEN est.num ELSE 0)
      BY <2>1, <2>3 DEF BookedInv
    <3>2. All(slots') \in Nat
      BY <2>3, SlotsAreNat
    <3>3. booked = All(slots) + (IF est.pc = "record" THEN est.num ELSE 0)
      BY <3>1 DEF BookedInv
    <3> QED  BY <1>0, <2>3, <3>2, <3>3
  <2> QED  BY <1>6, <2>2, <2>3, TaskReceivedEffect
<1>7. CASE Restart
  <2>1. slots' = <<>> /\ booked' = 0 /\ est' = Resting
    BY <1>7 DEF Restart
  <2>2. All(slots') = 0
    <3>1. DOMAIN slots' = {}
      BY <2>1
    <3> QED  BY <3>1, SumEmpty DEF All
  <2> QED  BY <2>1, <2>2 DEF BookedInv, Resting
<1>8. ASSUME NEW c \in Client,
             GetSlot(c) \/ QuerySlot(c) \/ OnSlotResult(c) \/ JobCheck(c) \/ DisableWorker(c)
               \/ EnableWorker(c) \/ OnSlotEmpty(c) \/ GiveUp(c) \/ ReceiveTask(c)
      PROVE  UNCHANGED <<slots, booked, est, raced>>
  BY <1>8 DEF GetSlot, QuerySlot, OnSlotResult, JobCheck, DisableWorker, EnableWorker,
              OnSlotEmpty, GiveUp, ReceiveTask, worker
<1>9. ASSUME NEW k \in Conn,
             ConnError(k) \/ DealQuerySlot(k) \/ AppendClient(k) \/ CloseRefused(k)
      PROVE  UNCHANGED <<slots, booked, est, raced>>
  BY <1>9 DEF ConnError, DealQuerySlot, AppendClient, CloseRefused, worker
<1>10. CASE ObtainChance \/ FreeChance \/ CheckCmds \/ UNCHANGED offerVars
  BY <1>1, <1>10 DEF ObtainChance, FreeChance, CheckCmds, offerVars, worker
<1>11. CASE EstimateSlot \/ SelectClient \/ ReceiveAck
  <2>1. UNCHANGED <<slots, booked, raced>>
    BY <1>11 DEF EstimateSlot, SelectClient, ReceiveAck
  <2> QED  BY <1>2, <1>11, <2>1
<1> QED  BY <1>1, <1>3, <1>4, <1>5, <1>6, <1>7, <1>8, <1>9, <1>10, <1>11 DEF OfferNext

-----------------------------------------------------------------------------
(* Connections.                                                            *)

\* The controller has the connection only as long as it is open.
Backed(ct, op, k) == ct[k[1]].conn = k[2] => k \in op

\* ct is the worker of each controller, op the open connections, de what the
\* worker does with the query of each, ca its clients, es the estimate, re the
\* results.  A connection with a query was opened; one that is asked is closed
\* by nobody but its controller.
ConnFacts(ct, op, de, ca, es, re) ==
    /\ \A k \in Conn : de[k] # "none" => k[2] <= ct[k[1]].opened
    /\ \A k \in op : de[k] # "none"
    /\ \A i \in DOMAIN ca : de[ca[i].conn] = "done"
    /\ es.pc = "ack" => de[es.conn] = "done" /\ Backed(ct, op, es.conn)
    /\ \A c \in Client : \A i \in DOMAIN re[c] : re[c][i].kind = "offer" =>
         <<c, re[c][i].conn>> \in Conn /\ de[<<c, re[c][i].conn>>] # "none"
ConnInv == ConnFacts(ctl, open, deal, clients, est, results)

LEMMA ClientsAreKnown ==
    ASSUME OfferTypeOK
    PROVE  \A i \in DOMAIN clients : clients[i] \in Known /\ clients[i].conn \in Conn
<1>1. DOMAIN clients = 1..Len(clients) /\ clients \in Seq(Known)
  BY LenProperties DEF OfferTypeOK
<1>2. \A i \in DOMAIN clients : clients[i] \in Known
  BY <1>1, ElementOfSeq
<1> QED  BY <1>2 DEF Known

\* A connection is closed by its controller, which forgets it.
LEMMA ForgottenIsClosed ==
    ASSUME OfferTypeOK, ConnInv, NEW c \in Client,
           NEW ct, \A d \in Client \ {c} : ct[d] = ctl[d],
           ct[c].conn = 0, ct[c].opened = ctl[c].opened
    PROVE  ConnFacts(ct, open \ {<<c, ctl[c].conn>>}, deal, clients, est, results)
<1> DEFINE op == open \ {<<c, ctl[c].conn>>}
<1>1. ASSUME NEW k \in Conn, Backed(ctl, open, k) PROVE Backed(ct, op, k)
  <2>1. k[1] \in Client /\ k[2] \in 1..MaxConn(k[1]) /\ k[2] \in Nat /\ k = <<k[1], k[2]>>
    BY ConnIsPair
  <2>2. k[2] # 0
    BY <2>1
  <2>3. CASE k[1] = c
    BY <2>2, <2>3 DEF Backed
  <2>4. CASE k[1] # c
    <3>1. k # <<c, ctl[c].conn>>
      BY <2>1, <2>4
    <3> QED  BY <1>1, <2>1, <2>4, <3>1 DEF Backed
  <2> QED  BY <2>3, <2>4
<1>2. \A d \in Client : ct[d].opened = ctl[d].opened
  OBVIOUS
<1>3. \A k \in Conn : k[1] \in Client
  BY ConnIsPair
<1>4. \A i \in DOMAIN clients : clients[i].conn \in Conn
  BY ClientsAreKnown
<1>5. est.pc = "ack" => est.conn \in Conn
  BY DEF OfferTypeOK, Asked
<1>6. op \subseteq open
  OBVIOUS
<1> HIDE DEF op
<1> QED  BY <1>1, <1>2, <1>3, <1>4, <1>5, <1>6 DEF ConnInv, ConnFacts, op

\* Nothing that ConnInv says depends on more than these.
LEMMA ConnStays ==
    ASSUME OfferTypeOK, ConnInv, SameConns(ctl', ctl), UNCHANGED <<open, deal, clients>>,
           est'.pc = "ack" => est.pc = "ack" /\ est'.conn = est.conn,
           \A c \in Client : \A i \in DOMAIN results'[c] : results'[c][i].kind = "offer" =>
              \E j \in DOMAIN results[c] : results[c][j] = results'[c][i]
    PROVE  ConnInv'
<1>1. \A k \in Conn : k[1] \in Client
  BY ConnIsPair
<1>2. \A k \in Conn : Backed(ctl', open', k) <=> Backed(ctl, open, k)
  BY <1>1 DEF Backed, SameConns
<1>3. \A i \in DOMAIN clients : clients[i].conn \in Conn
  BY ClientsAreKnown
<1>4. est.pc = "ack" => est.conn \in Conn
  BY DEF OfferTypeOK, Asked
<1>5. \A k \in Conn : ctl'[k[1]].opened = ctl[k[1]].opened
  BY <1>1 DEF SameConns
<1>6. ConnFacts(ctl', open', deal', clients', est', results')
  <2>1. \A c \in Client : \A i \in DOMAIN results'[c] : results'[c][i].kind = "offer" =>
         <<c, results'[c][i].conn>> \in Conn /\ deal[<<c, results'[c][i].conn>>] # "none"
    BY DEF ConnInv, ConnFacts
  <2> QED  BY <1>2, <1>3, <1>4, <1>5, <2>1 DEF ConnInv, ConnFacts
<1> QED  BY <1>6 DEF ConnInv

\* The results that are left when the first is taken, or one is added.
LEMMA TailElements ==
    ASSUME NEW T, NEW s \in Seq(T), s # <<>>
    PROVE  /\ Head(s) = s[1] /\ 1 \in DOMAIN s /\ Tail(s) \in Seq(T)
           /\ \A i \in DOMAIN Tail(s) : i + 1 \in DOMAIN s /\ Tail(s)[i] = s[i + 1] /\ i # 0 /\ i \in Nat
<1>1. DOMAIN s = 1..Len(s) /\ Len(s) \in Nat /\ Len(s) # 0
  BY LenProperties, EmptySeq
<1>2. /\ Head(s) = s[1] /\ Tail(s) \in Seq(T) /\ Len(Tail(s)) = Len(s) - 1
      /\ \A i \in 1..Len(Tail(s)) : Tail(s)[i] = s[i + 1]
  BY HeadTailProperties
<1>3. DOMAIN Tail(s) = 1..Len(Tail(s))
  BY <1>2, LenProperties
<1> QED  BY <1>1, <1>2, <1>3

\* t is s with r at n, which is no index of s.
Longer(t, s, r, n) ==
    /\ n \notin DOMAIN s /\ DOMAIN t = DOMAIN s \cup {n}
    /\ t[n] = r /\ \A i \in DOMAIN s : t[i] = s[i]

LEMMA AppendElements ==
    ASSUME NEW T, NEW s \in Seq(T), NEW r \in T
    PROVE  \E n : Longer(Append(s, r), s, r, n)
<1> DEFINE n == Len(s) + 1
<1>1. /\ DOMAIN s = 1..Len(s) /\ Len(s) \in Nat /\ DOMAIN Append(s, r) = 1..n
      /\ Append(s, r)[n] = r /\ \A i \in 1..Len(s) : Append(s, r)[i] = s[i]
  BY AppendProperties, LenProperties
<1>2. n \notin DOMAIN s /\ DOMAIN Append(s, r) = DOMAIN s \cup {n}
  BY <1>1
<1> HIDE DEF n
<1>3. Longer(Append(s, r), s, r, n)
  BY <1>1, <1>2 DEF Longer
<1> QED  BY <1>3

\* No offer comes with a result that is taken, or with a refusal or an error.
LEMMA OffersStay ==
    ASSUME results \in [Client -> Seq(Result)], NEW c \in Client,
           \/ results[c] # <<>> /\ results' = [results EXCEPT ![c] = Tail(@)]
           \/ \E r \in Result : r.kind # "offer" /\ results' = [results EXCEPT ![c] = Append(@, r)]
    PROVE  \A d \in Client : \A i \in DOMAIN results'[d] : results'[d][i].kind = "offer" =>
             \E j \in DOMAIN results[d] : results[d][j] = results'[d][i]
<1>1. \A d \in Client \ {c} : results'[d] = results[d]
  OBVIOUS
<1>2. ASSUME NEW i \in DOMAIN results'[c], results'[c][i].kind = "offer"
      PROVE  \E j \in DOMAIN results[c] : results[c][j] = results'[c][i]
  <2>1. CASE results[c] # <<>> /\ results' = [results EXCEPT ![c] = Tail(@)]
    <3>1. results'[c] = Tail(results[c])
      BY <2>1
    <3>2. i + 1 \in DOMAIN results[c] /\ Tail(results[c])[i] = results[c][i + 1]
      BY <2>1, <3>1, <1>2, TailElements
    <3> QED  BY <3>1, <3>2
  <2>2. ASSUME NEW r \in Result, r.kind # "offer", results' = [results EXCEPT ![c] = Append(@, r)]
        PROVE  \E j \in DOMAIN results[c] : results[c][j] = results'[c][i]
    <3>1. results'[c] = Append(results[c], r)
      BY <2>2
    <3>2. results[c] \in Seq(Result)
      OBVIOUS
    <3>3. PICK n : Longer(Append(results[c], r), results[c], r, n)
      BY <3>2, AppendElements
    <3>4. i # n /\ i \in DOMAIN results[c]
      BY <1>2, <2>2, <3>1, <3>3 DEF Longer
    <3> QED  BY <3>1, <3>3, <3>4 DEF Longer
  <2> QED  BY <2>1, <2>2
<1>3. ASSUME NEW d \in Client \ {c}, NEW i \in DOMAIN results'[d]
      PROVE  \E j \in DOMAIN results[d] : results[d][j] = results'[d][i]
  BY <1>1
<1> QED  BY <1>2, <1>3

\* A controller opens a connection: the worker has none of its clients, asks
\* none and has offered nothing by it.
LEMMA OpenedIsNew ==
    ASSUME OfferTypeOK, ConnInv, NEW c \in Client, QuerySlot(c)
    PROVE  ConnInv'
<1> DEFINE n == ctl[c].opened + 1
           k == <<c, n>>
           old == <<c, ctl[c].conn>>
<1>0. ctl \in [Client -> Ctl] /\ prio \in [Conn -> Nat] /\ events \in Nat /\ open \subseteq Conn
      /\ deal \in [Conn -> {"none", "check", "append", "refused", "done"}]
  BY DEF OfferTypeOK
<1>1. /\ \A d \in Client \ {c} : ctl'[d] = ctl[d]
      /\ n \in Nat /\ k \in Conn
      /\ \/ /\ ctl'[c].conn = n /\ ctl'[c].opened = n /\ open' = (open \ {old}) \cup {k}
            /\ deal' = [deal EXCEPT ![k] = "check"]
         \/ /\ ctl'[c].conn = 0 /\ ctl'[c].opened = ctl[c].opened /\ open' = open \ {old}
            /\ deal' = deal
  BY <1>0, QueryEffect
<1>2. UNCHANGED <<results, clients, est>>
  BY DEF QuerySlot
<1>3. CASE /\ ctl'[c].conn = 0 /\ ctl'[c].opened = ctl[c].opened /\ open' = open \ {old}
           /\ deal' = deal
  <2>1. ConnFacts(ctl', open', deal, clients, est, results)
    BY <1>1, <1>3, ForgottenIsClosed
  <2> QED  BY <1>2, <1>3, <2>1 DEF ConnInv
<1>4. CASE /\ ctl'[c].conn = n /\ ctl'[c].opened = n /\ open' = (open \ {old}) \cup {k}
           /\ deal' = [deal EXCEPT ![k] = "check"]
  <2>1. ctl[c].opened \in Nat /\ k[1] = c /\ k[2] = n
    BY <1>0 DEF Ctl
  <2>2. deal[k] = "none"
    <3>1. ~ n <= ctl[c].opened
      BY <2>1
    <3> QED  BY <1>1, <2>1, <3>1 DEF ConnInv, ConnFacts
  <2>3. deal'[k] = "check" /\ \A j \in Conn \ {k} : deal'[j] = deal[j]
    BY <1>0, <1>1, <1>4
  <2>4. ASSUME NEW j \in Conn, Backed(ctl, open, j) PROVE Backed(ctl', open', j)
    <3>1. j[1] \in Client /\ j = <<j[1], j[2]>>
      BY ConnIsPair
    <3>2. CASE j[1] = c
      BY <3>1, <3>2, <2>1, <1>4 DEF Backed
    <3>3. CASE j[1] # c
      <4>1. j # old /\ j # k
        BY <3>1, <3>3
      <4> QED  BY <3>1, <3>3, <4>1, <2>4, <1>1, <1>4 DEF Backed
    <3> QED  BY <3>2, <3>3
  <2> HIDE DEF n, k, old
  <2>5. \A j \in Conn : j[1] \in Client
    BY ConnIsPair
  <2>6. \A d \in Client : ctl'[d].opened \in Nat /\ ctl[d].opened <= ctl'[d].opened
    BY <1>0, <1>1, <1>4, <2>1 DEF Ctl, n
  <2>7. \A j \in Conn : deal'[j] # "none" => j[2] <= ctl'[j[1]].opened
    <3>1. \A j \in Conn \ {k} : deal[j] # "none" => j[2] <= ctl'[j[1]].opened
      <4>1. ASSUME NEW j \in Conn \ {k}, deal[j] # "none" PROVE j[2] <= ctl'[j[1]].opened
        <5>1. j[2] <= ctl[j[1]].opened /\ ctl[j[1]].opened <= ctl'[j[1]].opened
          BY <4>1, <2>5, <2>6 DEF ConnInv, ConnFacts
        <5>2. j[2] \in Nat /\ ctl[j[1]].opened \in Nat /\ ctl'[j[1]].opened \in Nat
          BY <1>0, <2>5, <2>6, ConnIsPair DEF Ctl
        <5> QED  BY <5>1, <5>2
      <4> QED  BY <4>1
    <3>2. k[2] <= ctl'[k[1]].opened
      BY <1>1, <1>4, <2>1
    <3> QED  BY <2>3, <3>1, <3>2
  <2>8. \A j \in open' : deal'[j] # "none"
    BY <1>0, <1>4, <2>3 DEF ConnInv, ConnFacts
  <2>9. \A i \in DOMAIN clients : deal'[clients[i].conn] = "done"
    <3>1. \A i \in DOMAIN clients : clients[i].conn \in Conn /\ deal[clients[i].conn] = "done"
      BY ClientsAreKnown DEF ConnInv, ConnFacts
    <3> QED  BY <2>2, <2>3, <3>1
  <2>10. est.pc = "ack" => deal'[est.conn] = "done" /\ Backed(ctl', open', est.conn)
    <3>1. est.pc = "ack" => est.conn \in Conn /\ deal[est.conn] = "done"
                            /\ Backed(ctl, open, est.conn)
      BY DEF OfferTypeOK, Asked, ConnInv, ConnFacts
    <3> QED  BY <2>2, <2>3, <2>4, <3>1
  <2>11. \A d \in Client : \A i \in DOMAIN results[d] : results[d][i].kind = "offer" =>
           <<d, results[d][i].conn>> \in Conn /\ deal'[<<d, results[d][i].conn>>] # "none"
    <3>1. \A j \in Conn : deal[j] # "none" => deal'[j] # "none"
      BY <2>3
    <3> QED  BY <3>1 DEF ConnInv, ConnFacts
  <2> QED  BY <1>2, <2>7, <2>8, <2>9, <2>10, <2>11 DEF ConnInv, ConnFacts
<1> QED  BY <1>1, <1>3, <1>4

\* The worker deals with queries and keeps, or closes, their connections.
LEMMA ClientsKeepConns ==
    ASSUME OfferTypeOK, ConnInv, NEW k \in Conn,
           ConnError(k) \/ DealQuerySlot(k) \/ AppendClient(k) \/ CloseRefused(k)
    PROVE  ConnInv'
<1>0. /\ results \in [Client -> Seq(Result)] /\ clients \in Seq(Known) /\ open \subseteq Conn
      /\ deal \in [Conn -> {"none", "check", "append", "refused", "done"}]
      /\ k[1] \in Client /\ k[2] \in Nat /\ \A j \in Conn : j[1] \in Client
  BY ConnIsPair DEF OfferTypeOK
<1>1. CASE ConnError(k)
  <2> DEFINE r == [kind |-> "error", conn |-> k[2], num |-> 0]
  <2>1. r \in Result /\ r.kind # "offer"
    BY <1>0 DEF Result
  <2>2. results' = [results EXCEPT ![k[1]] = Append(@, r)]
    BY <1>1 DEF ConnError
  <2>3. \A d \in Client : \A i \in DOMAIN results'[d] : results'[d][i].kind = "offer" =>
           \E j \in DOMAIN results[d] : results[d][j] = results'[d][i]
    <3> HIDE DEF r
    <3> QED  BY <1>0, <2>1, <2>2, OffersStay
  <2>4. SameConns(ctl', ctl) /\ UNCHANGED <<open, deal, clients, est>>
    BY <1>1 DEF ConnError, controllers, worker, SameConns
  <2> QED  BY <2>3, <2>4, ConnStays
<1>2. CASE DealQuerySlot(k)
  <2>1. /\ deal[k] = "check" /\ UNCHANGED <<ctl, open, est>>
        /\ \/ deal' = [deal EXCEPT ![k] = "append"] /\ UNCHANGED results
           \/ /\ deal' = [deal EXCEPT ![k] = "refused"]
              /\ results' = [results EXCEPT ![k[1]] =
                               Append(@, [kind |-> "refused", conn |-> k[2], num |-> 0])]
    BY <1>2 DEF DealQuerySlot, controllers
  <2>2. deal'[k] \in {"append", "refused"} /\ \A j \in Conn \ {k} : deal'[j] = deal[j]
    BY <1>0, <2>1
  <2>3. /\ DOMAIN clients' = DOMAIN clients
        /\ \A i \in DOMAIN clients : clients'[i].conn = clients[i].conn
    BY <1>2, DealEffect
  <2>4. \A d \in Client : \A i \in DOMAIN results'[d] : results'[d][i].kind = "offer" =>
           \E j \in DOMAIN results[d] : results[d][j] = results'[d][i]
    <3> DEFINE r == [kind |-> "refused", conn |-> k[2], num |-> 0]
    <3>1. r \in Result /\ r.kind # "offer"
      BY <1>0 DEF Result
    <3>2. results' = results \/ results' = [results EXCEPT ![k[1]] = Append(@, r)]
      BY <2>1
    <3> HIDE DEF r
    <3> QED  BY <1>0, <3>1, <3>2, OffersStay
  <2>5. /\ \A j \in Conn : deal'[j] # "none" => j[2] <= ctl[j[1]].opened
        /\ \A j \in open : deal'[j] # "none"
    BY <1>0, <2>1, <2>2 DEF ConnInv, ConnFacts
  <2>6. \A i \in DOMAIN clients' : deal'[clients'[i].conn] = "done"
    <3>1. \A i \in DOMAIN clients : clients[i].conn \in Conn \ {k} /\ deal[clients[i].conn] = "done"
      BY <2>1, ClientsAreKnown DEF ConnInv, ConnFacts
    <3> QED  BY <2>2, <2>3, <3>1
  <2>7. est.pc = "ack" => deal'[est.conn] = "done" /\ Backed(ctl, open, est.conn)
    BY <2>1, <2>2 DEF OfferTypeOK, Asked, ConnInv, ConnFacts
  <2>8. \A d \in Client : \A i \in DOMAIN results'[d] : results'[d][i].kind = "offer" =>
           <<d, results'[d][i].conn>> \in Conn /\ deal'[<<d, results'[d][i].conn>>] # "none"
    <3>1. \A j \in Conn : deal[j] # "none" => deal'[j] # "none"
      BY <2>2
    <3> QED  BY <3>1, <2>4 DEF ConnInv, ConnFacts
  <2> QED  BY <2>1, <2>5, <2>6, <2>7, <2>8 DEF ConnInv, ConnFacts
<1>3. CASE AppendClient(k)
  <2> DEFINE r == [conn |-> k, priority |-> prio[k]]
  <2>1. /\ deal[k] = "append" /\ est.pc # "ack" /\ deal' = [deal EXCEPT ![k] = "done"]
        /\ clients' = Append(clients, r) /\ UNCHANGED <<ctl, open, results, est>>
    BY <1>3 DEF AppendClient, controllers, net
  <2>2. deal'[k] = "done" /\ \A j \in Conn \ {k} : deal'[j] = deal[j]
    BY <1>0, <2>1
  <2>4. r \in Known /\ r.conn = k
    BY DEF OfferTypeOK, Known
  <2> HIDE DEF r
  <2>5. PICK n : Longer(Append(clients, r), clients, r, n)
    BY <1>0, <2>4, AppendElements
  <2>6. ASSUME NEW i \in DOMAIN clients'
        PROVE  deal'[clients'[i].conn] = "done"
    <3>1. CASE i = n
      BY <2>1, <2>2, <2>4, <2>5, <3>1 DEF Longer
    <3>2. CASE i # n
      <4>1. i \in DOMAIN clients /\ clients'[i] = clients[i]
        BY <2>1, <2>5, <3>2 DEF Longer
      <4>2. clients[i].conn \in Conn /\ deal[clients[i].conn] = "done"
        BY <4>1, ClientsAreKnown DEF ConnInv, ConnFacts
      <4> QED  BY <2>2, <4>1, <4>2
    <3> QED  BY <3>1, <3>2
  <2>7. /\ \A j \in Conn : deal'[j] # "none" => j[2] <= ctl[j[1]].opened
        /\ \A j \in open : deal'[j] # "none"
    BY <1>0, <2>1, <2>2 DEF ConnInv, ConnFacts
  <2>8. \A d \in Client : \A i \in DOMAIN results[d] : results[d][i].kind = "offer" =>
           <<d, results[d][i].conn>> \in Conn /\ deal'[<<d, results[d][i].conn>>] # "none"
    <3>1. \A j \in Conn : deal[j] # "none" => deal'[j] # "none"
      BY <2>2
    <3> QED  BY <3>1 DEF ConnInv, ConnFacts
  <2> QED  BY <2>1, <2>6, <2>7, <2>8 DEF ConnInv, ConnFacts
<1>4. CASE CloseRefused(k)
  <2>1. /\ deal[k] = "refused" /\ deal' = [deal EXCEPT ![k] = "done"] /\ open' = open \ {k}
        /\ UNCHANGED <<ctl, results, clients, est>>
    BY <1>4 DEF CloseRefused, controllers
  <2>2. deal'[k] = "done" /\ \A j \in Conn \ {k} : deal'[j] = deal[j]
    BY <1>0, <2>1
  <2>3. \A j \in Conn \ {k} : Backed(ctl, open, j) => Backed(ctl, open', j)
    BY <2>1 DEF Backed
  <2>4. /\ \A j \in Conn : deal'[j] # "none" => j[2] <= ctl[j[1]].opened
        /\ \A j \in open' : deal'[j] # "none"
    BY <1>0, <2>1, <2>2 DEF ConnInv, ConnFacts
  <2>5. \A i \in DOMAIN clients : deal'[clients[i].conn] = "done"
    <3>1. \A i \in DOMAIN clients : clients[i].conn \in Conn \ {k} /\ deal[clients[i].conn] = "done"
      BY <2>1, ClientsAreKnown DEF ConnInv, ConnFacts
    <3> QED  BY <2>2, <2>3, <3>1
  <2>6. est.pc = "ack" => deal'[est.conn] = "done" /\ Backed(ctl, open', est.conn)
    BY <2>1, <2>2, <2>3 DEF OfferTypeOK, Asked, ConnInv, ConnFacts
  <2>7. \A d \in Client : \A i \in DOMAIN results[d] : results[d][i].kind = "offer" =>
           <<d, results[d][i].conn>> \in Conn /\ deal'[<<d, results[d][i].conn>>] # "none"
    <3>1. \A j \in Conn : deal[j] # "none" => deal'[j] # "none"
      BY <2>2
    <3> QED  BY <3>1 DEF ConnInv, ConnFacts
  <2> QED  BY <2>1, <2>4, <2>5, <2>6, <2>7 DEF ConnInv, ConnFacts
<1> QED  BY <1>1, <1>2, <1>3, <1>4

LEMMA ConnStep ==
    ASSUME OfferTypeOK, ReadInv, ConnInv, [OfferNext]_offerVars
    PROVE  ConnInv'
<1>0. /\ ctl \in [Client -> Ctl] /\ results \in [Client -> Seq(Result)] /\ est \in Estimate
      /\ open \subseteq Conn
      /\ deal \in [Conn -> {"none", "check", "append", "refused", "done"}]
  BY DEF OfferTypeOK
<1>1. CASE /\ SameConns(ctl', ctl) /\ UNCHANGED <<open, deal, clients, results>>
           /\ UNCHANGED est \/ est'.pc # "ack"
  BY <1>1, ConnStays
<1>2. ASSUME NEW c \in Client, GetSlot(c) \/ JobCheck(c) \/ EnableWorker(c) \/ OnSlotEmpty(c)
      PROVE  ConnInv'
  <2>1. SameConns(ctl', ctl)
    BY <1>0, <1>2, JobsEffect
  <2>2. UNCHANGED <<open, deal, clients, results, est>>
    BY <1>2 DEF GetSlot, JobCheck, EnableWorker, OnSlotEmpty, net, worker
  <2> QED  BY <1>1, <2>1, <2>2
<1>3. ASSUME NEW c \in Client, OnSlotResult(c)
      PROVE  ConnInv'
  <2> DEFINE n == ctl[c].conn
  <2>1. UNCHANGED <<deal, clients, est>>
    BY <1>3 DEF OnSlotResult, worker
  <2>2. /\ results[c] # <<>> /\ results' = [results EXCEPT ![c] = Tail(@)]
        /\ \A d \in Client \ {c} : ctl'[d] = ctl[d]
        /\ ctl'[c].opened = ctl[c].opened
        /\ \/ ctl'[c].conn = n /\ UNCHANGED open
           \/ ctl'[c].conn = 0 /\ open' = open \ {<<c, n>>}
    BY <1>3, ResultEffect
  <2>3. \A d \in Client : \A i \in DOMAIN results'[d] : results'[d][i].kind = "offer" =>
           \E j \in DOMAIN results[d] : results[d][j] = results'[d][i]
    BY <1>0, <2>2, OffersStay
  <2>4. CASE ctl'[c].conn = n /\ UNCHANGED open
    <3>1. SameConns(ctl', ctl)
      BY <2>2, <2>4 DEF SameConns
    <3> QED  BY <2>1, <2>3, <2>4, <3>1, ConnStays
  <2>5. CASE ctl'[c].conn = 0 /\ open' = open \ {<<c, n>>}
    <3>1. ConnFacts(ctl', open', deal, clients, est, results)
      BY <2>2, <2>5, ForgottenIsClosed
    <3>2. \A d \in Client : \A i \in DOMAIN results'[d] : results'[d][i].kind = "offer" =>
             <<d, results'[d][i].conn>> \in Conn /\ deal[<<d, results'[d][i].conn>>] # "none"
      BY <2>3 DEF ConnInv, ConnFacts
    <3>3. ConnFacts(ctl', open', deal, clients, est, results')
      BY <3>1, <3>2, Zenon DEF ConnFacts
    <3> QED  BY <2>1, <3>3 DEF ConnInv
  <2> QED  BY <2>2, <2>4, <2>5
<1>4. ASSUME NEW c \in Client, DisableWorker(c)
      PROVE  ConnInv'
  <2>1. /\ \A d \in Client \ {c} : ctl'[d] = ctl[d]
        /\ ctl'[c].conn = 0 /\ ctl'[c].opened = ctl[c].opened
    BY <1>0, <1>4, DisableEffect
  <2>2. open' = open \ {<<c, ctl[c].conn>>} /\ UNCHANGED <<deal, clients, est, results>>
    BY <1>4 DEF DisableWorker, WithoutConn, worker
  <2>3. ConnFacts(ctl', open', deal, clients, est, results)
    BY <2>1, <2>2, ForgottenIsClosed
  <2> QED  BY <2>2, <2>3 DEF ConnInv
<1>5. ASSUME NEW c \in Client, GiveUp(c) \/ ReceiveTask(c) \/ OnTaskReceived(c)
      PROVE  ConnInv'
  <2>1. UNCHANGED <<ctl, open, deal, clients, results, est>>
    BY <1>5 DEF GiveUp, ReceiveTask, OnTaskReceived, controllers, net, worker
  <2> QED  BY <1>1, <2>1 DEF SameConns
<1>6. CASE CheckSlot \/ EstimateSlot \/ Book \/ ObtainChance \/ FreeChance \/ CheckCmds
           \/ UNCHANGED offerVars
  <2>1. UNCHANGED <<ctl, open, deal, clients, results>>
    BY <1>6 DEF CheckSlot, EstimateSlot, Book, ObtainChance, FreeChance, CheckCmds, offerVars,
                controllers, net, worker
  <2>2. UNCHANGED est \/ est'.pc # "ack"
    <3>1. CASE CheckSlot \/ ObtainChance \/ FreeChance \/ CheckCmds \/ UNCHANGED offerVars
      BY <3>1 DEF CheckSlot, ObtainChance, FreeChance, CheckCmds, offerVars, worker
    <3>2. CASE EstimateSlot \/ Book
      BY <3>2, Phases
    <3> QED  BY <1>6, <3>1, <3>2
  <2> QED  BY <1>1, <2>1, <2>2 DEF SameConns
<1>7. CASE CheckClient
  <2>1. UNCHANGED <<ctl, open, deal, results, est>>
    BY <1>7 DEF CheckClient, controllers, net
  <2>2. \A j \in DOMAIN clients' : \E i \in DOMAIN clients : clients'[j] = clients[i]
    BY <1>7, CheckClientEffect
  <2>3. \A j \in DOMAIN clients' : deal[clients'[j].conn] = "done"
    BY <2>2 DEF ConnInv, ConnFacts
  <2> QED  BY <2>1, <2>3 DEF ConnInv, ConnFacts
<1>8. CASE SelectClient
  <2>1. UNCHANGED <<ctl, open, deal, clients>>
    BY <1>8 DEF SelectClient, controllers
  <2>2. CASE est'.pc # "ack" /\ UNCHANGED results
    BY <1>1, <2>1, <2>2 DEF SameConns
  <2>3. ASSUME NEW i \in DOMAIN clients, NEW k \in Conn, k = clients[i].conn, k \in open,
               est' = [est EXCEPT !.pc = "ack", !.conn = k, !.excludes = @ \cup {k}],
               results' = [results EXCEPT ![k[1]] = Append(@, Offer(k[2], est.avail))]
        PROVE  ConnInv'
    <3>1. est'.conn = k
      BY <1>0, <2>3 DEF Estimate
    <3>2. deal[k] = "done" /\ Backed(ctl, open, k)
      BY <2>3 DEF ConnInv, ConnFacts, Backed
    <3>3. k[1] \in Client /\ k = <<k[1], k[2]>> /\ Offer(k[2], est.avail) \in Result
          /\ results[k[1]] \in Seq(Result)
      BY <1>0, ConnIsPair DEF Offer, Result, Estimate
    <3>4. PICK n : Longer(Append(results[k[1]], Offer(k[2], est.avail)), results[k[1]],
                          Offer(k[2], est.avail), n)
      BY <3>3, AppendElements
    <3>5. ASSUME NEW d \in Client, NEW j \in DOMAIN results'[d], results'[d][j].kind = "offer"
          PROVE  <<d, results'[d][j].conn>> \in Conn /\ deal[<<d, results'[d][j].conn>>] # "none"
      <4>1. CASE d = k[1] /\ j = n
        <5>1. results'[d][j] = Offer(k[2], est.avail)
          BY <1>0, <2>3, <3>4, <4>1 DEF Longer
        <5>2. results'[d][j].conn = k[2]
          BY <5>1 DEF Offer
        <5> QED  BY <3>2, <3>3, <4>1, <5>2
      <4>2. CASE ~(d = k[1] /\ j = n)
        <5>1. j \in DOMAIN results[d] /\ results'[d][j] = results[d][j]
          BY <1>0, <2>3, <3>4, <4>2 DEF Longer
        <5> QED  BY <3>5, <5>1 DEF ConnInv, ConnFacts
      <4> QED  BY <4>1, <4>2
    <3> QED  BY <2>1, <3>1, <3>2, <3>5 DEF ConnInv, ConnFacts
  <2>4. ASSUME NEW k \in Conn, est' = [est EXCEPT !.excludes = @ \cup {k}]
        PROVE  est'.pc # "ack"
    BY <1>0, <1>8, <2>4 DEF Estimate, SelectClient
  <2>5. CASE est' = Resting /\ UNCHANGED results
    BY <2>2, <2>5 DEF Resting
  <2>6. ASSUME NEW i \in DOMAIN clients, clients[i].conn \in Conn, UNCHANGED results,
               est' = [est EXCEPT !.excludes = @ \cup {clients[i].conn}]
        PROVE  ConnInv'
    BY <2>2, <2>4, <2>6
  <2> QED  BY <1>8, <2>3, <2>5, <2>6, SelectEffect
<1>9. CASE Restart
  <2>1. /\ open' = {} /\ clients' = <<>> /\ est'.pc = "idle" /\ ctl' = ctl /\ results' = results
        /\ deal' = [k \in Conn |-> IF deal[k] = "none" THEN "none" ELSE "done"]
    BY <1>9 DEF Restart, Resting, controllers
  <2>2. \A k \in Conn : (deal'[k] = "none" <=> deal[k] = "none") /\ deal'[k] \in {"none", "done"}
    BY <2>1
  <2>3. DOMAIN clients' = {}
    BY <2>1
  <2> QED  BY <2>1, <2>2, <2>3 DEF ConnInv, ConnFacts
<1>10. ASSUME NEW c \in Client, QuerySlot(c)
       PROVE  ConnInv'
  BY <1>10, OpenedIsNew
<1>11. CASE ReceiveAck
  <2>1. UNCHANGED <<ctl, deal, clients, results>>
    BY <1>11 DEF ReceiveAck, controllers
  <2>2. open' \subseteq open /\ est'.pc # "ack"
    BY <1>11, AckEffect, Phases
  <2> QED  BY <2>1, <2>2 DEF ConnInv, ConnFacts
<1> QED  BY <1>2, <1>3, <1>4, <1>5, <1>6, <1>7, <1>8, <1>9, <1>10, <1>11, ClientsKeepConns
         DEF OfferNext

-----------------------------------------------------------------------------
(* Promises.                                                               *)

\* An offer its controller may still answer to the worker: by the connection
\* it has, or by one that is still open.
Live(ct, op, c, r) == r.kind = "offer" /\ (<<c, r.conn>> \in op \/ ct[c].conn = r.conn)

\* What the client that is asked takes of the estimate.
Taken(es, ac) ==
    IF es.pc = "ack" THEN IF ac[es.conn] = <<>> THEN 0 ELSE ac[es.conn][1]
    ELSE IF es.pc \in {"book", "write", "record"} THEN es.num ELSE 0
Pending(es, ac, c) ==
    IF es.pc \notin {"idle", "select"} /\ es.conn[1] = c THEN Taken(es, ac) ELSE 0
Free(es, ac) == IF es.pc = "idle" THEN 0 ELSE es.avail - Taken(es, ac)

\* There is one offer at a time, to the client that is asked, or its answer.
OfferedOnce(ct, op, es, re, ac) ==
    /\ \A c \in Client : \A i \in DOMAIN re[c] : Live(ct, op, c, re[c][i]) =>
         /\ es.pc = "ack" /\ es.conn = <<c, re[c][i].conn>>
         /\ re[c][i].num = es.avail /\ ac[es.conn] = <<>>
         /\ \A j \in DOMAIN re[c] : Live(ct, op, c, re[c][j]) => j = i
    /\ \A k \in Conn : ac[k] # <<>> =>
         es.pc = "ack" /\ es.conn = k /\ Len(ac[k]) = 1 /\ ac[k][1] <= es.avail

\* What is promised to a client has slots, or will have them.
Covered(gr, no, ex, sl, es, ac) ==
    \A c \in Client : gr[c] + no[c] <= SlotsOf(sl, c) + Pending(es, ac, c) + ex[c]

\* What is left of the estimate is there.
Fits(jo, go, gr, ex, es, ac) ==
    Free(es, ac) >= 0 /\ jo + go + Total(gr) + Free(es, ac) <= Available + Total(ex)
Work == running + waiting

Promises ==
    /\ OfferedOnce(ctl, open, est, results, acks)
    /\ Covered(granted, note, extra, slots, est, acks)
    /\ Fits(Work, got, granted, extra, est, acks)
PromiseInv == ~raced /\ ~astray => Promises

\* What went wrong once is not forgotten.
LEMMA HistoryStays ==
    ASSUME OfferTypeOK, [OfferNext]_offerVars, ~raced', ~astray'
    PROVE  ~raced /\ ~astray
<1>0. raced \in BOOLEAN /\ astray \in BOOLEAN
  BY DEF OfferTypeOK
<1>1. CASE UNCHANGED <<raced, astray>>
  BY <1>1
<1>2. ASSUME NEW c \in Client,
             GetSlot(c) \/ QuerySlot(c) \/ JobCheck(c) \/ DisableWorker(c) \/ EnableWorker(c)
               \/ OnSlotEmpty(c) \/ GiveUp(c) \/ ReceiveTask(c)
      PROVE  UNCHANGED <<raced, astray>>
  BY <1>2 DEF GetSlot, QuerySlot, JobCheck, DisableWorker, EnableWorker, OnSlotEmpty, GiveUp,
              ReceiveTask
<1>3. ASSUME NEW c \in Client, OnSlotResult(c)
      PROVE  ~raced /\ ~astray
  <2>1. raced' = raced
    BY <1>3 DEF OnSlotResult
  <2>2. UNCHANGED astray \/ astray' = (astray \/ Head(results[c]).conn # ctl[c].conn)
    BY <1>3, ResultEffect
  <2>3. CASE UNCHANGED astray
    BY <1>1, <2>1, <2>3
  <2>4. CASE astray' = (astray \/ Head(results[c]).conn # ctl[c].conn)
    <3>1. ~astray
      BY <2>4, Zenon
    <3> QED  BY <2>1, <3>1
  <2> QED  BY <2>2, <2>3, <2>4
<1>4. ASSUME NEW c \in Client, OnTaskReceived(c)
      PROVE  ~raced /\ ~astray
  <2>1. astray' = astray
    BY <1>4 DEF OnTaskReceived
  <2>2. UNCHANGED raced \/ raced' = (raced \/ est.pc = "write")
    BY <1>4, TaskReceivedEffect
  <2>3. CASE UNCHANGED raced
    BY <1>1, <2>1, <2>3
  <2>4. CASE raced' = (raced \/ est.pc = "write")
    <3>1. ~raced
      BY <2>4, Zenon
    <3> QED  BY <2>1, <3>1
  <2> QED  BY <2>2, <2>3, <2>4
<1>5. ASSUME NEW k \in Conn,
             ConnError(k) \/ DealQuerySlot(k) \/ AppendClient(k) \/ CloseRefused(k)
      PROVE  UNCHANGED <<raced, astray>>
  BY <1>5 DEF ConnError, DealQuerySlot, AppendClient, CloseRefused
<1>6. ASSUME NEW gone, Unbook(gone)
      PROVE  ~raced /\ ~astray
  <2>1. /\ raced' = (raced \/ est.pc = "write")
        /\ astray' = (astray \/ \E i \in gone : Promised(slots[i].conn[1]) > 0)
    BY <1>6 DEF Unbook
  <2> QED  BY <2>1, Zenon
<1>7. CASE CheckClient
  <2>1. (\E gone \in SUBSET DOMAIN slots : Unbook(gone)) \/ UNCHANGED <<raced, astray>>
    BY <1>7, CheckClientEffect
  <2> QED  BY <1>1, <1>6, <2>1
<1>8. CASE CheckSlot
  BY <1>6, <1>8 DEF CheckSlot
<1>9. CASE EstimateSlot
  <2>1. raced' = raced
        /\ (astray' = astray \/ astray' = (astray \/ running > load.running \/ got > Total(note)))
    BY <1>9, Zenon DEF EstimateSlot
  <2>2. ~astray
    BY <2>1, Zenon
  <2> QED  BY <2>1, <2>2
<1>10. CASE ReceiveAck
  <2>1. raced' = raced
    BY <1>10 DEF ReceiveAck
  <2>2. \/ UNCHANGED astray
        \/ astray' = (astray \/ Lost(est.conn))
        \/ astray' = (astray \/ Lost(est.conn) \/ Offered(est.conn))
    BY <1>10, AckEffect
  <2>3. ~astray
    BY <2>2, Zenon
  <2> QED  BY <2>1, <2>3
<1>11. CASE Restart
  <2>1. raced' = raced
    BY <1>11 DEF Restart
  <2>2. ~astray
    BY <1>11, Zenon DEF Restart
  <2> QED  BY <2>1, <2>2
<1>12. CASE SelectClient \/ Book \/ ObtainChance \/ FreeChance \/ CheckCmds \/ UNCHANGED offerVars
  <2>1. UNCHANGED <<raced, astray>>
    BY <1>12 DEF SelectClient, Book, ObtainChance, FreeChance, CheckCmds, offerVars
  <2> QED  BY <1>1, <2>1
<1> QED  BY <1>1, <1>2, <1>3, <1>4, <1>5, <1>7, <1>8, <1>9, <1>10, <1>11, <1>12 DEF OfferNext

\* The sum over the clients is that of a function, and changes with one value.
LEMMA TotalChange ==
    ASSUME NEW f \in [Client -> Nat], NEW c \in Client, NEW v \in Nat
    PROVE  /\ Total(f) \in Nat
           /\ Total([f EXCEPT ![c] = v]) = Total(f) - f[c] + v
<1> DEFINE g == [f EXCEPT ![c] = v]
<1>1. IsFiniteSet(Client) /\ \A x \in Client : f[x] \in Nat /\ f[x] \in Int
  BY OfferAssumption
<1>2. SumFunctionOnSet(f, Client) \in Nat
  BY <1>1, SumNat
<1>3. g[c] = v /\ g[c] \in Int /\ \A x \in Client \ {c} : g[x] = f[x]
  OBVIOUS
<1> HIDE DEF g
<1>4. SumFunctionOnSet(g, Client) = SumFunctionOnSet(f, Client) - f[c] + g[c]
  BY <1>1, <1>3, SumChange
<1> QED  BY <1>2, <1>3, <1>4 DEF Total, g

LEMMA WorkIsNat ==
    ASSUME OfferTypeOK
    PROVE  /\ Work \in Nat /\ extra \in [Client -> Nat] /\ Total(extra) \in Nat
           /\ Total(granted) \in Nat /\ Total(note) \in Nat
<1>1. IsFiniteSet(Client) /\ extra \in [Client -> Nat] /\ granted \in [Client -> Nat]
      /\ note \in [Client -> Nat]
  BY OfferAssumption DEF OfferTypeOK
<1>2. \A f \in [Client -> Nat] : Total(f) \in Nat
  <2>1. ASSUME NEW f \in [Client -> Nat] PROVE Total(f) \in Nat
    <3>1. \A x \in Client : f[x] \in Nat
      OBVIOUS
    <3> QED  BY <1>1, <3>1, SumNat DEF Total
  <2> QED  BY <2>1
<1>3. Work \in Nat
  BY DEF OfferTypeOK, Work
<1> QED  BY <1>1, <1>2, <1>3

LEMMA NoneWithoutTotal ==
    ASSUME NEW f \in [Client -> Nat], ~(Total(f) > 0)
    PROVE  Total(f) = 0 /\ \A c \in Client : f[c] = 0
<1>1. IsFiniteSet(Client) /\ \A x \in Client : f[x] \in Nat /\ f[x] \in Int
  BY OfferAssumption
<1>2. Total(f) \in Nat
  BY <1>1, SumNat DEF Total
<1>3. ASSUME NEW c \in Client PROVE f[c] = 0
  <2>1. Total(f) = f[c] + SumFunctionOnSet(f, Client \ {c})
    BY <1>1, SumRemove DEF Total
  <2>2. IsFiniteSet(Client \ {c}) /\ \A x \in Client \ {c} : f[x] \in Nat
    BY <1>1, FS_RemoveElement
  <2>3. SumFunctionOnSet(f, Client \ {c}) \in Nat
    BY <2>2, SumNat
  <2> QED  BY <1>1, <1>2, <2>1, <2>3
<1> QED  BY <1>2, <1>3

LEMMA TakenIsNat ==
    ASSUME OfferTypeOK
    PROVE  /\ Taken(est, acks) \in Nat /\ Free(est, acks) \in Int
           /\ \A c : Pending(est, acks, c) \in Nat
<1>1. est.num \in Nat /\ est.avail \in Nat /\ acks \in [Conn -> Seq(Nat)]
      /\ (est.pc = "ack" => est.conn \in Conn)
  BY DEF OfferTypeOK, Estimate, Asked
<1>2. ASSUME est.pc = "ack", acks[est.conn] # <<>> PROVE acks[est.conn][1] \in Nat
  <2>1. acks[est.conn] \in Seq(Nat)
    BY <1>1, <1>2
  <2>2. 1 \in 1..Len(acks[est.conn])
    BY <1>2, <2>1, TailElements, LenProperties
  <2> QED  BY <2>1, <2>2, ElementOfSeq
<1>3. Taken(est, acks) \in Nat
  BY <1>1, <1>2 DEF Taken
<1> QED  BY <1>1, <1>3 DEF Free, Pending

\* An offer is answered to a connection that is as new as the offer.
LEMMA LiveStays ==
    ASSUME OfferTypeOK, ConnInv, NEW c \in Client,
           \A d \in Client \ {c} : ctl'[d].conn = ctl[d].conn,
           \/ ctl'[c].conn \in {ctl[c].conn, 0} /\ open' \subseteq open
           \/ /\ ctl'[c].conn = ctl[c].opened + 1
              /\ open' \subseteq open \cup {<<c, ctl[c].opened + 1>>}
    PROVE  \A d \in Client : \A i \in DOMAIN results[d] :
             Live(ctl', open', d, results[d][i]) => Live(ctl, open, d, results[d][i])
<1> SUFFICES ASSUME NEW d \in Client, NEW i \in DOMAIN results[d],
                    Live(ctl', open', d, results[d][i])
             PROVE  Live(ctl, open, d, results[d][i])
  OBVIOUS
<1> DEFINE n == results[d][i].conn
<1>1. results[d][i].kind = "offer" /\ (<<d, n>> \in open' \/ ctl'[d].conn = n)
  BY DEF Live
<1>2. <<d, n>> \in Conn /\ deal[<<d, n>>] # "none"
  BY <1>1 DEF ConnInv, ConnFacts
<1>3. n # 0 /\ n \in Nat
  <2>1. <<d, n>>[2] \in 1..MaxConn(<<d, n>>[1]) /\ <<d, n>>[2] \in Nat
    BY <1>2, ConnIsPair
  <2> QED  BY <2>1
<1>4. n <= ctl[d].opened
  <2>1. <<d, n>>[2] <= ctl[<<d, n>>[1]].opened
    BY <1>2 DEF ConnInv, ConnFacts
  <2> QED  BY <2>1
<1>5. ctl[d].opened \in Nat
  BY DEF OfferTypeOK, Ctl
<1>6. n # ctl[d].opened + 1
  BY <1>3, <1>4, <1>5
<1> HIDE DEF n
<1>7. <<d, n>> \in open \/ ctl[d].conn = n
  BY <1>1, <1>3, <1>6
<1> QED  BY <1>1, <1>7 DEF Live, n

\* Results that are taken or added, when none of these is an offer that counts.
LEMMA OfferedOnceStays ==
    ASSUME NEW ct, NEW op, NEW es, NEW re, NEW ac, OfferedOnce(ct, op, es, re, ac),
           NEW ct2, NEW op2, NEW re2,
           \A c \in Client : DOMAIN re2[c] \subseteq Nat
             /\ \E m \in Nat : \A i \in DOMAIN re2[c] : Live(ct2, op2, c, re2[c][i]) =>
                  i + m \in DOMAIN re[c] /\ re[c][i + m] = re2[c][i] /\ Live(ct, op, c, re2[c][i])
    PROVE  OfferedOnce(ct2, op2, es, re2, ac)
<1>1. ASSUME NEW c \in Client, NEW i \in DOMAIN re2[c], Live(ct2, op2, c, re2[c][i])
      PROVE  /\ es.pc = "ack" /\ es.conn = <<c, re2[c][i].conn>>
             /\ re2[c][i].num = es.avail /\ ac[es.conn] = <<>>
             /\ \A j \in DOMAIN re2[c] : Live(ct2, op2, c, re2[c][j]) => j = i
  <2>1. PICK m \in Nat : \A j \in DOMAIN re2[c] : Live(ct2, op2, c, re2[c][j]) =>
               j + m \in DOMAIN re[c] /\ re[c][j + m] = re2[c][j] /\ Live(ct, op, c, re2[c][j])
    OBVIOUS
  <2>2. i + m \in DOMAIN re[c] /\ re[c][i + m] = re2[c][i] /\ Live(ct, op, c, re[c][i + m])
    BY <1>1, <2>1
  <2>3. /\ es.pc = "ack" /\ es.conn = <<c, re[c][i + m].conn>>
        /\ re[c][i + m].num = es.avail /\ ac[es.conn] = <<>>
        /\ \A j \in DOMAIN re[c] : Live(ct, op, c, re[c][j]) => j = i + m
    BY <2>2, Zenon DEF OfferedOnce
  <2>4. ASSUME NEW j \in DOMAIN re2[c], Live(ct2, op2, c, re2[c][j]) PROVE j = i
    <3>1. j + m = i + m
      BY <2>1, <2>3, <2>4
    <3>2. i \in Nat /\ j \in Nat
      OBVIOUS
    <3> QED  BY <3>1, <3>2
  <2> QED  BY <2>2, <2>3, <2>4
<1>2. \A k \in Conn : ac[k] # <<>> =>
         es.pc = "ack" /\ es.conn = k /\ Len(ac[k]) = 1 /\ ac[k][1] <= es.avail
  BY DEF OfferedOnce
<1> QED  BY <1>1, <1>2 DEF OfferedOnce

LEMMA OfferedStays ==
    ASSUME OfferTypeOK, ConnInv, OfferedOnce(ctl, open, est, results, acks),
           UNCHANGED <<est, acks>>, NEW c \in Client,
           \A d \in Client \ {c} : ctl'[d].conn = ctl[d].conn,
           \/ ctl'[c].conn \in {ctl[c].conn, 0} /\ open' \subseteq open
           \/ /\ ctl'[c].conn = ctl[c].opened + 1
              /\ open' \subseteq open \cup {<<c, ctl[c].opened + 1>>},
           \/ results' = results
           \/ results[c] # <<>> /\ results' = [results EXCEPT ![c] = Tail(@)]
           \/ \E r \in Result : r.kind # "offer" /\ results' = [results EXCEPT ![c] = Append(@, r)]
    PROVE  OfferedOnce(ctl', open', est', results', acks')
<1>1. \A d \in Client : \A i \in DOMAIN results[d] :
        Live(ctl', open', d, results[d][i]) => Live(ctl, open, d, results[d][i])
  BY LiveStays
<1>2. results \in [Client -> Seq(Result)]
  BY DEF OfferTypeOK
<1>3. \A d \in Client : DOMAIN results[d] \subseteq Nat
  <2>1. ASSUME NEW d \in Client PROVE DOMAIN results[d] \subseteq Nat
    <3>1. results[d] \in Seq(Result)
      BY <1>2
    <3>2. DOMAIN results[d] = 1..Len(results[d])
      BY <3>1, LenProperties
    <3> QED  BY <3>2
  <2> QED  BY <2>1
<1>4. ASSUME NEW d \in Client, results'[d] = results[d]
      PROVE  DOMAIN results'[d] \subseteq Nat
             /\ \E m \in Nat : \A i \in DOMAIN results'[d] : Live(ctl', open', d, results'[d][i]) =>
                  i + m \in DOMAIN results[d] /\ results[d][i + m] = results'[d][i]
                  /\ Live(ctl, open, d, results'[d][i])
  <2>1. \A i \in DOMAIN results'[d] : i + 0 = i
    BY <1>3, <1>4
  <2>2. 0 \in Nat /\ \A i \in DOMAIN results'[d] : Live(ctl', open', d, results'[d][i]) =>
                  i + 0 \in DOMAIN results[d] /\ results[d][i + 0] = results'[d][i]
                  /\ Live(ctl, open, d, results'[d][i])
    BY <1>1, <1>4, <2>1
  <2> QED  BY <1>3, <1>4, <2>2
<1>5. ASSUME NEW r \in Result, r.kind # "offer", results' = [results EXCEPT ![c] = Append(@, r)]
      PROVE  DOMAIN results'[c] \subseteq Nat
             /\ \E m \in Nat : \A i \in DOMAIN results'[c] : Live(ctl', open', c, results'[c][i]) =>
                  i + m \in DOMAIN results[c] /\ results[c][i + m] = results'[c][i]
                  /\ Live(ctl, open, c, results'[c][i])
  <2>1. results'[c] = Append(results[c], r) /\ results[c] \in Seq(Result)
    BY <1>2, <1>5
  <2>2. PICK n : Longer(Append(results[c], r), results[c], r, n)
    BY <2>1, AppendElements
  <2>3. DOMAIN results'[c] \subseteq Nat
    <3>1. results'[c] \in Seq(Result)
      BY <2>1, AppendProperties
    <3>2. DOMAIN results'[c] = 1..Len(results'[c])
      BY <3>1, LenProperties
    <3> QED  BY <3>2
  <2>4. ASSUME NEW i \in DOMAIN results'[c], Live(ctl', open', c, results'[c][i])
        PROVE  i + 0 \in DOMAIN results[c] /\ results[c][i + 0] = results'[c][i]
                  /\ Live(ctl, open, c, results'[c][i])
    <3>1. results'[c][i].kind = "offer"
      BY <2>4 DEF Live
    <3>2. i # n
      BY <1>5, <2>1, <2>2, <3>1 DEF Longer
    <3>3. i \in DOMAIN results[c] /\ results'[c][i] = results[c][i]
      BY <2>1, <2>2, <3>2 DEF Longer
    <3>4. i + 0 = i
      BY <2>3
    <3>5. Live(ctl, open, c, results'[c][i])
      BY <1>1, <2>4, <3>3
    <3> QED  BY <3>3, <3>4, <3>5
  <2>5. 0 \in Nat
    OBVIOUS
  <2> QED  BY <2>3, <2>4, <2>5
<1>6. ASSUME results[c] # <<>>, results' = [results EXCEPT ![c] = Tail(@)]
      PROVE  DOMAIN results'[c] \subseteq Nat
             /\ \E m \in Nat : \A i \in DOMAIN results'[c] : Live(ctl', open', c, results'[c][i]) =>
                  i + m \in DOMAIN results[c] /\ results[c][i + m] = results'[c][i]
                  /\ Live(ctl, open, c, results'[c][i])
  <2>1. results'[c] = Tail(results[c]) /\ results[c] \in Seq(Result)
    BY <1>2, <1>6
  <2>2. \A i \in DOMAIN results'[c] : i \in Nat /\ i + 1 \in DOMAIN results[c]
                                      /\ results[c][i + 1] = results'[c][i]
    <3> DEFINE s == results[c]
    <3>1. s # <<>> /\ s \in Seq(Result)
      BY <1>6, <2>1
    <3> HIDE DEF s
    <3>2. \A i \in DOMAIN Tail(s) : i + 1 \in DOMAIN s /\ Tail(s)[i] = s[i + 1] /\ i \in Nat
      BY <3>1, TailElements
    <3> QED  BY <2>1, <3>2 DEF s
  <2>3. \A i \in DOMAIN results'[c] : Live(ctl', open', c, results'[c][i]) =>
           Live(ctl, open, c, results'[c][i])
    BY <1>1, <2>2
  <2> QED  BY <2>2, <2>3
<1>7. ASSUME NEW d \in Client
      PROVE  DOMAIN results'[d] \subseteq Nat
             /\ \E m \in Nat : \A i \in DOMAIN results'[d] : Live(ctl', open', d, results'[d][i]) =>
                  i + m \in DOMAIN results[d] /\ results[d][i + m] = results'[d][i]
                  /\ Live(ctl, open, d, results'[d][i])
  <2>1. CASE d # c \/ results' = results
    <3>1. results'[d] = results[d]
      BY <1>2, <2>1
    <3> QED  BY <1>4, <3>1
  <2>2. CASE d = c /\ results' # results
    BY <1>5, <1>6, <2>2
  <2> QED  BY <2>1, <2>2
<1>8. OfferedOnce(ctl', open', est, results', acks)
  BY <1>7, OfferedOnceStays
<1> QED  BY <1>8

\* Neither a job, nor a query, nor a refusal promises anything.
LEMMA QueriesKeepPromises ==
    ASSUME OfferTypeOK, ConnInv, Promises,
           \/ \E c \in Client : GetSlot(c) \/ QuerySlot(c) \/ JobCheck(c) \/ DisableWorker(c)
                                \/ EnableWorker(c) \/ OnSlotEmpty(c)
           \/ \E k \in Conn : ConnError(k) \/ DealQuerySlot(k) \/ AppendClient(k) \/ CloseRefused(k)
    PROVE  Promises'
<1>0. /\ ctl \in [Client -> Ctl] /\ prio \in [Conn -> Nat] /\ events \in Nat
      /\ OfferedOnce(ctl, open, est, results, acks)
  BY DEF OfferTypeOK, Promises
<1>1. ASSUME UNCHANGED <<granted, note, slots, est, acks, Work, extra, got>>,
             OfferedOnce(ctl', open', est', results', acks')
      PROVE  Promises'
  BY <1>1, Zenon DEF Promises
<1>2. ASSUME NEW c \in Client, GetSlot(c) \/ JobCheck(c) \/ EnableWorker(c) \/ OnSlotEmpty(c)
      PROVE  Promises'
  <2>1. SameConns(ctl', ctl)
    BY <1>0, <1>2, JobsEffect
  <2>2. UNCHANGED <<granted, note, slots, est, acks, Work, extra, got, open, results>>
    BY <1>2 DEF GetSlot, JobCheck, EnableWorker, OnSlotEmpty, net, worker, tasks, Work
  <2>3. \A d \in Client : ctl'[d].conn = ctl[d].conn
    BY <2>1 DEF SameConns
  <2>4. ctl'[c].conn \in {ctl[c].conn, 0} /\ open' \subseteq open
    BY <2>2, <2>3
  <2>5. OfferedOnce(ctl', open', est', results', acks')
    BY <1>0, <2>2, <2>3, <2>4, OfferedStays
  <2> QED  BY <1>1, <2>2, <2>5
<1>3. ASSUME NEW c \in Client, QuerySlot(c)
      PROVE  Promises'
  <2>1. UNCHANGED <<granted, note, slots, est, acks, Work, extra, got, results>>
    BY <1>3 DEF QuerySlot, tasks, Work
  <2>2. /\ \A d \in Client \ {c} : ctl'[d].conn = ctl[d].conn
        /\ \/ ctl'[c].conn \in {ctl[c].conn, 0} /\ open' \subseteq open
           \/ /\ ctl'[c].conn = ctl[c].opened + 1
              /\ open' \subseteq open \cup {<<c, ctl[c].opened + 1>>}
    BY <1>0, <1>3, QueryEffect
  <2>3. OfferedOnce(ctl', open', est', results', acks')
    BY <1>0, <2>1, <2>2, OfferedStays
  <2> QED  BY <1>1, <2>1, <2>3
<1>4. ASSUME NEW c \in Client, DisableWorker(c)
      PROVE  Promises'
  <2>1. UNCHANGED <<granted, note, slots, est, acks, Work, extra, got, results>>
        /\ open' \subseteq open
    BY <1>4 DEF DisableWorker, WithoutConn, worker, tasks, Work
  <2>2. /\ \A d \in Client \ {c} : ctl'[d].conn = ctl[d].conn
        /\ ctl'[c].conn \in {ctl[c].conn, 0}
    BY <1>0, <1>4, DisableEffect
  <2>3. OfferedOnce(ctl', open', est', results', acks')
    BY <1>0, <2>1, <2>2, OfferedStays
  <2> QED  BY <1>1, <2>1, <2>3
<1>5. ASSUME NEW k \in Conn,
             ConnError(k) \/ DealQuerySlot(k) \/ AppendClient(k) \/ CloseRefused(k)
      PROVE  Promises'
  <2> DEFINE c == k[1]
  <2>1. c \in Client /\ k[2] \in Nat
    BY ConnIsPair
  <2>2. UNCHANGED <<ctl, granted, note, slots, est, acks, Work, extra, got>> /\ open' \subseteq open
    BY <1>5 DEF ConnError, DealQuerySlot, AppendClient, CloseRefused, controllers, net, worker, tasks, Work
  <2>3. results' = results \/ \E r \in Result : r.kind # "offer"
                                /\ results' = [results EXCEPT ![c] = Append(@, r)]
    <3>1. /\ [kind |-> "error", conn |-> k[2], num |-> 0] \in Result
          /\ [kind |-> "refused", conn |-> k[2], num |-> 0] \in Result
      BY <2>1 DEF Result
    <3>2. \/ results' = results
          \/ results' = [results EXCEPT ![c] = Append(@, [kind |-> "error", conn |-> k[2], num |-> 0])]
          \/ results' = [results EXCEPT ![c] = Append(@, [kind |-> "refused", conn |-> k[2], num |-> 0])]
      BY <1>5 DEF ConnError, DealQuerySlot, AppendClient, CloseRefused, net
    <3> QED  BY <3>1, <3>2
  <2> HIDE DEF c
  <2>4. /\ \A d \in Client \ {c} : ctl'[d].conn = ctl[d].conn
        /\ ctl'[c].conn \in {ctl[c].conn, 0}
    BY <2>2
  <2>5. OfferedOnce(ctl', open', est', results', acks')
    BY <1>0, <2>1, <2>2, <2>3, <2>4, OfferedStays
  <2> QED  BY <1>1, <2>2, <2>5
<1> QED  BY <1>2, <1>3, <1>4, <1>5

\* The answer promises what the offer had left for it.
LEMMA ResultKeepsPromises ==
    ASSUME OfferTypeOK, ConnInv, Promises, NEW c \in Client, OnSlotResult(c), ~astray'
    PROVE  Promises'
<1> DEFINE r == Head(results[c])
           n == ctl[c].conn
<1>0. /\ results \in [Client -> Seq(Result)] /\ acks \in [Conn -> Seq(Nat)]
      /\ granted \in [Client -> Nat] /\ note \in [Client -> Nat] /\ slots \in Seq(Slot)
      /\ Work \in Nat /\ Total(extra) \in Nat /\ got \in Nat /\ Available \in Nat
      /\ ctl \in [Client -> Ctl]
  BY WorkIsNat, OfferAssumption DEF OfferTypeOK
<1>1. /\ OfferedOnce(ctl, open, est, results, acks)
      /\ Covered(granted, note, extra, slots, est, acks)
      /\ Fits(Work, got, granted, extra, est, acks)
  BY DEF Promises
<1>2. /\ results[c] # <<>> /\ r \in Result
      /\ results' = [results EXCEPT ![c] = Tail(@)] /\ results' \in [Client -> Seq(Result)]
      /\ \A d \in Client \ {c} : ctl'[d] = ctl[d]
      /\ \/ ctl'[c].conn = n /\ UNCHANGED <<granted, open, acks>>
         \/ ctl'[c].conn = 0 /\ open' = open \ {<<c, n>>} /\ UNCHANGED <<granted, acks>>
         \/ /\ r.kind = "offer" /\ n # 0 /\ ctl'[c].conn = n /\ UNCHANGED open
            /\ \E consumed \in Nat :
                 /\ consumed <= r.num
                 /\ granted' = [granted EXCEPT ![c] = @ + consumed]
                 /\ acks' = [acks EXCEPT ![<<c, n>>] = Append(@, consumed)]
            /\ astray' = (astray \/ r.conn # n)
  BY <1>0, ResultEffect
<1>3. UNCHANGED <<note, slots, est, Work, extra, got>>
  BY DEF OnSlotResult, worker, tasks, Work
<1>4. CASE /\ ctl'[c].conn \in {n, 0} /\ open' \subseteq open /\ UNCHANGED <<granted, acks>>
  <2>1. OfferedOnce(ctl', open', est', results', acks')
    BY <1>1, <1>2, <1>3, <1>4, OfferedStays
  <2> QED  BY <1>1, <1>3, <1>4, <2>1, Zenon DEF Promises
<1>5. ASSUME NEW consumed \in Nat, consumed <= r.num,
             r.kind = "offer", n # 0, ctl'[c].conn = n, UNCHANGED open,
             granted' = [granted EXCEPT ![c] = @ + consumed],
             acks' = [acks EXCEPT ![<<c, n>>] = Append(@, consumed)],
             astray' = (astray \/ r.conn # n)
      PROVE  Promises'
  <2>1. r.conn = n
    BY <1>5, Zenon
  <2>2. r = results[c][1] /\ 1 \in DOMAIN results[c]
    <3> DEFINE s == results[c]
    <3>1. s # <<>> /\ s \in Seq(Result)
      BY <1>0, <1>2
    <3> HIDE DEF s
    <3>2. Head(s) = s[1] /\ 1 \in DOMAIN s
      BY <3>1, TailElements
    <3> QED  BY <3>2 DEF s
  <2>3. Live(ctl, open, c, results[c][1])
    BY <1>5, <2>1, <2>2 DEF Live
  <2>4. /\ est.pc = "ack" /\ est.conn = <<c, n>> /\ r.num = est.avail /\ acks[<<c, n>>] = <<>>
        /\ \A j \in DOMAIN results[c] : Live(ctl, open, c, results[c][j]) => j = 1
    <3> HIDE DEF r, n
    <3>1. /\ est.pc = "ack" /\ est.conn = <<c, results[c][1].conn>>
          /\ results[c][1].num = est.avail /\ acks[est.conn] = <<>>
          /\ \A j \in DOMAIN results[c] : Live(ctl, open, c, results[c][j]) => j = 1
      BY <1>1, <2>2, <2>3, Zenon DEF OfferedOnce
    <3> QED  BY <2>1, <2>2, <3>1
  <2>5. <<c, n>> \in Conn
    BY <2>4 DEF OfferTypeOK, Asked
  <2>6. /\ acks'[<<c, n>>] = <<consumed>>
        /\ \A k \in Conn \ {<<c, n>>} : acks'[k] = acks[k] /\ acks[k] = <<>>
    <3>1. acks'[<<c, n>>] = Append(acks[<<c, n>>], consumed)
      BY <1>0, <1>5, <2>5
    <3>2. Append(<<>>, consumed) = <<consumed>>
      OBVIOUS
    <3>3. \A k \in Conn \ {<<c, n>>} : acks[k] = <<>>
      BY <1>1, <2>4 DEF OfferedOnce
    <3> QED  BY <1>0, <1>5, <2>4, <3>1, <3>2, <3>3
  <2> HIDE DEF r, n
  <2>7. est.avail \in Nat /\ consumed <= est.avail
    BY <1>5, <2>4 DEF OfferTypeOK, Estimate
  <2>8. OfferedOnce(ctl', open', est', results', acks')
    <3>1. ASSUME NEW d \in Client, NEW i \in DOMAIN results'[d], Live(ctl', open', d, results'[d][i])
          PROVE  FALSE
      <4>1. CASE d = c
        <5> DEFINE s == results[c]
        <5>1. s # <<>> /\ s \in Seq(Result) /\ results'[c] = Tail(s)
          BY <1>0, <1>2
        <5> HIDE DEF s
        <5>2. i + 1 \in DOMAIN s /\ Tail(s)[i] = s[i + 1] /\ i # 0 /\ i \in Nat
          BY <3>1, <4>1, <5>1, TailElements
        <5>3. results'[c][i] = results[c][i + 1] /\ i + 1 \in DOMAIN results[c] /\ i # 0 /\ i \in Nat
          BY <5>1, <5>2 DEF s
        <5>4. Live(ctl, open, c, results[c][i + 1])
          BY <1>5, <3>1, <4>1, <5>3 DEF Live, n
        <5>5. i + 1 = 1
          BY <2>4, <5>3, <5>4
        <5> QED  BY <5>3, <5>5
      <4>2. CASE d # c
        <5>1. results'[d] = results[d] /\ ctl'[d] = ctl[d]
          BY <1>0, <1>2, <4>2
        <5>2. i \in DOMAIN results[d] /\ Live(ctl, open, d, results[d][i])
          BY <1>5, <3>1, <5>1 DEF Live
        <5>3. est.conn = <<d, results[d][i].conn>>
          BY <1>1, <5>2, Zenon DEF OfferedOnce
        <5> QED  BY <2>4, <4>2, <5>3
      <4> QED  BY <4>1, <4>2
    <3>2. \A k \in Conn : acks'[k] # <<>> =>
             est.pc = "ack" /\ est.conn = k /\ Len(acks'[k]) = 1 /\ acks'[k][1] <= est.avail
      <4>1. Len(<<consumed>>) = 1 /\ <<consumed>>[1] = consumed
        OBVIOUS
      <4> QED  BY <2>4, <2>6, <2>7, <4>1
    <3> QED  BY <1>3, <3>1, <3>2 DEF OfferedOnce
  <2>9. Taken(est, acks) = 0 /\ Taken(est', acks') = consumed
    <3>1. <<consumed>> # <<>> /\ <<consumed>>[1] = consumed
      OBVIOUS
    <3> QED  BY <1>3, <2>4, <2>6, <3>1 DEF Taken
  <2>10. /\ Pending(est, acks, c) = 0 /\ Pending(est', acks', c) = consumed
         /\ \A d \in Client \ {c} : Pending(est', acks', d) = 0 /\ Pending(est, acks, d) = 0
    <3>1. est.conn[1] = c
      BY <2>4
    <3> QED  BY <1>3, <2>4, <2>9, <3>1 DEF Pending
  <2>11. Covered(granted', note', extra', slots', est', acks')
    <3>1. ASSUME NEW d \in Client
          PROVE  granted'[d] + note[d] <= SlotsOf(slots, d) + Pending(est', acks', d) + extra[d]
      <4>1. granted[d] + note[d] <= SlotsOf(slots, d) + Pending(est, acks, d) + extra[d]
        BY <1>1 DEF Covered
      <4>2. granted[d] \in Nat /\ note[d] \in Nat /\ extra[d] \in Nat /\ SlotsOf(slots, d) \in Nat
        BY <1>0, WorkIsNat, SlotsAreNat
      <4>3. CASE d = c
        <5>1. granted'[d] = granted[d] + consumed
          BY <1>0, <1>5, <4>3
        <5> QED  BY <2>10, <4>1, <4>2, <4>3, <5>1
      <4>4. CASE d # c
        <5>1. granted'[d] = granted[d]
          BY <1>0, <1>5, <4>4
        <5> QED  BY <2>10, <4>1, <4>2, <4>4, <5>1
      <4> QED  BY <4>3, <4>4
    <3> QED  BY <1>3, <3>1 DEF Covered
  <2>12. Fits(Work', got', granted', extra', est', acks')
    <3>1. Total(granted) \in Nat /\ Total(granted') = Total(granted) + consumed
      <4>1. granted[c] \in Nat /\ granted[c] + consumed \in Nat
        BY <1>0
      <4>2. granted' = [granted EXCEPT ![c] = granted[c] + consumed]
        BY <1>5
      <4>3. Total(granted) \in Nat
            /\ Total(granted') = Total(granted) - granted[c] + (granted[c] + consumed)
        BY <1>0, <4>1, <4>2, TotalChange
      <4> QED  BY <4>1, <4>3
    <3>2. Free(est, acks) = est.avail /\ Free(est', acks') = est.avail - consumed
      BY <1>3, <2>4, <2>7, <2>9 DEF Free
    <3> QED  BY <1>0, <1>1, <1>3, <2>7, <3>1, <3>2 DEF Fits
  <2> QED  BY <2>8, <2>11, <2>12 DEF Promises
<1> QED  BY <1>2, <1>4, <1>5

\* What there is to do may shrink, and what is promised be let off.
LEMMA StillFits ==
    ASSUME NEW w \in Int, NEW g \in Int, NEW p \in Int, NEW f \in Int, NEW m \in Int,
           NEW v \in Int, NEW h \in Int, w + g + p + f <= m, v + h <= w + g
    PROVE  v + h + p + f <= m
OBVIOUS

\* What was estimated is there when what was read is no less than what is.
LEMMA EstimateFits ==
    ASSUME NEW r \in Int, NEW q \in Int, NEW b \in Int, NEW w \in Int, NEW v \in Int,
           NEW g \in Int, NEW n \in Int, NEW p \in Int, NEW x \in Int, NEW a \in Int,
           v + r + b + w = a, q <= r, g <= n, p + n <= b + x
    PROVE  q + w + g + p + v <= a + x
OBVIOUS

\* A task that comes counts as it was promised; one that never comes, as less.
LEMMA TasksKeepPromises ==
    ASSUME OfferTypeOK, Promises,
           \/ \E c \in Client : GiveUp(c) \/ ReceiveTask(c) \/ OnTaskReceived(c)
           \/ ObtainChance \/ FreeChance \/ CheckCmds
    PROVE  Promises'
<1>0. /\ granted \in [Client -> Nat] /\ note \in [Client -> Nat] /\ slots \in Seq(Slot)
      /\ extra \in [Client -> Nat]
      /\ Work \in Nat /\ Total(extra) \in Nat /\ got \in Nat /\ Available \in Nat
      /\ Total(granted) \in Nat
      /\ Free(est, acks) \in Int /\ \A c : Pending(est, acks, c) \in Nat
  BY WorkIsNat, OfferAssumption, TakenIsNat DEF OfferTypeOK
<1>1. /\ OfferedOnce(ctl, open, est, results, acks)
      /\ Covered(granted, note, extra, slots, est, acks)
      /\ Fits(Work, got, granted, extra, est, acks)
  BY DEF Promises
<1>2. UNCHANGED <<ctl, open, est, results, acks>>
  BY DEF GiveUp, ReceiveTask, OnTaskReceived, ObtainChance, FreeChance, CheckCmds, controllers, net,
         worker
<1>3. OfferedOnce(ctl', open', est', results', acks')
  BY <1>1, <1>2, Zenon
\* The task of a slot comes, or never comes; or one without a slot comes.
<1>4. ASSUME NEW c \in Client, GiveUp(c) \/ ReceiveTask(c)
      PROVE  Promises'
  <2>1. UNCHANGED <<slots, Work>>
    BY <1>4 DEF GiveUp, ReceiveTask, worker, tasks, Work
  <2>2. \/ /\ granted[c] > 0 /\ granted' = [granted EXCEPT ![c] = granted[c] - 1]
           /\ UNCHANGED <<extra, note, got>>
        \/ /\ granted[c] > 0 /\ granted' = [granted EXCEPT ![c] = granted[c] - 1]
           /\ UNCHANGED extra /\ note' = [note EXCEPT ![c] = note[c] + 1] /\ got' = got + 1
        \/ /\ UNCHANGED granted /\ extra' = [extra EXCEPT ![c] = extra[c] + 1]
           /\ note' = [note EXCEPT ![c] = note[c] + 1] /\ got' = got + 1
    BY <1>4 DEF GiveUp, ReceiveTask, tasks
  <2>3. ASSUME granted[c] > 0, granted' = [granted EXCEPT ![c] = granted[c] - 1]
        PROVE  Total(granted') = Total(granted) - 1
    <3>1. granted[c] \in Nat /\ granted[c] - 1 \in Nat
      BY <1>0, <2>3
    <3>2. Total(granted) \in Nat
          /\ Total(granted') = Total(granted) - granted[c] + (granted[c] - 1)
      BY <1>0, <2>3, <3>1, TotalChange
    <3> QED  BY <3>1, <3>2
  <2>4. ASSUME extra' = [extra EXCEPT ![c] = extra[c] + 1]
        PROVE  Total(extra') = Total(extra) + 1
    <3>1. extra[c] \in Nat /\ extra[c] + 1 \in Nat
      BY <1>0
    <3>2. Total(extra) \in Nat
          /\ Total(extra') = Total(extra) - extra[c] + (extra[c] + 1)
      BY <1>0, <2>4, <3>1, TotalChange
    <3> QED  BY <3>1, <3>2
  <2>5. Fits(Work', got', granted', extra', est', acks')
    <3>1. \/ /\ Total(granted') = Total(granted) - 1 /\ Total(extra') = Total(extra)
             /\ got' \in {got, got + 1}
          \/ /\ Total(granted') = Total(granted) /\ Total(extra') = Total(extra) + 1
             /\ got' = got + 1
      BY <2>2, <2>3, <2>4
    <3>2. Work' = Work /\ Free(est', acks') = Free(est, acks)
      BY <1>2, <2>1
    <3>3. /\ Work \in Nat /\ got \in Nat /\ Total(granted) \in Nat /\ Total(extra) \in Nat
          /\ Free(est, acks) \in Int /\ Available \in Nat
      BY <1>0
    <3>4. /\ Free(est, acks) >= 0
          /\ Work + got + Total(granted) + Free(est, acks) <= Available + Total(extra)
      BY <1>1 DEF Fits
    <3>5. Work + got' + Total(granted') + Free(est, acks) <= Available + Total(extra')
      BY <3>1, <3>3, <3>4
    <3> QED  BY <3>2, <3>4, <3>5 DEF Fits
  <2>6. ASSUME NEW d \in Client
        PROVE  granted'[d] + note'[d] <= SlotsOf(slots, d) + Pending(est, acks, d) + extra'[d]
    <3>1. granted[d] + note[d] <= SlotsOf(slots, d) + Pending(est, acks, d) + extra[d]
      BY <1>1 DEF Covered
    <3>2. granted[d] \in Nat /\ note[d] \in Nat /\ extra[d] \in Nat /\ SlotsOf(slots, d) \in Nat
      BY <1>0, SlotsAreNat
    <3>3. CASE d = c
      <4>1. \/ granted'[d] = granted[d] - 1 /\ extra'[d] = extra[d] /\ note'[d] \in {note[d], note[d] + 1}
            \/ granted'[d] = granted[d] /\ extra'[d] = extra[d] + 1 /\ note'[d] = note[d] + 1
        BY <1>0, <2>2, <3>3
      <4>2. Pending(est, acks, d) \in Nat
        BY <1>0
      <4> QED  BY <3>1, <3>2, <4>1, <4>2
    <3>4. CASE d # c
      <4>1. granted'[d] = granted[d] /\ note'[d] = note[d] /\ extra'[d] = extra[d]
        BY <1>0, <2>2, <3>4
      <4> QED  BY <3>1, <4>1
    <3> QED  BY <3>3, <3>4
  <2>7. Covered(granted', note', extra', slots', est', acks')
    BY <1>2, <2>1, <2>6 DEF Covered
  <2> QED  BY <1>3, <2>5, <2>7 DEF Promises
<1>5. ASSUME NEW c \in Client, OnTaskReceived(c)
      PROVE  Promises'
  <2>1. /\ note[c] > 0 /\ note' = [note EXCEPT ![c] = note[c] - 1]
        /\ UNCHANGED <<granted, Work, extra, got>>
    BY <1>5 DEF OnTaskReceived, controllers, Work
  <2>2. \/ UNCHANGED slots
        \/ slots' \in Seq(Slot)
           /\ \A d : SlotsOf(slots', d) = SlotsOf(slots, d) - (IF d = c THEN 1 ELSE 0)
    BY <1>5, TaskReceivedEffect
  <2>3. ASSUME NEW d \in Client
        PROVE  granted[d] + note'[d] <= SlotsOf(slots', d) + Pending(est, acks, d) + extra[d]
    <3>1. granted[d] + note[d] <= SlotsOf(slots, d) + Pending(est, acks, d) + extra[d]
      BY <1>1 DEF Covered
    <3>2. granted[d] \in Nat /\ note[d] \in Nat /\ extra[d] \in Nat /\ SlotsOf(slots, d) \in Nat
      BY <1>0, SlotsAreNat
    <3>3. CASE d = c
      <4>1. note'[d] = note[d] - 1
        BY <1>0, <2>1, <3>3
      <4>2. SlotsOf(slots', d) \in {SlotsOf(slots, d), SlotsOf(slots, d) - 1}
        BY <2>2, <3>3
      <4> QED  BY <1>0, <3>1, <3>2, <4>1, <4>2
    <3>4. CASE d # c
      <4>1. note'[d] = note[d]
        BY <1>0, <2>1, <3>4
      <4>2. SlotsOf(slots', d) = SlotsOf(slots, d)
        BY <2>2, <3>2, <3>4
      <4> QED  BY <3>1, <4>1, <4>2
    <3> QED  BY <3>3, <3>4
  <2>4. Covered(granted', note', extra', slots', est', acks')
    BY <1>2, <2>1, <2>3 DEF Covered
  <2>5. Fits(Work', got', granted', extra', est', acks')
    BY <1>1, <1>2, <2>1, Zenon
  <2> QED  BY <1>3, <2>4, <2>5 DEF Promises
<1>6. CASE ObtainChance \/ FreeChance \/ CheckCmds
  <2>1. UNCHANGED <<granted, note, extra, slots>>
    BY <1>6 DEF ObtainChance, FreeChance, CheckCmds, controllers, worker
  <2>2. Work' + got' <= Work + got /\ Work' \in Int /\ got' \in Int
    BY <1>6 DEF ObtainChance, FreeChance, CheckCmds, Work, OfferTypeOK
  <2>3. Fits(Work', got', granted', extra', est', acks')
    <3>1. Total(granted') = Total(granted) /\ Total(extra') = Total(extra)
          /\ Free(est', acks') = Free(est, acks)
      BY <1>2, <2>1
    <3>2. /\ Work \in Nat /\ got \in Nat /\ Total(granted) \in Nat /\ Total(extra) \in Nat
          /\ Free(est, acks) \in Int /\ Available \in Nat
      BY <1>0
    <3>3. /\ Free(est, acks) >= 0
          /\ Work + got + Total(granted) + Free(est, acks) <= Available + Total(extra)
      BY <1>1 DEF Fits
    <3>4. Work' + got' + Total(granted) + Free(est, acks) <= Available + Total(extra)
      <4> DEFINE f == Free(est, acks)
                 p == Total(granted)
                 m == Available + Total(extra)
      <4>1. /\ Work \in Int /\ got \in Int /\ p \in Int /\ f \in Int /\ m \in Int
            /\ Work' \in Int /\ got' \in Int
        BY <2>2, <3>2
      <4>2. Work + got + p + f <= m /\ Work' + got' <= Work + got
        BY <2>2, <3>3
      <4> HIDE DEF f, p, m
      <4>3. Work' + got' + p + f <= m
        BY <4>1, <4>2, StillFits
      <4> QED  BY <4>3 DEF f, p, m
    <3> QED  BY <3>1, <3>3, <3>4 DEF Fits
  <2>4. Covered(granted', note', extra', slots', est', acks')
    BY <1>1, <1>2, <2>1, Zenon
  <2> QED  BY <1>3, <2>3, <2>4 DEF Promises
<1> QED  BY <1>4, <1>5, <1>6

\* Slots are given back of clients that were promised nothing.
LEMMA UnbookKeepsPromises ==
    ASSUME OfferTypeOK, Promises, NEW gone \in SUBSET DOMAIN slots, Unbook(gone), ~astray',
           UNCHANGED <<controllers, net, est, tasks>>
    PROVE  Promises'
<1>0. /\ granted \in [Client -> Nat] /\ note \in [Client -> Nat] /\ slots \in Seq(Slot)
      /\ \A c : Pending(est, acks, c) \in Nat
  BY TakenIsNat DEF OfferTypeOK
<1>1. UNCHANGED <<ctl, granted, note, open, est, results, acks, Work, extra, got>>
  BY DEF controllers, net, tasks, Work
<1>2. /\ astray' = (astray \/ \E i \in gone : Promised(slots[i].conn[1]) > 0)
      /\ slots' \in Seq(Slot)
      /\ \A c : SlotsOf(slots', c) =
                  SlotsOf(slots, c) - SumFunctionOnSet(Num(slots), gone \cap Of(slots, c))
  BY UnbookEffect
<1>3. \A i \in gone : ~(Promised(slots[i].conn[1]) > 0)
  BY <1>2, Zenon
<1>4. ASSUME NEW c \in Client
      PROVE  granted[c] + note[c] <= SlotsOf(slots', c) + Pending(est, acks, c) + extra[c]
  <2>1. granted[c] + note[c] <= SlotsOf(slots, c) + Pending(est, acks, c) + extra[c]
    BY DEF Promises, Covered
  <2>2. granted[c] \in Nat /\ note[c] \in Nat /\ extra[c] \in Nat /\ SlotsOf(slots, c) \in Nat
        /\ SlotsOf(slots', c) \in Nat
    BY <1>0, <1>2, WorkIsNat, SlotsAreNat
  <2>3. CASE gone \cap Of(slots, c) = {}
    <3>1. SlotsOf(slots', c) = SlotsOf(slots, c) - 0
      BY <1>2, <2>3, SumEmpty
    <3> QED  BY <1>0, <2>1, <2>2, <3>1
  <2>4. CASE gone \cap Of(slots, c) # {}
    <3>1. PICK i \in gone : slots[i].conn[1] = c
      BY <2>4 DEF Of
    <3>2. ~(granted[c] + note[c] > 0)
      BY <1>3, <3>1 DEF Promised
    <3> QED  BY <1>0, <2>2, <3>2
  <2> QED  BY <2>3, <2>4
<1>5. Covered(granted', note', extra', slots', est', acks')
  BY <1>1, <1>4 DEF Covered
<1>6. OfferedOnce(ctl', open', est', results', acks') /\ Fits(Work', got', granted', extra', est', acks')
  BY <1>1, Zenon DEF Promises
<1> QED  BY <1>5, <1>6 DEF Promises

\* What is promised has slots, all of which bookedSlotNum counts.
LEMMA EstimateKeepsPromises ==
    ASSUME OfferTypeOK, ReadInv, BookedInv, Promises, EstimateSlot, ~raced, ~astray'
    PROVE  Promises'
<1>0. /\ granted \in [Client -> Nat] /\ note \in [Client -> Nat] /\ slots \in Seq(Slot)
      /\ extra \in [Client -> Nat] /\ running \in Nat /\ waiting \in Nat
      /\ got \in Nat /\ booked \in Nat /\ Available \in Nat
      /\ load.step \in 0..2 /\ load.running \in Nat /\ load.booked \in Nat
  BY OfferAssumption DEF OfferTypeOK, Read
<1>1. /\ est.pc = "idle"
      /\ UNCHANGED <<ctl, granted, note, open, results, acks, slots, Work, extra, got>>
  BY DEF EstimateSlot, ReadInv, controllers, net, tasks, Work
<1>2. CASE UNCHANGED est
  BY <1>1, <1>2, Zenon DEF Promises
<1> DEFINE v == Available - load.running - load.booked - waiting
<1>3. CASE /\ load.step = 2 /\ v > 0 /\ est' = [Resting EXCEPT !.pc = "select", !.avail = v]
           /\ astray' = (astray \/ running > load.running \/ got > Total(note))
  <2>1. est'.pc = "select" /\ est'.avail = v
    BY <1>3 DEF Resting
  <2>2. ~(running > load.running) /\ ~(got > Total(note))
    BY <1>3, Zenon
  <2>3. booked = All(slots) /\ All(slots) \in Nat
    BY <1>0, <1>1, SlotsAreNat DEF BookedInv
  <2>4. All(slots) <= load.booked
    BY <1>3, <2>3 DEF ReadInv
  <2> DEFINE so == [c \in Client |-> SlotsOf(slots, c) + extra[c]]
             sl == [c \in Client |-> SlotsOf(slots, c)]
             pr == [c \in Client |-> granted[c] + note[c]]
  <2>5. \A c \in Client : /\ granted[c] \in Int /\ note[c] \in Int /\ extra[c] \in Int
                          /\ so[c] \in Int /\ so[c] = sl[c] + extra[c] /\ sl[c] \in Int
                          /\ pr[c] \in Int /\ pr[c] = granted[c] + note[c] /\ pr[c] <= so[c]
    <3>1. ASSUME NEW c \in Client
          PROVE  /\ granted[c] \in Nat /\ note[c] \in Nat /\ extra[c] \in Nat
                 /\ SlotsOf(slots, c) \in Nat
                 /\ granted[c] + note[c] <= SlotsOf(slots, c) + extra[c]
      <4>1. granted[c] + note[c] <= SlotsOf(slots, c) + Pending(est, acks, c) + extra[c]
        BY DEF Promises, Covered
      <4>2. Pending(est, acks, c) = 0
        BY <1>1 DEF Pending
      <4>3. granted[c] \in Nat /\ note[c] \in Nat /\ extra[c] \in Nat /\ SlotsOf(slots, c) \in Nat
        BY <1>0, SlotsAreNat
      <4> QED  BY <4>1, <4>2, <4>3
    <3> QED  BY <3>1
  <2>6. Total(granted) + Total(note) <= All(slots) + Total(extra)
    <3>1. IsFiniteSet(Client)
      BY OfferAssumption
    <3>2. SumFunctionOnSet(sl, Client) = All(slots)
      BY <1>0, SlotsByClient
    <3> HIDE DEF so, sl, pr
    <3>3. SumFunctionOnSet(pr, Client) = Total(granted) + Total(note)
      BY <2>5, <3>1, SumPlus DEF Total
    <3>4. SumFunctionOnSet(so, Client) = All(slots) + Total(extra)
      <4>1. SumFunctionOnSet(so, Client) = SumFunctionOnSet(sl, Client) + SumFunctionOnSet(extra, Client)
        BY <2>5, <3>1, SumPlus
      <4> QED  BY <3>2, <4>1 DEF Total
    <3>5. SumFunctionOnSet(pr, Client) <= SumFunctionOnSet(so, Client)
      BY <2>5, <3>1, SumMonotone
    <3> QED  BY <3>3, <3>4, <3>5
  <2>7. Total(granted) \in Nat /\ Total(note) \in Nat /\ Total(extra) \in Nat
    BY WorkIsNat
  <2>8. Free(est', acks') = v
    BY <1>0, <2>1 DEF Free, Taken
  <2>9. Fits(Work', got', granted', extra', est', acks')
    <3>1. v + load.running + load.booked + waiting = Available /\ v \in Int
      BY <1>0
    <3> HIDE DEF v
    <3>2. running <= load.running /\ got <= Total(note) /\ Work = running + waiting
      BY <1>0, <2>2, <2>7 DEF Work
    <3>3. Work + got + Total(granted) + v <= Available + Total(extra)
      <4>1. Total(granted) + Total(note) <= load.booked + Total(extra)
        BY <1>0, <2>3, <2>4, <2>6, <2>7
      <4>2. /\ running \in Int /\ waiting \in Int /\ got \in Int /\ Available \in Int
            /\ load.running \in Int /\ load.booked \in Int
        BY <1>0
      <4>3. running + waiting + got + Total(granted) + v <= Available + Total(extra)
        BY <2>7, <3>1, <3>2, <4>1, <4>2, EstimateFits
      <4> QED  BY <3>2, <4>3
    <3>4. v >= 0
      BY <1>3, <3>1
    <3>5. Work' = Work /\ got' = got /\ granted' = granted /\ extra' = extra
      BY <1>1
    <3> QED  BY <2>8, <3>3, <3>4, <3>5 DEF Fits
  <2> HIDE DEF v
  <2>10. Covered(granted', note', extra', slots', est', acks')
    <3>1. \A c : Pending(est', acks', c) = 0 /\ Pending(est, acks, c) = 0
      BY <1>1, <2>1 DEF Pending
    <3> QED  BY <1>1, <3>1 DEF Promises, Covered
  <2>11. OfferedOnce(ctl', open', est', results', acks')
    BY <1>1 DEF Promises, OfferedOnce
  <2> QED  BY <2>9, <2>10, <2>11 DEF Promises
<1> QED  BY <1>2, <1>3 DEF EstimateSlot

\* The client that is asked has no other offer, and none has an answer.
LEMMA SelectKeepsPromises ==
    ASSUME OfferTypeOK, Promises, SelectClient
    PROVE  Promises'
<1>0. /\ est \in Estimate /\ results \in [Client -> Seq(Result)] /\ acks \in [Conn -> Seq(Nat)]
      /\ granted \in [Client -> Nat] /\ Work \in Nat /\ Total(extra) \in Nat /\ got \in Nat
  BY WorkIsNat DEF OfferTypeOK
<1>1. /\ est.pc = "select" /\ UNCHANGED <<ctl, granted, note, open, acks, slots, Work, extra, got>>
  BY DEF SelectClient, controllers, tasks, Work
<1>2. /\ OfferedOnce(ctl, open, est, results, acks)
      /\ Covered(granted, note, extra, slots, est, acks)
      /\ Fits(Work, got, granted, extra, est, acks)
  BY DEF Promises
<1>3. /\ \A c \in Client : \A i \in DOMAIN results[c] : ~Live(ctl, open, c, results[c][i])
      /\ \A k \in Conn : acks[k] = <<>>
  BY <1>1, <1>2 DEF OfferedOnce
<1>4. Free(est, acks) = est.avail /\ \A c : Pending(est, acks, c) = 0
  BY <1>0, <1>1 DEF Free, Taken, Pending, Estimate
<1>5. ASSUME \A c : Pending(est', acks', c) = 0, Free(est', acks') \in {0, est.avail}
      PROVE  /\ Covered(granted', note', extra', slots', est', acks')
             /\ Fits(Work', got', granted', extra', est', acks')
  <2>1. Covered(granted', note', extra', slots', est', acks')
    BY <1>1, <1>2, <1>4, <1>5 DEF Covered
  <2>2. Total(granted) \in Nat /\ Available \in Nat
    <3>1. IsFiniteSet(Client) /\ \A x \in Client : granted[x] \in Nat
      BY <1>0, OfferAssumption
    <3> QED  BY <3>1, SumNat, OfferAssumption DEF Total
  <2>3. est.avail \in Nat
    BY <1>0 DEF Estimate
  <2>4. Fits(Work', got', granted', extra', est', acks')
    BY <1>0, <1>1, <1>2, <1>4, <1>5, <2>2, <2>3 DEF Fits
  <2> QED  BY <2>1, <2>4
<1>6. CASE est' = Resting /\ UNCHANGED results
  <2>1. est'.pc = "idle"
    BY <1>6 DEF Resting
  <2>2. (\A c : Pending(est', acks', c) = 0) /\ Free(est', acks') = 0
    BY <2>1 DEF Pending, Free
  <2>3. OfferedOnce(ctl', open', est', results', acks')
    BY <1>1, <1>3, <1>6 DEF OfferedOnce
  <2> QED  BY <1>5, <2>2, <2>3 DEF Promises
<1>7. ASSUME NEW k \in Conn, UNCHANGED results, est' = [est EXCEPT !.excludes = @ \cup {k}]
      PROVE  Promises'
  <2>1. est'.pc = "select" /\ est'.avail = est.avail
    BY <1>0, <1>1, <1>7 DEF Estimate
  <2>2. (\A c : Pending(est', acks', c) = 0) /\ Free(est', acks') = est.avail
    BY <1>0, <2>1 DEF Pending, Free, Taken, Estimate
  <2>3. OfferedOnce(ctl', open', est', results', acks')
    BY <1>1, <1>3, <1>7 DEF OfferedOnce
  <2> QED  BY <1>5, <2>2, <2>3 DEF Promises
<1>8. ASSUME NEW k \in Conn, k \in open,
             est' = [est EXCEPT !.pc = "ack", !.conn = k, !.excludes = @ \cup {k}],
             results' = [results EXCEPT ![k[1]] = Append(@, Offer(k[2], est.avail))]
      PROVE  Promises'
  <2>1. est'.pc = "ack" /\ est'.avail = est.avail /\ est'.conn = k
    <3> DEFINE e1 == [est EXCEPT !.pc = "ack"]
               e2 == [e1 EXCEPT !.conn = k]
    <3>1. e1 \in Estimate /\ e1.pc = "ack" /\ e1.avail = est.avail
      BY <1>0 DEF Estimate
    <3>2. est' = [e2 EXCEPT !.excludes = est.excludes \cup {k}]
      BY <1>0, <1>8 DEF Estimate
    <3> HIDE DEF e1
    <3>3. e2 \in Estimate /\ e2.pc = "ack" /\ e2.avail = est.avail /\ e2.conn = k
      BY <3>1 DEF Estimate
    <3> HIDE DEF e2
    <3> QED  BY <3>2, <3>3 DEF Estimate
  <2>2. acks[k] = <<>> /\ acks' = acks
    BY <1>1, <1>3
  <2>3. (\A c : Pending(est', acks', c) = 0) /\ Free(est', acks') = est.avail
    BY <1>0, <2>1, <2>2 DEF Pending, Free, Taken, Estimate
  <2>4. k[1] \in Client /\ k = <<k[1], k[2]>> /\ Offer(k[2], est.avail) \in Result
        /\ results[k[1]] \in Seq(Result)
    BY <1>0, ConnIsPair DEF Offer, Result, Estimate
  <2>5. PICK n : Longer(Append(results[k[1]], Offer(k[2], est.avail)), results[k[1]],
                        Offer(k[2], est.avail), n)
    BY <2>4, AppendElements
  <2>6. ASSUME NEW c \in Client, NEW i \in DOMAIN results'[c], Live(ctl', open', c, results'[c][i])
        PROVE  c = k[1] /\ i = n /\ results'[c][i] = Offer(k[2], est.avail)
    <3>1. CASE c = k[1] /\ i = n
      BY <1>0, <1>8, <2>5, <3>1 DEF Longer
    <3>2. CASE ~(c = k[1] /\ i = n)
      <4>1. i \in DOMAIN results[c] /\ results'[c][i] = results[c][i]
        BY <1>0, <1>8, <2>5, <3>2 DEF Longer
      <4>2. Live(ctl, open, c, results[c][i])
        BY <1>1, <2>6, <4>1 DEF Live
      <4> QED  BY <1>3, <4>1, <4>2
    <3> QED  BY <3>1, <3>2
  <2>7. Offer(k[2], est.avail).conn = k[2] /\ Offer(k[2], est.avail).num = est.avail
    BY DEF Offer
  <2>8. OfferedOnce(ctl', open', est', results', acks')
    <3>1. ASSUME NEW c \in Client, NEW i \in DOMAIN results'[c],
                 Live(ctl', open', c, results'[c][i])
          PROVE  /\ est'.pc = "ack" /\ est'.conn = <<c, results'[c][i].conn>>
                 /\ results'[c][i].num = est'.avail /\ acks'[est'.conn] = <<>>
                 /\ \A j \in DOMAIN results'[c] : Live(ctl', open', c, results'[c][j]) => j = i
      <4>1. c = k[1] /\ i = n /\ results'[c][i] = Offer(k[2], est.avail)
        BY <2>6, <3>1
      <4>2. \A j \in DOMAIN results'[c] : Live(ctl', open', c, results'[c][j]) => j = n
        BY <2>6
      <4> QED  BY <2>1, <2>2, <2>4, <2>7, <4>1, <4>2
    <3>2. \A j \in Conn : acks'[j] = <<>>
      BY <1>1, <1>3
    <3> QED  BY <3>1, <3>2, Zenon DEF OfferedOnce
  <2> QED  BY <1>5, <2>3, <2>8 DEF Promises
<1> QED  BY <1>6, <1>7, <1>8, SelectEffect

\* The answer is what the client takes; an answer that is lost took nothing.
LEMMA AckKeepsPromises ==
    ASSUME OfferTypeOK, ConnInv, Promises, ReceiveAck, ~astray'
    PROVE  Promises'
<1> DEFINE k == est.conn
<1>0. /\ est \in Estimate /\ acks \in [Conn -> Seq(Nat)] /\ est.avail \in Nat /\ est.num \in Nat
      /\ results \in [Client -> Seq(Result)]
  BY DEF OfferTypeOK, Estimate
<1>1. /\ est.pc = "ack" /\ k \in Conn /\ acks[k] \in Seq(Nat)
      /\ UNCHANGED <<ctl, granted, note, results, slots, Work, extra, got>>
  BY <1>0 DEF ReceiveAck, controllers, tasks, Work, OfferTypeOK, Asked
<1>2. /\ OfferedOnce(ctl, open, est, results, acks)
      /\ Covered(granted, note, extra, slots, est, acks)
      /\ Fits(Work, got, granted, extra, est, acks)
  BY DEF Promises
<1>3. /\ est' = NextClient(0) => est'.pc = "select" /\ est'.avail = est.avail
  <2>1. 0 \in Nat /\ 0 <= est.avail /\ est.avail - 0 = est.avail
    BY <1>0
  <2> QED  BY <1>0, <2>1, NextClientIs
<1>4. ASSUME NEW d \in Client, NEW i \in DOMAIN results[d], Live(ctl, open, d, results[d][i])
      PROVE  acks[k] = <<>> /\ k = <<d, results[d][i].conn>>
  BY <1>2, <1>4, Zenon DEF OfferedOnce
<1>5. \A j \in Conn \ {k} : acks[j] = <<>>
  BY <1>2 DEF OfferedOnce
<1>6. acks[k] # <<>> => Len(acks[k]) = 1 /\ acks[k][1] \in Nat /\ acks[k][1] <= est.avail
                        /\ Head(acks[k]) = acks[k][1] /\ Tail(acks[k]) = <<>> /\ 1 \in DOMAIN acks[k]
  <2> SUFFICES ASSUME acks[k] # <<>>
               PROVE  Len(acks[k]) = 1 /\ acks[k][1] \in Nat /\ acks[k][1] <= est.avail
                      /\ Head(acks[k]) = acks[k][1] /\ Tail(acks[k]) = <<>>
                      /\ 1 \in DOMAIN acks[k]
    OBVIOUS
  <2>1. Len(acks[k]) = 1 /\ acks[k][1] <= est.avail
    BY <1>1, <1>2 DEF OfferedOnce
  <2> DEFINE s == acks[k]
  <2>2. s # <<>> /\ s \in Seq(Nat) /\ Len(s) = 1
    BY <1>1, <2>1
  <2> HIDE DEF s
  <2>3. Head(s) = s[1] /\ Tail(s) \in Seq(Nat) /\ 1 \in DOMAIN s
    BY <2>2, TailElements
  <2>4. Len(Tail(s)) = 0
    BY <2>2, HeadTailProperties
  <2>5. Tail(s) = <<>>
    BY <2>3, <2>4, EmptySeq
  <2>6. s[1] \in Nat
    BY <2>2, ElementOfSeq
  <2> QED  BY <2>1, <2>3, <2>5, <2>6 DEF s
\* Taken stays, and so does all that depends on it.
<1>7. ASSUME \A c \in Client : Pending(est', acks', c) = Pending(est, acks, c),
             Free(est', acks') = Free(est, acks)
      PROVE  /\ Covered(granted', note', extra', slots', est', acks')
             /\ Fits(Work', got', granted', extra', est', acks')
  BY <1>1, <1>2, <1>7 DEF Covered, Fits
<1>8. CASE /\ acks[k] # <<>> /\ acks' = [acks EXCEPT ![k] = Tail(@)]
           /\ est' = IF Head(acks[k]) > 0 THEN [est EXCEPT !.pc = "book", !.num = Head(acks[k])]
                     ELSE NextClient(0)
           /\ UNCHANGED open
  <2>1. \A j \in Conn : acks'[j] = <<>>
    BY <1>0, <1>1, <1>5, <1>6, <1>8
  <2>2. OfferedOnce(ctl', open', est', results', acks')
    BY <1>1, <1>4, <1>8, <2>1, Zenon DEF OfferedOnce
  <2>3. Taken(est, acks) = acks[k][1]
    BY <1>1, <1>8 DEF Taken
  <2>4. CASE Head(acks[k]) > 0
    <3>1. est'.pc = "book" /\ est'.num = acks[k][1] /\ est'.conn = k /\ est'.avail = est.avail
      BY <1>0, <1>6, <1>8, <2>4 DEF Estimate
    <3>2. Taken(est', acks') = acks[k][1]
      BY <3>1 DEF Taken
    <3>3. \A c \in Client : Pending(est', acks', c) = Pending(est, acks, c)
      BY <1>1, <2>3, <3>1, <3>2 DEF Pending
    <3>4. Free(est', acks') = Free(est, acks)
      BY <1>1, <2>3, <3>1, <3>2 DEF Free
    <3> QED  BY <1>7, <2>2, <3>3, <3>4 DEF Promises
  <2>5. CASE ~(Head(acks[k]) > 0)
    <3>1. est'.pc = "select" /\ est'.avail = est.avail
      BY <1>3, <1>8, <2>5
    <3>2. Taken(est, acks) = 0 /\ Taken(est', acks') = 0
      BY <1>6, <1>8, <2>3, <2>5, <3>1 DEF Taken
    <3>3. \A c \in Client : Pending(est', acks', c) = Pending(est, acks, c)
      BY <3>2 DEF Pending
    <3>4. Free(est', acks') = Free(est, acks)
      BY <1>1, <3>1, <3>2 DEF Free
    <3> QED  BY <1>7, <2>2, <3>3, <3>4 DEF Promises
  <2> QED  BY <2>4, <2>5
\* The answer is lost, of an offer that no one takes any more.
<1>9. ASSUME acks' = [acks EXCEPT ![k] = <<>>], est' = NextClient(0), ~Lost(k),
             open' \subseteq open,
             \A d \in Client : \A i \in DOMAIN results[d] : ~Live(ctl, open', d, results[d][i])
      PROVE  Promises'
  <2>1. \A j \in Conn : acks'[j] = <<>>
    BY <1>0, <1>1, <1>5, <1>9
  <2>2. OfferedOnce(ctl', open', est', results', acks')
    <3>1. UNCHANGED <<ctl, results>>
      BY <1>1
    <3> QED  BY <1>9, <2>1, <3>1, Zenon DEF OfferedOnce
  <2>3. \A i \in DOMAIN acks[k] : ~(acks[k][i] > 0)
    BY <1>9 DEF Lost
  <2>4. est'.pc = "select" /\ est'.avail = est.avail
    BY <1>3, <1>9
  <2>5. Taken(est, acks) = 0 /\ Taken(est', acks') = 0
    BY <1>1, <1>6, <2>3, <2>4 DEF Taken
  <2>6. \A c \in Client : Pending(est', acks', c) = Pending(est, acks, c)
    BY <2>5 DEF Pending
  <2>7. Free(est', acks') = Free(est, acks)
    BY <1>1, <2>4, <2>5 DEF Free
  <2> QED  BY <1>7, <2>2, <2>6, <2>7 DEF Promises
<1>10. CASE /\ k \notin open /\ acks' = [acks EXCEPT ![k] = <<>>] /\ est' = NextClient(0)
            /\ astray' = (astray \/ Lost(k)) /\ UNCHANGED open
  <2>1. ~Lost(k)
    BY <1>10, Zenon
  <2>2. ASSUME NEW d \in Client, NEW i \in DOMAIN results[d], Live(ctl, open, d, results[d][i])
        PROVE  FALSE
    <3>1. k = <<d, results[d][i].conn>>
      BY <1>4, <2>2
    <3>2. Backed(ctl, open, k)
      BY <1>1 DEF ConnInv, ConnFacts
    <3>3. ctl[d].conn # results[d][i].conn
      BY <1>10, <3>1, <3>2 DEF Backed
    <3> QED  BY <1>10, <2>2, <3>1, <3>3 DEF Live
  <2>3. open' = open
    BY <1>10
  <2>4. \A d \in Client : \A i \in DOMAIN results[d] : ~Live(ctl, open', d, results[d][i])
    BY <2>2, <2>3
  <2> QED  BY <1>9, <1>10, <2>1, <2>3, <2>4
<1>11. CASE /\ open' = open \ {k} /\ acks' = [acks EXCEPT ![k] = <<>>] /\ est' = NextClient(0)
            /\ astray' = (astray \/ Lost(k) \/ Offered(k))
  <2>1. ~Lost(k) /\ ~Offered(k)
    BY <1>11, Zenon
  <2>2. ASSUME NEW d \in Client, NEW i \in DOMAIN results[d], Live(ctl, open', d, results[d][i])
        PROVE  FALSE
    <3>1. Live(ctl, open, d, results[d][i]) /\ results[d][i].kind = "offer"
      BY <1>11, <2>2 DEF Live
    <3>2. k = <<d, results[d][i].conn>>
      BY <1>4, <3>1
    <3>3. k[1] = d /\ results[d][i].conn = k[2]
      BY <3>2
    <3> QED  BY <2>1, <3>1, <3>3 DEF Offered
  <2>3. open' \subseteq open
    BY <1>11
  <2>4. \A d \in Client : \A i \in DOMAIN results[d] : ~Live(ctl, open', d, results[d][i])
    BY <2>2
  <2> QED  BY <1>9, <1>11, <2>1, <2>3, <2>4
<1> QED  BY <1>8, <1>10, <1>11, Zenon DEF ReceiveAck, Lost, Offered

\* What the client takes is booked, and then has its slots.
LEMMA BookKeepsPromises ==
    ASSUME OfferTypeOK, Promises, Book
    PROVE  Promises'
<1>0. /\ est \in Estimate /\ est.avail \in Nat /\ est.num \in Nat /\ slots \in Seq(Slot)
      /\ granted \in [Client -> Nat] /\ note \in [Client -> Nat]
      /\ Work \in Nat /\ Total(extra) \in Nat /\ got \in Nat /\ Available \in Nat
  BY WorkIsNat, OfferAssumption DEF OfferTypeOK, Estimate
<1>1. UNCHANGED <<ctl, granted, note, open, results, acks, Work, extra, got>>
  BY DEF Book, controllers, net, tasks, Work
<1>2. /\ OfferedOnce(ctl, open, est, results, acks)
      /\ Covered(granted, note, extra, slots, est, acks)
      /\ Fits(Work, got, granted, extra, est, acks)
  BY DEF Promises
<1>3. ASSUME est.pc # "ack" PROVE OfferedOnce(ctl', open', est', results', acks')
  <2>1. /\ \A c \in Client : \A i \in DOMAIN results[c] : ~Live(ctl, open, c, results[c][i])
        /\ \A k \in Conn : acks[k] = <<>>
    BY <1>2, <1>3 DEF OfferedOnce
  <2> QED  BY <1>1, <2>1 DEF OfferedOnce
<1>4. ASSUME est.pc \in {"book", "write"}, est'.pc \in {"write", "record"}, est'.num = est.num,
             est'.avail = est.avail, est'.conn = est.conn, UNCHANGED slots
      PROVE  Promises'
  <2>1. Taken(est, acks) = est.num /\ Taken(est', acks') = est.num
    BY <1>4 DEF Taken
  <2>2. \A c \in Client : Pending(est', acks', c) = Pending(est, acks, c)
    BY <1>4, <2>1 DEF Pending
  <2>3. Free(est', acks') = Free(est, acks)
    BY <1>4, <2>1 DEF Free
  <2>4. Covered(granted', note', extra', slots', est', acks')
        /\ Fits(Work', got', granted', extra', est', acks')
    BY <1>1, <1>2, <1>4, <2>2, <2>3 DEF Covered, Fits
  <2> QED  BY <1>3, <1>4, <2>4 DEF Promises
<1>5. CASE est.pc = "book" /\ est' = [est EXCEPT !.pc = "write", !.read = booked] /\ UNCHANGED slots
  BY <1>0, <1>4, <1>5 DEF Estimate
<1>6. CASE est.pc = "write" /\ est' = [est EXCEPT !.pc = "record", !.read = 0] /\ UNCHANGED slots
  BY <1>0, <1>4, <1>6 DEF Estimate
<1>7. CASE /\ est.pc = "record"
           /\ slots' = Append(slots, [conn |-> est.conn, num |-> est.num])
           /\ est' = IF est.avail > est.num THEN NextClient(est.num) ELSE Resting
  <2> DEFINE r == [conn |-> est.conn, num |-> est.num]
  <2>1. r \in Slot /\ r.conn = est.conn /\ r.num = est.num
    BY <1>7 DEF OfferTypeOK, Asked, Estimate, Slot
  <2>2. \A c : SlotsOf(slots', c) = SlotsOf(slots, c) + (IF est.conn[1] = c THEN est.num ELSE 0)
    <3> HIDE DEF r
    <3>1. \A c : SlotsOf(Append(slots, r), c) =
                   SlotsOf(slots, c) + (IF r.conn[1] = c THEN r.num ELSE 0)
      BY <1>0, <2>1, AppendedSlots
    <3> QED  BY <1>7, <2>1, <3>1 DEF r
  <2>3. Taken(est, acks) = est.num
    BY <1>7 DEF Taken
  <2>4. \/ est'.pc = "idle"
        \/ est'.pc = "select" /\ est'.avail = est.avail - est.num
    <3>1. CASE est.avail > est.num
      <4>1. est.num <= est.avail /\ est' = NextClient(est.num)
        BY <1>0, <1>7, <3>1
      <4> QED  BY <1>0, <4>1, NextClientIs
    <3>2. CASE ~(est.avail > est.num)
      BY <1>7, <3>2 DEF Resting
    <3> QED  BY <3>1, <3>2
  <2>5. Taken(est', acks') = 0 /\ \A c : Pending(est', acks', c) = 0
    BY <2>4 DEF Taken, Pending
  <2>6. Covered(granted', note', extra', slots', est', acks')
    <3>1. ASSUME NEW c \in Client PROVE granted[c] + note[c] <= SlotsOf(slots', c) + 0 + extra[c]
      <4>1. granted[c] + note[c] <= SlotsOf(slots, c) + Pending(est, acks, c) + extra[c]
        BY <1>2 DEF Covered
      <4>2. Pending(est, acks, c) = IF est.conn[1] = c THEN est.num ELSE 0
        BY <1>7, <2>3 DEF Pending
      <4>3. SlotsOf(slots', c) = SlotsOf(slots, c) + Pending(est, acks, c)
        BY <2>2, <4>2
      <4>4. SlotsOf(slots, c) \in Nat /\ Pending(est, acks, c) \in Nat /\ extra[c] \in Nat
        BY <1>0, <4>2, WorkIsNat, SlotsAreNat
      <4> QED  BY <4>1, <4>3, <4>4
    <3> QED  BY <1>1, <2>5, <3>1 DEF Covered
  <2>7. Fits(Work', got', granted', extra', est', acks')
    <3>1. Total(granted) \in Nat
      <4>1. IsFiniteSet(Client) /\ \A x \in Client : granted[x] \in Nat
        BY <1>0, OfferAssumption
      <4> QED  BY <4>1, SumNat DEF Total
    <3>2. Free(est, acks) = est.avail - est.num
      BY <1>7, <2>3 DEF Free
    <3>3. Free(est', acks') \in {0, est.avail - est.num}
      BY <1>0, <2>4, <2>5 DEF Free
    <3> QED  BY <1>0, <1>1, <1>2, <3>1, <3>2, <3>3 DEF Fits
  <2> QED  BY <1>3, <1>7, <2>6, <2>7 DEF Promises
<1> QED  BY <1>5, <1>6, <1>7 DEF Book

\* Nothing is promised, offered or answered when no slot is booked.
LEMMA NothingPromised ==
    ASSUME OfferTypeOK, est.pc = "idle", slots = <<>>, \A k \in Conn : acks[k] = <<>>,
           \A c \in Client : granted[c] = 0 /\ note[c] = 0, Work = 0, got = 0,
           \A c \in Client : \A i \in DOMAIN results[c] : results[c][i].kind # "offer"
    PROVE  Promises
<1>1. OfferedOnce(ctl, open, est, results, acks)
  BY DEF OfferedOnce, Live
<1>2. (\A c : Pending(est, acks, c) = 0) /\ Free(est, acks) = 0
  BY DEF Pending, Free
<1>3. Covered(granted, note, extra, slots, est, acks)
  <2>1. slots \in Seq(Slot)
    BY DEF OfferTypeOK
  <2>2. \A c : SlotsOf(slots, c) \in Nat
    BY <2>1, SlotsAreNat
  <2>3. \A c \in Client : extra[c] \in Nat
    BY WorkIsNat
  <2> QED  BY <1>2, <2>2, <2>3 DEF Covered
<1>4. Fits(Work, got, granted, extra, est, acks)
  <2>1. IsFiniteSet(Client) /\ \A c \in Client : granted[c] = 0 /\ granted[c] \in Int
    BY OfferAssumption
  <2>2. {} \in SUBSET Client /\ \A c \in Client \ {} : granted[c] = 0
    BY <2>1
  <2>3. SumFunctionOnSet(granted, Client) = SumFunctionOnSet(granted, {})
    BY <2>1, <2>2, SumZeros
  <2>4. Total(granted) = 0
    BY <2>3, SumEmpty DEF Total
  <2> QED  BY <1>2, <2>4, WorkIsNat, OfferAssumption DEF Fits
<1> QED  BY <1>1, <1>3, <1>4 DEF Promises

\* The worker is started again when nobody waits for what it promised.
LEMMA RestartKeepsPromises ==
    ASSUME OfferTypeOK, OfferTypeOK', Restart, ~astray'
    PROVE  Promises'
<1>1. astray' = (astray \/ Total(granted) > 0 \/ (\E k \in Conn : acks[k] # <<>>)
                   \/ \E c \in Client : \E i \in DOMAIN results[c] : results[c][i].kind = "offer")
  BY DEF Restart
<1>2. /\ ~(Total(granted) > 0)
      /\ \A c \in Client : \A i \in DOMAIN results[c] : results[c][i].kind # "offer"
  BY <1>1, Zenon
<1>3. granted \in [Client -> Nat]
  BY DEF OfferTypeOK
<1>4. \A c \in Client : granted[c] = 0
  BY <1>2, <1>3, NoneWithoutTotal
<1>5. /\ est'.pc = "idle" /\ slots' = <<>> /\ \A k \in Conn : acks'[k] = <<>>
      /\ \A c \in Client : note'[c] = 0
      /\ Work' = 0 /\ got' = 0 /\ granted' = granted /\ results' = results
  BY DEF Restart, Resting, controllers, Work
<1>6. (OfferTypeOK /\ est.pc = "idle" /\ slots = <<>> /\ (\A k \in Conn : acks[k] = <<>>)
        /\ (\A c \in Client : granted[c] = 0 /\ note[c] = 0) /\ Work = 0 /\ got = 0
        /\ (\A c \in Client : \A i \in DOMAIN results[c] : results[c][i].kind # "offer")
        => Promises)'
  BY NothingPromised, PTL
<1> QED  BY <1>2, <1>4, <1>5, <1>6

LEMMA PromiseStep ==
    ASSUME OfferTypeOK, OfferTypeOK', ReadInv, BookedInv, ConnInv, PromiseInv, [OfferNext]_offerVars
    PROVE  PromiseInv'
<1> SUFFICES ASSUME ~raced', ~astray' PROVE Promises'
  BY DEF PromiseInv
<1>1. ~raced /\ ~astray
  BY HistoryStays
<1>2. Promises
  BY <1>1 DEF PromiseInv
<1>3. CASE \/ \E c \in Client : GetSlot(c) \/ QuerySlot(c) \/ JobCheck(c) \/ DisableWorker(c)
                                \/ EnableWorker(c) \/ OnSlotEmpty(c)
           \/ \E k \in Conn : ConnError(k) \/ DealQuerySlot(k) \/ AppendClient(k) \/ CloseRefused(k)
  BY <1>2, <1>3, QueriesKeepPromises
<1>4. ASSUME NEW c \in Client, OnSlotResult(c)
      PROVE  Promises'
  BY <1>2, <1>4, ResultKeepsPromises
<1>5. CASE \/ \E c \in Client : GiveUp(c) \/ ReceiveTask(c) \/ OnTaskReceived(c)
           \/ ObtainChance \/ FreeChance \/ CheckCmds
  BY <1>2, <1>5, TasksKeepPromises
<1>6. CASE CheckClient
  <2>1. UNCHANGED <<controllers, net, est, tasks>>
    BY <1>6 DEF CheckClient
  <2>2. (\E gone \in SUBSET DOMAIN slots : Unbook(gone)) \/ UNCHANGED slots
    BY <1>6, CheckClientEffect
  <2>3. CASE UNCHANGED slots
    <3>1. UNCHANGED <<ctl, open, est, results, acks, granted, note, slots, Work, extra, got>>
      BY <2>1, <2>3 DEF controllers, net, tasks, Work
    <3> QED  BY <1>2, <3>1, Zenon DEF Promises
  <2> QED  BY <1>2, <2>1, <2>2, <2>3, UnbookKeepsPromises
<1>7. CASE CheckSlot
  <2>1. UNCHANGED <<controllers, net, est, tasks>>
    BY <1>7 DEF CheckSlot
  <2>2. PICK i \in DOMAIN slots : Unbook({i})
    BY <1>7 DEF CheckSlot
  <2>3. {i} \in SUBSET DOMAIN slots
    OBVIOUS
  <2> QED  BY <1>2, <2>1, <2>2, <2>3, UnbookKeepsPromises
<1>8. CASE EstimateSlot
  BY <1>1, <1>2, <1>8, EstimateKeepsPromises
<1>9. CASE SelectClient
  BY <1>2, <1>9, SelectKeepsPromises
<1>10. CASE ReceiveAck
  BY <1>2, <1>10, AckKeepsPromises
<1>11. CASE Book
  BY <1>2, <1>11, BookKeepsPromises
<1>12. CASE Restart
  BY <1>12, RestartKeepsPromises
<1>13. CASE UNCHANGED offerVars
  <2>1. UNCHANGED <<ctl, open, est, results, acks, granted, note, slots, Work, extra, got>>
    BY <1>13 DEF offerVars, controllers, net, worker, tasks, Work
  <2> QED  BY <1>2, <2>1, Zenon DEF Promises
<1> QED  BY <1>3, <1>4, <1>5, <1>6, <1>7, <1>8, <1>9, <1>10, <1>11, <1>12, <1>13 DEF OfferNext

-----------------------------------------------------------------------------
(* The theorems.                                                           *)

OfferInv == OfferTypeOK /\ ReadInv /\ BookedInv /\ ConnInv /\ PromiseInv

LEMMA OfferInitInv == OfferInit => OfferInv
<1> SUFFICES ASSUME OfferInit PROVE OfferInv
  OBVIOUS
<1>1. OfferTypeOK
  BY OfferInitTypes
<1>2. BookedInv
  <2>1. DOMAIN slots = {} /\ booked = 0 /\ est.pc = "idle"
    BY DEF OfferInit, Resting
  <2>2. All(slots) = 0
    BY <2>1, SumEmpty DEF All
  <2> QED  BY <2>1, <2>2 DEF BookedInv
<1>3. ReadInv
  BY DEF OfferInit, Unread, ReadInv
<1>4. ConnInv
  <2>1. /\ \A k \in Conn : deal[k] = "none"
        /\ open = {} /\ DOMAIN clients = {} /\ est.pc = "idle"
        /\ \A c \in Client : DOMAIN results[c] = {}
    BY DEF OfferInit, Resting
  <2> QED  BY <2>1 DEF ConnInv, ConnFacts
<1>5. Promises
  <2>1. /\ est.pc = "idle" /\ slots = <<>> /\ \A k \in Conn : acks[k] = <<>>
        /\ \A c \in Client : granted[c] = 0 /\ note[c] = 0
        /\ Work = 0 /\ got = 0 /\ \A c \in Client : DOMAIN results[c] = {}
    BY DEF OfferInit, Resting, Work
  <2> QED  BY <1>1, <2>1, NothingPromised
<1> QED  BY <1>1, <1>2, <1>3, <1>4, <1>5 DEF OfferInv, PromiseInv

LEMMA OfferInvHolds == OfferSpec => []OfferInv
<1>1. OfferInv /\ [OfferNext]_offerVars => OfferInv'
  <2> SUFFICES ASSUME OfferInv, [OfferNext]_offerVars PROVE OfferInv'
    OBVIOUS
  <2>1. OfferTypeOK'
    BY OfferTypes DEF OfferInv
  <2>2. ReadInv' /\ BookedInv' /\ ConnInv'
    BY ReadStep, BookedStep, ConnStep DEF OfferInv
  <2>3. PromiseInv'
    BY <2>1, PromiseStep DEF OfferInv
  <2> QED  BY <2>1, <2>2, <2>3 DEF OfferInv
<1> QED  BY <1>1, OfferInitInv, PTL DEF OfferSpec

\* Types: in particular an estimate is of a known connection and takes at
\* least one slot when it is booked, and no count is ever negative.
THEOREM OfferTypesCorrect == OfferSpec => []OfferTypeOK
<1>1. OfferInv => OfferTypeOK
  BY DEF OfferInv
<1> QED  BY <1>1, OfferInvHolds, PTL

\* bookedSlotNum is the sum of the slots in slotCache, whatever tasks, timeouts
\* and closed connections take from both, and what estimateSlot adds to both.
THEOREM BookedStaysExact == OfferSpec => []BookedIsExact
<1>1. OfferInv => BookedIsExact
  <2> SUFFICES ASSUME OfferInv, ~raced, est.pc # "record"
               PROVE  booked = SumFunctionOnSet([i \in DOMAIN slots |-> slots[i].num], DOMAIN slots)
    BY DEF BookedIsExact
  <2>1. booked = All(slots) + 0 /\ slots \in Seq(Slot)
    BY DEF OfferInv, BookedInv, OfferTypeOK
  <2>2. All(slots) \in Nat
    BY <2>1, SlotsAreNat
  <2>3. booked = All(slots)
    BY <2>1, <2>2
  <2> QED  BY <2>3, Zenon DEF All, Num
<1> QED  BY <1>1, OfferInvHolds, PTL

\* What the worker runs, what waits and what its clients may still send to their
\* slots fits in the slots it has, and each task that comes without a slot takes
\* one of them and no more; unless an answer, a task or a restart crossed it.
THEOREM PromisesStayKept == OfferSpec => []PromisesAreKept
<1>1. OfferInv => PromisesAreKept
  <2> SUFFICES ASSUME OfferInv, ~raced, ~astray
               PROVE  running + waiting + got + Total(granted) <= Available + Total(extra)
    BY DEF PromisesAreKept
  <2>1. Fits(Work, got, granted, extra, est, acks) /\ OfferTypeOK
    BY DEF OfferInv, PromiseInv, Promises
  <2>2. Free(est, acks) \in Int
    BY <2>1, TakenIsNat
  <2> QED  BY <2>1, <2>2, WorkIsNat, OfferAssumption DEF Fits, Work, OfferTypeOK
<1> QED  BY <1>1, OfferInvHolds, PTL
==============================================================================
