----------------------------- MODULE LocalSlots -----------------------------
(***************************************************************************)
(* The slots that limit what a controller runs on its own machine          *)
(* (manager/local/slots.go), with the executors that use them              *)
(* (manager/local/executor.go).  One goroutine, handleLock, owns the       *)
(* counters and the waiting lists; an executor sends its requests through  *)
(* two channels and waits for the result or for the end of the work.       *)
(*                                                                         *)
(* A request has a weight, and is granted when one slot is free, whatever  *)
(* its weight.                                                             *)
(***************************************************************************)
EXTENDS Integers, Sequences, FiniteSets, SequencesExt, Functions

CONSTANTS
    Client,
    JobUsage,   \* What a request may be for
    Usage,      \* The usages with a limit of their own, and Default
    Default,    \* JobUsageDefault
    LocalExe,   \* JobUsageLocalExe
    UsageLimit, \* The limit of each usage
    TotalSlots,
    Weight,     \* The weights of requests
    Request,    \* The requests each client may make
    MaxRetry,   \* Bound: rounds of retry, which only windows has
    None

ASSUME SlotsAssumption ==
    /\ IsFiniteSet(Client) /\ IsFiniteSet(Usage) /\ IsFiniteSet(Weight)
    /\ TotalSlots \in Nat \ {0}
    /\ Default \in Usage /\ LocalExe \in JobUsage
    /\ UsageLimit \in [Usage -> Nat \ {0}] /\ UsageLimit[Default] = TotalSlots
    /\ Weight \subseteq Nat \ {0}
    /\ Request \in [Client -> SUBSET [usage: JobUsage, weight: Weight, wait: BOOLEAN]]
    /\ \A c \in Client : None \notin Request[c]
    /\ MaxRetry \in Nat

VARIABLES
    handling,       \* lr.handling; the context of the work is not done
    occupiedSlots,
    occupied,       \* usageMap: the slots of each usage
    waitingList,    \* Clients that wait, by usage
    usages,         \* The order in which the lists are polled
    cursor,
    lockChan,       \* Clients whose request is under way
    unlockChan,     \* Requests that are given back
    pc,             \* What each client does
    req,            \* Its request
    retries         \* Rounds of retry so far, of all clients

slots == <<occupiedSlots, occupied, waitingList, cursor>>
vars == <<handling, slots, usages, lockChan, unlockChan, pc, req, retries>>

Set(u) == IF u \in Usage THEN u ELSE Default  \* getusageSet, getList
N == Cardinality(Usage)

Init ==
    /\ handling = TRUE
    /\ occupiedSlots = 0
    /\ occupied = [u \in Usage |-> 0]
    /\ waitingList = [u \in Usage |-> <<>>]
    /\ usages \in Bijection(1..N, Usage)  \* The keys of a map
    /\ cursor = 0
    /\ lockChan = <<>> /\ unlockChan = <<>>
    /\ pc = [c \in Client |-> "idle"]
    /\ req = [c \in Client |-> None]
    /\ retries = 0

-----------------------------------------------------------------------------
(* The executors. *)

\* Lock and TryLock.
Lock(c, r) ==
    /\ handling
    /\ pc[c] = "idle"
    /\ req' = [req EXCEPT ![c] = r]
    /\ lockChan' = Append(lockChan, c)
    /\ pc' = [pc EXCEPT ![c] = "asking"]
    /\ UNCHANGED <<handling, slots, usages, unlockChan, retries>>

\* The result is false, or the context is done; a grant that came at the same
\* time as the end is taken for received.
Refused(c) ==
    /\ pc[c] = "refused" \/ (~handling /\ pc[c] \in {"asking", "waiting"})
    /\ pc' = [pc EXCEPT ![c] = "idle"]
    /\ req' = [req EXCEPT ![c] = None]
    /\ UNCHANGED <<handling, slots, usages, lockChan, unlockChan, retries>>

\* The work of the executor, and the unlock it deferred; executeLocalTask runs
\* it again when its exit code calls for a retry.
Unlock(c) ==
    /\ pc[c] = "running"
    /\ unlockChan' = IF handling THEN Append(unlockChan, req[c]) ELSE unlockChan
    /\ \/ /\ pc' = [pc EXCEPT ![c] = "idle"]
          /\ req' = [req EXCEPT ![c] = None]
          /\ UNCHANGED retries
       \/ /\ req[c].usage = LocalExe /\ req[c].wait
          /\ retries < MaxRetry
          /\ pc' = [pc EXCEPT ![c] = "sleeping"]
          /\ retries' = retries + 1
          /\ UNCHANGED req
    /\ UNCHANGED <<handling, slots, usages, lockChan>>

Retry(c) ==
    /\ pc[c] = "sleeping"
    /\ pc' = [pc EXCEPT ![c] = "running"]
    /\ UNCHANGED <<handling, slots, usages, lockChan, unlockChan, req, retries>>

-----------------------------------------------------------------------------
(* handleLock. *)

\* It takes whichever request is ready (select).
TakeLock == handling /\ lockChan # <<>> /\ lockChan' = Tail(lockChan)
TakeUnlock == handling /\ unlockChan # <<>> /\ unlockChan' = Tail(unlockChan)

Idle(occ, u) == occ[u] < UsageLimit[u]

GetSlotMutant ==  \* the limit of the usage is not looked at
    /\ TakeLock
    /\ LET c == Head(lockChan)
           u == Set(req[c].usage)
           w == req[c].weight
       IN  \/ /\ occupiedSlots < TotalSlots
              /\ occupiedSlots' = occupiedSlots + w
              /\ occupied' = [occupied EXCEPT ![u] = @ + w]
              /\ pc' = [pc EXCEPT ![c] = "running"]
              /\ UNCHANGED waitingList
           \/ /\ occupiedSlots >= TotalSlots
              /\ waitingList' = IF req[c].wait
                                THEN [waitingList EXCEPT ![u] = Append(@, c)] ELSE waitingList
              /\ pc' = [pc EXCEPT ![c] = IF req[c].wait THEN "waiting" ELSE "refused"]
              /\ UNCHANGED <<occupiedSlots, occupied>>
    /\ UNCHANGED <<handling, cursor, usages, unlockChan, req, retries>>

GetSlot ==
    /\ TakeLock
    /\ LET c == Head(lockChan)
           u == Set(req[c].usage)
           w == req[c].weight
           free == occupiedSlots < TotalSlots /\ Idle(occupied, u)
       IN  \/ /\ free
              /\ occupiedSlots' = occupiedSlots + w
              /\ occupied' = [occupied EXCEPT ![u] = @ + w]
              /\ pc' = [pc EXCEPT ![c] = "running"]
              /\ UNCHANGED waitingList
           \/ /\ ~free
              /\ waitingList' = IF req[c].wait
                                THEN [waitingList EXCEPT ![u] = Append(@, c)] ELSE waitingList
              /\ pc' = [pc EXCEPT ![c] = IF req[c].wait THEN "waiting" ELSE "refused"]
              /\ UNCHANGED <<occupiedSlots, occupied>>
    /\ UNCHANGED <<handling, cursor, usages, unlockChan, req, retries>>

\* getListByPoll: how far from the cursor the next list is, of those whose
\* usage has a slot and whose list a client; N if there is none.
Polled(s, k) == usages[((s.cursor + k) % N) + 1]
Found(s) ==
    {k \in 0..(N - 1) : Idle(s.occupied, Polled(s, k)) /\ s.list[Polled(s, k)] # <<>>}

AwakeOneMutant(s) ==  \* the lists are always polled from the first
    IF s.total >= TotalSlots \/ Found(s) = {} THEN s
    ELSE LET k == Min(Found(s))
             u == Polled(s, k)
             c == Head(s.list[u])
         IN  [s EXCEPT !.total = @ + req[c].weight, !.occupied[u] = @ + req[c].weight,
                       !.list[u] = Tail(@), !.awake = @ \cup {c}]

AwakeOne(s) ==
    IF s.total >= TotalSlots \/ Found(s) = {} THEN s
    ELSE LET k == Min(Found(s))
             u == Polled(s, k)
             c == Head(s.list[u])
         IN  [s EXCEPT !.total = @ + req[c].weight, !.occupied[u] = @ + req[c].weight,
                       !.list[u] = Tail(@), !.awake = @ \cup {c},
                       !.cursor = (@ + k + 1) % N]

AwakeMutant(s) == AwakeOne(s)  \* one client for each unlock

\* As many clients as there are slots for.
Awake(s) ==
    LET f[n \in 0..Cardinality(Client)] == IF n = 0 THEN s ELSE AwakeOne(f[n - 1])
    IN  f[Cardinality(Client)]

LessMutant(a, b) ==  \* every unlock counts as one
    IF a < 1 THEN 0 ELSE a - 1

Less(a, b) == IF a < b THEN 0 ELSE a - b

PutSlot ==
    /\ TakeUnlock
    /\ LET r == Head(unlockChan)
           s == Awake([total |-> Less(occupiedSlots, r.weight),
                       occupied |-> [occupied EXCEPT ![Set(r.usage)] = Less(@, r.weight)],
                       list |-> waitingList, cursor |-> cursor, awake |-> {}])
       IN  /\ occupiedSlots' = s.total /\ occupied' = s.occupied
           /\ waitingList' = s.list /\ cursor' = s.cursor
           /\ pc' = [c \in Client |-> IF c \in s.awake THEN "running" ELSE pc[c]]
    /\ UNCHANGED <<handling, usages, lockChan, req, retries>>

\* The work ends: its context is done, handleLock returns.
Done ==
    /\ handling
    /\ handling' = FALSE
    /\ UNCHANGED <<slots, usages, lockChan, unlockChan, pc, req, retries>>

Next ==
    \/ \E c \in Client :
         \/ \E r \in Request[c] : Lock(c, r)
         \/ Refused(c) \/ Unlock(c) \/ Retry(c)
    \/ GetSlot \/ PutSlot \/ Done

Spec == Init /\ [][Next]_vars

\* The handler serves both channels (each with the step that takes from it:
\* GetSlot, PutSlot), and what an executor runs comes to an end.
Fairness ==
    /\ WF_lockChan(TakeLock) /\ WF_unlockChan(TakeUnlock)
    /\ \A c \in Client : WF_vars(Refused(c) \/ Unlock(c) \/ Retry(c))

FairSpec == Spec /\ Fairness

-----------------------------------------------------------------------------
(* Properties. *)

WeightOf(C) == SumFunctionOnSet([c \in C |-> req[c].weight], C)
Returned(I) == SumFunctionOnSet([i \in DOMAIN unlockChan |-> unlockChan[i].weight], I)
BackOf(u) == {i \in DOMAIN unlockChan : Set(unlockChan[i].usage) = u}
Of(u) == {c \in Client : req[c] # None /\ Set(req[c].usage) = u}
Running == {c \in Client : pc[c] = "running"}
MaxWeight(U) ==
    Max({0} \cup {r.weight : r \in {q \in UNION Range(Request) : Set(q.usage) \in U}})

\* The counters are what the clients hold and what is on its way back: none is
\* leaked, none is given back twice (the clamps at zero are never used), until
\* executeLocalTask retries, where each round gives back what the first took.
SlotsAreExact ==
    (handling /\ retries = 0) =>
      /\ occupiedSlots = WeightOf(Running) + Returned(DOMAIN unlockChan)
      /\ \A u \in Usage :
           occupied[u] = WeightOf(Running \cap Of(u)) + Returned(BackOf(u))

\* No wake-up is lost: while there is a free slot, nobody waits whose usage has
\* one (putSlot, "one unlock may free several locks").
NoIdleWaiter ==
    (handling /\ occupiedSlots < TotalSlots) =>
      \A u \in Usage : Idle(occupied, u) => waitingList[u] = <<>>

\* What runs at once is within the limits of the work, up to the weight of the
\* last grant (a request is granted when one slot is free, whatever its weight).
Limited ==
    handling =>
      /\ WeightOf(Running) < TotalSlots + MaxWeight(Usage)
      /\ \A u \in Usage : WeightOf(Running \cap Of(u)) < UsageLimit[u] + MaxWeight({u})

\* Until executeLocalTask retries, the limits hold; a task that it runs again
\* has no slot any more.
RunningIsLimited == (retries = 0) => Limited

\* Every Lock returns: the lists are polled in turn, so no usage starves
\* another one, and the end of the work ends the waiting.
EveryLockReturns ==
    \A c \in Client :
      pc[c] \in {"asking", "waiting"} ~> pc[c] \notin {"asking", "waiting"}
=============================================================================
