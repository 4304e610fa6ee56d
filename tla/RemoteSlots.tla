----------------------------- MODULE RemoteSlots -----------------------------
(***************************************************************************)
(* The slots of the remote workers of a work, as its controller counts     *)
(* them (manager/remote/slots.go), with what takes, gives back and changes *)
(* them: the jobs that run remotely and try again elsewhere                *)
(* (local/mgr.go, remote/mgr.go), the goroutines that recover workers, the *)
(* check of idle resources, and the resets that a change of the resources  *)
(* brings.  One goroutine, handleLock, grants slots; the others change the *)
(* workers and the total under workerLock, beside it.                      *)
(*                                                                         *)
(* Only JobUsageRemoteExe is used: the limit of its usageWorkerSet is the  *)
(* total and what it occupies is occupiedSlots, so the set is left out.    *)
(* All jobs need the same input file, so that "failed" is a set of hosts.  *)
(***************************************************************************)
EXTENDS Integers, Sequences, SequencesExt

CONSTANTS
    Job,
    LargeJob,       \* Those whose largest input file exceeds largeFileSize
    HostList,       \* The hosts a work may be given, in the order of the list
    Jobs,           \* The slots of each host
    MaxTry,         \* How often each job is tried remotely (getTryTimes)
    NetErrorLimit,
    MaxEvent,       \* Bound: failed attempts, releases, foreign pods
    None

Host == Range(HostList)

ASSUME RemoteAssumption ==
    /\ IsFiniteSet(Job) /\ LargeJob \subseteq Job
    /\ IsInjective(HostList) /\ IsFiniteSet(Host)
    /\ Jobs \in [Host -> Nat \ {0}]
    /\ MaxTry \in [Job -> Nat \ {0}] /\ NetErrorLimit \in Nat \ {0}
    /\ MaxEvent \in Nat
    /\ None \notin Host

VARIABLES
    working,    \* The context of the work is not done
    hosts,      \* The hosts of wr.worker
    worker,     \* The fields of each worker
    total,      \* totalSlots
    occupied,   \* occupiedSlots
    lockChan, unlockChan, emptyChan,
    waiting,    \* waitingList
    job,        \* What each job does, its worker, ban list, number of tries
    failed,     \* Hosts a file could not be sent to (failFileSendMap)
    toolless,   \* Hosts the tool chain could not be sent to
    checking,   \* Dead workers a goroutine of workerCheck asks for the time
    retrying,   \* Hosts a goroutine sends the tool chain to again
    freeing,    \* resourceCheck saw no remote job and is about to release
    events,     \* What happened of the bounded events
    mixed, displaced    \* History, see the properties

table == <<hosts, worker, total, occupied>>
chans == <<lockChan, unlockChan, emptyChan, waiting>>
aside == <<failed, toolless, checking, retrying, freeing>>
hist == <<mixed, displaced>>
vars == <<working, table, chans, job, aside, events, hist>>

Fresh == [h \in Host |-> [disabled |-> FALSE, dead |-> FALSE, occ |-> 0,
                          errors |-> 0, large |-> FALSE]]
SumJobs(S) == SumFunctionOnSet(Jobs, S)

\* The work has its hosts, or none before they are applied for.
Init ==
    /\ working = TRUE
    /\ hosts \in {{}, Host} /\ total = SumJobs(hosts)
    /\ worker = Fresh /\ occupied = 0
    /\ lockChan = <<>> /\ unlockChan = <<>> /\ emptyChan = 0 /\ waiting = <<>>
    /\ job = [j \in Job |-> [pc |-> "try", host |-> None, ban |-> {}, tries |-> 0]]
    /\ failed = {} /\ toolless = {} /\ checking = {} /\ retrying = {} /\ freeing = FALSE
    /\ events = 0
    /\ mixed = FALSE /\ displaced = FALSE

-----------------------------------------------------------------------------
(* The choice of a worker (under workerLock).  w is the table of workers.  *)

Usable(w, h) == h \in hosts /\ ~w[h].disabled /\ ~w[h].dead
Free(w, h) == Jobs[h] - w[h].occ
Place(h) == CHOOSE i \in DOMAIN HostList : HostList[i] = h
Offered(w, ban) == {h \in Host \ ban : Usable(w, h)}

\* The last of the list among those with the most free slots.
MostFree(w, S) ==
    {h \in S : \A g \in S : Free(w, g) < Free(w, h)
                            \/ (Free(w, g) = Free(w, h) /\ Place(g) <= Place(h))}

\* The worker for j, if there is one.  A worker whose slots are all taken
\* (free = 0) may still be chosen.
PickMutant(w, j) == MostFree(w, Offered(w, job[j].ban))  \* however full they are

Pick(w, j) ==
    LET S == {h \in Offered(w, job[j].ban) : Free(w, h) >= 0}
        L == {h \in S : w[h].large /\ Free(w, h) > Jobs[h] \div 2}
    IN  MostFree(w, IF j \in LargeJob /\ L # {} THEN L ELSE S)

Occupy(w, j, h) == [w EXCEPT ![h].occ = @ + 1, ![h].large = @ \/ j \in LargeJob]

Answer(J, h) ==
    [j \in Job |-> IF j \notin J THEN job[j]
                   ELSE [job[j] EXCEPT !.host = h, !.pc = IF h = None THEN "refused" ELSE "got"]]

-----------------------------------------------------------------------------
(* handleLock.                                                             *)

GetSlot ==
    /\ working /\ lockChan # <<>>
    /\ lockChan' = Tail(lockChan)
    /\ LET j == Head(lockChan)
       IN  \/ \E h \in Pick(worker, j) :
              /\ total > 0 /\ occupied < total
              /\ worker' = Occupy(worker, j, h)
              /\ occupied' = occupied + 1
              /\ job' = Answer({j}, h)
              /\ UNCHANGED waiting
           \/ /\ total <= 0
              /\ job' = Answer({j}, None)
              /\ UNCHANGED <<worker, occupied, waiting>>
           \/ /\ total > 0 /\ (occupied >= total \/ Pick(worker, j) = {})
              /\ waiting' = Append(waiting, j)
              /\ UNCHANGED <<worker, occupied, job>>
    /\ UNCHANGED <<working, hosts, total, unlockChan, emptyChan, aside, events, hist>>

\* What a request that waits is told: a worker, or None if all are banned or
\* gone; nothing if those there are have no free slot.
Reply(w, j) == IF Offered(w, job[j].ban) = {} THEN {None} ELSE Pick(w, j)
\* The requests that are answered now (isIdle).
Answerable(w, occ) ==
    {k \in DOMAIN waiting : (occ < total \/ total <= 0) /\ Reply(w, waiting[k]) # {}}

\* The loops of putSlot and occupyWaitList end with the first request they
\* answer: Next of a removed element is nil.
ServeMutant(w, occ) ==  \* a request whose workers are gone is passed over
    \/ \E k \in Answerable(w, occ), h \in Host :
         LET j == waiting[k]
         IN  /\ h \in Pick(w, j) /\ \A i \in Answerable(w, occ) : k <= i
             /\ worker' = Occupy(w, j, h) /\ occupied' = occ + 1
             /\ job' = Answer({j}, h) /\ waiting' = RemoveAt(waiting, k)
    \/ /\ \A k \in Answerable(w, occ) : Pick(w, waiting[k]) = {}
       /\ worker' = w /\ occupied' = occ
       /\ UNCHANGED <<job, waiting>>

Serve(w, occ) ==
    \/ \E k \in Answerable(w, occ) :
         /\ \A i \in Answerable(w, occ) : k <= i
         /\ waiting' = RemoveAt(waiting, k)
         /\ \E h \in Reply(w, waiting[k]) :
              /\ job' = Answer({waiting[k]}, h)
              /\ worker' = IF h = None THEN w ELSE Occupy(w, waiting[k], h)
              /\ occupied' = IF h = None THEN occ ELSE occ + 1
    \/ /\ Answerable(w, occ) = {}
       /\ worker' = w /\ occupied' = occ
       /\ UNCHANGED <<job, waiting>>

FreedMutant(w, h) == w  \* the slot of the worker is not given back

Freed(w, h) == IF h \in hosts THEN [w EXCEPT ![h].occ = @ - 1] ELSE w

PutSlot ==
    /\ working /\ unlockChan # <<>>
    /\ unlockChan' = Tail(unlockChan)
    /\ \E w \in {Freed(worker, Head(unlockChan))} : Serve(w, occupied - 1)
    /\ UNCHANGED <<working, hosts, total, lockChan, emptyChan, aside, events, hist>>

OnSlotEmpty ==
    /\ working /\ emptyChan > 0
    /\ emptyChan' = emptyChan - 1
    /\ job' = Answer(Range(waiting), None)
    /\ waiting' = <<>>
    /\ UNCHANGED <<working, table, lockChan, unlockChan, aside, events, hist>>

\* The ticker of 20 seconds.
OccupyWaitList ==
    /\ working /\ waiting # <<>>
    /\ Serve(worker, occupied)
    /\ UNCHANGED <<working, hosts, total, lockChan, unlockChan, emptyChan, aside, events, hist>>

-----------------------------------------------------------------------------
(* Changes of the workers (each under workerLock).                         *)

SetWorker(h, w) == worker' = [worker EXCEPT ![h] = w]
Signal == emptyChan' = IF total' <= 0 THEN emptyChan + 1 ELSE emptyChan
\* A worker that is disabled and dead is taken out of the total twice, and
\* in again by whichever of the two ends.
Mix(h, w) == mixed' = (mixed \/ (w.disabled /\ w.dead))

DisableWorker(h) ==
    LET off == h \in hosts /\ ~worker[h].disabled
        w == [worker[h] EXCEPT !.disabled = @ \/ h \in hosts]
    IN  /\ SetWorker(h, w) /\ Mix(h, w)
        /\ total' = IF off THEN total - Jobs[h] ELSE total
        /\ Signal

EnableWorker(h) ==
    LET on == h \in hosts /\ worker[h].disabled
    IN  /\ SetWorker(h, [worker[h] EXCEPT !.disabled = FALSE])
        /\ total' = IF on THEN total + Jobs[h] ELSE total

\* w.totalSlots is that of a copy, which never changes.
WorkerDead(h) ==
    LET w == [worker[h] EXCEPT !.dead = @ \/ h \in hosts]
    IN  IF h \in hosts /\ worker[h].dead
        THEN UNCHANGED <<worker, total, emptyChan, mixed>>
        ELSE /\ SetWorker(h, w) /\ Mix(h, w)
             /\ total' = IF h \in hosts THEN total - Jobs[h] ELSE total
             /\ Signal

RecoverDeadWorkerMutant(h) ==  \* the worker is brought back whether dead or not
    /\ SetWorker(h, [worker[h] EXCEPT !.dead = FALSE, !.errors = 0])
    /\ total' = IF h \in hosts THEN total + Jobs[h] ELSE total

RecoverDeadWorker(h) ==
    LET back == h \in hosts /\ worker[h].dead
    IN  /\ IF back THEN SetWorker(h, [worker[h] EXCEPT !.dead = FALSE, !.errors = 0])
                   ELSE UNCHANGED worker
        /\ total' = IF back THEN total + Jobs[h] ELSE total

-----------------------------------------------------------------------------
(* A job: ExecuteTask of the local manager tries the remote one until it   *)
(* succeeds, MaxTry times; then the job is run locally.                    *)

Set(j, r) == job' = [job EXCEPT ![j] = r]

\* After an error: again, or locally; a job whose execution timed out is not
\* tried again (needRetry).
After(j, r, timeout) ==
    [r EXCEPT !.tries = @ + 1, !.host = None,
              !.pc = IF r.tries + 1 < MaxTry[j] /\ ~timeout THEN "try" ELSE "local"]

ExecuteTask(j) ==
    /\ job[j].pc = "try"
    /\ LET ban == job[j].ban \cup (failed \cap hosts)
           r == [job[j] EXCEPT !.ban = ban]
       IN  \/ /\ total <= 0 \/ Cardinality(ban) = Cardinality(hosts)
              /\ Set(j, After(j, r, FALSE))
              /\ UNCHANGED lockChan
           \/ /\ total > 0 /\ Cardinality(ban) # Cardinality(hosts)
              /\ Set(j, [r EXCEPT !.pc = "asking"])
              /\ lockChan' = Append(lockChan, j)
    /\ UNCHANGED <<working, table, unlockChan, emptyChan, waiting, aside, events, hist>>

\* No available worker; or the work is over, and the empty host Lock returned
\* leads to an error.
Refused(j) ==
    /\ job[j].pc = "refused" \/ (~working /\ job[j].pc = "asking")
    /\ Set(j, After(j, job[j], FALSE))
    /\ UNCHANGED <<working, table, chans, aside, events, hist>>

Give(j) == unlockChan' = Append(unlockChan, job[j].host)

\* The deferred unlockSlots.
Succeed(j) ==
    /\ job[j].pc = "got"
    /\ Give(j)
    /\ Set(j, [job[j] EXCEPT !.pc = "remote", !.host = None])
    /\ UNCHANGED <<working, table, lockChan, emptyChan, waiting, aside, events, hist>>

\* An attempt that fails gives its slot back too; ban is what it adds to the
\* list of the job.
Leave(j, ban, timeout) ==
    /\ Give(j)
    /\ Set(j, After(j, [job[j] EXCEPT !.ban = @ \cup ban], timeout))

Failing(j) == job[j].pc = "got" /\ events < MaxEvent /\ events' = events + 1

SendToolchainFails(j) ==
    /\ Failing(j)
    /\ DisableWorker(job[j].host)
    /\ toolless' = toolless \cup {job[j].host}
    /\ Leave(j, {}, FALSE)
    /\ UNCHANGED <<working, hosts, occupied, lockChan, waiting, failed, checking, retrying,
                   freeing, displaced>>

EnsureFilesFails(j) ==
    /\ Failing(j)
    /\ failed' = failed \cup {job[j].host}
    /\ Leave(j, {job[j].host}, FALSE)
    /\ UNCHANGED <<working, table, lockChan, emptyChan, waiting, toolless, checking, retrying,
                   freeing, hist>>

\* The connection of the client is closed, or the inputs cannot be adjusted: an
\* error that bans nobody.
AttemptFails(j) ==
    /\ Failing(j)
    /\ Leave(j, {}, FALSE)
    /\ UNCHANGED <<working, table, lockChan, emptyChan, waiting, aside, hist>>

\* The execution fails with an error that is not counted.
ExecutionFails(j) ==
    /\ Failing(j)
    /\ \E timeout \in BOOLEAN : Leave(j, {job[j].host}, timeout)
    /\ UNCHANGED <<working, table, lockChan, emptyChan, waiting, aside, hist>>

\* handleNetError: the error is counted, then the count is compared, and a
\* worker with too many is made dead.
NetError(j) ==
    LET h == job[j].host
    IN  /\ Failing(j)
        /\ worker' = IF h \in hosts THEN [worker EXCEPT ![h].errors = @ + 1] ELSE worker
        /\ Set(j, [job[j] EXCEPT !.pc = "counted"])
        /\ UNCHANGED <<working, hosts, total, occupied, chans, aside, hist>>

IsWorkerDead(j) ==
    LET h == job[j].host
        dead == h \in hosts /\ worker[h].errors >= NetErrorLimit
    IN  /\ job[j].pc = "counted"
        /\ \/ dead /\ Set(j, [job[j] EXCEPT !.pc = "dying"]) /\ UNCHANGED unlockChan
           \/ ~dead /\ \E timeout \in BOOLEAN : Leave(j, {h}, timeout)
        /\ UNCHANGED <<working, table, lockChan, emptyChan, waiting, aside, events, hist>>

MakeDead(j) ==
    /\ job[j].pc = "dying"
    /\ WorkerDead(job[j].host)
    /\ \E timeout \in BOOLEAN : Leave(j, {job[j].host}, timeout)
    /\ UNCHANGED <<working, hosts, occupied, lockChan, waiting, aside, events, displaced>>

\* A task for every worker once (AttributeAllWorkerOnce) runs on all that are
\* not banned without asking for their slots, and gives each a slot back.
EveryWorkerOnce(j) ==
    /\ job[j].pc = "try" /\ total > 0 /\ events < MaxEvent
    /\ LET S == hosts \ (job[j].ban \cup failed)
       IN  /\ S # {}
           /\ unlockChan' = unlockChan \o SetToSeq(S)
    /\ Set(j, [job[j] EXCEPT !.pc = "remote"])
    /\ events' = events + 1
    /\ displaced' = TRUE
    /\ UNCHANGED <<working, table, lockChan, emptyChan, waiting, aside, mixed>>

JobNext(j) ==
    \/ ExecuteTask(j) \/ Refused(j) \/ Succeed(j) \/ EveryWorkerOnce(j)
    \/ SendToolchainFails(j) \/ EnsureFilesFails(j)
    \/ AttemptFails(j) \/ ExecutionFails(j) \/ NetError(j) \/ IsWorkerDead(j) \/ MakeDead(j)

-----------------------------------------------------------------------------
(* What brings workers back.                                               *)

RetryFiles(h) ==
    /\ working /\ h \in failed
    /\ failed' = failed \ {h}
    /\ UNCHANGED <<working, table, chans, job, toolless, checking, retrying, freeing, events, hist>>

RetryToolChain(h) ==
    /\ working /\ h \in toolless
    /\ toolless' = toolless \ {h}
    /\ retrying' = retrying \cup {h}
    /\ UNCHANGED <<working, table, chans, job, failed, checking, freeing, events, hist>>

\* Sent at last: the worker is enabled, even one that was disabled for another
\* reason since, or one of a new resource.
Resent(h) ==
    /\ working /\ h \in retrying
    /\ retrying' = retrying \ {h}
    /\ EnableWorker(h)
    /\ UNCHANGED <<working, hosts, occupied, chans, job, failed, toolless, checking, freeing,
                   events, hist>>

CheckDead(h) ==
    /\ working /\ h \in hosts /\ worker[h].dead /\ ~worker[h].disabled
    /\ checking' = checking \cup {h}
    /\ UNCHANGED <<working, table, chans, job, failed, toolless, retrying, freeing, events, hist>>

\* The worker answered or did not; it may have been reset or disabled since.
Checked(h) ==
    /\ working /\ h \in checking
    /\ checking' = checking \ {h}
    /\ RecoverDeadWorker(h) \/ UNCHANGED <<worker, total>>
    /\ UNCHANGED <<working, hosts, occupied, chans, job, failed, toolless, retrying, freeing,
                   events, hist>>

-----------------------------------------------------------------------------
(* What takes workers away.                                                *)

\* The name of the pod is not the one the work was given.
ConfirmWorker(h) ==
    /\ working /\ events < MaxEvent /\ events' = events + 1
    /\ h \in hosts /\ ~worker[h].disabled
    /\ DisableWorker(h)
    /\ UNCHANGED <<working, hosts, occupied, lockChan, unlockChan, waiting, job, aside, 
                   displaced>>

\* resourceCheck reads the number of remote jobs and the time of the last use,
\* and then disables everything.
ResourceCheck ==
    /\ working /\ events < MaxEvent /\ events' = events + 1
    /\ ~freeing /\ hosts # {}
    /\ \A j \in Job : job[j].pc \in {"remote", "local"} \/ (job[j].pc = "try" /\ job[j].tries = 0)
    /\ freeing' = TRUE
    /\ UNCHANGED <<working, table, chans, job, failed, toolless, checking, retrying, hist>>

\* With it the caches of files and tool chains go.
DisableAllWorker ==
    /\ working /\ freeing /\ freeing' = FALSE
    /\ worker' = [h \in Host |-> [worker[h] EXCEPT !.disabled = @ \/ h \in hosts]]
    /\ total' = 0
    /\ emptyChan' = emptyChan + 1
    /\ failed' = {} /\ toolless' = {}
    /\ mixed' = (mixed \/ \E h \in hosts : worker[h].dead)
    /\ UNCHANGED <<working, hosts, occupied, lockChan, unlockChan, waiting, job, checking,
                   retrying, events, displaced>>

Holders == {j \in Job : job[j].host # None}

\* The resources of the work changed (callback4ResChanged): all, or none.
\* Slots that are held, or are on their way back, are forgotten and given back
\* all the same; requests that wait stay.
Reset ==
    /\ working /\ events < MaxEvent /\ events' = events + 1
    /\ \E S \in {{}, Host} :
         /\ hosts' = S
         /\ total' = SumJobs(S)
         /\ IF S = {} THEN failed' = {} /\ toolless' = {}
                      ELSE UNCHANGED <<failed, toolless>>
    /\ worker' = Fresh /\ occupied' = 0
    /\ mixed' = FALSE
    /\ displaced' = (displaced \/ Holders # {} \/ unlockChan # <<>>)
    /\ UNCHANGED <<working, chans, job, checking, retrying, freeing>>

Done ==
    /\ working /\ working' = FALSE
    /\ UNCHANGED <<table, chans, job, aside, events, hist>>

HandleLock == GetSlot \/ PutSlot \/ OnSlotEmpty \/ OccupyWaitList
Upkeep(h) == RetryFiles(h) \/ RetryToolChain(h) \/ Resent(h) \/ CheckDead(h) \/ Checked(h)

Next ==
    \/ \E j \in Job : JobNext(j)
    \/ HandleLock
    \/ \E h \in Host : Upkeep(h) \/ ConfirmWorker(h)
    \/ ResourceCheck \/ DisableAllWorker \/ Reset \/ Done

Spec == Init /\ [][Next]_vars

\* The loop serves its channels and its ticker; a job that was started goes on,
\* and its remote attempt ends one way or another (IOTimeout).  That some of
\* them goes on is enough: each of these steps brings a job closer to its end.
Step(j) == ExecuteTask(j) \/ Refused(j) \/ Succeed(j) \/ IsWorkerDead(j) \/ MakeDead(j)
Fairness == WF_vars(HandleLock \/ \E j \in Job : Step(j))

FairSpec == Spec /\ Fairness

-----------------------------------------------------------------------------
(* Properties.                                                             *)

\* The total that getSlot and ExecuteTask compare with is what the workers in
\* service have together, through every order in which files, tool chains, net
\* errors, recoveries and resets disable, enable, kill and revive them; unless
\* one was disabled and dead at once, which the code counts twice (mixed).
TotalIsAvailable == mixed \/ total = SumJobs({h \in Host : Usable(worker, h)})

\* Every slot counted is one a job holds or has given back unread, at the worker
\* it was taken from; unless a reset overtook one, or a task ran on every worker
\* without asking (displaced).
SlotsAreBalanced ==
    displaced
    \/ /\ occupied = Cardinality(Holders) + Len(unlockChan)
       /\ \A h \in hosts :
            worker[h].occ = Cardinality({j \in Job : job[j].host = h})
                            + Cardinality({k \in DOMAIN unlockChan : unlockChan[k] = h})

\* A worker is given at most one job more than it has slots: the loops that
\* compare free slots with a maximum that starts at 0 take a full worker, when
\* the others are banned or full, and no worker that is already above its limit.
OverbookedByOne ==
    displaced \/ \A h \in hosts :
                   Cardinality({j \in Job : job[j].host = h}) <= Jobs[h] + 1

\* Every job is done in the end, remotely or locally: no request waits
\* for ever for a slot that was lost, for a worker that is disabled or dead, or
\* for a signal that came before it, and the end of the work answers all.
EveryJobEnds == <>(\A j \in Job : job[j].pc \in {"remote", "local"})
=============================================================================
