------------------------- MODULE TaskManagerInv -------------------------
(***************************************************************************)
(* The inductive invariant of TaskManager: what has to be true of a task's *)
(* row, its cache entry, the messages and writes under way for it, the     *)
(* handler that holds its lock and the queue, for the three agreements of  *)
(* the server to survive every step: QueueMatchesCache,                    *)
(* ReleasedHoldsNothing and ResourcesAreTracked.  It holds for every       *)
(* number of failing calls, crashes and changes of role.                   *)
(***************************************************************************)
EXTENDS TaskManager

\* The statuses of a task that left the queue and never returns to it.
Left == {"starting", "running", "finish", "failed"}
HasRow(t) == db[t] # None
Departed(t) == HasRow(t) /\ db[t].st \in Left

\* A released row holds no resource and cannot be picked again.
RowInv(t) ==
    HasRow(t) /\ db[t].rel =>
      /\ t \notin res /\ db[t].st \in Left
      /\ tbm[t] # None => tbm[t].st \in Left

\* The cache is ahead of the row by the launch of pick only, and an entry
\* without a row belongs to a task that is being created.
CacheInv(t) ==
    /\ tbm[t] # None =>
         /\ tbm[t].rel => t \notin res /\ tbm[t].st \in Left /\ Departed(t)
         /\ tbm[t].st \in Terminal \cup {"running"} => Departed(t)
         /\ tbm[t].st # "init" => HasRow(t) /\ db[t].st # "init"
         /\ HasRow(t) \/ At(t, "create", "row")
    /\ t \in res => HasRow(t)
    /\ role = "running" /\ t \in res => tbm[t] # None

\* What outlives the lock - a clean goroutine or notification, a listed
\* retirement, a delayed write, a picker's selection - concerns a task that is past init, or past the queue.
LateInv(t) ==
    /\ t \in cleaning \cup cleanCh \cup retiring =>
         /\ Departed(t)
         /\ tbm[t] # None => tbm[t].st \in Left
    /\ t \in retiring => t \notin res /\ ~(job[t] # None /\ job[t].op = "pick")
    /\ \A w \in delayed : w[1] = t =>
         w[2].st = "starting" /\ ~w[2].rel /\ HasRow(t) /\ db[t].st # "init"
    /\ \A k \in Picker : sel[k] = t => HasRow(t) /\ db[t].st # "init"

\* What each handler may rely on between LockTask and UnLockTask, although
\* recover() and the delayed writes do not take the lock.
JobInv(t) == job[t] # None =>
    /\ job[t].tb.rel =>
         /\ t \notin res /\ job[t].tb.st \in Left /\ Departed(t)
         /\ tbm[t] # None => tbm[t].st \in Left
    /\ \/ /\ job[t].op = "create"
          /\ job[t].pc \in {"insert", "row"} => ~HasRow(t) /\ job[t].tb = InitTB
          /\ job[t].pc = "insert" => tbm[t] = None
          /\ job[t].pc \notin {"insert", "row"} =>
               /\ HasRow(t) /\ db[t].st = "init" /\ ~job[t].tb.rel
               /\ IF job[t].pc = "extend" THEN job[t].tb = InitTB
                  ELSE job[t].pc = "save" /\ job[t].tb = Create(InitTB)
          /\ tbm[t] # None => tbm[t].st = "init"
       \/ /\ job[t].op = "pick"
          /\ IF job[t].pc = "launch" THEN job[t].tb.st = "staging"
             ELSE job[t].pc = "store" /\ job[t].tb.st = "starting"
          /\ ~job[t].tb.rel
          /\ HasRow(t) /\ db[t].st # "init" /\ ~db[t].rel
          /\ tbm[t] # None => ~tbm[t].rel
          /\ role = "running" => tbm[t] # None
       \/ /\ job[t].op \in {"track", "keep", "release"}
          /\ job[t].pc = "save"
          /\ HasRow(t) /\ job[t].tb.st \in Left
          /\ job[t].op = "release" => job[t].tb.st \in Terminal
       \/ /\ job[t].op = "clean"
          /\ job[t].pc \in {"collect", "free", "save"}
          /\ t \in cleaning /\ job[t].tb.st \in Left
          /\ job[t].pc # "save" => ~job[t].tb.rel

\* While recover() is between its two steps only tasks whose creation ended
\* just now are in the new queue, and nobody else knows them.
QueueInv(t) ==
    /\ role = "running" => (t \in queue <=> Cached(t, {"staging"}))
    /\ role = "recovering" /\ t \in queue =>
         /\ HasRow(t) /\ db[t].st = "staging" /\ ~db[t].rel
         /\ job[t] = None /\ t \notin cleaning \cup retiring
         /\ \A k \in Picker : sel[k] # t
         /\ \A w \in delayed : w[1] # t


\* The inductive invariant: every part of it, for every task.
IInv ==
    \A t \in Task : RowInv(t) /\ CacheInv(t) /\ LateInv(t) /\ JobInv(t) /\ QueueInv(t)

-----------------------------------------------------------------------------
(* The rest is true while the server keeps its role and no failing call has *)
(* an effect all the same: a second inductive invariant, on top of IInv,    *)
(* for ConcurrencyRespected, NoOrphanRow, CacheIsDurable, CountedOnce,      *)
(* RowStaysTerminated and OnlyTerminatedFreed.                              *)

Calm == MaxFlap = 0 /\ FaultKinds \subseteq {"err"}

\* A server that does not run has nothing in memory.
MemoryInv == role # "running" =>
    /\ queue = {} /\ delayed = {} /\ cleaning = {} /\ cleanCh = {} /\ retiring = {}
    /\ \A t \in Task : tbm[t] = None /\ job[t] = None
    /\ \A p \in Project : plock[p] = None

\* A task has a launch time once it is launched, and is released when it is over.
Shaped(tb) ==
    /\ tb.st \in {"init", "staging"} => ~tb.lt
    /\ tb.st = "starting" => tb.lt
    /\ tb.rel => tb.st \in Terminal

\* Cache and row are the same but for the launch of pick.
AgreeInv(t) ==
    /\ HasRow(t) => Shaped(db[t])
    /\ tbm[t] # None => Shaped(tbm[t])
    /\ HasRow(t) /\ tbm[t] # None =>
         tbm[t] = db[t] \/ (tbm[t].st = "starting" /\ db[t].st = "staging")
    /\ role = "running" /\ HasRow(t) /\ ~db[t].rel => tbm[t] # None

\* The copy of a handler is that of the cache, up to what the handler does.
CopyInv(t) == job[t] # None =>
    /\ ~(job[t].op = "create" /\ job[t].pc = "insert") => tbm[t] # None
    /\ job[t].op = "create" => IF job[t].pc = "insert" THEN plock[ProjectOf[t]] = t
                               ELSE tbm[t] = InitTB
    /\ job[t].op = "pick" =>
         /\ tbm[t].st = "staging"
         /\ job[t].tb = IF job[t].pc = "launch" THEN tbm[t] ELSE Launch(tbm[t])
    /\ job[t].op \in {"track", "keep", "release"} =>
         /\ tbm[t].st \in Live /\ job[t].tb.st # "starting" /\ ~job[t].tb.rel
         /\ tbm[t].lt => job[t].tb.lt
    /\ job[t].op = "clean" =>
         /\ tbm[t].st \in Terminal /\ ~tbm[t].rel
         /\ job[t].tb = IF job[t].pc = "save" THEN ShutDown(tbm[t]) ELSE tbm[t]

\* A clean goroutine finds a task that is over; a delayed write finds the row
\* with a launch time, or the cache as pick left it.
PendingInv(t) ==
    /\ t \in cleaning \cup cleanCh /\ tbm[t] # None => tbm[t].st \in Terminal
    /\ t \in retiring /\ tbm[t] # None => tbm[t].rel
    /\ \A w \in delayed : w[1] = t => (w[2].lt /\ (db[t].lt \/ tbm[t] = w[2]))

\* A project lock is held by a creation of that project.
LockInv == \A p \in Project : plock[p] # None =>
    ProjectOf[plock[p]] = p /\ At(plock[p], "create", "insert")

\* Every task that counts, or will, for the concurrency of its project.
Occupies(t) ==
    \/ Cached(t, Live) \/ (HasRow(t) /\ db[t].st \in Live)
    \/ plock[ProjectOf[t]] = t
Occupying(p) == {t \in Task : ProjectOf[t] = p /\ Occupies(t)}
RoomInv == \A p \in Project :
    IsFiniteSet(Occupying(p)) /\ Cardinality(Occupying(p)) <= Limit(p)

\* The cleaner collects a task once more only after a fault or a crash.
Collected(t) == (HasRow(t) /\ db[t].rel) \/ At(t, "clean", "free") \/ At(t, "clean", "save")
TallyInv(t) ==
    /\ counted[t] <= faults + crashes + (IF Collected(t) THEN 1 ELSE 0)
    /\ collected[t] <= faults + crashes + (IF Collected(t) THEN 1 ELSE 0)
    /\ Collected(t) => counted[t] + faults >= 1

CalmInv ==
    /\ MemoryInv /\ LockInv /\ RoomInv
    /\ \A t \in Task : AgreeInv(t) /\ CopyInv(t) /\ PendingInv(t) /\ TallyInv(t)
=============================================================================
