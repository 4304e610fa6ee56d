---------------------------- MODULE TaskManager ----------------------------
(***************************************************************************)
(* The life of a task in the TBS server (booster/server/pkg/manager/       *)
(* normal): the handlers that create, pick, track, keep, release and clean *)
(* it, the layer cache and the staging queue they share, the rows of the   *)
(* database, the writes that are saved by a goroutine of their own, and    *)
(* the changes of role and crashes after which the cache is rebuilt.       *)
(*                                                                         *)
(* Every handler works on a task between LockTask and UnLockTask; job[t]   *)
(* is the handler that holds the lock of t, with the copy of the task it   *)
(* got from the layer.  What is NOT under that lock is interleaved with    *)
(* it: recover(), a crash, the delayed writes, the counting of a project's *)
(* tasks and the selection of a task from the queue.                       *)
(***************************************************************************)
EXTENDS Naturals, FiniteSets

CONSTANTS
    Task,         \* Identifiers generateTaskID may return
    Project,      \* Projects
    ProjectOf,    \* The project a task is created for
    Concurrency,  \* The concurrency setting of each project, 0 when not set
    Picker,       \* Pickers of the queue (one, or two after a racing onNewQueue)
    None,         \* No task basic, no handler, no task
    FaultKinds,   \* "err": a call fails; "lost": it takes effect and still fails
    MaxFaults,    \* Bound on the failing calls of a behaviour
    MaxCrash,     \* Bound on the crashes of the process
    MaxFlap       \* Bound on the losses of the master role

ASSUME ConstantsAssumption ==
    /\ ProjectOf \in [Task -> Project]
    /\ Concurrency \in [Project -> Nat]
    /\ FaultKinds \subseteq {"err", "lost"}
    /\ MaxFaults \in Nat /\ MaxCrash \in Nat /\ MaxFlap \in Nat

VARIABLES
    role,      \* "stopped", "recovering" or "running"
    tbm,       \* The layer's cache of task basics
    queue,     \* The tasks in the staging queue
    db,        \* The rows of the task table
    delayed,   \* Writes handed to a goroutine (delaySaveDB) and not done
    res,       \* Tasks whose resources the engine holds
    job,       \* The handler that holds the task lock
    plock,     \* The task being created that holds the project lock
    sel,       \* The task a picker selected and has not locked yet
    cleaning,  \* The cleaner's tasks map: tasks a clean goroutine works on
    cleanCh,   \* Tasks in the cleaner's channel
    collected, \* Calls of CollectTaskData for a task
    counted,   \* Times a task was added to its project's statistics
    silent,    \* Tasks whose last heartbeat is older than their timeout
    retiring,  \* Tasks the retirement loop listed and has not removed yet
    faults, crashes, flaps

mem == <<tbm, queue, job, plock, sel, cleaning, cleanCh>>
late == <<silent, retiring>>
budget == <<faults, crashes, flaps>>
vars == <<role, mem, db, delayed, res, collected, counted, late, budget>>

-----------------------------------------------------------------------------
(* Task basics (engine/task.go). `alive' is StatusCode.ServerAlive(), all  *)
(* that is ever asked of a status code, `lt' says launch_time is not 0.    *)

\* The handlers, and where they are while they hold the task lock.
Op == {"create", "pick", "track", "keep", "release", "clean"}
Pc == {"insert", "row", "extend", "save", "launch", "store", "collect", "free"}

Live     == {"init", "staging", "starting", "running"}
Terminal == {"finish", "failed"}
TB == [st: Live \cup Terminal, alive: BOOLEAN, rel: BOOLEAN, lt: BOOLEAN]

ASSUME NoneAssumption == None \notin TB \cup Task \cup [op: Op, pc: Pc, tb: TB]

InitTB == [st |-> "init", alive |-> TRUE, rel |-> FALSE, lt |-> FALSE]

Create(tb) == [tb EXCEPT !.st = "staging"]
LaunchMutant(tb) == [tb EXCEPT !.st = "launched", !.lt = TRUE]
Launch(tb) == [tb EXCEPT !.st = "starting", !.lt = TRUE]
Ready(tb) == [tb EXCEPT !.st = "running"]
ShutDown(tb) == [tb EXCEPT !.rel = TRUE]
Finish(tb)   == [tb EXCEPT !.st = "finish", !.alive = TRUE]
FailWithServerDown(tb) == [tb EXCEPT !.st = "failed", !.alive = FALSE]
\* FailWithClientCancel and FailWithClientLost differ only in wording.
FailWithClient(tb) ==
    [tb EXCEPT !.st = "failed", !.alive = (tb.st \in {"starting", "running"})]

Cached(t, S) == tbm[t] # None /\ tbm[t].st \in S
Terminated(t) == Cached(t, Terminal)

-----------------------------------------------------------------------------
(* The layer (layer.go). *)

DefaultMaxParallel == 10
Limit(p) == IF Concurrency[p] < 1 THEN DefaultMaxParallel ELSE Concurrency[p]

\* GetConcurrency counts the tasks of the cache, not those of the database.
Unterminated(p) == {t \in Task : ProjectOf[t] = p /\ Cached(t, Live)}

PutTBMutant(t, tb) ==  \* a launched task is left in the queue
    /\ tbm' = [tbm EXCEPT ![t] = tb]
    /\ queue' = IF tb.st = "staging" THEN queue \cup {t} ELSE queue

PutTB(t, tb) ==
    /\ tbm' = [tbm EXCEPT ![t] = tb]
    /\ queue' = IF tb.st # "staging" THEN queue \ {t}
                ELSE IF Cached(t, {"staging"}) THEN queue ELSE queue \cup {t}

DeleteTB(t) ==
    /\ tbm' = [tbm EXCEPT ![t] = None]
    /\ queue' = queue \ {t}

(* Handlers and the task lock. *)
Hold(op, pc, tb) == [op |-> op, pc |-> pc, tb |-> tb]
At(t, op, pc) == job[t] # None /\ job[t].op = op /\ job[t].pc = pc
Lock(t, op, pc, tb) == job[t] = None /\ job' = [job EXCEPT ![t] = Hold(op, pc, tb)]
Continue(t, pc, tb) == job' = [job EXCEPT ![t] = Hold(job[t].op, pc, tb)]
UnLock(t) == job' = [job EXCEPT ![t] = None]

Fault(kind) == kind \in FaultKinds /\ faults < MaxFaults /\ faults' = faults + 1
NoFault == UNCHANGED faults

-----------------------------------------------------------------------------
Init ==
    /\ role = "stopped"
    /\ tbm = [t \in Task |-> None]
    /\ db = [t \in Task |-> None]
    /\ job = [t \in Task |-> None]
    /\ plock = [p \in Project |-> None]
    /\ sel = [k \in Picker |-> None]
    /\ queue = {} /\ delayed = {} /\ res = {} /\ cleaning = {} /\ cleanCh = {}
    /\ silent = {} /\ retiring = {}
    /\ collected = [t \in Task |-> 0]
    /\ counted = [t \in Task |-> 0]
    /\ faults = 0 /\ crashes = 0 /\ flaps = 0

-----------------------------------------------------------------------------
(* createTask (manager.go).  Task ids are fresh, so InsertTB never finds   *)
(* the id in the cache and CheckTaskIDValid fails only with the database.  *)

CreateLockMutant(t) ==  \* no project lock
    /\ role = "running"
    /\ tbm[t] = None /\ db[t] = None
    /\ Cardinality(Unterminated(ProjectOf[t])) < Limit(ProjectOf[t])
    /\ plock' = [plock EXCEPT ![ProjectOf[t]] = t]
    /\ Lock(t, "create", "insert", InitTB)
    /\ UNCHANGED <<role, tbm, queue, sel, cleaning, cleanCh, db, delayed, res,
                   collected, counted, late, budget>>

CreateLock(t) ==
    /\ role = "running"
    /\ tbm[t] = None /\ db[t] = None
    /\ plock[ProjectOf[t]] = None
    /\ Cardinality(Unterminated(ProjectOf[t])) < Limit(ProjectOf[t])
    /\ plock' = [plock EXCEPT ![ProjectOf[t]] = t]
    /\ Lock(t, "create", "insert", InitTB)
    /\ UNCHANGED <<role, tbm, queue, sel, cleaning, cleanCh, db, delayed, res,
                   collected, counted, late, budget>>

CreateInsert(t) ==
    /\ At(t, "create", "insert")
    /\ tbm' = [tbm EXCEPT ![t] = InitTB]
    /\ plock' = [plock EXCEPT ![ProjectOf[t]] = None]
    /\ Continue(t, "row", InitTB)
    /\ UNCHANGED <<role, queue, sel, cleaning, cleanCh, db, delayed, res,
                   collected, counted, late, budget>>

\* CheckTaskIDValid, then CreateTaskBasic.
CreateRow(t) ==
    /\ At(t, "create", "row")
    /\ db' = [db EXCEPT ![t] = InitTB]
    /\ Continue(t, "extend", InitTB)
    /\ UNCHANGED <<role, tbm, queue, plock, sel, cleaning, cleanCh, delayed, res,
                   collected, counted, late, budget>>

CreateRowFail(t) ==
    /\ At(t, "create", "row")
    /\ \/ Fault("err") /\ UNCHANGED db
       \/ Fault("lost") /\ db' = [db EXCEPT ![t] = InitTB]
    /\ DeleteTB(t)
    /\ UnLock(t)
    /\ UNCHANGED <<role, plock, sel, cleaning, cleanCh, delayed, res,
                   collected, counted, late, crashes, flaps>>

CreateExtension(t) ==
    /\ At(t, "create", "extend")
    /\ Continue(t, "save", Create(job[t].tb))
    /\ UNCHANGED <<role, tbm, queue, plock, sel, cleaning, cleanCh, db, delayed, res,
                   collected, counted, late, budget>>

CreateExtensionFailMutant(t) ==  \* the cache entry is dropped, the row is not
    /\ At(t, "create", "extend")
    /\ Fault("err")
    /\ DeleteTB(t)
    /\ UnLock(t)
    /\ UNCHANGED <<role, plock, sel, cleaning, cleanCh, db, delayed, res,
                   collected, counted, late, crashes, flaps>>

\* The init task stays in the cache and in the database.
CreateExtensionFail(t) ==
    /\ At(t, "create", "extend")
    /\ Fault("err")
    /\ UnLock(t)
    /\ UNCHANGED <<role, tbm, queue, plock, sel, cleaning, cleanCh, db, delayed, res,
                   collected, counted, late, crashes, flaps>>

-----------------------------------------------------------------------------
(* UpdateTaskBasic without delaySaveDB: the database first, the cache only *)
(* when that succeeded.  It ends createTask, isFinishStarting,             *)
(* checkTaskBasic, releaseTask and clean.                                  *)

Saving(t) == job[t] # None /\ job[t].pc = "save"

\* UPDATE ... WHERE task_id: no row, no effect.
UpdateRow(t, tb) == db' = [db EXCEPT ![t] = IF @ = None THEN None ELSE tb]

EndSave(t) ==
    /\ UnLock(t)
    /\ cleaning' = IF job[t].op = "clean" THEN cleaning \ {t} ELSE cleaning

Save(t) ==
    /\ Saving(t)
    /\ UpdateRow(t, job[t].tb)
    /\ PutTB(t, job[t].tb)
    /\ EndSave(t)
    /\ cleanCh' = IF job[t].op = "release" THEN cleanCh \cup {t} ELSE cleanCh
    /\ UNCHANGED <<role, plock, sel, delayed, res, collected, counted, late, budget>>

SaveFailMutant(t) ==  \* the cache is updated although the database is not
    /\ Saving(t)
    /\ Fault("err") /\ UNCHANGED db
    /\ PutTB(t, job[t].tb)
    /\ EndSave(t)
    /\ UNCHANGED <<role, plock, sel, cleanCh, delayed, res,
                   collected, counted, late, crashes, flaps>>

SaveFail(t) ==
    /\ Saving(t)
    /\ \/ Fault("err") /\ UNCHANGED db
       \/ Fault("lost") /\ UpdateRow(t, job[t].tb)
    /\ EndSave(t)
    /\ UNCHANGED <<role, tbm, queue, plock, sel, cleanCh, delayed, res,
                   collected, counted, late, crashes, flaps>>

-----------------------------------------------------------------------------
(* pick (selector.go).  The order of the queue is module StagingQueue's.   *)

PickSelect(k) ==
    /\ role = "running"
    /\ sel[k] = None
    /\ \E t \in queue : sel' = [sel EXCEPT ![k] = t]
    /\ UNCHANGED <<role, tbm, queue, job, plock, cleaning, cleanCh, db, delayed, res,
                   collected, counted, late, budget>>

PickLock(k) ==
    /\ sel[k] # None
    /\ job[sel[k]] = None
    /\ sel' = [sel EXCEPT ![k] = None]
    /\ IF Cached(sel[k], {"staging"})
       THEN Lock(sel[k], "pick", "launch", tbm[sel[k]])
       ELSE UNCHANGED job
    /\ UNCHANGED <<role, tbm, queue, plock, cleaning, cleanCh, db, delayed, res,
                   collected, counted, late, budget>>

PickLaunch(t) ==
    /\ At(t, "pick", "launch")
    /\ t \notin res
    /\ res' = res \cup {t}
    /\ Continue(t, "store", Launch(job[t].tb))
    /\ UNCHANGED <<role, tbm, queue, plock, sel, cleaning, cleanCh, db, delayed,
                   collected, counted, late, budget>>

\* Not enough resources, or resources launched before a crash.
PickLaunchFail(t) ==
    /\ At(t, "pick", "launch")
    /\ UnLock(t)
    /\ UNCHANGED <<role, tbm, queue, plock, sel, cleaning, cleanCh, db, delayed, res,
                   collected, counted, late, budget>>

\* UpdateTaskBasic with delaySaveDB: the cache now, the database later.
PickStore(t) ==
    /\ At(t, "pick", "store")
    /\ delayed' = delayed \cup {<<t, job[t].tb>>}
    /\ PutTB(t, job[t].tb)
    /\ UnLock(t)
    /\ UNCHANGED <<role, plock, sel, cleaning, cleanCh, db, res,
                   collected, counted, late, budget>>

DelayedWriteMutant(t) ==  \* no condition on launch_time
    \E w \in delayed :
       /\ w[1] = t
       /\ delayed' = delayed \ {w}
       /\ UpdateRow(t, w[2])
       /\ UNCHANGED <<role, mem, res, collected, counted, late, budget>>

\* ... WHERE launch_time=0
DelayedWrite(t) ==
    \E w \in delayed :
       /\ w[1] = t
       /\ delayed' = delayed \ {w}
       /\ db' = IF db[t] # None /\ ~db[t].lt THEN [db EXCEPT ![t] = w[2]] ELSE db
       /\ UNCHANGED <<role, mem, res, collected, counted, late, budget>>

\* Nobody looks at the error of the goroutine.
DelayedWriteFail(t) ==
    \E w \in delayed :
       /\ w[1] = t
       /\ Fault("err")
       /\ delayed' = delayed \ {w}
       /\ UNCHANGED <<role, mem, db, res, collected, counted, late, crashes, flaps>>

-----------------------------------------------------------------------------
(* isFinishStarting (tracker.go): LaunchDone answered true. *)

Track(t) ==
    /\ role = "running"
    /\ Cached(t, {"starting"})
    /\ t \in res
    /\ \E tb \in {Ready(tbm[t]), FailWithServerDown(tbm[t])} : Lock(t, "track", "save", tb)
    /\ UNCHANGED <<role, tbm, queue, plock, sel, cleaning, cleanCh, db, delayed, res,
                   collected, counted, late, budget>>

(* A client's heartbeat, and time that passes without one.  The clock is    *)
(* module Keeper's: here a task is silent or not.                           *)

FallSilent(t) ==
    /\ tbm[t] # None
    /\ t \notin silent
    /\ silent' = silent \cup {t}
    /\ UNCHANGED <<role, mem, db, delayed, res, collected, counted, retiring, budget>>

UpdateHeartbeat(t) ==
    /\ role = "running"
    /\ tbm[t] # None
    /\ silent' = silent \ {t}
    /\ UNCHANGED <<role, mem, db, delayed, res, collected, counted, retiring, budget>>

(* checkTaskBasic (keeper.go): a client that does not beat, a staging,      *)
(* starting or init timeout, an engine that finds the task unhealthy.  A    *)
(* task that waits too long for its resources is degraded: it runs with     *)
(* what it has.                                                             *)

Keeping(t, outcomes) ==
    /\ role = "running"
    /\ \E tb \in outcomes : Lock(t, "keep", "save", tb)
    /\ UNCHANGED <<role, tbm, queue, plock, sel, cleaning, cleanCh, db, delayed, res,
                   collected, counted, late, budget>>

KeepClientLost(t) ==
    /\ Cached(t, Live)
    /\ t \in silent
    /\ Keeping(t, {FailWithClient(tbm[t])})

KeepTimeoutMutant(t) ==  \* no init timeout
    /\ Cached(t, {"staging", "starting"})
    /\ Keeping(t, {FailWithServerDown(tbm[t]), Ready(tbm[t])})

KeepTimeout(t) ==
    \/ /\ Cached(t, {"init"})
       /\ Keeping(t, {FailWithServerDown(tbm[t])})
    \/ /\ Cached(t, {"staging", "starting"})
       /\ Keeping(t, {FailWithServerDown(tbm[t]), Ready(tbm[t])})

KeepUnhealthy(t) ==
    /\ Cached(t, Live)
    /\ Keeping(t, {FailWithServerDown(tbm[t])})

Keep(t) == KeepClientLost(t) \/ KeepTimeout(t) \/ KeepUnhealthy(t)

(* releaseTask (manager.go), at the client's request. *)

ReleaseTask(t) ==
    /\ role = "running"
    /\ Cached(t, Live)
    /\ \E tb \in {Finish(tbm[t]), FailWithClient(tbm[t])} : Lock(t, "release", "save", tb)
    /\ UNCHANGED <<role, tbm, queue, plock, sel, cleaning, cleanCh, db, delayed, res,
                   collected, counted, late, budget>>

-----------------------------------------------------------------------------
(* clean (cleaner.go), started by the cleaner's ticker or by a message.    *)

CleanCheckMutant(t) ==  \* every unreleased task is listed
    /\ role = "running"
    /\ tbm[t] # None /\ ~tbm[t].rel
    /\ t \notin cleaning
    /\ cleaning' = cleaning \cup {t}
    /\ UNCHANGED <<role, tbm, queue, job, plock, sel, cleanCh, db, delayed, res,
                   collected, counted, late, budget>>

CleanCheck(t) ==
    /\ role = "running"
    /\ Terminated(t) /\ ~tbm[t].rel
    /\ t \notin cleaning
    /\ cleaning' = cleaning \cup {t}
    /\ UNCHANGED <<role, tbm, queue, job, plock, sel, cleanCh, db, delayed, res,
                   collected, counted, late, budget>>

OnCleanNotify(t) ==
    /\ role = "running"
    /\ t \in cleanCh
    /\ cleanCh' = cleanCh \ {t}
    /\ cleaning' = cleaning \cup {t}
    /\ UNCHANGED <<role, tbm, queue, job, plock, sel, db, delayed, res,
                   collected, counted, late, budget>>

CleanLockMutant(t) ==  \* Released is not looked at again under the lock
    /\ t \in cleaning
    /\ job[t] = None
    /\ IF tbm[t] = None
       THEN cleaning' = cleaning \ {t} /\ UNCHANGED job
       ELSE Lock(t, "clean", "collect", tbm[t]) /\ UNCHANGED cleaning
    /\ UNCHANGED <<role, tbm, queue, plock, sel, cleanCh, db, delayed, res,
                   collected, counted, late, budget>>

CleanLock(t) ==
    /\ t \in cleaning
    /\ job[t] = None
    /\ IF tbm[t] = None \/ tbm[t].rel
       THEN cleaning' = cleaning \ {t} /\ UNCHANGED job
       ELSE Lock(t, "clean", "collect", tbm[t]) /\ UNCHANGED cleaning
    /\ UNCHANGED <<role, tbm, queue, plock, sel, cleanCh, db, delayed, res,
                   collected, counted, late, budget>>

\* CollectTaskData, then UpdateProjectInfoBasic; the errors are logged only.
CleanCollect(t) ==
    /\ At(t, "clean", "collect")
    /\ collected' = [collected EXCEPT ![t] = IF job[t].tb.alive THEN @ + 1 ELSE @]
    /\ \/ NoFault /\ counted' = [counted EXCEPT ![t] = @ + 1]
       \/ Fault("err") /\ UNCHANGED counted
    /\ Continue(t, "free", job[t].tb)
    /\ UNCHANGED <<role, tbm, queue, plock, sel, cleaning, cleanCh, db, delayed, res,
                   late, crashes, flaps>>

\* The engine's ReleaseTask; a resource that does not exist is no error.
CleanFree(t) ==
    /\ At(t, "clean", "free")
    /\ res' = res \ {t}
    /\ Continue(t, "save", ShutDown(job[t].tb))
    /\ UNCHANGED <<role, tbm, queue, plock, sel, cleaning, cleanCh, db, delayed,
                   collected, counted, late, budget>>

CleanFreeFailMutant(t) ==  \* the task is marked released all the same
    /\ At(t, "clean", "free")
    /\ Fault("err")
    /\ Continue(t, "save", ShutDown(job[t].tb))
    /\ UNCHANGED <<role, tbm, queue, plock, sel, cleaning, cleanCh, db, delayed, res,
                   collected, counted, late, crashes, flaps>>

CleanFreeFail(t) ==
    /\ At(t, "clean", "free")
    /\ Fault("err")
    /\ UnLock(t)
    /\ cleaning' = cleaning \ {t}
    /\ UNCHANGED <<role, tbm, queue, plock, sel, cleanCh, db, delayed, res,
                   collected, counted, late, crashes, flaps>>

(* runReleasedTaskCleaner (layer.go), two hours after the release: a list   *)
(* of released tasks, then each of them is removed under its lock.          *)

RetireCheckMutant(t) ==  \* terminated tasks are listed, released or not
    /\ Terminated(t)
    /\ t \notin retiring
    /\ retiring' = retiring \cup {t}
    /\ UNCHANGED <<role, mem, db, delayed, res, collected, counted, silent, budget>>

RetireCheck(t) ==
    /\ Terminated(t) /\ tbm[t].rel
    /\ t \notin retiring
    /\ retiring' = retiring \cup {t}
    /\ UNCHANGED <<role, mem, db, delayed, res, collected, counted, silent, budget>>

RetireTask(t) ==
    /\ t \in retiring
    /\ job[t] = None
    /\ DeleteTB(t)
    /\ retiring' = retiring \ {t}
    /\ UNCHANGED <<role, job, plock, sel, cleaning, cleanCh, db, delayed, res,
                   collected, counted, silent, budget>>

-----------------------------------------------------------------------------
(* Roles (manager.go).  stop() ends the loops of the handlers; a handler   *)
(* that is at work finishes.  start() rebuilds the layer in two steps,     *)
(* refreshQueueGroup and recoverTaskBasics.                                *)

Stop ==
    /\ role = "running"
    /\ flaps < MaxFlap
    /\ flaps' = flaps + 1
    /\ role' = "stopped"
    /\ UNCHANGED <<mem, db, delayed, res, collected, counted, late, faults, crashes>>

RefreshQueueGroup ==
    /\ role = "stopped"
    /\ role' = "recovering"
    /\ queue' = {}
    /\ UNCHANGED <<tbm, job, plock, sel, cleaning, cleanCh, db, delayed, res,
                   collected, counted, late, budget>>

UnreleasedMutant == {t \in Task : db[t] # None /\ db[t].st \in Live}

Unreleased == {t \in Task : db[t] # None /\ ~db[t].rel}

RecoverTaskBasics ==
    /\ role = "recovering"
    /\ role' = "running"
    /\ tbm' = [t \in Task |-> IF t \in Unreleased THEN db[t] ELSE None]
    /\ queue' = queue \cup {t \in Unreleased : db[t].st = "staging"}
    /\ cleanCh' = {}
    /\ UNCHANGED <<job, plock, sel, cleaning, db, delayed, res,
                   collected, counted, late, budget>>

\* The process dies: the database and the resources stay.
Crash ==
    /\ crashes < MaxCrash
    /\ crashes' = crashes + 1
    /\ role' = "stopped"
    /\ tbm' = [t \in Task |-> None]
    /\ job' = [t \in Task |-> None]
    /\ plock' = [p \in Project |-> None]
    /\ sel' = [k \in Picker |-> None]
    /\ queue' = {} /\ delayed' = {} /\ cleaning' = {} /\ cleanCh' = {}
    /\ retiring' = {}
    /\ UNCHANGED <<db, res, collected, counted, silent, faults, flaps>>

\* All identifiers are used up: the server is idle.
Terminating ==
    /\ role = "running"
    /\ \A t \in Task : db[t] # None /\ db[t].rel /\ tbm[t] = None
    /\ UNCHANGED vars

-----------------------------------------------------------------------------
Creating(t) == CreateInsert(t) \/ CreateRow(t) \/ CreateExtension(t)
Picking(t)  == PickLaunch(t) \/ PickLaunchFail(t) \/ PickStore(t)
Cleaning(t) == CleanLock(t) \/ CleanCollect(t) \/ CleanFree(t)
Faulty(t)   == \/ CreateRowFail(t) \/ CreateExtensionFail(t) \/ SaveFail(t)
               \/ DelayedWriteFail(t) \/ CleanFreeFail(t)

TaskNext(t) ==
    \/ CreateLock(t) \/ Creating(t) \/ Save(t)
    \/ Picking(t) \/ DelayedWrite(t) \/ Track(t) \/ Keep(t) \/ ReleaseTask(t)
    \/ FallSilent(t) \/ UpdateHeartbeat(t)
    \/ CleanCheck(t) \/ OnCleanNotify(t) \/ Cleaning(t)
    \/ RetireCheck(t) \/ RetireTask(t)
    \/ Faulty(t)

Next ==
    \/ \E t \in Task : TaskNext(t)
    \/ \E k \in Picker : PickSelect(k) \/ PickLock(k)
    \/ Stop \/ RefreshQueueGroup \/ RecoverTaskBasics \/ Crash
    \/ Terminating

Spec == Init /\ [][Next]_vars

-----------------------------------------------------------------------------
(* Fairness.  A goroutine that can run does; the cleaner's and the         *)
(* keeper's tickers fire; a timeout the keeper waits for comes, but no     *)
(* client falls silent and no engine finds a task unhealthy because it     *)
(* must.  The keeper contends with the pickers for the task lock:          *)
(* sync.Mutex does not starve a waiter, hence strong fairness.  A server   *)
(* that lost the role, or was restarted, is started again.  No client is   *)
(* assumed to release its task, no launch to succeed.                      *)

Fairness ==
    /\ \A t \in Task :
         /\ WF_vars(Creating(t)) /\ WF_vars(Save(t)) /\ WF_vars(Picking(t))
         /\ WF_vars(DelayedWrite(t))
         /\ SF_vars(KeepClientLost(t)) /\ SF_vars(KeepTimeout(t))
         /\ WF_vars(CleanCheck(t)) /\ WF_vars(Cleaning(t))
    /\ WF_vars(RefreshQueueGroup) /\ WF_vars(RecoverTaskBasics)

FairSpec == Spec /\ Fairness

-----------------------------------------------------------------------------
(* Properties. *)

\* Every variable has the shape the code gives it: at most one handler per
\* task lock, at most one creation per project lock.
TypeOK ==
    /\ role \in {"stopped", "recovering", "running"}
    /\ tbm \in [Task -> TB \cup {None}]
    /\ db \in [Task -> TB \cup {None}]
    /\ job \in [Task -> [op: Op, pc: Pc, tb: TB] \cup {None}]
    /\ plock \in [Project -> Task \cup {None}]
    /\ sel \in [Picker -> Task \cup {None}]
    /\ delayed \subseteq Task \X TB
    /\ queue \subseteq Task /\ res \subseteq Task
    /\ cleaning \subseteq Task /\ cleanCh \subseteq Task
    /\ silent \subseteq Task /\ retiring \subseteq Task
    /\ collected \in [Task -> Nat] /\ counted \in [Task -> Nat]
    /\ faults \in Nat /\ crashes \in Nat /\ flaps \in Nat

\* putTB, DeleteTB and recover keep the staging queue and the cache in step:
\* once recovered, a task waits in the queue if and only if its cached status
\* is staging, so no staging task is forgotten and none is launched twice.
QueueMatchesCache ==
    role = "running" => queue = {t \in Task : Cached(t, {"staging"})}

\* invalidConcurrency and InsertTB run under the project lock: a project never
\* has more unterminated tasks in the cache than its concurrency limit, however
\* its creations interleave.
ConcurrencyRespected ==
    \A p \in Project : Cardinality(Unterminated(p)) <= Limit(p)

\* The cleaner marks a task released only after the engine gave its resources
\* back, and nothing is launched for it afterwards: a row or a cached task that
\* is released holds no resource, over crashes and changes of role too.
ReleasedHoldsNothing ==
    \A t \in Task :
      (tbm[t] # None /\ tbm[t].rel) \/ (db[t] # None /\ db[t].rel) => t \notin res

\* Resources are never held for a task nobody will release: while the server
\* is running, the task is in the cache, where keeper and cleaner find it.
ResourcesAreTracked ==
    role = "running" => \A t \in res : tbm[t] # None

\* A row that was created and is not released is in the cache of a running
\* server, also after a crash in the middle of createTask.
NoOrphanRow ==
    role = "running" => \A t \in Unreleased : tbm[t] # None

\* The cache may only be ahead of the database by the delayed write of pick:
\* what the client was told of a task survives a crash, except that a starting
\* task may be found staging again.
CacheIsDurable ==
    \A t \in Task : db[t] # None /\ tbm[t] # None =>
        \/ tbm[t] = db[t]
        \/ tbm[t].st = "starting" /\ db[t].st = "staging"

\* A task the database says is over stays over: no late or delayed write of a
\* handler brings a finished, failed or released row back to life
\* (the launch_time=0 condition of pick's write).
RowStaysTerminated ==
    [][\A t \in Task : (db[t] # None /\ db[t].st \in Terminal) =>
          db'[t].st = db[t].st /\ (db[t].rel => db'[t].rel)]_vars

\* clean takes the resources only from a task whose status is terminated at
\* that moment: a task that is starting or running never loses its workers.
OnlyTerminatedFreed ==
    [][\A t \in res \ res' : Cached(t, Terminal)]_vars

\* The cleaner counts a task into its project's statistics once, whatever the
\* ticker, the notification and the handlers that wait for the lock do: a task
\* counted again, or not at all, takes a call that failed or a crash.
CountedOnce ==
    \A t \in Task :
      /\ counted[t] <= 1 + faults + crashes
      /\ collected[t] <= 1 + faults + crashes
      /\ (db[t] # None /\ db[t].rel) => counted[t] + faults >= 1

\* A task that was created is released in the end and its resources are given
\* back, whatever the engine and the database do, if its client does not beat
\* for ever while it runs: the keeper fails no running task whose client beats.
\* (Unless the server loses its role, whose tasks are then another server's.  A
\* row that was written although the write failed is not in the cache: only the
\* next start finds it.)
EveryTaskReleased ==
    \A t \in Task :
      <>[](t \in silent \/ ~Cached(t, {"running"})) =>
        ((db[t] # None /\ tbm[t] # None)
           ~> (flaps > 0 \/ (db[t] # None /\ db[t].rel /\ t \notin res)))
=============================================================================
