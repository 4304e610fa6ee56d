----------------------------- MODULE Selector -----------------------------
(***************************************************************************)
(* The selector of the TBS server (normal/selector.go): one picker         *)
(* goroutine per staging queue, woken by a notification of createTask or   *)
(* by its ticker; queues of the configuration get their picker from        *)
(* start(), any other queue when its first task shows up, in               *)
(* OnTaskStatus or in the ticker of checkNewQueue.                         *)
(*                                                                         *)
(* The manager starts and stops the selector with the role of the server.  *)
(* The goroutines look at s.ctx, which Run replaces, and the map of the    *)
(* channels outlives a term.  What pick does to a task is module           *)
(* TaskManager's: here a task is staging, launched or gone.                *)
(***************************************************************************)
EXTENDS Naturals, FiniteSets

CONSTANTS
    Task,
    Queue,       \* Engine and queue names (engine.QueueBriefInfo)
    QueueOf,     \* The queue of each task
    Configured,  \* queueInfoList
    Picker,      \* Bound on the picker goroutines, and their channels, ever made
    Cap,         \* Capacity of a channel: 100
    MaxTerm,     \* Bound on the terms of this process as master
    MaxTask,     \* Bound on the tasks a behaviour has; any of Task
    None

ASSUME SelectorAssumption ==
    /\ QueueOf \in [Task -> Queue]
    /\ Configured \subseteq Queue
    /\ Cap \in Nat \ {0} /\ MaxTerm \in Nat \ {0} /\ MaxTask \in Nat
    /\ None \notin Queue \cup Picker \cup Task

VARIABLES
    term,     \* Terms begun
    up,       \* manager.running: the context of `term' is not cancelled
    ctx,      \* The term whose context is s.ctx, 0 before the first Run
    loop,     \* The goroutine of Run and start() of each term
    chanMap,  \* queueChanMap: the picker that reads the channel of a queue
    picker,   \* The picker goroutines
    chan,     \* Notifications in the channel of each picker
    left,     \* What the queues of each term held when the next one replaced them
    status,   \* "none", "staging", "launched" or "gone"
    creator   \* Where createTask is with a task, the picker it sends to

vars == <<term, up, ctx, loop, chanMap, picker, chan, left, status, creator>>

\* A picker begins as soon as it is made; the queues of the term are its own for
\* all its life.
NewPickerOf(q) == [pc |-> "idle", queue |-> q, task |-> None, group |-> term]
NoPicker == [pc |-> "none", queue |-> None, task |-> None, group |-> 0]
Idle(rec) == [rec EXCEPT !.pc = "idle", !.task = None]

CtxDone == ctx # 0 /\ (ctx # term \/ ~up)
Staging(q) == {t \in Task : QueueOf[t] = q /\ status[t] = "staging"}
Tasks == {t \in Task : status[t] # "none"}
Alive(p) == picker[p].pc \in {"idle", "lock", "launch"}

\* The goroutines made next, one for each queue of Q; which names they get
\* makes no difference.
Unused == {p \in Picker : picker[p].pc = "none"}
Fresh(Q) == CHOOSE f \in [Q -> Unused] : \A q, r \in Q : f[q] = f[r] => q = r
Started(Q) ==
    [p \in Picker |-> IF \E q \in Q : Fresh(Q)[q] = p
                      THEN NewPickerOf(CHOOSE q \in Q : Fresh(Q)[q] = p) ELSE picker[p]]
Room(Q) == Cardinality(Q) <= Cardinality(Unused)

\* createTask notifies before it unlocks the task; pick locks it.
Creating(t) == creator[t] \notin {"none", "done"}
Locked(t) == \/ Creating(t)
             \/ \E p \in Picker : picker[p].pc = "launch" /\ picker[p].task = t

Init ==
    /\ term = 0 /\ up = FALSE /\ ctx = 0
    /\ loop = [k \in 1..MaxTerm |-> "none"]
    /\ chanMap = [q \in Queue |-> None]
    /\ picker = [p \in Picker |-> NoPicker]
    /\ chan = [p \in Picker |-> 0]
    /\ left = [k \in 1..MaxTerm |-> {}]
    /\ status \in [Task -> {"none", "staging"}]  \* recovered from the database
    /\ Cardinality(Tasks) <= MaxTask
    /\ creator = [t \in Task |-> "none"]

-----------------------------------------------------------------------------
(* The role of the server (manager.go). *)

\* What the queues of the term still hold for the pickers that took them.
Kept == {t \in Task : /\ status[t] = "staging"
                      /\ \E p \in Picker : /\ Alive(p) /\ picker[p].group = term
                                           /\ picker[p].queue = QueueOf[t]}

\* Recover makes new queues, of the tasks that are staging.
Start ==
    /\ ~up /\ term < MaxTerm
    /\ term' = term + 1
    /\ up' = TRUE
    /\ loop' = [loop EXCEPT ![term'] = "run"]
    /\ left' = [k \in 1..MaxTerm |-> IF k = term THEN Kept ELSE left[k]]
    /\ UNCHANGED <<ctx, chanMap, picker, chan, status, creator>>

Stop ==
    /\ up
    /\ term < MaxTerm  \* the last term of a behaviour stays
    /\ up' = FALSE
    /\ UNCHANGED <<left, term, ctx, loop, chanMap, picker, chan, status, creator>>

Run(k) ==
    /\ loop[k] = "run"
    /\ ctx' = term  \* m.ctx is read when the goroutine runs
    /\ loop' = [loop EXCEPT ![k] = "init"]
    /\ UNCHANGED <<left, term, up, chanMap, picker, chan, status, creator>>

-----------------------------------------------------------------------------
(* start(), checkNewQueue, OnTaskStatus and onNewQueue. *)

\* Every configured queue gets a new channel and a new picker, those of the
\* map as well; the other queues of the map keep their channel.
StartPickers(k) ==
    /\ loop[k] = "init"
    /\ Room(Configured)
    /\ chanMap' = [q \in Queue |->
         IF q \in Configured THEN Fresh(Configured)[q] ELSE chanMap[q]]
    /\ picker' = Started(Configured)
    /\ loop' = [loop EXCEPT ![k] = "idle"]
    /\ UNCHANGED <<left, term, up, ctx, chan, status, creator>>

LoopExit(k) ==
    /\ loop[k] = "idle"
    /\ CtxDone
    /\ loop' = [loop EXCEPT ![k] = "exit"]
    /\ UNCHANGED <<left, term, up, ctx, chanMap, picker, chan, status, creator>>

\* A new channel and picker for queue q; another one may have been made since
\* the caller looked at the map.
NewPicker(q) ==
    /\ Room({q})
    /\ chanMap' = [chanMap EXCEPT ![q] = Fresh({q})[q]]
    /\ picker' = Started({q})

CheckNewQueueMutant(k, q) ==  \* one queue of the configuration only
    /\ loop[k] = "idle"
    /\ Staging(q) # {}
    /\ chanMap[q] = None /\ q \in Configured
    /\ loop' = [loop EXCEPT ![k] = q]
    /\ UNCHANGED <<left, term, up, ctx, chanMap, picker, chan, status, creator>>

CheckNewQueue(k, q) ==
    /\ loop[k] = "idle"
    /\ Staging(q) # {}
    /\ chanMap[q] = None
    /\ loop' = [loop EXCEPT ![k] = q]
    /\ UNCHANGED <<left, term, up, ctx, chanMap, picker, chan, status, creator>>

CheckNotify(k) ==
    /\ loop[k] \in Queue
    /\ NewPicker(loop[k])
    /\ chan' = [chan EXCEPT ![chanMap'[loop[k]]] = 1]
    /\ loop' = [loop EXCEPT ![k] = "idle"]
    /\ UNCHANGED <<left, term, up, ctx, status, creator>>

\* createTask has stored the task as staging and holds its lock.
CreateTask(t) ==
    /\ up /\ status[t] = "none"
    /\ Cardinality(Tasks) < MaxTask
    /\ status' = [status EXCEPT ![t] = "staging"]
    /\ creator' = [creator EXCEPT ![t] = "notify"]
    /\ UNCHANGED <<left, term, up, ctx, loop, chanMap, picker, chan>>

OnTaskStatus(t) ==
    /\ creator[t] = "notify"
    /\ LET p == chanMap[QueueOf[t]]
       IN  creator' = [creator EXCEPT ![t] = IF p = None THEN "new" ELSE p]
    /\ UNCHANGED <<left, term, up, ctx, loop, chanMap, picker, chan, status>>

OnNewQueue(t) ==
    /\ creator[t] = "new"
    /\ NewPicker(QueueOf[t])
    /\ creator' = [creator EXCEPT ![t] = chanMap'[QueueOf[t]]]
    /\ UNCHANGED <<left, term, up, ctx, loop, chan, status>>

NotifyMutant(t) ==  \* a channel without a buffer
    /\ creator[t] \in Picker
    /\ picker[creator[t]].pc = "idle" /\ chan[creator[t]] = 0
    /\ chan' = [chan EXCEPT ![creator[t]] = 1]
    /\ creator' = [creator EXCEPT ![t] = "done"]
    /\ UNCHANGED <<left, term, up, ctx, loop, chanMap, picker, status>>

\* The send blocks while the channel is full.
Notify(t) ==
    /\ creator[t] \in Picker
    /\ chan[creator[t]] < Cap
    /\ chan' = [chan EXCEPT ![creator[t]] = @ + 1]
    /\ creator' = [creator EXCEPT ![t] = "done"]
    /\ UNCHANGED <<left, term, up, ctx, loop, chanMap, picker, status>>

-----------------------------------------------------------------------------
(* picker and pick. *)

PickerExit(p) ==
    /\ picker[p].pc = "idle"
    /\ CtxDone
    /\ picker' = [picker EXCEPT ![p] = [NoPicker EXCEPT !.pc = "exit"]]
    /\ UNCHANGED <<left, term, up, ctx, loop, chanMap, chan, status, creator>>

\* Before the first Run s.ctx is nil: a picker that OnTaskStatus made by then
\* panics in its select, and the process is started again.
PickerPanic(p) ==
    /\ picker[p].pc = "idle"
    /\ ctx = 0
    /\ term' = 0 /\ up' = FALSE
    /\ loop' = [k \in 1..MaxTerm |-> "none"]
    /\ chanMap' = [q \in Queue |-> None]
    /\ picker' = [r \in Picker |-> NoPicker]
    /\ chan' = [r \in Picker |-> 0]
    /\ left' = [k \in 1..MaxTerm |-> {}]
    /\ creator' = [t \in Task |-> IF creator[t] = "none" THEN "none" ELSE "done"]
    /\ UNCHANGED <<ctx, status>>

\* The queues a picker took are replaced by the next term, but not for it.
InQueue(p) ==
    IF picker[p].group = term THEN Staging(picker[p].queue)
    ELSE {t \in left[picker[p].group] : QueueOf[t] = picker[p].queue}

\* A notification or the ticker; the order of the queue is StagingQueue's.
Wake(p) ==
    /\ picker[p].pc = "idle" /\ ctx # 0
    /\ LET tasks == InQueue(p)
       IN  /\ chan[p] > 0 \/ tasks # {}
           /\ IF tasks = {} THEN UNCHANGED picker
              ELSE \E t \in tasks :
                     picker' = [picker EXCEPT ![p].pc = "lock", ![p].task = t]
    /\ \/ chan[p] > 0 /\ chan' = [chan EXCEPT ![p] = @ - 1]
       \/ UNCHANGED chan
    /\ UNCHANGED <<left, term, up, ctx, loop, chanMap, status, creator>>

LockTask(p) ==
    /\ picker[p].pc = "lock"
    /\ ~Locked(picker[p].task)
    /\ picker' = [picker EXCEPT ![p] =
         IF status[@.task] = "staging" THEN [@ EXCEPT !.pc = "launch"] ELSE Idle(@)]
    /\ UNCHANGED <<left, term, up, ctx, loop, chanMap, chan, status, creator>>

LaunchTask(p) ==
    /\ picker[p].pc = "launch"
    /\ \E s \in {"staging", "launched"} : status' = [status EXCEPT ![picker[p].task] = s]
    /\ picker' = [picker EXCEPT ![p] = Idle(@)]
    /\ UNCHANGED <<left, term, up, ctx, loop, chanMap, chan, creator>>

\* Released by its client, or failed by the keeper.
Leave(t) ==
    /\ status[t] = "staging" /\ ~Locked(t)
    /\ status' = [status EXCEPT ![t] = "gone"]
    /\ UNCHANGED <<left, term, up, ctx, loop, chanMap, picker, chan, creator>>

-----------------------------------------------------------------------------
Next ==
    \/ Start \/ Stop
    \/ \E k \in 1..MaxTerm :
         \/ Run(k) \/ StartPickers(k) \/ LoopExit(k) \/ CheckNotify(k)
         \/ \E q \in Queue : CheckNewQueue(k, q)
    \/ \E t \in Task :
         CreateTask(t) \/ OnTaskStatus(t) \/ OnNewQueue(t) \/ Notify(t) \/ Leave(t)
    \/ \E p \in Picker :
         PickerExit(p) \/ PickerPanic(p) \/ Wake(p) \/ LockTask(p) \/ LaunchTask(p)

Spec == Init /\ [][Next]_vars

\* Goroutines run and tickers fire.  A picker contends for the task lock with
\* the creator and with other pickers: sync.Mutex does not starve a waiter.
\* checkNewQueue looks at every staging task, whatever it does for the first.
FairSpec ==
    /\ Spec
    /\ \A k \in 1..MaxTerm :
         /\ WF_vars(Run(k)) /\ WF_vars(StartPickers(k)) /\ WF_vars(CheckNotify(k))
         /\ \A q \in Queue : SF_vars(CheckNewQueue(k, q))
    /\ \A t \in Task :
         WF_vars(OnTaskStatus(t)) /\ WF_vars(OnNewQueue(t)) /\ WF_vars(Notify(t))
    /\ \A p \in Picker :
         WF_vars(Wake(p)) /\ SF_vars(LockTask(p)) /\ WF_vars(LaunchTask(p))

-----------------------------------------------------------------------------
(* Properties. *)

\* The variables keep their shape; no channel holds more than Cap.
TypeOK ==
    /\ term \in 0..MaxTerm /\ up \in BOOLEAN /\ ctx \in 0..term
    /\ loop \in [1..MaxTerm -> {"none", "run", "init", "idle", "exit"} \cup Queue]
    /\ chanMap \in [Queue -> Picker \cup {None}]
    /\ picker \in [Picker -> [pc: {"none", "idle", "lock", "launch", "exit"},
                              queue: Queue \cup {None}, task: Task \cup {None},
                              group: 0..MaxTerm]]
    /\ left \in [1..MaxTerm -> SUBSET Task]
    /\ chan \in [Picker -> 0..Cap]
    /\ status \in [Task -> {"none", "staging", "launched", "gone"}]
    /\ creator \in [Task -> {"none", "notify", "new", "done"} \cup Picker]

\* onNewQueue and createTask: no task is created for a queue whose creator waits
\* for ever, with the task lock, to put its notification into the channel.
CreationEnds == \A t \in Task : Creating(t) ~> creator[t] = "done"

Picked(q) == \E p \in Picker : picker[p].pc = "launch" /\ picker[p].queue = q

\* A queue with staging tasks gets a launch attempted while the server is
\* master: any queue in the first term, however its tasks came to be, and a
\* configured one in every term.  (A queue learned in an earlier term is not:
\* checkNewQueue takes what queueChanMap kept for a picker, selector.go:261.)
QueuePicked ==
    \A q \in Queue :
      (up /\ Staging(q) # {} /\ (term = 1 \/ q \in Configured)) ~>
        (Picked(q) \/ ~up \/ Staging(q) = {})
=============================================================================
