------------------------ MODULE TaskManager_proofs ------------------------
(***************************************************************************)
(* TypeCorrect, and the three agreements of TaskManager for every number   *)
(* of tasks, projects and pickers, every kind and number of failing calls, *)
(* crashes and changes of role: the parts of IInv, then one lemma per      *)
(* handler that its steps preserve IInv, then the theorems.  The second    *)
(* half does the same with CalmInv, for what holds while a server keeps    *)
(* its role and a failing call has no effect.                              *)
(***************************************************************************)
EXTENDS TaskManagerInv, FiniteSetTheorems, TLAPS

Held == [op: Op, pc: Pc, tb: TB]

\* The updates of engine/task.go yield task basics.
LEMMA UpdatesAreTyped ==
    ASSUME NEW tb \in TB
    PROVE  /\ InitTB \in TB /\ Create(tb) \in TB /\ Launch(tb) \in TB /\ Ready(tb) \in TB
           /\ ShutDown(tb) \in TB /\ Finish(tb) \in TB
           /\ FailWithServerDown(tb) \in TB /\ FailWithClient(tb) \in TB
<1> USE DEF TB, Live, Terminal
<1>1. InitTB \in TB
  BY DEF InitTB
<1>2. Create(tb) \in TB /\ Launch(tb) \in TB /\ Ready(tb) \in TB /\ Finish(tb) \in TB
  BY DEF Create, Launch, Ready, Finish
<1>3. ShutDown(tb) \in TB /\ FailWithServerDown(tb) \in TB
  BY DEF ShutDown, FailWithServerDown
<1>4. FailWithClient(tb) \in TB
  <2> DEFINE wasUp == tb.st \in {"starting", "running"}
  <2>1. wasUp = TRUE \/ wasUp = FALSE
    OBVIOUS
  <2> HIDE DEF wasUp
  <2>2. [tb EXCEPT !.st = "failed", !.alive = wasUp] \in TB
    BY <2>1
  <2> QED  BY <2>2 DEF FailWithClient, wasUp
<1> QED  BY <1>1, <1>2, <1>3, <1>4

\* A handler that takes a lock, or goes on under it, leaves job well typed.
LEMMA HoldIsTyped ==
    ASSUME TypeOK, NEW t \in Task, NEW op \in Op, NEW pc \in Pc, NEW tb \in TB
    PROVE  [job EXCEPT ![t] = Hold(op, pc, tb)] \in [Task -> Held \cup {None}]
<1>1. Hold(op, pc, tb) \in Held
  BY DEF Hold, Held
<1> QED  BY <1>1 DEF TypeOK, Held

\* The copy of the task a handler works on is a task basic.
LEMMA HeldIsTyped ==
    ASSUME TypeOK, NEW t \in Task, job[t] # None
    PROVE  job[t].op \in Op /\ job[t].pc \in Pc /\ job[t].tb \in TB
BY DEF TypeOK

\* What the keeper may do with a task, for whichever of its reasons.
KeeperOutcome(tb) == {FailWithClient(tb), FailWithServerDown(tb), Ready(tb)}

LEMMA KeepIsOutcome ==
    ASSUME NEW t \in Task, Keep(t)
    PROVE  /\ role = "running" /\ Cached(t, Live) /\ job[t] = None
           /\ \E tb \in KeeperOutcome(tbm[t]) : Lock(t, "keep", "save", tb)
           /\ UNCHANGED <<role, tbm, queue, plock, sel, cleaning, cleanCh, db, delayed, res,
                          collected, counted, late, budget>>
<1>1. CASE KeepClientLost(t)
  BY <1>1 DEF KeepClientLost, Keeping, KeeperOutcome, Lock
<1>2. CASE KeepTimeout(t)
  BY <1>2 DEF KeepTimeout, Keeping, KeeperOutcome, Lock, Cached, Live
<1>3. CASE KeepUnhealthy(t)
  BY <1>3 DEF KeepUnhealthy, Keeping, KeeperOutcome, Lock
<1> QED  BY <1>1, <1>2, <1>3 DEF Keep

\* Time and heartbeats, and the list of the retirement loop.
Watching(t) == FallSilent(t) \/ UpdateHeartbeat(t) \/ RetireCheck(t)

LEMMA CreateTyped ==
    ASSUME TypeOK, NEW t \in Task,
           CreateLock(t) \/ Creating(t) \/ CreateRowFail(t) \/ CreateExtensionFail(t)
    PROVE  TypeOK'
<1> USE ConstantsAssumption DEF TypeOK, late
<1>0. InitTB \in TB /\ "create" \in Op /\ {"insert", "row", "extend", "save"} \subseteq Pc
  BY DEF Op, Pc, InitTB, TB, Live
<1>1. CASE CreateLock(t)
  <2>1. job' \in [Task -> Held \cup {None}]
    BY <1>0, <1>1, HoldIsTyped DEF CreateLock, Lock
  <2>2. plock' \in [Project -> Task \cup {None}]
    BY <1>1 DEF CreateLock
  <2> QED  BY <1>1, <2>1, <2>2 DEF CreateLock, budget, Held
<1>2. CASE CreateInsert(t)
  <2>1. job' \in [Task -> Held \cup {None}]
    BY <1>0, <1>2, HoldIsTyped, HeldIsTyped DEF CreateInsert, At, Continue
  <2>2. tbm' \in [Task -> TB \cup {None}] /\ plock' \in [Project -> Task \cup {None}]
    BY <1>0, <1>2 DEF CreateInsert
  <2> QED  BY <1>2, <2>1, <2>2 DEF CreateInsert, budget, Held
<1>3. CASE CreateRow(t)
  <2>1. job' \in [Task -> Held \cup {None}]
    BY <1>0, <1>3, HoldIsTyped, HeldIsTyped DEF CreateRow, At, Continue
  <2>2. db' \in [Task -> TB \cup {None}]
    BY <1>0, <1>3 DEF CreateRow
  <2> QED  BY <1>3, <2>1, <2>2 DEF CreateRow, budget, Held
<1>4. CASE CreateExtension(t)
  <2>1. Create(job[t].tb) \in TB
    BY <1>4, HeldIsTyped, UpdatesAreTyped DEF CreateExtension, At
  <2>2. job' \in [Task -> Held \cup {None}]
    BY <1>0, <1>4, <2>1, HoldIsTyped, HeldIsTyped DEF CreateExtension, At, Continue
  <2> QED  BY <1>4, <2>2 DEF CreateExtension, budget, Held
<1>5. CASE CreateRowFail(t)
  <2>1. db' \in [Task -> TB \cup {None}]
    BY <1>0, <1>5 DEF CreateRowFail
  <2>2. tbm' \in [Task -> TB \cup {None}] /\ job' \in [Task -> Held \cup {None}]
    BY <1>5 DEF CreateRowFail, DeleteTB, UnLock, Held
  <2>3. queue' \subseteq Task /\ faults' \in Nat
    BY <1>5 DEF CreateRowFail, DeleteTB, Fault
  <2> QED  BY <1>5, <2>1, <2>2, <2>3 DEF CreateRowFail, Held
<1>6. CASE CreateExtensionFail(t)
  BY <1>6 DEF CreateExtensionFail, Fault, UnLock
<1> QED  BY <1>1, <1>2, <1>3, <1>4, <1>5, <1>6 DEF Creating

LEMMA SaveTyped ==
    ASSUME TypeOK, NEW t \in Task, Save(t) \/ SaveFail(t)
    PROVE  TypeOK'
<1> USE DEF TypeOK, late
<1>1. job[t].tb \in TB
  BY HeldIsTyped DEF Save, SaveFail, Saving
<1>2. db' \in [Task -> TB \cup {None}]
  BY <1>1 DEF Save, SaveFail, UpdateRow
<1>3. CASE Save(t)
  <2>1. tbm' \in [Task -> TB \cup {None}] /\ queue' \subseteq Task
    BY <1>1, <1>3 DEF Save, PutTB
  <2>2. job' \in [Task -> Held \cup {None}] /\ cleaning' \subseteq Task
    BY <1>3 DEF Save, EndSave, UnLock, Held
  <2>3. cleanCh' \subseteq Task
    BY <1>3 DEF Save
  <2> QED  BY <1>2, <1>3, <2>1, <2>2, <2>3 DEF Save, budget, Held
<1>4. CASE SaveFail(t)
  BY <1>2, <1>4 DEF SaveFail, EndSave, UnLock, Fault
<1> QED  BY <1>3, <1>4

LEMMA PickTyped ==
    ASSUME TypeOK, NEW t \in Task, Picking(t) \/ DelayedWrite(t) \/ DelayedWriteFail(t)
    PROVE  TypeOK'
<1> USE DEF TypeOK, late
<1>1. CASE PickLaunch(t)
  <2>1. Launch(job[t].tb) \in TB /\ "store" \in Pc
    BY <1>1, HeldIsTyped, UpdatesAreTyped DEF PickLaunch, At, Pc
  <2>2. job' \in [Task -> Held \cup {None}]
    BY <1>1, <2>1, HoldIsTyped, HeldIsTyped DEF PickLaunch, At, Continue
  <2> QED  BY <1>1, <2>2 DEF PickLaunch, budget, Held
<1>2. CASE PickLaunchFail(t)
  BY <1>2 DEF PickLaunchFail, UnLock, budget
<1>3. CASE PickStore(t)
  <2>1. job[t].tb \in TB
    BY <1>3, HeldIsTyped DEF PickStore, At
  <2>2. tbm' \in [Task -> TB \cup {None}] /\ queue' \subseteq Task
    BY <1>3, <2>1 DEF PickStore, PutTB
  <2>3. delayed' \subseteq Task \X TB
    BY <1>3, <2>1 DEF PickStore
  <2>4. job' \in [Task -> Held \cup {None}]
    BY <1>3 DEF PickStore, UnLock, Held
  <2> QED  BY <1>3, <2>2, <2>3, <2>4 DEF PickStore, budget, Held
<1>4. CASE DelayedWrite(t)
  BY <1>4 DEF DelayedWrite, mem, budget
<1>5. CASE DelayedWriteFail(t)
  BY <1>5 DEF DelayedWriteFail, Fault, mem
<1> QED  BY <1>1, <1>2, <1>3, <1>4, <1>5 DEF Picking

LEMMA SelectTyped ==
    ASSUME TypeOK, NEW k \in Picker, PickSelect(k) \/ PickLock(k)
    PROVE  TypeOK'
<1> USE DEF TypeOK, late
<1>1. CASE PickSelect(k)
  BY <1>1 DEF PickSelect, budget
<1>2. CASE PickLock(k)
  <2>1. "pick" \in Op /\ "launch" \in Pc
    BY DEF Op, Pc
  <2>2. job' \in [Task -> Held \cup {None}]
    BY <1>2, <2>1, HoldIsTyped DEF PickLock, Lock, Cached, Held
  <2> QED  BY <1>2, <2>2 DEF PickLock, budget, Held
<1> QED  BY <1>1, <1>2

LEMMA SupervisionTyped ==
    ASSUME TypeOK, NEW t \in Task, Track(t) \/ Keep(t) \/ ReleaseTask(t)
    PROVE  TypeOK'
<1> USE DEF TypeOK, late
<1>1. tbm[t] \in TB /\ "save" \in Pc /\ {"track", "keep", "release"} \subseteq Op
  BY KeepIsOutcome DEF Track, ReleaseTask, Cached, Op, Pc
<1>2. PICK op \in Op, tb \in TB : Lock(t, op, "save", tb)
  <2>1. CASE Track(t)
    BY <1>1, <2>1, UpdatesAreTyped DEF Track
  <2>2. CASE Keep(t)
    <3>1. KeeperOutcome(tbm[t]) \subseteq TB
      BY <1>1, UpdatesAreTyped DEF KeeperOutcome
    <3> QED  BY <1>1, <2>2, <3>1, KeepIsOutcome
  <2>3. CASE ReleaseTask(t)
    BY <1>1, <2>3, UpdatesAreTyped DEF ReleaseTask
  <2> QED  BY <2>1, <2>2, <2>3
<1>3. job' \in [Task -> Held \cup {None}]
  BY <1>1, <1>2, HoldIsTyped DEF Lock
<1> QED  BY <1>3, KeepIsOutcome DEF Track, ReleaseTask, late, budget, Held

LEMMA CleanTyped ==
    ASSUME TypeOK, NEW t \in Task,
           \/ CleanCheck(t) \/ OnCleanNotify(t) \/ Cleaning(t)
           \/ CleanFreeFail(t) \/ RetireTask(t) \/ Watching(t)
    PROVE  TypeOK'
<1> USE DEF TypeOK, late
<1>0. "clean" \in Op /\ {"collect", "free", "save"} \subseteq Pc
  BY DEF Op, Pc
<1>1. CASE CleanCheck(t)
  BY <1>1 DEF CleanCheck, budget
<1>2. CASE OnCleanNotify(t)
  BY <1>2 DEF OnCleanNotify, budget
<1>3. CASE CleanLock(t)
  <2>1. job' \in [Task -> Held \cup {None}]
    BY <1>0, <1>3, HoldIsTyped DEF CleanLock, Lock, Held
  <2> QED  BY <1>3, <2>1 DEF CleanLock, budget, Held
<1>4. CASE CleanCollect(t)
  <2>1. job' \in [Task -> Held \cup {None}]
    BY <1>0, <1>4, HoldIsTyped, HeldIsTyped DEF CleanCollect, At, Continue
  <2>2. collected' \in [Task -> Nat] /\ counted' \in [Task -> Nat]
    BY <1>4 DEF CleanCollect
  <2> QED  BY <1>4, <2>1, <2>2 DEF CleanCollect, Fault, NoFault, Held
<1>5. CASE CleanFree(t)
  <2>1. ShutDown(job[t].tb) \in TB
    BY <1>5, HeldIsTyped, UpdatesAreTyped DEF CleanFree, At
  <2>2. job' \in [Task -> Held \cup {None}]
    BY <1>0, <1>5, <2>1, HoldIsTyped, HeldIsTyped DEF CleanFree, At, Continue
  <2> QED  BY <1>5, <2>2 DEF CleanFree, budget, Held
<1>6. CASE CleanFreeFail(t)
  BY <1>6 DEF CleanFreeFail, Fault, UnLock
<1>7. CASE RetireTask(t)
  BY <1>7 DEF RetireTask, DeleteTB, budget
<1>8. CASE Watching(t)
  BY <1>8 DEF Watching, FallSilent, UpdateHeartbeat, RetireCheck, mem, budget
<1> QED  BY <1>1, <1>2, <1>3, <1>4, <1>5, <1>6, <1>7, <1>8 DEF Cleaning

LEMMA RoleTyped ==
    ASSUME TypeOK, Stop \/ RefreshQueueGroup \/ RecoverTaskBasics \/ Crash
    PROVE  TypeOK'
<1> USE ConstantsAssumption DEF TypeOK, late
<1>1. CASE Stop
  BY <1>1 DEF Stop, mem
<1>2. CASE RefreshQueueGroup
  BY <1>2 DEF RefreshQueueGroup, budget
<1>3. CASE RecoverTaskBasics
  BY <1>3 DEF RecoverTaskBasics, Unreleased, budget
<1>4. CASE Crash
  BY <1>4 DEF Crash
<1> QED  BY <1>1, <1>2, <1>3, <1>4

\* Every variable keeps the shape the code gives it: at most one handler
\* holds the lock of a task, whatever is interleaved, crashes or fails.
THEOREM TypeCorrect == Spec => []TypeOK
<1>1. Init => TypeOK
  BY ConstantsAssumption DEF Init, TypeOK
<1>2. TypeOK /\ [Next]_vars => TypeOK'
  <2> SUFFICES ASSUME TypeOK, [Next]_vars PROVE TypeOK'
    OBVIOUS
  <2>1. ASSUME NEW t \in Task, TaskNext(t) PROVE TypeOK'
    BY <2>1, CreateTyped, SaveTyped, PickTyped, SupervisionTyped, CleanTyped
       DEF TaskNext, Faulty, Watching
  <2>2. CASE UNCHANGED vars
    BY <2>2 DEF TypeOK, vars, mem, late, budget
  <2>3. CASE Terminating
    BY <2>2, <2>3 DEF Terminating
  <2> QED  BY <2>1, <2>2, <2>3, SelectTyped, RoleTyped DEF Next
<1> QED  BY <1>1, <1>2, PTL DEF Spec

-----------------------------------------------------------------------------
TaskInv(t) == RowInv(t) /\ CacheInv(t) /\ LateInv(t) /\ JobInv(t) /\ QueueInv(t)

\* A lock that is held is not free.
LEMMA HoldIsHeld ==
    ASSUME NEW op \in Op, NEW pc \in Pc, NEW tb \in TB
    PROVE  /\ Hold(op, pc, tb) # None
           /\ Hold(op, pc, tb).op = op /\ Hold(op, pc, tb).pc = pc /\ Hold(op, pc, tb).tb = tb
<1>1. Hold(op, pc, tb) \in [op: Op, pc: Pc, tb: TB]
  BY DEF Hold
<1>2. None \notin [op: Op, pc: Pc, tb: TB]
  BY NoneAssumption
<1> QED  BY <1>1, <1>2 DEF Hold

\* createTask works on a task no other handler has heard of.
LEMMA CreateInv ==
    ASSUME TypeOK, IInv, NEW u \in Task, NEW t \in Task,
           \/ CreateLock(t) \/ CreateInsert(t) \/ CreateRow(t) \/ CreateExtension(t)
           \/ CreateRowFail(t) \/ CreateExtensionFail(t)
    PROVE  TaskInv(u)'
<1> USE NoneAssumption DEF TaskInv, TypeOK, IInv, RowInv, CacheInv, LateInv, JobInv, QueueInv,
        late, HasRow, Departed, Left, Live, Terminal, TB, At, Cached
<1>0. /\ InitTB \in TB /\ InitTB.st = "init" /\ ~InitTB.rel
      /\ "create" \in Op /\ {"row", "extend"} \subseteq Pc
  BY DEF InitTB, Op, Pc
<1>1. CASE CreateLock(t)
  BY <1>1 DEF CreateLock, Lock, Hold, InitTB
<1>2. CASE CreateInsert(t)
  <2>1. job' = [job EXCEPT ![t] = Hold("create", "row", InitTB)] /\ ~HasRow(t)
    BY <1>2 DEF CreateInsert, Continue
  <2>2. CASE u = t
    <3>1. /\ job'[u].op = "create" /\ job'[u].pc = "row" /\ job'[u].tb = InitTB
          /\ job'[u] # None /\ tbm'[u] = InitTB /\ db'[u] = None
      BY <1>0, <1>2, <2>1, <2>2, HoldIsHeld DEF CreateInsert
    <3>2. RowInv(u)' /\ CacheInv(u)' /\ LateInv(u)'
      BY <1>0, <1>2, <2>2, <3>1 DEF CreateInsert
    <3>3. JobInv(u)'
      BY <1>0, <3>1
    <3>4. QueueInv(u)'
      BY <1>0, <1>2, <2>2, <3>1 DEF CreateInsert
    <3> QED  BY <3>2, <3>3, <3>4
  <2>3. CASE u # t
    BY <1>2, <2>1, <2>3 DEF CreateInsert
  <2> QED  BY <2>2, <2>3
<1>3. CASE CreateRow(t)
  <2>1. job' = [job EXCEPT ![t] = Hold("create", "extend", InitTB)] /\ ~HasRow(t)
    BY <1>3 DEF CreateRow, Continue
  <2>2. CASE u = t
    <3>1. /\ job'[u].op = "create" /\ job'[u].pc = "extend" /\ job'[u].tb = InitTB
          /\ job'[u] # None /\ db'[u] = InitTB
      BY <1>0, <1>3, <2>1, <2>2, HoldIsHeld DEF CreateRow
    <3>2. RowInv(u)' /\ CacheInv(u)' /\ LateInv(u)' /\ QueueInv(u)'
      BY <1>0, <1>3, <2>1, <2>2, <3>1 DEF CreateRow
    <3>3. JobInv(u)'
      BY <1>0, <1>3, <2>1, <2>2, <3>1 DEF CreateRow
    <3> QED  BY <3>2, <3>3
  <2>3. CASE u # t
    BY <1>3, <2>1, <2>3 DEF CreateRow
  <2> QED  BY <2>2, <2>3
<1>4. CASE CreateExtension(t)
  BY <1>4 DEF CreateExtension, Continue, Hold, Create, InitTB
<1>5. CASE CreateRowFail(t)
  BY <1>5 DEF CreateRowFail, DeleteTB, UnLock, InitTB, Fault
<1>6. CASE CreateExtensionFail(t)
  BY <1>6 DEF CreateExtensionFail, UnLock
<1> QED  BY <1>1, <1>2, <1>3, <1>4, <1>5, <1>6

\* UpdateTaskBasic: the row and the cache get the copy the handler holds.
LEMMA SaveInv ==
    ASSUME TypeOK, IInv, NEW u \in Task, NEW t \in Task,
           Save(t) \/ SaveFail(t)
    PROVE  TaskInv(u)'
<1> USE NoneAssumption DEF TaskInv, TypeOK, IInv, RowInv, CacheInv, LateInv, JobInv, QueueInv,
        late, HasRow, Departed, Left, Live, Terminal, TB, At, Cached
<1>1. CASE Save(t)
  BY <1>1 DEF Save, Saving, UpdateRow, PutTB, EndSave, UnLock, Create, InitTB
<1>2. CASE SaveFail(t)
  BY <1>2 DEF SaveFail, Saving, UpdateRow, EndSave, UnLock, Create, InitTB
<1> QED  BY <1>1, <1>2

\* pick under the task lock, and its delayed write after it.
LEMMA PickInv ==
    ASSUME TypeOK, IInv, NEW u \in Task, NEW t \in Task,
           \/ PickLaunch(t) \/ PickLaunchFail(t) \/ PickStore(t)
           \/ DelayedWrite(t) \/ DelayedWriteFail(t)
    PROVE  TaskInv(u)'
<1> USE NoneAssumption DEF TaskInv, TypeOK, IInv, RowInv, CacheInv, LateInv, JobInv, QueueInv,
        late, HasRow, Departed, Left, Live, Terminal, TB, At, Cached
<1>1. CASE PickLaunch(t)
  BY <1>1 DEF PickLaunch, Continue, Hold, Launch
<1>2. CASE PickLaunchFail(t)
  BY <1>2 DEF PickLaunchFail, UnLock
<1>3. CASE PickStore(t)
  BY <1>3 DEF PickStore, PutTB, UnLock
<1>4. CASE DelayedWrite(t)
  BY <1>4 DEF DelayedWrite, mem
<1>5. CASE DelayedWriteFail(t)
  BY <1>5 DEF DelayedWriteFail, mem
<1> QED  BY <1>1, <1>2, <1>3, <1>4, <1>5

\* A picker selects from the queue and looks again under the task lock.
LEMMA SelectInv ==
    ASSUME TypeOK, IInv, NEW u \in Task, NEW k \in Picker,
           PickSelect(k) \/ PickLock(k)
    PROVE  TaskInv(u)'
<1> USE NoneAssumption DEF TaskInv, TypeOK, IInv, RowInv, CacheInv, LateInv, JobInv, QueueInv,
        late, HasRow, Departed, Left, Live, Terminal, TB, At, Cached
<1>1. CASE PickSelect(k)
  BY <1>1 DEF PickSelect
<1>2. CASE PickLock(k)
  BY <1>2 DEF PickLock, Lock, Hold
<1> QED  BY <1>1, <1>2

\* The updates of tracker, keeper and release: where they lead, and that they
\* keep the released flag.
LEMMA Outcomes ==
    ASSUME NEW tb \in TB
    PROVE  /\ \A o \in KeeperOutcome(tb) \cup {Ready(tb), FailWithServerDown(tb)} :
                o \in TB /\ o.st \in Left /\ o.rel = tb.rel
           /\ \A o \in {Finish(tb), FailWithClient(tb)} :
                o \in TB /\ o.st \in Terminal /\ o.rel = tb.rel
<1> USE UpdatesAreTyped DEF TB, Left, Terminal
<1>1. /\ Ready(tb).st = "running" /\ Ready(tb).rel = tb.rel
      /\ FailWithServerDown(tb).st = "failed" /\ FailWithServerDown(tb).rel = tb.rel
  BY DEF Ready, FailWithServerDown
<1>2. /\ Finish(tb).st = "finish" /\ Finish(tb).rel = tb.rel
      /\ FailWithClient(tb).st = "failed" /\ FailWithClient(tb).rel = tb.rel
  BY DEF Finish, FailWithClient
<1> HIDE DEF TB
<1> QED  BY <1>1, <1>2 DEF KeeperOutcome

\* tracker, keeper and release take a task of the cache and go on to save it.
LEMMA SupervisionInv ==
    ASSUME TypeOK, IInv, NEW u \in Task, NEW t \in Task,
           Track(t) \/ Keep(t) \/ ReleaseTask(t)
    PROVE  TaskInv(u)'
<1> USE NoneAssumption DEF TaskInv, TypeOK, IInv, RowInv, CacheInv, LateInv, JobInv, QueueInv,
        late, HasRow, Departed, Left, Live, Terminal, At, Cached
<1>1. tbm[t] \in TB /\ job[t] = None
  BY KeepIsOutcome DEF Track, ReleaseTask, Lock
<1>2. PICK op \in {"track", "keep", "release"}, tb \in TB :
        /\ job' = [job EXCEPT ![t] = Hold(op, "save", tb)]
        /\ tb.st \in Left /\ tb.rel = tbm[t].rel
        /\ op = "release" => tb.st \in Terminal
  BY <1>1, Outcomes, KeepIsOutcome DEF Track, ReleaseTask, Lock
<1>3. HasRow(t)
  BY <1>1, <1>2
<1>4. UNCHANGED <<role, tbm, queue, sel, cleaning, cleanCh, db, delayed, res, retiring>>
  BY KeepIsOutcome DEF Track, ReleaseTask
<1>5. RowInv(u)' /\ CacheInv(u)' /\ LateInv(u)'
  BY <1>1, <1>2, <1>4 DEF Hold
<1>6. JobInv(u)'
  BY <1>1, <1>2, <1>3, <1>4 DEF Hold
<1>7. QueueInv(u)'
  <2>1. role = "running"
    BY KeepIsOutcome DEF Track, ReleaseTask
  <2> QED  BY <2>1, <1>4
<1> QED  BY <1>5, <1>6, <1>7

\* The cleaner, and the retirement of released tasks.
LEMMA CleanInv ==
    ASSUME TypeOK, IInv, NEW u \in Task, NEW t \in Task,
           \/ CleanCheck(t) \/ OnCleanNotify(t) \/ CleanLock(t) \/ CleanCollect(t)
           \/ CleanFree(t) \/ CleanFreeFail(t) \/ RetireTask(t) \/ Watching(t)
    PROVE  TaskInv(u)'
<1> USE NoneAssumption DEF TaskInv, TypeOK, IInv, RowInv, CacheInv, LateInv, JobInv, QueueInv,
        late, HasRow, Departed, Left, Live, Terminal, TB, At, Cached
<1>1. CASE CleanCheck(t)
  BY <1>1 DEF CleanCheck, Terminated
<1>2. CASE OnCleanNotify(t)
  BY <1>2 DEF OnCleanNotify
<1>3. CASE CleanLock(t)
  BY <1>3 DEF CleanLock, Lock, Hold
<1>4. CASE CleanCollect(t)
  BY <1>4 DEF CleanCollect, Continue, Hold
<1>5. CASE CleanFree(t)
  BY <1>5 DEF CleanFree, Continue, Hold, ShutDown
<1>6. CASE CleanFreeFail(t)
  BY <1>6 DEF CleanFreeFail, UnLock
<1>7. CASE RetireTask(t)
  BY <1>7 DEF RetireTask, Terminated, DeleteTB
<1>8. CASE Watching(t)
  BY <1>8 DEF Watching, FallSilent, UpdateHeartbeat, RetireCheck, Terminated, mem
<1> QED  BY <1>1, <1>2, <1>3, <1>4, <1>5, <1>6, <1>7, <1>8

\* Losing the role, the two steps of recover() and a crash.
LEMMA RoleInv ==
    ASSUME TypeOK, IInv, NEW u \in Task, 
           Stop \/ RefreshQueueGroup \/ RecoverTaskBasics \/ Crash
    PROVE  TaskInv(u)'
<1> USE NoneAssumption DEF TaskInv, TypeOK, IInv, RowInv, CacheInv, LateInv, JobInv, QueueInv,
        late, HasRow, Departed, Left, Live, Terminal, TB, At, Cached
<1>1. CASE Stop
  BY <1>1 DEF Stop, mem
<1>2. CASE RefreshQueueGroup
  BY <1>2 DEF RefreshQueueGroup
<1>3. CASE RecoverTaskBasics
  BY <1>3 DEF RecoverTaskBasics, Unreleased
<1>4. CASE Crash
  BY <1>4 DEF Crash
<1> QED  BY <1>1, <1>2, <1>3, <1>4

-----------------------------------------------------------------------------
\* IInv is an invariant: it holds initially and every step preserves it.
THEOREM Inductive == Spec => [](TypeOK /\ IInv)
<1>1. Init => IInv
  <2> SUFFICES ASSUME Init, NEW t \in Task PROVE TaskInv(t)
    BY DEF IInv, TaskInv
  <2>1. tbm[t] = None /\ db[t] = None /\ job[t] = None
    BY DEF Init
  <2>2. role = "stopped" /\ t \notin cleaning \cup cleanCh \cup retiring \cup res /\ delayed = {}
    BY DEF Init
  <2>3. \A k \in Picker : sel[k] # t
    BY NoneAssumption DEF Init
  <2> QED
    BY <2>1, <2>2, <2>3 DEF TaskInv, RowInv, CacheInv, LateInv, JobInv, QueueInv, HasRow
<1>2. TypeOK /\ IInv /\ [Next]_vars => IInv'
  <2> SUFFICES ASSUME TypeOK, IInv, [Next]_vars, NEW u \in Task PROVE TaskInv(u)'
    BY DEF IInv, TaskInv
  <2>1. ASSUME NEW t \in Task, TaskNext(t) PROVE TaskInv(u)'
    BY <2>1, CreateInv, SaveInv, PickInv, SupervisionInv, CleanInv
       DEF TaskNext, Creating, Picking, Cleaning, Faulty, Watching
  <2>2. CASE UNCHANGED vars
    BY <2>2 DEF IInv, TaskInv, RowInv, CacheInv, LateInv, JobInv, QueueInv,
                HasRow, Departed, At, Cached, vars, mem, late
  <2>3. CASE Terminating
    BY <2>2, <2>3 DEF Terminating
  <2> QED  BY <2>1, <2>2, <2>3, SelectInv, RoleInv DEF Next
<1> QED  BY <1>1, <1>2, TypeCorrect, PTL DEF Spec

\* A released task holds no resources: over failing calls, crashes and losses of
\* the master role with handlers of the old term still at work.
THEOREM ReleaseIsSafe == Spec => []ReleasedHoldsNothing
<1>1. IInv => ReleasedHoldsNothing
  BY DEF IInv, RowInv, CacheInv, HasRow, ReleasedHoldsNothing
<1> QED  BY <1>1, Inductive, PTL

\* A running server knows every task that holds resources.
THEOREM NothingLeaks == Spec => []ResourcesAreTracked
<1>1. IInv /\ TypeOK => ResourcesAreTracked
  BY DEF IInv, CacheInv, TypeOK, ResourcesAreTracked
<1> QED  BY <1>1, Inductive, PTL

\* The staging queue of a running server is exactly its staging tasks.
THEOREM QueueIsExact == Spec => []QueueMatchesCache
<1>1. IInv /\ TypeOK => QueueMatchesCache
  BY DEF IInv, QueueInv, TypeOK, QueueMatchesCache
<1> QED  BY <1>1, Inductive, PTL
-----------------------------------------------------------------------------
(* While the server keeps its role (Calm).  One lemma per group of handlers *)
(* that its steps preserve the parts of CalmInv about single tasks, then    *)
(* the room of a project, then the theorems.                                *)

CalmTask(t) == AgreeInv(t) /\ CopyInv(t) /\ PendingInv(t) /\ TallyInv(t)
CalmCore == MemoryInv /\ LockInv /\ \A t \in Task : CalmTask(t)

\* createTask: the row and the cache entry start out the same.
LEMMA CalmCreate ==
    ASSUME TypeOK, IInv, Calm, CalmCore, NEW u \in Task, NEW t \in Task,
           \/ CreateLock(t) \/ CreateInsert(t) \/ CreateRow(t) \/ CreateExtension(t)
           \/ CreateRowFail(t) \/ CreateExtensionFail(t)
    PROVE  CalmTask(u)'
<1> USE NoneAssumption, ConstantsAssumption
    DEF CalmCore, CalmTask, Calm, MemoryInv, LockInv, AgreeInv, CopyInv, PendingInv, TallyInv,
        Collected, Shaped, late, TypeOK, IInv, JobInv, HasRow, Live, Terminal, TB, At, Cached
<1>0. /\ InitTB \in TB /\ InitTB.st = "init" /\ ~InitTB.rel /\ ~InitTB.lt
      /\ "create" \in Op /\ {"row", "extend"} \subseteq Pc
  BY DEF InitTB, Op, Pc
<1>1. CASE CreateLock(t)
  BY <1>1 DEF CreateLock, Lock, Hold, InitTB, budget
<1>2. CASE CreateInsert(t)
  <2>0. /\ job[t] # None /\ job[t].op = "create" /\ job[t].pc = "insert" /\ job[t].tb = InitTB
        /\ db[t] = None /\ tbm[t] = None /\ role = "running" /\ plock[ProjectOf[t]] = t
        /\ job' = [job EXCEPT ![t] = Hold("create", "row", InitTB)]
        /\ tbm' = [tbm EXCEPT ![t] = InitTB]
        /\ plock' = [plock EXCEPT ![ProjectOf[t]] = None]
        /\ UNCHANGED <<role, db, delayed, cleaning, cleanCh, retiring,
                       collected, counted, faults, crashes>>
    BY <1>2 DEF CreateInsert, Continue, budget
  <2>1. CASE u # t
    BY <2>0, <2>1
  <2>2. CASE u = t
    <3>1. /\ job'[u] # None /\ job'[u].op = "create" /\ job'[u].pc = "row"
          /\ job'[u].tb = InitTB /\ tbm'[u] = InitTB /\ db'[u] = None
      BY <1>0, <2>0, <2>2, HoldIsHeld
    <3>2. AgreeInv(u)' /\ CopyInv(u)'
      BY <1>0, <2>0, <2>2, <3>1
    <3>3. PendingInv(u)'
      <4>1. t \notin cleaning \cup cleanCh \cup retiring /\ \A w \in delayed : w[1] # t
        BY <2>0 DEF LateInv, Departed
      <4> QED  BY <2>0, <2>2, <4>1
    <3>4. TallyInv(u)'
      BY <2>0, <2>2, <3>1
    <3> QED  BY <3>2, <3>3, <3>4
  <2> QED  BY <2>1, <2>2
<1>3. CASE CreateRow(t)
  <2>0. /\ job[t] # None /\ job[t].op = "create" /\ job[t].pc = "row" /\ job[t].tb = InitTB
        /\ db[t] = None /\ tbm[t] = InitTB /\ role = "running"
        /\ job' = [job EXCEPT ![t] = Hold("create", "extend", InitTB)]
        /\ db' = [db EXCEPT ![t] = InitTB]
        /\ UNCHANGED <<role, tbm, plock, delayed, cleaning, cleanCh, retiring,
                       collected, counted, faults, crashes>>
    BY <1>3 DEF CreateRow, Continue, budget
  <2>1. CASE u # t
    BY <2>0, <2>1
  <2>2. CASE u = t
    <3>1. /\ job'[u] # None /\ job'[u].op = "create" /\ job'[u].pc = "extend"
          /\ job'[u].tb = InitTB /\ tbm'[u] = InitTB /\ db'[u] = InitTB
      BY <1>0, <2>0, <2>2, HoldIsHeld
    <3>2. AgreeInv(u)' /\ CopyInv(u)'
      BY <1>0, <2>0, <2>2, <3>1
    <3>3. PendingInv(u)'
      <4>1. t \notin cleaning \cup cleanCh \cup retiring /\ \A w \in delayed : w[1] # t
        BY <2>0 DEF LateInv, Departed
      <4> QED  BY <2>0, <2>2, <4>1
    <3>4. TallyInv(u)'
      BY <1>0, <2>0, <2>2, <3>1
    <3> QED  BY <3>2, <3>3, <3>4
  <2> QED  BY <2>1, <2>2
<1>4. CASE CreateExtension(t)
  BY <1>4 DEF CreateExtension, Continue, Hold, Create, InitTB, budget
<1>5. CASE CreateRowFail(t)
  BY <1>5 DEF CreateRowFail, DeleteTB, UnLock, InitTB, Fault
<1>6. CASE CreateExtensionFail(t)
  BY <1>6 DEF CreateExtensionFail, UnLock, Fault
<1> QED  BY <1>1, <1>2, <1>3, <1>4, <1>5, <1>6

\* UpdateTaskBasic: row and cache get one copy, from a handler that knows the cache.
LEMMA CalmSave ==
    ASSUME TypeOK, IInv, Calm, CalmCore, NEW u \in Task, NEW t \in Task,
           Save(t) \/ SaveFail(t)
    PROVE  CalmTask(u)'
<1> USE NoneAssumption, ConstantsAssumption
    DEF CalmCore, CalmTask, Calm, MemoryInv, LockInv, AgreeInv, CopyInv, PendingInv, TallyInv,
        Collected, Shaped, late, TypeOK, IInv, JobInv, HasRow, Live, Terminal, TB, At, Cached
<1>1. CASE Save(t)
  <2> DEFINE tb == job[t].tb
  <2>1. job[t] # None /\ job[t].pc = "save" /\ tb \in TB /\ role = "running" /\ tbm[t] # None
    BY <1>1, HeldIsTyped DEF Save, Saving
  <2>2. db[t] # None
    BY <2>1 DEF LateInv, Departed
  <2>3. \/ job[t].op = "create" /\ tb.st = "staging" /\ ~tb.rel /\ ~tb.lt
        \/ /\ job[t].op \in {"track", "keep", "release"} /\ tbm[t].st \in Live
           /\ tb.st \in {"running", "finish", "failed"} /\ ~tb.rel
           /\ tbm[t].lt => tb.lt
           /\ job[t].op = "release" => tb.st \in Terminal
        \/ /\ job[t].op = "clean" /\ tbm[t].st \in Terminal /\ tb.st = tbm[t].st /\ tb.rel
           /\ tb.lt = tbm[t].lt
    <3>1. Create(InitTB).st = "staging" /\ ~Create(InitTB).rel /\ ~Create(InitTB).lt
      BY DEF Create, InitTB
    <3>2. /\ ShutDown(tbm[t]).st = tbm[t].st /\ ShutDown(tbm[t]).rel
          /\ ShutDown(tbm[t]).lt = tbm[t].lt
      BY <2>1 DEF ShutDown
    <3> QED  BY <2>1, <3>1, <3>2 DEF Left
  <2>4. /\ job' = [job EXCEPT ![t] = None]
        /\ tbm' = [tbm EXCEPT ![t] = tb]
        /\ db' = [db EXCEPT ![t] = tb]
        /\ cleaning' \subseteq cleaning
        /\ cleanCh' \subseteq cleanCh \cup {t}
        /\ t \in cleanCh' => t \in cleanCh \/ job[t].op = "release"
        /\ UNCHANGED <<role, plock, delayed, retiring, collected, counted, faults, crashes>>
    BY <1>1, <2>2 DEF Save, UpdateRow, PutTB, EndSave, UnLock, budget
  <2> HIDE DEF tb
  <2>5. CASE u # t
    BY <2>4, <2>5
  <2>6. CASE u = t
    <3>1. job'[u] = None /\ tbm'[u] = tb /\ db'[u] = tb
      BY <2>4, <2>6
    <3>2. Shaped(tb) /\ tb # None
      BY <2>1, <2>3
    <3>3. AgreeInv(u)' /\ CopyInv(u)'
      BY <2>4, <2>6, <3>1, <3>2
    <3>4. PendingInv(u)'
      <4>1. t \in cleaning' \cup cleanCh' => tb.st \in Terminal
        BY <2>1, <2>3, <2>4 DEF LateInv, Departed, Left
      <4>2. ASSUME NEW w \in delayed, w[1] = t PROVE w[2].lt /\ tb.lt
        <5>1. w[2].lt /\ tbm[t].lt /\ tbm[t].st # "init" /\ tbm[t].st # "staging"
          BY <2>1, <2>2, <4>2 DEF LateInv
        <5>2. job[t].op # "create"
          BY <2>1, <5>1 DEF InitTB
        <5> QED  BY <2>3, <5>1, <5>2
      <4>3. t \notin retiring
        BY <2>1, <2>3 DEF InitTB
      <4> QED  BY <2>4, <2>6, <3>1, <4>1, <4>2, <4>3
    <3>5. TallyInv(u)'
      <4>1. tb.rel <=> job[t].op = "clean"
        BY <2>3
      <4>2. tb.rel => Collected(t)
        BY <2>1, <4>1
      <4>3. Collected(t)' <=> tb.rel
        BY <2>1, <2>6, <3>1, <3>2
      <4>4. Collected(t) => tb.rel
        BY <2>1, <2>2, <2>3, <4>1
      <4> QED  BY <2>4, <2>6, <4>2, <4>3, <4>4
    <3> QED  BY <3>3, <3>4, <3>5
  <2> QED  BY <2>5, <2>6
<1>2. CASE SaveFail(t)
  BY <1>2 DEF SaveFail, Saving, UpdateRow, EndSave, UnLock, Create, InitTB, Fault
<1> QED  BY <1>1, <1>2

\* pick is ahead of the row until its delayed write, which nothing can overtake.
LEMMA CalmPick ==
    ASSUME TypeOK, IInv, Calm, CalmCore, NEW u \in Task, NEW t \in Task,
           \/ PickLaunch(t) \/ PickLaunchFail(t) \/ PickStore(t)
           \/ DelayedWrite(t) \/ DelayedWriteFail(t)
    PROVE  CalmTask(u)'
<1> USE NoneAssumption, ConstantsAssumption
    DEF CalmCore, CalmTask, Calm, MemoryInv, LockInv, AgreeInv, CopyInv, PendingInv, TallyInv,
        Collected, Shaped, late, TypeOK, IInv, JobInv, LateInv, HasRow, Live, Terminal, TB, At, Cached
<1>1. CASE PickLaunch(t)
  <2>0. /\ job[t] # None /\ job[t].op = "pick" /\ job[t].pc = "launch" /\ job[t].tb \in TB
        /\ tbm[t] # None /\ tbm[t].st = "staging" /\ job[t].tb = tbm[t]
        /\ job' = [job EXCEPT ![t] = Hold("pick", "store", Launch(tbm[t]))]
        /\ UNCHANGED <<role, tbm, db, plock, delayed, cleaning,
                       cleanCh, retiring, collected, counted, faults, crashes>>
    <3>1. /\ job[t] # None /\ job[t].op = "pick" /\ job[t].pc = "launch" /\ job[t].tb \in TB
          /\ tbm[t] # None
      BY <1>1, HeldIsTyped DEF PickLaunch
    <3>2. tbm[t].st = "staging" /\ job[t].tb = tbm[t]
      BY <3>1
    <3> QED  BY <1>1, <3>1, <3>2 DEF PickLaunch, Continue, budget
  <2>1. CASE u # t
    BY <2>0, <2>1
  <2>2. CASE u = t
    <3>1. /\ job'[u] # None /\ job'[u].op = "pick" /\ job'[u].pc = "store"
          /\ job'[u].tb = Launch(tbm[u])
      BY <2>0, <2>2, HoldIsHeld, UpdatesAreTyped DEF Op, Pc
    <3>2. AgreeInv(u)' /\ CopyInv(u)'
      BY <2>0, <2>2, <3>1
    <3>3. PendingInv(u)' /\ TallyInv(u)'
      BY <2>0, <2>2, <3>1
    <3> QED  BY <3>2, <3>3
  <2> QED  BY <2>1, <2>2
<1>2. CASE PickLaunchFail(t)
  BY <1>2 DEF PickLaunchFail, UnLock, budget
<1>3. CASE PickStore(t)
  <2>0. /\ job[t] # None /\ job[t].op = "pick" /\ job[t].pc = "store" /\ job[t].tb \in TB
        /\ tbm[t] # None /\ tbm[t].st = "staging" /\ job[t].tb = Launch(tbm[t])
        /\ db[t] # None /\ tbm[t] = db[t] /\ role = "running"
        /\ job' = [job EXCEPT ![t] = None]
        /\ tbm' = [tbm EXCEPT ![t] = job[t].tb]
        /\ delayed' = delayed \cup {<<t, job[t].tb>>}
        /\ UNCHANGED <<role, db, plock, cleaning, cleanCh, retiring,
                       collected, counted, faults, crashes>>
    BY <1>3 DEF PickStore, PutTB, UnLock, budget
  <2>1. CASE u # t
    BY <2>0, <2>1
  <2>2. CASE u = t
    <3>1. /\ job'[u] = None /\ tbm'[u] = job[u].tb /\ db'[u] = db[u] /\ db[u].st = "staging"
          /\ job[u].tb.st = "starting" /\ job[u].tb.lt /\ ~job[u].tb.rel
      <4>1. /\ Launch(tbm[t]).st = "starting" /\ Launch(tbm[t]).lt
            /\ Launch(tbm[t]).rel = tbm[t].rel /\ ~tbm[t].rel
        BY <2>0 DEF Launch
      <4> QED  BY <2>0, <2>2, <4>1
    <3>2. AgreeInv(u)' /\ CopyInv(u)'
      BY <2>0, <2>2, <3>1
    <3>3. PendingInv(u)'
      <4>1. t \notin cleaning \cup cleanCh
        BY <2>0
      <4>2. ASSUME NEW w \in delayed PROVE ~(w[1] = t)
        \* A write of an earlier launch had left the cache starting.
        BY <2>0, <4>2
      <4> QED  BY <2>0, <2>2, <3>1, <4>1, <4>2
    <3>4. TallyInv(u)'
      BY <2>0, <2>2, <3>1
    <3> QED  BY <3>2, <3>3, <3>4
  <2> QED  BY <2>1, <2>2
<1>4. CASE DelayedWrite(t)
  BY <1>4 DEF DelayedWrite, mem, budget
<1>5. CASE DelayedWriteFail(t)
  BY <1>5 DEF DelayedWriteFail, mem, Fault
<1> QED  BY <1>1, <1>2, <1>3, <1>4, <1>5

\* A picker locks a task the cache says is staging.
LEMMA CalmSelect ==
    ASSUME TypeOK, IInv, Calm, CalmCore, NEW u \in Task, NEW k \in Picker,
           PickSelect(k) \/ PickLock(k)
    PROVE  CalmTask(u)'
<1> USE NoneAssumption, ConstantsAssumption
    DEF CalmCore, CalmTask, Calm, MemoryInv, LockInv, AgreeInv, CopyInv, PendingInv, TallyInv,
        Collected, Shaped, late, TypeOK, HasRow, Live, Terminal, TB, At, Cached
<1>1. CASE PickSelect(k)
  BY <1>1 DEF PickSelect, budget
<1>2. CASE PickLock(k)
  BY <1>2 DEF PickLock, Lock, Hold, budget
<1> QED  BY <1>1, <1>2

\* What tracker, keeper and release save has a launch time if the task had one.
LEMMA OutcomesKeepLaunch ==
    ASSUME NEW tb \in TB
    PROVE  \A o \in KeeperOutcome(tb) \cup {Ready(tb), Finish(tb), FailWithServerDown(tb),
                                         FailWithClient(tb)} :
             o \in TB /\ o.st \in {"running", "finish", "failed"} /\ o.rel = tb.rel /\ o.lt = tb.lt
<1> USE UpdatesAreTyped DEF TB
<1>1. /\ Ready(tb).st = "running" /\ Ready(tb).rel = tb.rel /\ Ready(tb).lt = tb.lt
      /\ FailWithServerDown(tb).st = "failed" /\ FailWithServerDown(tb).rel = tb.rel
      /\ FailWithServerDown(tb).lt = tb.lt
  BY DEF Ready, FailWithServerDown
<1>2. /\ Finish(tb).st = "finish" /\ Finish(tb).rel = tb.rel /\ Finish(tb).lt = tb.lt
      /\ FailWithClient(tb).st = "failed" /\ FailWithClient(tb).rel = tb.rel
      /\ FailWithClient(tb).lt = tb.lt
  BY DEF Finish, FailWithClient
<1> HIDE DEF TB
<1> QED  BY <1>1, <1>2 DEF KeeperOutcome

\* tracker, keeper and release start from a live task of the cache.
LEMMA CalmSupervision ==
    ASSUME TypeOK, IInv, Calm, CalmCore, NEW u \in Task, NEW t \in Task,
           Track(t) \/ Keep(t) \/ ReleaseTask(t)
    PROVE  CalmTask(u)'
<1> USE NoneAssumption, ConstantsAssumption
    DEF CalmCore, CalmTask, Calm, MemoryInv, LockInv, AgreeInv, CopyInv, PendingInv, TallyInv,
        Collected, Shaped, late, TypeOK, HasRow, Live, Terminal, At, Cached
<1>1. tbm[t] \in TB /\ tbm[t].st \in Live /\ job[t] = None /\ role = "running"
  BY KeepIsOutcome DEF Track, ReleaseTask, Lock
<1>2. PICK op \in {"track", "keep", "release"}, tb \in TB :
        /\ job' = [job EXCEPT ![t] = Hold(op, "save", tb)]
        /\ tb.st \in {"running", "finish", "failed"}
        /\ tb.rel = tbm[t].rel
        /\ tb.lt = tbm[t].lt
  <2> HIDE DEF Live, Terminal, CalmCore, TypeOK, Cached
  <2>1. CASE Track(t)
    <3>1. PICK tb \in {Ready(tbm[t]), FailWithServerDown(tbm[t])} :
            job' = [job EXCEPT ![t] = Hold("track", "save", tb)]
      BY <2>1 DEF Track, Lock
    <3>2. tb \in KeeperOutcome(tbm[t]) \cup {Ready(tbm[t]), Finish(tbm[t]),
                   FailWithServerDown(tbm[t]), FailWithClient(tbm[t])}
      BY <3>1
    <3> QED  BY <1>1, <3>1, <3>2, OutcomesKeepLaunch
  <2>2. CASE Keep(t)
    <3>1. PICK tb \in KeeperOutcome(tbm[t]) : job' = [job EXCEPT ![t] = Hold("keep", "save", tb)]
      BY <2>2, KeepIsOutcome DEF Lock
    <3> QED  BY <1>1, <3>1, OutcomesKeepLaunch
  <2>3. CASE ReleaseTask(t)
    <3>1. PICK tb \in {Finish(tbm[t]), FailWithClient(tbm[t])} :
            job' = [job EXCEPT ![t] = Hold("release", "save", tb)]
      BY <2>3 DEF ReleaseTask, Lock
    <3>2. tb \in KeeperOutcome(tbm[t]) \cup {Ready(tbm[t]), Finish(tbm[t]),
                   FailWithServerDown(tbm[t]), FailWithClient(tbm[t])}
      BY <3>1
    <3> QED  BY <1>1, <3>1, <3>2, OutcomesKeepLaunch
  <2> QED  BY <2>1, <2>2, <2>3
<1>3. UNCHANGED <<role, tbm, db, plock, delayed, cleaning,
                  cleanCh, retiring, collected, counted, faults, crashes>>
  BY KeepIsOutcome DEF Track, ReleaseTask, late, budget
<1>4. CASE u # t
  BY <1>2, <1>3, <1>4
<1>5. CASE u = t
  <2>1. job'[u] # None /\ job'[u].op = op /\ job'[u].pc = "save" /\ job'[u].tb = tb
    BY <1>1, <1>2, <1>5, HoldIsHeld DEF Op, Pc
  <2>2. AgreeInv(u)' /\ CopyInv(u)'
    BY <1>1, <1>2, <1>3, <1>5, <2>1
  <2>3. PendingInv(u)' /\ TallyInv(u)'
    BY <1>1, <1>2, <1>3, <1>5, <2>1
  <2> QED  BY <2>2, <2>3
<1> QED  BY <1>4, <1>5

\* The cleaner works on a task that is over, and collects it once.
LEMMA CalmClean ==
    ASSUME TypeOK, IInv, Calm, CalmCore, NEW u \in Task, NEW t \in Task,
           \/ CleanCheck(t) \/ OnCleanNotify(t) \/ CleanLock(t) \/ CleanCollect(t)
           \/ CleanFree(t) \/ CleanFreeFail(t) \/ RetireTask(t) \/ Watching(t)
    PROVE  CalmTask(u)'
<1> USE NoneAssumption, ConstantsAssumption
    DEF CalmCore, CalmTask, Calm, MemoryInv, LockInv, AgreeInv, CopyInv, PendingInv, TallyInv,
        Collected, Shaped, late, TypeOK, IInv, JobInv, HasRow, Live, Terminal, TB, At, Cached
<1>1. CASE CleanCheck(t)
  BY <1>1 DEF CleanCheck, Terminated, budget
<1>2. CASE OnCleanNotify(t)
  BY <1>2 DEF OnCleanNotify, budget
<1>3. CASE CleanLock(t)
  BY <1>3 DEF CleanLock, Lock, Hold, budget
<1>4. CASE CleanCollect(t)
  <2>0. /\ job[t] # None /\ job[t].op = "clean" /\ job[t].pc = "collect" /\ job[t].tb \in TB
        /\ tbm[t] # None /\ tbm[t].st \in Terminal /\ ~tbm[t].rel /\ job[t].tb = tbm[t]
        /\ job' = [job EXCEPT ![t] = Hold("clean", "free", job[t].tb)]
        /\ UNCHANGED <<role, tbm, db, plock, delayed, cleaning, cleanCh, retiring, crashes>>
    BY <1>4 DEF CleanCollect, Continue
  <2>1. /\ \/ collected' = collected
           \/ collected' = [collected EXCEPT ![t] = @ + 1]
        /\ \/ faults' = faults /\ counted' = [counted EXCEPT ![t] = @ + 1]
           \/ faults' = faults + 1 /\ counted' = counted
    <3>1. [collected EXCEPT ![t] = @] = collected
      OBVIOUS
    <3> QED  BY <1>4, <3>1 DEF CleanCollect, NoFault, Fault
  <2>2. CASE u # t
    <3>1. AgreeInv(u)' /\ CopyInv(u)' /\ PendingInv(u)'
      BY <2>0, <2>2
    <3>2. TallyInv(u)'
      BY <2>0, <2>1, <2>2
    <3> QED  BY <3>1, <3>2
  <2>3. CASE u = t
    <3>1. /\ job'[u] # None /\ job'[u].op = "clean" /\ job'[u].pc = "free"
          /\ job'[u].tb = job[u].tb
      BY <2>0, <2>3, HoldIsHeld DEF Op, Pc
    <3>2. AgreeInv(u)' /\ CopyInv(u)'
      BY <2>0, <2>3, <3>1
    <3>3. PendingInv(u)'
      BY <2>0, <2>3
    <3>4. TallyInv(u)'
      <4>1. ~Collected(t)
        BY <2>0
      <4> QED  BY <2>0, <2>1, <2>3, <3>1, <4>1
    <3> QED  BY <3>2, <3>3, <3>4
  <2> QED  BY <2>2, <2>3
<1>5. CASE CleanFree(t)
  <2>0. /\ job[t] # None /\ job[t].op = "clean" /\ job[t].pc = "free" /\ job[t].tb \in TB
        /\ tbm[t] # None /\ tbm[t].st \in Terminal /\ ~tbm[t].rel /\ job[t].tb = tbm[t]
        /\ job' = [job EXCEPT ![t] = Hold("clean", "save", ShutDown(job[t].tb))]
        /\ UNCHANGED <<role, tbm, db, plock, delayed, cleaning,
                       cleanCh, retiring, collected, counted, faults, crashes>>
    BY <1>5 DEF CleanFree, Continue, budget
  <2>1. CASE u # t
    BY <2>0, <2>1
  <2>2. CASE u = t
    <3>1. /\ job'[u] # None /\ job'[u].op = "clean" /\ job'[u].pc = "save"
          /\ job'[u].tb = ShutDown(job[u].tb)
      <4>1. ShutDown(job[t].tb) \in TB /\ "clean" \in Op /\ "save" \in Pc
        BY <2>0, UpdatesAreTyped DEF Op, Pc
      <4> HIDE DEF TB
      <4>2. job'[t] = Hold("clean", "save", ShutDown(job[t].tb))
        BY <2>0
      <4> QED  BY <2>2, <4>1, <4>2, HoldIsHeld
    <3>2. AgreeInv(u)' /\ CopyInv(u)'
      BY <2>0, <2>2, <3>1
    <3>3. PendingInv(u)' /\ TallyInv(u)'
      BY <2>0, <2>2, <3>1
    <3> QED  BY <3>2, <3>3
  <2> QED  BY <2>1, <2>2
<1>6. CASE CleanFreeFail(t)
  BY <1>6 DEF CleanFreeFail, UnLock, Fault
<1>7. CASE RetireTask(t)
  <2>0. /\ t \in retiring /\ role = "running" /\ job[t] = None
        /\ tbm' = [tbm EXCEPT ![t] = None]
        /\ retiring' = retiring \ {t}
        /\ UNCHANGED <<role, job, db, plock, delayed, cleaning,
                       cleanCh, collected, counted, faults, crashes>>
    <3>1. t \in retiring
      BY <1>7 DEF RetireTask
    <3>2. role = "running"
      BY <3>1
    <3> QED  BY <1>7, <3>1, <3>2, Zenon DEF RetireTask, DeleteTB, budget
  <2>1. CASE u # t
    BY <2>0, <2>1
  <2>2. CASE tbm[t] = None
    <3>1. tbm' = tbm /\ retiring' \subseteq retiring
      BY <2>0, <2>2
    <3> QED  BY <2>0, <3>1
  <2>3. CASE u = t /\ tbm[t] # None
    <3>0. tbm[t].rel /\ tbm[t].st \in Terminal
      BY <2>0, <2>3
    <3>1. tbm'[u] = None /\ job'[u] = None /\ db'[u] = db[u] /\ role = "running"
      BY <2>0, <2>3
    <3>2. AgreeInv(u)' /\ CopyInv(u)' /\ TallyInv(u)'
      BY <2>0, <2>3, <3>0, <3>1
    <3>3. PendingInv(u)'
      <4>1. HasRow(t) /\ db[t].st \in {"starting", "running", "finish", "failed"}
        BY <2>0, <2>3, <3>0 DEF CacheInv, Departed, Left
      <4>2. db[t] = tbm[t]
        BY <2>0, <2>3, <3>0, <4>1
      <4>3. ASSUME NEW w \in delayed, w[1] = t PROVE w[2].lt /\ db[t].lt
        BY <2>0, <3>0, <4>2, <4>3 DEF LateInv
      <4> QED  BY <2>0, <2>3, <3>1, <4>3
    <3> QED  BY <3>2, <3>3
  <2> QED  BY <2>1, <2>2, <2>3
<1>8. CASE Watching(t)
  BY <1>8 DEF Watching, FallSilent, UpdateHeartbeat, RetireCheck, Terminated, mem, budget
<1> QED  BY <1>1, <1>2, <1>3, <1>4, <1>5, <1>6, <1>7, <1>8

\* A crash empties the memory, recover() fills it from the rows.
LEMMA CalmRole ==
    ASSUME TypeOK, IInv, Calm, CalmCore, NEW u \in Task,
           Stop \/ RefreshQueueGroup \/ RecoverTaskBasics \/ Crash
    PROVE  CalmTask(u)'
<1> USE NoneAssumption, ConstantsAssumption
    DEF CalmCore, CalmTask, Calm, MemoryInv, LockInv, AgreeInv, CopyInv, PendingInv, TallyInv,
        Collected, Shaped, late, TypeOK, HasRow, Live, Terminal, TB, At, Cached
<1>1. CASE Stop
  BY <1>1 DEF Stop, mem
<1>2. CASE RefreshQueueGroup
  BY <1>2 DEF RefreshQueueGroup, budget
<1>3. CASE RecoverTaskBasics
  BY <1>3 DEF RecoverTaskBasics, Unreleased, budget
<1>4. CASE Crash
  BY <1>4 DEF Crash
<1> QED  BY <1>1, <1>2, <1>3, <1>4

\* Who holds a project lock, and what a server that is not running has in memory.
LEMMA CalmLocks ==
    ASSUME TypeOK, IInv, Calm, CalmCore, NEW t \in Task, TaskNext(t)
    PROVE  MemoryInv' /\ LockInv'
<1> USE NoneAssumption, ConstantsAssumption
    DEF CalmCore, MemoryInv, LockInv, TypeOK, At, Cached
<1>1. role = "running" /\ role' = role
  BY DEF TaskNext, CreateLock, Creating, CreateInsert, CreateRow, CreateExtension, Save, Saving, Picking,
     PickLaunch, PickLaunchFail, PickStore, DelayedWrite, Track, Keep, KeepClientLost,
       KeepTimeout, KeepUnhealthy, Keeping, ReleaseTask, FallSilent, UpdateHeartbeat, CleanCheck,
     OnCleanNotify, Cleaning, CleanLock, CleanCollect, CleanFree, RetireCheck, RetireTask, Terminated, Faulty,
     CreateRowFail, CreateExtensionFail, SaveFail, DelayedWriteFail, CleanFreeFail
<1>2. MemoryInv'
  BY <1>1
<1>3. CASE CreateLock(t)
  <2>1. job'[t] # None /\ job'[t].op = "create" /\ job'[t].pc = "insert"
    <3>1. InitTB \in TB /\ "create" \in Op /\ "insert" \in Pc
      BY DEF InitTB, TB, Live, Op, Pc
    <3>2. job'[t] = Hold("create", "insert", InitTB)
      BY <1>3 DEF CreateLock, Lock
    <3> QED  BY <3>1, <3>2, HoldIsHeld
  <2> QED  BY <1>2, <1>3, <2>1 DEF CreateLock, Lock
<1>4. CASE CreateInsert(t)
  BY <1>2, <1>4 DEF CreateInsert, Continue
<1>5. ASSUME ~CreateLock(t), ~CreateInsert(t)
      PROVE  MemoryInv' /\ LockInv'
  <2>1. plock' = plock
    BY <1>5 DEF TaskNext, Creating, CreateRow, CreateExtension, Save, Picking,
       PickLaunch, PickLaunchFail, PickStore, DelayedWrite, Track, Keep, KeepClientLost,
       KeepTimeout, KeepUnhealthy, Keeping, ReleaseTask, FallSilent, UpdateHeartbeat, CleanCheck,
       OnCleanNotify, Cleaning, CleanLock, CleanCollect, CleanFree, RetireCheck, RetireTask, Faulty,
       CreateRowFail, CreateExtensionFail, SaveFail, DelayedWriteFail, CleanFreeFail, mem
  <2>2. \A s \in Task : s # t => job'[s] = job[s]
    BY <1>5 DEF TaskNext, Creating, CreateRow, CreateExtension, Save, EndSave, Picking,
       PickLaunch, PickLaunchFail, PickStore, DelayedWrite, Track, Keep, KeepClientLost,
       KeepTimeout, KeepUnhealthy, Keeping, ReleaseTask, FallSilent, UpdateHeartbeat, CleanCheck,
       OnCleanNotify, Cleaning, CleanLock, CleanCollect, CleanFree, RetireCheck, RetireTask, Faulty,
       CreateRowFail, CreateExtensionFail, SaveFail, DelayedWriteFail, CleanFreeFail, mem,
       Lock, UnLock, Continue
  <2>3. At(t, "create", "insert") => job'[t] = job[t]
    BY <1>5 DEF TaskNext, Creating, CreateRow, CreateExtension, Save, Saving, Picking,
       PickLaunch, PickLaunchFail, PickStore, DelayedWrite, Track, Keep, KeepClientLost,
       KeepTimeout, KeepUnhealthy, Keeping, ReleaseTask, FallSilent, UpdateHeartbeat, CleanCheck,
       OnCleanNotify, Cleaning, CleanLock, CleanCollect, CleanFree, RetireCheck, RetireTask, Faulty,
       CreateRowFail, CreateExtensionFail, SaveFail, DelayedWriteFail, CleanFreeFail, mem, Lock
  <2> QED  BY <1>2, <2>1, <2>2, <2>3
<1> QED  BY <1>3, <1>4, <1>5

\* Of the steps of a task only CreateLock lets another task occupy a project.
LEMMA OccupiesStep ==
    ASSUME TypeOK, IInv, Calm, CalmCore, NEW u \in Task, NEW t \in Task, TaskNext(t), ~CreateLock(t),
           Occupies(u)'
    PROVE  Occupies(u)
<1> USE NoneAssumption, ConstantsAssumption
    DEF CalmCore, CalmTask, LockInv, AgreeInv, CopyInv, TypeOK, IInv, JobInv,
        HasRow, Live, Terminal, TB, At, Cached, Occupies
<1>1. CASE CreateInsert(t)
  BY <1>1 DEF CreateInsert
<1>2. CASE CreateRow(t)
  BY <1>2 DEF CreateRow
<1>3. CASE CreateRowFail(t)
  BY <1>3 DEF CreateRowFail, DeleteTB, Fault, Calm
<1>4. CASE Save(t)
  <2>1. Saving(t) /\ db[t] # None
    BY <1>4 DEF Save, Saving, LateInv, Departed
  <2>2. job[t].tb.st \in Live => tbm[t] # None /\ tbm[t].st \in Live
    <3>1. job[t] # None /\ job[t].pc = "save" /\ tbm[t] # None
      BY <2>1, HeldIsTyped DEF Saving
    <3>2. CASE job[t].op = "create"
      BY <3>1, <3>2 DEF InitTB
    <3>3. CASE job[t].op \in {"track", "keep", "release"}
      BY <3>1, <3>3
    <3>4. CASE job[t].op = "clean"
      <4>1. job[t].tb = ShutDown(tbm[t]) /\ tbm[t].st \in Terminal
        BY <3>1, <3>4
      <4>2. ShutDown(tbm[t]).st = tbm[t].st
        BY <3>1 DEF ShutDown
      <4> QED  BY <4>1, <4>2
    <3> QED  BY <3>1, <3>2, <3>3, <3>4
  <2>3. /\ tbm' = [tbm EXCEPT ![t] = job[t].tb] /\ db' = [db EXCEPT ![t] = job[t].tb]
        /\ plock' = plock
    BY <1>4, <2>1 DEF Save, PutTB, UpdateRow
  <2> QED  BY <2>2, <2>3
<1>5. CASE SaveFail(t)
  BY <1>5 DEF SaveFail, Fault, Calm
<1>6. CASE PickStore(t)
  <2>1. tbm[t] # None /\ tbm[t].st = "staging"
    BY <1>6 DEF PickStore
  <2> QED  BY <1>6, <2>1 DEF PickStore, PutTB
<1>7. CASE DelayedWrite(t)
  BY <1>7 DEF DelayedWrite, mem, LateInv, PendingInv, Shaped
<1>8. CASE RetireTask(t)
  BY <1>8 DEF RetireTask, DeleteTB
<1>9. ASSUME UNCHANGED <<tbm, db, plock>> PROVE Occupies(u)
  BY <1>9
<1> QED
  <2>1. \/ CreateInsert(t) \/ CreateRow(t) \/ CreateRowFail(t) \/ Save(t) \/ SaveFail(t)
        \/ PickStore(t) \/ DelayedWrite(t) \/ RetireTask(t) \/ UNCHANGED <<tbm, db, plock>>
    BY DEF TaskNext, Creating, CreateExtension, Picking, PickLaunch, PickLaunchFail, Track, Keep,
       KeepClientLost, KeepTimeout, KeepUnhealthy, Keeping, ReleaseTask, FallSilent, UpdateHeartbeat,
       CleanCheck, OnCleanNotify, Cleaning, CleanLock, CleanCollect, CleanFree, RetireCheck,
       Faulty, CreateExtensionFail, DelayedWriteFail, CleanFreeFail, mem
  <2> QED  BY <2>1, <1>1, <1>2, <1>3, <1>4, <1>5, <1>6, <1>7, <1>8, <1>9

\* Nor does the server as a whole.
LEMMA OccupiesRole ==
    ASSUME TypeOK, IInv, Calm, CalmCore, NEW u \in Task,
           \/ UNCHANGED <<tbm, db, plock>>
           \/ RefreshQueueGroup \/ RecoverTaskBasics \/ Crash,
           Occupies(u)'
    PROVE  Occupies(u)
<1> USE NoneAssumption, ConstantsAssumption DEF TypeOK, HasRow, Cached, Occupies
<1>1. CASE RefreshQueueGroup \/ UNCHANGED <<tbm, db, plock>>
  BY <1>1 DEF RefreshQueueGroup
<1>2. CASE RecoverTaskBasics
  BY <1>2 DEF RecoverTaskBasics, Unreleased
<1>3. CASE Crash
  BY <1>3 DEF Crash
<1> QED  BY <1>1, <1>2, <1>3

\* Fewer tasks than before occupy a project.
LEMMA RoomIsKept ==
    ASSUME RoomInv, ConstantsAssumption, \A u \in Task : Occupies(u)' => Occupies(u)
    PROVE  RoomInv'
<1>1. \A p \in Project : Limit(p) \in Nat
  BY ConstantsAssumption DEF Limit, DefaultMaxParallel
<1> SUFFICES ASSUME NEW p \in Project
             PROVE  (IsFiniteSet(Occupying(p)) /\ Cardinality(Occupying(p)) <= Limit(p))'
  BY DEF RoomInv
<1>2. Occupying(p)' \in SUBSET Occupying(p)
  BY DEF Occupying
<1>3. IsFiniteSet(Occupying(p)) /\ Cardinality(Occupying(p)) <= Limit(p)
  BY DEF RoomInv
<1> DEFINE S == Occupying(p)'
<1> HIDE DEF S
<1>4. S \in SUBSET Occupying(p)
  BY <1>2 DEF S
<1>5. IsFiniteSet(S) /\ Cardinality(S) <= Cardinality(Occupying(p))
  BY <1>3, <1>4, FS_Subset
<1>6. Cardinality(S) \in Nat /\ Cardinality(Occupying(p)) \in Nat
  BY <1>3, <1>5, FS_CardinalityType
<1>7. IsFiniteSet(S) /\ Cardinality(S) <= Limit(p)
  BY <1>1, <1>3, <1>5, <1>6
<1> QED  BY <1>7 DEF S, Limit

\* createTask counts the unterminated tasks of the cache: under the project
\* lock of a running server these are all that occupy the project.
LEMMA CountedAreAll ==
    ASSUME TypeOK, CalmCore, NEW p \in Project, role = "running", plock[p] = None
    PROVE  Occupying(p) = Unterminated(p)
<1> USE NoneAssumption, ConstantsAssumption
    DEF TypeOK, CalmCore, CalmTask, AgreeInv, Shaped, HasRow, Live, Terminal, TB, Cached,
        Occupies, Occupying, Unterminated
<1>1. ASSUME NEW u \in Task, ProjectOf[u] = p, Occupies(u) PROVE Cached(u, Live)
  BY <1>1
<1>2. ASSUME NEW u \in Task, Cached(u, Live) PROVE Occupies(u)
  BY <1>2
<1> HIDE DEF Occupies, Cached
<1> QED  BY <1>1, <1>2

\* The creation that takes the project lock finds room for one more.
LEMMA RoomCreate ==
    ASSUME TypeOK, IInv, Calm, CalmCore, RoomInv, NEW t \in Task, CreateLock(t)
    PROVE  RoomInv'
<1> DEFINE q == ProjectOf[t]
<1>1. q \in Project /\ \A p \in Project : Limit(p) \in Nat
  BY ConstantsAssumption DEF Limit, DefaultMaxParallel
<1>2. /\ plock[q] = None /\ role = "running" /\ plock' = [plock EXCEPT ![q] = t]
      /\ Cardinality(Unterminated(q)) < Limit(q) /\ UNCHANGED <<tbm, db>>
  BY DEF CreateLock
<1>3. \A u \in Task : u # t /\ Occupies(u)' => Occupies(u)
  BY <1>2, ConstantsAssumption DEF Occupies, Cached, HasRow, TypeOK
<1> SUFFICES ASSUME NEW p \in Project
             PROVE  (IsFiniteSet(Occupying(p)) /\ Cardinality(Occupying(p)) <= Limit(p))'
  BY DEF RoomInv
<1>4. IsFiniteSet(Occupying(p)) /\ Cardinality(Occupying(p)) <= Limit(p)
  BY DEF RoomInv
<1> DEFINE S == Occupying(p)'
<1>5. S \subseteq IF p = q THEN Occupying(p) \cup {t} ELSE Occupying(p)
  <2> HIDE DEF q
  <2>1. S \subseteq {u \in Task : ProjectOf[u] = p /\ (u = t \/ Occupies(u))}
    BY <1>3 DEF Occupying
  <2>2. p # q => ProjectOf[t] # p
    BY DEF q
  <2> QED  BY <2>1, <2>2 DEF Occupying
<1> HIDE DEF S, q
<1>6. IsFiniteSet(S) /\ Cardinality(S) <= Limit(p)
  <2>1. Cardinality(Occupying(p)) \in Nat
    BY <1>4, FS_CardinalityType
  <2>2. CASE p = q
    <3>1. Cardinality(Occupying(p)) < Limit(p)
      BY <1>2, <2>2, CountedAreAll
    <3> DEFINE T == Occupying(p) \cup {t}
    <3>2. IsFiniteSet(T) /\ Cardinality(T) <= Cardinality(Occupying(p)) + 1
      BY <1>4, <2>1, FS_AddElement
    <3> HIDE DEF T
    <3>3. S \in SUBSET T
      BY <1>5, <2>2 DEF T
    <3>4. IsFiniteSet(S) /\ Cardinality(S) <= Cardinality(T)
      BY <3>2, <3>3, FS_Subset
    <3>5. Cardinality(S) \in Nat /\ Cardinality(T) \in Nat
      BY <3>2, <3>4, FS_CardinalityType
    <3> QED  BY <1>1, <2>1, <3>1, <3>2, <3>4, <3>5
  <2>3. CASE p # q
    <3>1. IsFiniteSet(S) /\ Cardinality(S) <= Cardinality(Occupying(p))
      BY <1>4, <1>5, <2>3, FS_Subset
    <3>2. Cardinality(S) \in Nat
      BY <3>1, FS_CardinalityType
    <3> QED  BY <1>1, <1>4, <2>1, <3>1, <3>2
  <2> QED  BY <2>2, <2>3
<1> QED  BY <1>6 DEF S, Limit

\* CalmInv is an invariant of a server that keeps its role.
THEOREM CalmInductive == ASSUME Calm PROVE Spec => []CalmInv
<1>1. Init => CalmInv
  <2> SUFFICES ASSUME Init PROVE CalmInv
    OBVIOUS
  <2>1. /\ \A t \in Task : tbm[t] = None /\ db[t] = None /\ job[t] = None
        /\ \A p \in Project : plock[p] = None
        /\ queue = {} /\ delayed = {} /\ cleaning = {} /\ cleanCh = {} /\ retiring = {}
    BY DEF Init
  <2>2. MemoryInv /\ LockInv
    BY <2>1 DEF MemoryInv, LockInv
  <2>3. RoomInv
    <3>1. \A p \in Project : Occupying(p) = {} /\ Limit(p) \in Nat
      BY <2>1, ConstantsAssumption, NoneAssumption
         DEF Occupying, Occupies, Cached, HasRow, Limit, DefaultMaxParallel
    <3> QED  BY <3>1, FS_EmptySet DEF RoomInv
  <2>4. ASSUME NEW t \in Task PROVE AgreeInv(t) /\ CopyInv(t) /\ PendingInv(t)
    BY <2>1, <2>4 DEF AgreeInv, CopyInv, PendingInv, HasRow, Init
  <2>5. ASSUME NEW t \in Task PROVE TallyInv(t)
    <3>1. counted[t] = 0 /\ collected[t] = 0 /\ faults = 0 /\ crashes = 0
      BY DEF Init
    <3>2. ~Collected(t)
      BY <2>1 DEF Collected, HasRow, At
    <3> QED  BY <3>1, <3>2 DEF TallyInv
  <2> QED  BY <2>2, <2>3, <2>4, <2>5 DEF CalmInv
<1>2. TypeOK /\ IInv /\ CalmInv /\ [Next]_vars => CalmInv'
  <2> SUFFICES ASSUME TypeOK, IInv, CalmInv, [Next]_vars PROVE CalmInv'
    OBVIOUS
  <2>0. CalmCore /\ RoomInv
    BY DEF CalmInv, CalmCore, CalmTask
  <2>1. CASE \E t \in Task : TaskNext(t)
    <3>1. PICK t \in Task : TaskNext(t)
      BY <2>1
    <3>2. ASSUME NEW u \in Task PROVE CalmTask(u)'
      BY <2>0, <3>1, CalmCreate, CalmSave, CalmPick, CalmSupervision, CalmClean
         DEF TaskNext, Creating, Picking, Cleaning, Faulty, Watching
    <3>3. MemoryInv' /\ LockInv'
      BY <2>0, <3>1, CalmLocks
    <3>4. RoomInv'
      BY <2>0, <3>1, RoomCreate, OccupiesStep, RoomIsKept, ConstantsAssumption
    <3> QED  BY <3>2, <3>3, <3>4 DEF CalmInv, CalmTask
  <2>2. CASE \E k \in Picker : PickSelect(k) \/ PickLock(k)
    <3>1. PICK k \in Picker : PickSelect(k) \/ PickLock(k)
      BY <2>2
    <3>2. ASSUME NEW u \in Task PROVE CalmTask(u)'
      BY <2>0, <3>1, CalmSelect
    <3>3. /\ UNCHANGED <<role, tbm, queue, plock, db, delayed, cleaning, cleanCh, retiring>>
          /\ PickSelect(k) => job' = job
      BY <3>1 DEF PickSelect, PickLock, late
    <3>4. MemoryInv' /\ LockInv'
      BY <2>0, <3>1, <3>3 DEF PickLock, Lock, CalmCore, MemoryInv, LockInv, At, Cached, TypeOK
    <3>5. RoomInv'
      BY <2>0, <3>3, OccupiesRole, RoomIsKept, ConstantsAssumption
    <3> QED  BY <3>2, <3>4, <3>5 DEF CalmInv, CalmTask
  <2>3. CASE RefreshQueueGroup \/ RecoverTaskBasics \/ Crash
    <3>1. ASSUME NEW u \in Task PROVE CalmTask(u)'
      BY <2>0, <2>3, CalmRole
    <3>2. MemoryInv' /\ LockInv'
      BY <2>0, <2>3 DEF CalmCore, MemoryInv, LockInv, TypeOK,
         RefreshQueueGroup, RecoverTaskBasics, Crash, At, late
    <3>3. RoomInv'
      BY <2>0, <2>3, OccupiesRole, RoomIsKept, ConstantsAssumption
    <3> QED  BY <3>1, <3>2, <3>3 DEF CalmInv, CalmTask
  <2>4. CASE UNCHANGED vars
    <3>1. UNCHANGED <<role, tbm, queue, job, plock, db, delayed,
                      cleaning, cleanCh, retiring, collected, counted, faults, crashes>>
      BY <2>4 DEF vars, mem, late, budget
    <3>2. MemoryInv' /\ LockInv'
      BY <2>0, <3>1 DEF CalmCore, MemoryInv, LockInv, At
    <3>3. ASSUME NEW u \in Task PROVE CalmTask(u)'
      BY <2>0, <3>1 DEF CalmCore, CalmTask, AgreeInv, CopyInv, PendingInv, TallyInv, Collected, HasRow, At
    <3>4. RoomInv'
      BY <2>0, <3>1, OccupiesRole, RoomIsKept, ConstantsAssumption
    <3> QED  BY <3>2, <3>3, <3>4 DEF CalmInv, CalmTask
  <2>5. ~Stop
    BY DEF Stop, Calm, TypeOK
  <2>6. CASE Terminating
    BY <2>4, <2>6 DEF Terminating
  <2> QED  BY <2>1, <2>2, <2>3, <2>4, <2>5, <2>6 DEF Next
<1> QED  BY <1>1, <1>2, Inductive, PTL DEF Spec

\* No project has more unterminated tasks in the cache than its concurrency
\* allows, however its creations interleave, fail and crash.
THEOREM ConcurrencyIsRespected == ASSUME Calm PROVE Spec => []ConcurrencyRespected
<1>1. CalmInv => ConcurrencyRespected
  <2> SUFFICES ASSUME CalmInv, NEW p \in Project
               PROVE  Cardinality(Unterminated(p)) <= Limit(p)
    BY DEF ConcurrencyRespected
  <2>1. IsFiniteSet(Occupying(p)) /\ Cardinality(Occupying(p)) <= Limit(p) /\ Limit(p) \in Nat
    BY ConstantsAssumption DEF CalmInv, RoomInv, Limit, DefaultMaxParallel
  <2>2. Unterminated(p) \in SUBSET Occupying(p)
    BY DEF Unterminated, Occupying, Occupies
  <2>3. /\ IsFiniteSet(Unterminated(p))
        /\ Cardinality(Unterminated(p)) <= Cardinality(Occupying(p))
    BY <2>1, <2>2, FS_Subset
  <2>4. Cardinality(Unterminated(p)) \in Nat /\ Cardinality(Occupying(p)) \in Nat
    BY <2>1, <2>3, FS_CardinalityType
  <2> QED  BY <2>1, <2>3, <2>4
<1> QED  BY <1>1, CalmInductive, PTL

\* Every row that is not released is in the cache of a running server, also
\* when createTask failed or the server died in the middle of it.
THEOREM NoRowIsOrphaned == ASSUME Calm PROVE Spec => []NoOrphanRow
<1>1. CalmInv => NoOrphanRow
  BY DEF CalmInv, AgreeInv, HasRow, NoOrphanRow, Unreleased
<1> QED  BY <1>1, CalmInductive, PTL

\* What a client was told of a task survives a crash, except that a task that
\* is starting may be found staging again.
THEOREM CacheSurvives == ASSUME Calm PROVE Spec => []CacheIsDurable
<1>1. CalmInv => CacheIsDurable
  BY DEF CalmInv, AgreeInv, HasRow, CacheIsDurable
<1> QED  BY <1>1, CalmInductive, PTL

\* A task is counted into its project's statistics once, and more often or not
\* at all only by as much as calls failed and the server crashed.
THEOREM TaskIsCountedOnce == ASSUME Calm PROVE Spec => []CountedOnce
<1>1. TypeOK /\ CalmInv => CountedOnce
  <2> SUFFICES ASSUME TypeOK, CalmInv, NEW t \in Task
               PROVE  /\ counted[t] <= 1 + faults + crashes
                      /\ collected[t] <= 1 + faults + crashes
                      /\ (db[t] # None /\ db[t].rel) => counted[t] + faults >= 1
    BY DEF CountedOnce
  <2>1. TallyInv(t) /\ counted[t] \in Nat /\ collected[t] \in Nat /\ faults \in Nat /\ crashes \in Nat
    BY DEF CalmInv, TypeOK
  <2> QED  BY <2>1 DEF TallyInv, Collected, HasRow
<1> QED  BY <1>1, CalmInductive, TypeCorrect, PTL

\* No late or delayed write brings a row that is over back to life.
THEOREM OverIsOver == ASSUME Calm PROVE Spec => RowStaysTerminated
<1>1. TypeOK /\ IInv /\ CalmInv /\ [Next]_vars =>
        [\A t \in Task : (db[t] # None /\ db[t].st \in Terminal) =>
            db'[t].st = db[t].st /\ (db[t].rel => db'[t].rel)]_vars
  <2> SUFFICES ASSUME TypeOK, IInv, CalmInv, Next,
                      NEW u \in Task, db[u] # None, db[u].st \in Terminal
               PROVE  db'[u].st = db[u].st /\ (db[u].rel => db'[u].rel)
    OBVIOUS
  <2> USE NoneAssumption DEF TypeOK, IInv, JobInv, CalmInv, AgreeInv, CopyInv, HasRow, Live, Terminal, TB, At
  <2>1. ASSUME NEW t \in Task, TaskNext(t) PROVE db'[u].st = db[u].st /\ (db[u].rel => db'[u].rel)
    <3>1. CASE Save(t)
      <4>1. db'[u] = db[u] \/ (u = t /\ db'[u] = job[u].tb)
        BY <3>1 DEF Save, UpdateRow
      <4>2. ASSUME u = t PROVE job[u].op = "clean" /\ job[u].tb = ShutDown(db[u])
        BY <3>1, <4>2 DEF Save, Saving, InitTB
      <4>3. ShutDown(db[u]).st = db[u].st /\ ShutDown(db[u]).rel
        BY DEF ShutDown
      <4> QED  BY <4>1, <4>2, <4>3
    <3>2. CASE DelayedWrite(t)
      BY <3>2 DEF DelayedWrite, PendingInv, LateInv
    <3>3. CASE CreateRow(t)
      BY <3>3 DEF CreateRow
    <3>4. CASE ~(Save(t) \/ DelayedWrite(t) \/ CreateRow(t))
      <4>1. db' = db
        <5>1. ~Fault("lost")
          BY DEF Fault, Calm
        <5> QED
          BY <2>1, <3>4, <5>1 DEF TaskNext, CreateLock, Creating, CreateInsert, CreateExtension,
             Picking, PickLaunch, PickLaunchFail, PickStore, Track, Keep, KeepClientLost,
       KeepTimeout, KeepUnhealthy, Keeping, ReleaseTask, FallSilent, UpdateHeartbeat, CleanCheck,
             OnCleanNotify, Cleaning, CleanLock, CleanCollect, CleanFree, RetireCheck, RetireTask, Faulty,
             CreateRowFail, CreateExtensionFail, SaveFail, DelayedWriteFail, CleanFreeFail
      <4> QED  BY <4>1
    <3> QED  BY <3>1, <3>2, <3>3, <3>4
  <2>2. CASE ~\E t \in Task : TaskNext(t)
    <3>1. db' = db
      BY <2>2 DEF Next, PickSelect, PickLock, Stop, RefreshQueueGroup, RecoverTaskBasics, Crash,
         Terminating, vars
    <3> QED  BY <3>1
  <2> QED  BY <2>1, <2>2
<1> QED  BY <1>1, Inductive, CalmInductive, PTL DEF Spec, RowStaysTerminated

\* Resources are taken only from a task that is over at that moment.
THEOREM RunningKeepsItsWorkers == ASSUME Calm PROVE Spec => OnlyTerminatedFreed
<1>1. TypeOK /\ IInv /\ CalmInv /\ [Next]_vars => [\A t \in res \ res' : Cached(t, Terminal)]_vars
  <2> SUFFICES ASSUME TypeOK, IInv, CalmInv, Next, NEW u \in res, u \notin res'
               PROVE  Cached(u, Terminal)
    OBVIOUS
  <2>1. PICK t \in Task : CleanFree(t)
    <3>1. CASE \E t \in Task : TaskNext(t)
      BY <3>1 DEF TaskNext, CreateLock, Creating, CreateInsert, CreateRow, CreateExtension, Save,
         Picking, PickLaunch, PickLaunchFail, PickStore, DelayedWrite, Track, Keep, KeepClientLost, KeepTimeout, KeepUnhealthy, Keeping,
         FallSilent, UpdateHeartbeat, ReleaseTask,
         CleanCheck, OnCleanNotify, Cleaning, CleanLock, CleanCollect, RetireCheck, RetireTask, Faulty,
         CreateRowFail, CreateExtensionFail, SaveFail, DelayedWriteFail, CleanFreeFail
    <3>2. CASE ~\E t \in Task : TaskNext(t)
      BY <3>2 DEF Next, PickSelect, PickLock, Stop, RefreshQueueGroup, RecoverTaskBasics, Crash,
         Terminating, vars
    <3> QED  BY <3>1, <3>2
  <2>2. u = t /\ At(t, "clean", "free")
    BY <2>1 DEF CleanFree
  <2>3. CopyInv(t)
    BY DEF CalmInv
  <2> QED  BY <2>2, <2>3 DEF CopyInv, Cached, At
<1> QED  BY <1>1, Inductive, CalmInductive, PTL DEF Spec, OnlyTerminatedFreed
=============================================================================
