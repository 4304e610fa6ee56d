--------------------------- MODULE PriorityQueue ---------------------------
(***************************************************************************)
(* What the interface StagingTaskQueue (engine/queue.go) promises: a set   *)
(* of tasks, and First a task of the highest priority, created before the  *)
(* others of that priority.                                                *)
(***************************************************************************)
EXTENDS Integers

CONSTANTS
    Task,
    Priority,  \* MinTaskPriority..MaxTaskPriority
    Time       \* Values of CreateTime

VARIABLES
    waiting,  \* The tasks of the queue, with priority and creation time
    front     \* The answers First may give

Entry == [task: Task, priority: Priority, time: Time]

Precedes(e, f) ==
    e.priority > f.priority \/ (e.priority = f.priority /\ e.time < f.time)

Best == {e \in waiting : \A f \in waiting : ~Precedes(f, e)}

Init == waiting = {} /\ front = {}

Add(e) ==
    /\ \A f \in waiting : f.task # e.task
    /\ waiting' = waiting \cup {e}
    /\ front' = {}

Delete(t) ==
    /\ waiting' = {e \in waiting : e.task # t}
    /\ front' = {}

Clear == waiting' = {} /\ front' = {}

First ==
    /\ front' \subseteq {e.task : e \in Best}
    /\ (front' = {}) <=> (waiting = {})
    /\ UNCHANGED waiting

Next ==
    \/ \E e \in Entry : Add(e)
    \/ \E t \in Task : Delete(t)
    \/ Clear \/ First

Spec == Init /\ [][Next]_<<waiting, front>>
=============================================================================
