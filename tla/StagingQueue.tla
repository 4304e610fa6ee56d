--------------------------- MODULE StagingQueue ---------------------------
(***************************************************************************)
(* The staging queue of an engine (engine/queue.go): one list for every    *)
(* priority, sorted by creation time, and a map from a task to its list    *)
(* element.  Every operation runs under the mutex of the queue.            *)
(*                                                                         *)
(* Check (engine/task.go) brings the priority of a project into range; the *)
(* rows that recover() reads back are put in the queue as they are.        *)
(***************************************************************************)
EXTENDS Integers, Sequences, FiniteSets, SequencesExt

CONSTANTS
    Task,
    MaxTaskPriority,      \* 20
    DefaultTaskPriority,  \* 10
    Time                  \* Values of CreateTime

ASSUME QueueAssumption ==
    /\ MaxTaskPriority \in Nat \ {0}
    /\ DefaultTaskPriority \in 1..MaxTaskPriority
    /\ Time \subseteq Nat

MinTaskPriority == 1
Priority == MinTaskPriority..MaxTaskPriority
Setting == 0..(MaxTaskPriority + 1)  \* what a project may ask for

VARIABLES
    listGroup,  \* The tasks of each priority, in order
    element,    \* taskElementMap: the entry of each task in the queue
    length,
    front       \* The answer of the last First, as a set

vars == <<listGroup, element, length, front>>

Entry == [task: Task, priority: Priority, time: Time]
Known(t) == \E e \in element : e.task = t
EntryOf(t) == CHOOSE e \in element : e.task = t

\* Priorities from high to low.
Descending == [i \in 1..MaxTaskPriority |-> MaxTaskPriority + 1 - i]

All == FlattenSeq([i \in 1..MaxTaskPriority |-> listGroup[Descending[i]]])

\* The priorities some task waits in.
Nonempty == {p \in Priority : listGroup[p] # <<>>}

\* Where the entry of a task is in the list of its priority.
Position(t) ==
    LET s == listGroup[EntryOf(t).priority]
    IN  CHOOSE i \in DOMAIN s : s[i].task = t

Lengths == [p \in Priority |-> Len(listGroup[p])]

RankMutant(t) ==  \* the list of its own priority is counted too
    Position(t) - 1
    + SumFunctionOnSet(Lengths, {p \in Priority : p >= EntryOf(t).priority})

\* The entries before its own, and the lists of the higher priorities.
Rank(t) ==
    Position(t) - 1
    + SumFunctionOnSet(Lengths, {p \in Priority : p > EntryOf(t).priority})

\* Check, when the task is created.
CheckPriority(n) == IF n \notin Priority THEN DefaultTaskPriority ELSE n

\* Behind the last task that was created before.
InsertPosition(e, s) ==
    LET earlier == {i \in DOMAIN s : s[i].time < e.time}
    IN  IF earlier = {} THEN 1 ELSE Max(earlier) + 1

Init ==
    /\ listGroup = [p \in Priority |-> <<>>]
    /\ element = {} /\ length = 0 /\ front = {}

AddMutant(e) ==  \* a task may be added twice
    /\ listGroup' = [listGroup EXCEPT ![e.priority] = InsertAt(@, InsertPosition(e, @), e)]
    /\ element' = {f \in element : f.task # e.task} \cup {e}
    /\ length' = length + 1
    /\ front' = {}

Add(e) ==
    /\ ~Known(e.task)
    /\ listGroup' = [listGroup EXCEPT ![e.priority] = InsertAt(@, InsertPosition(e, @), e)]
    /\ element' = element \cup {e}
    /\ length' = length + 1
    /\ front' = {}

\* The element is a member of one list, the one it was inserted in.
Delete(t) ==
    /\ Known(t)
    /\ listGroup' = [listGroup EXCEPT ![EntryOf(t).priority] = RemoveAt(@, Position(t))]
    /\ element' = {e \in element : e.task # t}
    /\ length' = length - 1
    /\ front' = {}

Clear ==
    /\ listGroup' = [p \in Priority |-> <<>>]
    /\ element' = {} /\ length' = 0 /\ front' = {}

FirstMutant ==  \* from the lowest priority
    /\ front' = {Head(listGroup[p]).task : p \in
         {q \in Nonempty : \A r \in Nonempty : q <= r}}
    /\ UNCHANGED <<listGroup, element, length>>

\* The front of the first list, from the highest priority down, that has one.
First ==
    /\ front' = {Head(listGroup[p]).task : p \in
         {q \in Nonempty : \A r \in Nonempty : q >= r}}
    /\ UNCHANGED <<listGroup, element, length>>

Next ==
    \/ \E t \in Task, n \in Setting, c \in Time :
         Add([task |-> t, priority |-> CheckPriority(n), time |-> c])
    \/ \E t \in Task : Delete(t)
    \/ Clear \/ First

Spec == Init /\ [][Next]_vars

-----------------------------------------------------------------------------
(* Properties. *)

\* All, the lists and the map agree on what is in the queue, and Len counts it.
QueueIsConsistent ==
    /\ ToSet(All) = element
    /\ length = Len(All) /\ length = Cardinality(element)

\* All is in the order the interface promises, priority and then creation time,
\* and the rank the client is told is the number of tasks before its own.
RankIsPosition ==
    /\ \A i, j \in DOMAIN All : i < j =>
        \/ All[i].priority > All[j].priority
        \/ All[i].priority = All[j].priority /\ All[i].time <= All[j].time
    /\ \A e \in element : \E i \in DOMAIN All : All[i] = e /\ Rank(e.task) = i - 1

\* The queue does what StagingTaskQueue promises: its lists are a set of tasks
\* whose First is a best one.
Queue == INSTANCE PriorityQueue WITH waiting <- element
QueueImplementsPromise == Queue!Spec
=============================================================================
