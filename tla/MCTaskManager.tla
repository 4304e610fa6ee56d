--------------------------- MODULE MCTaskManager ---------------------------
(* TaskManager for TLC: the tasks belong to one project. *)
EXTENDS TaskManagerInv, TLC

CONSTANTS MCLimit  \* Concurrency setting of every project

MCProjectOf == [t \in Task |-> CHOOSE p \in Project : TRUE]
MCConcurrency == [p \in Project |-> MCLimit]
TaskSymmetry == Permutations(Task)
=============================================================================
