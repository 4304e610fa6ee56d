---------------------------- MODULE MCLocalSlots ----------------------------
(* LocalSlots for TLC: a usage with a limit of one slot, and executions of  *)
(* local tasks, which are counted for the default usage.                    *)
EXTENDS LocalSlots, TLC

CONSTANTS Pre, Trier, Executor

MCUsageLimit == (Pre :> 1) @@ (Default :> TotalSlots)
pre1 == [usage |-> Pre, weight |-> 1, wait |-> TRUE]
exe2 == [usage |-> LocalExe, weight |-> 2, wait |-> TRUE]
try1 == [usage |-> LocalExe, weight |-> 1, wait |-> FALSE]
\* One client tries and one only executes, which keeps the run small.
MCRequest ==
    [c \in Client |->
       IF c = Trier THEN {pre1, try1} ELSE IF c = Executor THEN {exe2} ELSE {pre1, exe2}]
=============================================================================
