---------------------------- MODULE MCSelector ----------------------------
(* Selector for TLC: one configured queue, the last tasks in another one. *)
EXTENDS Selector, TLC

CONSTANTS Known, Learned, KnownTask  \* two queues, and the tasks of the first

MCQueueOf == [t \in Task |-> IF t \in KnownTask THEN Known ELSE Learned]
=============================================================================
