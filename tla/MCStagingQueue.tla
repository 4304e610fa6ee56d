-------------------------- MODULE MCStagingQueue --------------------------
(* StagingQueue for TLC: three priorities, a few moments of creation. *)
EXTENDS StagingQueue

CONSTANT MaxInstant
MCTime == 1..MaxInstant
=============================================================================
