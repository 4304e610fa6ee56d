----------------------------- MODULE MCKeeper -----------------------------
(* Keeper for TLC.  A unit is an eighth of waitHeartBeatRecoverInterval (22 *)
(* seconds); with the three updates of a task that is the least Intervals   *)
(* allow.  Nothing is checked once every task failed, nor a second term and *)
(* a crash in the same behaviour.                                           *)
EXTENDS Keeper

ASSUME TimesAssumption == Intervals

Watching ==
    /\ \E t \in Watched : ~failed[t]
    /\ crashes = 0 \/ term <= 1
=============================================================================
