--------------------------- MODULE MCCrmResource ---------------------------
(* CrmResource for TLC: two tasks that together want more than the block    *)
(* has, one of which stays.  While both use the block, one call fails or one *)
(* crash happens; what several of them do is followed for the other alone,  *)
(* before the one that stays is launched.                                   *)
EXTENDS CrmResource, TLC

CONSTANT Stays
MCWant == [r \in Resource |-> IF r = Stays THEN 1 ELSE 2]

OneAtATime ==
    \/ faults + crashes <= 1
    \/ cache[Stays] = None /\ row[Stays] = None /\ task[Stays] = "staging"
=============================================================================
