---------------------------- MODULE MCWorkerOffer ----------------------------
(* WorkerOffer for TLC.                                                      *)
EXTENDS WorkerOffer, TLC

CONSTANTS c1, c2

Asks(c) == IF c = c1 THEN 2 ELSE 1
Connections(c) == IF c = c1 THEN 2 ELSE 1
Priorities(c) == IF c = c1 THEN {1, 2} ELSE {2}

\* No property says anything once raced, and only BookedIsExact once astray: it
\* is then followed as long as nothing has failed.
Telling == ~raced /\ (astray => events = 0)
=============================================================================
