--------------------------- MODULE MCRemoteSlots ---------------------------
(* RemoteSlots for TLC: two hosts, of one slot and of two.                  *)
EXTENDS RemoteSlots, TLC

CONSTANTS Small, Big, Stubborn
MCHostList == <<Small, Big>>
MCJobs == (Small :> 1) @@ (Big :> 2)
MCMaxTry == [j \in Job |-> IF j \in Stubborn THEN 2 ELSE 1]
=============================================================================
