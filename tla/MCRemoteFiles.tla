---------------------------- MODULE MCRemoteFiles ----------------------------
(* RemoteFiles for TLC.  The properties say nothing of what follows once     *)
(* crossed is true, which stays true: those states are not followed.         *)
EXTENDS RemoteFiles, TLC

Uncrossed == ~crossed
=============================================================================
