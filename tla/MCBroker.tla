------------------------------ MODULE MCBroker ------------------------------
(* One wanted spare of three that are ever launched, with failing calls and *)
(* a crash.                                                                 *)
EXTENDS Broker
=============================================================================
