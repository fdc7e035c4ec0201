---------------------------- MODULE MCEventStream ----------------------------
(***************************************************************************)
(* Instances of the event stream for TLC: cfgs name two slots.             *)
(***************************************************************************)
EXTENDS EventStream
=============================================================================
