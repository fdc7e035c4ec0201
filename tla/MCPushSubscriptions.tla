------------------------- MODULE MCPushSubscriptions -------------------------
(***************************************************************************)
(* Instances of the push subscriptions for TLC.                            *)
(***************************************************************************)
EXTENDS PushSubscriptions
=============================================================================
