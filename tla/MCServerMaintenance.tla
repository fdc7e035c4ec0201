------------------------- MODULE MCServerMaintenance -------------------------
(***************************************************************************)
(* An instance of ServerMaintenance for TLC.                               *)
(***************************************************************************)
EXTENDS ServerMaintenance
=============================================================================
