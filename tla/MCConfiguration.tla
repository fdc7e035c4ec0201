--------------------------- MODULE MCConfiguration ---------------------------
(***************************************************************************)
(* Configuration for TLC: one owner, one client that saves, restores and   *)
(* upgrades, two values of the domain. The user's editor, the reloads of   *)
(* the owner and the upgrade give every operation a rival.                 *)
(***************************************************************************)
EXTENDS Configuration
=============================================================================
