-------------------------- MODULE MCScheduledRuns --------------------------
(***************************************************************************)
(* Instances of ScheduledRuns for TLC.                                     *)
(***************************************************************************)
EXTENDS ScheduledRuns

MCSameTask == [r \in Runs |-> "task"]
MCOwnTask == [r \in Runs |-> r]
MCDelay == [c \in 0 .. MaxAttempts - 1 |-> 1]
=============================================================================
