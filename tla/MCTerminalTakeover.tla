------------------------- MODULE MCTerminalTakeover -------------------------
(***************************************************************************)
(* Instances of TerminalTakeover for TLC.                                  *)
(***************************************************************************)
EXTENDS TerminalTakeover

MCSameTask == [r \in Runs |-> "task"]
MCDelay == [c \in 0 .. MaxAttempts - 1 |-> 1]
MCAtOnce == [c \in 0 .. MaxAttempts - 1 |-> 0]
=============================================================================
