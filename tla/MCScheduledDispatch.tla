-------------------------- MODULE MCScheduledDispatch --------------------------
(***************************************************************************)
(* An instance of ScheduledDispatch for TLC whose schedules are those of   *)
(* Calendar: a daily one in a zone whose clocks are put forward, which     *)
(* goes on after MaxClock, so that it always has a next occurrence, and    *)
(* one that occurs once.  TLC evaluates that the searches of the calendar  *)
(* are exact for all zones, rules and instants below, which                *)
(* ScheduledDispatch_proofs proves for every one.                          *)
(***************************************************************************)
EXTENDS ScheduledDispatch, Calendar

MCZones == [switch : 0 .. 3, before : -2 .. 2, after : -2 .. 2]
MCRules == [days : {{0}, {1}, {0, 1}}, time : 0 .. 2]
MCInstants == -2 .. 6

ASSUME SearchesAreExact == NextIsExact /\ LatestIsExact

MCDaily ==
  LET z == [switch |-> 2, before |-> 0, after |-> 2]
      r == [days |-> {0, 1}, time |-> 1]
  IN  {i \in 0 .. 8 : Occurs(z, r, i)}

MCRecurring == [kind |-> "recurring", times |-> MCDaily]
MCOnce == [kind |-> "once", times |-> {2}]
MCSchedules == {MCRecurring, MCOnce}

MCWishes ==
  {[schedule |-> MCRecurring, enabled |-> TRUE, catchUp |-> TRUE],
   [schedule |-> MCRecurring, enabled |-> FALSE, catchUp |-> FALSE],
   [schedule |-> MCOnce, enabled |-> TRUE, catchUp |-> FALSE]}
=============================================================================
