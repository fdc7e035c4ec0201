------------------------------- MODULE Calendar -------------------------------
(***************************************************************************)
(* The calendar of scheduled tasks (backend/src/scheduled-tasks/           *)
(* schedule.ts): the instants at which a daily, weekday or weekly schedule *)
(* occurs in a time zone whose clocks are changed, found by resolving one  *)
(* local minute per day.  A local minute that is skipped has no instant;   *)
(* of one that is repeated the first instant counts.                       *)
(*                                                                         *)
(* Instants and local minutes are numbers.  ScheduledDispatch takes the    *)
(* occurrences of a schedule as a set of instants: this module is how the  *)
(* code finds the members of it.                                           *)
(***************************************************************************)
EXTENDS Integers

CONSTANTS
  Day,         \* minutes of a day
  Week,        \* days of a week
  SearchDays,  \* MAX_SEARCH_DAYS
  Zones,       \* time zones, one change of the clocks each
  Rules        \* the recurring schedules

\* Bound of the checks: the instants a search may start from.
CONSTANT Instants

ASSUME CalendarAssumption ==
  /\ Day \in Nat \ {0} /\ Week \in Nat \ {0} /\ SearchDays \in Nat
  /\ Zones \subseteq [switch : Int, before : -Day .. Day, after : -Day .. Day]
  /\ Rules \subseteq [days : SUBSET (0 .. Week - 1), time : 0 .. Day - 1]
  /\ Instants \subseteq Int

Offset(z, i) == IF i < z.switch THEN z.before ELSE z.after

\* localParts(): what a clock in the zone shows.
Local(z, i) == i + Offset(z, i)

DateOf(m) == m \div Day

Eligible(r, date) == date % Week \in r.days

Least(S)    == {x \in S : \A y \in S : x <= y}
Greatest(S) == {x \in S : \A y \in S : x >= y}

\* The offsets that may apply at a local minute.
Offsets(z, m) ==
  {Offset(z, m + d) : d \in {0, -Day, Day, -(Day \div 2), Day \div 2}}

\* At most one instant.
ResolveLocalMinute(z, m) ==
  Least({i \in {m - o : o \in Offsets(z, m)} : Local(z, i) = m})

OnDate(z, r, date) == ResolveLocalMinute(z, date * Day + r.time)

\* nextOccurrences(schedule, after, 1), one date after the other.
SearchNext(z, r, after) ==
  LET today == DateOf(Local(z, after))
      found == {k \in 0 .. SearchDays :
                  Eligible(r, today + k) /\ \E i \in OnDate(z, r, today + k) : i > after}
  IN  UNION {OnDate(z, r, today + k) : k \in Least(found)}

SearchLatest(z, r, through) ==
  LET today == DateOf(Local(z, through))
      found == {k \in 0 .. SearchDays :
                  Eligible(r, today - k) /\ \E i \in OnDate(z, r, today - k) : i <= through}
  IN  UNION {OnDate(z, r, today - k) : k \in Least(found)}

-----------------------------------------------------------------------------
(* What the searches are for.                                              *)

\* The first instant at which the clocks show a minute of the schedule.
Occurs(z, r, i) ==
  LET m == Local(z, i) IN
  /\ m % Day = r.time /\ Eligible(r, DateOf(m))
  /\ \A j \in i - 2 * Day .. i - 1 : Local(z, j) # m

\* The clocks are not set back over midnight.
KeepsDate(z) == DateOf(Local(z, z.switch - 1)) <= DateOf(Local(z, z.switch))

\* The instants of the dates that a search may reach.
Reach(now) == now - (SearchDays + 3) * Day .. now + (SearchDays + 3) * Day

\* The search for the next occurrence finds the first one after the given
\* instant, across gaps and repetitions of the local time.
NextIsExact ==
  \A z \in Zones, r \in Rules, now \in Instants :
    SearchNext(z, r, now)
      = Least({i \in Reach(now) :
                 /\ Occurs(z, r, i) /\ i > now
                 /\ DateOf(Local(z, i)) <= DateOf(Local(z, now)) + SearchDays})

\* The search for the latest occurrence finds the last one up to the given
\* instant, where the clocks are not set back over midnight.
LatestIsExact ==
  \A z \in Zones, r \in Rules, now \in Instants :
    KeepsDate(z) =>
      SearchLatest(z, r, now)
        = Greatest({i \in Reach(now) :
                      /\ Occurs(z, r, i) /\ i <= now
                      /\ DateOf(Local(z, i)) >= DateOf(Local(z, now)) - SearchDays})
=============================================================================
