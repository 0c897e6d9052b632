---------------------------- MODULE Recurrence ------------------------------
(***************************************************************************)
(* recurrence.go: the next occurrence of a local time in a time zone.      *)
(* Instants are counted in half hours of UTC.  A zone has one transition:  *)
(* its offset is before until the instant at, and after from then on.  A   *)
(* rule is [freq, interval] as ParseRule returns it; a clock is a time of  *)
(* the day, LocalTime parsed.                                              *)
(***************************************************************************)
EXTENDS Integers, FiniteSetsExt

CONSTANT DayLen  \* half hours in a day (48)

ASSUME DayAssumption == DayLen \in Nat \ {0}

Offset(z, u) == IF u < z.at THEN z.before ELSE z.after

\* The wall clock in zone z at instant u: the day and the time of the day.
DayOf(z, u) == (u + Offset(z, u)) \div DayLen
ClockOf(z, u) == (u + Offset(z, u)) % DayLen

\* time.Date of the Go library.  It takes the offset in force at the wall time
\* read as UTC, and looks again if that offset does not hold at the result.
Date(z, day, clock) ==
  LET wall == day * DayLen + clock
      offset == Offset(z, wall)
      utc == wall - offset
  IN  IF offset = 0 \/ (utc < z.at <=> wall < z.at) THEN utc ELSE wall - Offset(z, utc)

StepDays(rule) == IF rule.freq = "WEEKLY" THEN 7 * rule.interval ELSE rule.interval

\* Mutant: the earlier of two equal wall times is not looked for.
resolveWallTime_AsGiven(z, candidate, clock) == candidate

\* A wall time the zone skips is shifted forward; of a wall time that occurs
\* twice within two hours the first is taken.
resolveWallTime(z, candidate, clock) ==
  LET local == ClockOf(z, candidate)
      same(u) == DayOf(z, u) = DayOf(z, candidate) /\ ClockOf(z, u) = clock
  IN  IF local # clock
      THEN IF clock > local THEN candidate + (clock - local) ELSE candidate
      ELSE Min({u \in candidate - 4 .. candidate + 4 : same(u)})

NextOccurrence(rule, clock, z, after) ==
  LET today == DayOf(z, after)
      date == Date(z, today, clock)
  IN  resolveWallTime(z, IF date > after THEN date ELSE Date(z, today + StepDays(rule), clock), clock)

\* Reference, for the properties: the first instant at which the wall clock
\* shows clock on that day; if it never does, the time the clock would show
\* had the zone kept its offset.
FirstInstant(z, day, clock) ==
  LET wall == day * DayLen + clock
      shown == {u \in {wall - z.before, wall - z.after} : u + Offset(z, u) = wall}
  IN  IF shown = {} THEN wall - z.before ELSE Min(shown)

=============================================================================
