---------------------------- MODULE MCRecurring -----------------------------
(***************************************************************************)
(* A job across a change of the clock; offsets and times of New York.      *)
(***************************************************************************)
EXTENDS RecurringWatcher

\* The clock goes forward at 2:00 of day 4, or back at 2:00.
Spring == [before |-> -10, at |-> 4 * DayLen + 14, after |-> -8]
Fall == [before |-> -8, at |-> 4 * DayLen + 12, after |-> -10]

Daily(n) == [freq |-> "DAILY", interval |-> n]
Weekly(n) == [freq |-> "WEEKLY", interval |-> n]

\* 2:30 is skipped in spring, 1:30 occurs twice in fall.
WestPlans ==
  {[zone |-> Spring, clock |-> 5, rule |-> Daily(1), chained |-> FALSE],
   [zone |-> Spring, clock |-> 16, rule |-> Daily(2), chained |-> FALSE],
   [zone |-> Fall, clock |-> 3, rule |-> Daily(1), chained |-> FALSE],
   [zone |-> Fall, clock |-> 3, rule |-> Weekly(1), chained |-> FALSE],
   [zone |-> Spring, clock |-> 5, rule |-> Daily(1), chained |-> TRUE]}

\* Berlin: the clock goes back at 3:00 of day 4, and 2:30 occurs twice.
EastPlans ==
  {[zone |-> [before |-> 4, at |-> 4 * DayLen + 2, after |-> 2], clock |-> 5, rule |-> Daily(1), chained |-> FALSE]}

\* DST policy of thoughts/qrspi/2026-06-08-production-improvement-spec/
\* ticket.md:368 "If local time occurs twice, run once at the first occurrence":
\* no two runs of a series are due at the same instant.
RunsOncePerOccurrence ==
  \A r, q \in Runs :
    r # q /\ r[1] = q[1] /\ status[r] # "none" /\ status[q] # "none" => due[r] # due[q]

=============================================================================
