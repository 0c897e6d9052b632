---------------------------- MODULE MCScheduler -----------------------------
(***************************************************************************)
(* Values for the constants of Scheduler: who owns the jobs and how they   *)
(* are chained.                                                            *)
(***************************************************************************)
EXTENDS Scheduler, TLC

CONSTANTS a, b, t1

\* All jobs belong to one tenant.
SameTenant == [j \in Jobs |-> t1]

\* No job is chained; the trigger is then never read.
Unchained == [j \in Jobs |-> NoJob]

\* b is triggered by a.
Chained == [j \in Jobs |-> IF j = b THEN a ELSE NoJob]

OnSuccess == [j \in Jobs |-> "success"]
OnFailed == [j \in Jobs |-> "failed"]

\* Workers differ in their name only.
WorkerSymmetry == Permutations(Workers)

\* So do the jobs, where they are not chained and all or none side-effecting.
FullSymmetry == Permutations(Workers) \cup Permutations(Jobs)

=============================================================================
