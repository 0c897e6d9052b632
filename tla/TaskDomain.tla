----------------------------- MODULE TaskDomain -----------------------------
(***************************************************************************)
(* The vocabulary of internal/task/domain.go: jobs, their runs, the run    *)
(* statuses and the transitions the Mark methods allow on an in-memory     *)
(* JobRun.  A run is named by its job and its sequence number, the pair    *)
(* that job_runs keeps unique and that the idempotency key spells.         *)
(***************************************************************************)
EXTENDS Integers, FiniteSets

CONSTANTS
  Jobs,           \* the jobs that may be created
  Tenants,        \* the tenants that own them
  NoJob,          \* the parent of a job that is not chained
  MaxSeq,         \* bound: run sequence numbers per job
  TenantOf,       \* the tenant of each job
  Parent,         \* parent_job_id of each job, or NoJob
  Trigger,        \* trigger_on_parent_status of each job
  SideEffecting,  \* the jobs created with side_effecting = true
  MaxAttempts     \* maxAttempts of worker.go (3)

Outcomes == {"success", "failed"}

Terminal == {"success", "failed", "cancelled"}

ASSUME DomainAssumption ==
  /\ NoJob \notin Jobs
  /\ IsFiniteSet(Jobs)
  /\ MaxSeq \in Nat \ {0}
  /\ TenantOf \in [Jobs -> Tenants]
  /\ Parent \in [Jobs -> Jobs \cup {NoJob}]
  /\ Trigger \in [Jobs -> Terminal]
  /\ SideEffecting \subseteq Jobs
  /\ MaxAttempts \in Nat \ {0}

Statuses == {"pending", "queued", "running", "retry"} \cup Terminal

Runs == Jobs \X (1 .. MaxSeq)

JobOf(r) == r[1]

\* The guards of the Mark methods, as the statuses they accept.
MarkQueuedFrom == {"pending", "retry"}
MarkRunningFrom == {"queued", "retry"}
IsTerminal(s) == s \in Terminal

\* Mutant: counts the attempts made before this one only.
LastAttempt_OffByOne(attempts) == attempts >= MaxAttempts

\* handleFailure gives up when this attempt was the last one allowed.
LastAttempt(attempts) == attempts + 1 >= MaxAttempts

=============================================================================
