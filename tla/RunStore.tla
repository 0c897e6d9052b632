------------------------------ MODULE RunStore ------------------------------
(***************************************************************************)
(* The rows the pipeline shares: job_runs (status and attempts), the       *)
(* outcomes recorded in run_events, and idempotency_records.  Every        *)
(* operator is one SQL statement or one transaction of repo_postgres.go    *)
(* and idempotency_postgres.go, so it is one atomic step; statements are   *)
(* at READ COMMITTED, the pool's default.                                  *)
(***************************************************************************)
EXTENDS TaskDomain

CONSTANT MaxConcurrentRuns   \* TenantQuota.MaxConcurrentRuns

ASSUME LimitAssumption == MaxConcurrentRuns \in Nat \ {0}

VARIABLES
  status,    \* job_runs.status, "absent" while the row does not exist
  attempts,  \* job_runs.attempts
  ended,     \* the <<run, status>> pairs of run_events with a worker outcome
  record     \* idempotency_records.status by key, "none" without a row

runVars == <<status, attempts, ended>>
storeVars == <<status, attempts, ended, record>>

RunStoreTypeOK ==
  /\ status \in [Runs -> Statuses \cup {"absent"}]
  /\ attempts \in [Runs -> Nat]
  /\ ended \subseteq Runs \X Outcomes
  /\ record \in [Runs -> {"none", "in_progress", "completed"}]

RunStoreInit ==
  /\ status = [r \in Runs |-> "absent"]
  /\ attempts = [r \in Runs |-> 0]
  /\ ended = {}
  /\ record = [r \in Runs |-> "none"]

\* GetJobByID: a job's row exists from the transaction that inserts its first
\* run.
JobExists(j) == status[<<j, 1>>] # "absent"

-----------------------------------------------------------------------------
(* The statements on job_runs, jobs and run_events. *)

GetJobRunByID(r) == [status |-> status[r], attempts |-> attempts[r]]

\* UNIQUE (job_id, sequence) refuses a second row.
InsertJobRun(r, s) ==
  /\ status[r] = "absent"
  /\ status' = [status EXCEPT ![r] = s]

\* The statement matches on the id alone: it overwrites whatever is there.
UpdateJobRunStatus(r, s, n) ==
  /\ status' = [status EXCEPT ![r] = s]
  /\ attempts' = [attempts EXCEPT ![r] = n]

\* Of the events only the outcomes are kept.
InsertRunEvent(r, s) == ended' = ended \cup ({<<r, s>>} \cap (Runs \X Outcomes))

CancelPendingJobRuns(j) ==
  status' = [r \in Runs |->
               IF JobOf(r) = j /\ status[r] \in {"pending", "queued", "retry"}
               THEN "cancelled" ELSE status[r]]

\* Every pending run may be due.
FindDueJobRuns == {r \in Runs : status[r] = "pending"}

\* Mutant: does not compare trigger_on_parent_status.
FindChildJobs_AnyStatus(j, s) == {c \in Jobs : JobExists(c) /\ Parent[c] = j}

FindChildJobs(j, s) == {c \in Jobs : JobExists(c) /\ Parent[c] = j /\ Trigger[c] = s}

CountJobRunsByJob(j) == Cardinality({r \in Runs : JobOf(r) = j /\ status[r] # "absent"})

-----------------------------------------------------------------------------
(* The methods of PostgresRepo, each one statement or one transaction. *)

SaveRun(r, s) ==
  /\ InsertJobRun(r, s)
  /\ UNCHANGED <<attempts, ended>>

CreateJobWithRun(j) == SaveRun(<<j, 1>>, "pending")

UpdateRunStatus(r, s, n) ==
  /\ UpdateJobRunStatus(r, s, n)
  /\ UNCHANGED ended

PersistRunTransition(r, s, n) ==
  /\ UpdateJobRunStatus(r, s, n)
  /\ InsertRunEvent(r, s)

\* The due runs, as copies that carry what the rows held.
FindDueRuns == {<<r, attempts[r]>> : r \in FindDueJobRuns}

CancelPendingRunsByJob(j) ==
  /\ CancelPendingJobRuns(j)
  /\ UNCHANGED <<attempts, ended>>

\* One query for each status a child may be triggered by.
FindAllChildren(j) == UNION {FindChildJobs(j, s) : s \in Terminal}

-----------------------------------------------------------------------------
(* TryMarkJobRunRunning.  The statement's snapshot is taken when it starts *)
(* and pg_advisory_xact_lock is called inside it, so the count below is    *)
(* the count before the lock was granted.  The update re-checks the row it *)
(* has locked (its status) but not the rows it counted.                    *)

RunningOf(t) == {r \in Runs : status[r] = "running" /\ TenantOf[JobOf(r)] = t}

\* Mutant: lets the limit itself pass.
ClaimSnapshot_OffByOne(r) ==
  /\ status[r] \in MarkRunningFrom
  /\ Cardinality(RunningOf(TenantOf[JobOf(r)])) <= MaxConcurrentRuns

ClaimSnapshot(r) ==
  /\ status[r] \in MarkRunningFrom
  /\ Cardinality(RunningOf(TenantOf[JobOf(r)])) < MaxConcurrentRuns

\* Mutant: the update does not compare the status.
ClaimRow_AnyStatus(r) ==
  /\ status' = [status EXCEPT ![r] = "running"]
  /\ UNCHANGED <<attempts, ended>>

ClaimRow(r) ==
  /\ status[r] \in MarkRunningFrom
  /\ status' = [status EXCEPT ![r] = "running"]
  /\ UNCHANGED <<attempts, ended>>

-----------------------------------------------------------------------------
(* idempotency_records *)

\* Mutant: ON CONFLICT DO UPDATE, so every caller wins the record.
BeginIdempotency_Upsert(r) == record' = [record EXCEPT ![r] = "in_progress"]

\* Mutant: the record is inserted as completed, before the handler has run.
BeginIdempotency_AlreadyCompleted(r) ==
  /\ record[r] = "none"
  /\ record' = [record EXCEPT ![r] = "completed"]

\* ON CONFLICT DO NOTHING.
BeginIdempotency(r) ==
  /\ record[r] = "none"
  /\ record' = [record EXCEPT ![r] = "in_progress"]

GetIdempotency(r) == record[r]

CompleteIdempotency(r) ==
  /\ record[r] # "none"
  /\ record' = [record EXCEPT ![r] = "completed"]

\* Begin returns whether it is this call that inserted the row.
Begin(r, won) ==
  \/ won /\ BeginIdempotency(r)
  \/ ~won /\ record[r] # "none" /\ UNCHANGED record

=============================================================================
