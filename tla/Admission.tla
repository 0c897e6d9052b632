----------------------------- MODULE Admission ------------------------------
(***************************************************************************)
(* Quota admission: Service.Create builds the job, counts what its tenant  *)
(* already has with up to three queries (checkQuota), and inserts the job  *)
(* with its first run.  No lock spans the queries and the insert, and the  *)
(* pipeline moves the tenant's runs meanwhile.  The pipeline is the        *)
(* subject of Scheduler; here a run becomes active and terminal, and a     *)
(* recurring job gets its next run.  "active" stands for queued, running   *)
(* and retry, "ended" for success and failed, which no query of this       *)
(* module tells apart.                                                     *)
(***************************************************************************)
EXTENDS Integers, FiniteSets

CONSTANTS
  Tenants,
  Creators,            \* requests to Create served at the same time
  JobIds,              \* bound: the jobs ever created
  Hour,                \* ticks in an hour
  MaxJobsPerHour,
  MaxConcurrentRuns,
  MaxActiveRecurring

ASSUME AdmissionAssumption ==
  /\ "none" \notin Tenants
  /\ IsFiniteSet(Creators) /\ Creators # {}
  /\ IsFiniteSet(JobIds)
  /\ {Hour, MaxJobsPerHour, MaxConcurrentRuns, MaxActiveRecurring} \subseteq Nat

VARIABLES
  job,       \* the row of each job with the status of its latest run
  request,   \* what each Create is doing, with the job NewJob has built
  reopened,  \* history: the recurring jobs that were given a run after their first
  squeezed   \* history: jobs each tenant inserted since it became saturated

admissionVars == <<job, request, reopened, squeezed>>

Kinds == {"one_off", "recurring"}
Over == {"ended", "cancelled"}

\* The age of a job in ticks, which stops when it is out of the hour.
Older(age) == IF age = Hour THEN age ELSE age + 1

NoRow == [tenant |-> "none", kind |-> "none", age |-> 0, run |-> "none"]
Idle == [pc |-> "idle", tenant |-> "none", kind |-> "none", age |-> 0]

AdmissionInit ==
  /\ job = [j \in JobIds |-> NoRow]
  /\ request = [c \in Creators |-> Idle]
  /\ reopened = {}
  /\ squeezed = [t \in Tenants |-> 0]

-----------------------------------------------------------------------------
(* The queries of PostgresQuotaRepo. *)

JobsCreatedSince(t) == {j \in JobIds : job[j].tenant = t /\ job[j].age < Hour}

CountJobsSince(t) == Cardinality(JobsCreatedSince(t))

ActiveRuns(t) == {j \in JobIds : job[j].tenant = t /\ job[j].run = "active"}

CountActiveRuns(t) == Cardinality(ActiveRuns(t))

ActiveRecurring(t) ==
  {j \in JobIds : job[j].tenant = t /\ job[j].kind = "recurring" /\ job[j].run \notin Over}

CountActiveRecurring(t) == Cardinality(ActiveRecurring(t))

-----------------------------------------------------------------------------
(* Service.Create. *)

\* scheduleFromInput accepts the input, and NewJob stamps the job.
NewJob(c, t, kind) ==
  /\ request[c].pc = "idle"
  /\ request' = [request EXCEPT ![c] = [pc |-> "jobs", tenant |-> t, kind |-> kind, age |-> 0]]
  /\ UNCHANGED <<job, reopened, squeezed>>

\* A query of checkQuota: Create goes on if the count is below the limit, and
\* returns if it is not.
Check(c, at, count, limit, next) ==
  /\ request[c].pc = at
  /\ request' = IF count >= limit THEN [request EXCEPT ![c] = Idle]
                                  ELSE [request EXCEPT ![c].pc = next]
  /\ UNCHANGED <<job, reopened, squeezed>>

\* Mutant: the limit itself passes.
CheckJobs_OffByOne(c) ==
  Check(c, "jobs", CountJobsSince(request[c].tenant), MaxJobsPerHour + 1, "runs")

CheckJobs(c) == Check(c, "jobs", CountJobsSince(request[c].tenant), MaxJobsPerHour, "runs")

\* Mutant: the limit itself passes.
CheckRuns_OffByOne(c) ==
  Check(c, "runs", CountActiveRuns(request[c].tenant), MaxConcurrentRuns + 1,
        IF request[c].kind = "recurring" THEN "recurring" ELSE "insert")

\* Mutant: the kind is tested the wrong way round.
CheckRuns_SkipsRecurring(c) ==
  Check(c, "runs", CountActiveRuns(request[c].tenant), MaxConcurrentRuns,
        IF request[c].kind = "recurring" THEN "insert" ELSE "recurring")

CheckRuns(c) ==
  Check(c, "runs", CountActiveRuns(request[c].tenant), MaxConcurrentRuns,
        IF request[c].kind = "recurring" THEN "recurring" ELSE "insert")

CheckRecurring(c) ==
  Check(c, "recurring", CountActiveRecurring(request[c].tenant), MaxActiveRecurring, "insert")

\* A query or the insert fails, or the caller is gone: nothing is inserted.
CreateFails(c) ==
  /\ request[c].pc # "idle"
  /\ request' = [request EXCEPT ![c] = Idle]
  /\ UNCHANGED <<job, reopened, squeezed>>

Saturated(t) == CountActiveRuns(t) >= MaxConcurrentRuns

\* The job and its first run, pending, in one transaction.  Its created_at is
\* that of NewJob, before the queries.
CreateJobWithRun(c, j) ==
  LET t == request[c].tenant
  IN  /\ request[c].pc = "insert" /\ job[j] = NoRow
      /\ job' = [job EXCEPT ![j] = [tenant |-> t, kind |-> request[c].kind,
                                    age |-> request[c].age, run |-> "pending"]]
      /\ request' = [request EXCEPT ![c] = Idle]
      /\ squeezed' = IF Saturated(t) THEN [squeezed EXCEPT ![t] = @ + 1] ELSE squeezed
      /\ UNCHANGED reopened

-----------------------------------------------------------------------------
(* The rest of the system. *)

RunMoves == {<<"pending", "active">>, <<"active", "ended">>,
             <<"pending", "cancelled">>, <<"active", "cancelled">>}

\* A tenant's count of late admissions starts again when it is not saturated.
MoveRun(j, from, to) ==
  /\ job[j].run = from
  /\ job' = [job EXCEPT ![j].run = to]
  /\ squeezed' = [t \in Tenants |-> IF Saturated(t)' THEN squeezed[t] ELSE 0]
  /\ UNCHANGED request

PipelineStep(j) ==
  /\ \E move \in RunMoves : MoveRun(j, move[1], move[2])
  /\ UNCHANGED reopened

\* The recurring watcher inserts the next run.
NextRun(j) ==
  /\ job[j].kind = "recurring"
  /\ MoveRun(j, "ended", "pending")
  /\ reopened' = reopened \cup {j}

Tick ==
  /\ job' = [j \in JobIds |-> IF job[j] = NoRow THEN NoRow ELSE [job[j] EXCEPT !.age = Older(@)]]
  /\ request' = [c \in Creators |->
                   IF request[c] = Idle THEN Idle ELSE [request[c] EXCEPT !.age = Older(@)]]
  /\ UNCHANGED <<reopened, squeezed>>

CreateStep(c) ==
  \/ \E t \in Tenants, kind \in Kinds : NewJob(c, t, kind)
  \/ CheckJobs(c) \/ CheckRuns(c) \/ CheckRecurring(c) \/ CreateFails(c)
  \/ \E j \in JobIds : CreateJobWithRun(c, j)

AdmissionNext ==
  \/ \E c \in Creators : CreateStep(c)
  \/ \E j \in JobIds : PipelineStep(j) \/ NextRun(j)
  \/ Tick

AdmissionSpec == AdmissionInit /\ [][AdmissionNext]_admissionVars

-----------------------------------------------------------------------------

\* The jobs a tenant created within an hour exceed its limit by no more than
\* one per concurrent request, however slow a request is.
HourlyOvershootBounded ==
  \A t \in Tenants : CountJobsSince(t) <= MaxJobsPerHour + Cardinality(Creators) - 1

\* Once the queued and running runs of a tenant reach its limit, only requests
\* that were past the check can still add a job: a saturated tenant's backlog
\* does not go on growing.
SaturationStopsAdmission ==
  \A t \in Tenants : squeezed[t] <= Cardinality(Creators)

\* The active recurring jobs of a tenant exceed its limit by no more than one
\* per concurrent request and one per job that has gone on after its first
\* run: such a job is not counted while it is between two runs.
RecurringOvershootBounded ==
  \A t \in Tenants :
    Cardinality(ActiveRecurring(t))
      <= MaxActiveRecurring + Cardinality(Creators) - 1 + Cardinality(reopened)

=============================================================================
