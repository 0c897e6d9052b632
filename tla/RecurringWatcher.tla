-------------------------- MODULE RecurringWatcher --------------------------
(***************************************************************************)
(* RecurringWatcher: the next run of a recurring job is inserted once the  *)
(* run before has ended.  Around it are what else inserts and ends runs of *)
(* such a job: Service.Create, Service.Cancel, enqueueChildren of the      *)
(* worker for a job that is also chained, and the pipeline, which is the   *)
(* subject of Scheduler and here dispatches, starts, retries and ends a    *)
(* run.  "queued" stands for queued and retry, which no statement of this  *)
(* module tells apart.  Times are half hours of UTC.                       *)
(***************************************************************************)
EXTENDS Recurrence, FiniteSets

CONSTANTS
  Jobs,       \* the recurring jobs
  Plans,      \* the schedules jobs are created with: [zone, clock, rule, chained]
  NoPlan,     \* the schedule of a job that does not exist yet
  Lookback,   \* lookback of the watcher (one hour: 2)
  ParentEnds, \* bound: the instants at which parents' runs end
  Start,      \* the instant the system starts
  Horizon,    \* bound: the instant it stops
  MaxSeq,     \* bound: runs of a job
  MaxMissed   \* bound: half hours in a row without a complete scan

ASSUME RecurringAssumption ==
  /\ NoPlan \notin Plans
  /\ {Lookback, Start, Horizon, MaxMissed} \subseteq Nat
  /\ MaxSeq \in Nat \ {0}
  /\ MaxMissed < Lookback

\* ParseRule and the parsing of LocalTime refuse everything else.
ASSUME PlanAssumption ==
  Plans \subseteq [zone : [before : Int, at : Int, after : Int],
                   clock : 0 .. DayLen - 1,
                   rule : [freq : {"DAILY", "WEEKLY"}, interval : Nat \ {0}],
                   chained : BOOLEAN]

VARIABLES
  now,
  plan,     \* the schedule of each job
  status,   \* status of each <<job, sequence>>, "none" before its insertion
  due,      \* scheduled_at of each run
  ended,    \* half hours since a run's success or failure event, capped
  counted,  \* the runs of a chained job enqueueChildren has counted, or -1
  copies,   \* the runs the watcher has found due and not yet marked
  specs,    \* the runs a scan has found and not yet followed
  scanned,  \* a scan was completed since the last tick
  missed    \* how many ticks in a row had no complete scan

recurringVars == <<now, plan, status, due, ended, counted, copies, specs, scanned, missed>>

Runs == Jobs \X (1 .. MaxSeq)
FollowableRuns == Jobs \X (1 .. MaxSeq - 1)
NextOf(r) == <<r[1], r[2] + 1>>
CountRuns(j) == Cardinality({k \in 1 .. MaxSeq : status[<<j, k>>] # "none"})

\* A chained job has a parent whose runs trigger runs of the job.
Chained(j) == plan[j] # NoPlan /\ plan[j].chained

Open == {"pending", "queued", "running"}
Over == {"success", "failed"}

RecurringInit ==
  /\ now = Start
  /\ plan = [j \in Jobs |-> NoPlan]
  /\ status = [r \in Runs |-> "none"]
  /\ due = [r \in Runs |-> 0]
  /\ ended = [r \in Runs |-> 0]
  /\ counted = [j \in Jobs |-> -1]
  /\ copies = {}
  /\ specs = {}
  /\ scanned = FALSE
  /\ missed = 0

-----------------------------------------------------------------------------
(* Service and worker, as far as they insert, cancel and end runs. *)

SetStatus(r, s) == status' = [status EXCEPT ![r] = s]

InsertJob(j, p) ==
  /\ plan[j] = NoPlan
  /\ plan' = [plan EXCEPT ![j] = p]

InsertJobRun(r, s, at) ==
  /\ status[r] = "none"
  /\ SetStatus(r, s)
  /\ due' = [due EXCEPT ![r] = at]

\* ON CONFLICT (job_id, sequence) DO NOTHING.
InsertJobRunIfAbsent(r, at) ==
  \/ InsertJobRun(r, "pending", at)
  \/ status[r] # "none" /\ UNCHANGED <<status, due>>

Create(j, p) ==
  /\ InsertJob(j, p)
  /\ InsertJobRun(<<j, 1>>, "pending", NextOccurrence(p.rule, p.clock, p.zone, now))
  /\ UNCHANGED <<now, ended, counted, copies, specs, scanned, missed>>

Cancel(j) ==
  /\ plan[j] # NoPlan
  /\ status' = [r \in Runs |->
                  IF r[1] = j /\ status[r] \in {"pending", "queued"} THEN "cancelled" ELSE status[r]]
  /\ UNCHANGED <<now, plan, due, ended, counted, copies, specs, scanned, missed>>

\* Mutant: starts from the number after the next.
CountForChild_OffByOne(j) ==
  /\ Chained(j) /\ counted[j] = -1
  /\ CountRuns(j) + 1 < MaxSeq /\ now \in ParentEnds
  /\ counted' = [counted EXCEPT ![j] = CountRuns(j) + 1]
  /\ UNCHANGED <<now, plan, status, due, ended, copies, specs, scanned, missed>>

\* enqueueChildren counts the child's runs, then inserts the one after them;
\* the unique index refuses a sequence that was taken in between.
CountForChild(j) ==
  /\ Chained(j) /\ counted[j] = -1
  /\ CountRuns(j) < MaxSeq /\ now \in ParentEnds
  /\ counted' = [counted EXCEPT ![j] = CountRuns(j)]
  /\ UNCHANGED <<now, plan, status, due, ended, copies, specs, scanned, missed>>

InsertChild(j) ==
  /\ counted[j] # -1
  /\ counted' = [counted EXCEPT ![j] = -1]
  /\ \/ InsertJobRun(<<j, counted[j] + 1>>, "queued", now)
     \/ status[<<j, counted[j] + 1>>] # "none" /\ UNCHANGED <<status, due>>
  /\ UNCHANGED <<now, plan, ended, copies, specs, scanned, missed>>

\* Watcher.scanOnce reads the due runs and marks them one by one.  A run is
\* due five minutes ahead, which may be in the half hour before its own.
FindDueRun(r) ==
  /\ status[r] = "pending" /\ due[r] <= now + 1
  /\ copies' = copies \cup {r}
  /\ UNCHANGED <<now, plan, status, due, ended, counted, specs, scanned, missed>>

\* The mark overwrites a cancellation of the run since it was read.
MarkQueued(r) ==
  /\ r \in copies
  /\ copies' = copies \ {r}
  /\ SetStatus(r, "queued")
  /\ UNCHANGED <<now, plan, due, ended, counted, specs, scanned, missed>>

StartRun(r) ==
  /\ status[r] = "queued"
  /\ SetStatus(r, "running")
  /\ UNCHANGED <<now, plan, due, ended, counted, copies, specs, scanned, missed>>

RetryRun(r) ==
  /\ status[r] = "running"
  /\ SetStatus(r, "queued")
  /\ UNCHANGED <<now, plan, due, ended, counted, copies, specs, scanned, missed>>

EndRun(r, s) ==
  /\ status[r] = "running"
  /\ SetStatus(r, s)
  /\ ended' = [ended EXCEPT ![r] = 0]
  /\ UNCHANGED <<now, plan, due, counted, copies, specs, scanned, missed>>

-----------------------------------------------------------------------------
(* RecurringWatcher.scanOnce. *)

\* Mutant: failed runs are not followed.
ListTerminalRecurringRuns_SuccessOnly ==
  {r \in FollowableRuns : status[r] = "success" /\ ended[r] <= Lookback /\ status[NextOf(r)] = "none"}

\* Mutant: a run is followed as soon as it is running.
ListTerminalRecurringRuns_Running ==
  {r \in FollowableRuns : status[r] \in Over \cup {"running"} /\ status[NextOf(r)] = "none"}

\* Mutant: cancelled runs are followed too.
ListTerminalRecurringRuns_Cancelled ==
  {r \in FollowableRuns :
     status[r] \in Over \cup {"cancelled"} /\ ended[r] <= Lookback /\ status[NextOf(r)] = "none"}

\* The runs with a recent success or failure event and no run after them.
ListTerminalRecurringRuns ==
  {r \in FollowableRuns : status[r] \in Over /\ ended[r] <= Lookback /\ status[NextOf(r)] = "none"}

ScanFind ==
  /\ specs = {}
  /\ specs' = ListTerminalRecurringRuns
  /\ scanned' = TRUE
  /\ UNCHANGED <<now, plan, status, due, ended, counted, copies, missed>>

\* The next run, due at the occurrence after the one its predecessor was
\* due at.
ScanInsert(r) ==
  LET p == plan[r[1]]
  IN  /\ r \in specs
      /\ specs' = specs \ {r}
      /\ InsertJobRunIfAbsent(NextOf(r), NextOccurrence(p.rule, p.clock, p.zone, due[r]))
      /\ UNCHANGED <<now, plan, ended, counted, copies, scanned, missed>>

\* An insert fails, or the process restarts: what was found is left to the
\* next scan.
ScanFails(r) ==
  /\ r \in specs
  /\ specs' = specs \ {r}
  /\ scanned' = FALSE
  /\ UNCHANGED <<now, plan, status, due, ended, counted, copies, missed>>

\* Half an hour passes.  A scan takes five seconds at most, a message three
\* minutes.
Tick ==
  /\ now < Horizon
  /\ copies = {} /\ specs = {} /\ \A j \in Jobs : counted[j] = -1
  /\ scanned \/ missed < MaxMissed
  /\ now' = now + 1
  /\ missed' = IF scanned THEN 0 ELSE missed + 1
  /\ scanned' = FALSE
  /\ ended' = [r \in Runs |-> IF status[r] \in Over /\ ended[r] <= Lookback THEN ended[r] + 1 ELSE ended[r]]
  /\ UNCHANGED <<plan, status, due, counted, copies, specs>>

JobStep(j) == (\E p \in Plans : Create(j, p)) \/ Cancel(j) \/ CountForChild(j) \/ InsertChild(j)
RunStep(r) == FindDueRun(r) \/ MarkQueued(r) \/ StartRun(r) \/ RetryRun(r) \/ \E s \in Over : EndRun(r, s)
ScanStep == ScanFind \/ \E r \in specs : ScanInsert(r) \/ ScanFails(r)

RecurringNext ==
  \/ \E j \in Jobs : JobStep(j)
  \/ \E r \in Runs : RunStep(r)
  \/ ScanStep
  \/ Tick

RecurringSpec == RecurringInit /\ [][RecurringNext]_recurringVars

-----------------------------------------------------------------------------

\* The runs of a job are numbered without gaps, though the watcher and
\* enqueueChildren number them without a lock.
NoGaps ==
  \A r \in FollowableRuns : status[NextOf(r)] # "none" => status[r] # "none"

\* At most one run of an unchained job is open: the watcher follows a run
\* once, after it has ended.
OneOpenRun ==
  \A j \in Jobs : ~Chained(j) => Cardinality({k \in 1 .. MaxSeq : status[<<j, k>>] \in Open}) <= 1

\* A run that ended and has not been followed is still within the watcher's
\* lookback: no series ends by itself while scans are missed for less than it.
SeriesNotDropped ==
  \A r \in FollowableRuns :
    status[r] \in Over /\ status[NextOf(r)] = "none" => ended[r] <= Lookback

\* A cancelled run of an unchained job is the last of its series: Cancel stops
\* a series whose open run it reaches, unless the watcher, with a copy it read
\* before, revives that very run.
CancelledEndsSeries ==
  \A r \in FollowableRuns :
    ~Chained(r[1]) /\ status[r] = "cancelled" => status[NextOf(r)] = "none"

\* The runs of a series are due at the planned local time of the days the rule
\* names, across a change of the zone's offset.
SeriesKeepsWallTime ==
  \A r \in FollowableRuns :
    ~Chained(r[1]) /\ status[NextOf(r)] # "none" =>
      LET p == plan[r[1]]
      IN  due[NextOf(r)] = FirstInstant(p.zone, DayOf(p.zone, due[r]) + StepDays(p.rule), p.clock)

=============================================================================
