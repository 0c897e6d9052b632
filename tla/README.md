# Verification of the task scheduler

TLA+ modules, TLC configurations and TLAPS proofs for `go-chatgpt-tasks`. Paths
are relative to `src/`; `task/` stands for `internal/task/`. `PROJECT.json` maps
every definition that models code to the lines it models, and lists the runs, the
mutants, the hazards, the findings and the theorems.

## The system

One api process holds all the parts; several may run against the same Postgres
and Redis.

| part | code | what it does | modelled in |
|---|---|---|---|
| run lifecycle | `task/domain.go` | statuses `pending, queued, running, retry, success, failed, cancelled` and the `Mark…` transitions | `TaskDomain` |
| store | `task/repo_postgres.go`, `sql/queries/task.sql` | jobs, runs, events; statements at READ COMMITTED, some in one transaction | `RunStore`, `TaskReads` |
| idempotency store | `task/idempotency_postgres.go` | one record per run: none, in progress, completed | `RunStore` |
| queue | `task/queue_redis.go` | Redis stream, consumer group with pending entries, `XAUTOCLAIM`, dead letters | `RunQueue` |
| fair order | `task/worker.go` `fairOrder` | round robin of the tenants in a batch | `FairOrder` |
| worker | `task/worker.go` | reads or reclaims a batch, claims a slot, executes, retries or fails, triggers children, acknowledges | `Worker` |
| idempotent executor | `task/executor.go` `IdempotentExecutor` | `Begin`, handler, `Complete` for side-effecting jobs | `Worker`, `EffectOnce` |
| watcher | `task/watcher.go` | due `pending` runs become `queued` and get a message | `Watcher` |
| service | `task/service.go` | `Create`, `Cancel`, `List`, `RunsForJob` | `Scheduler`, `Admission`, `TaskReads` |
| recurring watcher | `task/recurring_watcher.go` | inserts the next run of a recurring job | `RecurringWatcher` |
| recurrence | `task/recurrence.go` | next local time across changes of the clock | `Recurrence` |
| LLM executor, cost guard | `task/executor.go` `LLMExecutor`, `task/repo_quota_postgres.go` | worst-case reservation, attempts, reconciliation | `CostGuard` |
| quota admission | `task/service.go` `checkQuota` | jobs per hour, active runs, active recurring jobs | `Admission` |
| output schema | `task/llm.go` `ValidateOutput` | JSON Schema subset for the answers of a model | `OutputSchema` |
| application lifecycle | `cmd/api/main.go`, `internal/bootstrap` | connects, starts the runners and the server, shuts down on a signal | `AppLifecycle` |
| user accounts | `internal/user` | register, login, profile | `UserRegistry` |
| adapters, authentication | handlers, MCP tools, JWT | translate a request into one call | listing and user handlers in `TaskReads` and `UserRegistry`; the rest is left out |
| generated statements | `internal/platform/postgres` (sqlc) | the statements of `sql/queries` | with the part that calls them |
| platform | configuration, logging, metrics, tracing | observe; no state of their own | left out |

A run travels like this. `Create` stores the job with a `pending` first run. The
watcher marks it `queued` and appends an entry to the stream. A worker reads the
entry, looks the run up, claims one of the tenant's slots while it marks the run
`running`, and calls the executor. It then persists `success`, `retry` (and
appends a new entry) or `failed` (and dead-letters), triggers the children that
wait for the outcome, and acknowledges. An entry that is not acknowledged is
handed to whichever worker asks after it has been idle long enough. The
recurring watcher finds runs that have ended and inserts their successors.

Three things make this hard. Postgres, Redis and the worker's memory are three
copies of the truth, written one after the other. Copies are old when they are
written back: the watcher and `persistTransition` write by id without comparing.
Calls fail, time out or are lost with the process at any point in between.

## Modules

**Pipeline.** `TaskDomain` ← `RunStore`, `RunQueue` (with `FairOrder`) ←
`Worker`, `Watcher` ← `Scheduler`, by `EXTENDS`.

* `RunStore`: `status`, `attempts` and the history `ended` of outcomes, by run
  `<<job, sequence>>`; `record`, the idempotency records. Two layers: the
  statements, each atomic, and the methods of the repository that put them
  together. The claim (`TryMarkJobRunRunning`) is split into `ClaimSnapshot`,
  the count its statement reads when it starts, and `ClaimRow`, the update once
  it holds the advisory lock, because at READ COMMITTED the two see different
  states.
* `RunQueue`: `stream` (entries not delivered), `pel` (pending entries with
  their idle time), `inbox` (the batch each worker still has to process), `dlq`.
  After a reclaim the old owner keeps its copy in its `inbox`: both copies carry
  one stream id, as in Redis.
* `Worker`: `worker[w]` is the call of `process` a worker is in: its place `pc`,
  whether the entry was reclaimed, the copy of `attempts`, the slot, the
  outcome, the children left, and the time the call has taken. One action per
  call to Postgres, Redis or the handler; between two of them anyone may move.
  `CallFails`, `ExecutionFails`, `SpawnFails` and `DeadlineExceeded` are the
  error returns. `calls` counts the calls of the handler, which is abstracted to
  a call that succeeds or fails.
* `Watcher`: `scan` holds the copies `FindDueRuns` returned and the one in hand.
  `EnqueueDueFails` covers an `XADD` that took effect although the caller saw an
  error; `ScanDeadline` is the five-second context, which the revert shares.
* `Scheduler`: clients, crash and restart of the process, time, the whole
  specification and its properties.
* `EffectOnce` is the abstract specification of idempotent execution: an effect
  is started once, then confirmed, and only then reported.
* `MCScheduler` holds the values of the constants and the symmetry sets,
  `SchedulerClaims` what the documentation says and the code does not keep.

**The api process.** `AppLifecycle`, `UserRegistry` ← `ApiProcess`.

* `AppLifecycle`: `main` and `run` are the two goroutines of the process, `runner`
  the background runners, `bgCancel` the field `Run` writes and `Shutdown` reads.
  Nothing orders the two unless the server was listening, so the read may
  miss the write: `CancelRunners` is then a choice.
* `UserRegistry`: the rows of `users`, and each request between its calls to
  Postgres. A call that fails may have had its effect (`StoreFails`).
* `ApiProcess` puts the requests under the server: it takes them while it
  listens, their calls need the pool, and `Shutdown` waits for them up to its
  deadline. `MCApiProcess` holds the spellings of an address.

**Beside the pipeline.**

* `Recurrence` is pure: an instant is a number of half hours, a zone has one
  change of its offset. `Date` is Go's `time.Date`, modelled from its
  documentation and algorithm and marked external, since which of two instants
  it returns decides what `resolveWallTime` has to repair.
* `RecurringWatcher` has everything that inserts, cancels and ends runs of a
  recurring job; the pipeline appears as `FindDueRun`, `MarkQueued`, `StartRun`,
  `RetryRun` and `EndRun`. `MCRecurring` holds the zones and plans.
* `CostGuard`: the rows of `tenant_llm_daily_cost`, what each worker's
  `Execute` is doing, the date, and the histories `spent` and `carried`. `billed`
  is what an execution's attempts cost, the late answers the code drops included.
* `Admission`: concurrent `Create` requests, each query of `checkQuota` a step;
  the pipeline appears as the moves a run may make. `MCAdmission` holds the
  symmetry set.
* `OutputSchema`: `ValidateOutput` and its helpers on JSON documents (a document
  is its type, its text, its fields and its elements). `OutputSchemaCheck` has
  small schemas and answers, and the meaning of a schema keyword by keyword.
* `TaskReads`: a client pages through runs that are inserted and updated
  meanwhile; the page and the total are two statements, and the limit and the
  offset go through an `int32`.
* `FairOrderCheck` feeds `fairOrder` every small batch.
* `SmallParts` runs the last three side by side; a behaviour exercises one.

**Proofs.** `SchedulerTypes`, `SchedulerEffects`, `SchedulerChildren`,
`SchedulerBounds`, `RecurringProofs`, `CostProofs`, `AdmissionProofs` and
`ApiProofs`, see below.

## Runs

Runs that pass:

| run | what it shows | instance |
|---|---|---|
| `delivery` | The handler of a side-effecting run is called at most once (`AtMostOnce`), a success was earned (`SuccessIsEarned`), the pipeline implements `EffectOnce`, and states are well typed | one run, two workers, one crash, one watcher fault, reclaims from live workers, five messages |
| `slots` | `SlotOvershootBounded`: racing claims exceed a tenant's limit by at most one run per other worker | three runs of a tenant with limit 1, two workers, one fault |
| `chain` | `ChildFollowsParent`: a run that `enqueueChildren` adds exists only after the parent reached the status it waits for | parent and child, failure trigger, two workers, a cancel and a fault |
| `recovery` | What a single worker guarantees through crashes, errors and timeouts: `Recoverable`, `RetryBudget`, `OutcomeIsFinal`, `QueuedKeepsEntry`, `CancelledLeftAlone`; a missing dead letter goes back to a fault or a crash (`DeadLettersAccountedFor`); and under fairness every accepted run ends (`EveryRunEnds`) | two runs, limit 1, one worker, a crash, a fault and a cancel |
| `recurring` | A series is numbered without gaps (`NoGaps`), never overlaps (`OneOpenRun`), is not dropped (`SeriesNotDropped`), ends with a cancelled run (`CancelledEndsSeries`) and keeps its local time (`SeriesKeepsWallTime`) | one job with one of five plans in New York, over the change of the clock in spring or fall; up to three runs |
| `cost_guard` | `WithinReservation`: the attempts of an execution, late answers included, cost no more than was reserved for it; `DailyCap`; `LedgerCoversSpend`; `CostTypeOK` | one tenant, two workers, two days, limit 9 cents, reservations of 4 |
| `admission` | `HourlyOvershootBounded`, `SaturationStopsAdmission`, `RecurringOvershootBounded` | one tenant, two concurrent requests, four jobs, every limit 1 |
| `small_parts` | `fairOrder` loses and repeats nothing, keeps each tenant's order, and serves nobody a second time before everyone waiting was served; what `ValidateOutput` accepts conforms to its schema (`AcceptedConforms`), and a schema that spells out its types accepts all that conforms (`SpelledSchemasExact`); a client that pages to the end has seen every run there was when it began (`WalkComplete`), and no response shows more runs than it counts (`TotalCoversPage`) | all batches of up to six messages of three tenants; schemas and answers of depth two; four runs of three jobs |
| `api_process` | Runners and requests end before the stores they use (`RunnersBeforeStores`, `RequestsBeforeStores`), one account per address, tokens name stored users, 409 and 401 are truthful (`ConflictIsReal`, `GoodLoginAccepted`), and a signal ends the process (`SignalEndsProcess`) | two runners, one of which joins the consumer group, two requests, two spellings of one address, one failed call |

Why one worker in `recovery`: with two workers these properties do not all hold
of the code, because an entry can be reclaimed from a live owner (see
`double_execution`). With one worker the same code paths (reclaim, stalled run,
duplicate, retry) are all reached through crashes and timeouts.

Runs that end in a violation, each a disagreement of the code with the
repository's own documents:

| run | document | what TLC finds |
|---|---|---|
| `double_execution` | `README.md:199-202`: "a slow-but-alive run is never double-executed" | Idle time counts from `XREADGROUP`, the message timeout from the call of `process`. Entries behind a slow one in a batch become reclaimable while their owner is alive, and two workers are in the handler of one run |
| `child_first` | `README.md:49-51`: "a child job runs after its parent reaches the matching terminal status" | `Create` gives a chained job a `pending` first run too, which the watcher dispatches without looking at the parent |
| `repeated_hour` | `ticket.md:368`: "If local time occurs twice, run once at the first occurrence." | East of Greenwich `time.Date` returns the second of the two instants and `resolveWallTime` goes back to the first, so the occurrence after the first is the first again |

Every property of a passing run has a mutant: a plausible slip in a definition
that models code, under which TLC finds that property violated.

### Other departures

Met while modelling. The first group is bounded by a property of a passing run:

* The claim counts from a snapshot older than the advisory lock
  (`sql/queries/task.sql:39`), so the per-tenant limit is not strict;
  `SlotOvershootBounded` is what remains.
* A run cancelled between the watcher's read and its write comes back as
  `queued` (`task/watcher.go:61`); `CancelledLeftAlone` says that only such a
  copy can do that.
* A crash, or an expired scan context, between `UpdateRunStatus` and `XADD`
  (`task/watcher.go:66-77`) leaves a run `queued` without an entry, and no scan
  looks for it; `QueuedKeepsEntry` and `EveryRunEnds` say that there is no other
  way.
* An error or a crash after a run is `failed` loses its dead letter
  (`task/worker.go:192`); `DeadLettersAccountedFor`.
* A recurring job between two runs is not counted as active
  (`sql/queries/task.sql:175-185`); `RecurringOvershootBounded` counts that in.
* A signal before the server listens may find no `bgCancel`
  (`internal/bootstrap/shutdown.go:19-23`): `Shutdown` then waits for ever, or
  the runners start on closed stores. `RunnersBeforeStores` and
  `SignalEndsProcess` say that only such a signal can do it.
* The offset of a listing is converted to `int32` (`task/repo_postgres.go:157`):
  from 2^31 on the statement fails, and at 2^32 the first page comes back.
  `TotalCoversPage` holds below.
* The token counts of an answer that came too late are dropped
  (`task/executor.go:116-132`), so what the provider charges may pass the daily
  limit; `WithinReservation` bounds it by execution.

The second group no property states:

* A crash after an outcome is persisted and before `enqueueChildren`
  (`task/worker.go:174`) loses the trigger: the redelivered entry finds a
  terminal run and is acknowledged.
* Cancelling a recurring job between two runs, or while one is running, does not
  end the series; `CancelledEndsSeries` is about a run that was cancelled.
* `MarkQueued` of the watcher and `cancelJobRuns` append their events after the
  status, in a statement of their own, although `README.md:43-44` says one
  transaction.
* `job_id` in the responses of the MCP tools is the id of the run
  (`task/mcp/tools.go:257`), while `task.status`, `task.cancel` and `task.runs`
  parse it as the id of a job.
* Who registers as `Ann@x` is stored as `ann@x` and cannot log in as typed.
* In a schema without `properties`, `{"type": "object"}` is read as a list of
  properties, and a plain-object schema does not require a key named like a
  keyword (`items`), although `task/llm.go:31-33` says every key is required.
* A worker whose `EnsureGroup` fails ends for good, and the process goes on
  without it.

### Bounds

Each bound is a constant named in the module that uses it.

* Two workers are enough for every race in the pipeline that involves an owner
  and a thief of one entry, or two claims of one slot; a third worker adds only
  repetitions. Three runs make the overshoot of a limit of 1 with two workers
  exceedable in principle, so its bound is tested.
* `MaxMsgs` is the number of stream entries ever added: one per run and per
  retry, and one or two more for a duplicate. `MaxAttempts` is 2 (3 in the code),
  the smallest number with a retry; 1 where no property depends on retries.
* `MessageTimeout` is 1 and `ReclaimMinIdle` 2 ticks: only their order matters,
  and it is that of the code.
* `MaxFaults`, `MaxScanFaults`, `MaxCrashes`, `MaxCancels`, `MaxStoreFaults` bound
  how often the environment misbehaves, not when. In the workers a failed call is
  one without effect; of a call whose effect is kept and whose answer is lost only
  the case that the process dies with it is covered. `delivery` has no worker
  faults, to leave room for the crash, the watcher's ambiguous `XADD` and live
  reclaims together.
* `recurring`: the plans start the day before the change of the clock, so the
  second run falls on the skipped or repeated hour and the third lies beyond it.
  `MaxMissed` is the longest outage of the scans, half an hour, with the code's
  lookback of an hour.
* `cost_guard`: with reservations of 4 and a limit of 9 two executions fit and a
  third does not. Token totals 0, 1000 and 1001 are the edges of the rounding.
* `admission`: a limit of 1 and four jobs make all three bounds reachable and,
  with one more admission, exceedable.
* `small_parts`: schemas and answers are two levels deep, which is where one
  level of the recursion meets the next. `MaxInt32` is 7, so the offsets 8 and 16
  are those of 2^31 and 2^32; four runs and pages of one to three make walks of
  several pages.
* `api_process`: two requests are enough for two registrations of one address, or
  a registration and a login; two spellings of it for a lookup that misses.

### Fairness

`recovery` assumes weak fairness of time, of the watcher's steps and of each
worker's steps. The code justifies it: every call has a deadline (three minutes a
message, five seconds a scan), tickers and blocking reads return, and the Go
scheduler runs every runnable goroutine. Nothing is assumed of clients, failures
and crashes; their bounds make them finite in number, as a fault that recurs for
ever would of course keep a run from ending.

`api_process` assumes weak fairness of each goroutine of the process: `main`,
`Run`, every runner, and the handlers of requests, whose calls to Postgres return
or fail. A runner returns once its context is cancelled, because all of them
select on it, and the drain ends because the shutdown context has a deadline.
Signals, requests and failures may never come.

## Proofs

TLAPS proves the following for every value of the constants. One lemma per
action, or group of actions that touch the same state, then the theorem.

**`SchedulerTypes`.** `TypeCorrect`: `Spec => []TypeOK`. `TypeOK` is inductive.
Besides the sets it says that a worker is inside `process` exactly when it holds
an entry, that batches and pending entries name runs, and that the watcher has
one copy in hand when it enqueues or reverts. The module also sums up what a step
may do to the rest of the state, whichever action it is: `WorkerMove` (a worker
takes up an entry, goes on in its frame, or leaves it, and changes no row but its
own and its children's) and `OtherMoves` (the watcher, clients, crashes, time).
`SchedulerBounds` goes through these summaries and not through the actions.

**`SchedulerEffects`**, for any number of workers, runs, attempts, faults and
crashes.

* `EffectInvariant`: `Spec => []EffectInv`. `AtMostOnce` and `SuccessIsEarned`
  are not inductive: they say nothing of a worker that has won `Begin` and not
  yet called the handler, nor of one that has completed and not yet persisted.
  `EffectInv` adds `FrameInv` (what a worker between `Begin` and the persisted
  success knows of its run's record and calls), `OneInvoker` (two workers about
  to call the handler of side-effecting runs have different runs) and
  `RecordInv` (no record means no call, a completed record means a call). Steps
  that touch none of this are `Quiet` and are dealt with by one lemma.
* `EffectsAtMostOnce`, `SuccessesAreEarned`: the two properties, from
  `EffectInv`.
* `EffectRefinement`: `Spec => ImplementsEffectOnce`. `InvokeHandler` of a
  side-effecting run is `Start`, `CompleteExecution` is `Confirm`, a persisted
  success is `Report`, and every other step stutters.

**`SchedulerChildren`.** `ChildrenFollow`: `Spec => []ChildFollowsParent`. The
property says nothing of a worker that is about to insert a child's run, nor of
the writes by id that could make a row appear. `ChildInv` adds `FramesKnow` (a
frame past `FindRunByID` names a row, its outcome is in the history once it is
persisted, and the children in hand are those that outcome triggers) and
`ScanKnows` (the watcher's copies are copies of rows).

**`SchedulerBounds`.** For any number of tenants, workers, runs, faults and
crashes:

* `SlotOvershoot`: `SlotOvershootBounded`. The count and the update of a claim
  are two steps, so the invariant `SlotInv` counts the workers between them that
  have passed the count with the rows that run. A worker passes only below the
  limit, and at that moment at most the other workers are between the two.
* `DeadLettersAccounted`: `DeadLettersAccountedFor`, with `OutcomeInv`: a frame
  has no outcome before it persists one, and acknowledges a failure only after
  the dead letter. A run can leave a worker's hands in between only through a
  failed call or a crash, and the counters `faults` and `crashes` pay for it.

For one worker and a watcher whose calls succeed (`Solo`, as in the run
`recovery`): `BudgetKept`, `OutcomesFinal`, `CancelledStays`. The premise is
needed. A second worker may reclaim an entry whose owner is still executing, and
the owner's late write by id then lands on a row that has moved on; a watcher
that reverts after an `XADD` that did take effect does the same. `HoldInv` says
that under the premise every copy that is written back is fresh: the worker's row
is running and has the attempts the frame has, and the watcher's copies are of
rows nobody has queued. `BudgetInv` charges each call of the handler to an
attempt, that of a running row to the one in hand.

**`RecurringProofs`**, for any jobs, plans, lookback and number of runs.

* `NumbersHaveNoGaps`, `AtMostOneOpen`, `CancelledIsLast` from `SeriesInv`: the
  runs of a job are a prefix of its numbers, whoever is about to insert one (the
  scan with its list, a worker with its count) knows that the predecessors exist,
  and a run of an unchained job is only followed when it is over.
* `SeriesGoesOn`: `SeriesNotDropped`, from `TimeInv`: the age of a run that is
  over and not followed is at most one more than the ticks missed since, because
  a complete scan finds every such run. It uses `MaxMissed < Lookback`.
* `WallTimeKept`: `SeriesKeepsWallTime`, for plans whose zone has no positive
  offset and whose skipped hour, if it has one, is at least its own length away
  from midnight (`WesternPlans`). `WallInv` adds that each run, the first
  included, is due at an occurrence of its plan. The rest is about `Recurrence`:
  `FirstInstantIs` says which instant is the first with a given local time before,
  in and after a change, `DateIs` what `time.Date` returns, `ResolvesToFirst` that
  `resolveWallTime` repairs the difference, and `SameDay` that a time moved out of
  a skipped hour stays on its day, so that the next step counts from the right
  date. East of Greenwich the theorem does not hold: `time.Date` returns the second
  of two instants, which is after a run due at the first, so the next run is due
  at that first instant again (the finding of `repeated_hour`).

**`CostProofs`**, for any tenants, workers, days and policy.

* `CostTypeCorrect` and `AttemptsWithinReservation` from `CostInv`: what is billed
  is at most the price of an attempt times the attempts made, an execution that
  calls the model has an attempt left, and whoever executes passed the policy's
  limit. It uses that an answer reports no more tokens than the request allowed.
* `DailyCapHolds`, `LedgerCovers`. Both add up over the executions under way, and
  the ledger over the dates. `TodayInv`: what was spent today and may still be
  spent is within today's row and what the date inherited; `RowsInv`: no row is
  over the limit, and days to come have neither a row nor a cost. What a sum is,
  and how it changes with one of its terms, is shown first (`SubsetInduction` to
  `TotalTake`), by induction over the subsets of a finite set: the statement to be
  shown is given as a set of subsets, which the provers can instantiate.

**`AdmissionProofs`**, for any tenants, jobs, concurrent calls of `Create` and
limits. `HourlyOvershoot`, `SaturationStops` and `RecurringOvershoot` from
`HourlyInv`, `SaturationInv` and `RecurringInv`, which count the calls that have
passed the check in question and have not inserted with the rows they are about
to join. For recurring jobs the rows that were `reopened` are left out of that
count, since `checkQuota` misses them between two runs.

**`ApiProofs`**, for any number of runners, requests, addresses and passwords.

* `ApiTypeCorrect`: `TypeOK` of `ApiProcess`, from the invariants below and
  `ProcessTypes`; it includes the order in which stores are opened and closed.
* `AccountsUnique`, `TokensSound`, `ConflictsSound` from `UserInv`: rows hold
  canonical addresses, each once; a token in use has its row; a request that was
  answered with a conflict has the row it was about.
* `LoginsSound` from `LoginInv`: the rows that were there when a login came in
  are still there when it is looked up.
* `RunnersStopFirst`, `RequestsDrainFirst` from `AppInv`, which ties the state of
  the server, `bgCancel` and the runners to the place at which `Shutdown` is.

Assumptions are those on the constants in the modules that declare them: sets
are finite where they are counted, limits and bounds are natural numbers, the
reclaim idle time exceeds the message timeout, and a plan is one that `ParseRule`
and the parsing of the local time accept. TLC evaluates them in every run. `Solo`
and `WesternPlans` are premises of the theorems named above, not assumptions.

Only model-checked:

* liveness (`EveryRunEnds`, `SignalEndsProcess`): fairness and `ENABLED` are out
  of the prover's reach;
* `Recoverable` and `QueuedKeepsEntry`: that an entry is not lost between the
  group and a worker's batch rests on `fairOrder` handing out every entry, and
  only once. `FairOrder` selects subsequences with `SelectSeq`, whose recursive
  definition the prover does not expand;
* `fairOrder`, `ValidateOutput` and paging (`small_parts`): what a recursive
  definition computes for every input needs induction over data;
* the properties of the three violated runs, which TLC refutes.

## Not modelled

* Which pending runs are due (the horizon, the hour buckets and the limit of 100
  a scan): every pending run may be due in `Watcher`. `RecurringWatcher` has
  times and leaves out the limit.
* Payloads, error texts, timestamps that nothing decides by, audit events other
  than the terminal ones, and DST notes.
* Validation of a request: `Create` gets accepted inputs.
* Signatures and expiry of tokens, and the strength of a hash: a token stands for
  the user it was issued to, and a hash is matched by its own password.
* The handlers and MCP tools that decode a request, call `Service` once and encode
  the result: they keep no state.
* Configuration, logging, metrics, tracing, and the code sqlc generates around a
  statement: input and output, or scanning of rows.

What could be added: the audit trail (which events a run has had, and in which
order, given that some are appended outside the transaction of their status), and
the ids that travel through the MCP tools.
