----------------------------- MODULE Scheduler ------------------------------
(***************************************************************************)
(* The scheduling pipeline of one api process: the clients of Service      *)
(* (Create and Cancel, from HTTP or MCP), the watcher, the workers, and    *)
(* the crash and restart of the process.  Postgres and Redis survive a     *)
(* crash; whatever a goroutine held is gone.                               *)
(***************************************************************************)
EXTENDS Worker, Watcher

CONSTANTS
  MaxCrashes,  \* bound: restarts of the process
  MaxCancels   \* bound: Cancel requests

ASSUME BoundAssumption == MaxCrashes \in Nat /\ MaxCancels \in Nat

VARIABLES
  cancelling,  \* the Cancel request in hand: the job whose children it will
               \* look up, and the children it has still to cancel
  cancels,     \* Cancel requests so far
  crashes      \* restarts so far

envVars == <<cancelling, cancels, crashes>>

vars == <<storeVars, queueVars, workerVars, watcherVars, envVars>>

NoRequest == [parent |-> NoJob, children |-> {}]

\* The types, and: a worker is inside process exactly when it holds an entry,
\* and the watcher has one copy in hand when it enqueues or reverts it.
TypeOK ==
  /\ RunStoreTypeOK
  /\ RunQueueTypeOK
  /\ WorkerTypeOK
  /\ WatcherTypeOK
  /\ cancelling \in [parent : Jobs \cup {NoJob}, children : SUBSET Jobs]
  /\ cancels \in 0 .. MaxCancels
  /\ crashes \in 0 .. MaxCrashes

Init ==
  /\ RunStoreInit
  /\ RunQueueInit
  /\ WorkerInit
  /\ WatcherInit
  /\ cancelling = NoRequest
  /\ cancels = 0
  /\ crashes = 0

-----------------------------------------------------------------------------
(* Service *)

\* The first run is pending whether or not the job has a parent; the foreign
\* key asks for the parent's row.
Create(j) ==
  /\ Parent[j] # NoJob => JobExists(Parent[j])
  /\ CreateJobWithRun(j)
  /\ UNCHANGED <<record, queueVars, workerVars, watcherVars, envVars>>

\* cancelJobRuns of the job itself.
Cancel(j) ==
  /\ JobExists(j)
  /\ cancelling = NoRequest
  /\ cancels < MaxCancels
  /\ CancelPendingRunsByJob(j)
  /\ cancelling' = [parent |-> j, children |-> {}]
  /\ cancels' = cancels + 1
  /\ UNCHANGED <<record, queueVars, workerVars, watcherVars, crashes>>

FindCancelChildren ==
  /\ cancelling.parent # NoJob
  /\ cancelling' = [parent |-> NoJob, children |-> FindAllChildren(cancelling.parent)]
  /\ UNCHANGED <<storeVars, queueVars, workerVars, watcherVars, cancels, crashes>>

\* cancelJobRuns of one child; the children's own children stay as they are.
CancelChild(c) ==
  /\ c \in cancelling.children
  /\ CancelPendingRunsByJob(c)
  /\ cancelling' = [cancelling EXCEPT !.children = @ \ {c}]
  /\ UNCHANGED <<record, queueVars, workerVars, watcherVars, cancels, crashes>>

\* A statement or an event of the request fails: the rest is not done.
CancelFails ==
  /\ cancelling # NoRequest
  /\ CountFault
  /\ cancelling' = NoRequest
  /\ UNCHANGED <<storeVars, queueVars, worker, calls, watcherVars, cancels, crashes>>

-----------------------------------------------------------------------------

\* The process dies and starts again.
Crash ==
  /\ crashes < MaxCrashes
  /\ crashes' = crashes + 1
  /\ worker' = [w \in Workers |-> Loop("reclaim", FALSE)]
  /\ inbox' = [w \in Workers |-> <<>>]
  /\ scan' = Resting
  /\ cancelling' = NoRequest
  /\ UNCHANGED <<storeVars, stream, pel, dlq, calls, faults, scanFaults, cancels>>

\* Time passes for the pending entries and for every call of process.  A call
\* at its deadline returns before time goes on.
Tick ==
  /\ \E i \in DOMAIN pel : pel[i].idle < ReclaimMinIdle
  /\ \A w \in Workers : pc(w) \in InProcess => worker[w].elapsed < MessageTimeout
  /\ pel' = [i \in DOMAIN pel |-> Older(pel[i])]
  /\ worker' = [w \in Workers |->
       IF pc(w) \in InProcess THEN [worker[w] EXCEPT !.elapsed = @ + 1] ELSE worker[w]]
  /\ UNCHANGED <<storeVars, stream, inbox, dlq, calls, faults, watcherVars, envVars>>

Client == \E j \in Jobs : Create(j) \/ Cancel(j) \/ CancelChild(j)

Next ==
  \/ Client \/ FindCancelChildren \/ CancelFails \/ Crash \/ Tick
  \/ (WatcherStep \/ WatcherFailure) /\ UNCHANGED <<workerVars, envVars>>
  \/ \E w \in Workers : (WorkerStep(w) \/ WorkerFailure(w)) /\ UNCHANGED <<watcherVars, envVars>>

Spec == Init /\ [][Next]_vars

-----------------------------------------------------------------------------
(* Safety *)

\* The handler of a side-effecting run is called at most once, whatever is
\* retried, redelivered, reclaimed from a live worker, or lost in a crash
\* (IdempotentExecutor.Execute calls it only after winning Begin).
AtMostOnce == \A r \in Runs : JobOf(r) \in SideEffecting => calls[r] <= 1

\* A success in the history of a run was earned: the handler was called, and
\* for a side-effecting run its record is completed, so a duplicate that was
\* reported as success has not swallowed an unfinished execution.
SuccessIsEarned ==
  \A r \in Runs : <<r, "success">> \in ended =>
    /\ calls[r] >= 1
    /\ JobOf(r) \in SideEffecting => record[r] = "completed"

\* The claim statement counts before it holds the advisory lock, so a tenant
\* may exceed its limit, but never by more than one run per other worker.
SlotOvershootBounded ==
  \A t \in Tenants :
    Cardinality(RunningOf(t)) <= MaxConcurrentRuns + Cardinality(Workers) - 1

\* A run that enqueueChildren created exists only if a run of the parent did
\* reach the status the child is triggered by.
ChildFollowsParent ==
  \A c \in Jobs, n \in 2 .. MaxSeq : status[<<c, n>>] # "absent" =>
    /\ Parent[c] # NoJob
    /\ \E p \in Runs : JobOf(p) = Parent[c] /\ <<p, Trigger[c]>> \in ended

\* With one worker (no execution overlaps another) a run that is running or
\* waiting for a retry always has an entry in the group, so a crash or an
\* error at any step of process is recovered by XAUTOCLAIM.
Recoverable ==
  \A r \in Runs : status[r] \in {"running", "retry"} => HasMessage(r)

\* With one worker and no chained job, a queued run is without an entry only
\* from the moment the watcher marks it: no acknowledgement of process takes
\* the entry of a queued run away, that of a deferred one included.
QueuedKeepsEntry ==
  [][\A r \in Runs :
       status'[r] = "queued" /\ ~HasMessage(r)'
         => \/ status[r] = "queued" /\ ~HasMessage(r)
            \/ \E c \in scan'.hand : c[1] = r]_vars

\* With one worker the handler of a run is called at most MaxAttempts times:
\* an execution lost in a crash or a timeout is charged to the budget when
\* its entry is reclaimed.
RetryBudget == \A r \in Runs : calls[r] <= MaxAttempts

\* Every dead letter that is missing is charged to a crash or a failed call:
\* a run that failed for good is in the dead letters, or the worker that
\* failed it still has it in hand, but for one run per crash of a worker and
\* per call that failed (handleFailure persists the status first).
DeadLettersAccountedFor ==
  LET InHand(r) == \E w \in Workers :
        pc(w) \in InProcess /\ CurrentRun(w) = r /\ worker[w].outcome = "failed"
      missing == {r \in Runs : <<r, "failed">> \in ended /\ r \notin dlq /\ ~InHand(r)}
  IN  Cardinality(missing) <= faults + crashes * Cardinality(Workers)

\* With one worker a success or a failure is final.
OutcomeIsFinal ==
  [][\A r \in Runs : status[r] \in Outcomes => status'[r] = status[r]]_vars

\* With one worker a cancelled run is left alone by everything but a watcher
\* that read it while it was still pending.
CancelledLeftAlone ==
  [][\A r \in Runs :
       status[r] = "cancelled" /\ status'[r] # "cancelled"
         => \E c \in scan.due : c[1] = r]_vars

-----------------------------------------------------------------------------
(* Idempotent execution, as the abstract specification states it *)

SideEffects == {r \in Runs : JobOf(r) \in SideEffecting}

Effect == INSTANCE EffectOnce WITH
  Effects <- SideEffects,
  started <- [r \in SideEffects |-> calls[r]],
  confirmed <- {r \in SideEffects : record[r] = "completed"},
  reported <- {r \in SideEffects : <<r, "success">> \in ended}

\* Through all retries, redeliveries, overlaps and crashes, Postgres and the
\* handler only ever see the steps EffectOnce allows: Begin, Execute, Complete
\* and PersistRunTransition never repeat or reorder an effect.
ImplementsEffectOnce == Effect!EffectSpec

-----------------------------------------------------------------------------
(* Liveness *)

\* A goroutine that can move does move: calls return within their deadline,
\* tickers fire and time passes.  Clients and failures owe nothing.
Fairness ==
  /\ WF_vars(Tick)
  /\ WF_vars(WatcherStep /\ UNCHANGED <<workerVars, envVars>>)
  /\ \A w \in Workers : WF_vars(WorkerStep(w) /\ UNCHANGED <<watcherVars, envVars>>)

FairSpec == Spec /\ Fairness

\* A queued run without an entry that no watcher is about to add: nothing
\* looks for it any more.
Stranded(r) ==
  status[r] = "queued" /\ ~HasMessage(r) /\ \A c \in scan.hand : c[1] # r

\* Every run that is accepted ends: it succeeds, fails for good or is
\* cancelled, also when the tenant's limit makes workers leave it for later,
\* a call fails or the process restarts.  The one exception is a run whose
\* watcher was lost between marking and enqueueing it.
EveryRunEnds ==
  \A r \in Runs :
    status[r] = "pending" ~>
      status[r] \in Terminal \/ (crashes + scanFaults > 0 /\ Stranded(r))

=============================================================================
