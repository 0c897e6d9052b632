------------------------------- MODULE Worker -------------------------------
(***************************************************************************)
(* The worker goroutines of worker.go, with IdempotentExecutor.Execute     *)
(* (executor.go) inlined at the call.  Every call to Postgres or Redis is  *)
(* a step of its own; what Go computes between two calls belongs to the    *)
(* step before.  worker[w] is the frame of process: where it is, and what  *)
(* it remembers of rows it read earlier.                                   *)
(***************************************************************************)
EXTENDS RunStore, RunQueue

CONSTANT MaxFaults   \* bound: calls that fail or run into their deadline

ASSUME FaultAssumption == MaxFaults \in Nat

VARIABLES
  worker,  \* the frame of each worker
  calls,   \* history: handler invocations per run, up to one past MaxAttempts
  faults   \* calls that have failed so far

workerVars == <<worker, calls, faults>>

Executing == {"begin", "lookup", "invoke", "handler", "complete"}

Spawning == {"spawnFind", "spawnCount", "spawnSave", "spawnEnqueue"}

\* Where process may be when a call of its own can fail and make it return.
Returning == {"find", "claim", "lock", "persistSuccess", "persistFailure", "dlqEvent",
              "deadLetter", "requeue", "requeueEvent", "ack"}

InProcess == Executing \cup Spawning \cup Returning

Frame ==
  [pc : {"reclaim", "read"} \cup InProcess,
   reclaimed : BOOLEAN,              \* the argument of process
   attempts : Nat,                   \* run.attempts, as FindRunByID read it
   slot : BOOLEAN,                   \* what the claim's snapshot allows
   outcome : Outcomes \cup {"none"}, \* the terminal status it has persisted
   kids : SUBSET Jobs,               \* enqueueChildren: children left to do
   child : Jobs \cup {NoJob},        \* enqueueChildren: the child it is at
   seq : Nat,                        \* enqueueChildren: its next sequence
   elapsed : 0 .. MessageTimeout]    \* time used of the context's deadline

Loop(p, again) ==
  [pc |-> p, reclaimed |-> again, attempts |-> 0, slot |-> FALSE, outcome |-> "none",
   kids |-> {}, child |-> NoJob, seq |-> 0, elapsed |-> 0]

WorkerTypeOK ==
  /\ worker \in [Workers -> Frame]
  /\ \A w \in Workers : worker[w].pc \in InProcess <=> inbox[w] # <<>>
  /\ \A w \in Workers :
       worker[w].pc = "spawnEnqueue" => <<worker[w].child, worker[w].seq>> \in Runs
  /\ calls \in [Runs -> 0 .. MaxAttempts + 1]
  /\ faults \in 0 .. MaxFaults

WorkerInit ==
  /\ worker = [w \in Workers |-> Loop("reclaim", FALSE)]
  /\ calls = [r \in Runs |-> 0]
  /\ faults = 0

pc(w) == worker[w].pc
Current(w) == Head(inbox[w])
CurrentRun(w) == Current(w).run

Goto(w, p) == worker' = [worker EXCEPT ![w].pc = p]

\* Mutant: the worker leaves its loop over the batch after the first entry.
Return_AbandonsBatch(w) ==
  /\ worker' = [worker EXCEPT ![w] =
       Loop(IF worker[w].reclaimed THEN "read" ELSE "reclaim", FALSE)]
  /\ inbox' = [inbox EXCEPT ![w] = Tail(@)]

\* process returns: the worker starts on the next entry of its batch, or goes
\* on with its loop, which reads after it has reclaimed.
Return(w) ==
  LET rest == Tail(inbox[w])
      again == worker[w].reclaimed
  IN  /\ worker' = [worker EXCEPT ![w] =
           IF rest # <<>> THEN Loop("find", again)
           ELSE Loop(IF again THEN "read" ELSE "reclaim", FALSE)]
      /\ inbox' = [inbox EXCEPT ![w] = rest]

-----------------------------------------------------------------------------
(* Run: reclaim, process what was reclaimed, read, process what was read.  *)

PollReclaim(w) ==
  /\ pc(w) = "reclaim"
  /\ \/ /\ Reclaim(w)
        /\ worker' = [worker EXCEPT ![w] = Loop("find", TRUE)]
     \/ /\ Reclaimable = {}
        /\ Goto(w, "read")
        /\ UNCHANGED queueVars
  /\ UNCHANGED <<storeVars, calls, faults>>

PollRead(w) ==
  /\ pc(w) = "read"
  /\ \/ /\ Read(w)
        /\ worker' = [worker EXCEPT ![w] = Loop("find", FALSE)]
     \/ /\ stream = <<>>
        /\ Goto(w, "reclaim")
        /\ UNCHANGED queueVars
  /\ UNCHANGED <<storeVars, calls, faults>>

-----------------------------------------------------------------------------
(* process *)

\* Mutant: a reclaimed entry is a stalled run, whatever the run's status.
Dispatch_ReclaimedIsStalled(s, reclaimed) ==
  CASE reclaimed            -> "persistFailure"
    [] s \in MarkRunningFrom -> "claim"
    [] OTHER                -> "ack"

\* What process does next, given the status FindRunByID returned.
Dispatch(s, reclaimed) ==
  CASE IsTerminal(s)        -> "ack"
    [] s = "running"        -> IF reclaimed THEN "persistFailure" ELSE "ack"
    [] s \in MarkRunningFrom -> "claim"
    [] OTHER                -> "ack"

FindRunByID(w) ==
  /\ pc(w) = "find"
  /\ LET run == GetJobRunByID(CurrentRun(w))
     IN  worker' = [worker EXCEPT ![w].pc = Dispatch(run.status, worker[w].reclaimed),
                                  ![w].attempts = run.attempts]
  /\ UNCHANGED <<storeVars, queueVars, calls, faults>>

\* acquireRunSlot, the statement's start: its snapshot.
StartClaim(w) ==
  /\ pc(w) = "claim"
  /\ worker' = [worker EXCEPT ![w].pc = "lock", ![w].slot = ClaimSnapshot(CurrentRun(w))]
  /\ UNCHANGED <<storeVars, queueVars, calls, faults>>

\* Mutant: a deferred entry is acknowledged.
FinishClaim_AcksDeferred(w) ==
  /\ pc(w) = "lock"
  /\ \/ /\ worker[w].slot
        /\ ClaimRow(CurrentRun(w))
        /\ worker' = [worker EXCEPT ![w].pc = "begin", ![w].slot = FALSE]
     \/ /\ ~(worker[w].slot /\ status[CurrentRun(w)] \in MarkRunningFrom)
        /\ Goto(w, "ack")
        /\ UNCHANGED runVars
  /\ UNCHANGED <<record, queueVars, calls, faults>>

\* The lock is granted: the row is updated, or the entry is left unacked.
FinishClaim(w) ==
  /\ pc(w) = "lock"
  /\ \/ /\ worker[w].slot
        /\ ClaimRow(CurrentRun(w))
        /\ worker' = [worker EXCEPT ![w].pc = "begin", ![w].slot = FALSE]
        /\ UNCHANGED inbox
     \/ /\ ~(worker[w].slot /\ status[CurrentRun(w)] \in MarkRunningFrom)
        /\ Return(w)
        /\ UNCHANGED runVars
  /\ UNCHANGED <<record, stream, pel, dlq, calls, faults>>

-----------------------------------------------------------------------------
(* IdempotentExecutor.Execute *)

BeginExecution(w) ==
  /\ pc(w) = "begin"
  /\ \/ /\ JobOf(CurrentRun(w)) \notin SideEffecting
        /\ Goto(w, "invoke")
        /\ UNCHANGED record
     \/ /\ JobOf(CurrentRun(w)) \in SideEffecting
        /\ Begin(CurrentRun(w), TRUE)
        /\ Goto(w, "invoke")
     \/ /\ JobOf(CurrentRun(w)) \in SideEffecting
        /\ Begin(CurrentRun(w), FALSE)
        /\ Goto(w, "lookup")
  /\ UNCHANGED <<runVars, queueVars, calls, faults>>

\* Mutant: any record counts as a detected duplicate.
LookupRecord_AnyRecord(w) ==
  /\ pc(w) = "lookup"
  /\ Goto(w, IF GetIdempotency(CurrentRun(w)) # "none" THEN "persistSuccess" ELSE "persistFailure")
  /\ UNCHANGED <<storeVars, queueVars, calls, faults>>

\* Begin was refused: a completed record is a detected duplicate, any other
\* is ErrExecutionInProgress.
LookupRecord(w) ==
  /\ pc(w) = "lookup"
  /\ Goto(w, IF GetIdempotency(CurrentRun(w)) = "completed" THEN "persistSuccess" ELSE "persistFailure")
  /\ UNCHANGED <<storeVars, queueVars, calls, faults>>

InvokeHandler(w) ==
  /\ pc(w) = "invoke"
  /\ calls' = [calls EXCEPT ![CurrentRun(w)] = IF @ <= MaxAttempts THEN @ + 1 ELSE @]
  /\ Goto(w, "handler")
  /\ UNCHANGED <<storeVars, queueVars, faults>>

HandlerReturns(w) ==
  /\ pc(w) = "handler"
  /\ \/ Goto(w, IF JobOf(CurrentRun(w)) \in SideEffecting THEN "complete" ELSE "persistSuccess")
     \/ Goto(w, "persistFailure")
  /\ UNCHANGED <<storeVars, queueVars, calls, faults>>

CompleteExecution(w) ==
  /\ pc(w) = "complete"
  /\ CompleteIdempotency(CurrentRun(w))
  /\ Goto(w, "persistSuccess")
  /\ UNCHANGED <<runVars, queueVars, calls, faults>>

-----------------------------------------------------------------------------
(* The outcome *)

PersistSuccess(w) ==
  /\ pc(w) = "persistSuccess"
  /\ PersistRunTransition(CurrentRun(w), "success", worker[w].attempts)
  /\ worker' = [worker EXCEPT ![w].pc = "spawnFind", ![w].outcome = "success"]
  /\ UNCHANGED <<record, queueVars, calls, faults>>

\* handleFailure: MarkFailed after the last attempt, MarkRetry before it.
PersistFailure(w) ==
  /\ pc(w) = "persistFailure"
  /\ \/ /\ LastAttempt(worker[w].attempts)
        /\ PersistRunTransition(CurrentRun(w), "failed", worker[w].attempts)
        /\ worker' = [worker EXCEPT ![w].pc = "dlqEvent", ![w].outcome = "failed"]
     \/ /\ ~LastAttempt(worker[w].attempts)
        /\ PersistRunTransition(CurrentRun(w), "retry", worker[w].attempts + 1)
        /\ Goto(w, "requeue")
  /\ UNCHANGED <<record, queueVars, calls, faults>>

\* Mutant: relies on the old entry, which is acknowledged next.
RequeueRetry_NoEntry(w) ==
  /\ pc(w) = "requeue"
  /\ Goto(w, "requeueEvent")
  /\ UNCHANGED <<storeVars, queueVars, calls, faults>>

RequeueRetry(w) ==
  /\ pc(w) = "requeue"
  /\ Enqueue(CurrentRun(w))
  /\ Goto(w, "requeueEvent")
  /\ UNCHANGED <<storeVars, calls, faults>>

AppendRequeueEvent(w) ==
  /\ pc(w) = "requeueEvent"
  /\ Goto(w, "ack")
  /\ UNCHANGED <<storeVars, queueVars, calls, faults>>

AppendDLQEvent(w) ==
  /\ pc(w) = "dlqEvent"
  /\ Goto(w, "spawnFind")
  /\ UNCHANGED <<storeVars, queueVars, calls, faults>>

DeadLetterRun(w) ==
  /\ pc(w) = "deadLetter"
  /\ DeadLetter(CurrentRun(w))
  /\ Goto(w, "ack")
  /\ UNCHANGED <<storeVars, inbox, calls, faults>>

AckMessage(w) ==
  /\ pc(w) = "ack"
  /\ Ack(Current(w).id)
  /\ Return(w)
  /\ UNCHANGED <<storeVars, calls, faults>>

-----------------------------------------------------------------------------
(* enqueueChildren *)

\* Mutant: the entry is acknowledged whatever the outcome.
AfterChild_NoDeadLetter(w, kids) == IF kids # {} THEN "spawnCount" ELSE "ack"

\* The loop over the children goes on with kids, or process goes on.
AfterChild(w, kids) ==
  IF kids # {} THEN "spawnCount"
  ELSE IF worker[w].outcome = "failed" THEN "deadLetter" ELSE "ack"

LookupChildren(w) ==
  /\ pc(w) = "spawnFind"
  /\ LET kids == FindChildJobs(JobOf(CurrentRun(w)), worker[w].outcome)
     IN  worker' = [worker EXCEPT ![w].pc = AfterChild(w, kids), ![w].kids = kids]
  /\ UNCHANGED <<storeVars, queueVars, calls, faults>>

\* The next sequence follows from the number of runs the child has.
CountChildRuns(w) ==
  /\ pc(w) = "spawnCount"
  /\ \E c \in worker[w].kids :
       worker' = [worker EXCEPT ![w].pc = "spawnSave", ![w].child = c,
                                ![w].seq = CountJobRunsByJob(c) + 1]
  /\ UNCHANGED <<storeVars, queueVars, calls, faults>>

\* The loop leaves child c behind.
NextChild(w, c) ==
  LET kids == worker[w].kids \ {c}
  IN  worker' = [worker EXCEPT ![w].pc = AfterChild(w, kids), ![w].kids = kids,
                               ![w].child = NoJob, ![w].seq = 0]

\* SaveRun inserts the row as queued; a taken sequence violates the unique
\* index and the child is skipped, as is one past the bound MaxSeq.
SaveChildRun(w) ==
  LET r == <<worker[w].child, worker[w].seq>>
  IN  /\ pc(w) = "spawnSave"
      /\ \/ /\ r \in Runs
            /\ SaveRun(r, "queued")
            /\ Goto(w, "spawnEnqueue")
         \/ /\ r \in Runs => status[r] # "absent"
            /\ NextChild(w, worker[w].child)
            /\ UNCHANGED runVars
      /\ UNCHANGED <<record, queueVars, calls, faults>>

EnqueueChildRun(w) ==
  /\ pc(w) = "spawnEnqueue"
  /\ Enqueue(<<worker[w].child, worker[w].seq>>)
  /\ NextChild(w, worker[w].child)
  /\ UNCHANGED <<storeVars, calls, faults>>

-----------------------------------------------------------------------------
(* Calls that fail.  An error is reported for a call that had no effect.   *)

CountFault ==
  /\ faults < MaxFaults
  /\ faults' = faults + 1

\* Most errors make process return with the entry unacknowledged.
CallFails(w) ==
  /\ pc(w) \in Returning
  /\ Return(w)
  /\ CountFault
  /\ UNCHANGED <<storeVars, stream, pel, dlq, calls>>

\* An error inside Execute is an execution failure.
ExecutionFails(w) ==
  /\ pc(w) \in {"begin", "lookup", "complete"}
  /\ Goto(w, "persistFailure")
  /\ CountFault
  /\ UNCHANGED <<storeVars, queueVars, calls>>

\* An error inside enqueueChildren is logged and the child is skipped.
SpawnFails(w) ==
  /\ \/ pc(w) = "spawnFind" /\ NextChild(w, NoJob)
     \/ pc(w) = "spawnCount" /\ \E c \in worker[w].kids : NextChild(w, c)
     \/ pc(w) \in {"spawnSave", "spawnEnqueue"} /\ NextChild(w, worker[w].child)
  /\ CountFault
  /\ UNCHANGED <<storeVars, queueVars, calls>>

\* The context of process expires: this call and all later ones fail.
DeadlineExceeded(w) ==
  /\ pc(w) \in InProcess
  /\ worker[w].elapsed = MessageTimeout
  /\ Return(w)
  /\ CountFault
  /\ UNCHANGED <<storeVars, stream, pel, dlq, calls>>

-----------------------------------------------------------------------------

WorkerStep(w) ==
  \/ PollReclaim(w) \/ PollRead(w)
  \/ FindRunByID(w) \/ StartClaim(w) \/ FinishClaim(w)
  \/ BeginExecution(w) \/ LookupRecord(w) \/ InvokeHandler(w)
  \/ HandlerReturns(w) \/ CompleteExecution(w)
  \/ PersistSuccess(w) \/ PersistFailure(w)
  \/ RequeueRetry(w) \/ AppendRequeueEvent(w)
  \/ AppendDLQEvent(w) \/ DeadLetterRun(w) \/ AckMessage(w)
  \/ LookupChildren(w) \/ CountChildRuns(w) \/ SaveChildRun(w) \/ EnqueueChildRun(w)

WorkerFailure(w) ==
  CallFails(w) \/ ExecutionFails(w) \/ SpawnFails(w) \/ DeadlineExceeded(w)

=============================================================================
