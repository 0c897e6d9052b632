-------------------------- MODULE SchedulerEffects --------------------------
(***************************************************************************)
(* Idempotent execution for every value of the constants: the handler of a *)
(* side-effecting run is called at most once, a success was earned, and    *)
(* the pipeline implements EffectOnce.                                     *)
(***************************************************************************)
EXTENDS SchedulerTypes

\* Where a frame says something about the effect of its run.
Hot == {"invoke", "handler", "complete", "persistSuccess"}

\* What a worker at a hot place knows about the run it is processing.
FrameInv(w) ==
  pc(w) \in Hot =>
    /\ pc(w) # "invoke" => calls[CurrentRun(w)] >= 1
    /\ JobOf(CurrentRun(w)) \in SideEffecting =>
         /\ record[CurrentRun(w)] # "none"
         /\ pc(w) = "invoke" => calls[CurrentRun(w)] = 0
         /\ pc(w) = "persistSuccess" => record[CurrentRun(w)] = "completed"

\* Begin lets one worker at a time through to the handler.
OneInvoker ==
  \A v, w \in Workers :
    /\ v # w
    /\ pc(v) = "invoke" /\ pc(w) = "invoke"
    /\ JobOf(CurrentRun(v)) \in SideEffecting
    => CurrentRun(v) # CurrentRun(w)

\* The record is ahead of the handler, and completed behind it.
RecordInv ==
  \A r \in Runs :
    /\ JobOf(r) \in SideEffecting /\ record[r] = "none" => calls[r] = 0
    /\ record[r] = "completed" => calls[r] >= 1

\* The inductive invariant: AtMostOnce and SuccessIsEarned say nothing of the
\* workers that have won a record but not called the handler yet.
EffectInv ==
  /\ \A w \in Workers : FrameInv(w)
  /\ OneInvoker
  /\ RecordInv
  /\ AtMostOnce
  /\ SuccessIsEarned

-----------------------------------------------------------------------------

\* A step that touches no effect, and takes no worker to a hot place.
Quiet ==
  /\ calls' = calls /\ record' = record
  /\ \A r \in Runs : <<r, "success">> \in ended' <=> <<r, "success">> \in ended
  /\ \A v \in Workers : worker'[v].pc \in Hot =>
       worker'[v].pc = worker[v].pc /\ inbox'[v] = inbox[v]

\* A step that leaves records, calls and successes alone, and moves no worker
\* into the handler, keeps the invariant.
LEMMA QuietKeepsEffectInv ==
  ASSUME EffectInv, Quiet
  PROVE  EffectInv'
  <1>1. ASSUME NEW w \in Workers
        PROVE  FrameInv(w)'
    BY <1>1 DEF EffectInv, Quiet, Hot, FrameInv, pc, CurrentRun, Current
  <1>2. OneInvoker'
    BY DEF EffectInv, Quiet, Hot, OneInvoker, pc, CurrentRun, Current
  <1>3. RecordInv' /\ AtMostOnce' /\ SuccessIsEarned'
    BY DEF EffectInv, Quiet, RecordInv, AtMostOnce, SuccessIsEarned
  <1> QED
    BY <1>1, <1>2, <1>3 DEF EffectInv

\* One worker moves, to a place that is not hot.
LEMMA CoolMove ==
  ASSUME TypeOK, NEW w \in Workers, NEW f, worker' = [worker EXCEPT ![w] = f], f.pc \notin Hot,
         \A v \in Workers \ {w} : inbox'[v] = inbox[v]
  PROVE  \A v \in Workers : worker'[v].pc \in Hot =>
           worker'[v].pc = worker[v].pc /\ inbox'[v] = inbox[v]
  BY DEF TypeOK, WorkerTypeOK

\* process returns.
LEMMA CoolReturn ==
  ASSUME TypeOK, NEW w \in Workers, Return(w)
  PROVE  \A v \in Workers : worker'[v].pc \in Hot =>
           worker'[v].pc = worker[v].pc /\ inbox'[v] = inbox[v]
  <1> DEFINE rest == Tail(inbox[w])
             again == worker[w].reclaimed
             f == IF rest # <<>> THEN Loop("find", again)
                  ELSE Loop(IF again THEN "read" ELSE "reclaim", FALSE)
  <1>1. worker' = [worker EXCEPT ![w] = f] /\ inbox' = [inbox EXCEPT ![w] = rest]
    BY DEF Return
  <1>2. f.pc \in {"find", "read", "reclaim"}
    BY DEF Loop
  <1>3. f.pc \notin Hot
    BY Zenon, <1>2 DEF Hot
  <1>4. \A v \in Workers \ {w} : inbox'[v] = inbox[v]
    BY <1>1 DEF TypeOK, RunQueueTypeOK
  <1> HIDE DEF f
  <1> QED
    BY Zenon, <1>1, <1>3, <1>4, CoolMove

\* process moves on to a place that is not hot.
LEMMA CoolGoto ==
  ASSUME TypeOK, NEW w \in Workers, NEW p, p \notin Hot, Goto(w, p), inbox' = inbox
  PROVE  \A v \in Workers : worker'[v].pc \in Hot =>
           worker'[v].pc = worker[v].pc /\ inbox'[v] = inbox[v]
  <1> DEFINE f == [worker[w] EXCEPT !.pc = p]
  <1>1. worker' = [worker EXCEPT ![w] = f] /\ f.pc = p
    BY DEF Goto, TypeOK, WorkerTypeOK, Frame
  <1> HIDE DEF f
  <1> QED
    BY <1>1, CoolMove
-----------------------------------------------------------------------------
(* Which steps are quiet *)

\* The events of a run that does not succeed.
LEMMA NoSuccess ==
  ASSUME NEW r, NEW s, s # "success", ended' = ended \cup ({<<r, s>>} \cap (Runs \X Outcomes))
  PROVE  \A x \in Runs : <<x, "success">> \in ended' <=> <<x, "success">> \in ended
  OBVIOUS

\* The workers, but for the steps between Begin and the success.
LEMMA QuietWorkerStep ==
  ASSUME TypeOK, NEW w \in Workers,
         \/ PollReclaim(w) \/ PollRead(w) \/ FindRunByID(w) \/ StartClaim(w) \/ FinishClaim(w)
         \/ PersistFailure(w) \/ RequeueRetry(w) \/ AppendRequeueEvent(w)
         \/ AppendDLQEvent(w) \/ DeadLetterRun(w) \/ AckMessage(w)
         \/ LookupChildren(w) \/ CountChildRuns(w) \/ SaveChildRun(w) \/ EnqueueChildRun(w)
         \/ WorkerFailure(w)
  PROVE  Quiet
  <1> DEFINE Cool == \A v \in Workers : worker'[v].pc \in Hot =>
                       worker'[v].pc = worker[v].pc /\ inbox'[v] = inbox[v]
             Same == \A r \in Runs : <<r, "success">> \in ended' <=> <<r, "success">> \in ended
  <1>1. SUFFICES calls' = calls /\ record' = record /\ Same /\ Cool
    BY DEF Quiet
  <1>2. worker \in [Workers -> Frame] /\ inbox \in [Workers -> Seq(Entry)] /\ worker[w] \in Frame
    BY DEF TypeOK, WorkerTypeOK, RunQueueTypeOK
  <1>3. ASSUME NEW f, worker' = [worker EXCEPT ![w] = f], f.pc \notin Hot,
               \A v \in Workers \ {w} : inbox'[v] = inbox[v]
        PROVE  Cool
    BY Zenon, <1>3, CoolMove
  <1>4. ASSUME NEW p, p \notin Hot, Goto(w, p), inbox' = inbox
        PROVE  Cool
    BY <1>4, CoolGoto
  <1>5. ASSUME Return(w)
        PROVE  Cool
    BY <1>5, CoolReturn
  <1>6. ASSUME NEW c, NextChild(w, c), inbox' = inbox
        PROVE  Cool
    <2> DEFINE kids == worker[w].kids \ {c}
               p == AfterChild(w, kids)
               f == [worker[w] EXCEPT !.pc = p, !.kids = kids, !.child = NoJob, !.seq = 0]
    <2>1. worker' = [worker EXCEPT ![w] = f]
      BY Zenon, <1>2, <1>6 DEF NextChild
    <2>2. f.pc = p /\ p \notin Hot
      BY <1>2 DEF Frame, AfterChild, Hot
    <2> HIDE DEF f, p
    <2> QED
      BY <1>3, <1>6, <2>1, <2>2
  <1> HIDE DEF Cool
  <1>7. CASE PollReclaim(w) \/ PollRead(w)
    <2>1. UNCHANGED <<storeVars, calls, faults>>
      BY Zenon, <1>7 DEF PollReclaim, PollRead
    <2>2. \A b \in BOOLEAN : Loop("find", b).pc \notin Hot
      BY DEF Loop, Hot
    <2>3. "read" \notin Hot /\ "reclaim" \notin Hot
      BY DEF Hot
    <2>4. ASSUME Read(w) \/ Reclaim(w)
          PROVE  \A v \in Workers \ {w} : inbox'[v] = inbox[v]
      <3>1. PICK batch : inbox' = [inbox EXCEPT ![w] = batch]
        BY Zenon, <2>4 DEF Read, Reclaim, Deliver
      <3> QED
        BY <1>2, <3>1
    <2>5. CASE /\ Read(w) \/ Reclaim(w)
               /\ \E b \in BOOLEAN : worker' = [worker EXCEPT ![w] = Loop("find", b)]
      BY Zenon, <1>3, <2>1, <2>2, <2>4, <2>5 DEF storeVars
    <2>6. CASE (Goto(w, "read") \/ Goto(w, "reclaim")) /\ UNCHANGED queueVars
      BY <1>4, <2>1, <2>3, <2>6 DEF storeVars, queueVars
    <2> QED
      BY Zenon, <1>7, <2>5, <2>6 DEF PollReclaim, PollRead
  <1>8. CASE FindRunByID(w)
    <2> DEFINE p == Dispatch(status[CurrentRun(w)], worker[w].reclaimed)
               f == [worker[w] EXCEPT !.pc = p, !.attempts = attempts[CurrentRun(w)]]
    <2>1. worker' = [worker EXCEPT ![w] = f] /\ f.pc = p
      BY Zenon, <1>2, <1>8 DEF FindRunByID, GetJobRunByID, Frame
    <2>2. p \notin Hot
      BY DEF Dispatch, Hot
    <2> HIDE DEF f, p
    <2> QED
      BY Zenon, <1>3, <1>8, <2>1, <2>2 DEF FindRunByID, GetJobRunByID, storeVars, queueVars
  <1>9. CASE StartClaim(w)
    <2> DEFINE f == [worker[w] EXCEPT !.pc = "lock", !.slot = ClaimSnapshot(CurrentRun(w))]
    <2>1. worker' = [worker EXCEPT ![w] = f] /\ f.pc = "lock"
      BY Zenon, <1>2, <1>9 DEF StartClaim, Frame
    <2>2. f.pc \notin Hot
      BY <2>1 DEF Hot
    <2> HIDE DEF f
    <2> QED
      BY Zenon, <1>3, <1>9, <2>1, <2>2 DEF StartClaim, storeVars, queueVars
  <1>10. CASE FinishClaim(w)
    <2> DEFINE f == [worker[w] EXCEPT !.pc = "begin", !.slot = FALSE]
    <2>1. UNCHANGED <<record, calls>> /\ ended' = ended
      BY <1>10 DEF FinishClaim, ClaimRow, runVars
    <2>2. f.pc = "begin" /\ "begin" \notin Hot
      BY <1>2 DEF Frame, Hot
    <2>3. CASE worker' = [worker EXCEPT ![w].pc = "begin", ![w].slot = FALSE] /\ UNCHANGED inbox
      <3>1. worker' = [worker EXCEPT ![w] = f]
        BY Zenon, <1>2, <2>3
      <3> HIDE DEF f
      <3> QED
        BY Zenon, <1>3, <2>1, <2>2, <2>3, <3>1
    <2>4. CASE Return(w)
      BY <1>5, <2>1, <2>4
    <2> QED
      BY <1>10, <2>3, <2>4 DEF FinishClaim
  <1>11. CASE PersistFailure(w)
    <2>1. UNCHANGED <<record, queueVars, calls, faults>>
      BY <1>11 DEF PersistFailure
    <2>2. Same
      BY Zenon, <1>11, NoSuccess DEF PersistFailure, PersistRunTransition, UpdateJobRunStatus, InsertRunEvent
    <2>3. CASE worker' = [worker EXCEPT ![w].pc = "dlqEvent", ![w].outcome = "failed"]
      <3> DEFINE f == [worker[w] EXCEPT !.pc = "dlqEvent", !.outcome = "failed"]
      <3>1. worker' = [worker EXCEPT ![w] = f] /\ f.pc = "dlqEvent"
        BY ZenonT(30), <1>2, <2>3 DEF Frame
      <3>2. f.pc \notin Hot
        BY <3>1 DEF Hot
      <3> HIDE DEF f
      <3> QED
        BY Zenon, <1>3, <2>1, <2>2, <3>1, <3>2 DEF queueVars
    <2>4. CASE Goto(w, "requeue")
      <3>1. "requeue" \notin Hot
        BY DEF Hot
      <3> QED
        BY <1>4, <2>1, <2>2, <2>4, <3>1 DEF queueVars
    <2> QED
      BY <1>11, <2>3, <2>4 DEF PersistFailure
  <1>12. CASE RequeueRetry(w) \/ AppendRequeueEvent(w) \/ AppendDLQEvent(w) \/ DeadLetterRun(w)
    <2>1. UNCHANGED storeVars /\ calls' = calls /\ inbox' = inbox
      BY <1>12 DEF RequeueRetry, AppendRequeueEvent, AppendDLQEvent, DeadLetterRun, Enqueue, queueVars
    <2>2. PICK p \in {"requeueEvent", "ack", "spawnFind"} : Goto(w, p)
      BY <1>12 DEF RequeueRetry, AppendRequeueEvent, AppendDLQEvent, DeadLetterRun
    <2>3. p \notin Hot
      BY DEF Hot
    <2> QED
      BY SMTT(30), <1>4, <2>1, <2>2, <2>3 DEF storeVars
  <1>13. CASE AckMessage(w)
    BY <1>5, <1>13 DEF AckMessage, storeVars
  <1>14. CASE LookupChildren(w)
    <2> DEFINE kids == FindChildJobs(JobOf(CurrentRun(w)), worker[w].outcome)
               p == AfterChild(w, kids)
               f == [worker[w] EXCEPT !.pc = p, !.kids = kids]
    <2>1. worker' = [worker EXCEPT ![w] = f] /\ f.pc = p
      BY ZenonT(30), <1>2, <1>14 DEF LookupChildren, Frame
    <2>2. p \notin Hot
      BY DEF AfterChild, Hot
    <2> HIDE DEF f, p
    <2> QED
      BY Zenon, <1>3, <1>14, <2>1, <2>2 DEF LookupChildren, storeVars, queueVars
  <1>15. CASE CountChildRuns(w)
    <2>1. PICK c : worker' = [worker EXCEPT ![w].pc = "spawnSave", ![w].child = c,
                                            ![w].seq = CountJobRunsByJob(c) + 1]
      BY Zenon, <1>15 DEF CountChildRuns
    <2> DEFINE f == [worker[w] EXCEPT !.pc = "spawnSave", !.child = c, !.seq = CountJobRunsByJob(c) + 1]
    <2>2. worker' = [worker EXCEPT ![w] = f] /\ f.pc = "spawnSave"
      BY Zenon, <1>2, <2>1 DEF Frame
    <2>3. f.pc \notin Hot
      BY <2>2 DEF Hot
    <2> HIDE DEF f
    <2> QED
      BY ZenonT(30), <1>3, <1>15, <2>2, <2>3 DEF CountChildRuns, storeVars, queueVars
  <1>16. CASE SaveChildRun(w)
    <2>1. UNCHANGED <<record, queueVars, calls, faults>> /\ ended' = ended
      BY <1>16 DEF SaveChildRun, SaveRun, InsertJobRun, runVars
    <2>2. "spawnEnqueue" \notin Hot
      BY DEF Hot
    <2>3. CASE Goto(w, "spawnEnqueue")
      BY SMTT(30), <1>4, <2>1, <2>2, <2>3 DEF queueVars
    <2>4. CASE NextChild(w, worker[w].child)
      BY <1>6, <2>1, <2>4 DEF queueVars
    <2> QED
      BY <1>16, <2>3, <2>4 DEF SaveChildRun
  <1>17. CASE EnqueueChildRun(w)
    BY <1>6, <1>17 DEF EnqueueChildRun, Enqueue, storeVars
  <1>18. CASE WorkerFailure(w)
    <2>1. UNCHANGED storeVars /\ calls' = calls
      BY <1>18 DEF WorkerFailure, CallFails, ExecutionFails, SpawnFails, DeadlineExceeded
    <2>2. CASE CallFails(w) \/ DeadlineExceeded(w)
      BY <1>5, <2>1, <2>2 DEF CallFails, DeadlineExceeded, storeVars
    <2>3. CASE ExecutionFails(w)
      <3>1. "persistFailure" \notin Hot
        BY DEF Hot
      <3> QED
        BY <1>4, <2>1, <2>3, <3>1 DEF ExecutionFails, storeVars, queueVars
    <2>4. CASE SpawnFails(w)
      <3>1. inbox' = inbox /\ \E c : NextChild(w, c)
        BY <2>4 DEF SpawnFails, queueVars
      <3> QED
        BY SMTT(30), <1>6, <2>1, <3>1 DEF storeVars
    <2> QED
      BY SMTT(30), <1>18, <2>2, <2>3, <2>4 DEF WorkerFailure
  <1> QED
    BY SMTT(30), <1>7, <1>8, <1>9, <1>10, <1>11, <1>12, <1>13, <1>14, <1>15, <1>16, <1>17, <1>18

\* Clients, the watcher, a crash, time, and steps of other systems.
LEMMA QuietEnvironment ==
  ASSUME TypeOK,
         \/ Client \/ FindCancelChildren \/ CancelFails \/ Crash \/ Tick
         \/ (WatcherStep \/ WatcherFailure) /\ UNCHANGED <<workerVars, envVars>>
         \/ UNCHANGED vars
  PROVE  Quiet
  <1>1. calls' = calls /\ record' = record /\ ended' = ended
    BY Zenon DEF Client, Create, Cancel, CancelChild, FindCancelChildren, CancelFails, Crash, Tick,
           WatcherStep, WatcherFailure, FindDue, MarkQueued, EnqueueDue, EnqueueDueFails,
           RevertToPending, SkipCopy, ScanDeadline, CreateJobWithRun, SaveRun, InsertJobRun,
           CancelPendingRunsByJob, CancelPendingJobRuns, UpdateJobRunStatus,
           UpdateRunStatus, workerVars, storeVars, runVars, vars
  <1>2. CASE Crash
    <2>1. Loop("reclaim", FALSE).pc \notin Hot
      BY DEF Loop, Hot
    <2> QED
      BY Zenon, <1>1, <1>2, <2>1 DEF Crash, Quiet
  <1>3. CASE Tick
    <2>1. inbox' = inbox
      BY <1>3 DEF Tick
    <2>2. \A v \in Workers : worker'[v].pc = worker[v].pc
      BY <1>3 DEF Tick, TypeOK, WorkerTypeOK, Frame
    <2> QED
      BY <1>1, <2>1, <2>2 DEF Quiet
  <1>4. CASE ~Crash /\ ~Tick
    <2>1. worker' = worker /\ inbox' = inbox
      BY <1>4 DEF Client, Create, Cancel, CancelChild, FindCancelChildren, CancelFails,
             WatcherStep, WatcherFailure, FindDue, MarkQueued, EnqueueDue, EnqueueDueFails,
             RevertToPending, SkipCopy, ScanDeadline, Enqueue, workerVars, queueVars, vars
    <2> QED
      BY <1>1, <2>1 DEF Quiet
  <1> QED
    BY SMTT(30), <1>2, <1>3, <1>4

-----------------------------------------------------------------------------
(* The steps between Begin and the success *)

\* One worker moves and keeps its batch: what the frames say before and after.
LEMMA Moved ==
  ASSUME TypeOK, NEW w \in Workers, NEW p, inbox' = inbox,
         \/ Goto(w, p)
         \/ \E s : worker' = [worker EXCEPT ![w].pc = p, ![w].outcome = s]
  PROVE  /\ \A v \in Workers : CurrentRun(v)' = CurrentRun(v)
         /\ \A v \in Workers \ {w} : pc(v)' = pc(v)
         /\ pc(w)' = p
  BY DEF TypeOK, WorkerTypeOK, Goto, pc, CurrentRun, Current, Frame

\* A worker at a hot place is processing a run.
LEMMA HotRun ==
  ASSUME TypeOK, NEW w \in Workers, pc(w) \in Hot \cup {"begin", "lookup"}
  PROVE  CurrentRun(w) \in Runs
  <1>1. pc(w) \in InProcess
    BY DEF Hot, InProcess, Executing, Returning
  <1> QED
    BY <1>1, CurrentType

\* Begin: the winner of the record is the only one on its way to the handler.
LEMMA BeginKeepsEffectInv ==
  ASSUME TypeOK, EffectInv, NEW w \in Workers, BeginExecution(w)
  PROVE  EffectInv'
  <1> DEFINE r == CurrentRun(w)
  <1>1. r \in Runs /\ pc(w) = "begin"
    BY HotRun DEF BeginExecution
  <1>2. calls' = calls /\ ended' = ended /\ inbox' = inbox
    BY DEF BeginExecution, runVars, queueVars
  <1>3. record \in [Runs -> {"none", "in_progress", "completed"}] /\ calls \in [Runs -> Nat]
    BY DomainAssumption DEF TypeOK, RunStoreTypeOK, WorkerTypeOK
  <1>4. CASE record' = record /\ (Goto(w, "lookup") \/ (Goto(w, "invoke") /\ JobOf(r) \notin SideEffecting))
    <2>1. PICK p \in {"lookup", "invoke"} : Goto(w, p) /\ (p = "invoke" => JobOf(r) \notin SideEffecting)
      BY <1>4
    <2>2. /\ \A v \in Workers : CurrentRun(v)' = CurrentRun(v)
          /\ \A v \in Workers \ {w} : pc(v)' = pc(v)
          /\ pc(w)' = p
      BY ZenonT(30), <1>2, <2>1, Moved
    <2>3. ASSUME NEW v \in Workers
          PROVE  FrameInv(v)'
      <3>1. CASE v # w
        BY <1>2, <1>4, <2>2, <3>1 DEF EffectInv, FrameInv
      <3>2. CASE v = w
        BY <1>2, <1>4, <2>1, <2>2, <3>2 DEF FrameInv, Hot
      <3> QED
        BY <3>1, <3>2
    <2>4. OneInvoker'
      BY <2>1, <2>2 DEF EffectInv, OneInvoker
    <2> QED
      BY <1>2, <1>4, <2>3, <2>4 DEF EffectInv, RecordInv, AtMostOnce, SuccessIsEarned
  <1>5. CASE JobOf(r) \in SideEffecting /\ Begin(r, TRUE) /\ Goto(w, "invoke")
    <2>1. /\ \A v \in Workers : CurrentRun(v)' = CurrentRun(v)
          /\ \A v \in Workers \ {w} : pc(v)' = pc(v)
          /\ pc(w)' = "invoke"
      BY ZenonT(30), <1>2, <1>5, Moved
    <2>2. record[r] = "none" /\ record' = [record EXCEPT ![r] = "in_progress"]
      BY <1>5 DEF Begin, BeginIdempotency
    <2>3. calls[r] = 0
      BY <1>1, <1>5, <2>2 DEF EffectInv, RecordInv
    <2>4. ASSUME NEW v \in Workers \ {w}, pc(v) \in Hot
          PROVE  CurrentRun(v) # r
      BY <1>5, <2>2, <2>4 DEF EffectInv, FrameInv
    <2>5. ASSUME NEW v \in Workers
          PROVE  FrameInv(v)'
      <3>1. CASE v # w
        <4>1. CASE pc(v) \in Hot
          <5>1. CurrentRun(v) \in Runs /\ CurrentRun(v) # r
            BY SMTT(30), <3>1, <4>1, <2>4, HotRun
          <5> QED
            BY <1>2, <1>3, <2>1, <2>2, <3>1, <5>1 DEF EffectInv, FrameInv
        <4>2. CASE pc(v) \notin Hot
          BY SMTT(30), <2>1, <3>1, <4>2 DEF FrameInv
        <4> QED
          BY <4>1, <4>2
      <3>2. CASE v = w
        BY SMTT(30), <1>1, <1>2, <1>3, <2>1, <2>2, <2>3, <3>2 DEF FrameInv
      <3> QED
        BY <3>1, <3>2
    <2>6. OneInvoker'
      BY SMTT(30), <2>1, <2>4 DEF EffectInv, OneInvoker, Hot
    <2>7. RecordInv'
      BY SMTT(30), <1>1, <1>2, <1>3, <2>2 DEF EffectInv, RecordInv
    <2>8. AtMostOnce' /\ SuccessIsEarned'
      BY SMTT(30), <1>1, <1>2, <1>3, <1>5, <2>2 DEF EffectInv, AtMostOnce, SuccessIsEarned
    <2> QED
      BY SMTT(30), <2>5, <2>6, <2>7, <2>8 DEF EffectInv
  <1>6. Begin(r, FALSE) => record' = record
    BY DEF Begin
  <1> QED
    BY Zenon, <1>4, <1>5, <1>6 DEF BeginExecution

\* The handler is called: its worker was the only invoker of the run.
LEMMA InvokeKeepsEffectInv ==
  ASSUME TypeOK, EffectInv, NEW w \in Workers, InvokeHandler(w)
  PROVE  EffectInv'
  <1> DEFINE r == CurrentRun(w)
  <1>1. r \in Runs /\ pc(w) = "invoke"
    BY HotRun DEF InvokeHandler, Hot
  <1>2. record' = record /\ ended' = ended /\ inbox' = inbox /\ Goto(w, "handler")
    BY SMTT(30) DEF InvokeHandler, storeVars, queueVars
  <1>3. calls \in [Runs -> Nat] /\ MaxAttempts \in Nat \ {0}
    BY DomainAssumption DEF TypeOK, WorkerTypeOK
  <1>4. calls' = [calls EXCEPT ![r] = IF calls[r] <= MaxAttempts THEN calls[r] + 1 ELSE calls[r]]
    BY DEF InvokeHandler
  <1>5. /\ \A v \in Workers : CurrentRun(v)' = CurrentRun(v)
        /\ \A v \in Workers \ {w} : pc(v)' = pc(v)
        /\ pc(w)' = "handler"
    BY ZenonT(30), <1>2, Moved
  <1>6. /\ \A x \in Runs : calls'[x] >= calls[x]
        /\ \A x \in Runs \ {r} : calls'[x] = calls[x]
        /\ calls'[r] >= 1
    BY <1>1, <1>3, <1>4
  <1>7. JobOf(r) \in SideEffecting => calls[r] = 0 /\ calls'[r] = 1 /\ record[r] # "none"
    BY <1>1, <1>3, <1>4 DEF EffectInv, FrameInv, Hot
  <1>8. ASSUME NEW v \in Workers
        PROVE  FrameInv(v)'
    <2>1. CASE v = w
      BY <1>2, <1>5, <1>6, <1>7, <2>1 DEF FrameInv
    <2>2. CASE v # w /\ pc(v) \in Hot
      <3>1. CurrentRun(v) \in Runs
        BY <2>2, HotRun
      <3>2. pc(v) = "invoke" /\ JobOf(CurrentRun(v)) \in SideEffecting => CurrentRun(v) # r
        BY <1>1, <2>2 DEF EffectInv, OneInvoker
      <3>3. calls[CurrentRun(v)] \in Nat /\ calls'[CurrentRun(v)] \in Nat
        BY SMTT(30), <1>1, <1>3, <1>4, <3>1
      <3> QED
        BY SMTT(30), <1>2, <1>5, <1>6, <2>2, <3>1, <3>2, <3>3 DEF EffectInv, FrameInv
    <2>3. CASE v # w /\ pc(v) \notin Hot
      BY <1>5, <2>3 DEF FrameInv
    <2> QED
      BY <2>1, <2>2, <2>3
  <1>9. OneInvoker'
    BY SMTT(30), <1>5 DEF EffectInv, OneInvoker
  <1>10. RecordInv' /\ AtMostOnce' /\ SuccessIsEarned'
    <2>1. \A x \in Runs : calls[x] \in Nat /\ calls'[x] \in Nat
      BY <1>1, <1>3, <1>4
    <2> QED
      BY SMTT(30), <1>1, <1>2, <1>6, <1>7, <2>1 DEF EffectInv, RecordInv, AtMostOnce, SuccessIsEarned
  <1> QED
    BY <1>8, <1>9, <1>10 DEF EffectInv

\* The rest of Execute, and the success.
LEMMA ExecuteKeepsEffectInv ==
  ASSUME TypeOK, EffectInv, NEW w \in Workers,
         LookupRecord(w) \/ HandlerReturns(w) \/ CompleteExecution(w) \/ PersistSuccess(w)
  PROVE  EffectInv'
  <1> DEFINE r == CurrentRun(w)
  <1>1. r \in Runs
    BY HotRun DEF LookupRecord, HandlerReturns, CompleteExecution, PersistSuccess, Hot
  <1>2. calls' = calls /\ inbox' = inbox
    BY DEF LookupRecord, HandlerReturns, CompleteExecution, PersistSuccess, queueVars
  <1>3. record \in [Runs -> {"none", "in_progress", "completed"}]
    BY SMTT(30) DEF TypeOK, RunStoreTypeOK
  <1>4. ASSUME NEW p, p # "invoke", Goto(w, p), record' = record, ended' = ended, FrameInv(w)'
        PROVE  EffectInv'
    <2>1. /\ \A v \in Workers : CurrentRun(v)' = CurrentRun(v)
          /\ \A v \in Workers \ {w} : pc(v)' = pc(v)
          /\ pc(w)' = p
      BY Zenon, <1>2, <1>4, Moved
    <2>2. \A v \in Workers : FrameInv(v)'
      BY <1>2, <1>4, <2>1 DEF EffectInv, FrameInv
    <2>3. OneInvoker'
      BY <1>4, <2>1 DEF EffectInv, OneInvoker
    <2> QED
      BY SMTT(30), <1>2, <1>4, <2>2, <2>3 DEF EffectInv, RecordInv, AtMostOnce, SuccessIsEarned
  <1>5. CASE LookupRecord(w)
    <2> DEFINE p == IF record[r] = "completed" THEN "persistSuccess" ELSE "persistFailure"
    <2>1. Goto(w, p) /\ record' = record /\ ended' = ended
      BY <1>5 DEF LookupRecord, GetIdempotency, storeVars
    <2>2. pc(w)' = p /\ CurrentRun(w)' = r
      BY ZenonT(30), <1>2, <2>1, Moved
    <2>3. FrameInv(w)'
      <3>1. CASE record[r] = "completed"
        BY <1>1, <1>2, <2>1, <2>2, <3>1 DEF EffectInv, RecordInv, FrameInv, Hot
      <3>2. CASE record[r] # "completed"
        BY <2>2, <3>2 DEF FrameInv, Hot
      <3> QED
        BY <3>1, <3>2
    <2> QED
      BY SMTT(30), <1>4, <2>1, <2>3
  <1>6. CASE HandlerReturns(w)
    <2>1. pc(w) = "handler" /\ record' = record /\ ended' = ended
      BY <1>6 DEF HandlerReturns, storeVars
    <2>2. PICK p \in {"complete", "persistSuccess", "persistFailure"} :
             /\ Goto(w, p)
             /\ p = "persistSuccess" => JobOf(r) \notin SideEffecting
      BY <1>6 DEF HandlerReturns
    <2>3. pc(w)' = p /\ CurrentRun(w)' = r
      BY ZenonT(30), <1>2, <2>2, Moved
    <2>4. calls[r] >= 1 /\ (JobOf(r) \in SideEffecting => record[r] # "none")
      BY <2>1 DEF EffectInv, FrameInv, Hot
    <2>5. FrameInv(w)'
      BY <1>2, <2>1, <2>2, <2>3, <2>4 DEF FrameInv
    <2> QED
      BY SMTT(30), <1>4, <2>1, <2>2, <2>5
  <1>7. CASE CompleteExecution(w)
    <2>1. /\ pc(w) = "complete" /\ Goto(w, "persistSuccess") /\ ended' = ended
          /\ record' = [record EXCEPT ![r] = "completed"]
      BY <1>7 DEF CompleteExecution, CompleteIdempotency, runVars
    <2>2. /\ \A v \in Workers : CurrentRun(v)' = CurrentRun(v)
          /\ \A v \in Workers \ {w} : pc(v)' = pc(v)
          /\ pc(w)' = "persistSuccess"
      BY ZenonT(30), <1>2, <2>1, Moved
    <2>3. calls[r] >= 1
      BY <2>1 DEF EffectInv, FrameInv, Hot
    <2>4. ASSUME NEW v \in Workers
          PROVE  FrameInv(v)'
      <3>1. CASE v = w
        BY <1>1, <1>2, <1>3, <2>1, <2>2, <2>3, <3>1 DEF FrameInv
      <3>2. CASE v # w /\ pc(v) \in Hot
        <4>1. CurrentRun(v) \in Runs
          BY SMTT(30), <3>2, HotRun
        <4> QED
          BY <1>1, <1>2, <1>3, <2>1, <2>2, <3>2, <4>1 DEF EffectInv, FrameInv
      <3>3. CASE v # w /\ pc(v) \notin Hot
        BY SMTT(30), <2>2, <3>3 DEF FrameInv
      <3> QED
        BY <3>1, <3>2, <3>3
    <2>5. OneInvoker'
      BY <2>2 DEF EffectInv, OneInvoker
    <2> QED
      BY SMTT(30), <1>1, <1>2, <1>3, <2>1, <2>3, <2>4, <2>5
         DEF EffectInv, RecordInv, AtMostOnce, SuccessIsEarned
  <1>8. CASE PersistSuccess(w)
    <2>1. /\ pc(w) = "persistSuccess" /\ record' = record
          /\ ended' = ended \cup ({<<r, "success">>} \cap (Runs \X Outcomes))
          /\ worker' = [worker EXCEPT ![w].pc = "spawnFind", ![w].outcome = "success"]
      BY <1>8 DEF PersistSuccess, PersistRunTransition, UpdateJobRunStatus, InsertRunEvent
    <2>2. /\ \A v \in Workers : CurrentRun(v)' = CurrentRun(v)
          /\ \A v \in Workers \ {w} : pc(v)' = pc(v)
          /\ pc(w)' = "spawnFind"
      BY Zenon, <1>2, <2>1, Moved
    <2>3. \A v \in Workers : FrameInv(v)'
      BY <1>2, <2>1, <2>2 DEF EffectInv, FrameInv, Hot
    <2>4. OneInvoker'
      BY <2>2 DEF EffectInv, OneInvoker
    <2>5. calls[r] >= 1 /\ (JobOf(r) \in SideEffecting => record[r] = "completed")
      BY <2>1 DEF EffectInv, FrameInv, Hot
    <2>6. SuccessIsEarned'
      BY <1>2, <2>1, <2>5 DEF EffectInv, SuccessIsEarned
    <2> QED
      BY SMTT(30), <1>2, <2>1, <2>3, <2>4, <2>6 DEF EffectInv, RecordInv, AtMostOnce
  <1> QED
    BY <1>5, <1>6, <1>7, <1>8

-----------------------------------------------------------------------------

\* Every step keeps the invariant.
LEMMA EffectInvStep ==
  ASSUME TypeOK, EffectInv, [Next]_vars
  PROVE  EffectInv'
  <1>1. CASE \/ Client \/ FindCancelChildren \/ CancelFails \/ Crash \/ Tick
             \/ (WatcherStep \/ WatcherFailure) /\ UNCHANGED <<workerVars, envVars>>
             \/ UNCHANGED vars
    BY <1>1, QuietEnvironment, QuietKeepsEffectInv
  <1>2. ASSUME NEW w \in Workers, WorkerStep(w) \/ WorkerFailure(w)
        PROVE  EffectInv'
    <2>1. CASE BeginExecution(w)
      BY <2>1, BeginKeepsEffectInv
    <2>2. CASE InvokeHandler(w)
      BY <2>2, InvokeKeepsEffectInv
    <2>3. CASE LookupRecord(w) \/ HandlerReturns(w) \/ CompleteExecution(w) \/ PersistSuccess(w)
      BY <2>3, ExecuteKeepsEffectInv
    <2>4. CASE ~(\/ BeginExecution(w) \/ InvokeHandler(w) \/ LookupRecord(w)
                 \/ HandlerReturns(w) \/ CompleteExecution(w) \/ PersistSuccess(w))
      <3>1. Quiet
        BY <1>2, <2>4, QuietWorkerStep DEF WorkerStep
      <3> QED
        BY SMTT(30), <3>1, QuietKeepsEffectInv
    <2> QED
      BY <2>1, <2>2, <2>3, <2>4
  <1> QED
    BY <1>1, <1>2 DEF Next

\* EffectInv holds in every state of the pipeline.
THEOREM EffectInvariant == Spec => []EffectInv
  <1>1. Init => EffectInv
    BY DEF Init, RunStoreInit, WorkerInit, EffectInv, FrameInv, OneInvoker, RecordInv, AtMostOnce,
           SuccessIsEarned, pc, Loop, Hot
  <1>2. TypeOK /\ EffectInv /\ [Next]_vars => EffectInv'
    BY EffectInvStep
  <1> QED
    BY <1>1, <1>2, TypeCorrect, PTL DEF Spec

\* Whatever the number of workers, runs, attempts, faults and crashes, the
\* handler of a side-effecting run is called at most once.
THEOREM EffectsAtMostOnce == Spec => []AtMostOnce
  <1>1. EffectInv => AtMostOnce
    BY DEF EffectInv
  <1> QED
    BY <1>1, EffectInvariant, PTL

\* PersistRunTransition records a success only for a handler that was called,
\* and for a side-effecting run only once Complete has run.
THEOREM SuccessesAreEarned == Spec => []SuccessIsEarned
  <1>1. EffectInv => SuccessIsEarned
    BY DEF EffectInv
  <1> QED
    BY <1>1, EffectInvariant, PTL

-----------------------------------------------------------------------------
(* Refinement: InvokeHandler is Start, CompleteExecution is Confirm,       *)
(* PersistSuccess is Report, and everything else stutters.                 *)

\* A step that changes no call, no record and no success is not visible.
LEMMA QuietStutters ==
  ASSUME calls' = calls, record' = record,
         \A r \in Runs : <<r, "success">> \in ended' <=> <<r, "success">> \in ended
  PROVE  UNCHANGED Effect!effectVars
  BY DEF Effect!effectVars, SideEffects

\* The steps that are visible, and what they are in EffectOnce.
LEMMA LoudRefines ==
  ASSUME TypeOK, EffectInv, NEW w \in Workers,
         InvokeHandler(w) \/ CompleteExecution(w) \/ PersistSuccess(w)
  PROVE  [Effect!EffectNext]_(Effect!effectVars)
  <1>1. PICK r \in Runs : r = CurrentRun(w)
    BY HotRun DEF InvokeHandler, CompleteExecution, PersistSuccess, Hot
  <1>2. FrameInv(w) /\ AtMostOnce
    BY SMTT(30) DEF EffectInv
  <1>3. /\ calls \in [Runs -> Nat] /\ MaxAttempts \in Nat \ {0}
        /\ record \in [Runs -> {"none", "in_progress", "completed"}]
    BY DomainAssumption DEF TypeOK, WorkerTypeOK, RunStoreTypeOK
  <1>4. CASE InvokeHandler(w)
    <2>1. /\ calls' = [calls EXCEPT ![r] = IF calls[r] <= MaxAttempts THEN calls[r] + 1 ELSE calls[r]]
          /\ record' = record /\ ended' = ended /\ pc(w) = "invoke"
      BY <1>1, <1>4 DEF InvokeHandler, storeVars
    <2>2. CASE r \in SideEffects
      <3>1. calls[r] = 0
        BY ZenonT(30), <1>1, <1>2, <2>1, <2>2 DEF FrameInv, Hot, SideEffects
      <3>2. calls' = [calls EXCEPT ![r] = 1]
        BY SMTT(30), <1>3, <2>1, <3>1
      <3>3. Effect!Start(r)
        BY ZenonT(30), <1>1, <1>3, <2>1, <2>2, <3>1, <3>2 DEF Effect!Start, SideEffects
      <3> QED
        BY SMTT(30), <2>2, <3>3 DEF Effect!EffectNext
    <2>3. CASE r \notin SideEffects
      BY <1>3, <2>1, <2>3 DEF Effect!effectVars, SideEffects
    <2> QED
      BY SMTT(30), <2>2, <2>3
  <1>5. CASE CompleteExecution(w)
    <2>1. /\ record' = [record EXCEPT ![r] = "completed"]
          /\ calls' = calls /\ ended' = ended /\ pc(w) = "complete"
      BY <1>1, <1>5 DEF CompleteExecution, CompleteIdempotency, runVars
    <2>2. CASE r \in SideEffects
      <3>1. calls[r] = 1
        BY <1>1, <1>2, <1>3, <2>1, <2>2 DEF FrameInv, Hot, SideEffects, AtMostOnce
      <3>2. Effect!Confirm(r)
        BY SMTT(30), <1>1, <1>3, <2>1, <2>2, <3>1 DEF Effect!Confirm, SideEffects
      <3> QED
        BY <2>2, <3>2 DEF Effect!EffectNext
    <2>3. CASE r \notin SideEffects
      BY <1>3, <2>1, <2>3 DEF Effect!effectVars, SideEffects
    <2> QED
      BY <2>2, <2>3
  <1>6. CASE PersistSuccess(w)
    <2>1. /\ ended' = ended \cup ({<<r, "success">>} \cap (Runs \X Outcomes))
          /\ calls' = calls /\ record' = record /\ pc(w) = "persistSuccess"
      BY <1>1, <1>6 DEF PersistSuccess, PersistRunTransition, UpdateJobRunStatus, InsertRunEvent
    <2>2. <<r, "success">> \in Runs \X Outcomes
      BY <1>1 DEF Outcomes
    <2>3. CASE r \in SideEffects
      <3>1. record[r] = "completed"
        BY SMTT(30), <1>1, <1>2, <2>1, <2>3 DEF FrameInv, Hot, SideEffects
      <3>2. Effect!Report(r)
        BY SMTT(30), <1>1, <2>1, <2>2, <2>3, <3>1 DEF Effect!Report, SideEffects
      <3> QED
        BY SMTT(30), <2>3, <3>2 DEF Effect!EffectNext
    <2>4. CASE r \notin SideEffects
      BY <2>1, <2>4 DEF Effect!effectVars, SideEffects
    <2> QED
      BY <2>3, <2>4
  <1> QED
    BY <1>4, <1>5, <1>6

\* The pipeline implements EffectOnce: retries, redeliveries, reclaims, live
\* overlaps and crashes never repeat, confirm or report an effect out of turn.
THEOREM EffectRefinement == Spec => ImplementsEffectOnce
  <1>1. Init => Effect!EffectInit
    BY DEF Init, RunStoreInit, WorkerInit, Effect!EffectInit, SideEffects
  <1>2. ASSUME TypeOK, EffectInv, [Next]_vars
        PROVE  [Effect!EffectNext]_(Effect!effectVars)
    <2>1. CASE \/ Client \/ FindCancelChildren \/ CancelFails \/ Crash \/ Tick
               \/ (WatcherStep \/ WatcherFailure) /\ UNCHANGED <<workerVars, envVars>>
               \/ UNCHANGED vars
      BY SMTT(30), <1>2, <2>1, QuietEnvironment, QuietStutters DEF Quiet
    <2>2. ASSUME NEW w \in Workers, WorkerStep(w) \/ WorkerFailure(w)
          PROVE  [Effect!EffectNext]_(Effect!effectVars)
      <3>1. CASE InvokeHandler(w) \/ CompleteExecution(w) \/ PersistSuccess(w)
        BY SMTT(30), <1>2, <3>1, LoudRefines
      <3>2. CASE LookupRecord(w) \/ HandlerReturns(w)
        BY SMTT(30), <3>2, QuietStutters DEF LookupRecord, HandlerReturns, storeVars
      <3>3. CASE BeginExecution(w)
        <4>1. /\ calls' = calls /\ ended' = ended
              /\ \A r \in Runs : record'[r] = "completed" <=> record[r] = "completed"
          BY SMTT(30), <1>2, <3>3 DEF BeginExecution, Begin, BeginIdempotency, runVars, TypeOK, RunStoreTypeOK
        <4> QED
          BY SMTT(30), <4>1 DEF Effect!effectVars, SideEffects
      <3>4. CASE ~(\/ BeginExecution(w) \/ InvokeHandler(w) \/ LookupRecord(w)
                   \/ HandlerReturns(w) \/ CompleteExecution(w) \/ PersistSuccess(w))
        <4>1. Quiet
          BY <1>2, <2>2, <3>4, QuietWorkerStep DEF WorkerStep
        <4> QED
          BY SMTT(30), <4>1, QuietStutters DEF Quiet
      <3> QED
        BY SMTT(30), <3>1, <3>2, <3>3, <3>4
    <2> QED
      BY SMTT(30), <1>2, <2>1, <2>2 DEF Next
  <1> QED
    BY <1>1, <1>2, TypeCorrect, EffectInvariant, PTL DEF Spec, ImplementsEffectOnce, Effect!EffectSpec

=============================================================================
