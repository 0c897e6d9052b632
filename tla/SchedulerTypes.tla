--------------------------- MODULE SchedulerTypes ---------------------------
(***************************************************************************)
(* Type correctness of the pipeline for every value of its constants, and  *)
(* what each kind of step does.  The lemmas are about the operators of     *)
(* RunStore, RunQueue, Worker and Watcher that several actions share.      *)
(***************************************************************************)
EXTENDS Scheduler, FiniteSetTheorems, TLAPS

\* There are finitely many runs.
LEMMA RunsFinite == IsFiniteSet(Runs)
  <1>1. IsFiniteSet(Jobs) /\ MaxSeq \in Nat
    BY DomainAssumption
  <1>2. IsFiniteSet(1 .. MaxSeq)
    BY <1>1, FS_Interval
  <1> QED
    BY <1>1, <1>2, FS_Product DEF Runs

\* ListRunsByJob returns a natural number.
LEMMA CountJobRunsType == ASSUME NEW j PROVE CountJobRunsByJob(j) \in Nat
  BY RunsFinite, FS_Subset, FS_CardinalityType DEF CountJobRunsByJob

\* The row operations of repo_postgres.go keep the rows well typed.
LEMMA SaveRunType ==
  ASSUME RunStoreTypeOK, NEW r \in Runs, NEW s \in Statuses, SaveRun(r, s), UNCHANGED record
  PROVE  RunStoreTypeOK'
  BY DEF RunStoreTypeOK, SaveRun, InsertJobRun

\* Writing status and attempts of a row keeps the store well typed.
LEMMA UpdateRunStatusType ==
  ASSUME RunStoreTypeOK, NEW r \in Runs, NEW s \in Statuses, NEW n \in Nat,
         UpdateRunStatus(r, s, n), UNCHANGED record
  PROVE  RunStoreTypeOK'
  BY DEF RunStoreTypeOK, UpdateRunStatus, UpdateJobRunStatus

\* So does a transition with its terminal event.
LEMMA PersistRunTransitionType ==
  ASSUME RunStoreTypeOK, NEW r \in Runs, NEW s \in Statuses, NEW n \in Nat,
         PersistRunTransition(r, s, n), UNCHANGED record
  PROVE  RunStoreTypeOK'
  BY DEF RunStoreTypeOK, PersistRunTransition, UpdateJobRunStatus, InsertRunEvent

\* So does cancelling the open runs of a job.
LEMMA CancelPendingRunsByJobType ==
  ASSUME RunStoreTypeOK, NEW j, CancelPendingRunsByJob(j), UNCHANGED record
  PROVE  RunStoreTypeOK'
  BY DEF RunStoreTypeOK, CancelPendingRunsByJob, CancelPendingJobRuns, Statuses, Terminal

\* So does a claim, won or refused.
LEMMA ClaimRowType ==
  ASSUME RunStoreTypeOK, NEW r \in Runs, ClaimRow(r), UNCHANGED record
  PROVE  RunStoreTypeOK'
  BY DEF RunStoreTypeOK, ClaimRow, Statuses, Terminal

\* The queue operations of queue_redis.go keep the queue well typed.
LEMMA EnqueueType ==
  ASSUME RunQueueTypeOK, NEW r \in Runs, Enqueue(r)
  PROVE  RunQueueTypeOK' /\ inbox' = inbox
  <1>1. PICK m \in Msgs : stream' = Append(stream, [id |-> m, run |-> r])
    BY DEF Enqueue, FreeMsgs
  <1>2. [id |-> m, run |-> r] \in Entry
    BY <1>1 DEF Entry
  <1>3. stream' \in Seq(Entry)
    BY <1>1, <1>2 DEF RunQueueTypeOK
  <1> QED
    BY <1>3 DEF RunQueueTypeOK, Enqueue

\* Delivering entries to a worker keeps the group well typed.
LEMMA DeliverType ==
  ASSUME RunQueueTypeOK, NEW w \in Workers, NEW read \in Seq(Entry), read # <<>>, Deliver(w, read)
  PROVE  /\ inbox' \in [Workers -> Seq(Entry)]
         /\ inbox'[w] # <<>>
         /\ \A v \in Workers \ {w} : inbox'[v] = inbox[v]
  <1>1. PICK batch \in [DOMAIN read -> Range(read)] : inbox' = [inbox EXCEPT ![w] = batch]
    BY Zenon DEF Deliver
  <1>2. Range(read) \subseteq Entry
    BY DEF Range
  <1>3. batch \in Seq(Entry) /\ batch # <<>>
    BY <1>1, <1>2
  <1> QED
    BY <1>1, <1>3 DEF RunQueueTypeOK

\* XREADGROUP hands out entries of the stream, in fair order.
LEMMA ReadType ==
  ASSUME RunQueueTypeOK, NEW w \in Workers, Read(w)
  PROVE  /\ RunQueueTypeOK'
         /\ inbox'[w] # <<>>
         /\ \A v \in Workers \ {w} : inbox'[v] = inbox[v]
  <1> DEFINE count == IF Len(stream) < ReadCount THEN Len(stream) ELSE ReadCount
             read == SubSeq(stream, 1, count)
             new == [i \in 1 .. count |-> [id |-> read[i].id, run |-> read[i].run, idle |-> 0]]
  <1>1. stream \in Seq(Entry) /\ stream # <<>>
    BY DEF Read, RunQueueTypeOK
  <1>2. count \in 1 .. Len(stream)
    BY <1>1, QueueAssumption
  <1>3. /\ read \in Seq(Entry) /\ read # <<>> /\ Len(read) = count
        /\ SubSeq(stream, count + 1, Len(stream)) \in Seq(Entry)
    BY <1>1, <1>2
  <1>4. new \in Seq(Pending)
    <2> HIDE DEF count, read
    <2>1. \A i \in 1 .. count : read[i] \in Entry
      BY <1>3
    <2>2. 0 \in 0 .. ReclaimMinIdle
      BY QueueAssumption
    <2>3. \A i \in 1 .. count :
            [id |-> read[i].id, run |-> read[i].run, idle |-> 0] \in Pending
      BY <2>1, <2>2 DEF Entry, Pending
    <2>4. count \in Nat
      BY <1>1, <1>2
    <2> QED
      BY <2>3, <2>4
  <1>5. pel' = pel \o new /\ stream' = SubSeq(stream, count + 1, Len(stream)) /\ dlq' = dlq
        /\ Deliver(w, read)
    BY DEF Read
  <1> HIDE DEF count, read, new
  <1>6. pel' \in Seq(Pending)
    BY <1>4, <1>5 DEF RunQueueTypeOK
  <1>7. /\ inbox' \in [Workers -> Seq(Entry)]
        /\ inbox'[w] # <<>>
        /\ \A v \in Workers \ {w} : inbox'[v] = inbox[v]
    BY <1>3, <1>5, DeliverType
  <1> QED
    BY SMTT(30), <1>3, <1>5, <1>6, <1>7 DEF RunQueueTypeOK

\* XAUTOCLAIM hands out pending entries of any consumer, in fair order.
LEMMA ReclaimType ==
  ASSUME RunQueueTypeOK, NEW w \in Workers, Reclaim(w)
  PROVE  /\ RunQueueTypeOK'
         /\ inbox'[w] # <<>>
         /\ \A v \in Workers \ {w} : inbox'[v] = inbox[v]
  <1>0. PICK n \in 1 .. ReadCount : \E claimed \in [1 .. n -> Reclaimable] :
          /\ pel' = [i \in DOMAIN pel |->
                       IF i \in Range(claimed) THEN [pel[i] EXCEPT !.idle = 0] ELSE pel[i]]
          /\ Deliver(w, [k \in 1 .. n |->
                           [id |-> pel[claimed[k]].id, run |-> pel[claimed[k]].run]])
          /\ UNCHANGED <<stream, dlq>>
    BY Zenon DEF Reclaim
  <1>1. PICK claimed \in [1 .. n -> Reclaimable] :
          /\ pel' = [i \in DOMAIN pel |->
                       IF i \in Range(claimed) THEN [pel[i] EXCEPT !.idle = 0] ELSE pel[i]]
          /\ Deliver(w, [k \in 1 .. n |->
                           [id |-> pel[claimed[k]].id, run |-> pel[claimed[k]].run]])
          /\ UNCHANGED <<stream, dlq>>
    BY Zenon, <1>0
  <1>2. pel \in Seq(Pending)
    BY DEF RunQueueTypeOK
  <1>3. pel' \in Seq(Pending)
    <2>1. 0 \in 0 .. ReclaimMinIdle
      BY QueueAssumption
    <2>a. \A p \in Pending : [p EXCEPT !.idle = 0] \in Pending
      BY <2>1 DEF Pending
    <2>2. \A i \in 1 .. Len(pel) : pel[i] \in Pending /\ [pel[i] EXCEPT !.idle = 0] \in Pending
      BY <1>2, <2>a
    <2>3. Len(pel) \in Nat /\ DOMAIN pel = 1 .. Len(pel)
      BY <1>2
    <2>4. pel' = [i \in 1 .. Len(pel) |->
                   IF i \in Range(claimed) THEN [pel[i] EXCEPT !.idle = 0] ELSE pel[i]]
      BY <1>1, <2>3
    <2>5. pel' \in [1 .. Len(pel) -> Pending]
      BY <2>2, <2>4
    <2> QED
      BY <2>3, <2>5
  <1> DEFINE read == [k \in 1 .. n |-> [id |-> pel[claimed[k]].id, run |-> pel[claimed[k]].run]]
  <1>4. read \in Seq(Entry) /\ read # <<>>
    <2>1. n \in Nat /\ 1 \in 1 .. n
      BY QueueAssumption
    <2>2. \A k \in 1 .. n : pel[claimed[k]] \in Pending
      BY <1>2 DEF Reclaimable
    <2>3. \A k \in 1 .. n : [id |-> pel[claimed[k]].id, run |-> pel[claimed[k]].run] \in Entry
      BY <2>2 DEF Pending, Entry
    <2> QED
      BY <2>1, <2>3
  <1>5. Deliver(w, read)
    BY <1>1
  <1> HIDE DEF read
  <1>6. /\ inbox' \in [Workers -> Seq(Entry)]
        /\ inbox'[w] # <<>>
        /\ \A v \in Workers \ {w} : inbox'[v] = inbox[v]
    BY <1>4, <1>5, DeliverType
  <1> QED
    BY <1>1, <1>3, <1>6 DEF RunQueueTypeOK

\* XACK removes the pending entry of a message, if it is there.
LEMMA AckType ==
  ASSUME RunQueueTypeOK, NEW m, Ack(m)
  PROVE  pel' \in Seq(Pending) /\ stream' = stream /\ dlq' = dlq
  <1>1. CASE UNCHANGED pel
    BY <1>1 DEF RunQueueTypeOK, Ack
  <1>2. CASE \E i \in DOMAIN pel : pel' = SubSeq(pel, 1, i - 1) \o SubSeq(pel, i + 1, Len(pel))
    <2>1. PICK i \in DOMAIN pel : pel' = SubSeq(pel, 1, i - 1) \o SubSeq(pel, i + 1, Len(pel))
      BY Zenon, <1>2
    <2>2. pel \in Seq(Pending) /\ i \in 1 .. Len(pel)
      BY DEF RunQueueTypeOK
    <2>3. SubSeq(pel, 1, i - 1) \in Seq(Pending)
      BY <2>2
    <2>4. SubSeq(pel, i + 1, Len(pel)) \in Seq(Pending)
      BY <2>2
    <2> QED
      BY SMTT(30), <2>1, <2>3, <2>4 DEF Ack
  <1> QED
    BY Zenon, <1>1, <1>2 DEF Ack

\* What the worker is processing is an entry for a run.
LEMMA CurrentType ==
  ASSUME TypeOK, NEW w \in Workers, pc(w) \in InProcess
  PROVE  /\ Current(w) \in Entry
         /\ CurrentRun(w) \in Runs
         /\ JobOf(CurrentRun(w)) \in Jobs
         /\ Tail(inbox[w]) \in Seq(Entry)
  <1>1. inbox[w] \in Seq(Entry) /\ inbox[w] # <<>>
    BY DEF TypeOK, RunQueueTypeOK, WorkerTypeOK, pc
  <1>2. Current(w) \in Entry /\ Tail(inbox[w]) \in Seq(Entry)
    BY <1>1 DEF Current
  <1> QED
    BY <1>2 DEF CurrentRun, Entry, Runs, JobOf

\* The frame a worker starts its loop or a call of process with.
LEMMA LoopType ==
  ASSUME NEW p \in {"reclaim", "read"} \cup InProcess, NEW again \in BOOLEAN
  PROVE  Loop(p, again) \in Frame /\ Loop(p, again).pc = p
  <1>1. 0 \in 0 .. MessageTimeout
    BY QueueAssumption
  <1> QED
    BY <1>1 DEF Loop, Frame

\* A step of one worker keeps the frames well typed if its own frame is.
LEMMA WorkerFrameType ==
  ASSUME TypeOK, NEW w \in Workers, NEW f \in Frame, worker' = [worker EXCEPT ![w] = f],
         f.pc \in InProcess <=> inbox'[w] # <<>>,
         f.pc = "spawnEnqueue" => <<f.child, f.seq>> \in Runs,
         \A v \in Workers \ {w} : inbox'[v] = inbox[v],
         calls' \in [Runs -> 0 .. MaxAttempts + 1], faults' \in 0 .. MaxFaults
  PROVE  WorkerTypeOK'
  <1>1. worker \in [Workers -> Frame]
    BY DEF TypeOK, WorkerTypeOK
  <1>2. worker' \in [Workers -> Frame] /\ worker'[w] = f
        /\ \A v \in Workers \ {w} : worker'[v] = worker[v]
    BY <1>1
  <1> QED
    BY Zenon, <1>2 DEF TypeOK, WorkerTypeOK

\* Moving on inside process.
LEMMA GotoType ==
  ASSUME TypeOK, NEW w \in Workers, pc(w) \in InProcess,
         NEW p \in InProcess \ {"spawnEnqueue"}, Goto(w, p), inbox' = inbox,
         calls' \in [Runs -> 0 .. MaxAttempts + 1], faults' \in 0 .. MaxFaults
  PROVE  WorkerTypeOK'
  <1> DEFINE f == [worker[w] EXCEPT !.pc = p]
  <1>1. worker[w] \in Frame /\ inbox[w] # <<>>
    BY DEF TypeOK, WorkerTypeOK, pc
  <1>2. f \in Frame /\ f.pc = p
    BY <1>1 DEF Frame
  <1>3. worker' = [worker EXCEPT ![w] = f]
    BY DEF Goto
  <1> HIDE DEF f
  <1> QED
    BY Zenon, <1>1, <1>2, <1>3, WorkerFrameType

\* Returning from process.
LEMMA ReturnType ==
  ASSUME TypeOK, NEW w \in Workers, pc(w) \in InProcess, Return(w),
         calls' \in [Runs -> 0 .. MaxAttempts + 1], faults' \in 0 .. MaxFaults
  PROVE  WorkerTypeOK' /\ inbox' \in [Workers -> Seq(Entry)]
  <1> DEFINE rest == Tail(inbox[w])
             again == worker[w].reclaimed
             f == IF rest # <<>> THEN Loop("find", again)
                  ELSE Loop(IF again THEN "read" ELSE "reclaim", FALSE)
  <1>1. worker' = [worker EXCEPT ![w] = f] /\ inbox' = [inbox EXCEPT ![w] = rest]
    BY DEF Return
  <1>2. rest \in Seq(Entry)
    BY CurrentType
  <1>3. inbox \in [Workers -> Seq(Entry)] /\ again \in BOOLEAN
    BY SMTT(30) DEF TypeOK, RunQueueTypeOK, WorkerTypeOK, Frame
  <1>4. /\ inbox' \in [Workers -> Seq(Entry)] /\ inbox'[w] = rest
        /\ \A v \in Workers \ {w} : inbox'[v] = inbox[v]
    BY <1>1, <1>2, <1>3
  <1>5. CASE rest # <<>>
    <2>1. f = Loop("find", again)
      BY <1>5
    <2>2. "find" \in InProcess
      BY DEF InProcess, Returning
    <2>3. f \in Frame /\ f.pc = "find"
      BY Zenon, <1>3, <2>1, <2>2, LoopType
    <2> HIDE DEF f, rest, again
    <2> QED
      BY Zenon, <1>1, <1>4, <1>5, <2>2, <2>3, WorkerFrameType
  <1>6. CASE rest = <<>>
    <2>1. PICK p \in {"read", "reclaim"} : f = Loop(p, FALSE)
      BY Zenon, <1>6
    <2>2. f \in Frame /\ f.pc = p
      BY Zenon, <2>1, LoopType
    <2>3. p \notin InProcess
      BY <2>1 DEF InProcess, Executing, Spawning, Returning
    <2>4. p # "spawnEnqueue"
      BY <2>1
    <2> HIDE DEF f, rest, again
    <2> QED
      BY Zenon, <1>1, <1>4, <1>6, <2>2, <2>3, <2>4, WorkerFrameType
  <1> QED
    BY <1>5, <1>6

\* The parts of TypeOK a worker's step can disturb.
PipelineTypeOK == RunStoreTypeOK /\ RunQueueTypeOK /\ WorkerTypeOK

\* Polling: what XAUTOCLAIM and XREADGROUP return becomes the worker's batch.
LEMMA PollType ==
  ASSUME TypeOK, NEW w \in Workers, PollReclaim(w) \/ PollRead(w)
  PROVE  PipelineTypeOK'
  <1>1. RunStoreTypeOK' /\ calls' \in [Runs -> 0 .. MaxAttempts + 1] /\ faults' \in 0 .. MaxFaults
    BY Zenon DEF TypeOK, PollReclaim, PollRead, RunStoreTypeOK, WorkerTypeOK, storeVars
  <1>2. ASSUME NEW again \in BOOLEAN, Reclaim(w) \/ Read(w),
               worker' = [worker EXCEPT ![w] = Loop("find", again)]
        PROVE  PipelineTypeOK'
    <2>1. /\ RunQueueTypeOK'
          /\ inbox'[w] # <<>>
          /\ \A v \in Workers \ {w} : inbox'[v] = inbox[v]
      BY <1>2, ReclaimType, ReadType DEF TypeOK
    <2>2. "find" \in InProcess
      BY DEF InProcess, Returning
    <2>3. Loop("find", again) \in Frame /\ Loop("find", again).pc = "find"
      BY <2>2, <1>2, LoopType
    <2> QED
      BY ZenonT(30), <1>1, <1>2, <2>1, <2>2, <2>3, WorkerFrameType DEF PipelineTypeOK
  <1>3. ASSUME NEW p \in {"read", "reclaim"}, pc(w) \in {"read", "reclaim"}, Goto(w, p),
               UNCHANGED queueVars
        PROVE  PipelineTypeOK'
    <2> DEFINE f == [worker[w] EXCEPT !.pc = p]
    <2>1. worker[w] \in Frame /\ inbox[w] = <<>>
      BY SMTT(30), <1>3 DEF TypeOK, WorkerTypeOK, pc, InProcess, Executing, Spawning, Returning
    <2>2. f \in Frame /\ f.pc = p
      BY <2>1, <1>3 DEF Frame
    <2>3. worker' = [worker EXCEPT ![w] = f]
      BY <1>3 DEF Goto
    <2>4. p \notin InProcess /\ p # "spawnEnqueue"
      BY <1>3 DEF InProcess, Executing, Spawning, Returning
    <2>5. inbox' = inbox /\ RunQueueTypeOK'
      BY <1>3 DEF queueVars, TypeOK, RunQueueTypeOK
    <2> HIDE DEF f
    <2> QED
      BY Zenon, <1>1, <2>1, <2>2, <2>3, <2>4, <2>5, WorkerFrameType DEF PipelineTypeOK
  <1> QED
    BY Zenon, <1>2, <1>3 DEF PollReclaim, PollRead

\* The first half of process and IdempotentExecutor.Execute.
LEMMA ExecuteType ==
  ASSUME TypeOK, NEW w \in Workers,
         \/ FindRunByID(w) \/ StartClaim(w) \/ FinishClaim(w) \/ BeginExecution(w)
         \/ LookupRecord(w) \/ InvokeHandler(w) \/ HandlerReturns(w) \/ CompleteExecution(w)
  PROVE  PipelineTypeOK'
  <1> DEFINE r == CurrentRun(w)
  <1>1. pc(w) \in InProcess
    BY Zenon DEF FindRunByID, GetJobRunByID, StartClaim, FinishClaim, BeginExecution, LookupRecord, InvokeHandler,
           HandlerReturns, CompleteExecution, InProcess, Executing, Returning
  <1>2. r \in Runs
    BY <1>1, CurrentType
  <1>3. RunStoreTypeOK /\ RunQueueTypeOK /\ worker[w] \in Frame /\ inbox[w] # <<>>
        /\ calls \in [Runs -> 0 .. MaxAttempts + 1] /\ faults \in 0 .. MaxFaults
    BY <1>1 DEF TypeOK, WorkerTypeOK, pc
  <1> HIDE DEF r
  <1>4. CASE FindRunByID(w)
    <2> DEFINE p == Dispatch(status[r], worker[w].reclaimed)
               f == [worker[w] EXCEPT !.pc = p, !.attempts = attempts[r]]
    <2>1. p \in {"ack", "persistFailure", "claim"}
      BY DEF Dispatch, IsTerminal
    <2>2. f \in Frame /\ f.pc = p
      BY ZenonT(30), <1>2, <1>3, <2>1 DEF Frame, RunStoreTypeOK, InProcess, Returning
    <2>3. worker' = [worker EXCEPT ![w] = f]
      BY Zenon, <1>4 DEF FindRunByID, GetJobRunByID, r
    <2>4. p \in InProcess /\ p # "spawnEnqueue"
      BY <2>1 DEF InProcess, Returning
    <2>5. UNCHANGED <<storeVars, queueVars, calls, faults>>
      BY <1>4 DEF FindRunByID, GetJobRunByID
    <2> HIDE DEF p, f
    <2> QED
      BY Zenon, <1>3, <2>2, <2>3, <2>4, <2>5, WorkerFrameType
         DEF PipelineTypeOK, storeVars, queueVars, RunStoreTypeOK, RunQueueTypeOK
  <1>5. CASE StartClaim(w)
    <2> DEFINE f == [worker[w] EXCEPT !.pc = "lock", !.slot = ClaimSnapshot(r)]
    <2>1. ClaimSnapshot(r) \in BOOLEAN
      BY DEF ClaimSnapshot
    <2>2. f \in Frame /\ f.pc = "lock"
      BY ZenonT(30), <1>3, <2>1 DEF Frame, InProcess, Returning
    <2>3. worker' = [worker EXCEPT ![w] = f]
      BY Zenon, <1>5 DEF StartClaim, r
    <2>4. "lock" \in InProcess /\ "lock" # "spawnEnqueue"
      BY DEF InProcess, Returning
    <2>5. UNCHANGED <<storeVars, queueVars, calls, faults>>
      BY <1>5 DEF StartClaim
    <2> HIDE DEF f
    <2> QED
      BY Zenon, <1>3, <2>2, <2>3, <2>4, <2>5, WorkerFrameType
         DEF PipelineTypeOK, storeVars, queueVars, RunStoreTypeOK, RunQueueTypeOK
  <1>6. CASE FinishClaim(w)
    <2>1. UNCHANGED <<record, stream, pel, dlq, calls, faults>>
      BY <1>6 DEF FinishClaim
    <2>2. CASE ClaimRow(r) /\ worker' = [worker EXCEPT ![w].pc = "begin", ![w].slot = FALSE]
               /\ UNCHANGED inbox
      <3> DEFINE f == [worker[w] EXCEPT !.pc = "begin", !.slot = FALSE]
      <3>1. f \in Frame /\ f.pc = "begin"
        BY Zenon, <1>3 DEF Frame, InProcess, Executing
      <3>2. worker' = [worker EXCEPT ![w] = f]
        BY Zenon, <2>2, <1>3
      <3>3. "begin" \in InProcess /\ "begin" # "spawnEnqueue"
        BY DEF InProcess, Executing
      <3> HIDE DEF f
      <3>4. WorkerTypeOK'
        BY ZenonT(30), <1>3, <2>1, <2>2, <3>1, <3>2, <3>3, WorkerFrameType
      <3> QED
        BY SMTT(30), <1>2, <1>3, <2>1, <2>2, <3>4, ClaimRowType DEF PipelineTypeOK, RunQueueTypeOK
    <2>3. CASE Return(w) /\ UNCHANGED runVars
      BY <1>1, <1>3, <2>1, <2>3, ReturnType
         DEF PipelineTypeOK, runVars, RunStoreTypeOK, RunQueueTypeOK
    <2> QED
      BY <1>6, <2>2, <2>3 DEF FinishClaim, r
  <1>7. CASE BeginExecution(w) \/ LookupRecord(w) \/ HandlerReturns(w) \/ CompleteExecution(w)
    <2>1. PICK p \in {"invoke", "lookup", "persistSuccess", "persistFailure", "complete"} : Goto(w, p)
      BY Zenon, <1>7 DEF BeginExecution, LookupRecord, HandlerReturns, CompleteExecution
    <2>2. p \in InProcess \ {"spawnEnqueue"}
      BY <2>1 DEF InProcess, Executing, Returning
    <2>3. UNCHANGED <<runVars, queueVars, calls, faults>>
      BY Zenon, <1>7 DEF BeginExecution, LookupRecord, HandlerReturns, CompleteExecution, storeVars, runVars
    <2>4. record' \in [Runs -> {"none", "in_progress", "completed"}]
      BY ZenonT(30), <1>3, <1>7 DEF BeginExecution, LookupRecord, HandlerReturns, CompleteExecution, Begin,
                             BeginIdempotency, CompleteIdempotency,
                        storeVars, RunStoreTypeOK
    <2>5. inbox' = inbox
      BY SMTT(30), <2>3 DEF queueVars
    <2>6. WorkerTypeOK'
      BY ZenonT(30), <1>1, <1>3, <2>1, <2>2, <2>3, <2>5, GotoType
    <2> QED
      BY <1>3, <2>3, <2>4, <2>6 DEF PipelineTypeOK, runVars, queueVars, RunStoreTypeOK, RunQueueTypeOK
  <1>8. CASE InvokeHandler(w)
    <2> DEFINE more == IF calls[r] <= MaxAttempts THEN calls[r] + 1 ELSE calls[r]
    <2>0. more \in 0 .. MaxAttempts + 1
      BY SMTT(30), <1>2, <1>3, DomainAssumption
    <2>1. calls' \in [Runs -> 0 .. MaxAttempts + 1]
      <3>1. calls' = [calls EXCEPT ![r] = more]
        BY <1>8 DEF InvokeHandler, r
      <3> HIDE DEF more
      <3> QED
        BY SMTT(30), <1>2, <1>3, <2>0, <3>1
    <2>2. "handler" \in InProcess \ {"spawnEnqueue"}
      BY DEF InProcess, Executing
    <2>3. UNCHANGED <<storeVars, queueVars, faults>> /\ Goto(w, "handler")
      BY <1>8 DEF InvokeHandler
    <2>4. inbox' = inbox
      BY SMTT(30), <2>3 DEF queueVars
    <2>5. WorkerTypeOK'
      BY SMTT(30), <1>1, <1>3, <2>1, <2>2, <2>3, <2>4, GotoType
    <2> QED
      BY SMTT(30), <1>3, <2>3, <2>5 DEF PipelineTypeOK, storeVars, queueVars, RunStoreTypeOK, RunQueueTypeOK
  <1> QED
    BY SMTT(30), <1>4, <1>5, <1>6, <1>7, <1>8

\* The second half of process and handleFailure.
LEMMA OutcomeType ==
  ASSUME TypeOK, NEW w \in Workers,
         \/ PersistSuccess(w) \/ PersistFailure(w) \/ RequeueRetry(w) \/ AppendRequeueEvent(w)
         \/ AppendDLQEvent(w) \/ DeadLetterRun(w) \/ AckMessage(w)
  PROVE  PipelineTypeOK'
  <1> DEFINE r == CurrentRun(w)
             n == worker[w].attempts
  <1>1. pc(w) \in InProcess
    BY DEF PersistSuccess, PersistFailure, RequeueRetry, AppendRequeueEvent, AppendDLQEvent,
           DeadLetterRun, AckMessage, InProcess, Returning
  <1>2. r \in Runs
    BY SMTT(30), <1>1, CurrentType
  <1>3. RunStoreTypeOK /\ RunQueueTypeOK /\ worker[w] \in Frame /\ inbox[w] # <<>>
        /\ calls \in [Runs -> 0 .. MaxAttempts + 1] /\ faults \in 0 .. MaxFaults
    BY <1>1 DEF TypeOK, WorkerTypeOK, pc
  <1>4. n \in Nat /\ n + 1 \in Nat
    BY <1>3 DEF Frame
  <1> HIDE DEF r, n
  <1>5. ASSUME NEW p \in {"spawnFind", "dlqEvent"}, NEW s \in Outcomes,
               worker' = [worker EXCEPT ![w].pc = p, ![w].outcome = s],
               PersistRunTransition(r, s, n), UNCHANGED <<record, queueVars, calls, faults>>
        PROVE  PipelineTypeOK'
    <2> DEFINE f == [worker[w] EXCEPT !.pc = p, !.outcome = s]
    <2>1. f \in Frame /\ f.pc = p
      BY Zenon, <1>3, <1>5 DEF Frame, InProcess, Spawning, Returning
    <2>2. worker' = [worker EXCEPT ![w] = f]
      BY Zenon, <1>3, <1>5
    <2>3. p \in InProcess /\ p # "spawnEnqueue"
      BY <1>5 DEF InProcess, Spawning, Returning
    <2> HIDE DEF f
    <2>4. inbox' = inbox /\ RunQueueTypeOK'
      BY <1>3, <1>5 DEF queueVars, RunQueueTypeOK
    <2>5. WorkerTypeOK'
      BY Zenon, <1>3, <1>5, <2>1, <2>2, <2>3, <2>4, WorkerFrameType
    <2>6. s \in Statuses
      BY <1>5 DEF Statuses, Outcomes, Terminal
    <2> QED
      BY SMTT(30), <1>2, <1>3, <1>4, <1>5, <2>4, <2>5, <2>6, PersistRunTransitionType DEF PipelineTypeOK
  <1>6. ASSUME NEW p \in {"requeue", "requeueEvent", "ack", "spawnFind"}, Goto(w, p),
               RunStoreTypeOK', RunQueueTypeOK', UNCHANGED <<inbox, calls, faults>>
        PROVE  PipelineTypeOK'
    <2>1. p \in InProcess \ {"spawnEnqueue"}
      BY <1>6 DEF InProcess, Spawning, Returning
    <2> QED
      BY <1>1, <1>3, <1>6, <2>1, GotoType DEF PipelineTypeOK
  <1>7. CASE PersistSuccess(w)
    BY <1>5, <1>7 DEF PersistSuccess, r, n, Outcomes
  <1>8. CASE PersistFailure(w)
    <2>1. UNCHANGED <<record, queueVars, calls, faults>>
      BY <1>8 DEF PersistFailure
    <2>2. CASE /\ PersistRunTransition(r, "failed", n)
               /\ worker' = [worker EXCEPT ![w].pc = "dlqEvent", ![w].outcome = "failed"]
      BY SMTT(30), <1>5, <2>1, <2>2 DEF Outcomes
    <2>3. CASE PersistRunTransition(r, "retry", n + 1) /\ Goto(w, "requeue")
      <3>1. "retry" \in Statuses
        BY DEF Statuses
      <3>2. RunStoreTypeOK' /\ RunQueueTypeOK' /\ inbox' = inbox
        BY SMTT(30), <1>2, <1>3, <1>4, <2>1, <2>3, <3>1, PersistRunTransitionType DEF queueVars, RunQueueTypeOK
      <3> QED
        BY <1>6, <2>1, <2>3, <3>2
    <2> QED
      BY <1>8, <2>2, <2>3 DEF PersistFailure, r, n
  <1>9. CASE RequeueRetry(w)
    <2>1. RunQueueTypeOK' /\ inbox' = inbox
      BY SMTT(30), <1>2, <1>3, <1>9, EnqueueType DEF RequeueRetry, r
    <2>2. RunStoreTypeOK'
      BY SMTT(30), <1>3, <1>9 DEF RequeueRetry, storeVars, RunStoreTypeOK
    <2> QED
      BY SMTT(30), <1>6, <1>9, <2>1, <2>2 DEF RequeueRetry
  <1>10. CASE AppendRequeueEvent(w) \/ AppendDLQEvent(w)
    <2>1. UNCHANGED <<storeVars, queueVars, calls, faults>>
      BY <1>10 DEF AppendRequeueEvent, AppendDLQEvent
    <2>2. RunStoreTypeOK' /\ RunQueueTypeOK' /\ inbox' = inbox
      BY SMTT(30), <1>3, <2>1 DEF storeVars, queueVars, RunStoreTypeOK, RunQueueTypeOK
    <2> QED
      BY SMTT(30), <1>6, <1>10, <2>1, <2>2 DEF AppendRequeueEvent, AppendDLQEvent
  <1>11. CASE DeadLetterRun(w)
    <2>1. RunStoreTypeOK' /\ RunQueueTypeOK'
      BY SMTT(30), <1>2, <1>3, <1>11 DEF DeadLetterRun, DeadLetter, r, storeVars, RunStoreTypeOK, RunQueueTypeOK
    <2> QED
      BY SMTT(30), <1>6, <1>11, <2>1 DEF DeadLetterRun
  <1>12. CASE AckMessage(w)
    <2>1. WorkerTypeOK' /\ inbox' \in [Workers -> Seq(Entry)]
      BY SMTT(30), <1>1, <1>3, <1>12, ReturnType DEF AckMessage
    <2>2. pel' \in Seq(Pending) /\ stream' = stream /\ dlq' = dlq
      BY SMTT(30), <1>3, <1>12, AckType DEF AckMessage
    <2> QED
      BY SMTT(30), <1>3, <1>12, <2>1, <2>2 DEF AckMessage, PipelineTypeOK, storeVars, RunStoreTypeOK, RunQueueTypeOK
  <1> QED
    BY SMTT(30), <1>7, <1>8, <1>9, <1>10, <1>11, <1>12

\* The loop of enqueueChildren moves on to the next child.
LEMMA NextChildType ==
  ASSUME TypeOK, NEW w \in Workers, pc(w) \in InProcess, NEW c, NextChild(w, c), inbox' = inbox,
         calls' \in [Runs -> 0 .. MaxAttempts + 1], faults' \in 0 .. MaxFaults
  PROVE  WorkerTypeOK'
  <1> DEFINE kids == worker[w].kids \ {c}
             p == AfterChild(w, kids)
             f == [worker[w] EXCEPT !.pc = p, !.kids = kids, !.child = NoJob, !.seq = 0]
  <1>1. worker[w] \in Frame /\ inbox[w] # <<>>
    BY DEF TypeOK, WorkerTypeOK, pc
  <1>2. p \in {"spawnCount", "deadLetter", "ack"}
    BY DEF AfterChild
  <1>3. p \in InProcess /\ p # "spawnEnqueue"
    BY <1>2 DEF InProcess, Spawning, Returning
  <1> HIDE DEF p
  <1>4. f \in Frame /\ f.pc = p
    BY Zenon, <1>1, <1>3 DEF Frame
  <1>5. worker' = [worker EXCEPT ![w] = f]
    BY ZenonT(30), <1>1 DEF NextChild, p
  <1> HIDE DEF f
  <1> QED
    BY Zenon, <1>1, <1>3, <1>4, <1>5, WorkerFrameType

\* enqueueChildren.
LEMMA SpawnType ==
  ASSUME TypeOK, NEW w \in Workers,
         LookupChildren(w) \/ CountChildRuns(w) \/ SaveChildRun(w) \/ EnqueueChildRun(w)
  PROVE  PipelineTypeOK'
  <1>1. pc(w) \in InProcess
    BY Zenon DEF LookupChildren, CountChildRuns, SaveChildRun, EnqueueChildRun, InProcess, Spawning
  <1>2. RunStoreTypeOK /\ RunQueueTypeOK /\ worker[w] \in Frame /\ inbox[w] # <<>>
        /\ calls \in [Runs -> 0 .. MaxAttempts + 1] /\ faults \in 0 .. MaxFaults
    BY SMTT(30), <1>1 DEF TypeOK, WorkerTypeOK, pc
  <1>3. CASE LookupChildren(w)
    <2> DEFINE kids == FindChildJobs(JobOf(CurrentRun(w)), worker[w].outcome)
               p == AfterChild(w, kids)
               f == [worker[w] EXCEPT !.pc = p, !.kids = kids]
    <2>1. p \in InProcess /\ p # "spawnEnqueue"
      BY DEF AfterChild, InProcess, Spawning, Returning
    <2>2. kids \subseteq Jobs
      BY DEF FindChildJobs
    <2>3. worker' = [worker EXCEPT ![w] = f] /\ UNCHANGED <<storeVars, queueVars, calls, faults>>
      BY Zenon, <1>2, <1>3 DEF LookupChildren
    <2> HIDE DEF p, kids
    <2>4. f \in Frame /\ f.pc = p
      BY ZenonT(30), <1>2, <2>1, <2>2 DEF Frame
    <2> HIDE DEF f
    <2> QED
      BY Zenon, <1>2, <2>1, <2>3, <2>4, WorkerFrameType
         DEF PipelineTypeOK, storeVars, queueVars, RunStoreTypeOK, RunQueueTypeOK
  <1>4. CASE CountChildRuns(w)
    <2>1. PICK c \in worker[w].kids :
            worker' = [worker EXCEPT ![w].pc = "spawnSave", ![w].child = c, ![w].seq = CountJobRunsByJob(c) + 1]
      BY Zenon, <1>4 DEF CountChildRuns
    <2>2. c \in Jobs /\ CountJobRunsByJob(c) + 1 \in Nat
      BY <1>2, CountJobRunsType DEF Frame
    <2> DEFINE f == [worker[w] EXCEPT !.pc = "spawnSave", !.child = c, !.seq = CountJobRunsByJob(c) + 1]
    <2>3. f \in Frame /\ f.pc = "spawnSave"
      BY Zenon, <1>2, <2>2 DEF Frame, InProcess, Spawning
    <2>4. worker' = [worker EXCEPT ![w] = f] /\ UNCHANGED <<storeVars, queueVars, calls, faults>>
      BY ZenonT(30), <1>2, <1>4, <2>1 DEF CountChildRuns
    <2>5. "spawnSave" \in InProcess /\ "spawnSave" # "spawnEnqueue"
      BY SMTT(30) DEF InProcess, Spawning
    <2> HIDE DEF f
    <2> QED
      BY ZenonT(30), <1>2, <2>3, <2>4, <2>5, WorkerFrameType
         DEF PipelineTypeOK, storeVars, queueVars, RunStoreTypeOK, RunQueueTypeOK
  <1>5. CASE SaveChildRun(w)
    <2> DEFINE r == <<worker[w].child, worker[w].seq>>
    <2>1. UNCHANGED <<record, queueVars, calls, faults>> /\ inbox' = inbox /\ RunQueueTypeOK'
      BY ZenonT(30), <1>2, <1>5 DEF SaveChildRun, queueVars, RunQueueTypeOK
    <2>2. CASE r \in Runs /\ SaveRun(r, "queued") /\ Goto(w, "spawnEnqueue")
      <3> DEFINE f == [worker[w] EXCEPT !.pc = "spawnEnqueue"]
      <3>1. f \in Frame /\ f.pc = "spawnEnqueue" /\ <<f.child, f.seq>> = r
        BY SMTT(30), <1>2 DEF Frame, InProcess, Spawning
      <3>2. worker' = [worker EXCEPT ![w] = f]
        BY <1>2, <2>2 DEF Goto
      <3>3. "spawnEnqueue" \in InProcess
        BY SMTT(30) DEF InProcess, Spawning
      <3> HIDE DEF f, r
      <3>4. WorkerTypeOK'
        BY ZenonT(30), <1>2, <2>1, <2>2, <3>1, <3>2, <3>3, WorkerFrameType
      <3>5. "queued" \in Statuses
        BY SMTT(30) DEF Statuses
      <3> QED
        BY ZenonT(30), <1>2, <2>1, <2>2, <3>4, <3>5, SaveRunType DEF PipelineTypeOK
    <2>3. CASE NextChild(w, worker[w].child) /\ UNCHANGED runVars
      BY ZenonT(30), <1>1, <1>2, <2>1, <2>3, NextChildType DEF PipelineTypeOK, runVars, RunStoreTypeOK
    <2> QED
      BY SMTT(30), <1>5, <2>2, <2>3 DEF SaveChildRun
  <1>6. CASE EnqueueChildRun(w)
    <2>1. <<worker[w].child, worker[w].seq>> \in Runs
      BY SMTT(30), <1>6 DEF EnqueueChildRun, TypeOK, WorkerTypeOK, pc
    <2>2. RunQueueTypeOK' /\ inbox' = inbox
      BY SMTT(30), <1>2, <1>6, <2>1, EnqueueType DEF EnqueueChildRun
    <2>3. WorkerTypeOK'
      BY SMTT(30), <1>1, <1>2, <1>6, <2>2, NextChildType DEF EnqueueChildRun
    <2> QED
      BY SMTT(30), <1>2, <1>6, <2>2, <2>3 DEF EnqueueChildRun, PipelineTypeOK, storeVars, RunStoreTypeOK
  <1> QED
    BY <1>3, <1>4, <1>5, <1>6

\* Failing calls.
LEMMA FailureType ==
  ASSUME TypeOK, NEW w \in Workers, WorkerFailure(w)
  PROVE  PipelineTypeOK'
  <1>1. pc(w) \in InProcess
    BY DEF WorkerFailure, CallFails, ExecutionFails, SpawnFails, DeadlineExceeded,
           InProcess, Executing, Spawning
  <1>2. RunStoreTypeOK /\ RunQueueTypeOK /\ calls \in [Runs -> 0 .. MaxAttempts + 1]
    BY SMTT(30) DEF TypeOK, WorkerTypeOK
  <1>3. calls' = calls /\ faults' \in 0 .. MaxFaults
    BY FaultAssumption
       DEF WorkerFailure, CallFails, ExecutionFails, SpawnFails, DeadlineExceeded, CountFault,
           TypeOK, WorkerTypeOK
  <1>4. CASE CallFails(w) \/ DeadlineExceeded(w)
    <2>1. Return(w) /\ UNCHANGED <<storeVars, stream, pel, dlq>>
      BY <1>4 DEF CallFails, DeadlineExceeded
    <2>2. WorkerTypeOK' /\ inbox' \in [Workers -> Seq(Entry)]
      BY <1>1, <1>2, <1>3, <2>1, ReturnType
    <2> QED
      BY <1>2, <2>1, <2>2 DEF PipelineTypeOK, storeVars, RunStoreTypeOK, RunQueueTypeOK
  <1>5. CASE ExecutionFails(w) \/ SpawnFails(w)
    <2>1. UNCHANGED <<storeVars, queueVars>> /\ inbox' = inbox
      BY <1>5 DEF ExecutionFails, SpawnFails, queueVars
    <2>2. CASE ExecutionFails(w)
      <3>1. "persistFailure" \in InProcess \ {"spawnEnqueue"}
        BY DEF InProcess, Returning
      <3>2. WorkerTypeOK'
        BY SMTT(30), <1>1, <1>2, <1>3, <2>1, <2>2, <3>1, GotoType DEF ExecutionFails
      <3> QED
        BY <1>2, <2>1, <3>2 DEF PipelineTypeOK, storeVars, queueVars, RunStoreTypeOK, RunQueueTypeOK
    <2>3. CASE SpawnFails(w)
      <3>1. PICK c : NextChild(w, c)
        BY <2>3 DEF SpawnFails
      <3>2. WorkerTypeOK'
        BY SMTT(30), <1>1, <1>2, <1>3, <2>1, <3>1, NextChildType
      <3> QED
        BY SMTT(30), <1>2, <2>1, <3>2 DEF PipelineTypeOK, storeVars, queueVars, RunStoreTypeOK, RunQueueTypeOK
    <2> QED
      BY SMTT(30), <1>5, <2>2, <2>3
  <1> QED
    BY SMTT(30), <1>4, <1>5 DEF WorkerFailure

\* The watcher.
LEMMA WatcherType ==
  ASSUME TypeOK, WatcherStep \/ WatcherFailure
  PROVE  RunStoreTypeOK' /\ RunQueueTypeOK' /\ inbox' = inbox /\ WatcherTypeOK'
  <1>1. RunStoreTypeOK /\ RunQueueTypeOK /\ WatcherTypeOK
    BY DEF TypeOK
  <1>2. scan.due \subseteq Copies /\ scan.hand \subseteq Copies /\ scanFaults \in 0 .. MaxScanFaults
    BY SMTT(30), <1>1 DEF WatcherTypeOK
  <1>3. ASSUME NEW due \in SUBSET Copies, NextCopy(due), scanFaults' \in 0 .. MaxScanFaults
        PROVE  WatcherTypeOK'
    BY SMTT(30), <1>3 DEF NextCopy, Resting, WatcherTypeOK
  <1>4. ASSUME UNCHANGED <<storeVars, queueVars>>
        PROVE  RunStoreTypeOK' /\ RunQueueTypeOK' /\ inbox' = inbox
    BY <1>1, <1>4 DEF storeVars, queueVars, RunStoreTypeOK, RunQueueTypeOK
  <1>5. ASSUME CountScanFault PROVE scanFaults' \in 0 .. MaxScanFaults
    BY SMTT(30), <1>2, <1>5, ScanFaultAssumption DEF CountScanFault
  <1>6. CASE FindDue
    <2> DEFINE due == FindDueRuns
    <2>1. due \in SUBSET Copies
      BY <1>1 DEF FindDueRuns, FindDueJobRuns, Copies, RunStoreTypeOK
    <2>2. NextCopy(due) /\ UNCHANGED <<storeVars, queueVars, scanFaults>>
      BY SMTT(30), <1>6 DEF FindDue
    <2> HIDE DEF due
    <2> QED
      BY SMTT(30), <1>2, <1>3, <1>4, <2>1, <2>2
  <1>7. CASE MarkQueued
    <2>1. PICK c \in scan.due :
            /\ UpdateRunStatus(c[1], "queued", c[2])
            /\ scan' = [at |-> "enqueue", due |-> scan.due \ {c}, hand |-> {c}]
      BY ZenonT(30), <1>7 DEF MarkQueued
    <2>2. c \in Copies /\ c[1] \in Runs /\ c[2] \in Nat /\ "queued" \in Statuses
      BY <1>2 DEF Copies, Statuses
    <2>3. RunStoreTypeOK' /\ RunQueueTypeOK' /\ inbox' = inbox
      BY <1>1, <1>7, <2>1, <2>2, UpdateRunStatusType DEF MarkQueued, queueVars, RunQueueTypeOK
    <2>4. scanFaults' = scanFaults
      BY <1>7 DEF MarkQueued
    <2> QED
      BY SMTT(30), <1>2, <2>1, <2>2, <2>3, <2>4 DEF WatcherTypeOK
  <1>8. CASE EnqueueDue
    <2>1. PICK c \in scan.hand : Enqueue(c[1])
      BY SMTT(30), <1>8 DEF EnqueueDue
    <2>2. RunQueueTypeOK' /\ inbox' = inbox
      BY SMTT(30), <1>1, <1>2, <2>1, EnqueueType DEF Copies
    <2> QED
      BY SMTT(30), <1>1, <1>2, <1>3, <1>8, <2>2 DEF EnqueueDue, storeVars, RunStoreTypeOK
  <1>9. CASE EnqueueDueFails
    <2>1. RunQueueTypeOK' /\ inbox' = inbox
      <3>1. CASE \E c \in scan.hand : Enqueue(c[1])
        BY SMTT(30), <1>1, <1>2, <3>1, EnqueueType DEF Copies
      <3>2. CASE UNCHANGED queueVars
        BY <1>1, <3>2 DEF queueVars, RunQueueTypeOK
      <3> QED
        BY SMTT(30), <1>9, <3>1, <3>2 DEF EnqueueDueFails
    <2>2. WatcherTypeOK'
      BY SMTT(30), <1>1, <1>5, <1>9 DEF EnqueueDueFails, WatcherTypeOK
    <2> QED
      BY SMTT(30), <1>1, <1>9, <2>1, <2>2 DEF EnqueueDueFails, storeVars, RunStoreTypeOK
  <1>10. CASE RevertToPending
    <2>1. PICK c \in scan.hand : UpdateRunStatus(c[1], "pending", c[2])
      BY SMTT(30), <1>10 DEF RevertToPending
    <2>2. c[1] \in Runs /\ c[2] \in Nat /\ "pending" \in Statuses
      BY SMTT(30), <1>2 DEF Copies, Statuses
    <2>3. RunStoreTypeOK' /\ RunQueueTypeOK' /\ inbox' = inbox
      BY SMTT(30), <1>1, <1>10, <2>1, <2>2, UpdateRunStatusType DEF RevertToPending, queueVars, RunQueueTypeOK
    <2> QED
      BY SMTT(30), <1>2, <1>3, <1>10, <2>3 DEF RevertToPending
  <1>11. CASE SkipCopy
    <2>1. PICK due \in SUBSET Copies : NextCopy(due)
      BY ZenonT(30), <1>2, <1>11 DEF SkipCopy
    <2> QED
      BY SMTT(30), <1>3, <1>4, <1>5, <1>11, <2>1 DEF SkipCopy
  <1>12. CASE ScanDeadline
    BY <1>4, <1>5, <1>12 DEF ScanDeadline, Resting, WatcherTypeOK
  <1> QED
    BY SMTT(30), <1>6, <1>7, <1>8, <1>9, <1>10, <1>11, <1>12 DEF WatcherStep, WatcherFailure

\* Requests of clients, the restart of the process and the passing of time.
LEMMA EnvironmentType ==
  ASSUME TypeOK, Client \/ FindCancelChildren \/ CancelFails \/ Crash \/ Tick
  PROVE  TypeOK'
  <1> USE DEF TypeOK
  <1>1. ASSUME NEW j \in Jobs, Create(j)
        PROVE  TypeOK'
    <2>1. <<j, 1>> \in Runs /\ "pending" \in Statuses
      BY SMTT(30), DomainAssumption DEF Runs, Statuses
    <2>2. RunStoreTypeOK'
      BY SMTT(30), <1>1, <2>1, SaveRunType DEF Create, CreateJobWithRun
    <2> QED
      BY SMTT(30), <1>1, <2>2 DEF Create, queueVars, workerVars, watcherVars, envVars,
                        RunQueueTypeOK, WorkerTypeOK, WatcherTypeOK
  <1>2. ASSUME NEW j \in Jobs, Cancel(j) \/ CancelChild(j)
        PROVE  TypeOK'
    <2>1. RunStoreTypeOK'
      BY <1>2, CancelPendingRunsByJobType DEF Cancel, CancelChild
    <2>2. cancelling' \in [parent : Jobs \cup {NoJob}, children : SUBSET Jobs]
          /\ cancels' \in 0 .. MaxCancels /\ crashes' \in 0 .. MaxCrashes
      BY <1>2, BoundAssumption DEF Cancel, CancelChild
    <2> QED
      BY ZenonT(30), <1>2, <2>1, <2>2 DEF Cancel, CancelChild, queueVars, workerVars, watcherVars,
                              RunQueueTypeOK, WorkerTypeOK, WatcherTypeOK
  <1>3. CASE FindCancelChildren
    <2>1. cancelling' \in [parent : Jobs \cup {NoJob}, children : SUBSET Jobs]
      BY ZenonT(30), <1>3 DEF FindCancelChildren, FindAllChildren, FindChildJobs
    <2> QED
      BY Zenon, <1>3, <2>1 DEF FindCancelChildren, storeVars, queueVars, workerVars, watcherVars,
                        RunStoreTypeOK, RunQueueTypeOK, WorkerTypeOK, WatcherTypeOK
  <1>4. CASE CancelFails
    <2>1. faults' \in 0 .. MaxFaults
      <3>1. faults \in 0 .. MaxFaults /\ faults < MaxFaults /\ faults' = faults + 1
        BY <1>4 DEF CancelFails, CountFault, WorkerTypeOK
      <3> QED
        BY <3>1, FaultAssumption
    <2>2. cancelling' \in [parent : Jobs \cup {NoJob}, children : SUBSET Jobs]
      BY <1>4 DEF CancelFails, NoRequest
    <2> QED
      BY SMTT(30), <1>4, <2>1, <2>2 DEF CancelFails, storeVars, queueVars, watcherVars,
                        RunStoreTypeOK, RunQueueTypeOK, WorkerTypeOK, WatcherTypeOK
  <1>5. CASE Crash
    <2>1. Loop("reclaim", FALSE) \in Frame /\ Loop("reclaim", FALSE).pc = "reclaim"
      BY Zenon, LoopType
    <2>2. "reclaim" \notin InProcess
      BY DEF InProcess, Executing, Spawning, Returning
    <2>3. WorkerTypeOK'
      BY ZenonT(30), <1>5, <2>1, <2>2 DEF Crash, WorkerTypeOK
    <2>4. RunQueueTypeOK'
      BY <1>5 DEF Crash, RunQueueTypeOK
    <2>5. WatcherTypeOK'
      BY Zenon, <1>5 DEF Crash, Resting, WatcherTypeOK
    <2>6. RunStoreTypeOK' /\ cancels' = cancels
      BY SMTT(30), <1>5 DEF Crash, storeVars, RunStoreTypeOK
    <2>7. /\ cancelling' \in [parent : Jobs \cup {NoJob}, children : SUBSET Jobs]
          /\ crashes' \in 0 .. MaxCrashes
      BY SMTT(30), <1>5, BoundAssumption DEF Crash, NoRequest
    <2> QED
      BY SMTT(30), <2>3, <2>4, <2>5, <2>6, <2>7
  <1>6. CASE Tick
    <2>1. \A p \in Pending : Older(p) \in Pending
      BY QueueAssumption DEF Older, Pending
    <2>2. pel' \in Seq(Pending)
      <3>1. pel \in Seq(Pending) /\ pel' = [i \in 1 .. Len(pel) |-> Older(pel[i])]
        BY SMTT(30), <1>6 DEF Tick, RunQueueTypeOK
      <3>2. \A i \in 1 .. Len(pel) : Older(pel[i]) \in Pending
        BY <2>1, <3>1
      <3>3. Len(pel) \in Nat
        BY SMTT(30), <3>1
      <3> QED
        BY <3>1, <3>2, <3>3
    <2>3. ASSUME NEW w \in Workers
          PROVE  /\ worker'[w] \in Frame
                 /\ worker'[w].pc = worker[w].pc
                 /\ worker'[w].child = worker[w].child
                 /\ worker'[w].seq = worker[w].seq
      <3>1. worker[w] \in Frame
        BY DEF WorkerTypeOK
      <3>2. CASE pc(w) \in InProcess
        <4>1. worker'[w] = [worker[w] EXCEPT !.elapsed = worker[w].elapsed + 1]
          BY <1>6, <3>2 DEF Tick
        <4>2. worker[w].elapsed + 1 \in 0 .. MessageTimeout
          BY <1>6, <3>1, <3>2, QueueAssumption DEF Tick, Frame
        <4> QED
          BY <3>1, <4>1, <4>2 DEF Frame
      <3>3. CASE pc(w) \notin InProcess
        BY <1>6, <3>1, <3>3 DEF Tick
      <3> QED
        BY SMTT(30), <3>2, <3>3
    <2>4. worker' \in [Workers -> Frame]
      BY <1>6, <2>3 DEF Tick
    <2>5. UNCHANGED <<storeVars, stream, inbox, dlq, calls, faults, watcherVars, envVars>>
      BY SMTT(30), <1>6 DEF Tick
    <2>6. WorkerTypeOK'
      BY Zenon, <2>3, <2>4, <2>5 DEF WorkerTypeOK
    <2> QED
      BY <2>2, <2>5, <2>6 DEF storeVars, watcherVars, envVars,
                              RunStoreTypeOK, RunQueueTypeOK, WatcherTypeOK
  <1> QED
    BY <1>1, <1>2, <1>3, <1>4, <1>5, <1>6 DEF Client

\* TypeOK is inductive.
LEMMA TypeOKStep == TypeOK /\ [Next]_vars => TypeOK'
  <1> SUFFICES ASSUME TypeOK, [Next]_vars
               PROVE  TypeOK'
    OBVIOUS
  <1>1. CASE Client \/ FindCancelChildren \/ CancelFails \/ Crash \/ Tick
    BY <1>1, EnvironmentType
  <1>2. CASE (WatcherStep \/ WatcherFailure) /\ UNCHANGED <<workerVars, envVars>>
    <2>1. RunStoreTypeOK' /\ RunQueueTypeOK' /\ inbox' = inbox /\ WatcherTypeOK'
      BY SMTT(30), <1>2, WatcherType
    <2> QED
      BY <1>2, <2>1 DEF TypeOK, workerVars, envVars, WorkerTypeOK
  <1>3. ASSUME NEW w \in Workers, WorkerStep(w) \/ WorkerFailure(w),
               UNCHANGED <<watcherVars, envVars>>
        PROVE  TypeOK'
    <2>1. PipelineTypeOK'
      BY SMTT(30), <1>3, PollType, ExecuteType, OutcomeType, SpawnType, FailureType DEF WorkerStep
    <2> QED
      BY SMTT(30), <1>3, <2>1 DEF PipelineTypeOK, TypeOK, watcherVars, envVars, WatcherTypeOK
  <1>4. CASE UNCHANGED vars
    BY SMTT(30), <1>4 DEF vars, storeVars, queueVars, workerVars, watcherVars, envVars, TypeOK,
                RunStoreTypeOK, RunQueueTypeOK, WorkerTypeOK, WatcherTypeOK
  <1> QED
    BY <1>1, <1>2, <1>3, <1>4 DEF Next

\* Rows, entries, frames and copies keep their types, whatever the numbers of
\* jobs, workers, tenants and failures: process never looks at the head of an
\* empty batch, and every entry it adds or acknowledges stands for a run.
THEOREM TypeCorrect == Spec => []TypeOK
  <1>1. Init => TypeOK
    <2> SUFFICES ASSUME Init PROVE TypeOK
      OBVIOUS
    <2>1. Loop("reclaim", FALSE) \in Frame /\ Loop("reclaim", FALSE).pc = "reclaim"
      BY Zenon, LoopType
    <2>2. "reclaim" \notin InProcess
      BY DEF InProcess, Executing, Spawning, Returning
    <2>3. WorkerTypeOK
      <3>1. 0 \in 0 .. MaxAttempts + 1 /\ 0 \in 0 .. MaxFaults
        BY DomainAssumption, FaultAssumption
      <3>2. \A w \in Workers : worker[w] = Loop("reclaim", FALSE) /\ inbox[w] = <<>>
        BY DEF Init, WorkerInit, RunQueueInit
      <3>3. worker \in [Workers -> Frame] /\ calls \in [Runs -> 0 .. MaxAttempts + 1] /\ faults = 0
        BY Zenon, <2>1, <3>1 DEF Init, WorkerInit
      <3>4. \A w \in Workers : worker[w].pc \in InProcess <=> inbox[w] # <<>>
        BY Zenon, <2>1, <2>2, <3>2
      <3>5. \A w \in Workers : worker[w].pc # "spawnEnqueue"
        BY Zenon, <2>1, <3>2
      <3> QED
        BY <3>1, <3>3, <3>4, <3>5 DEF WorkerTypeOK
    <2>4. RunStoreTypeOK /\ RunQueueTypeOK
      BY DEF Init, RunStoreInit, RunQueueInit, RunStoreTypeOK, RunQueueTypeOK
    <2>5. WatcherTypeOK
      BY ScanFaultAssumption DEF Init, WatcherInit, Resting, WatcherTypeOK
    <2> QED
      BY <2>3, <2>4, <2>5, BoundAssumption DEF Init, NoRequest, TypeOK
  <1> QED
    BY <1>1, TypeOKStep, PTL DEF Spec

-----------------------------------------------------------------------------
(* What the steps of a worker do to the places, outcomes and copies of the *)
(* workers, and to the rows.                                               *)

\* A step of w leaves the other workers alone.
Alone(w) == \A v \in Workers \ {w} : worker'[v] = worker[v] /\ inbox'[v] = inbox[v]

\* w goes on to p with the entry, the copy and the outcome it has.
Moves(w, p) ==
  /\ Alone(w)
  /\ worker'[w].pc = p /\ inbox'[w] = inbox[w]
  /\ worker'[w].attempts = worker[w].attempts /\ worker'[w].outcome = worker[w].outcome

\* w starts on the next entry, or goes on with its loop.
Restarts(w) ==
  /\ Alone(w)
  /\ worker'[w].pc \in {"find", "read", "reclaim"}
  /\ worker'[w].pc = "find" => worker'[w].outcome = "none"
  /\ UNCHANGED <<status, attempts, ended, dlq, calls>>

\* w polls, or returns from process without an error.
Polls(w) == pc(w) \in {"reclaim", "read"} /\ Restarts(w) /\ faults' = faults
Returns(w) == pc(w) \in {"lock", "ack"} /\ Restarts(w) /\ faults' = faults

\* process returns with an error.
GivesIn(w) == pc(w) \in InProcess /\ Restarts(w) /\ faults' = faults + 1

\* FindRunByID and what follows from the row.
LooksUp(w) ==
  /\ pc(w) = "find" /\ Alone(w)
  /\ worker'[w].pc = Dispatch(status[CurrentRun(w)], worker[w].reclaimed)
  /\ worker'[w].attempts = attempts[CurrentRun(w)] /\ worker'[w].outcome = worker[w].outcome
  /\ inbox'[w] = inbox[w]
  /\ UNCHANGED <<status, attempts, ended, dlq, calls, faults>>

\* The two halves of a claim.
Counts(w) ==
  /\ pc(w) = "claim" /\ Moves(w, "lock")
  /\ worker'[w].slot = ClaimSnapshot(CurrentRun(w))
  /\ UNCHANGED <<status, attempts, ended, dlq, calls, faults>>
Claims(w) ==
  /\ pc(w) = "lock" /\ worker[w].slot /\ Moves(w, "begin")
  /\ ClaimRow(CurrentRun(w))
  /\ UNCHANGED <<dlq, calls, faults>>

\* The steps of Execute but for the call of the handler.
Executes(w) ==
  /\ \E p \in {"lookup", "invoke", "complete", "persistSuccess", "persistFailure"} :
       /\ Moves(w, p)
       /\ p \in {"lookup", "invoke"} => pc(w) = "begin"
  /\ pc(w) \in Executing \ {"invoke"}
  /\ faults' \in {faults, faults + 1}
  /\ UNCHANGED <<status, attempts, ended, dlq, calls>>
Invokes(w) ==
  /\ pc(w) = "invoke" /\ Moves(w, "handler")
  /\ calls' = [calls EXCEPT ![CurrentRun(w)] = IF @ <= MaxAttempts THEN @ + 1 ELSE @]
  /\ UNCHANGED <<status, attempts, ended, dlq, faults>>

\* Persisting s as the outcome of the run.
Ends(w, s) ==
  /\ Alone(w)
  /\ worker'[w].pc \in {"spawnFind", "dlqEvent"} /\ worker'[w].outcome = s
  /\ inbox'[w] = inbox[w]
  /\ PersistRunTransition(CurrentRun(w), s, worker[w].attempts)
  /\ UNCHANGED <<dlq, calls, faults>>
Retries(w) ==
  /\ pc(w) = "persistFailure" /\ ~LastAttempt(worker[w].attempts) /\ Moves(w, "requeue")
  /\ PersistRunTransition(CurrentRun(w), "retry", worker[w].attempts + 1)
  /\ UNCHANGED <<dlq, calls, faults>>

\* What follows an outcome or a retry; only a child's row is inserted.
Proceeds(w) ==
  /\ \E p \in {"requeueEvent", "deadLetter", "ack"} \cup Spawning :
       /\ Moves(w, p)
       /\ p = "requeueEvent" => pc(w) = "requeue"
       /\ p = "ack" => pc(w) = "requeueEvent" \/ worker[w].outcome # "failed"
  /\ pc(w) \in {"requeue", "requeueEvent", "dlqEvent"} \cup Spawning
  /\ \A r \in Runs : status'[r] = status[r] \/ (status[r] = "absent" /\ status'[r] = "queued")
  /\ faults' \in {faults, faults + 1}
  /\ UNCHANGED <<attempts, ended, dlq, calls>>
Buries(w) ==
  /\ pc(w) = "deadLetter" /\ Moves(w, "ack")
  /\ dlq' = dlq \cup {CurrentRun(w)}
  /\ UNCHANGED <<status, attempts, ended, calls, faults>>

WorkerMove(w) ==
  \/ Polls(w) \/ Returns(w) \/ GivesIn(w) \/ LooksUp(w) \/ Counts(w) \/ Claims(w)
  \/ Executes(w) \/ Invokes(w)
  \/ pc(w) = "persistSuccess" /\ Ends(w, "success")
  \/ pc(w) = "persistFailure" /\ LastAttempt(worker[w].attempts) /\ Ends(w, "failed")
  \/ Retries(w) \/ Proceeds(w) \/ Buries(w)

\* A worker gets a new frame.
LEMMA NewFrame ==
  ASSUME TypeOK, NEW w \in Workers, NEW f, worker' = [worker EXCEPT ![w] = f]
  PROVE  worker'[w] = f /\ \A v \in Workers \ {w} : worker'[v] = worker[v]
  BY DEF TypeOK, WorkerTypeOK

\* Goto is a move.
LEMMA GotoMoves ==
  ASSUME TypeOK, NEW w \in Workers, NEW p, Goto(w, p), inbox' = inbox
  PROVE  Moves(w, p)
<1> DEFINE f == [worker[w] EXCEPT !.pc = p]
<1>1. worker' = [worker EXCEPT ![w] = f]
  BY DEF Goto
<1>2. f.pc = p /\ f.attempts = worker[w].attempts /\ f.outcome = worker[w].outcome
  BY DEF TypeOK, WorkerTypeOK, Frame
<1> HIDE DEF f
<1> QED
  BY Zenon, <1>1, <1>2, NewFrame DEF Moves, Alone

\* So is going on with the next child.
LEMMA NextChildMoves ==
  ASSUME TypeOK, NEW w \in Workers, NEW c, NextChild(w, c), inbox' = inbox
  PROVE  Moves(w, AfterChild(w, worker[w].kids \ {c}))
<1> DEFINE kids == worker[w].kids \ {c}
           p == AfterChild(w, kids)
           f == [worker[w] EXCEPT !.pc = p, !.kids = kids, !.child = NoJob, !.seq = 0]
<1>1. worker' = [worker EXCEPT ![w] = f]
  BY Zenon DEF NextChild
<1>2. f.pc = p /\ f.attempts = worker[w].attempts /\ f.outcome = worker[w].outcome
  BY DEF TypeOK, WorkerTypeOK, Frame
<1> HIDE DEF f, p
<1>3. Moves(w, p)
  BY Zenon, <1>1, <1>2, NewFrame DEF Moves, Alone
<1> QED
  BY <1>3 DEF p

\* After the last child comes the dead letter or the acknowledgement.
LEMMA AfterChildPlace ==
  ASSUME NEW w, NEW kids
  PROVE  /\ AfterChild(w, kids) \in {"deadLetter", "ack"} \cup Spawning
         /\ AfterChild(w, kids) = "ack" => worker[w].outcome # "failed"
  BY DEF AfterChild, Spawning

\* The return from process restarts the worker.
LEMMA ReturnRestarts ==
  ASSUME TypeOK, NEW w \in Workers, Return(w), UNCHANGED <<status, attempts, ended, dlq, calls>>
  PROVE  Restarts(w)
<1> DEFINE rest == Tail(inbox[w])
           again == worker[w].reclaimed
           f == IF rest # <<>> THEN Loop("find", again)
                ELSE Loop(IF again THEN "read" ELSE "reclaim", FALSE)
<1>1. worker' = [worker EXCEPT ![w] = f] /\ inbox' = [inbox EXCEPT ![w] = rest]
  BY DEF Return
<1>2. f.pc \in {"find", "read", "reclaim"} /\ f.outcome = "none"
  BY DEF Loop
<1>3. \A v \in Workers \ {w} : inbox'[v] = inbox[v]
  BY <1>1 DEF TypeOK, RunQueueTypeOK
<1> HIDE DEF f
<1> QED
  BY Zenon, <1>1, <1>2, <1>3, NewFrame DEF Restarts, Alone

\* Polling and the claim.
LEMMA ClaimMove ==
  ASSUME TypeOK, NEW w \in Workers,
         PollReclaim(w) \/ PollRead(w) \/ FindRunByID(w) \/ StartClaim(w) \/ FinishClaim(w)
  PROVE  WorkerMove(w)
<1>1. worker[w] \in Frame
  BY DEF TypeOK, WorkerTypeOK
<1>2. CASE PollReclaim(w) \/ PollRead(w)
  <2>1. UNCHANGED <<status, attempts, ended, calls, faults>> /\ pc(w) \in {"reclaim", "read"}
    BY Zenon, <1>2 DEF PollReclaim, PollRead, storeVars
  <2>2. ASSUME NEW again \in BOOLEAN, Read(w) \/ Reclaim(w),
               worker' = [worker EXCEPT ![w] = Loop("find", again)]
        PROVE  Polls(w)
    <3>1. \A v \in Workers \ {w} : inbox'[v] = inbox[v]
      BY <2>2, ReadType, ReclaimType DEF TypeOK
    <3>2. dlq' = dlq
      BY Zenon, <2>2 DEF Read, Reclaim
    <3>3. Loop("find", again).pc = "find" /\ Loop("find", again).outcome = "none"
      BY DEF Loop
    <3> QED
      BY Zenon, <2>1, <2>2, <3>1, <3>2, <3>3, NewFrame DEF Polls, Restarts, Alone
  <2>3. ASSUME NEW p \in {"read", "reclaim"}, Goto(w, p), UNCHANGED queueVars
        PROVE  Polls(w)
    <3>1. inbox' = inbox /\ dlq' = dlq
      BY <2>3 DEF queueVars
    <3>2. Moves(w, p)
      BY <2>3, <3>1, GotoMoves
    <3> QED
      BY <2>1, <3>1, <3>2 DEF Polls, Restarts, Moves
  <2> QED
    BY Zenon, <1>2, <2>2, <2>3 DEF PollReclaim, PollRead, WorkerMove
<1>3. CASE FindRunByID(w)
  <2> DEFINE p == Dispatch(status[CurrentRun(w)], worker[w].reclaimed)
             n == attempts[CurrentRun(w)]
             f == [worker[w] EXCEPT !.pc = p, !.attempts = n]
  <2>1. worker' = [worker EXCEPT ![w] = f]
    BY Zenon, <1>3 DEF FindRunByID, GetJobRunByID
  <2>2. f.pc = p /\ f.attempts = n /\ f.outcome = worker[w].outcome
    BY <1>1 DEF Frame
  <2>3. inbox' = inbox /\ UNCHANGED <<status, attempts, ended, dlq, calls, faults>> /\ pc(w) = "find"
    BY <1>3 DEF FindRunByID, storeVars, queueVars
  <2> HIDE DEF f, p, n
  <2>4. worker'[w].pc = p /\ worker'[w].attempts = n /\ worker'[w].outcome = worker[w].outcome /\ Alone(w)
    BY Zenon, <2>1, <2>2, <2>3, NewFrame DEF Alone
  <2> QED
    BY Zenon, <2>3, <2>4 DEF WorkerMove, LooksUp, p, n
<1>4. CASE StartClaim(w)
  <2> DEFINE b == ClaimSnapshot(CurrentRun(w))
             f == [worker[w] EXCEPT !.pc = "lock", !.slot = b]
  <2>1. worker' = [worker EXCEPT ![w] = f]
    BY Zenon, <1>4 DEF StartClaim
  <2> HIDE DEF b
  <2>2. f.pc = "lock" /\ f.slot = b /\ f.attempts = worker[w].attempts /\ f.outcome = worker[w].outcome
    BY Zenon, <1>1 DEF Frame
  <2>3. inbox' = inbox /\ UNCHANGED <<status, attempts, ended, dlq, calls, faults>> /\ pc(w) = "claim"
    BY <1>4 DEF StartClaim, storeVars, queueVars
  <2> HIDE DEF f
  <2>4. Moves(w, "lock") /\ worker'[w].slot = b
    BY Zenon, <2>1, <2>2, <2>3, NewFrame DEF Alone, Moves
  <2> QED
    BY Zenon, <2>3, <2>4 DEF WorkerMove, Counts, b
<1>5. CASE FinishClaim(w)
  <2>1. UNCHANGED <<dlq, calls, faults>> /\ pc(w) = "lock"
    BY <1>5 DEF FinishClaim
  <2>2. CASE Return(w) /\ UNCHANGED runVars
    <3>1. UNCHANGED <<status, attempts, ended, dlq, calls>>
      BY <2>1, <2>2 DEF runVars
    <3> QED
      BY <2>1, <2>2, <3>1, ReturnRestarts DEF WorkerMove, Returns
  <2>3. CASE /\ worker[w].slot /\ ClaimRow(CurrentRun(w)) /\ UNCHANGED inbox
             /\ worker' = [worker EXCEPT ![w].pc = "begin", ![w].slot = FALSE]
    <3> DEFINE f == [worker[w] EXCEPT !.pc = "begin", !.slot = FALSE]
    <3>1. worker' = [worker EXCEPT ![w] = f]
      BY Zenon, <2>3
    <3>2. f.pc = "begin" /\ f.attempts = worker[w].attempts /\ f.outcome = worker[w].outcome
      BY <1>1 DEF Frame
    <3> HIDE DEF f
    <3>3. Moves(w, "begin")
      BY Zenon, <2>3, <3>1, <3>2, NewFrame DEF Alone, Moves
    <3> QED
      BY Zenon, <2>1, <2>3, <3>3 DEF WorkerMove, Claims
  <2> QED
    BY Zenon, <1>5, <2>2, <2>3 DEF FinishClaim
<1> QED
  BY <1>2, <1>3, <1>4, <1>5

\* Execute.
LEMMA ExecuteMove ==
  ASSUME TypeOK, NEW w \in Workers,
         \/ BeginExecution(w) \/ LookupRecord(w) \/ InvokeHandler(w) \/ HandlerReturns(w)
         \/ CompleteExecution(w) \/ ExecutionFails(w)
  PROVE  WorkerMove(w)
<1>1. inbox' = inbox /\ UNCHANGED <<status, attempts, ended, dlq>>
  BY Zenon DEF BeginExecution, LookupRecord, InvokeHandler, HandlerReturns, CompleteExecution,
         ExecutionFails, storeVars, runVars, queueVars
<1>2. CASE InvokeHandler(w)
  <2>1. Goto(w, "handler") /\ pc(w) = "invoke" /\ faults' = faults
    BY <1>2 DEF InvokeHandler
  <2>2. Moves(w, "handler")
    BY <1>1, <2>1, GotoMoves
  <2> QED
    BY <1>1, <1>2, <2>1, <2>2 DEF InvokeHandler, Invokes, WorkerMove
<1>3. CASE ~InvokeHandler(w)
  <2> DEFINE Places == {"lookup", "invoke", "complete", "persistSuccess", "persistFailure"}
  <2>1. /\ pc(w) \in {"begin", "lookup", "handler", "complete"}
        /\ calls' = calls /\ faults' \in {faults, faults + 1}
    BY Zenon, <1>3 DEF BeginExecution, LookupRecord, HandlerReturns, CompleteExecution, ExecutionFails, CountFault
  <2>2. PICK p \in Places : Goto(w, p) /\ (p \in {"lookup", "invoke"} => pc(w) = "begin")
    BY Zenon, <1>3 DEF BeginExecution, LookupRecord, HandlerReturns, CompleteExecution, ExecutionFails
  <2>3. Moves(w, p)
    BY <1>1, <2>2, GotoMoves
  <2>4. pc(w) \in Executing \ {"invoke"}
    BY <2>1 DEF Executing
  <2>5. Executes(w)
    BY Zenon, <1>1, <2>1, <2>2, <2>3, <2>4 DEF Executes
  <2> QED
    BY <2>5 DEF WorkerMove
<1> QED
  BY <1>2, <1>3

\* Persisting the outcome.
LEMMA PersistMove ==
  ASSUME TypeOK, NEW w \in Workers, PersistSuccess(w) \/ PersistFailure(w)
  PROVE  WorkerMove(w)
<1>1. inbox' = inbox /\ UNCHANGED <<dlq, calls, faults>>
  BY DEF PersistSuccess, PersistFailure, queueVars
<1>2. ASSUME NEW p \in {"spawnFind", "dlqEvent"}, NEW s,
             worker' = [worker EXCEPT ![w].pc = p, ![w].outcome = s],
             PersistRunTransition(CurrentRun(w), s, worker[w].attempts)
      PROVE  Ends(w, s)
  <2> DEFINE f == [worker[w] EXCEPT !.pc = p, !.outcome = s]
  <2>1. worker' = [worker EXCEPT ![w] = f]
    BY Zenon, <1>2
  <2>2. f.pc = p /\ f.outcome = s
    BY DEF TypeOK, WorkerTypeOK, Frame
  <2> HIDE DEF f
  <2>3. Alone(w) /\ worker'[w].pc = p /\ worker'[w].outcome = s
    BY Zenon, <1>1, <2>1, <2>2, NewFrame DEF Alone
  <2> QED
    BY Zenon, <1>1, <1>2, <2>3 DEF Ends
<1>3. CASE PersistSuccess(w)
  BY Zenon, <1>2, <1>3 DEF PersistSuccess, WorkerMove
<1>4. CASE PersistFailure(w)
  <2>1. ASSUME Goto(w, "requeue"), ~LastAttempt(worker[w].attempts),
               PersistRunTransition(CurrentRun(w), "retry", worker[w].attempts + 1)
        PROVE  Retries(w)
    <3>1. Moves(w, "requeue")
      BY <1>1, <2>1, GotoMoves
    <3> QED
      BY Zenon, <1>1, <1>4, <2>1, <3>1 DEF Retries, PersistFailure
  <2> QED
    BY Zenon, <1>2, <1>4, <2>1 DEF PersistFailure, WorkerMove
<1> QED
  BY <1>3, <1>4

\* What follows the outcome or the retry.
LEMMA ProceedMove ==
  ASSUME TypeOK, NEW w \in Workers,
         \/ RequeueRetry(w) \/ AppendRequeueEvent(w) \/ AppendDLQEvent(w) \/ LookupChildren(w)
         \/ CountChildRuns(w) \/ SaveChildRun(w) \/ EnqueueChildRun(w) \/ SpawnFails(w)
  PROVE  Proceeds(w)
<1> DEFINE Places == {"requeueEvent", "deadLetter", "ack"} \cup Spawning
           Rows == \A r \in Runs : status'[r] = status[r] \/ (status[r] = "absent" /\ status'[r] = "queued")
           Goes(p) == /\ Moves(w, p)
                      /\ p = "requeueEvent" => pc(w) = "requeue"
                      /\ p = "ack" => pc(w) = "requeueEvent" \/ worker[w].outcome # "failed"
<1>1. inbox' = inbox /\ UNCHANGED <<attempts, ended, dlq, calls>>
  <2>1. CASE RequeueRetry(w) \/ EnqueueChildRun(w)
    BY <2>1 DEF RequeueRetry, EnqueueChildRun, Enqueue, storeVars
  <2>2. CASE SaveChildRun(w)
    BY <2>2 DEF SaveChildRun, SaveRun, InsertJobRun, runVars, queueVars
  <2> QED
    BY ZenonT(30), <2>1, <2>2 DEF AppendRequeueEvent, AppendDLQEvent, LookupChildren, CountChildRuns, SpawnFails,
                      storeVars, queueVars
<1>2. pc(w) \in {"requeue", "requeueEvent", "dlqEvent"} \cup Spawning
  BY Zenon DEF RequeueRetry, AppendRequeueEvent, AppendDLQEvent, LookupChildren, CountChildRuns,
               SaveChildRun, EnqueueChildRun, SpawnFails, Spawning
<1>3. faults' \in {faults, faults + 1}
  BY Zenon DEF RequeueRetry, AppendRequeueEvent, AppendDLQEvent, LookupChildren, CountChildRuns,
               SaveChildRun, EnqueueChildRun, SpawnFails, CountFault
<1>4. Rows
  <2>1. CASE SaveChildRun(w)
    <3>1. status \in [Runs -> Statuses \cup {"absent"}]
      BY DEF TypeOK, RunStoreTypeOK
    <3> QED
      BY <2>1, <3>1 DEF SaveChildRun, SaveRun, InsertJobRun, runVars
  <2>2. CASE ~SaveChildRun(w)
    <3>1. status' = status
      BY Zenon, <2>2 DEF RequeueRetry, AppendRequeueEvent, AppendDLQEvent, LookupChildren,
                         CountChildRuns, EnqueueChildRun, SpawnFails, storeVars
    <3> QED
      BY <3>1
  <2> QED
    BY <2>1, <2>2
<1>5. ASSUME NEW c, NextChild(w, c)
      PROVE  \E p \in Places : Goes(p)
  <2> DEFINE p == AfterChild(w, worker[w].kids \ {c})
  <2>1. Moves(w, p)
    BY <1>1, <1>5, NextChildMoves
  <2>2. p \in {"deadLetter", "ack"} \cup Spawning /\ (p = "ack" => worker[w].outcome # "failed")
    BY AfterChildPlace
  <2>3. p # "requeueEvent"
    BY <2>2 DEF Spawning
  <2> HIDE DEF p
  <2> QED
    BY <2>1, <2>2, <2>3
<1>6. ASSUME NEW p \in {"requeueEvent", "ack", "spawnFind", "spawnEnqueue"}, Goto(w, p),
             p = "requeueEvent" => pc(w) = "requeue", p = "ack" => pc(w) = "requeueEvent"
      PROVE  \E q \in Places : Goes(q)
  <2>1. Moves(w, p)
    BY <1>1, <1>6, GotoMoves
  <2>2. p \in Places
    BY DEF Spawning
  <2> QED
    BY <1>6, <2>1, <2>2
<1>7. ASSUME NEW f, worker' = [worker EXCEPT ![w] = f], f.attempts = worker[w].attempts,
             f.outcome = worker[w].outcome, f.pc \in {"deadLetter", "ack"} \cup Spawning,
             f.pc = "ack" => worker[w].outcome # "failed"
      PROVE  \E q \in Places : Goes(q)
  <2>1. Moves(w, f.pc)
    BY Zenon, <1>1, <1>7, NewFrame DEF Moves, Alone
  <2>2. f.pc # "requeueEvent"
    BY <1>7 DEF Spawning
  <2> QED
    BY Zenon, <1>7, <2>1, <2>2
<1> HIDE DEF Goes, Places
<1>8. \E q \in Places : Goes(q)
  <2>1. CASE RequeueRetry(w) \/ AppendRequeueEvent(w) \/ AppendDLQEvent(w)
    BY Zenon, <1>6, <2>1 DEF RequeueRetry, AppendRequeueEvent, AppendDLQEvent
  <2>2. CASE LookupChildren(w)
    <3> DEFINE kids == FindChildJobs(JobOf(CurrentRun(w)), worker[w].outcome)
               p == AfterChild(w, kids)
               f == [worker[w] EXCEPT !.pc = p, !.kids = kids]
    <3>1. worker' = [worker EXCEPT ![w] = f]
      BY Zenon, <2>2 DEF LookupChildren
    <3>2. p \in {"deadLetter", "ack"} \cup Spawning /\ (p = "ack" => worker[w].outcome # "failed")
      BY AfterChildPlace
    <3> HIDE DEF p, kids
    <3>3. f.pc = p /\ f.attempts = worker[w].attempts /\ f.outcome = worker[w].outcome
      BY DEF TypeOK, WorkerTypeOK, Frame
    <3> HIDE DEF f
    <3> QED
      BY Zenon, <1>7, <3>1, <3>2, <3>3
  <2>3. CASE CountChildRuns(w)
    <3>1. PICK c : worker' = [worker EXCEPT ![w].pc = "spawnSave", ![w].child = c,
                                            ![w].seq = CountJobRunsByJob(c) + 1]
      BY Zenon, <2>3 DEF CountChildRuns
    <3> DEFINE n == CountJobRunsByJob(c) + 1
               f == [worker[w] EXCEPT !.pc = "spawnSave", !.child = c, !.seq = n]
    <3>2. worker' = [worker EXCEPT ![w] = f]
      BY Zenon, <3>1
    <3> HIDE DEF n
    <3>3. f.pc = "spawnSave" /\ f.attempts = worker[w].attempts /\ f.outcome = worker[w].outcome
      BY DEF TypeOK, WorkerTypeOK, Frame
    <3>4. f.pc \in {"deadLetter", "ack"} \cup Spawning /\ f.pc # "ack"
      BY <3>3 DEF Spawning
    <3> HIDE DEF f
    <3> QED
      BY Zenon, <1>7, <3>2, <3>3, <3>4
  <2>4. CASE SaveChildRun(w)
    BY Zenon, <1>5, <1>6, <2>4 DEF SaveChildRun
  <2>5. CASE EnqueueChildRun(w) \/ SpawnFails(w)
    BY Zenon, <1>5, <2>5 DEF EnqueueChildRun, SpawnFails
  <2> QED
    BY <2>1, <2>2, <2>3, <2>4, <2>5
<1> QED
  BY ZenonT(30), <1>1, <1>2, <1>3, <1>4, <1>8 DEF Proceeds, Goes, Places

\* Every step of a worker is one of the moves.
LEMMA WorkerMoves ==
  ASSUME TypeOK, NEW w \in Workers, WorkerStep(w) \/ WorkerFailure(w)
  PROVE  WorkerMove(w)
<1>1. CASE DeadLetterRun(w)
  <2>1. /\ UNCHANGED <<status, attempts, ended, calls, faults>> /\ inbox' = inbox
        /\ Goto(w, "ack") /\ pc(w) = "deadLetter" /\ dlq' = dlq \cup {CurrentRun(w)}
    BY <1>1 DEF DeadLetterRun, DeadLetter, storeVars
  <2>2. Moves(w, "ack")
    BY <2>1, GotoMoves
  <2> QED
    BY <2>1, <2>2 DEF Buries, WorkerMove
<1>2. CASE AckMessage(w)
  <2>1. Return(w) /\ pc(w) = "ack" /\ UNCHANGED <<status, attempts, ended, dlq, calls, faults>>
    BY <1>2 DEF AckMessage, Ack, storeVars
  <2> QED
    BY <2>1, ReturnRestarts DEF Returns, WorkerMove
<1>3. CASE CallFails(w) \/ DeadlineExceeded(w)
  <2>1. /\ Return(w) /\ faults' = faults + 1
        /\ UNCHANGED <<status, attempts, ended, dlq, calls>>
    BY <1>3 DEF CallFails, DeadlineExceeded, CountFault, storeVars
  <2>2. pc(w) \in InProcess
    BY <1>3 DEF CallFails, DeadlineExceeded, InProcess
  <2> QED
    BY <2>1, <2>2, ReturnRestarts DEF GivesIn, WorkerMove
<1>4. Proceeds(w) => WorkerMove(w)
  BY DEF WorkerMove
<1> QED
  BY Zenon, <1>1, <1>2, <1>3, <1>4, ClaimMove, ExecuteMove, PersistMove, ProceedMove
     DEF WorkerStep, WorkerFailure

\* The frames as far as the invariants look at them are left alone.
Still ==
  \A v \in Workers :
    /\ inbox'[v] = inbox[v] /\ worker'[v].pc = worker[v].pc /\ worker'[v].slot = worker[v].slot
    /\ worker'[v].outcome = worker[v].outcome /\ worker'[v].attempts = worker[v].attempts

\* What the steps of everybody else do: none of them sets a row running.
LEMMA OtherMoves ==
  ASSUME TypeOK,
         \/ Client \/ FindCancelChildren \/ CancelFails \/ Crash \/ Tick
         \/ (WatcherStep \/ WatcherFailure) /\ UNCHANGED <<workerVars, envVars>>
         \/ UNCHANGED vars
  PROVE  /\ UNCHANGED <<ended, dlq, calls>>
         /\ \A r \in Runs : status'[r] = "running" => status[r] = "running"
         /\ Crash \/ (Still /\ faults' \in {faults, faults + 1} /\ crashes' = crashes)
<1> DEFINE Calm == worker' = worker /\ inbox' = inbox /\ crashes' = crashes
           Quiet == UNCHANGED <<ended, dlq, calls>> /\ faults' \in {faults, faults + 1}
           Rows == \A r \in Runs : status'[r] = "running" => status[r] = "running"
<1>1. status \in [Runs -> Statuses \cup {"absent"}] /\ worker \in [Workers -> Frame]
  BY DEF TypeOK, RunStoreTypeOK, WorkerTypeOK
<1>2. Calm => Still
  BY DEF Still
<1>3. CASE Client
  <2>1. PICK j \in Jobs : Create(j) \/ Cancel(j) \/ CancelChild(j)
    BY <1>3 DEF Client
  <2>2. Calm /\ Quiet
    BY <2>1 DEF Create, Cancel, CancelChild, CreateJobWithRun, SaveRun, CancelPendingRunsByJob,
                workerVars, queueVars, envVars
  <2>3. Rows
    <3>1. CASE Create(j)
      BY <1>1, <3>1 DEF Create, CreateJobWithRun, SaveRun, InsertJobRun
    <3>2. CASE Cancel(j) \/ CancelChild(j)
      BY <3>2 DEF Cancel, CancelChild, CancelPendingRunsByJob, CancelPendingJobRuns
    <3> QED
      BY <2>1, <3>1, <3>2
  <2> QED
    BY <1>2, <2>2, <2>3
<1>4. CASE FindCancelChildren \/ CancelFails \/ UNCHANGED vars
  <2>1. Calm /\ Quiet /\ status' = status
    BY <1>4 DEF FindCancelChildren, CancelFails, CountFault, storeVars, queueVars, workerVars, envVars, vars
  <2> QED
    BY <1>2, <2>1
<1>5. CASE Crash
  <2>1. UNCHANGED <<status, ended, dlq, calls>>
    BY <1>5 DEF Crash, storeVars
  <2> QED
    BY <1>5, <2>1
<1>6. CASE Tick
  <2>1. Quiet /\ status' = status /\ inbox' = inbox /\ crashes' = crashes
    BY <1>6 DEF Tick, storeVars, envVars
  <2>2. ASSUME NEW v \in Workers
        PROVE  /\ worker'[v].pc = worker[v].pc /\ worker'[v].slot = worker[v].slot
               /\ worker'[v].outcome = worker[v].outcome /\ worker'[v].attempts = worker[v].attempts
    <3>1. \/ worker'[v] = worker[v]
          \/ worker'[v] = [worker[v] EXCEPT !.elapsed = @ + 1]
      BY <1>6 DEF Tick
    <3>2. worker[v] \in Frame
      BY <1>1
    <3> QED
      BY <3>1, <3>2 DEF Frame
  <2>3. Still
    BY <2>1, <2>2 DEF Still
  <2> QED
    BY <2>1, <2>3
<1>7. CASE (WatcherStep \/ WatcherFailure) /\ UNCHANGED <<workerVars, envVars>>
  <2>1. Calm /\ calls' = calls /\ faults' = faults
    <3>1. inbox' = inbox
      BY <1>7, WatcherType
    <3> QED
      BY <1>7, <3>1 DEF workerVars, envVars
  <2>2. ended' = ended /\ dlq' = dlq
    BY Zenon, <1>7 DEF WatcherStep, WatcherFailure, FindDue, MarkQueued, EnqueueDue, EnqueueDueFails,
       RevertToPending, SkipCopy, ScanDeadline, UpdateRunStatus, Enqueue, storeVars, queueVars
  <2>3. \/ status' = status
        \/ \E c : status' = [status EXCEPT ![c[1]] = "queued"]
        \/ \E c : status' = [status EXCEPT ![c[1]] = "pending"]
    BY Zenon, <1>7 DEF WatcherStep, WatcherFailure, FindDue, MarkQueued, EnqueueDue, EnqueueDueFails,
       RevertToPending, SkipCopy, ScanDeadline, UpdateRunStatus, UpdateJobRunStatus, storeVars
  <2>4. Rows
    BY <1>1, <2>3
  <2> QED
    BY <1>2, <2>1, <2>2, <2>4
<1> QED
  BY <1>3, <1>4, <1>5, <1>6, <1>7

=============================================================================
