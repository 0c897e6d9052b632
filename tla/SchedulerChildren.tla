------------------------- MODULE SchedulerChildren --------------------------
(***************************************************************************)
(* Chained jobs for every value of the constants: a run that               *)
(* enqueueChildren adds follows an outcome of its parent that triggers it. *)
(***************************************************************************)
EXTENDS SchedulerTypes

\* The places at which process works on a run whose row it has read.
Bound == InProcess \ {"find", "ack"}

\* The places before the outcome, at which no children are in hand.
Plain == {"reclaim", "read", "find", "claim", "lock", "persistSuccess", "persistFailure",
          "requeue", "requeueEvent"} \cup Executing

\* The places between the outcome and the last child.
Triggering == Spawning \cup {"dlqEvent"}

Triggered(j, s) == {c \in Jobs : Parent[c] = j /\ Trigger[c] = s}

\* What a frame knows of the rows: the run in hand exists, its outcome is in
\* the history, and the children in hand are those it triggers.
FramesKnow ==
  \A w \in Workers :
    /\ pc(w) \in Bound => status[CurrentRun(w)] # "absent"
    /\ pc(w) \in Plain => worker[w].kids = {}
    /\ pc(w) \in Triggering =>
         /\ <<CurrentRun(w), worker[w].outcome>> \in ended
         /\ worker[w].kids \subseteq Triggered(JobOf(CurrentRun(w)), worker[w].outcome)
    /\ pc(w) \in {"spawnSave", "spawnEnqueue"} => worker[w].child \in worker[w].kids

\* The watcher's copies are copies of rows.
ScanKnows == \A c \in scan.due \cup scan.hand : status[c[1]] # "absent"

\* The inductive invariant: ChildFollowsParent says nothing of the workers that
\* are about to add a run, nor of the writes by id that could make one appear.
ChildInv == FramesKnow /\ ScanKnows /\ ChildFollowsParent

-----------------------------------------------------------------------------

\* Rows and events stay.
Grows ==
  /\ \A r \in Runs : status[r] # "absent" => status'[r] # "absent"
  /\ ended \subseteq ended'

\* A step that adds no row either.
SameRuns ==
  /\ \A r \in Runs : status[r] # "absent" <=> status'[r] # "absent"
  /\ ended \subseteq ended'

\* A write by id to a row that exists (UpdateJobRunStatus).
LEMMA UpdateKeepsRuns ==
  ASSUME RunStoreTypeOK, NEW r \in Runs, NEW s \in Statuses, status[r] # "absent",
         status' = [status EXCEPT ![r] = s], ended \subseteq ended'
  PROVE  SameRuns
  BY DEF SameRuns, RunStoreTypeOK, Statuses, Terminal

\* One worker moves to a frame f that knows what it should.
LEMMA FrameMoves ==
  ASSUME TypeOK, FramesKnow, Grows, NEW w \in Workers, NEW f,
         worker' = [worker EXCEPT ![w] = f],
         \A v \in Workers \ {w} : inbox'[v] = inbox[v],
         f.pc \in Bound => status'[Head(inbox'[w]).run] # "absent",
         f.pc \in Plain => f.kids = {},
         f.pc \in Triggering =>
           /\ <<Head(inbox'[w]).run, f.outcome>> \in ended'
           /\ f.kids \subseteq Triggered(JobOf(Head(inbox'[w]).run), f.outcome),
         f.pc \in {"spawnSave", "spawnEnqueue"} => f.child \in f.kids
  PROVE  FramesKnow'
<1>1. worker'[w] = f
  BY DEF TypeOK, WorkerTypeOK
<1>2. ASSUME NEW v \in Workers \ {w}
      PROVE  /\ pc(v)' \in Bound => status'[CurrentRun(v)'] # "absent"
             /\ pc(v)' \in Plain => worker'[v].kids = {}
             /\ pc(v)' \in Triggering =>
                  /\ <<CurrentRun(v)', worker'[v].outcome>> \in ended'
                  /\ worker'[v].kids \subseteq Triggered(JobOf(CurrentRun(v)'), worker'[v].outcome)
             /\ pc(v)' \in {"spawnSave", "spawnEnqueue"} => worker'[v].child \in worker'[v].kids
  <2>1. worker'[v] = worker[v] /\ pc(v)' = pc(v) /\ CurrentRun(v)' = CurrentRun(v)
    BY DEF TypeOK, WorkerTypeOK, pc, CurrentRun, Current
  <2>2. pc(v) \in Bound => CurrentRun(v) \in Runs
    BY CurrentType DEF Bound
  <2> QED
    BY <2>1, <2>2 DEF FramesKnow, Grows
<1> QED
  BY <1>1, <1>2 DEF FramesKnow, pc, CurrentRun, Current

\* process returns, or a batch is begun.
LEMMA LoopKnows ==
  ASSUME TypeOK, FramesKnow, Grows, NEW w \in Workers,
         NEW p \in {"reclaim", "read", "find"}, NEW b \in BOOLEAN,
         worker' = [worker EXCEPT ![w] = Loop(p, b)],
         \A v \in Workers \ {w} : inbox'[v] = inbox[v]
  PROVE  FramesKnow'
<1> DEFINE f == Loop(p, b)
<1>1. f.pc = p /\ f.kids = {}
  BY DEF Loop
<1>2. p \notin Bound /\ p \notin Triggering /\ p \notin {"spawnSave", "spawnEnqueue"}
  BY DEF Bound, Triggering, InProcess, Executing, Spawning, Returning
<1> HIDE DEF f
<1> QED
  BY Zenon, <1>1, <1>2, FrameMoves DEF f

\* process returns, and the worker goes on with its batch.
LEMMA ReturnKnows ==
  ASSUME TypeOK, FramesKnow, Grows, NEW w \in Workers, Return(w)
  PROVE  FramesKnow'
<1>1. PICK p \in {"reclaim", "read", "find"}, b \in BOOLEAN :
        worker' = [worker EXCEPT ![w] = Loop(p, b)]
  <2>1. worker[w].reclaimed \in BOOLEAN
    BY DEF TypeOK, WorkerTypeOK, Frame
  <2> QED
    BY Zenon, <2>1 DEF Return
<1>2. \A v \in Workers \ {w} : inbox'[v] = inbox[v]
  BY DEF Return, TypeOK, RunQueueTypeOK
<1> QED
  BY Zenon, <1>1, <1>2, LoopKnows

\* process moves on, before the outcome, with a row it has read, or to the
\* acknowledgement.
LEMMA PlainMove ==
  ASSUME TypeOK, FramesKnow, Grows, NEW w \in Workers, NEW f,
         worker' = [worker EXCEPT ![w] = f], inbox' = inbox,
         pc(w) \in Plain, f.kids = worker[w].kids, f.pc \in Plain \cup {"ack"},
         f.pc \in Bound => CurrentRun(w) \in Runs /\ status[CurrentRun(w)] # "absent"
  PROVE  FramesKnow'
<1>1. f.kids = {}
  BY Zenon DEF FramesKnow
<1>2. f.pc \notin Triggering /\ f.pc \notin {"spawnSave", "spawnEnqueue"}
  BY DEF Plain, Triggering, Spawning, Executing
<1>3. ASSUME f.pc \in Bound PROVE status'[Head(inbox'[w]).run] # "absent"
  <2>1. status[CurrentRun(w)] # "absent" /\ CurrentRun(w) \in Runs
    BY <1>3
  <2> QED
    BY <2>1 DEF Grows, CurrentRun, Current
<1> QED
  BY Zenon, <1>1, <1>2, <1>3, FrameMoves

\* A worker moves on before the outcome.
LEMMA PlainGoto ==
  ASSUME TypeOK, FramesKnow, Grows, NEW w \in Workers, NEW p \in Plain \cup {"ack"},
         Goto(w, p), inbox' = inbox, pc(w) \in Plain,
         p \in Bound => pc(w) \in Bound
  PROVE  FramesKnow'
<1> DEFINE f == [worker[w] EXCEPT !.pc = p]
<1>1. worker[w] \in Frame /\ worker' = [worker EXCEPT ![w] = f]
  BY DEF Goto, TypeOK, WorkerTypeOK
<1>2. f.pc = p /\ f.kids = worker[w].kids
  BY <1>1 DEF Frame
<1>3. p \in Bound => CurrentRun(w) \in Runs /\ status[CurrentRun(w)] # "absent"
  BY Zenon, CurrentType DEF Bound, FramesKnow
<1> HIDE DEF f
<1> QED
  BY Zenon, <1>1, <1>2, <1>3, PlainMove

\* A step that changes no frame, batch or row.
LEMMA SameFramesKnow ==
  ASSUME TypeOK, FramesKnow, Grows, UNCHANGED <<worker, inbox>>
  PROVE  FramesKnow'
<1>1. \A v \in Workers : pc(v) \in Bound => CurrentRun(v) \in Runs
  BY CurrentType DEF Bound
<1> QED
  BY <1>1 DEF FramesKnow, Grows, pc, CurrentRun, Current

\* What a step that adds no row keeps.
LEMMA SameRunsKeep ==
  ASSUME TypeOK, ChildInv, SameRuns
  PROVE  Grows /\ ChildFollowsParent' /\ (UNCHANGED scan => ScanKnows')
<1>1. Grows
  BY DEF SameRuns, Grows
<1>2. \A c \in Jobs, n \in 2 .. MaxSeq : <<c, n>> \in Runs
  BY DomainAssumption DEF Runs
<1>3. ChildFollowsParent'
  BY <1>2 DEF ChildInv, ChildFollowsParent, SameRuns
<1>4. \A c \in scan.due \cup scan.hand : c[1] \in Runs
  BY DEF TypeOK, WatcherTypeOK, Copies
<1> QED
  BY <1>1, <1>3, <1>4 DEF ChildInv, ScanKnows, SameRuns

-----------------------------------------------------------------------------
(* The steps of a worker up to the outcome *)

\* A batch is read or reclaimed.
LEMMA PollKnows ==
  ASSUME TypeOK, ChildInv, NEW w \in Workers, PollReclaim(w) \/ PollRead(w)
  PROVE  FramesKnow' /\ SameRuns
<1>1. SameRuns /\ Grows
  BY Zenon DEF PollReclaim, PollRead, storeVars, SameRuns, Grows
<1>2. CASE /\ Read(w) \/ Reclaim(w)
           /\ \E b \in BOOLEAN : worker' = [worker EXCEPT ![w] = Loop("find", b)]
  <2>1. \A v \in Workers \ {w} : inbox'[v] = inbox[v]
    BY <1>2, ReadType, ReclaimType DEF TypeOK
  <2> QED
    BY Zenon, <1>1, <1>2, <2>1, LoopKnows DEF ChildInv
<1>3. CASE /\ \/ Goto(w, "read") /\ pc(w) = "reclaim"
              \/ Goto(w, "reclaim") /\ pc(w) = "read"
           /\ UNCHANGED queueVars
  <2>1. {"read", "reclaim"} \subseteq Plain /\ "read" \notin Bound /\ "reclaim" \notin Bound
    BY DEF Plain, Bound, InProcess, Executing, Spawning, Returning
  <2>2. inbox' = inbox
    BY <1>3 DEF queueVars
  <2> QED
    BY <1>1, <1>3, <2>1, <2>2, PlainGoto DEF ChildInv
<1>4. CASE PollReclaim(w)
  <2>1. \/ Reclaim(w) /\ worker' = [worker EXCEPT ![w] = Loop("find", TRUE)]
        \/ Goto(w, "read") /\ pc(w) = "reclaim" /\ UNCHANGED queueVars
    BY Zenon, <1>4 DEF PollReclaim
  <2> QED
    BY Zenon, <1>1, <1>2, <1>3, <2>1
<1>5. CASE PollRead(w)
  <2>1. \/ Read(w) /\ worker' = [worker EXCEPT ![w] = Loop("find", FALSE)]
        \/ Goto(w, "reclaim") /\ pc(w) = "read" /\ UNCHANGED queueVars
    BY Zenon, <1>5 DEF PollRead
  <2> QED
    BY Zenon, <1>1, <1>2, <1>3, <2>1
<1> QED
  BY <1>4, <1>5

\* FindRunByID: from here on the row is known to exist.
LEMMA FindKnows ==
  ASSUME TypeOK, ChildInv, NEW w \in Workers, FindRunByID(w)
  PROVE  FramesKnow' /\ SameRuns
<1>1. SameRuns /\ Grows /\ inbox' = inbox /\ pc(w) = "find"
  BY DEF FindRunByID, storeVars, queueVars, SameRuns, Grows
<1> DEFINE p == Dispatch(status[CurrentRun(w)], worker[w].reclaimed)
           f == [worker[w] EXCEPT !.pc = p, !.attempts = attempts[CurrentRun(w)]]
<1>2. worker[w] \in Frame /\ worker' = [worker EXCEPT ![w] = f]
  BY Zenon DEF FindRunByID, GetJobRunByID, TypeOK, WorkerTypeOK
<1>3. f.pc = p /\ f.kids = worker[w].kids
  BY <1>2 DEF Frame
<1>4. CurrentRun(w) \in Runs
  BY <1>1, CurrentType DEF InProcess, Returning
<1>5. p \in Plain \cup {"ack"}
  BY DEF Dispatch, Plain
<1>6. status[CurrentRun(w)] = "absent" => p = "ack"
  BY DEF Dispatch, IsTerminal, Terminal, MarkRunningFrom
<1>7. pc(w) \in Plain /\ "ack" \notin Bound
  BY <1>1 DEF Plain, Bound
<1> HIDE DEF f, p
<1> QED
  BY Zenon, <1>1, <1>2, <1>3, <1>4, <1>5, <1>6, <1>7, PlainMove DEF ChildInv

\* The two halves of the claim.
LEMMA ClaimKnows ==
  ASSUME TypeOK, ChildInv, NEW w \in Workers, StartClaim(w) \/ FinishClaim(w)
  PROVE  FramesKnow' /\ SameRuns
<1>1. pc(w) \in {"claim", "lock"}
  BY DEF StartClaim, FinishClaim
<1>2. /\ pc(w) \in Plain /\ pc(w) \in Bound /\ pc(w) \in InProcess
      /\ {"lock", "begin"} \subseteq Plain
  BY SMTT(30), <1>1 DEF Plain, Bound, InProcess, Executing, Spawning, Returning
<1>3. CurrentRun(w) \in Runs /\ status[CurrentRun(w)] # "absent" /\ worker[w] \in Frame
  BY Zenon, <1>2, CurrentType DEF ChildInv, FramesKnow, TypeOK, WorkerTypeOK
<1>4. CASE StartClaim(w)
  <2> DEFINE f == [worker[w] EXCEPT !.pc = "lock", !.slot = ClaimSnapshot(CurrentRun(w))]
  <2>1. SameRuns /\ Grows /\ inbox' = inbox
    BY <1>4 DEF StartClaim, storeVars, queueVars, SameRuns, Grows
  <2>2. worker' = [worker EXCEPT ![w] = f]
    BY Zenon, <1>4 DEF StartClaim, TypeOK, WorkerTypeOK
  <2>3. f.pc = "lock" /\ f.kids = worker[w].kids
    BY <1>3 DEF Frame
  <2> HIDE DEF f
  <2> QED
    BY Zenon, <1>2, <1>3, <2>1, <2>2, <2>3, PlainMove DEF ChildInv
<1>5. CASE ClaimRow(CurrentRun(w)) /\ UNCHANGED inbox
           /\ worker' = [worker EXCEPT ![w].pc = "begin", ![w].slot = FALSE]
  <2> DEFINE f == [worker[w] EXCEPT !.pc = "begin", !.slot = FALSE]
  <2>1. SameRuns
    <3>1. "running" \in Statuses /\ RunStoreTypeOK /\ ended \subseteq ended'
      BY <1>5 DEF Statuses, TypeOK, ClaimRow
    <3> QED
      BY Zenon, <1>3, <1>5, <3>1, UpdateKeepsRuns DEF ClaimRow
  <2>2. worker' = [worker EXCEPT ![w] = f]
    BY Zenon, <1>5 DEF TypeOK, WorkerTypeOK
  <2>3. f.pc = "begin" /\ f.kids = worker[w].kids
    BY <1>3 DEF Frame
  <2>4. Grows
    BY <2>1 DEF SameRuns, Grows
  <2> HIDE DEF f
  <2> QED
    BY Zenon, <1>2, <1>3, <1>5, <2>1, <2>2, <2>3, <2>4, PlainMove DEF ChildInv
<1>6. CASE Return(w) /\ UNCHANGED runVars
  <2>1. SameRuns /\ Grows
    BY <1>6 DEF runVars, SameRuns, Grows
  <2> QED
    BY <1>6, <2>1, ReturnKnows DEF ChildInv
<1> QED
  BY <1>4, <1>5, <1>6 DEF FinishClaim

\* The steps of the executor touch no row.
LEMMA ExecuteKnows ==
  ASSUME TypeOK, ChildInv, NEW w \in Workers,
         \/ BeginExecution(w) \/ LookupRecord(w) \/ InvokeHandler(w) \/ HandlerReturns(w)
         \/ CompleteExecution(w)
  PROVE  FramesKnow' /\ SameRuns
<1>1. pc(w) \in Executing
  BY Zenon DEF BeginExecution, LookupRecord, InvokeHandler, HandlerReturns, CompleteExecution, Executing
<1>2. UNCHANGED <<status, ended>> /\ inbox' = inbox
  <2>1. UNCHANGED <<runVars, queueVars>>
    BY ZenonT(30) DEF BeginExecution, LookupRecord, InvokeHandler, HandlerReturns, CompleteExecution,
           storeVars, runVars
  <2> QED
    BY <2>1 DEF runVars, queueVars
<1>3. SameRuns /\ Grows
  BY <1>2 DEF SameRuns, Grows
<1>4. PICK p \in Executing \cup {"persistSuccess", "persistFailure"} : Goto(w, p)
  <2>1. CASE BeginExecution(w)
    BY ZenonT(30), <2>1 DEF BeginExecution, Executing
  <2>2. CASE LookupRecord(w)
    BY <2>2 DEF LookupRecord
  <2>3. CASE InvokeHandler(w)
    BY <2>3 DEF InvokeHandler, Executing
  <2>4. CASE HandlerReturns(w)
    BY <2>4 DEF HandlerReturns, Executing
  <2>5. CASE CompleteExecution(w)
    BY <2>5 DEF CompleteExecution
  <2> QED
    BY <2>1, <2>2, <2>3, <2>4, <2>5
<1>5. pc(w) \in Plain /\ pc(w) \in Bound /\ p \in Plain
  BY <1>1 DEF Plain, Bound, InProcess, Executing
<1> QED
  BY SMTT(30), <1>2, <1>3, <1>4, <1>5, PlainGoto DEF ChildInv

\* PersistRunTransition of the run in hand.
LEMMA PersistKeepsRuns ==
  ASSUME TypeOK, ChildInv, NEW w \in Workers, NEW s \in Statuses, NEW n,
         pc(w) \in Bound, PersistRunTransition(CurrentRun(w), s, n)
  PROVE  /\ SameRuns
         /\ CurrentRun(w) \in Runs /\ status[CurrentRun(w)] # "absent"
         /\ s \in Outcomes => <<CurrentRun(w), s>> \in ended'
<1>1. CurrentRun(w) \in Runs /\ status[CurrentRun(w)] # "absent" /\ RunStoreTypeOK
  BY Zenon, CurrentType DEF Bound, ChildInv, FramesKnow, TypeOK
<1>2. /\ status' = [status EXCEPT ![CurrentRun(w)] = s]
      /\ ended' = ended \cup ({<<CurrentRun(w), s>>} \cap (Runs \X Outcomes))
  BY DEF PersistRunTransition, UpdateJobRunStatus, InsertRunEvent
<1>3. SameRuns
  BY Zenon, <1>1, <1>2, UpdateKeepsRuns
<1> QED
  BY <1>1, <1>2, <1>3

\* An outcome is persisted, and with it enters the history.
LEMMA PersistKnows ==
  ASSUME TypeOK, ChildInv, NEW w \in Workers, PersistSuccess(w) \/ PersistFailure(w)
  PROVE  FramesKnow' /\ SameRuns
<1>1. pc(w) \in {"persistSuccess", "persistFailure"} /\ inbox' = inbox
  BY DEF PersistSuccess, PersistFailure, queueVars
<1>2. pc(w) \in Bound /\ pc(w) \in Plain
  BY SMTT(30), <1>1 DEF Bound, Plain, InProcess, Executing, Spawning, Returning
<1>3. worker[w] \in Frame /\ worker[w].kids = {}
  BY Zenon, <1>2 DEF ChildInv, FramesKnow, TypeOK, WorkerTypeOK, pc
<1>4. ASSUME NEW s \in Outcomes, NEW p \in {"spawnFind", "dlqEvent"}, NEW n,
             PersistRunTransition(CurrentRun(w), s, n),
             worker' = [worker EXCEPT ![w].pc = p, ![w].outcome = s]
      PROVE  FramesKnow' /\ SameRuns
  <2> DEFINE f == [worker[w] EXCEPT !.pc = p, !.outcome = s]
  <2>1. s \in Statuses
    BY DEF Outcomes, Statuses, Terminal
  <2>2. /\ SameRuns /\ <<CurrentRun(w), s>> \in ended'
        /\ CurrentRun(w) \in Runs /\ status[CurrentRun(w)] # "absent"
    BY <1>2, <1>4, <2>1, PersistKeepsRuns
  <2>3. worker' = [worker EXCEPT ![w] = f]
    BY ZenonT(30), <1>4 DEF TypeOK, WorkerTypeOK
  <2>4. f.pc = p /\ f.kids = {} /\ f.outcome = s
    BY <1>3 DEF Frame
  <2>5. Grows /\ status'[CurrentRun(w)] # "absent" /\ CurrentRun(w) = Head(inbox'[w]).run
    BY <1>1, <2>2 DEF SameRuns, Grows, CurrentRun, Current
  <2>6. p \notin Plain /\ p \notin {"spawnSave", "spawnEnqueue"}
    BY DEF Plain, Executing
  <2> HIDE DEF f
  <2> QED
    BY Zenon, <1>1, <2>2, <2>3, <2>4, <2>5, <2>6, FrameMoves DEF ChildInv
<1>5. CASE PersistSuccess(w)
  BY <1>4, <1>5 DEF PersistSuccess, Outcomes
<1>6. CASE PersistFailure(w)
  <2>1. CASE /\ PersistRunTransition(CurrentRun(w), "failed", worker[w].attempts)
             /\ worker' = [worker EXCEPT ![w].pc = "dlqEvent", ![w].outcome = "failed"]
    BY <1>4, <2>1 DEF Outcomes
  <2>2. CASE /\ PersistRunTransition(CurrentRun(w), "retry", worker[w].attempts + 1)
             /\ Goto(w, "requeue")
    <3>1. "retry" \in Statuses /\ "requeue" \in Plain
      BY SMTT(30) DEF Statuses, Plain
    <3>2. SameRuns
      BY Zenon, <1>2, <2>2, <3>1, PersistKeepsRuns
    <3>3. Grows
      BY <3>2 DEF SameRuns, Grows
    <3> QED
      BY SMTT(30), <1>1, <1>2, <2>2, <3>1, <3>2, <3>3, PlainGoto DEF ChildInv
  <2> QED
    BY <1>6, <2>1, <2>2 DEF PersistFailure
<1> QED
  BY <1>5, <1>6

-----------------------------------------------------------------------------
(* The steps of a worker after the outcome *)

\* Requeueing, dead-lettering and acknowledging.
LEMMA AfterOutcomeKnows ==
  ASSUME TypeOK, ChildInv, NEW w \in Workers,
         \/ RequeueRetry(w) \/ AppendRequeueEvent(w) \/ AppendDLQEvent(w) \/ DeadLetterRun(w)
         \/ AckMessage(w)
  PROVE  FramesKnow' /\ SameRuns
<1>1. SameRuns /\ Grows
  BY DEF RequeueRetry, AppendRequeueEvent, AppendDLQEvent, DeadLetterRun, AckMessage,
         storeVars, SameRuns, Grows
<1>2. CASE RequeueRetry(w) \/ AppendRequeueEvent(w)
  <2>1. inbox' = inbox
    BY <1>2 DEF RequeueRetry, AppendRequeueEvent, Enqueue, queueVars
  <2>2. PICK p \in {"requeueEvent", "ack"} : Goto(w, p)
    BY <1>2 DEF RequeueRetry, AppendRequeueEvent
  <2>3. pc(w) \in {"requeue", "requeueEvent"}
    BY <1>2 DEF RequeueRetry, AppendRequeueEvent
  <2>4. pc(w) \in Plain /\ pc(w) \in Bound /\ p \in Plain \cup {"ack"}
    BY SMTT(30), <2>3 DEF Plain, Bound, InProcess, Executing, Spawning, Returning
  <2> QED
    BY <1>1, <2>1, <2>2, <2>4, PlainGoto DEF ChildInv
<1>3. CASE AppendDLQEvent(w) \/ DeadLetterRun(w)
  <2>1. inbox' = inbox
    BY <1>3 DEF AppendDLQEvent, DeadLetterRun, queueVars
  <2>2. PICK p \in {"spawnFind", "ack"} :
          Goto(w, p) /\ (p = "spawnFind" => pc(w) = "dlqEvent")
    BY <1>3 DEF AppendDLQEvent, DeadLetterRun
  <2> DEFINE f == [worker[w] EXCEPT !.pc = p]
  <2>3. worker[w] \in Frame /\ worker' = [worker EXCEPT ![w] = f]
    BY <2>2 DEF Goto, TypeOK, WorkerTypeOK
  <2>4. f.pc = p /\ f.kids = worker[w].kids /\ f.outcome = worker[w].outcome
    BY <2>3 DEF Frame
  <2>5. /\ p \notin Plain /\ p \notin {"spawnSave", "spawnEnqueue"}
        /\ p \in Bound \cup Triggering => p = "spawnFind"
        /\ "dlqEvent" \in Bound \cap Triggering
    BY DEF Plain, Bound, Triggering, InProcess, Executing, Spawning, Returning
  <2>6. ASSUME p = "spawnFind"
        PROVE  /\ status'[Head(inbox'[w]).run] # "absent"
               /\ <<Head(inbox'[w]).run, f.outcome>> \in ended'
               /\ f.kids \subseteq Triggered(JobOf(Head(inbox'[w]).run), f.outcome)
    <3>1. /\ status[CurrentRun(w)] # "absent"
          /\ <<CurrentRun(w), worker[w].outcome>> \in ended
          /\ worker[w].kids \subseteq Triggered(JobOf(CurrentRun(w)), worker[w].outcome)
      BY SMTT(30), <2>2, <2>5, <2>6 DEF ChildInv, FramesKnow
    <3>2. CurrentRun(w) \in Runs /\ CurrentRun(w) = Head(inbox'[w]).run
      BY SMTT(30), <2>1, <2>2, <2>5, <2>6, CurrentType DEF Bound, CurrentRun, Current
    <3> HIDE DEF f
    <3> QED
      BY <1>1, <2>4, <3>1, <3>2 DEF Grows
  <2> HIDE DEF f
  <2> QED
    BY ZenonT(30), <1>1, <2>1, <2>3, <2>4, <2>5, <2>6, FrameMoves DEF ChildInv
<1>4. CASE AckMessage(w)
  BY SMTT(30), <1>1, <1>4, ReturnKnows DEF AckMessage, ChildInv
<1> QED
  BY <1>2, <1>3, <1>4

\* A worker among its children knows its run, its outcome and the children.
LEMMA SpawningKnows ==
  ASSUME TypeOK, ChildInv, NEW w \in Workers, pc(w) \in Spawning
  PROVE  /\ CurrentRun(w) \in Runs /\ status[CurrentRun(w)] # "absent"
         /\ <<CurrentRun(w), worker[w].outcome>> \in ended
         /\ worker[w].kids \subseteq Triggered(JobOf(CurrentRun(w)), worker[w].outcome)
         /\ worker[w] \in Frame
         /\ pc(w) \in {"spawnSave", "spawnEnqueue"} => worker[w].child \in worker[w].kids
<1>1. pc(w) \in Bound /\ pc(w) \in Triggering /\ pc(w) \in InProcess
  BY SMTT(30) DEF Bound, Triggering, InProcess, Spawning
<1> QED
  BY <1>1, CurrentType DEF ChildInv, FramesKnow, TypeOK, WorkerTypeOK

\* It moves on, among its children or out of them.
LEMMA SpawnMove ==
  ASSUME TypeOK, ChildInv, Grows, NEW w \in Workers, pc(w) \in Spawning, NEW f,
         worker' = [worker EXCEPT ![w] = f], inbox' = inbox,
         f.pc \in Spawning \cup {"deadLetter", "ack"},
         f.outcome = worker[w].outcome,
         f.kids \subseteq Triggered(JobOf(CurrentRun(w)), worker[w].outcome),
         f.pc \in {"spawnSave", "spawnEnqueue"} => f.child \in f.kids
  PROVE  FramesKnow'
<1>1. /\ CurrentRun(w) \in Runs /\ status[CurrentRun(w)] # "absent"
      /\ <<CurrentRun(w), worker[w].outcome>> \in ended
  BY SpawningKnows
<1>2. CurrentRun(w) = Head(inbox'[w]).run
  BY DEF CurrentRun, Current
<1>3. f.pc \notin Plain
  BY DEF Plain, Executing, Spawning
<1>4. status'[Head(inbox'[w]).run] # "absent" /\ <<Head(inbox'[w]).run, f.outcome>> \in ended'
  BY <1>1, <1>2 DEF Grows
<1> QED
  BY ZenonT(30), <1>2, <1>3, <1>4, FrameMoves DEF ChildInv

\* One child is done, and the worker turns to the next.
LEMMA NextChildKnows ==
  ASSUME TypeOK, ChildInv, Grows, NEW w \in Workers, pc(w) \in Spawning,
         NEW c, NextChild(w, c), inbox' = inbox
  PROVE  FramesKnow'
<1> DEFINE kids == worker[w].kids \ {c}
           p == AfterChild(w, kids)
           f == [worker[w] EXCEPT !.pc = p, !.kids = kids, !.child = NoJob, !.seq = 0]
<1>1. worker[w] \in Frame /\ worker' = [worker EXCEPT ![w] = f]
  BY Zenon DEF NextChild, TypeOK, WorkerTypeOK
<1>2. f.pc = p /\ f.kids = kids /\ f.outcome = worker[w].outcome
  BY <1>1 DEF Frame
<1>3. p \in {"spawnCount", "deadLetter", "ack"}
  BY DEF AfterChild
<1>4. kids \subseteq Triggered(JobOf(CurrentRun(w)), worker[w].outcome)
  BY ZenonT(30), SpawningKnows
<1>5. p \in Spawning \cup {"deadLetter", "ack"} /\ p \notin {"spawnSave", "spawnEnqueue"}
  BY <1>3 DEF Spawning
<1> HIDE DEF f, p, kids
<1> QED
  BY Zenon, <1>1, <1>2, <1>4, <1>5, SpawnMove

\* FindChildren, and the count of the runs a child has.
LEMMA LookupKnows ==
  ASSUME TypeOK, ChildInv, NEW w \in Workers, LookupChildren(w) \/ CountChildRuns(w)
  PROVE  FramesKnow' /\ SameRuns
<1>1. SameRuns /\ Grows /\ inbox' = inbox
  BY Zenon DEF LookupChildren, CountChildRuns, storeVars, queueVars, SameRuns, Grows
<1>2. pc(w) \in Spawning
  BY ZenonT(30) DEF LookupChildren, CountChildRuns, Spawning
<1>3. CASE LookupChildren(w)
  <2> DEFINE kids == FindChildJobs(JobOf(CurrentRun(w)), worker[w].outcome)
             p == AfterChild(w, kids)
             f == [worker[w] EXCEPT !.pc = p, !.kids = kids]
  <2>1. worker[w] \in Frame /\ worker' = [worker EXCEPT ![w] = f]
    BY ZenonT(30), <1>3 DEF LookupChildren, TypeOK, WorkerTypeOK
  <2>2. f.pc = p /\ f.kids = kids /\ f.outcome = worker[w].outcome
    BY <2>1 DEF Frame
  <2>3. kids \subseteq Triggered(JobOf(CurrentRun(w)), worker[w].outcome)
    BY DEF FindChildJobs, Triggered
  <2>4. p \in {"spawnCount", "deadLetter", "ack"}
    BY DEF AfterChild
  <2>5. p \in Spawning \cup {"deadLetter", "ack"} /\ p \notin {"spawnSave", "spawnEnqueue"}
    BY <2>4 DEF Spawning
  <2> HIDE DEF f, p, kids
  <2> QED
    BY Zenon, <1>1, <1>2, <2>1, <2>2, <2>3, <2>5, SpawnMove
<1>4. CASE CountChildRuns(w)
  <2>1. PICK c \in worker[w].kids :
          worker' = [worker EXCEPT ![w].pc = "spawnSave", ![w].child = c,
                                   ![w].seq = CountJobRunsByJob(c) + 1]
    BY Zenon, <1>4 DEF CountChildRuns
  <2> DEFINE f == [worker[w] EXCEPT !.pc = "spawnSave", !.child = c,
                                    !.seq = CountJobRunsByJob(c) + 1]
  <2>2. worker[w] \in Frame /\ worker' = [worker EXCEPT ![w] = f]
    BY Zenon, <2>1 DEF TypeOK, WorkerTypeOK
  <2>3. /\ f.pc = "spawnSave" /\ f.kids = worker[w].kids /\ f.child = c
        /\ f.outcome = worker[w].outcome
    BY <2>2 DEF Frame
  <2>4. /\ worker[w].kids \subseteq Triggered(JobOf(CurrentRun(w)), worker[w].outcome)
        /\ "spawnSave" \in Spawning
    BY ZenonT(30), <1>2, SpawningKnows DEF Spawning
  <2> HIDE DEF f
  <2> QED
    BY Zenon, <1>1, <1>2, <2>2, <2>3, <2>4, SpawnMove
<1> QED
  BY <1>3, <1>4

\* enqueueChildren adds a run.
LEMMA SaveKnows ==
  ASSUME TypeOK, ChildInv, NEW w \in Workers, SaveChildRun(w)
  PROVE  FramesKnow' /\ Grows /\ ChildFollowsParent'
<1> DEFINE r == <<worker[w].child, worker[w].seq>>
<1>1. pc(w) = "spawnSave" /\ inbox' = inbox
  BY DEF SaveChildRun, queueVars
<1>2. pc(w) \in Spawning /\ "spawnEnqueue" \in Spawning
  BY <1>1 DEF Spawning
<1>3. CASE NextChild(w, worker[w].child) /\ UNCHANGED runVars
  <2>1. SameRuns /\ Grows
    BY <1>3 DEF runVars, SameRuns, Grows
  <2> QED
    BY SMTT(30), <1>1, <1>2, <1>3, <2>1, NextChildKnows, SameRunsKeep
<1>4. CASE r \in Runs /\ SaveRun(r, "queued") /\ Goto(w, "spawnEnqueue")
  <2>1. /\ status[r] = "absent" /\ ended' = ended
        /\ \A q \in Runs : status'[q] = IF q = r THEN "queued" ELSE status[q]
    BY <1>4 DEF SaveRun, InsertJobRun, TypeOK, RunStoreTypeOK
  <2>2. Grows
    BY <2>1 DEF Grows
  <2> DEFINE f == [worker[w] EXCEPT !.pc = "spawnEnqueue"]
  <2>3. worker[w] \in Frame /\ worker' = [worker EXCEPT ![w] = f]
    BY <1>4 DEF Goto, TypeOK, WorkerTypeOK
  <2>4. /\ f.pc = "spawnEnqueue" /\ f.kids = worker[w].kids /\ f.child = worker[w].child
        /\ f.outcome = worker[w].outcome
    BY SMTT(30), <2>3 DEF Frame
  <2>5. /\ worker[w].kids \subseteq Triggered(JobOf(CurrentRun(w)), worker[w].outcome)
        /\ worker[w].child \in worker[w].kids
        /\ <<CurrentRun(w), worker[w].outcome>> \in ended
        /\ CurrentRun(w) \in Runs
    BY SMTT(30), <1>1, <1>2, SpawningKnows
  <2>6. FramesKnow'
    <3> HIDE DEF f
    <3> QED
      BY ZenonT(30), <1>1, <1>2, <2>2, <2>3, <2>4, <2>5, SpawnMove
  <2>7. ASSUME NEW c \in Jobs, NEW n \in 2 .. MaxSeq, status'[<<c, n>>] # "absent"
        PROVE  /\ Parent[c] # NoJob
               /\ \E p \in Runs : JobOf(p) = Parent[c] /\ <<p, Trigger[c]>> \in ended'
    <3>1. <<c, n>> \in Runs
      BY DomainAssumption DEF Runs
    <3>2. CASE <<c, n>> = r
      <4>1. c = worker[w].child
        BY SMTT(30), <3>2
      <4>2. Parent[c] = JobOf(CurrentRun(w)) /\ Trigger[c] = worker[w].outcome
        BY SMTT(30), <2>5, <4>1 DEF Triggered
      <4>3. JobOf(CurrentRun(w)) \in Jobs
        BY SMTT(30), <2>5 DEF Runs, JobOf
      <4> QED
        BY <2>1, <2>5, <4>2, <4>3, DomainAssumption
    <3>3. CASE <<c, n>> # r
      BY SMTT(30), <2>1, <2>7, <3>1, <3>3 DEF ChildInv, ChildFollowsParent
    <3> QED
      BY <3>2, <3>3
  <2> QED
    BY SMTT(30), <2>2, <2>6, <2>7 DEF ChildFollowsParent
<1> QED
  BY <1>3, <1>4 DEF SaveChildRun

\* The new run of a child is enqueued.
LEMMA EnqueueChildKnows ==
  ASSUME TypeOK, ChildInv, NEW w \in Workers, EnqueueChildRun(w)
  PROVE  FramesKnow' /\ SameRuns
<1>1. SameRuns /\ Grows
  BY DEF EnqueueChildRun, storeVars, SameRuns, Grows
<1>2. inbox' = inbox /\ NextChild(w, worker[w].child) /\ pc(w) \in Spawning
  BY DEF EnqueueChildRun, Enqueue, Spawning
<1> QED
  BY SMTT(30), <1>1, <1>2, NextChildKnows

\* The error returns of process.
LEMMA FailureKnows ==
  ASSUME TypeOK, ChildInv, NEW w \in Workers, WorkerFailure(w)
  PROVE  FramesKnow' /\ SameRuns
<1>1. SameRuns /\ Grows
  BY DEF WorkerFailure, CallFails, ExecutionFails, SpawnFails, DeadlineExceeded,
         storeVars, SameRuns, Grows
<1>2. CASE CallFails(w) \/ DeadlineExceeded(w)
  BY SMTT(30), <1>1, <1>2, ReturnKnows DEF CallFails, DeadlineExceeded, ChildInv
<1>3. CASE ExecutionFails(w)
  <2>1. Goto(w, "persistFailure") /\ inbox' = inbox /\ pc(w) \in {"begin", "lookup", "complete"}
    BY <1>3 DEF ExecutionFails, queueVars
  <2>2. pc(w) \in Plain /\ pc(w) \in Bound /\ "persistFailure" \in Plain
    BY <2>1 DEF Plain, Bound, InProcess, Executing
  <2> QED
    BY SMTT(30), <1>1, <2>1, <2>2, PlainGoto DEF ChildInv
<1>4. CASE SpawnFails(w)
  <2>1. PICK c : NextChild(w, c)
    BY SMTT(30), <1>4 DEF SpawnFails
  <2>2. pc(w) \in Spawning /\ inbox' = inbox
    BY SMTT(30), <1>4 DEF SpawnFails, Spawning, queueVars
  <2> QED
    BY SMTT(30), <1>1, <2>1, <2>2, NextChildKnows
<1> QED
  BY SMTT(30), <1>2, <1>3, <1>4 DEF WorkerFailure

-----------------------------------------------------------------------------
(* The other steps *)

\* A step that only adds rows keeps what the watcher's copies name.
LEMMA GrowsKeepsScan ==
  ASSUME TypeOK, ChildInv, Grows, scan'.due \cup scan'.hand \subseteq scan.due \cup scan.hand
  PROVE  ScanKnows'
<1>1. \A c \in scan.due \cup scan.hand : c[1] \in Runs
  BY DEF TypeOK, WatcherTypeOK, Copies
<1> QED
  BY SMTT(30), <1>1 DEF ChildInv, ScanKnows, Grows

\* Whatever a worker does.
LEMMA WorkerKeepsChildInv ==
  ASSUME TypeOK, ChildInv, NEW w \in Workers, WorkerStep(w) \/ WorkerFailure(w), UNCHANGED scan
  PROVE  ChildInv'
<1>1. CASE SaveChildRun(w)
  BY <1>1, SaveKnows, GrowsKeepsScan DEF ChildInv
<1>2. CASE ~SaveChildRun(w)
  <2>1. FramesKnow' /\ SameRuns
    BY SMTT(30), <1>2, PollKnows, FindKnows, ClaimKnows, ExecuteKnows, PersistKnows, AfterOutcomeKnows,
       LookupKnows, EnqueueChildKnows, FailureKnows DEF WorkerStep
  <2> QED
    BY SMTT(30), <2>1, SameRunsKeep DEF ChildInv
<1> QED
  BY SMTT(30), <1>1, <1>2

\* Whatever the watcher does: its writes by id hit existing rows.
LEMMA WatcherKeepsChildInv ==
  ASSUME TypeOK, ChildInv, WatcherStep \/ WatcherFailure, UNCHANGED workerVars
  PROVE  ChildInv'
<1>1. scan \in [at : {"tick", "mark", "enqueue", "revert"}, due : SUBSET Copies, hand : SUBSET Copies]
  BY DEF TypeOK, WatcherTypeOK
<1>2. inbox' = inbox /\ UNCHANGED worker
  BY SMTT(30) DEF WatcherStep, WatcherFailure, FindDue, MarkQueued, EnqueueDue, RevertToPending,
         EnqueueDueFails, SkipCopy, ScanDeadline, Enqueue, queueVars, workerVars
<1>3. ASSUME NEW due, NextCopy(due)
      PROVE  scan'.due \cup scan'.hand \subseteq due
  BY <1>3 DEF NextCopy, Resting
<1>4. SameRuns /\ ScanKnows'
  <2>1. CASE FindDue
    <3>1. UNCHANGED status /\ SameRuns /\ NextCopy(FindDueRuns)
      BY <2>1 DEF FindDue, storeVars, SameRuns
    <3>2. \A c \in FindDueRuns : status[c[1]] = "pending"
      BY DEF FindDueRuns, FindDueJobRuns
    <3> QED
      BY SMTT(30), <1>3, <3>1, <3>2 DEF ScanKnows
  <2>2. ASSUME NEW c \in scan.due \cup scan.hand, NEW s \in {"queued", "pending"}, NEW n,
               UpdateRunStatus(c[1], s, n)
        PROVE  SameRuns
    <3>1. c[1] \in Runs /\ status[c[1]] # "absent" /\ s \in Statuses /\ RunStoreTypeOK
      BY <1>1 DEF ChildInv, ScanKnows, Copies, Statuses, TypeOK
    <3> QED
      BY Zenon, <2>2, <3>1, UpdateKeepsRuns DEF UpdateRunStatus, UpdateJobRunStatus
  <2>3. ASSUME SameRuns, scan'.due \cup scan'.hand \subseteq scan.due \cup scan.hand
        PROVE  ScanKnows'
    BY <2>3, SameRunsKeep, GrowsKeepsScan
  <2>4. CASE MarkQueued
    <3>1. PICK c \in scan.due :
            /\ UpdateRunStatus(c[1], "queued", c[2])
            /\ scan' = [at |-> "enqueue", due |-> scan.due \ {c}, hand |-> {c}]
      BY ZenonT(30), <2>4 DEF MarkQueued
    <3>2. SameRuns
      BY <2>2, <3>1
    <3>3. scan'.due \cup scan'.hand \subseteq scan.due \cup scan.hand
      BY <3>1
    <3> QED
      BY <2>3, <3>2, <3>3
  <2>5. CASE RevertToPending
    <3>1. PICK c \in scan.hand : UpdateRunStatus(c[1], "pending", c[2])
      BY SMTT(30), <2>5 DEF RevertToPending
    <3>2. SameRuns
      BY SMTT(30), <2>2, <3>1
    <3>3. scan'.due \cup scan'.hand \subseteq scan.due
      BY SMTT(30), <1>3, <2>5 DEF RevertToPending
    <3> QED
      BY <2>3, <3>2, <3>3
  <2>6. CASE EnqueueDue \/ WatcherFailure
    <3>1. SameRuns
      BY SMTT(30), <2>6 DEF EnqueueDue, WatcherFailure, EnqueueDueFails, SkipCopy, ScanDeadline,
                  storeVars, SameRuns
    <3>2. scan'.due \cup scan'.hand \subseteq scan.due \cup scan.hand
      <4>1. CASE EnqueueDue
        BY <1>3, <4>1 DEF EnqueueDue
      <4>2. CASE EnqueueDueFails
        BY SMTT(30), <1>1, <4>2 DEF EnqueueDueFails
      <4>3. CASE SkipCopy
        <5>1. PICK due : NextCopy(due) /\ due \subseteq scan.due
          BY ZenonT(30), <4>3 DEF SkipCopy
        <5> QED
          BY SMTT(30), <1>3, <5>1
      <4>4. CASE ScanDeadline
        BY <4>4 DEF ScanDeadline, Resting
      <4> QED
        BY SMTT(30), <2>6, <4>1, <4>2, <4>3, <4>4 DEF WatcherFailure
    <3> QED
      BY SMTT(30), <2>3, <3>1, <3>2
  <2> QED
    BY SMTT(30), <2>1, <2>4, <2>5, <2>6 DEF WatcherStep
<1>5. FramesKnow' /\ ChildFollowsParent'
  BY <1>2, <1>4, SameRunsKeep, SameFramesKnow DEF ChildInv
<1> QED
  BY <1>4, <1>5 DEF ChildInv

\* Create adds first runs only, Cancel none.
LEMMA ClientKeepsChildInv ==
  ASSUME TypeOK, ChildInv, NEW j \in Jobs, Create(j) \/ Cancel(j) \/ CancelChild(j)
  PROVE  ChildInv'
<1>1. UNCHANGED <<worker, inbox, scan>>
  BY DEF Create, Cancel, CancelChild, workerVars, queueVars, watcherVars
<1>2. CASE Create(j)
  <2>1. <<j, 1>> \in Runs
    BY SMTT(30), DomainAssumption DEF Runs
  <2>2. /\ ended' = ended
        /\ \A r \in Runs : status'[r] = IF r = <<j, 1>> THEN "pending" ELSE status[r]
    BY SMTT(30), <1>2, <2>1 DEF Create, CreateJobWithRun, SaveRun, InsertJobRun, TypeOK, RunStoreTypeOK
  <2>3. Grows
    BY <2>2 DEF Grows
  <2>4. \A c \in Jobs, n \in 2 .. MaxSeq : <<c, n>> \in Runs /\ <<c, n>> # <<j, 1>>
    BY SMTT(30), DomainAssumption DEF Runs
  <2>5. ChildFollowsParent'
    BY <2>2, <2>4 DEF ChildInv, ChildFollowsParent
  <2> QED
    BY <1>1, <2>3, <2>5, SameFramesKnow, GrowsKeepsScan DEF ChildInv
<1>3. CASE Cancel(j) \/ CancelChild(j)
  <2>1. /\ ended' = ended
        /\ \A r \in Runs : status'[r] = IF JobOf(r) = j /\ status[r] \in {"pending", "queued", "retry"}
                                        THEN "cancelled" ELSE status[r]
    BY SMTT(30), <1>3 DEF Cancel, CancelChild, CancelPendingRunsByJob, CancelPendingJobRuns
  <2>2. SameRuns
    BY <2>1 DEF SameRuns
  <2> QED
    BY SMTT(30), <1>1, <2>2, SameRunsKeep, SameFramesKnow DEF ChildInv
<1> QED
  BY <1>2, <1>3

\* The rest: the children of a cancelled job, crash and time.
LEMMA RestKeepsChildInv ==
  ASSUME TypeOK, ChildInv, FindCancelChildren \/ CancelFails \/ Crash \/ Tick \/ UNCHANGED vars
  PROVE  ChildInv'
<1>1. SameRuns /\ Grows /\ ChildFollowsParent'
  <2>1. SameRuns
    BY Zenon DEF FindCancelChildren, CancelFails, Crash, Tick, vars, storeVars, SameRuns
  <2> QED
    BY <2>1, SameRunsKeep
<1>2. CASE FindCancelChildren \/ CancelFails \/ UNCHANGED vars
  <2>1. UNCHANGED <<worker, inbox, scan>>
    BY <1>2 DEF FindCancelChildren, CancelFails, vars, workerVars, queueVars, watcherVars
  <2> QED
    BY <1>1, <2>1, SameRunsKeep, SameFramesKnow DEF ChildInv
<1>3. CASE Crash
  <2>1. \A w \in Workers : worker'[w].pc = "reclaim" /\ worker'[w].kids = {}
    BY <1>3 DEF Crash, Loop
  <2>2. "reclaim" \notin Bound \cup Triggering \cup {"spawnSave", "spawnEnqueue"}
    BY SMTT(30) DEF Bound, Triggering, InProcess, Executing, Spawning, Returning
  <2>3. FramesKnow'
    BY SMTT(30), <2>1, <2>2 DEF FramesKnow, pc
  <2>4. ScanKnows'
    BY <1>3 DEF Crash, Resting, ScanKnows
  <2> QED
    BY <1>1, <2>3, <2>4 DEF ChildInv
<1>4. CASE Tick
  <2>1. UNCHANGED <<inbox, scan>> /\ UNCHANGED status /\ UNCHANGED ended
    BY <1>4 DEF Tick, watcherVars, storeVars
  <2>2. ASSUME NEW w \in Workers
        PROVE  /\ worker'[w].pc = worker[w].pc /\ worker'[w].kids = worker[w].kids
               /\ worker'[w].outcome = worker[w].outcome /\ worker'[w].child = worker[w].child
    <3>1. worker[w] \in Frame
      BY DEF TypeOK, WorkerTypeOK
    <3>2. worker'[w] = worker[w] \/ worker'[w] = [worker[w] EXCEPT !.elapsed = @ + 1]
      BY SMTT(30), <1>4 DEF Tick
    <3> QED
      BY SMTT(30), <3>1, <3>2 DEF Frame
  <2>3. FramesKnow'
    BY <2>1, <2>2 DEF ChildInv, FramesKnow, pc, CurrentRun, Current
  <2> QED
    BY <1>1, <2>1, <2>3, SameRunsKeep DEF ChildInv
<1> QED
  BY <1>2, <1>3, <1>4

\* A run that enqueueChildren created exists only if a run of the parent did
\* reach the status it is triggered by (Scheduler.ChildFollowsParent).
THEOREM ChildrenFollow == Spec => []ChildFollowsParent
<1>1. Init => ChildInv
  <2> SUFFICES ASSUME Init PROVE ChildInv
    OBVIOUS
  <2>1. \A w \in Workers : worker[w].pc = "reclaim" /\ worker[w].kids = {}
    BY DEF Init, WorkerInit, Loop
  <2>2. "reclaim" \notin Bound \cup Triggering \cup {"spawnSave", "spawnEnqueue"}
    BY SMTT(30) DEF Bound, Triggering, InProcess, Executing, Spawning, Returning
  <2>3. FramesKnow
    BY SMTT(30), <2>1, <2>2 DEF FramesKnow, pc
  <2>4. ScanKnows
    BY DEF Init, WatcherInit, Resting, ScanKnows
  <2>5. \A c \in Jobs, n \in 2 .. MaxSeq : status[<<c, n>>] = "absent"
    BY DomainAssumption DEF Init, RunStoreInit, Runs
  <2> QED
    BY <2>3, <2>4, <2>5 DEF ChildInv, ChildFollowsParent
<1>2. TypeOK /\ ChildInv /\ [Next]_vars => ChildInv'
  <2> SUFFICES ASSUME TypeOK, ChildInv, [Next]_vars
               PROVE  ChildInv'
    OBVIOUS
  <2>1. CASE Client
    BY <2>1, ClientKeepsChildInv DEF Client
  <2>2. CASE (WatcherStep \/ WatcherFailure) /\ UNCHANGED <<workerVars, envVars>>
    BY <2>2, WatcherKeepsChildInv
  <2>3. ASSUME NEW w \in Workers, WorkerStep(w) \/ WorkerFailure(w), UNCHANGED <<watcherVars, envVars>>
        PROVE  ChildInv'
    BY <2>3, WorkerKeepsChildInv DEF watcherVars
  <2> QED
    BY <2>1, <2>2, <2>3, RestKeepsChildInv DEF Next
<1>3. ChildInv => ChildFollowsParent
  BY DEF ChildInv
<1> QED
  BY <1>1, <1>2, <1>3, TypeCorrect, PTL DEF Spec

=============================================================================
