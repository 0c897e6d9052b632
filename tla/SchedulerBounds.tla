-------------------------- MODULE SchedulerBounds ---------------------------
(***************************************************************************)
(* Three counts of the pipeline, for every value of the constants: by how  *)
(* much a tenant exceeds its slots, how many dead letters are missing, and *)
(* how often a handler is called.  The last one, and that outcomes and     *)
(* cancellations stand, is for one worker and a watcher whose calls        *)
(* succeed, as in the run that checks it.                                  *)
(***************************************************************************)
EXTENDS SchedulerTypes

\* The workers that hold a slot for t they have not taken yet.
Claiming(t) ==
  {w \in Workers : pc(w) = "lock" /\ worker[w].slot /\ TenantOf[JobOf(CurrentRun(w))] = t}

\* The inductive invariant of SlotOvershootBounded: whoever passed the count
\* is counted with the runs that run.
SlotInv ==
  \A t \in Tenants :
    Cardinality(RunningOf(t)) + Cardinality(Claiming(t)) <= MaxConcurrentRuns + Cardinality(Workers) - 1

\* Where process is before it has persisted an outcome.
Undecided == {"find", "claim", "lock"} \cup Executing
               \cup {"persistSuccess", "persistFailure", "requeue", "requeueEvent"}

\* A worker has no outcome before it persists one, and acknowledges a failure
\* only after it has dead-lettered the run.
OutcomeInv ==
  \A w \in Workers :
    /\ pc(w) \in Undecided => worker[w].outcome = "none"
    /\ pc(w) = "ack" /\ worker[w].outcome = "failed" => CurrentRun(w) \in dlq

\* Where a worker holds a running row.
Holding == Executing \cup {"persistSuccess", "persistFailure"}

\* The watcher's copies are those of rows nobody has queued yet.
CopiesInv ==
  /\ \A c \in scan.due : status[c[1]] \in {"pending", "cancelled"} /\ attempts[c[1]] = c[2]
  /\ scan.at # "revert"

\* One worker: it holds the row it executes, its copy of the attempts is that
\* of the row, and so are the watcher's.
HoldInv ==
  /\ \A w \in Workers :
       /\ pc(w) \in Holding => status[CurrentRun(w)] = "running"
       /\ pc(w) \in Holding \cup {"claim", "lock"} => worker[w].attempts = attempts[CurrentRun(w)]
  /\ CopiesInv

\* One worker: each call of the handler is charged to an attempt, that of a
\* running row to the attempt in hand.
BudgetInv ==
  /\ \A r \in Runs :
       /\ status[r] \notin Outcomes => attempts[r] < MaxAttempts
       /\ status[r] \notin Outcomes \cup {"running"} => calls[r] <= attempts[r]
       /\ status[r] = "running" => calls[r] <= attempts[r] + 1
       /\ calls[r] <= MaxAttempts
  /\ \A w \in Workers :
       pc(w) \in {"begin", "lookup", "invoke"} => calls[CurrentRun(w)] <= attempts[CurrentRun(w)]

-----------------------------------------------------------------------------
(* The slots of a tenant *)

\* The counts of two sets that only shrink stay within what bounded them.
LEMMA Shrinking ==
  ASSUME NEW A, NEW B, NEW C, NEW D, IsFiniteSet(A), IsFiniteSet(B),
         C \subseteq A, D \subseteq B,
         NEW n \in Int, Cardinality(A) + Cardinality(B) <= n
  PROVE  Cardinality(C) + Cardinality(D) <= n
<1>1. Cardinality(C) <= Cardinality(A) /\ Cardinality(D) <= Cardinality(B)
  BY FS_Subset
<1>2. IsFiniteSet(C) /\ IsFiniteSet(D)
  BY FS_Subset
<1> QED
  BY <1>1, <1>2, FS_CardinalityType

\* Nor does the sum of the two counts grow when one set gains an element and
\* the other one loses one.
LEMMA Moving ==
  ASSUME NEW A, NEW B, NEW C, NEW D, IsFiniteSet(A), IsFiniteSet(B),
         NEW x, NEW y \in B, C \subseteq A \cup {x}, D \subseteq B \ {y},
         NEW n \in Int, Cardinality(A) + Cardinality(B) <= n
  PROVE  Cardinality(C) + Cardinality(D) <= n
<1>0. Cardinality(A) \in Nat
  BY FS_CardinalityType
<1>a. /\ IsFiniteSet(A \cup {x})
      /\ Cardinality(A \cup {x}) = IF x \in A THEN Cardinality(A) ELSE Cardinality(A) + 1
  BY FS_AddElement, Zenon
<1>1. IsFiniteSet(A \cup {x}) /\ Cardinality(A \cup {x}) <= Cardinality(A) + 1
  BY <1>0, <1>a
<1>2. IsFiniteSet(B \ {y}) /\ Cardinality(B \ {y}) = Cardinality(B) - 1
  BY FS_RemoveElement
<1>3. Cardinality(A \cup {x}) + Cardinality(B \ {y}) <= n
  BY <1>1, <1>2, FS_CardinalityType
<1> QED
  BY <1>1, <1>2, <1>3, Shrinking

\* The sets that are counted are finite.
LEMMA BoundNumbers ==
  /\ Cardinality(Workers) \in Nat \ {0}
  /\ \A S \in SUBSET Runs : IsFiniteSet(S) /\ Cardinality(S) \in Nat
  /\ \A S \in SUBSET Workers :
       IsFiniteSet(S) /\ Cardinality(S) \in Nat /\ Cardinality(S) <= Cardinality(Workers)
<1>1. Cardinality(Workers) \in Nat \ {0}
  BY QueueAssumption, FS_CardinalityType, FS_EmptySet
<1>2. ASSUME NEW S \in SUBSET Runs PROVE IsFiniteSet(S) /\ Cardinality(S) \in Nat
  BY RunsFinite, FS_Subset, FS_CardinalityType
<1>3. ASSUME NEW S \in SUBSET Workers
      PROVE  IsFiniteSet(S) /\ Cardinality(S) \in Nat /\ Cardinality(S) <= Cardinality(Workers)
  BY QueueAssumption, FS_Subset, FS_CardinalityType
<1> QED
  BY <1>1, <1>2, <1>3

\* Nobody else's entry changes.
LEMMA OthersCurrent ==
  ASSUME NEW w, NEW v \in Workers \ {w}, Alone(w)
  PROVE  worker'[v] = worker[v] /\ pc(v)' = pc(v) /\ CurrentRun(v)' = CurrentRun(v)
  BY DEF Alone, pc, CurrentRun, Current

\* A step that makes no run running and nobody claim.
LEMMA SlotsShrink ==
  ASSUME SlotInv, \A r \in Runs : status'[r] = "running" => status[r] = "running",
         \A v \in Workers : worker'[v].pc = "lock" /\ worker'[v].slot =>
           worker[v].pc = "lock" /\ worker[v].slot /\ inbox'[v] = inbox[v]
  PROVE  SlotInv'
<1> SUFFICES ASSUME NEW t \in Tenants
             PROVE  Cardinality(RunningOf(t)') + Cardinality(Claiming(t)')
                      <= MaxConcurrentRuns + Cardinality(Workers) - 1
  BY DEF SlotInv
<1>1. RunningOf(t)' \subseteq RunningOf(t)
  BY DEF RunningOf
<1>2. Claiming(t)' \subseteq Claiming(t)
  BY DEF Claiming, pc, CurrentRun, Current
<1>3. IsFiniteSet(RunningOf(t)) /\ IsFiniteSet(Claiming(t))
  BY BoundNumbers DEF RunningOf, Claiming
<1>4. MaxConcurrentRuns + Cardinality(Workers) - 1 \in Int
  BY BoundNumbers, LimitAssumption
<1>5. Cardinality(RunningOf(t)) + Cardinality(Claiming(t)) <= MaxConcurrentRuns + Cardinality(Workers) - 1
  BY DEF SlotInv
<1> HIDE DEF SlotInv
<1> QED
  BY <1>1, <1>2, <1>3, <1>4, <1>5, Shrinking

\* The snapshot of a claim: fewer runs than slots, and at most all workers.
LEMMA CountsKeepsSlots ==
  ASSUME TypeOK, SlotInv, NEW w \in Workers, Counts(w)
  PROVE  SlotInv'
<1> DEFINE r == CurrentRun(w)
           n == MaxConcurrentRuns + Cardinality(Workers) - 1
<1>1. CASE ~ClaimSnapshot(r)
  <2>1. \A v \in Workers : worker'[v].pc = "lock" /\ worker'[v].slot =>
          worker[v].pc = "lock" /\ worker[v].slot /\ inbox'[v] = inbox[v]
    BY <1>1 DEF Counts, Moves, Alone
  <2>2. status' = status
    BY DEF Counts
  <2> QED
    BY <2>1, <2>2, SlotsShrink
<1>2. CASE ClaimSnapshot(r)
  <2> SUFFICES ASSUME NEW t \in Tenants
               PROVE  Cardinality(RunningOf(t)') + Cardinality(Claiming(t)') <= n
    BY DEF SlotInv
  <2>1. RunningOf(t)' = RunningOf(t)
    BY DEF Counts, RunningOf
  <2>2. n \in Int /\ MaxConcurrentRuns \in Nat /\ Cardinality(Workers) \in Nat
    BY BoundNumbers, LimitAssumption
  <2>3. IsFiniteSet(RunningOf(t)) /\ Cardinality(RunningOf(t)) \in Nat /\ IsFiniteSet(Claiming(t))
    BY BoundNumbers DEF RunningOf, Claiming
  <2>4. CASE TenantOf[JobOf(r)] = t
    <3>1. Cardinality(RunningOf(t)) < MaxConcurrentRuns
      BY <1>2, <2>4 DEF ClaimSnapshot
    <3>2. Claiming(t)' \subseteq Workers
      BY DEF Claiming
    <3>3. Cardinality(Claiming(t)') \in Nat /\ Cardinality(Claiming(t)') <= Cardinality(Workers)
      BY <3>2, BoundNumbers
    <3> QED
      BY <2>1, <2>2, <2>3, <3>1, <3>3
  <2>5. CASE TenantOf[JobOf(r)] # t
    <3>1. /\ \A v \in Workers \ {w} : worker'[v] = worker[v] /\ inbox'[v] = inbox[v]
          /\ inbox'[w] = inbox[w]
      BY DEF Counts, Moves, Alone
    <3>2. Claiming(t)' \subseteq Claiming(t)
      BY <2>5, <3>1 DEF Claiming, pc, CurrentRun, Current
    <3>3. Cardinality(RunningOf(t)) + Cardinality(Claiming(t)) <= n
      BY DEF SlotInv
    <3> HIDE DEF n
    <3> QED
      BY <2>1, <2>2, <2>3, <3>2, <3>3, Shrinking
  <2> QED
    BY <2>4, <2>5
<1> QED
  BY <1>1, <1>2

\* The update of a claim: what was claimed now runs.
LEMMA ClaimsKeepsSlots ==
  ASSUME TypeOK, SlotInv, NEW w \in Workers, Claims(w)
  PROVE  SlotInv'
<1> DEFINE r == CurrentRun(w)
           n == MaxConcurrentRuns + Cardinality(Workers) - 1
<1> SUFFICES ASSUME NEW t \in Tenants
             PROVE  Cardinality(RunningOf(t)') + Cardinality(Claiming(t)') <= n
  BY DEF SlotInv
<1>1. n \in Int
  BY BoundNumbers, LimitAssumption
<1>2. IsFiniteSet(RunningOf(t)) /\ IsFiniteSet(Claiming(t))
  BY BoundNumbers DEF RunningOf, Claiming
<1>3. Cardinality(RunningOf(t)) + Cardinality(Claiming(t)) <= n
  BY DEF SlotInv
<1>4. /\ pc(w) = "lock" /\ worker[w].slot /\ worker'[w].pc = "begin"
      /\ \A v \in Workers \ {w} : worker'[v] = worker[v] /\ inbox'[v] = inbox[v]
      /\ status' = [status EXCEPT ![r] = "running"]
  BY DEF Claims, Moves, Alone, ClaimRow
<1>5. Claiming(t)' \subseteq Claiming(t) \ {w}
  BY <1>4 DEF Claiming, pc, CurrentRun, Current
<1>6. \A x \in Runs : x # r => status'[x] = status[x]
  BY <1>4 DEF TypeOK, RunStoreTypeOK
<1> HIDE DEF n
<1>7. CASE TenantOf[JobOf(r)] = t
  <2>1. w \in Claiming(t)
    BY <1>4, <1>7 DEF Claiming
  <2>2. RunningOf(t)' \subseteq RunningOf(t) \cup {r}
    BY <1>6 DEF RunningOf
  <2> QED
    BY ZenonT(30), <1>1, <1>2, <1>3, <1>5, <2>1, <2>2, Moving
<1>8. CASE TenantOf[JobOf(r)] # t
  <2>1. RunningOf(t)' \subseteq RunningOf(t)
    BY <1>6, <1>8 DEF RunningOf
  <2>2. Claiming(t)' \subseteq Claiming(t)
    BY <1>5
  <2> QED
    BY <1>1, <1>2, <1>3, <2>1, <2>2, Shrinking
<1> QED
  BY <1>7, <1>8

\* Every other step of a worker takes it away from a claim, or elsewhere.
LEMMA MovesKeepsSlots ==
  ASSUME TypeOK, SlotInv, NEW w \in Workers, WorkerMove(w)
  PROVE  SlotInv'
<1>1. CASE Counts(w)
  BY <1>1, CountsKeepsSlots
<1>2. CASE Claims(w)
  BY <1>2, ClaimsKeepsSlots
<1>3. CASE ~Counts(w) /\ ~Claims(w)
  <2>1. Alone(w) /\ worker'[w].pc # "lock"
    BY <1>3 DEF WorkerMove, Polls, Returns, GivesIn, Restarts, LooksUp, Dispatch, Executes,
                Invokes, Ends, Retries, Proceeds, Buries, Moves, Spawning
  <2>2. \A v \in Workers : worker'[v].pc = "lock" /\ worker'[v].slot =>
          worker[v].pc = "lock" /\ worker[v].slot /\ inbox'[v] = inbox[v]
    BY <2>1 DEF Alone
  <2>3. \A r \in Runs : status'[r] = "running" => status[r] = "running"
    <3>1. CASE Ends(w, "success") \/ Ends(w, "failed") \/ Retries(w)
      <4>1. PICK s \in {"success", "failed", "retry"} : status' = [status EXCEPT ![CurrentRun(w)] = s]
        BY <3>1 DEF Ends, Retries, PersistRunTransition, UpdateJobRunStatus
      <4> QED
        BY <4>1 DEF TypeOK, RunStoreTypeOK
    <3>2. CASE ~(Ends(w, "success") \/ Ends(w, "failed") \/ Retries(w))
      BY ZenonT(30), <1>3, <3>2 DEF WorkerMove, Polls, Returns, GivesIn, Restarts, LooksUp, Executes, Invokes,
                        Proceeds, Buries
    <3> QED
      BY <3>1, <3>2
  <2> QED
    BY <2>2, <2>3, SlotsShrink
<1> QED
  BY <1>1, <1>2, <1>3

\* A tenant exceeds its limit by at most one run per other worker: the claim
\* counts before it holds the advisory lock (TryMarkJobRunRunning).
THEOREM SlotOvershoot == Spec => []SlotOvershootBounded
<1>1. Init => SlotInv
  <2> SUFFICES ASSUME Init, NEW t \in Tenants
               PROVE  Cardinality(RunningOf(t)) + Cardinality(Claiming(t))
                        <= MaxConcurrentRuns + Cardinality(Workers) - 1
    BY DEF SlotInv
  <2>1. RunningOf(t) = {} /\ Claiming(t) = {}
    BY DEF Init, RunStoreInit, WorkerInit, Loop, RunningOf, Claiming, pc
  <2> QED
    BY <2>1, BoundNumbers, LimitAssumption, FS_EmptySet
<1>2. TypeOK /\ SlotInv /\ [Next]_vars => SlotInv'
  <2> SUFFICES ASSUME TypeOK, SlotInv, [Next]_vars PROVE SlotInv'
    OBVIOUS
  <2>1. ASSUME NEW w \in Workers, WorkerStep(w) \/ WorkerFailure(w) PROVE SlotInv'
    BY <2>1, WorkerMoves, MovesKeepsSlots
  <2>2. CASE \/ Client \/ FindCancelChildren \/ CancelFails \/ Crash \/ Tick
             \/ (WatcherStep \/ WatcherFailure) /\ UNCHANGED <<workerVars, envVars>>
             \/ UNCHANGED vars
    <3>1. \A v \in Workers : worker'[v].pc = "lock" /\ worker'[v].slot =>
            worker[v].pc = "lock" /\ worker[v].slot /\ inbox'[v] = inbox[v]
      <4>1. CASE Crash
        BY <4>1 DEF Crash, Loop
      <4>2. CASE Still
        BY <4>2 DEF Still
      <4> QED
        BY <2>2, <4>1, <4>2, OtherMoves
    <3>2. \A r \in Runs : status'[r] = "running" => status[r] = "running"
      BY <2>2, OtherMoves
    <3> QED
      BY <3>1, <3>2, SlotsShrink
  <2> QED
    BY Zenon, <2>1, <2>2 DEF Next
<1>3. SlotInv => SlotOvershootBounded
  <2> SUFFICES ASSUME SlotInv, NEW t \in Tenants
               PROVE  Cardinality(RunningOf(t)) <= MaxConcurrentRuns + Cardinality(Workers) - 1
    BY DEF SlotOvershootBounded
  <2>1. Cardinality(RunningOf(t)) \in Nat /\ Cardinality(Claiming(t)) \in Nat
    BY BoundNumbers DEF RunningOf, Claiming
  <2>2. Cardinality(RunningOf(t)) + Cardinality(Claiming(t))
          <= MaxConcurrentRuns + Cardinality(Workers) - 1
    BY DEF SlotInv
  <2> QED
    BY <2>1, <2>2, BoundNumbers, LimitAssumption
<1> QED
  BY <1>1, <1>2, <1>3, TypeCorrect, PTL DEF Spec

-----------------------------------------------------------------------------
(* The dead letters *)

\* The parts of DeadLettersAccountedFor.
InHand(r) ==
  \E w \in Workers : pc(w) \in InProcess /\ CurrentRun(w) = r /\ worker[w].outcome = "failed"
Missing == {r \in Runs : <<r, "failed">> \in ended /\ r \notin dlq /\ ~InHand(r)}

\* A worker keeps to the order: outcome, dead letter, acknowledgement.
LEMMA OutcomeMoves ==
  ASSUME TypeOK, OutcomeInv, NEW w \in Workers, WorkerMove(w)
  PROVE  OutcomeInv'
<1>1. Alone(w) /\ dlq \subseteq dlq'
  BY ZenonT(30) DEF WorkerMove, Polls, Returns, GivesIn, Restarts, LooksUp, Counts, Claims, Executes, Invokes,
         Ends, Retries, Proceeds, Buries, Moves
<1>2. ASSUME NEW v \in Workers \ {w}
      PROVE  /\ pc(v)' \in Undecided => worker'[v].outcome = "none"
             /\ pc(v)' = "ack" /\ worker'[v].outcome = "failed" => CurrentRun(v)' \in dlq'
  BY <1>1, OthersCurrent DEF OutcomeInv
<1> DEFINE None == worker'[w].outcome = "none"
           Fine == /\ pc(w)' \in Undecided => None
                   /\ pc(w)' = "ack" /\ worker'[w].outcome = "failed" => CurrentRun(w)' \in dlq'
<1>3. None => Fine
  OBVIOUS
<1>4. /\ pc(w) \in Undecided => worker[w].outcome = "none"
      /\ pc(w)' = worker'[w].pc
      /\ inbox'[w] = inbox[w] => CurrentRun(w)' = CurrentRun(w)
  BY DEF OutcomeInv, pc, CurrentRun, Current
<1>5. ASSUME Restarts(w) PROVE Fine
  <2>1. pc(w)' \in {"find", "read", "reclaim"} /\ (pc(w)' = "find" => None)
    BY <1>4, <1>5 DEF Restarts
  <2>2. "read" \notin Undecided /\ "reclaim" \notin Undecided
    BY DEF Undecided, Executing
  <2> QED
    BY <2>1, <2>2
<1>6. ASSUME LooksUp(w) \/ Counts(w) \/ Claims(w) \/ Executes(w) \/ Invokes(w) \/ Retries(w) PROVE Fine
  <2>1. pc(w) \in {"find", "claim", "lock", "invoke", "persistFailure"} \cup Executing
    BY Zenon, <1>6 DEF LooksUp, Counts, Claims, Executes, Invokes, Retries
  <2>2. pc(w) \in Undecided
    BY <2>1 DEF Undecided, Executing
  <2>3. worker'[w].outcome = worker[w].outcome
    BY ZenonT(30), <1>6 DEF LooksUp, Counts, Claims, Executes, Invokes, Retries, Moves
  <2> QED
    BY <1>3, <1>4, <2>2, <2>3
<1>7. ASSUME Ends(w, "success") \/ Ends(w, "failed") PROVE Fine
  <2>1. pc(w)' \in {"spawnFind", "dlqEvent"}
    BY ZenonT(30), <1>4, <1>7 DEF Ends
  <2> QED
    BY <2>1 DEF Undecided, Executing
<1>8. ASSUME Proceeds(w) PROVE Fine
  <2>1. PICK p \in {"requeueEvent", "deadLetter", "ack"} \cup Spawning :
          /\ Moves(w, p)
          /\ p = "requeueEvent" => pc(w) = "requeue"
          /\ p = "ack" => pc(w) = "requeueEvent" \/ worker[w].outcome # "failed"
    BY <1>8 DEF Proceeds
  <2>2. worker'[w].outcome = worker[w].outcome /\ pc(w)' = p
    BY <1>4, <2>1 DEF Moves
  <2>3. CASE pc(w) \in {"requeue", "requeueEvent"}
    <3>1. pc(w) \in Undecided
      BY <2>3 DEF Undecided
    <3> QED
      BY <1>3, <1>4, <2>2, <3>1
  <2>4. CASE pc(w) \notin {"requeue", "requeueEvent"}
    <3>1. p \in {"deadLetter", "ack"} \cup Spawning /\ (p = "ack" => worker[w].outcome # "failed")
      BY <2>1, <2>4
    <3>2. p \notin Undecided
      BY <3>1 DEF Undecided, Executing, Spawning
    <3> QED
      BY <2>2, <3>1, <3>2
  <2> QED
    BY <2>3, <2>4
<1>9. ASSUME Buries(w) PROVE Fine
  <2>1. inbox'[w] = inbox[w] /\ pc(w)' = "ack" /\ dlq' = dlq \cup {CurrentRun(w)}
    BY <1>4, <1>9 DEF Buries, Moves
  <2>2. "ack" \notin Undecided
    BY DEF Undecided, Executing
  <2> QED
    BY <1>4, <2>1, <2>2
<1> HIDE DEF Fine
<1>10. Fine
  BY <1>5, <1>6, <1>7, <1>8, <1>9 DEF WorkerMove, Polls, Returns, GivesIn
<1> QED
  BY SMTT(30), <1>2, <1>10 DEF OutcomeInv, Fine

\* A failed run stays in the hands of the worker that failed it until it is
\* among the dead letters, unless process returns with an error.
LEMMA HandKept ==
  ASSUME TypeOK, OutcomeInv, NEW w \in Workers, WorkerMove(w), ~GivesIn(w), NEW r, InHand(r), r \notin dlq
  PROVE  InHand(r)'
<1>1. PICK v \in Workers : pc(v) \in InProcess /\ CurrentRun(v) = r /\ worker[v].outcome = "failed"
  BY DEF InHand
<1>2. CASE v # w
  <2>1. Alone(w)
    BY ZenonT(30) DEF WorkerMove, Polls, Returns, GivesIn, Restarts, LooksUp, Counts, Claims, Executes, Invokes,
           Ends, Retries, Proceeds, Buries, Moves
  <2> QED
    BY SMTT(30), <1>1, <1>2, <2>1, OthersCurrent DEF InHand
<1>3. CASE v = w
  <2>1. pc(w) \notin Undecided /\ pc(w) # "ack" /\ pc(w) \in InProcess
    BY <1>1, <1>3 DEF OutcomeInv
  <2>2. ~Polls(w) /\ ~Returns(w)
    BY <2>1 DEF Polls, Returns, Undecided, InProcess, Executing, Spawning, Returning
  <2>3. ~LooksUp(w) /\ ~Counts(w) /\ ~Claims(w) /\ ~Executes(w) /\ ~Invokes(w) /\ ~Retries(w)
        /\ pc(w) # "persistSuccess" /\ pc(w) # "persistFailure"
    BY Zenon, <2>1 DEF LooksUp, Counts, Claims, Executes, Invokes, Retries, Undecided, Executing
  <2>4. PICK p \in {"requeueEvent", "deadLetter", "ack"} \cup Spawning : Moves(w, p)
    BY Zenon, <2>2, <2>3 DEF WorkerMove, Proceeds, Buries
  <2>5. p \in InProcess
    BY DEF InProcess, Returning, Spawning
  <2>6. pc(w)' = p /\ CurrentRun(w)' = CurrentRun(w) /\ worker'[w].outcome = worker[w].outcome
    BY <2>4 DEF Moves, pc, CurrentRun, Current
  <2> QED
    BY ZenonT(30), <1>1, <1>3, <2>5, <2>6 DEF InHand
<1> QED
  BY <1>2, <1>3

\* A step of a worker lets at most the run go that it returns from in error.
LEMMA MissingMoves ==
  ASSUME TypeOK, OutcomeInv, NEW w \in Workers, WorkerMove(w)
  PROVE  Missing' \subseteq Missing \cup (IF GivesIn(w) THEN {CurrentRun(w)} ELSE {})
<1>1. dlq \subseteq dlq'
  BY ZenonT(30) DEF WorkerMove, Polls, Returns, GivesIn, Restarts, LooksUp, Counts, Claims, Executes, Invokes,
         Ends, Retries, Proceeds, Buries, Moves
<1>2. CASE GivesIn(w)
  <2>1. Alone(w) /\ ended' = ended
    BY <1>2 DEF GivesIn, Restarts
  <2>2. ASSUME NEW r, r # CurrentRun(w), InHand(r)
        PROVE  InHand(r)'
    BY <2>1, <2>2, OthersCurrent DEF InHand
  <2> QED
    BY <1>1, <1>2, <2>1, <2>2 DEF Missing
<1>3. CASE ~GivesIn(w)
  <2>1. ASSUME NEW r \in Runs, InHand(r), r \notin dlq
        PROVE  InHand(r)'
    BY <1>3, <2>1, HandKept
  <2>2. CASE pc(w) = "persistFailure" /\ Ends(w, "failed")
    <3>1. ended' \subseteq ended \cup {<<CurrentRun(w), "failed">>}
      BY <2>2 DEF Ends, PersistRunTransition, InsertRunEvent
    <3>2. pc(w)' \in InProcess /\ CurrentRun(w)' = CurrentRun(w) /\ worker'[w].outcome = "failed"
      BY <2>2 DEF Ends, pc, CurrentRun, Current, InProcess, Spawning, Returning
    <3>3. \A r \in Runs : r = CurrentRun(w) => InHand(r)'
      BY <3>2 DEF InHand
    <3> QED
      BY <1>1, <1>3, <2>1, <3>1, <3>3 DEF Missing
  <2>3. CASE ~(pc(w) = "persistFailure" /\ Ends(w, "failed"))
    <3>1. \A r \in Runs : <<r, "failed">> \in ended' => <<r, "failed">> \in ended
      <4>1. CASE Ends(w, "success") \/ Retries(w)
        BY <4>1 DEF Ends, Retries, PersistRunTransition, InsertRunEvent
      <4>2. CASE ~(Ends(w, "success") \/ Retries(w))
        BY ZenonT(30), <1>3, <2>3, <4>2 DEF WorkerMove, Polls, Returns, Restarts, LooksUp, Counts, Claims,
           Executes, Invokes, Proceeds, Buries, ClaimRow
      <4> QED
        BY <4>1, <4>2
    <3> QED
      BY <1>1, <1>3, <2>1, <3>1 DEF Missing
  <2> QED
    BY <2>2, <2>3
<1> QED
  BY <1>2, <1>3

\* A crash lets at most one run go per worker.
LEMMA MissingCrash ==
  ASSUME TypeOK, Crash
  PROVE  /\ IsFiniteSet({CurrentRun(w) : w \in Workers})
         /\ Cardinality({CurrentRun(w) : w \in Workers}) <= Cardinality(Workers)
         /\ Missing' \subseteq Missing \cup {CurrentRun(w) : w \in Workers}
<1> DEFINE held == {CurrentRun(w) : w \in Workers}
           f == [w \in Workers |-> CurrentRun(w)]
<1>1. f \in Surjection(Workers, held)
  BY DEF Surjection
<1>2. IsFiniteSet(held) /\ Cardinality(held) <= Cardinality(Workers)
  BY <1>1, FS_Surjection, QueueAssumption
<1>3. ended' = ended /\ dlq' = dlq
  BY DEF Crash, storeVars
<1>4. \A r : InHand(r) => r \in held
  BY DEF InHand
<1>5. Missing' \subseteq Missing \cup held
  BY <1>3, <1>4 DEF Missing
<1> QED
  BY <1>2, <1>5

\* A run that is let go adds one.
LEMMA OneMore ==
  ASSUME NEW A, NEW B, IsFiniteSet(A), NEW x, B \subseteq A \cup {x}, NEW n \in Int, Cardinality(A) <= n
  PROVE  Cardinality(B) <= n + 1
<1>1. Cardinality(A) \in Nat
  BY FS_CardinalityType
<1>2. /\ IsFiniteSet(A \cup {x})
      /\ Cardinality(A \cup {x}) = IF x \in A THEN Cardinality(A) ELSE Cardinality(A) + 1
  BY FS_AddElement, Zenon
<1>3. IsFiniteSet(B) /\ Cardinality(B) <= Cardinality(A \cup {x})
  BY <1>2, FS_Subset
<1>4. Cardinality(B) \in Nat
  BY <1>3, FS_CardinalityType
<1> QED
  BY <1>1, <1>2, <1>3, <1>4

\* The steps keep the account of the missing dead letters.
LEMMA DeadLettersStep ==
  ASSUME TypeOK, OutcomeInv, [Next]_vars, Cardinality(Missing) <= faults + crashes * Cardinality(Workers)
  PROVE  OutcomeInv' /\ Cardinality(Missing') <= faults' + crashes' * Cardinality(Workers)
<1> DEFINE N == Cardinality(Workers)
<1>1. /\ N \in Nat /\ faults \in Nat /\ crashes \in Nat /\ crashes * N \in Nat
      /\ IsFiniteSet(Missing) /\ Cardinality(Missing) \in Nat
  <2>1. N \in Nat /\ IsFiniteSet(Missing) /\ Cardinality(Missing) \in Nat
    BY Zenon, BoundNumbers DEF Missing
  <2>2. faults \in Nat /\ crashes \in Nat
    BY FaultAssumption, BoundAssumption DEF TypeOK, WorkerTypeOK
  <2> HIDE DEF N
  <2> QED
    BY <2>1, <2>2
<1>2. ASSUME NEW S, S \subseteq Missing
      PROVE  Cardinality(S) \in Nat /\ Cardinality(S) <= Cardinality(Missing)
  BY <1>1, <1>2, FS_Subset, FS_CardinalityType
<1>3. ASSUME NEW w \in Workers, WorkerStep(w) \/ WorkerFailure(w), crashes' = crashes
      PROVE  OutcomeInv' /\ Cardinality(Missing') <= faults' + crashes' * N
  <2>1. WorkerMove(w)
    BY <1>3, WorkerMoves
  <2>2. OutcomeInv' /\ Missing' \subseteq Missing \cup (IF GivesIn(w) THEN {CurrentRun(w)} ELSE {})
    BY SMTT(30), <2>1, OutcomeMoves, MissingMoves
  <2>3. faults' \in {faults, faults + 1} /\ (GivesIn(w) => faults' = faults + 1)
    BY ZenonT(30), <2>1 DEF WorkerMove, Polls, Returns, GivesIn, LooksUp, Counts, Claims, Executes, Invokes,
                Ends, Retries, Proceeds, Buries
  <2> HIDE DEF N
  <2>4. CASE GivesIn(w)
    <3> DEFINE n == faults + crashes * N
    <3>1. n \in Int /\ Cardinality(Missing) <= n
      BY <1>1 DEF N
    <3>2. Missing' \subseteq Missing \cup {CurrentRun(w)}
      BY <2>2, <2>4
    <3> HIDE DEF n
    <3>3. Cardinality(Missing') <= n + 1
      BY <1>1, <3>1, <3>2, OneMore
    <3>4. faults' + crashes' * N = n + 1
      BY <1>1, <1>3, <2>3, <2>4 DEF n
    <3> QED
      BY <2>2, <3>3, <3>4
  <2>5. CASE ~GivesIn(w)
    <3>1. Missing' \subseteq Missing
      BY <2>2, <2>5
    <3>2. Cardinality(Missing') \in Nat /\ Cardinality(Missing') <= Cardinality(Missing)
      BY <1>2, <3>1
    <3>3. Cardinality(Missing) <= faults + crashes * N
      BY DEF N
    <3> QED
      BY <1>1, <1>3, <2>2, <2>3, <3>2, <3>3
  <2> QED
    BY <2>4, <2>5
<1>4. CASE Crash
  <2> DEFINE held == {CurrentRun(w) : w \in Workers}
  <2>1. IsFiniteSet(held) /\ Cardinality(held) <= N /\ Missing' \subseteq Missing \cup held
    BY <1>4, MissingCrash
  <2>2. faults' = faults /\ crashes' = crashes + 1
    BY <1>4 DEF Crash
  <2>3. OutcomeInv'
    <3>1. \A w \in Workers : pc(w)' = "reclaim"
      BY <1>4 DEF Crash, Loop, pc
    <3>2. "reclaim" \notin Undecided
      BY DEF Undecided, Executing
    <3> QED
      BY <3>1, <3>2 DEF OutcomeInv
  <2> HIDE DEF held
  <2>4. /\ IsFiniteSet(Missing \cup held)
        /\ Cardinality(Missing \cup held)
             = Cardinality(Missing) + Cardinality(held) - Cardinality(Missing \cap held)
    BY Zenon, <1>1, <2>1, FS_Union
  <2>5. /\ Cardinality(held) \in Nat /\ Cardinality(Missing \cap held) \in Nat
        /\ Cardinality(Missing \cup held) \in Nat
    <3>1. IsFiniteSet(Missing \cap held)
      BY ZenonT(30), <1>1, FS_Intersection
    <3> QED
      BY <2>1, <2>4, <3>1, FS_CardinalityType
  <2>6. Cardinality(Missing') \in Nat /\ Cardinality(Missing') <= Cardinality(Missing \cup held)
    BY <2>1, <2>4, FS_Subset, FS_CardinalityType
  <2>7. Cardinality(Missing) <= faults + crashes * N
    OBVIOUS
  <2> HIDE DEF N
  <2>8. (crashes + 1) * N = crashes * N + N
    BY <1>1
  <2>9. Cardinality(Missing') <= faults + (crashes * N + N)
    BY <1>1, <2>1, <2>4, <2>5, <2>6, <2>7
  <2> QED
    BY <2>2, <2>3, <2>8, <2>9 DEF N
<1>5. CASE /\ \/ Client \/ FindCancelChildren \/ CancelFails \/ Tick
              \/ (WatcherStep \/ WatcherFailure) /\ UNCHANGED <<workerVars, envVars>>
              \/ UNCHANGED vars
           /\ ~Crash
  <2>1. /\ UNCHANGED <<ended, dlq>> /\ Still /\ faults' \in {faults, faults + 1} /\ crashes' = crashes
    BY <1>5, OtherMoves
  <2>2. \A v \in Workers : /\ pc(v)' = pc(v) /\ CurrentRun(v)' = CurrentRun(v)
                           /\ worker'[v].outcome = worker[v].outcome
    BY <2>1 DEF Still, pc, CurrentRun, Current
  <2>3. OutcomeInv'
    BY <2>1, <2>2 DEF OutcomeInv
  <2>4. Missing' \subseteq Missing
    BY <2>1, <2>2 DEF Missing, InHand
  <2>5. Cardinality(Missing') \in Nat /\ Cardinality(Missing') <= Cardinality(Missing)
    BY <1>2, <2>4
  <2>6. Cardinality(Missing) <= faults + crashes * N
    OBVIOUS
  <2> HIDE DEF N
  <2>7. Cardinality(Missing') <= faults' + crashes' * N
    BY <1>1, <2>1, <2>5, <2>6
  <2> QED
    BY <2>3, <2>7 DEF N
<1> QED
  <2>1. ASSUME NEW w \in Workers, (WorkerStep(w) \/ WorkerFailure(w)) /\ UNCHANGED <<watcherVars, envVars>>
        PROVE  OutcomeInv' /\ Cardinality(Missing') <= faults' + crashes' * Cardinality(Workers)
    <3>1. crashes' = crashes
      BY <2>1 DEF envVars
    <3> QED
      BY <1>3, <2>1, <3>1
  <2> QED
    BY Zenon, <1>4, <1>5, <2>1 DEF Next

\* A run that failed for good is among the dead letters or still in hand, but
\* for one run per failed call and per worker and crash (handleFailure
\* persists the status first).
THEOREM DeadLettersAccounted == Spec => []DeadLettersAccountedFor
<1> DEFINE Account == Cardinality(Missing) <= faults + crashes * Cardinality(Workers)
<1>1. Init => OutcomeInv /\ Account
  <2> SUFFICES ASSUME Init PROVE OutcomeInv /\ Account
    OBVIOUS
  <2>1. \A w \in Workers : pc(w) = "reclaim"
    BY DEF Init, WorkerInit, Loop, pc
  <2>2. "reclaim" \notin Undecided
    BY DEF Undecided, Executing
  <2>3. OutcomeInv
    BY <2>1, <2>2 DEF OutcomeInv
  <2>4. Missing = {} /\ faults = 0 /\ crashes = 0
    BY DEF Init, RunStoreInit, WorkerInit, Missing
  <2> QED
    BY <2>3, <2>4, BoundNumbers, FS_EmptySet
<1>2. TypeOK /\ OutcomeInv /\ Account /\ [Next]_vars => OutcomeInv' /\ Account'
  BY DeadLettersStep
<1>3. Account => DeadLettersAccountedFor
  BY DEF DeadLettersAccountedFor, Missing, InHand
<1> HIDE DEF Account
<1> QED
  BY <1>1, <1>2, <1>3, TypeCorrect, PTL DEF Spec

-----------------------------------------------------------------------------
(* One worker, and a watcher whose calls succeed *)

Solo == Cardinality(Workers) = 1 /\ MaxScanFaults = 0

\* There is no other worker.
LEMMA SoloWorker ==
  ASSUME Solo, NEW v \in Workers, NEW w \in Workers
  PROVE  v = w
  BY FS_Singleton, QueueAssumption DEF Solo

\* A row a worker changes is the one it claims or holds, or a child's.
WorkerRow(w, r) ==
  \/ status'[r] = status[r] /\ attempts'[r] = attempts[r]
  \/ /\ r = CurrentRun(w) /\ status[r] \in MarkRunningFrom /\ status'[r] = "running"
     /\ attempts'[r] = attempts[r] /\ worker'[w].pc = "begin"
  \/ r = CurrentRun(w) /\ status[r] = "running" /\ status'[r] \in Outcomes /\ attempts'[r] = attempts[r]
  \/ /\ r = CurrentRun(w) /\ status[r] = "running" /\ status'[r] = "retry"
     /\ attempts'[r] = attempts[r] + 1 /\ attempts[r] + 1 < MaxAttempts
  \/ status[r] = "absent" /\ status'[r] = "queued" /\ attempts'[r] = attempts[r]

\* What a transition writes.
LEMMA TransitionWrites ==
  ASSUME TypeOK, NEW r \in Runs, NEW s, NEW n, PersistRunTransition(r, s, n)
  PROVE  /\ status'[r] = s /\ attempts'[r] = n
         /\ \A x \in Runs \ {r} : status'[x] = status[x] /\ attempts'[x] = attempts[x]
  BY DEF PersistRunTransition, UpdateJobRunStatus, TypeOK, RunStoreTypeOK

\* The rows a worker's step changes.
LEMMA WorkerRows ==
  ASSUME TypeOK, HoldInv, NEW w \in Workers, WorkerMove(w), NEW r \in Runs
  PROVE  WorkerRow(w, r)
<1> DEFINE x == CurrentRun(w)
<1>1. pc(w) \in Holding \cup {"claim", "lock"} =>
        x \in Runs /\ worker[w].attempts = attempts[x] /\ (pc(w) \in Holding => status[x] = "running")
  <2>1. pc(w) \in Holding \cup {"claim", "lock"} => pc(w) \in InProcess
    BY DEF Holding, InProcess, Returning
  <2> QED
    BY <2>1, CurrentType DEF HoldInv
<1>2. attempts[r] \in Nat /\ MaxAttempts \in Nat
  BY DomainAssumption DEF TypeOK, RunStoreTypeOK
<1>3. "persistSuccess" \in Holding /\ "persistFailure" \in Holding
  BY DEF Holding
<1>4. ASSUME Claims(w) PROVE WorkerRow(w, r)
  <2>1. /\ pc(w) = "lock" /\ status[x] \in MarkRunningFrom /\ worker'[w].pc = "begin"
        /\ status' = [status EXCEPT ![x] = "running"] /\ attempts' = attempts
    BY <1>4 DEF Claims, ClaimRow, Moves
  <2>2. status \in [Runs -> Statuses \cup {"absent"}]
    BY DEF TypeOK, RunStoreTypeOK
  <2> HIDE DEF x
  <2>3. (r = x => status'[r] = "running") /\ (r # x => status'[r] = status[r])
    BY <2>1, <2>2
  <2> QED
    BY <2>1, <2>3 DEF WorkerRow, x
<1>5. ASSUME NEW s \in Outcomes, pc(w) \in Holding, Ends(w, s)
      PROVE  WorkerRow(w, r)
  <2>1. PersistRunTransition(x, s, attempts[x]) /\ x \in Runs /\ status[x] = "running"
    BY <1>1, <1>5 DEF Ends
  <2> HIDE DEF x
  <2>2. /\ status'[x] = s /\ attempts'[x] = attempts[x]
        /\ \A y \in Runs \ {x} : status'[y] = status[y] /\ attempts'[y] = attempts[y]
    BY <2>1, TransitionWrites
  <2> QED
    BY <2>1, <2>2 DEF WorkerRow, x
<1>6. ASSUME Retries(w) PROVE WorkerRow(w, r)
  <2>1. pc(w) = "persistFailure"
    BY <1>6 DEF Retries
  <2>2. /\ PersistRunTransition(x, "retry", attempts[x] + 1) /\ x \in Runs /\ status[x] = "running"
        /\ ~(attempts[x] + 1 >= MaxAttempts)
    BY <1>1, <1>3, <1>6, <2>1 DEF Retries, LastAttempt
  <2> HIDE DEF x
  <2>3. /\ status'[x] = "retry" /\ attempts'[x] = attempts[x] + 1
        /\ \A y \in Runs \ {x} : status'[y] = status[y] /\ attempts'[y] = attempts[y]
    BY <2>2, TransitionWrites
  <2>4. r = x => attempts[r] + 1 < MaxAttempts
    BY SMTT(30), <1>2, <2>2
  <2> QED
    BY <2>2, <2>3, <2>4 DEF WorkerRow, x
<1>7. ASSUME Proceeds(w) PROVE WorkerRow(w, r)
  BY ZenonT(30), <1>7 DEF Proceeds, WorkerRow
<1>8. ASSUME UNCHANGED <<status, attempts>> PROVE WorkerRow(w, r)
  BY <1>8 DEF WorkerRow
<1>9. "success" \in Outcomes /\ "failed" \in Outcomes
  BY DEF Outcomes
<1> QED
  BY Zenon, <1>3, <1>4, <1>5, <1>6, <1>7, <1>8, <1>9
     DEF WorkerMove, Polls, Returns, GivesIn, Restarts, LooksUp, Counts, Executes, Invokes, Buries

\* What everybody else does to a row: a new one, a cancelled one, or one that
\* the watcher found pending.
OtherRow(r) ==
  /\ attempts'[r] = attempts[r]
  /\ \/ status'[r] = status[r]
     \/ status[r] = "absent" /\ status'[r] = "pending"
     \/ status[r] \in {"pending", "queued", "retry"} /\ status'[r] = "cancelled"
     \/ /\ status[r] \in {"pending", "cancelled"} /\ status'[r] = "queued"
        /\ \E c \in scan.due : c[1] = r

\* A watcher that works from copies that are still good.
LEMMA WatcherRows ==
  ASSUME TypeOK, Solo, CopiesInv, WatcherStep \/ WatcherFailure
  PROVE  CopiesInv' /\ \A r \in Runs : OtherRow(r)
<1>1. /\ status \in [Runs -> Statuses \cup {"absent"}] /\ attempts \in [Runs -> Nat]
      /\ scan.due \subseteq Runs \X Nat /\ scanFaults \in 0 .. 0
  BY DEF TypeOK, RunStoreTypeOK, WatcherTypeOK, Solo, Copies
<1>2. ~WatcherFailure /\ ~RevertToPending
  BY <1>1 DEF WatcherFailure, EnqueueDueFails, SkipCopy, ScanDeadline, CountScanFault, Solo,
              RevertToPending, CopiesInv
<1>3. ASSUME NEW due, NextCopy(due), UNCHANGED storeVars,
             \A c \in due : status[c[1]] \in {"pending", "cancelled"} /\ attempts[c[1]] = c[2]
      PROVE  CopiesInv' /\ \A r \in Runs : OtherRow(r)
  <2>1. scan'.due \subseteq due /\ scan'.at # "revert"
    BY <1>3 DEF NextCopy, Resting
  <2>2. status' = status /\ attempts' = attempts
    BY <1>3 DEF storeVars
  <2> QED
    BY <1>3, <2>1, <2>2 DEF CopiesInv, OtherRow
<1>4. CASE FindDue
  <2>1. \A c \in FindDueRuns : status[c[1]] \in {"pending", "cancelled"} /\ attempts[c[1]] = c[2]
    BY DEF FindDueRuns, FindDueJobRuns
  <2> QED
    BY <1>3, <1>4, <2>1 DEF FindDue
<1>5. CASE EnqueueDue
  BY ZenonT(30), <1>3, <1>5 DEF EnqueueDue, CopiesInv
<1>6. CASE MarkQueued
  <2>1. PICK c \in scan.due :
          /\ UpdateRunStatus(c[1], "queued", c[2])
          /\ scan' = [at |-> "enqueue", due |-> scan.due \ {c}, hand |-> {c}]
    BY ZenonT(30), <1>6 DEF MarkQueued
  <2>2. c[1] \in Runs /\ c = <<c[1], c[2]>> /\ attempts[c[1]] = c[2] /\ status[c[1]] \in {"pending", "cancelled"}
    BY <1>1, <2>1 DEF CopiesInv
  <2>3. /\ status'[c[1]] = "queued" /\ attempts' = attempts
        /\ \A r \in Runs \ {c[1]} : status'[r] = status[r]
    BY <1>1, <2>1, <2>2 DEF UpdateRunStatus, UpdateJobRunStatus
  <2>4. scan'.due = scan.due \ {c} /\ scan'.at = "enqueue"
    BY <2>1
  <2>5. ASSUME NEW d \in scan.due, d # c
        PROVE  d[1] \in Runs \ {c[1]}
    BY <1>1, <2>2, <2>5 DEF CopiesInv
  <2>6. CopiesInv'
    BY <2>3, <2>4, <2>5 DEF CopiesInv
  <2>7. \A r \in Runs : OtherRow(r)
    BY <2>1, <2>2, <2>3 DEF OtherRow
  <2> QED
    BY <2>6, <2>7
<1> QED
  BY <1>2, <1>4, <1>5, <1>6 DEF WatcherStep

\* Nobody but the worker ends, starts or retries a run.
LEMMA OtherRows ==
  ASSUME TypeOK, Solo, CopiesInv,
         \/ Client \/ FindCancelChildren \/ CancelFails \/ Crash \/ Tick
         \/ (WatcherStep \/ WatcherFailure) /\ UNCHANGED <<workerVars, envVars>>
         \/ UNCHANGED vars
  PROVE  CopiesInv' /\ \A r \in Runs : OtherRow(r)
<1>1. /\ status \in [Runs -> Statuses \cup {"absent"}] /\ attempts \in [Runs -> Nat]
      /\ scan.due \subseteq Runs \X Nat
  BY DEF TypeOK, RunStoreTypeOK, WatcherTypeOK, Copies
<1>2. CASE WatcherStep \/ WatcherFailure
  BY <1>2, WatcherRows
<1>3. ASSUME UNCHANGED <<status, attempts>>, scan' \in {scan, Resting}
      PROVE  CopiesInv' /\ \A r \in Runs : OtherRow(r)
  BY <1>3 DEF CopiesInv, OtherRow, Resting
<1>4. CASE FindCancelChildren \/ CancelFails \/ Crash \/ Tick \/ UNCHANGED vars
  <2>1. UNCHANGED <<status, attempts>> /\ scan' \in {scan, Resting}
    BY ZenonT(30), <1>4 DEF FindCancelChildren, CancelFails, Crash, Tick, storeVars, watcherVars, vars
  <2> QED
    BY <1>3, <2>1
<1>5. CASE Client
  <2>1. PICK j \in Jobs : Create(j) \/ Cancel(j) \/ CancelChild(j)
    BY <1>5 DEF Client
  <2>2. scan' = scan
    BY <2>1 DEF Create, Cancel, CancelChild, watcherVars
  <2>3. ASSUME NEW r \in Runs
        PROVE  OtherRow(r) /\ (status[r] \in {"pending", "cancelled"} => status'[r] \in {"pending", "cancelled"})
    <3>1. CASE Create(j)
      BY <1>1, <3>1 DEF Create, CreateJobWithRun, SaveRun, InsertJobRun, OtherRow
    <3>2. CASE Cancel(j) \/ CancelChild(j)
      BY <1>1, <3>2 DEF Cancel, CancelChild, CancelPendingRunsByJob, CancelPendingJobRuns, OtherRow
    <3> QED
      BY <2>1, <3>1, <3>2
  <2>4. \A c \in scan.due : c[1] \in Runs
    BY <1>1
  <2>5. CopiesInv'
    BY SMTT(30), <2>2, <2>3, <2>4 DEF CopiesInv, OtherRow
  <2> QED
    BY <2>3, <2>5
<1> QED
  BY <1>2, <1>4, <1>5

\* The worker's steps leave the copies good: it changes no row that is
\* pending or cancelled.
LEMMA WorkerCopies ==
  ASSUME TypeOK, HoldInv, NEW w \in Workers, WorkerMove(w), UNCHANGED watcherVars
  PROVE  CopiesInv'
<1>1. ASSUME NEW c \in scan.due
      PROVE  status'[c[1]] \in {"pending", "cancelled"} /\ attempts'[c[1]] = c[2]
  <2>1. c[1] \in Runs
    BY DEF TypeOK, WatcherTypeOK, Copies
  <2>2. WorkerRow(w, c[1])
    BY <2>1, WorkerRows
  <2> QED
    BY ZenonT(30), <2>2 DEF WorkerRow, HoldInv, CopiesInv, MarkRunningFrom
<1> QED
  BY ZenonT(30), <1>1 DEF CopiesInv, HoldInv, watcherVars

\* Where a worker's step leads, by where it holds a row or has a copy.
LEMMA WorkerPlaces ==
  ASSUME TypeOK, HoldInv, NEW w \in Workers, WorkerMove(w)
  PROVE  \/ worker'[w].pc \notin Holding \cup {"claim", "lock"}
         \/ /\ inbox'[w] = inbox[w] /\ CurrentRun(w) \in Runs
            /\ UNCHANGED <<status, attempts, calls>>
            /\ \/ /\ worker'[w].attempts = attempts[CurrentRun(w)]
                  /\ worker'[w].pc \in {"claim", "persistFailure"}
                  /\ worker'[w].pc = "persistFailure" => status[CurrentRun(w)] = "running"
               \/ worker'[w].attempts = worker[w].attempts /\ worker'[w].pc = "lock" /\ pc(w) = "claim"
               \/ /\ worker'[w].attempts = worker[w].attempts /\ pc(w) \in Holding
                  /\ worker'[w].pc \in {"lookup", "invoke"} => pc(w) = "begin"
                  /\ worker'[w].pc \in Holding \ {"begin"}
         \/ Claims(w) /\ CurrentRun(w) \in Runs
         \/ Invokes(w) /\ CurrentRun(w) \in Runs
<1> DEFINE r == CurrentRun(w)
           p == worker'[w].pc
<1>1. pc(w) \in InProcess => r \in Runs
  BY CurrentType
<1>2. {"find", "claim", "lock", "invoke"} \cup Executing \subseteq InProcess
  BY DEF InProcess, Executing, Returning
<1>3. ASSUME p \in {"find", "read", "reclaim", "ack", "spawnFind", "dlqEvent", "requeue",
                    "requeueEvent", "deadLetter"} \cup Spawning
      PROVE  p \notin Holding \cup {"claim", "lock"}
  BY <1>3 DEF Holding, Executing, Spawning
<1>4. CASE Polls(w) \/ Returns(w) \/ GivesIn(w) \/ Proceeds(w) \/ Buries(w) \/ Retries(w)
           \/ Ends(w, "success") \/ Ends(w, "failed")
  <2>1. p \in {"find", "read", "reclaim", "ack", "spawnFind", "dlqEvent", "requeue",
                    "requeueEvent", "deadLetter"} \cup Spawning
    BY ZenonT(30), <1>4 DEF Polls, Returns, GivesIn, Restarts, Proceeds, Buries, Retries, Ends, Moves
  <2> QED
    BY SMTT(30), <1>3, <2>1
<1>5. CASE LooksUp(w)
  <2>1. p = Dispatch(status[r], worker[w].reclaimed)
    BY <1>5 DEF LooksUp
  <2>2. p \in {"claim", "persistFailure", "ack"} /\ (p = "persistFailure" => status[r] = "running")
    BY <2>1 DEF Dispatch
  <2>3. p = "ack" => p \notin Holding \cup {"claim", "lock"}
    BY <1>3
  <2>4. r \in Runs
    BY SMTT(30), <1>1, <1>2, <1>5 DEF LooksUp
  <2> QED
    BY ZenonT(30), <1>5, <2>2, <2>3, <2>4 DEF LooksUp
<1>6. CASE Counts(w)
  BY ZenonT(30), <1>1, <1>2, <1>6 DEF Counts, Moves
<1>7. CASE Claims(w) \/ Invokes(w)
  BY ZenonT(30), <1>1, <1>2, <1>7 DEF Claims, Invokes
<1>8. CASE Executes(w)
  <2>1. p \in {"lookup", "invoke", "complete", "persistSuccess", "persistFailure"}
        /\ (p \in {"lookup", "invoke"} => pc(w) = "begin") /\ pc(w) \in Executing
        /\ worker'[w].attempts = worker[w].attempts /\ inbox'[w] = inbox[w]
        /\ UNCHANGED <<status, attempts, calls>>
    BY ZenonT(30), <1>8 DEF Executes, Moves
  <2>2. p \in Holding \ {"begin"} /\ pc(w) \in Holding
    BY <2>1 DEF Holding, Executing
  <2> QED
    BY SMTT(30), <1>1, <1>2, <2>1, <2>2
<1> QED
  BY Zenon, <1>4, <1>5, <1>6, <1>7, <1>8 DEF WorkerMove

\* The worker keeps HoldInv and BudgetInv.
LEMMA WorkerKeeps ==
  ASSUME TypeOK, Solo, HoldInv, BudgetInv, NEW w \in Workers, WorkerMove(w), UNCHANGED watcherVars
  PROVE  HoldInv' /\ BudgetInv'
<1> DEFINE x == CurrentRun(w)
           p == worker'[w].pc
<1>1. /\ attempts \in [Runs -> Nat] /\ calls \in [Runs -> Nat] /\ MaxAttempts \in Nat
      /\ \A v \in Workers : v = w
  <2>1. MaxAttempts \in Nat /\ attempts \in [Runs -> Nat]
    BY DomainAssumption DEF TypeOK, RunStoreTypeOK
  <2>2. calls \in [Runs -> 0 .. MaxAttempts + 1]
    BY DEF TypeOK, WorkerTypeOK
  <2>3. \A v \in Workers : v = w
    BY SoloWorker
  <2> QED
    BY <2>1, <2>2, <2>3
<1>2. inbox'[w] = inbox[w] => CurrentRun(w)' = x
  BY Zenon DEF CurrentRun, Current
<1>3. /\ pc(w) \in Holding => status[x] = "running"
      /\ pc(w) \in Holding \cup {"claim", "lock"} => worker[w].attempts = attempts[x]
      /\ pc(w) \in {"begin", "lookup", "invoke"} => calls[x] <= attempts[x]
  BY ZenonT(30) DEF HoldInv, BudgetInv
<1>4. \A r \in Runs : WorkerRow(w, r)
  BY WorkerRows
<1>5. "begin" \in Holding /\ "handler" \in Holding /\ "invoke" \in Holding
  BY DEF Holding, Executing
<1>6. {"begin", "lookup", "invoke"} \subseteq Holding
  BY DEF Holding, Executing
<1>7. ASSUME Claims(w), x \in Runs
      PROVE  /\ inbox'[w] = inbox[w] /\ p = "begin" /\ worker'[w].attempts = attempts[x]
             /\ status'[x] = "running" /\ attempts' = attempts /\ calls' = calls /\ calls[x] <= attempts[x]
  <2>1. /\ pc(w) = "lock" /\ inbox'[w] = inbox[w] /\ p = "begin" /\ worker'[w].attempts = worker[w].attempts
        /\ status[x] \in MarkRunningFrom /\ status' = [status EXCEPT ![x] = "running"]
        /\ attempts' = attempts /\ calls' = calls
    BY ZenonT(30), <1>7 DEF Claims, ClaimRow, Moves
  <2>2. status'[x] = "running"
    BY <1>7, <2>1 DEF TypeOK, RunStoreTypeOK
  <2>3. status[x] \notin Outcomes \cup {"running"}
    BY SMTT(30), <2>1 DEF MarkRunningFrom, Outcomes
  <2> QED
    BY ZenonT(30), <1>3, <1>7, <2>1, <2>2, <2>3 DEF BudgetInv
<1>8. ASSUME Invokes(w), x \in Runs
      PROVE  /\ inbox'[w] = inbox[w] /\ p = "handler" /\ worker'[w].attempts = attempts[x]
             /\ status' = status /\ attempts' = attempts /\ status[x] = "running" /\ calls[x] <= attempts[x]
             /\ calls'[x] \in {calls[x], calls[x] + 1} /\ \A r \in Runs \ {x} : calls'[r] = calls[r]
  BY ZenonT(30), <1>1, <1>3, <1>5, <1>8 DEF Invokes, Moves
<1>9. /\ p \in Holding => status'[CurrentRun(w)'] = "running"
      /\ p \in Holding \cup {"claim", "lock"} => worker'[w].attempts = attempts'[CurrentRun(w)']
      /\ p \in {"begin", "lookup", "invoke"} => calls'[CurrentRun(w)'] <= attempts'[CurrentRun(w)']
  <2>1. CASE p \notin Holding \cup {"claim", "lock"}
    BY <1>6, <2>1
  <2>2. CASE Claims(w) /\ x \in Runs
    BY <1>2, <1>7, <2>2
  <2>3. CASE Invokes(w) /\ x \in Runs
    BY <1>2, <1>8, <2>3
  <2>4. "claim" \notin Holding /\ "lock" \notin Holding
    BY DEF Holding, Executing
  <2>5. ASSUME inbox'[w] = inbox[w], x \in Runs, UNCHANGED <<status, attempts, calls>>,
               worker'[w].attempts = attempts[x], p \in {"claim", "persistFailure"},
               p = "persistFailure" => status[x] = "running"
        PROVE  <1>9!1 /\ <1>9!2 /\ <1>9!3
    BY ZenonT(30), <1>2, <2>4, <2>5
  <2>6. ASSUME inbox'[w] = inbox[w], x \in Runs, UNCHANGED <<status, attempts, calls>>,
               worker'[w].attempts = worker[w].attempts, p = "lock", pc(w) = "claim"
        PROVE  <1>9!1 /\ <1>9!2 /\ <1>9!3
    BY <1>2, <1>3, <2>4, <2>6
  <2>7. ASSUME inbox'[w] = inbox[w], x \in Runs, UNCHANGED <<status, attempts, calls>>,
               worker'[w].attempts = worker[w].attempts, pc(w) \in Holding,
               p \in {"lookup", "invoke"} => pc(w) = "begin", p \in Holding \ {"begin"}
        PROVE  <1>9!1 /\ <1>9!2 /\ <1>9!3
    BY SMTT(30), <1>2, <1>3, <2>7
  <2> QED
    BY Zenon, <2>1, <2>2, <2>3, <2>5, <2>6, <2>7, WorkerPlaces
<1>10. HoldInv'
  <2>1. \A v \in Workers :
          /\ worker'[v].pc \in Holding => status'[CurrentRun(v)'] = "running"
          /\ worker'[v].pc \in Holding \cup {"claim", "lock"} => worker'[v].attempts = attempts'[CurrentRun(v)']
    BY ZenonT(30), <1>1, <1>9
  <2> QED
    BY ZenonT(30), <2>1, WorkerCopies DEF HoldInv, pc, CurrentRun
<1>11. ASSUME NEW r \in Runs
       PROVE  /\ status'[r] \notin Outcomes => attempts'[r] < MaxAttempts
              /\ status'[r] \notin Outcomes \cup {"running"} => calls'[r] <= attempts'[r]
              /\ status'[r] = "running" => calls'[r] <= attempts'[r] + 1
              /\ calls'[r] <= MaxAttempts
  <2>1. /\ status[r] \notin Outcomes => attempts[r] < MaxAttempts
        /\ status[r] \notin Outcomes \cup {"running"} => calls[r] <= attempts[r]
        /\ status[r] = "running" => calls[r] <= attempts[r] + 1
        /\ calls[r] <= MaxAttempts
        /\ attempts[r] \in Nat /\ calls[r] \in Nat /\ MaxAttempts \in Nat
    BY <1>1 DEF BudgetInv
  <2>2. "running" \notin Outcomes /\ "absent" \notin Outcomes /\ "queued" \notin Outcomes /\ "retry" \notin Outcomes
        /\ \A s \in MarkRunningFrom : s \notin Outcomes \cup {"running"}
    BY DEF Outcomes, MarkRunningFrom
  <2>3. CASE Invokes(w)
    <3>1. x \in Runs
      <4>1. "invoke" \in InProcess
        BY DEF InProcess, Executing
      <4> QED
        BY <2>3, <4>1, CurrentType DEF Invokes
    <3>2. /\ status' = status /\ attempts' = attempts
          /\ r # x => calls'[r] = calls[r]
          /\ r = x => status[r] = "running" /\ calls[r] <= attempts[r] /\ calls'[r] \in {calls[r], calls[r] + 1}
      BY ZenonT(30), <1>8, <2>3, <3>1
    <3> QED
      BY <2>1, <2>2, <3>2
  <2>4. CASE calls' = calls
    <3>1. WorkerRow(w, r)
      BY <1>4
    <3>2. calls'[r] = calls[r]
      BY <2>4
    <3>3. CASE status'[r] = status[r] /\ attempts'[r] = attempts[r]
      BY <2>1, <3>2, <3>3
    <3>4. CASE status[r] \in MarkRunningFrom /\ status'[r] = "running" /\ attempts'[r] = attempts[r]
      BY <2>1, <2>2, <3>2, <3>4
    <3>5. CASE status[r] = "running" /\ status'[r] \in Outcomes /\ attempts'[r] = attempts[r]
      BY <2>1, <2>2, <3>2, <3>5
    <3>6. CASE status[r] = "running" /\ status'[r] = "retry" /\ attempts'[r] = attempts[r] + 1
               /\ attempts[r] + 1 < MaxAttempts
      BY <2>1, <2>2, <3>2, <3>6
    <3>7. CASE status[r] = "absent" /\ status'[r] = "queued" /\ attempts'[r] = attempts[r]
      BY <2>1, <2>2, <3>2, <3>7
    <3> QED
      BY Zenon, <3>1, <3>3, <3>4, <3>5, <3>6, <3>7 DEF WorkerRow
  <2>5. Invokes(w) \/ calls' = calls
    BY ZenonT(30) DEF WorkerMove, Polls, Returns, GivesIn, Restarts, LooksUp, Counts, Claims, Executes,
                 Ends, Retries, Proceeds, Buries
  <2> QED
    BY <2>3, <2>4, <2>5
<1>12. \A v \in Workers :
         worker'[v].pc \in {"begin", "lookup", "invoke"} => calls'[CurrentRun(v)'] <= attempts'[CurrentRun(v)']
  BY ZenonT(30), <1>1, <1>9
<1>13. BudgetInv'
  BY <1>11, <1>12 DEF BudgetInv, pc, CurrentRun
<1> QED
  BY SMTT(30), <1>10, <1>13

\* Everybody else keeps HoldInv and BudgetInv: a row a worker holds is running,
\* and nobody but the worker changes a running row.
LEMMA OtherKeeps ==
  ASSUME TypeOK, Solo, HoldInv, BudgetInv,
         \/ Client \/ FindCancelChildren \/ CancelFails \/ Crash \/ Tick
         \/ (WatcherStep \/ WatcherFailure) /\ UNCHANGED <<workerVars, envVars>>
         \/ UNCHANGED vars
  PROVE  HoldInv' /\ BudgetInv'
<1>1. CopiesInv' /\ \A r \in Runs : OtherRow(r)
  BY OtherRows DEF HoldInv
<1>2. calls' = calls /\ (Crash \/ Still)
  BY OtherMoves
<1>3. ASSUME NEW v \in Workers
      PROVE  /\ worker'[v].pc \in Holding => status'[CurrentRun(v)'] = "running"
             /\ worker'[v].pc \in Holding \cup {"claim", "lock"} => worker'[v].attempts = attempts'[CurrentRun(v)']
             /\ worker'[v].pc \in {"begin", "lookup", "invoke"} =>
                  calls'[CurrentRun(v)'] <= attempts'[CurrentRun(v)']
  <2>1. CASE Crash
    <3>1. worker'[v].pc = "reclaim"
      BY ZenonT(30), <2>1 DEF Crash, Loop
    <3>2. "reclaim" \notin Holding \cup {"claim", "lock"}
      BY DEF Holding, Executing
    <3> QED
      BY SMTT(30), <3>1, <3>2
  <2>2. CASE Still
    <3> DEFINE x == CurrentRun(v)
    <3>1. CurrentRun(v)' = x /\ worker'[v].pc = pc(v) /\ worker'[v].attempts = worker[v].attempts
      BY <2>2 DEF Still, CurrentRun, Current, pc
    <3>2. pc(v) \in Holding \cup {"claim", "lock"} => x \in Runs
      <4>1. pc(v) \in Holding \cup {"claim", "lock"} => pc(v) \in InProcess
        BY DEF Holding, InProcess, Returning
      <4> QED
        BY <4>1, CurrentType
    <3>3. x \in Runs => attempts'[x] = attempts[x] /\ (status[x] = "running" => status'[x] = "running")
      BY <1>1 DEF OtherRow
    <3>4. pc(v) \in {"begin", "lookup", "invoke"} => pc(v) \in Holding
      BY DEF Holding, Executing
    <3>5. /\ pc(v) \in Holding => status[x] = "running"
          /\ pc(v) \in Holding \cup {"claim", "lock"} => worker[v].attempts = attempts[x]
          /\ pc(v) \in {"begin", "lookup", "invoke"} => calls[x] <= attempts[x]
      BY DEF HoldInv, BudgetInv
    <3> HIDE DEF x
    <3> QED
      BY ZenonT(30), <1>2, <3>1, <3>2, <3>3, <3>4, <3>5
  <2> QED
    BY <1>2, <2>1, <2>2
<1>4. HoldInv'
  BY <1>1, <1>3 DEF HoldInv, pc, CurrentRun
<1>5. ASSUME NEW r \in Runs
      PROVE  /\ status'[r] \notin Outcomes => attempts'[r] < MaxAttempts
             /\ status'[r] \notin Outcomes \cup {"running"} => calls'[r] <= attempts'[r]
             /\ status'[r] = "running" => calls'[r] <= attempts'[r] + 1
             /\ calls'[r] <= MaxAttempts
  BY SMTT(30), <1>1, <1>2 DEF OtherRow, BudgetInv, Outcomes
<1>6. BudgetInv'
  BY ZenonT(30), <1>3, <1>5 DEF BudgetInv, pc, CurrentRun
<1> QED
  BY <1>4, <1>6

\* With one worker and a watcher whose calls succeed, the worker's copy and
\* the row agree and no row is past its budget.
LEMMA SoloInvariant ==
  ASSUME Solo
  PROVE  Spec => [](TypeOK /\ HoldInv /\ BudgetInv)
<1>1. Init => HoldInv /\ BudgetInv
  <2> SUFFICES ASSUME Init PROVE HoldInv /\ BudgetInv
    OBVIOUS
  <2>1. \A w \in Workers : pc(w) = "reclaim"
    BY DEF Init, WorkerInit, Loop, pc
  <2>2. "reclaim" \notin Holding \cup {"claim", "lock"} /\ "absent" \notin Outcomes
    BY DEF Holding, Executing, Outcomes
  <2>3. scan = Resting
    BY DEF Init, WatcherInit
  <2>4. HoldInv
    BY ZenonT(30), <2>1, <2>2, <2>3 DEF HoldInv, CopiesInv, Resting
  <2>5. \A r \in Runs : status[r] = "absent" /\ attempts[r] = 0 /\ calls[r] = 0
    BY DEF Init, RunStoreInit, WorkerInit
  <2>6. BudgetInv
    BY <2>1, <2>2, <2>5, DomainAssumption DEF BudgetInv
  <2> QED
    BY <2>4, <2>6
<1>2. TypeOK /\ HoldInv /\ BudgetInv /\ [Next]_vars => HoldInv' /\ BudgetInv'
  <2> SUFFICES ASSUME TypeOK, HoldInv, BudgetInv, [Next]_vars PROVE HoldInv' /\ BudgetInv'
    OBVIOUS
  <2>1. ASSUME NEW w \in Workers, WorkerStep(w) \/ WorkerFailure(w), UNCHANGED watcherVars
        PROVE  HoldInv' /\ BudgetInv'
    BY <2>1, WorkerMoves, WorkerKeeps
  <2> QED
    BY Zenon, <2>1, OtherKeeps DEF Next
<1> QED
  BY <1>1, <1>2, TypeCorrect, PTL DEF Spec

\* With one worker and a watcher whose calls succeed, the handler of a run is
\* called at most MaxAttempts times, crashes, timeouts and failed calls
\* included: process counts an execution that was lost when it gets the entry
\* again (RetryBudget).
THEOREM BudgetKept ==
  ASSUME Solo
  PROVE  Spec => []RetryBudget
<1>1. BudgetInv => RetryBudget
  BY DEF BudgetInv, RetryBudget
<1> QED
  BY <1>1, SoloInvariant, PTL

\* What any step does to a row that has an outcome or is cancelled.
LEMMA SettledRow ==
  ASSUME TypeOK, Solo, HoldInv, [Next]_vars, NEW r \in Runs
  PROVE  /\ status[r] \in Outcomes => status'[r] = status[r]
         /\ status[r] = "cancelled" /\ status'[r] # "cancelled" => \E c \in scan.due : c[1] = r
<1>1. ASSUME NEW w \in Workers, WorkerStep(w) \/ WorkerFailure(w)
      PROVE  WorkerRow(w, r)
  BY <1>1, WorkerMoves, WorkerRows
<1>2. (\E w \in Workers : WorkerRow(w, r)) \/ OtherRow(r)
  BY Zenon, <1>1, OtherRows DEF Next, HoldInv
<1> QED
  BY ZenonT(30), <1>2 DEF WorkerRow, OtherRow, Outcomes, MarkRunningFrom

\* With one worker and a watcher whose calls succeed, no step changes a row
\* that is success or failed (OutcomeIsFinal): persistTransition writes
\* without comparing, and what it overwrites is always a running row.
THEOREM OutcomesFinal ==
  ASSUME Solo
  PROVE  Spec => OutcomeIsFinal
<1>1. TypeOK /\ HoldInv /\ [Next]_vars =>
        [\A r \in Runs : status[r] \in Outcomes => status'[r] = status[r]]_vars
  BY SettledRow
<1> QED
  BY <1>1, SoloInvariant, PTL DEF Spec, OutcomeIsFinal

\* With one worker and a watcher whose calls succeed, a cancelled run comes
\* back only through the watcher's copy of it (CancelledLeftAlone).
THEOREM CancelledStays ==
  ASSUME Solo
  PROVE  Spec => CancelledLeftAlone
<1>1. TypeOK /\ HoldInv /\ [Next]_vars =>
        [\A r \in Runs : status[r] = "cancelled" /\ status'[r] # "cancelled"
                           => \E c \in scan.due : c[1] = r]_vars
  BY SettledRow
<1> QED
  BY <1>1, SoloInvariant, PTL DEF Spec, CancelledLeftAlone

=============================================================================
