-------------------------- MODULE RecurringProofs ---------------------------
(***************************************************************************)
(* Proofs about RecurringWatcher, for any jobs, plans, number of runs and  *)
(* lookback: the numbering of a series, its order, that it goes on, and,   *)
(* for zones west of Greenwich, its local time.                            *)
(***************************************************************************)
EXTENDS RecurringWatcher, FiniteSetTheorems, TLAPS

RunStatuses == {"none", "cancelled"} \cup Open \cup Over

\* The runs of a job are a prefix of its numbers.  Whoever is about to insert
\* a run, the scan for the runs in specs and a worker for the job it counted,
\* knows its predecessors; and an unchained run is only followed when over.
SeriesInv ==
  /\ status \in [Runs -> RunStatuses]
  /\ plan \in [Jobs -> Plans \cup {NoPlan}]
  /\ counted \in [Jobs -> Int]
  /\ \A j \in Jobs : \A k, m \in 1 .. MaxSeq :
       m < k /\ status[<<j, k>>] # "none" => status[<<j, m>>] # "none"
  /\ \A j \in Jobs : plan[j] = NoPlan => \A k \in 1 .. MaxSeq : status[<<j, k>>] = "none"
  /\ \A j \in Jobs : counted[j] # -1 =>
       /\ Chained(j)
       /\ counted[j] \in 0 .. MaxSeq - 1
       /\ \A m \in 1 .. counted[j] : status[<<j, m>>] # "none"
  /\ copies \subseteq Runs
  /\ \A r \in copies : status[r] \in {"pending", "cancelled"}
  /\ specs \subseteq FollowableRuns
  /\ \A r \in specs : status[r] \in Over
  /\ \A j \in Jobs : \A k \in 1 .. MaxSeq - 1 :
       ~Chained(j) /\ status[<<j, k + 1>>] # "none" => status[<<j, k>>] \in Over

\* There are no jobs at the start.
LEMMA SeriesStart == RecurringInit => SeriesInv
  BY RecurringAssumption
  DEF RecurringInit, SeriesInv, RunStatuses, Runs, FollowableRuns, Open, Over

\* A step after which the same runs exist, those that were over still are, and
\* copies and specs name what they should.
LEMMA MoveKeepsSeriesInv ==
  ASSUME SeriesInv, UNCHANGED plan,
         status' \in [Runs -> RunStatuses],
         \A r \in Runs : status'[r] = "none" <=> status[r] = "none",
         \A r \in Runs : status[r] \in Over => status'[r] \in Over,
         counted' \in [Jobs -> Int],
         \A j \in Jobs : counted'[j] # -1 =>
           /\ Chained(j)
           /\ counted'[j] \in 0 .. MaxSeq - 1
           /\ \A m \in 1 .. counted'[j] : status[<<j, m>>] # "none",
         copies' \subseteq Runs,
         \A r \in copies' : status'[r] \in {"pending", "cancelled"},
         specs' \subseteq FollowableRuns,
         \A r \in specs' : status'[r] \in Over
  PROVE  SeriesInv'
<1>1. \A j \in Jobs : Chained(j)' <=> Chained(j)
  BY DEF Chained
<1>2. \A j \in Jobs : \A k \in 1 .. MaxSeq : <<j, k>> \in Runs
  BY Zenon DEF Runs
<1>3. \A k \in 1 .. MaxSeq - 1 : k \in 1 .. MaxSeq /\ k + 1 \in 1 .. MaxSeq
  BY RecurringAssumption
<1>4. \A j \in Jobs : \A k, m \in 1 .. MaxSeq :
        m < k /\ status'[<<j, k>>] # "none" => status'[<<j, m>>] # "none"
  BY <1>2 DEF SeriesInv
<1>5. \A j \in Jobs : plan'[j] = NoPlan => \A k \in 1 .. MaxSeq : status'[<<j, k>>] = "none"
  BY ZenonT(30), <1>2 DEF SeriesInv
<1>6. \A j \in Jobs : counted'[j] # -1 =>
        /\ Chained(j)'
        /\ counted'[j] \in 0 .. MaxSeq - 1
        /\ \A m \in 1 .. counted'[j] : status'[<<j, m>>] # "none"
  <2> SUFFICES ASSUME NEW j \in Jobs, counted'[j] # -1
               PROVE  /\ Chained(j)'
                      /\ counted'[j] \in 0 .. MaxSeq - 1
                      /\ \A m \in 1 .. counted'[j] : status'[<<j, m>>] # "none"
    OBVIOUS
  <2>1. \A m \in 1 .. counted'[j] : m \in 1 .. MaxSeq
    BY RecurringAssumption
  <2> QED
    BY <1>1, <1>2, <2>1
<1>7. \A j \in Jobs : \A k \in 1 .. MaxSeq - 1 :
        ~Chained(j)' /\ status'[<<j, k + 1>>] # "none" => status'[<<j, k>>] \in Over
  BY <1>1, <1>2, <1>3 DEF SeriesInv
<1> QED
  BY <1>4, <1>5, <1>6, <1>7 DEF SeriesInv

\* A new run whose predecessors exist; an unchained one is new, or follows a
\* run that is over.
LEMMA InsertKeepsSeriesInv ==
  ASSUME SeriesInv, NEW j \in Jobs, NEW k \in 1 .. MaxSeq, NEW s \in {"pending", "queued"},
         status[<<j, k>>] = "none", status' = [status EXCEPT ![<<j, k>>] = s],
         \A m \in 1 .. k - 1 : status[<<j, m>>] # "none",
         ~Chained(j)' => \A m \in 1 .. MaxSeq : m + 1 = k => status[<<j, m>>] \in Over,
         plan' \in [Jobs -> Plans \cup {NoPlan}], plan'[j] # NoPlan,
         \A i \in Jobs \ {j} : plan'[i] = plan[i],
         plan[j] = NoPlan \/ plan'[j] = plan[j],
         counted' \in [Jobs -> Int],
         \A i \in Jobs : counted'[i] # -1 => counted'[i] = counted[i],
         UNCHANGED copies, specs' \subseteq specs
  PROVE  SeriesInv'
<1>1. \A i \in Jobs : \A m \in 1 .. MaxSeq :
        <<i, m>> \in Runs /\ status'[<<i, m>>] = IF i = j /\ m = k THEN s ELSE status[<<i, m>>]
  BY Zenon DEF Runs, SeriesInv
<1>2. \A m \in 1 .. MaxSeq - 1 : m \in 1 .. MaxSeq /\ m + 1 \in 1 .. MaxSeq
  BY RecurringAssumption
<1>3. status' \in [Runs -> RunStatuses]
  BY Zenon DEF SeriesInv, RunStatuses, Open
<1>4. \A i \in Jobs : (Chained(i)' <=> Chained(i)) \/ (i = j /\ plan[j] = NoPlan)
  BY DEF Chained
<1>5. \A i \in Jobs : \A n, m \in 1 .. MaxSeq :
        m < n /\ status'[<<i, n>>] # "none" => status'[<<i, m>>] # "none"
  <2> SUFFICES ASSUME NEW i \in Jobs, NEW n \in 1 .. MaxSeq, NEW m \in 1 .. MaxSeq,
                      m < n, status'[<<i, n>>] # "none"
               PROVE  status'[<<i, m>>] # "none"
    OBVIOUS
  <2>1. CASE i = j /\ n = k
    <3>1. m \in 1 .. k - 1 /\ m # k
      BY <2>1
    <3> QED
      BY <1>1, <2>1, <3>1
  <2>2. CASE ~(i = j /\ n = k)
    <3>1. status[<<i, m>>] # "none"
      BY <1>1, <2>2 DEF SeriesInv
    <3> QED
      BY <1>1, <3>1
  <2> QED
    BY <2>1, <2>2
<1>6. \A i \in Jobs : plan'[i] = NoPlan => \A m \in 1 .. MaxSeq : status'[<<i, m>>] = "none"
  <2> SUFFICES ASSUME NEW i \in Jobs, plan'[i] = NoPlan, NEW m \in 1 .. MaxSeq
               PROVE  status'[<<i, m>>] = "none"
    OBVIOUS
  <2>1. i # j /\ plan[i] = NoPlan
    OBVIOUS
  <2>2. status[<<i, m>>] = "none"
    BY <2>1 DEF SeriesInv
  <2> QED
    BY <1>1, <2>1, <2>2
<1>7. \A i \in Jobs : counted'[i] # -1 =>
        /\ Chained(i)'
        /\ counted'[i] \in 0 .. MaxSeq - 1
        /\ \A m \in 1 .. counted'[i] : status'[<<i, m>>] # "none"
  <2> SUFFICES ASSUME NEW i \in Jobs, counted'[i] # -1
               PROVE  /\ Chained(i)'
                      /\ counted'[i] \in 0 .. MaxSeq - 1
                      /\ \A m \in 1 .. counted'[i] : status'[<<i, m>>] # "none"
    OBVIOUS
  <2>1. /\ counted'[i] = counted[i] /\ Chained(i) /\ counted[i] \in 0 .. MaxSeq - 1
        /\ \A m \in 1 .. counted[i] : status[<<i, m>>] # "none"
    BY DEF SeriesInv
  <2>2. Chained(i)'
    BY <1>4, <2>1 DEF Chained
  <2>3. \A m \in 1 .. counted[i] : m \in 1 .. MaxSeq
    BY <2>1, RecurringAssumption
  <2>4. \A m \in 1 .. counted[i] : status'[<<i, m>>] # "none"
    BY <1>1, <2>1, <2>3
  <2> QED
    BY <2>1, <2>2, <2>4
<1>8. \A r \in Runs : status[r] # "none" => status'[r] = status[r]
  BY Zenon DEF SeriesInv
<1>9. /\ copies' \subseteq Runs /\ \A r \in copies' : status'[r] \in {"pending", "cancelled"}
      /\ specs' \subseteq FollowableRuns /\ \A r \in specs' : status'[r] \in Over
  <2>1. \A r \in FollowableRuns : r \in Runs
    BY RecurringAssumption DEF FollowableRuns, Runs
  <2>2. \A r \in specs' : status[r] # "none"
    BY DEF SeriesInv, Over
  <2> QED
    BY <1>8, <2>1, <2>2 DEF SeriesInv
<1>10. \A i \in Jobs : \A m \in 1 .. MaxSeq - 1 :
         ~Chained(i)' /\ status'[<<i, m + 1>>] # "none" => status'[<<i, m>>] \in Over
  <2> SUFFICES ASSUME NEW i \in Jobs, NEW m \in 1 .. MaxSeq - 1,
                      ~Chained(i)', status'[<<i, m + 1>>] # "none"
               PROVE  status'[<<i, m>>] \in Over
    OBVIOUS
  <2>1. CASE i = j /\ m + 1 = k
    <3>1. status[<<i, m>>] \in Over /\ m # k
      BY <1>2, <2>1
    <3> QED
      BY <1>1, <1>2, <2>1, <3>1
  <2>2. CASE ~(i = j /\ m + 1 = k)
    <3>1. status[<<i, m + 1>>] # "none" /\ ~Chained(i)
      BY <1>1, <1>2, <1>4, <2>2 DEF SeriesInv, Chained
    <3>2. status[<<i, m>>] \in Over
      BY <3>1 DEF SeriesInv
    <3> QED
      BY <1>1, <1>2, <3>2 DEF Over
  <2> QED
    BY <2>1, <2>2
<1> QED
  BY <1>3, <1>5, <1>6, <1>7, <1>9, <1>10 DEF SeriesInv

-----------------------------------------------------------------------------

\* How many numbers there are up to n.
LEMMA FirstNumbers ==
  ASSUME NEW n \in Nat
  PROVE  IsFiniteSet(1 .. n) /\ Cardinality(1 .. n) = n
<1>1. 1 \in Int /\ n \in Int
  OBVIOUS
<1>2. /\ IsFiniteSet(1 .. n)
      /\ Cardinality(1 .. n) = IF 1 > n THEN 0 ELSE n - 1 + 1
  BY <1>1, FS_Interval
<1>3. (IF 1 > n THEN 0 ELSE n - 1 + 1) = n
  OBVIOUS
<1> QED
  BY <1>2, <1>3

\* The runs counted are the first ones: as many numbers as there are runs.
LEMMA CountIsLast ==
  ASSUME SeriesInv, NEW j \in Jobs
  PROVE  /\ CountRuns(j) \in 0 .. MaxSeq
         /\ \A m \in 1 .. CountRuns(j) : status[<<j, m>>] # "none"
<1> DEFINE S == {k \in 1 .. MaxSeq : status[<<j, k>>] # "none"}
           n == Cardinality(S)
<1>1. IsFiniteSet(S) /\ n \in Nat /\ n <= MaxSeq
  <2>1. IsFiniteSet(1 .. MaxSeq) /\ Cardinality(1 .. MaxSeq) = MaxSeq
    BY FirstNumbers, RecurringAssumption
  <2>2. S \in SUBSET (1 .. MaxSeq)
    OBVIOUS
  <2> QED
    BY Zenon, <2>1, <2>2, FS_Subset, FS_CardinalityType
<1>2. ASSUME NEW m \in 1 .. n, m \notin S PROVE FALSE
  <2>1. S \in SUBSET (1 .. m - 1)
    <3> SUFFICES ASSUME NEW k \in S PROVE k \in 1 .. m - 1
      OBVIOUS
    <3>1. m \in 1 .. MaxSeq /\ status[<<j, m>>] = "none"
      BY <1>1, <1>2, RecurringAssumption
    <3>2. ~(m < k) /\ m # k
      BY <3>1 DEF SeriesInv
    <3> QED
      BY <3>1, <3>2
  <2>2. IsFiniteSet(1 .. m - 1) /\ Cardinality(1 .. m - 1) = m - 1
    <3>1. m - 1 \in Nat
      BY <1>1
    <3> QED
      BY <3>1, FirstNumbers
  <2>3. n <= m - 1
    BY Zenon, <2>1, <2>2, FS_Subset
  <2> HIDE DEF S, n
  <2> QED
    BY <1>1, <2>3
<1> QED
  BY <1>1, <1>2 DEF CountRuns

\* Create, Cancel, and the parent that triggers a chained job.
LEMMA JobStepKeepsSeriesInv ==
  ASSUME SeriesInv, NEW j \in Jobs, JobStep(j)
  PROVE  SeriesInv'
<1>0. 1 \in 1 .. MaxSeq /\ \A m \in 1 .. MaxSeq : m + 1 # 1
  BY RecurringAssumption
<1>1. ASSUME NEW p \in Plans, Create(j, p) PROVE SeriesInv'
  <2>1. /\ plan' \in [Jobs -> Plans \cup {NoPlan}] /\ plan'[j] # NoPlan
        /\ \A i \in Jobs \ {j} : plan'[i] = plan[i]
        /\ plan[j] = NoPlan
    BY <1>1, RecurringAssumption DEF Create, InsertJob, SeriesInv
  <2>2. /\ status[<<j, 1>>] = "none" /\ status' = [status EXCEPT ![<<j, 1>>] = "pending"]
        /\ UNCHANGED <<counted, copies, specs>>
    BY <1>1 DEF Create, InsertJobRun, SetStatus
  <2>3. counted' \in [Jobs -> Int]
    BY <2>2 DEF SeriesInv
  <2>4. \A m \in 1 .. 1 - 1 : status[<<j, m>>] # "none"
    OBVIOUS
  <2> QED
    BY Zenon, <1>0, <2>1, <2>2, <2>3, <2>4, InsertKeepsSeriesInv
<1>2. CASE Cancel(j)
  <2>1. \A r \in Runs : status'[r] = IF r[1] = j /\ status[r] \in {"pending", "queued"}
                                    THEN "cancelled" ELSE status[r]
    BY <1>2 DEF Cancel
  <2>2. status' \in [Runs -> RunStatuses]
    BY <1>2 DEF Cancel, SeriesInv, RunStatuses
  <2>3. FollowableRuns \subseteq Runs
    BY SMTT(30), RecurringAssumption DEF FollowableRuns, Runs
  <2> QED
    BY <1>2, <2>1, <2>2, <2>3, MoveKeepsSeriesInv DEF Cancel, SeriesInv, Over
<1>3. CASE CountForChild(j)
  <2>1. /\ Chained(j) /\ CountRuns(j) < MaxSeq
        /\ counted' = [counted EXCEPT ![j] = CountRuns(j)]
        /\ UNCHANGED <<plan, status, copies, specs>>
    BY <1>3 DEF CountForChild
  <2>2. CountRuns(j) \in 0 .. MaxSeq - 1
    BY <2>1, CountIsLast, RecurringAssumption
  <2>3. counted' \in [Jobs -> Int]
    BY <2>1, <2>2 DEF SeriesInv
  <2>4. \A i \in Jobs : counted'[i] # -1 =>
          /\ Chained(i)
          /\ counted'[i] \in 0 .. MaxSeq - 1
          /\ \A m \in 1 .. counted'[i] : status[<<i, m>>] # "none"
    BY SMTT(30), <2>1, <2>2, CountIsLast DEF SeriesInv
  <2> QED
    BY <2>1, <2>3, <2>4, MoveKeepsSeriesInv DEF SeriesInv
<1>4. CASE InsertChild(j)
  <2>1. /\ counted[j] # -1 /\ counted' = [counted EXCEPT ![j] = -1]
        /\ UNCHANGED <<plan, copies, specs>>
    BY <1>4 DEF InsertChild
  <2>2. /\ Chained(j) /\ counted[j] + 1 \in 1 .. MaxSeq
        /\ \A m \in 1 .. (counted[j] + 1) - 1 : status[<<j, m>>] # "none"
    BY <2>1, RecurringAssumption DEF SeriesInv
  <2>3. /\ counted' \in [Jobs -> Int]
        /\ \A i \in Jobs : counted'[i] # -1 => counted'[i] = counted[i]
    BY <2>1 DEF SeriesInv
  <2>4. CASE InsertJobRun(<<j, counted[j] + 1>>, "queued", now)
    <3>1. /\ status[<<j, counted[j] + 1>>] = "none"
          /\ status' = [status EXCEPT ![<<j, counted[j] + 1>>] = "queued"]
      BY <2>4 DEF InsertJobRun, SetStatus
    <3>2. Chained(j)' /\ plan'[j] # NoPlan /\ plan' \in [Jobs -> Plans \cup {NoPlan}]
      BY <2>1, <2>2 DEF Chained, SeriesInv
    <3> QED
      BY Zenon, <2>1, <2>2, <2>3, <3>1, <3>2, InsertKeepsSeriesInv
  <2>5. CASE UNCHANGED <<status, due>>
    BY <2>1, <2>3, <2>5, MoveKeepsSeriesInv DEF SeriesInv
  <2> QED
    BY <1>4, <2>4, <2>5 DEF InsertChild
<1> QED
  BY <1>1, <1>2, <1>3, <1>4 DEF JobStep

\* What the pipeline does to one run.
LEMMA RunStepKeepsSeriesInv ==
  ASSUME SeriesInv, NEW r \in Runs, RunStep(r)
  PROVE  SeriesInv'
<1>0. FollowableRuns \subseteq Runs
  BY RecurringAssumption DEF FollowableRuns, Runs
<1>1. CASE FindDueRun(r)
  BY SMTT(30), <1>1, MoveKeepsSeriesInv DEF FindDueRun, SeriesInv
<1>2. ASSUME NEW s \in {"queued", "running", "success", "failed"}, SetStatus(r, s),
             r \notin copies', copies' \subseteq copies,
             status[r] \in Open \cup {"cancelled"},
             UNCHANGED <<plan, counted, specs>>
      PROVE  SeriesInv'
  <2>1. \A q \in Runs : status'[q] = IF q = r THEN s ELSE status[q]
    BY <1>2 DEF SetStatus, SeriesInv
  <2>2. status' \in [Runs -> RunStatuses]
    BY <1>2 DEF SetStatus, SeriesInv, RunStatuses, Open, Over
  <2>3. status[r] # "none" /\ status[r] \notin Over
    BY <1>2 DEF Open, Over
  <2>4. \A q \in specs' : status'[q] \in Over
    BY <1>0, <1>2, <2>1, <2>3 DEF SeriesInv
  <2>5. \A q \in copies' : q \in Runs /\ status'[q] \in {"pending", "cancelled"}
    BY <1>2, <2>1 DEF SeriesInv
  <2>6. \A q \in Runs : status'[q] = "none" <=> status[q] = "none"
    BY <2>1, <2>3
  <2>7. \A q \in Runs : status[q] \in Over => status'[q] \in Over
    BY SMTT(30), <2>1, <2>3
  <2> QED
    BY <1>2, <2>2, <2>4, <2>5, <2>6, <2>7, MoveKeepsSeriesInv DEF SeriesInv
<1>3. CASE MarkQueued(r)
  BY <1>2, <1>3 DEF MarkQueued, SeriesInv, Open
<1>4. CASE StartRun(r)
  <2>1. r \notin copies
    BY <1>4 DEF StartRun, SeriesInv
  <2> QED
    BY <1>2, <1>4, <2>1 DEF StartRun, Open
<1>5. CASE RetryRun(r)
  <2>1. r \notin copies
    BY <1>5 DEF RetryRun, SeriesInv
  <2> QED
    BY <1>2, <1>5, <2>1 DEF RetryRun, Open
<1>6. ASSUME NEW s \in Over, EndRun(r, s) PROVE SeriesInv'
  <2>1. r \notin copies
    BY <1>6 DEF EndRun, SeriesInv
  <2> QED
    BY <1>2, <1>6, <2>1 DEF EndRun, Open, Over
<1> QED
  BY <1>1, <1>3, <1>4, <1>5, <1>6 DEF RunStep

\* The steps of scanOnce.
LEMMA ScanStepKeepsSeriesInv ==
  ASSUME SeriesInv, ScanStep
  PROVE  SeriesInv'
<1>1. CASE ScanFind
  BY SMTT(30), <1>1, MoveKeepsSeriesInv DEF ScanFind, ListTerminalRecurringRuns, SeriesInv
<1>2. ASSUME NEW r \in specs, ScanInsert(r) PROVE SeriesInv'
  <2>1. /\ specs' \subseteq specs
        /\ UNCHANGED <<plan, counted, copies>>
    BY <1>2 DEF ScanInsert
  <2>2. PICK j \in Jobs, k \in 1 .. MaxSeq - 1 : r = <<j, k>>
    BY DEF SeriesInv, FollowableRuns
  <2>3. k \in 1 .. MaxSeq /\ k + 1 \in 1 .. MaxSeq /\ NextOf(r) = <<j, k + 1>>
    BY <2>2, RecurringAssumption DEF NextOf
  <2>4. status[<<j, k>>] \in Over
    BY SMTT(30), <2>2 DEF SeriesInv
  <2>5. CASE status[NextOf(r)] # "none" /\ UNCHANGED <<status, due>>
    BY <2>1, <2>5, MoveKeepsSeriesInv DEF SeriesInv
  <2>6. CASE \E at : InsertJobRun(NextOf(r), "pending", at)
    <3>1. /\ status[<<j, k + 1>>] = "none"
          /\ status' = [status EXCEPT ![<<j, k + 1>>] = "pending"]
      BY <2>3, <2>6 DEF InsertJobRun, SetStatus
    <3>2. \A m \in 1 .. (k + 1) - 1 : status[<<j, m>>] # "none"
      <4> SUFFICES ASSUME NEW m \in 1 .. (k + 1) - 1 PROVE status[<<j, m>>] # "none"
        OBVIOUS
      <4>1. m \in 1 .. MaxSeq /\ (m < k \/ m = k)
        BY <2>3, RecurringAssumption
      <4>2. status[<<j, k>>] # "none"
        BY <2>4 DEF Over
      <4> QED
        BY <2>3, <4>1, <4>2 DEF SeriesInv
    <3>3. \A m \in 1 .. MaxSeq : m + 1 = k + 1 => status[<<j, m>>] \in Over
      BY <2>3, <2>4
    <3>4. plan[j] # NoPlan /\ plan \in [Jobs -> Plans \cup {NoPlan}]
      BY <2>3, <2>4 DEF SeriesInv, Over
    <3>5. /\ counted' \in [Jobs -> Int] /\ counted' = counted
          /\ plan' \in [Jobs -> Plans \cup {NoPlan}] /\ plan' = plan /\ plan'[j] # NoPlan
      BY SMTT(30), <2>1, <3>4 DEF SeriesInv
    <3> QED
      BY Zenon, <2>1, <2>3, <3>1, <3>2, <3>3, <3>5, InsertKeepsSeriesInv
  <2> QED
    BY SMTT(30), <1>2, <2>5, <2>6 DEF ScanInsert, InsertJobRunIfAbsent
<1>3. ASSUME NEW r \in specs, ScanFails(r) PROVE SeriesInv'
  BY <1>3, MoveKeepsSeriesInv DEF ScanFails, SeriesInv
<1> QED
  BY SMTT(30), <1>1, <1>2, <1>3 DEF ScanStep

\* The inductive invariant of RecurringSpec: what the watchers and
\* enqueueChildren insert keeps the runs of a job in one series.
THEOREM SeriesInvariant == RecurringSpec => []SeriesInv
<1>1. SeriesInv /\ [RecurringNext]_recurringVars => SeriesInv'
  <2> SUFFICES ASSUME SeriesInv, [RecurringNext]_recurringVars
               PROVE  SeriesInv'
    BY SMTT(30)
  <2>1. CASE Tick
    BY SMTT(30), <2>1, MoveKeepsSeriesInv DEF Tick, SeriesInv
  <2>2. CASE UNCHANGED recurringVars
    BY <2>2, MoveKeepsSeriesInv DEF recurringVars, SeriesInv
  <2> QED
    BY <2>1, <2>2, JobStepKeepsSeriesInv, RunStepKeepsSeriesInv, ScanStepKeepsSeriesInv
    DEF RecurringNext
<1> QED
  BY <1>1, SeriesStart, PTL DEF RecurringSpec

-----------------------------------------------------------------------------

\* The runs of a job are numbered without gaps (RecurringWatcher.NoGaps).
THEOREM NumbersHaveNoGaps == RecurringSpec => []NoGaps
<1>1. SeriesInv => NoGaps
  <2> SUFFICES ASSUME SeriesInv, NEW r \in FollowableRuns, status[NextOf(r)] # "none"
               PROVE  status[r] # "none"
    BY DEF NoGaps
  <2>1. PICK j \in Jobs, k \in 1 .. MaxSeq - 1 : r = <<j, k>>
    BY DEF FollowableRuns
  <2>2. k \in 1 .. MaxSeq /\ k + 1 \in 1 .. MaxSeq /\ NextOf(r) = <<j, k + 1>>
    BY <2>1, RecurringAssumption DEF NextOf
  <2> QED
    BY <2>1, <2>2 DEF SeriesInv
<1> QED
  BY <1>1, SeriesInvariant, PTL

\* A cancelled run of an unchained job is the last of its series
\* (RecurringWatcher.CancelledEndsSeries).
THEOREM CancelledIsLast == RecurringSpec => []CancelledEndsSeries
<1>1. SeriesInv => CancelledEndsSeries
  <2> SUFFICES ASSUME SeriesInv, NEW r \in FollowableRuns,
                      ~Chained(r[1]), status[r] = "cancelled", status[NextOf(r)] # "none"
               PROVE  FALSE
    BY DEF CancelledEndsSeries
  <2>1. PICK j \in Jobs, k \in 1 .. MaxSeq - 1 : r = <<j, k>>
    BY DEF FollowableRuns
  <2>2. NextOf(r) = <<j, k + 1>> /\ ~Chained(j)
    BY <2>1 DEF NextOf
  <2> QED
    BY <2>1, <2>2 DEF SeriesInv, Over
<1> QED
  BY <1>1, SeriesInvariant, PTL

\* At most one run of an unchained job is open (RecurringWatcher.OneOpenRun).
THEOREM AtMostOneOpen == RecurringSpec => []OneOpenRun
<1>1. ASSUME SeriesInv, NEW j \in Jobs, ~Chained(j),
             NEW k \in 1 .. MaxSeq, NEW m \in 1 .. MaxSeq, k < m,
             status[<<j, k>>] \in Open, status[<<j, m>>] \in Open
      PROVE  FALSE
  <2>1. k \in 1 .. MaxSeq - 1 /\ k + 1 \in 1 .. MaxSeq /\ (k + 1 < m \/ k + 1 = m)
    BY <1>1, RecurringAssumption
  <2>2. status[<<j, k + 1>>] # "none"
    BY <1>1, <2>1 DEF SeriesInv, Open
  <2>3. status[<<j, k>>] \in Over
    BY <1>1, <2>1, <2>2 DEF SeriesInv
  <2> QED
    BY <1>1, <2>3 DEF Open, Over
<1>2. SeriesInv => OneOpenRun
  <2> SUFFICES ASSUME SeriesInv, NEW j \in Jobs, ~Chained(j)
               PROVE  Cardinality({k \in 1 .. MaxSeq : status[<<j, k>>] \in Open}) <= 1
    BY DEF OneOpenRun
  <2> DEFINE S == {k \in 1 .. MaxSeq : status[<<j, k>>] \in Open}
  <2>1. \A k, m \in S : k = m
    <3> SUFFICES ASSUME NEW k \in S, NEW m \in S, k # m PROVE FALSE
      OBVIOUS
    <3>1. k \in 1 .. MaxSeq /\ m \in 1 .. MaxSeq /\ (k < m \/ m < k)
      BY RecurringAssumption
    <3>2. status[<<j, k>>] \in Open /\ status[<<j, m>>] \in Open
      OBVIOUS
    <3> QED
      BY <1>1, <3>1, <3>2
  <2>2. Cardinality(S) <= 1
    <3> HIDE DEF S
    <3>1. CASE S = {}
      <4>1. Cardinality({}) = 0
        BY FS_EmptySet
      <4> QED
        BY <3>1, <4>1
    <3>2. CASE S # {}
      <4>1. PICK k : S = {k}
        BY <2>1, <3>2
      <4>2. Cardinality({k}) = 1
        BY FS_Singleton
      <4> QED
        BY <4>1, <4>2
    <3> QED
      BY <3>1, <3>2
  <2> QED
    BY <2>2
<1> QED
  BY <1>2, SeriesInvariant, PTL

-----------------------------------------------------------------------------

Unfollowed(r) == status[r] \in Over /\ status[NextOf(r)] = "none"

\* The age of an unfollowed run is bounded by the scans missed since: a complete
\* scan finds every one of them.
TimeInv ==
  /\ missed \in 0 .. MaxMissed
  /\ ended \in [Runs -> Nat]
  /\ \A r \in FollowableRuns : Unfollowed(r) =>
       /\ ended[r] <= missed + 1
       /\ scanned /\ r \notin specs => ended[r] = 0

\* The run after one that can be followed.
LEMMA FollowableHasNext ==
  ASSUME NEW r \in FollowableRuns
  PROVE  r \in Runs /\ NextOf(r) \in Runs /\ NextOf(r) # r
<1>1. PICK j \in Jobs, k \in 1 .. MaxSeq - 1 : r = <<j, k>>
  BY DEF FollowableRuns
<1>2. k \in 1 .. MaxSeq /\ k + 1 \in 1 .. MaxSeq /\ k + 1 # k
  BY <1>1, RecurringAssumption
<1> QED
  BY <1>1, <1>2 DEF NextOf, Runs

\* A step that makes no run unfollowed, other than by its ending just then.
LEMMA QuietKeepsTimeInv ==
  ASSUME TimeInv, missed' = missed, ended' \in [Runs -> Nat], scanned' => scanned,
         \A r \in FollowableRuns : Unfollowed(r)' =>
           \/ ended'[r] = 0
           \/ Unfollowed(r) /\ ended'[r] = ended[r] /\ (r \in specs => r \in specs')
  PROVE  TimeInv'
<1>1. missed' \in 0 .. MaxMissed /\ missed' \in Nat
  BY RecurringAssumption DEF TimeInv
<1>2. ASSUME NEW r \in FollowableRuns, Unfollowed(r)'
      PROVE  ended'[r] <= missed' + 1 /\ (scanned' /\ r \notin specs' => ended'[r] = 0)
  <2>1. CASE ended'[r] = 0
    BY <1>1, <2>1
  <2>2. CASE ended'[r] # 0
    <3>1. Unfollowed(r) /\ ended'[r] = ended[r] /\ (r \in specs => r \in specs')
      BY <1>2, <2>2
    <3>2. ended[r] <= missed + 1 /\ (scanned /\ r \notin specs => ended[r] = 0)
      BY <3>1 DEF TimeInv
    <3> QED
      BY <3>1, <3>2
  <2> QED
    BY <2>1, <2>2
<1> QED
  BY <1>1, <1>2 DEF TimeInv

\* A statement that changes one run, which was not over, to a status that is
\* neither over nor none.
LEMMA OneRunKeepsTimeInv ==
  ASSUME SeriesInv, TimeInv, UNCHANGED <<missed, ended, scanned>>,
         NEW q \in Runs, NEW s \in Open, SetStatus(q, s),
         \A r \in specs : r \in specs' \/ q = NextOf(r)
  PROVE  TimeInv'
<1>1. \A r \in Runs : status'[r] = IF r = q THEN s ELSE status[r]
  BY DEF SetStatus, SeriesInv
<1>2. s \notin Over /\ s # "none"
  BY DEF Open, Over
<1>3. ASSUME NEW r \in FollowableRuns, Unfollowed(r)'
      PROVE  Unfollowed(r) /\ (r \in specs => r \in specs')
  <2>1. status'[r] \in Over /\ status'[NextOf(r)] = "none"
    BY <1>3 DEF Unfollowed
  <2>2. r # q /\ NextOf(r) # q
    BY <1>1, <1>2, <2>1, FollowableHasNext
  <2> QED
    BY <1>1, <2>1, <2>2, FollowableHasNext DEF Unfollowed
<1>4. ended' \in [Runs -> Nat]
  BY DEF TimeInv
<1> QED
  BY <1>3, <1>4, QuietKeepsTimeInv

\* A step that changes neither the runs nor what a scan has found.
LEMMA SameRunsKeepTimeInv ==
  ASSUME TimeInv, UNCHANGED <<missed, ended, scanned, status, specs>>
  PROVE  TimeInv'
  BY DEF TimeInv, Unfollowed

\* Create, Cancel and the trigger of a parent leave no new run unfollowed.
LEMMA JobStepKeepsTimeInv ==
  ASSUME SeriesInv, TimeInv, NEW j \in Jobs, JobStep(j)
  PROVE  TimeInv'
<1>0. <<j, 1>> \in Runs
  BY RecurringAssumption DEF Runs
<1>1. ASSUME NEW p \in Plans, Create(j, p) PROVE TimeInv'
  <2>1. SetStatus(<<j, 1>>, "pending") /\ UNCHANGED <<missed, ended, scanned, specs>>
    BY <1>1 DEF Create, InsertJobRun
  <2> QED
    BY <1>0, <2>1, OneRunKeepsTimeInv DEF Open
<1>2. CASE Cancel(j)
  <2>1. \A r \in Runs : status'[r] = IF r[1] = j /\ status[r] \in {"pending", "queued"}
                                    THEN "cancelled" ELSE status[r]
    BY <1>2 DEF Cancel
  <2>2. UNCHANGED <<missed, ended, scanned, specs>> /\ ended' \in [Runs -> Nat]
    BY <1>2 DEF Cancel, TimeInv
  <2>3. ASSUME NEW r \in FollowableRuns, Unfollowed(r)' PROVE Unfollowed(r)
    BY <2>1, <2>3, FollowableHasNext DEF Unfollowed, Over
  <2> QED
    BY <2>2, <2>3, QuietKeepsTimeInv
<1>3. CASE CountForChild(j)
  BY SMTT(30), <1>3, SameRunsKeepTimeInv DEF CountForChild
<1>4. CASE InsertChild(j)
  <2>1. counted[j] # -1 /\ UNCHANGED <<missed, ended, scanned, specs>>
    BY SMTT(30), <1>4 DEF InsertChild
  <2>2. counted[j] + 1 \in 1 .. MaxSeq
    BY <2>1, RecurringAssumption DEF SeriesInv
  <2>3. <<j, counted[j] + 1>> \in Runs
    BY <2>2 DEF Runs
  <2>4. CASE SetStatus(<<j, counted[j] + 1>>, "queued")
    BY <2>1, <2>3, <2>4, OneRunKeepsTimeInv DEF Open
  <2>5. CASE UNCHANGED status
    BY <2>1, <2>5, SameRunsKeepTimeInv
  <2> QED
    BY <1>4, <2>4, <2>5 DEF InsertChild, InsertJobRun
<1> QED
  BY <1>1, <1>2, <1>3, <1>4 DEF JobStep

\* A run that ends has age 0.
LEMMA RunStepKeepsTimeInv ==
  ASSUME SeriesInv, TimeInv, NEW r \in Runs, RunStep(r)
  PROVE  TimeInv'
<1>1. CASE FindDueRun(r)
  BY <1>1, SameRunsKeepTimeInv DEF FindDueRun
<1>2. CASE MarkQueued(r)
  BY <1>2, OneRunKeepsTimeInv DEF MarkQueued, Open
<1>3. CASE StartRun(r)
  BY <1>3, OneRunKeepsTimeInv DEF StartRun, Open
<1>4. CASE RetryRun(r)
  BY SMTT(30), <1>4, OneRunKeepsTimeInv DEF RetryRun, Open
<1>5. ASSUME NEW s \in Over, EndRun(r, s) PROVE TimeInv'
  <2>1. /\ status[r] = "running" /\ UNCHANGED <<missed, scanned, specs>>
        /\ \A q \in Runs : status'[q] = IF q = r THEN s ELSE status[q]
    BY <1>5 DEF EndRun, SetStatus, SeriesInv
  <2>2. /\ ended' \in [Runs -> Nat]
        /\ \A q \in Runs : ended'[q] = IF q = r THEN 0 ELSE ended[q]
    BY <1>5 DEF EndRun, TimeInv
  <2>3. ASSUME NEW q \in FollowableRuns, Unfollowed(q)', q # r
        PROVE  Unfollowed(q) /\ ended'[q] = ended[q]
    <3>1. status'[q] \in Over /\ status'[NextOf(q)] = "none"
      BY <2>3 DEF Unfollowed
    <3>2. NextOf(q) # r
      BY <2>1, <3>1 DEF Over
    <3> QED
      BY <2>1, <2>2, <2>3, <3>1, <3>2, FollowableHasNext DEF Unfollowed
  <2> QED
    BY SMTT(30), <2>1, <2>2, <2>3, QuietKeepsTimeInv
<1> QED
  BY <1>1, <1>2, <1>3, <1>4, <1>5 DEF RunStep

\* A complete scan follows whatever ended within the lookback.
LEMMA ScanStepKeepsTimeInv ==
  ASSUME SeriesInv, TimeInv, ScanStep
  PROVE  TimeInv'
<1>1. CASE ScanFind
  <2>1. UNCHANGED <<missed, ended, status>> /\ specs' = ListTerminalRecurringRuns
    BY <1>1 DEF ScanFind
  <2>2. ASSUME NEW r \in FollowableRuns, Unfollowed(r) PROVE r \in specs'
    <3>1. ended[r] <= missed + 1 /\ ended[r] \in Nat /\ missed \in 0 .. MaxMissed
      BY <2>2, FollowableHasNext DEF TimeInv
    <3>2. ended[r] <= Lookback
      BY <3>1, RecurringAssumption
    <3> QED
      BY <2>1, <2>2, <3>2 DEF ListTerminalRecurringRuns, Unfollowed
  <2>3. \A r \in FollowableRuns : Unfollowed(r)' <=> Unfollowed(r)
    BY SMTT(30), <2>1 DEF Unfollowed
  <2> QED
    BY <2>1, <2>2, <2>3 DEF TimeInv
<1>2. ASSUME NEW r \in specs, ScanInsert(r) PROVE TimeInv'
  <2>1. specs' = specs \ {r} /\ UNCHANGED <<missed, ended, scanned>>
    BY <1>2 DEF ScanInsert
  <2>2. r \in FollowableRuns /\ NextOf(r) \in Runs
    BY FollowableHasNext DEF SeriesInv
  <2>3. CASE SetStatus(NextOf(r), "pending")
    BY <2>1, <2>2, <2>3, OneRunKeepsTimeInv DEF Open
  <2>4. CASE status[NextOf(r)] # "none" /\ UNCHANGED status
    <3>1. \A q \in FollowableRuns : Unfollowed(q)' => Unfollowed(q) /\ q # r
      BY <2>4 DEF Unfollowed
    <3>2. ended' \in [Runs -> Nat]
      BY <2>1 DEF TimeInv
    <3> QED
      BY <2>1, <3>1, <3>2, QuietKeepsTimeInv
  <2> QED
    BY SMTT(30), <1>2, <2>3, <2>4 DEF ScanInsert, InsertJobRunIfAbsent, InsertJobRun
<1>3. ASSUME NEW r \in specs, ScanFails(r) PROVE TimeInv'
  BY <1>3 DEF ScanFails, TimeInv, Unfollowed
<1> QED
  BY <1>1, <1>2, <1>3 DEF ScanStep

\* Time passes: ages grow by one, and so does what was missed.
LEMMA TickKeepsTimeInv ==
  ASSUME SeriesInv, TimeInv, Tick
  PROVE  TimeInv'
<1>1. /\ specs = {} /\ (scanned \/ missed < MaxMissed) /\ scanned' = FALSE
      /\ missed' = (IF scanned THEN 0 ELSE missed + 1) /\ UNCHANGED status
      /\ ended' = [r \in Runs |-> IF status[r] \in Over /\ ended[r] <= Lookback
                                  THEN ended[r] + 1 ELSE ended[r]]
  BY DEF Tick
<1>2. missed \in 0 .. MaxMissed /\ ended \in [Runs -> Nat]
  BY DEF TimeInv
<1>3. missed' \in 0 .. MaxMissed
  BY <1>1, <1>2, RecurringAssumption
<1>4. /\ ended' \in [Runs -> Nat]
      /\ \A r \in Runs : ended'[r] <= ended[r] + 1
  BY <1>1, <1>2
<1>5. ASSUME NEW r \in FollowableRuns, Unfollowed(r)' PROVE ended'[r] <= missed' + 1
  <2>1. Unfollowed(r)
    BY <1>1, <1>5 DEF Unfollowed
  <2>2. ended[r] <= missed + 1 /\ (scanned => ended[r] = 0)
    BY <1>1, <2>1 DEF TimeInv
  <2>3. r \in Runs /\ ended[r] \in Nat /\ ended'[r] \in Nat /\ ended'[r] <= ended[r] + 1
    BY <1>2, <1>4, FollowableHasNext
  <2>4. CASE scanned
    BY <1>1, <2>2, <2>3, <2>4
  <2>5. CASE ~scanned
    BY <1>1, <1>2, <2>2, <2>3, <2>5
  <2> QED
    BY SMTT(30), <2>4, <2>5
<1> QED
  BY SMTT(30), <1>1, <1>3, <1>4, <1>5 DEF TimeInv

\* A run that ended and was not followed is within the lookback
\* (RecurringWatcher.SeriesNotDropped), as long as scans are missed for less.
THEOREM SeriesGoesOn == RecurringSpec => []SeriesNotDropped
<1>1. RecurringInit => TimeInv
  <2> SUFFICES ASSUME RecurringInit PROVE TimeInv
    OBVIOUS
  <2>1. \A r \in FollowableRuns : ~Unfollowed(r)
    BY FollowableHasNext DEF RecurringInit, Unfollowed, Over
  <2> QED
    BY <2>1, RecurringAssumption DEF RecurringInit, TimeInv
<1>2. SeriesInv /\ TimeInv /\ [RecurringNext]_recurringVars => TimeInv'
  <2> SUFFICES ASSUME SeriesInv, TimeInv, [RecurringNext]_recurringVars
               PROVE  TimeInv'
    OBVIOUS
  <2>1. CASE UNCHANGED recurringVars
    BY <2>1, SameRunsKeepTimeInv DEF recurringVars
  <2> QED
    BY <2>1, JobStepKeepsTimeInv, RunStepKeepsTimeInv, ScanStepKeepsTimeInv, TickKeepsTimeInv
    DEF RecurringNext
<1>3. TimeInv => SeriesNotDropped
  <2> SUFFICES ASSUME TimeInv, NEW r \in FollowableRuns, Unfollowed(r)
               PROVE  ended[r] <= Lookback
    BY DEF SeriesNotDropped, Unfollowed
  <2>1. ended[r] <= missed + 1 /\ ended[r] \in Nat /\ missed \in 0 .. MaxMissed
    BY FollowableHasNext DEF TimeInv
  <2> QED
    BY <2>1, RecurringAssumption
<1> QED
  BY <1>1, <1>2, <1>3, SeriesInvariant, PTL DEF RecurringSpec

-----------------------------------------------------------------------------
(* The local time of a series, in a zone west of Greenwich *)

\* A zone whose offsets are not positive, and whose skipped hour, if its change
\* skips one, is at least as long away from midnight as it lasts.
Western(z) ==
  /\ z \in [before : Int, at : Int, after : Int]
  /\ z.before <= 0 /\ z.after <= 0
  /\ LET skip == z.after - z.before
     IN  skip > 0 => (z.at + z.before - skip) \div DayLen = (z.at + z.after + skip - 1) \div DayLen

\* The smallest element of a set.
LEMMA MinIs ==
  ASSUME NEW S, S \subseteq Int, NEW x \in S, \A y \in S : x <= y
  PROVE  Min(S) = x
<1>1. \E m \in S : \A y \in S : m <= y
  OBVIOUS
<1>2. Min(S) \in S /\ \A y \in S : Min(S) <= y
  BY <1>1 DEF Min
<1>3. Min(S) \in Int /\ x \in Int /\ Min(S) <= x /\ x <= Min(S)
  BY Zenon, <1>2
<1> QED
  BY <1>3

\* A wall time has one day and one clock.
LEMMA WallParts ==
  ASSUME NEW d \in Int, NEW c \in 0 .. DayLen - 1, NEW w \in Int
  PROVE  w = d * DayLen + c <=> (w \div DayLen = d /\ w % DayLen = c)
  BY DayAssumption

\* The day does not decrease with the wall time.
LEMMA SameDay ==
  ASSUME NEW v \in Int, NEW w \in Int, NEW x \in Int, v <= w, w <= x, v \div DayLen = x \div DayLen
  PROVE  w \div DayLen = v \div DayLen
  BY DayAssumption

\* The first instant, without the set.
LEMMA FirstInstantIs ==
  ASSUME NEW z, Western(z), NEW d \in Int, NEW c \in 0 .. DayLen - 1,
         NEW w \in Int, w = d * DayLen + c
  PROVE  FirstInstant(z, d, c) =
           IF w - z.before < z.at THEN w - z.before
           ELSE IF w - z.after >= z.at THEN w - z.after ELSE w - z.before
<1> DEFINE shown == {u \in {w - z.before, w - z.after} : u + Offset(z, u) = w}
<1>1. z.before \in Int /\ z.at \in Int /\ z.after \in Int
  BY DEF Western
<1>2. FirstInstant(z, d, c) = IF shown = {} THEN w - z.before ELSE Min(shown)
  BY Zenon DEF FirstInstant
<1>3. shown \subseteq Int
  BY <1>1
<1>4. CASE w - z.before < z.at
  <2>1. w - z.before \in shown /\ \A y \in shown : w - z.before <= y
    BY <1>1, <1>4 DEF Offset
  <2>2. Min(shown) = w - z.before /\ shown # {}
    BY <1>3, <2>1, MinIs
  <2> QED
    BY <1>2, <1>4, <2>2
<1>5. CASE ~(w - z.before < z.at) /\ w - z.after >= z.at
  <2>1. w - z.after \in shown /\ \A y \in shown : w - z.after <= y
    BY <1>1, <1>5 DEF Offset
  <2>2. Min(shown) = w - z.after /\ shown # {}
    BY <1>3, <2>1, MinIs
  <2> QED
    BY <1>2, <1>5, <2>2
<1>6. CASE ~(w - z.before < z.at) /\ ~(w - z.after >= z.at)
  <2>1. shown = {}
    BY <1>1, <1>6 DEF Offset
  <2> QED
    BY <1>2, <1>6, <2>1
<1> QED
  BY <1>4, <1>5, <1>6

\* time.Date in such a zone, without the second look.
LEMMA DateIs ==
  ASSUME NEW z, Western(z), NEW d \in Int, NEW c \in 0 .. DayLen - 1,
         NEW w \in Int, w = d * DayLen + c
  PROVE  Date(z, d, c) = IF w - z.before < z.at THEN w - z.before ELSE w - z.after
<1>1. z.before \in Int /\ z.at \in Int /\ z.after \in Int /\ z.before <= 0 /\ z.after <= 0
  BY DEF Western
<1>2. Date(z, d, c) =
        IF Offset(z, w) = 0 \/ (w - Offset(z, w) < z.at <=> w < z.at) THEN w - Offset(z, w)
        ELSE w - Offset(z, w - Offset(z, w))
  BY Zenon DEF Date
<1> QED
  BY <1>1, <1>2 DEF Offset

\* resolveWallTime of what time.Date returns is the first instant at which the
\* clock shows the planned time, or would have.
LEMMA ResolvesToFirst ==
  ASSUME NEW z, Western(z), NEW d \in Int, NEW c \in 0 .. DayLen - 1
  PROVE  /\ resolveWallTime(z, Date(z, d, c), c) = FirstInstant(z, d, c)
         /\ FirstInstant(z, d, c) \in Int /\ Date(z, d, c) \in Int
         /\ Date(z, d, c) <= FirstInstant(z, d, c)
         /\ DayOf(z, FirstInstant(z, d, c)) = d
<1> DEFINE w == d * DayLen + c
           u == Date(z, d, c)
           f == FirstInstant(z, d, c)
<1>1. /\ z.before \in Int /\ z.at \in Int /\ z.after \in Int /\ z.before <= 0 /\ z.after <= 0
      /\ DayLen \in Nat \ {0} /\ c \in Int
  BY DayAssumption DEF Western
<1>2. w \in Int
  BY <1>1
<1>3. w \div DayLen = d /\ w % DayLen = c
  BY <1>2, WallParts
<1>4. /\ u = IF w - z.before < z.at THEN w - z.before ELSE w - z.after
      /\ f = IF w - z.before < z.at THEN w - z.before
             ELSE IF w - z.after >= z.at THEN w - z.after ELSE w - z.before
  BY <1>2, DateIs, FirstInstantIs
<1>5. \A x \in Int : DayOf(z, x) = d /\ ClockOf(z, x) = c => x + Offset(z, x) = w
  <2> SUFFICES ASSUME NEW x \in Int, DayOf(z, x) = d, ClockOf(z, x) = c
               PROVE  x + Offset(z, x) = w
    OBVIOUS
  <2>1. x + Offset(z, x) \in Int
    BY <1>1 DEF Offset
  <2> QED
    BY <2>1, WallParts DEF DayOf, ClockOf
<1> HIDE DEF w, u, f
<1>6. u \in Int /\ f \in Int /\ u <= f
  BY <1>1, <1>2, <1>4
<1>7. CASE w - z.before < z.at \/ w - z.after >= z.at
  <2>1. u = f /\ u + Offset(z, u) = w
    BY <1>1, <1>2, <1>4, <1>7 DEF Offset
  <2>2. DayOf(z, u) = d /\ ClockOf(z, u) = c
    BY <1>3, <2>1 DEF DayOf, ClockOf
  <2> DEFINE S == {x \in u - 4 .. u + 4 : DayOf(z, x) = DayOf(z, u) /\ ClockOf(z, x) = c}
  <2>3. resolveWallTime(z, u, c) = Min(S)
    BY Zenon, <2>2 DEF resolveWallTime
  <2>4. S \subseteq Int /\ u \in S
    BY <1>6, <2>2
  <2>5. ASSUME NEW x \in S PROVE u <= x
    <3>1. x \in Int /\ x + Offset(z, x) = w
      BY <1>5, <2>2, <2>4
    <3> QED
      BY <1>1, <1>2, <1>4, <1>7, <3>1 DEF Offset
  <2> HIDE DEF S
  <2>6. Min(S) = u
    BY <2>4, <2>5, MinIs
  <2> QED
    BY <1>6, <2>1, <2>2, <2>3, <2>6 DEF u, f
<1>8. CASE ~(w - z.before < z.at) /\ ~(w - z.after >= z.at)
  <2> DEFINE skip == z.after - z.before
  <2>1. /\ u = w - z.after /\ f = w - z.before /\ u + Offset(z, u) = w - skip /\ f + Offset(z, f) = w + skip
        /\ skip \in Int /\ skip > 0
    BY <1>1, <1>2, <1>4, <1>8 DEF Offset
  <2>2. (z.at + z.before - skip) \div DayLen = (z.at + z.after + skip - 1) \div DayLen
    BY <2>1 DEF Western
  <2>3. /\ z.at + z.before - skip <= w - skip /\ w - skip <= w /\ w <= w + skip
        /\ w + skip <= z.at + z.after + skip - 1
    BY <1>1, <1>2, <1>8, <2>1
  <2> DEFINE lo == z.at + z.before - skip
             hi == z.at + z.after + skip - 1
  <2>4. lo \in Int /\ hi \in Int /\ w - skip \in Int /\ w + skip \in Int
        /\ lo <= w - skip /\ w - skip <= hi /\ lo <= w /\ w <= hi /\ lo <= w + skip /\ w + skip <= hi
        /\ lo \div DayLen = hi \div DayLen
    BY <1>1, <1>2, <2>1, <2>2, <2>3
  <2> HIDE DEF lo, hi, skip
  <2>5. (w - skip) \div DayLen = d /\ (w + skip) \div DayLen = d
    BY <1>2, <1>3, <2>4, SameDay
  <2>6. DayOf(z, f) = d /\ ClockOf(z, u) = (w - skip) % DayLen
    BY <2>1, <2>5 DEF DayOf, ClockOf
  <2>7. (w - skip) % DayLen = c - skip
    BY <1>1, <1>2, <1>3, <2>1, <2>4, <2>5
  <2>8. resolveWallTime(z, u, c) = u + (c - (c - skip))
    <3>1. ClockOf(z, u) # c /\ c > ClockOf(z, u)
      BY <1>1, <2>1, <2>6, <2>7
    <3> QED
      BY <2>6, <2>7, <3>1 DEF resolveWallTime
  <2>9. u + (c - (c - skip)) = f
    BY <1>1, <1>2, <2>1 DEF skip
  <2> QED
    BY <1>6, <2>6, <2>8, <2>9 DEF u, f
<1> QED
  BY <1>7, <1>8

\* From one occurrence NextOccurrence goes to that of the day the rule names.
LEMMA NextFollows ==
  ASSUME NEW z, Western(z), NEW d \in Int, NEW c \in 0 .. DayLen - 1, NEW rule, StepDays(rule) \in Int
  PROVE  NextOccurrence(rule, c, z, FirstInstant(z, d, c)) = FirstInstant(z, d + StepDays(rule), c)
<1> DEFINE f == FirstInstant(z, d, c)
           e == d + StepDays(rule)
<1>1. DayOf(z, f) = d /\ ~(Date(z, d, c) > f)
  BY ResolvesToFirst
<1>2. e \in Int
  OBVIOUS
<1>3. resolveWallTime(z, Date(z, e, c), c) = FirstInstant(z, e, c)
  BY <1>2, ResolvesToFirst
<1> QED
  BY Zenon, <1>1, <1>3 DEF NextOccurrence

\* From anywhere it goes to the occurrence of some day.
LEMMA NextIsOccurrence ==
  ASSUME NEW z, Western(z), NEW c \in 0 .. DayLen - 1, NEW rule, StepDays(rule) \in Int, NEW u \in Int
  PROVE  \E d \in Int : NextOccurrence(rule, c, z, u) = FirstInstant(z, d, c)
<1> DEFINE today == DayOf(z, u)
<1>1. today \in Int /\ today + StepDays(rule) \in Int
  BY DayAssumption DEF DayOf, Offset, Western
<1>2. \/ NextOccurrence(rule, c, z, u) = resolveWallTime(z, Date(z, today, c), c)
      \/ NextOccurrence(rule, c, z, u) = resolveWallTime(z, Date(z, today + StepDays(rule), c), c)
  BY Zenon DEF NextOccurrence
<1>3. \A d \in Int : resolveWallTime(z, Date(z, d, c), c) = FirstInstant(z, d, c)
  BY ResolvesToFirst
<1> HIDE DEF today
<1> QED
  BY Zenon, <1>1, <1>2, <1>3

\* A run of p is due at an occurrence of p.
OnPlan(p, at) == \E d \in Int : at = FirstInstant(p.zone, d, p.clock)

\* The inductive invariant of SeriesKeepsWallTime: every run of an unchained
\* job, the first one included, is due at an occurrence.
WallInv ==
  /\ now \in Int
  /\ due = [r \in Runs |-> due[r]]
  /\ \A r \in Runs : ~Chained(r[1]) /\ status[r] # "none" => OnPlan(plan[r[1]], due[r])
  /\ SeriesKeepsWallTime

\* The plans of unchained jobs are in western zones.
WesternPlans == \A p \in Plans : ~p.chained => Western(p.zone)

\* What the lemmas ask of a plan.
LEMMA PlanParts ==
  ASSUME WesternPlans, NEW p \in Plans, ~p.chained
  PROVE  Western(p.zone) /\ p.clock \in 0 .. DayLen - 1 /\ StepDays(p.rule) \in Int
<1>1. p.clock \in 0 .. DayLen - 1 /\ p.rule.interval \in Int
  BY PlanAssumption
<1> QED
  BY <1>1 DEF WesternPlans, StepDays

\* The occurrence after one of the plan is the one the rule names.
LEMMA PlanFollows ==
  ASSUME WesternPlans, NEW p \in Plans, ~p.chained, NEW at, OnPlan(p, at)
  PROVE  LET next == NextOccurrence(p.rule, p.clock, p.zone, at)
         IN  /\ next = FirstInstant(p.zone, DayOf(p.zone, at) + StepDays(p.rule), p.clock)
             /\ OnPlan(p, next)
<1>1. Western(p.zone) /\ p.clock \in 0 .. DayLen - 1 /\ StepDays(p.rule) \in Int
  BY PlanParts
<1>2. PICK d \in Int : at = FirstInstant(p.zone, d, p.clock)
  BY DEF OnPlan
<1>3. DayOf(p.zone, at) = d
  BY <1>1, <1>2, ResolvesToFirst
<1>4. NextOccurrence(p.rule, p.clock, p.zone, at) = FirstInstant(p.zone, d + StepDays(p.rule), p.clock)
  BY <1>1, <1>2, NextFollows
<1>5. d + StepDays(p.rule) \in Int
  BY <1>1
<1> QED
  BY Zenon, <1>3, <1>4, <1>5 DEF OnPlan

\* A step that inserts no run and no job.
LEMMA SameSeriesKeepWallInv ==
  ASSUME SeriesInv, WallInv, UNCHANGED <<plan, due>>, now' \in Int,
         \A r \in Runs : status'[r] # "none" => status[r] # "none"
  PROVE  WallInv'
<1>1. \A r \in FollowableRuns : NextOf(r) \in Runs
  BY FollowableHasNext
<1>2. SeriesKeepsWallTime'
  BY Zenon, <1>1 DEF SeriesKeepsWallTime, WallInv, Chained
<1> QED
  BY <1>2 DEF WallInv, OnPlan, Chained

\* A step that inserts one run, which is due at an occurrence, and at the one
\* after that of its predecessor.
LEMMA InsertKeepsWallInv ==
  ASSUME SeriesInv, WallInv, now' = now,
         NEW j \in Jobs, NEW k \in 1 .. MaxSeq, NEW at,
         \A r \in Runs \ {<<j, k>>} : status'[r] = status[r],
         status[<<j, k>>] = "none",
         due' = [due EXCEPT ![<<j, k>>] = at],
         \A i \in Jobs \ {j} : plan'[i] = plan[i],
         plan'[j] = plan[j] \/ k = 1,
         ~Chained(j)' => OnPlan(plan'[j], at),
         \A m \in 1 .. MaxSeq - 1 : ~Chained(j)' /\ k = m + 1 =>
           at = FirstInstant(plan'[j].zone, DayOf(plan'[j].zone, due[<<j, m>>]) + StepDays(plan'[j].rule),
                             plan'[j].clock)
  PROVE  WallInv'
<1> DEFINE x == <<j, k>>
<1>1. x \in Runs /\ due'[x] = at /\ due' = [r \in Runs |-> due'[r]] /\ \A r \in Runs \ {x} : due'[r] = due[r]
  BY DEF WallInv, Runs
<1>2. \A i \in Jobs : plan'[i] # plan[i] => i = j /\ k = 1
  OBVIOUS
<1>3. \A m \in 1 .. MaxSeq : k = 1 => status[<<j, m>>] = "none"
  <2> SUFFICES ASSUME NEW m \in 1 .. MaxSeq, k = 1, status[<<j, m>>] # "none" PROVE FALSE
    OBVIOUS
  <2>1. m # 1 /\ 1 \in 1 .. MaxSeq /\ 1 < m
    BY RecurringAssumption
  <2> QED
    BY <2>1 DEF SeriesInv
<1>4. ASSUME NEW r \in Runs, ~Chained(r[1])', status'[r] # "none"
      PROVE  OnPlan(plan'[r[1]], due'[r])
  <2>1. CASE r = x
    BY <1>1, <1>4, <2>1
  <2>2. CASE r # x
    <3>1. PICK i \in Jobs, m \in 1 .. MaxSeq : r = <<i, m>>
      BY DEF Runs
    <3>2. status[r] # "none" /\ plan'[i] = plan[i]
      BY <1>2, <1>3, <1>4, <2>2, <3>1
    <3>3. ~Chained(r[1])
      BY <1>4, <3>1, <3>2 DEF Chained
    <3> QED
      BY <1>1, <2>2, <3>1, <3>2, <3>3 DEF WallInv
  <2> QED
    BY <2>1, <2>2
<1>5. ASSUME NEW r \in FollowableRuns, ~Chained(r[1])', status'[NextOf(r)] # "none"
      PROVE  LET p == plan'[r[1]]
             IN  due'[NextOf(r)] = FirstInstant(p.zone, DayOf(p.zone, due'[r]) + StepDays(p.rule), p.clock)
  <2>1. PICK i \in Jobs, m \in 1 .. MaxSeq - 1 : r = <<i, m>>
    BY DEF FollowableRuns
  <2>2. r \in Runs /\ NextOf(r) \in Runs /\ NextOf(r) = <<i, m + 1>> /\ m \in 1 .. MaxSeq /\ m + 1 \in 1 .. MaxSeq
    BY <2>1, FollowableHasNext, RecurringAssumption DEF NextOf
  <2>3. CASE NextOf(r) = x
    <3>1. i = j /\ k = m + 1 /\ r # x
      BY <2>1, <2>2, <2>3
    <3> QED
      BY <1>1, <1>5, <2>1, <2>2, <2>3, <3>1
  <2>4. CASE NextOf(r) # x
    <3>1. status[NextOf(r)] # "none"
      BY <1>5, <2>2, <2>4
    <3>2. plan'[i] = plan[i]
      BY <1>2, <1>3, <2>2, <3>1
    <3>3. r # x
      <4>1. status[<<i, m>>] # "none"
        BY <2>2, <3>1 DEF SeriesInv
      <4> QED
        BY <2>1, <4>1
    <3>4. ~Chained(r[1])
      BY <1>5, <2>1, <3>2 DEF Chained
    <3> QED
      BY <1>1, <2>1, <2>2, <2>4, <3>1, <3>2, <3>3, <3>4 DEF WallInv, SeriesKeepsWallTime
  <2> QED
    BY <2>3, <2>4
<1>6. SeriesKeepsWallTime'
  BY Zenon, <1>5 DEF SeriesKeepsWallTime
<1> QED
  BY Zenon, <1>1, <1>4, <1>6 DEF WallInv

\* Create, Cancel, and the parent that triggers a chained job.
LEMMA JobStepKeepsWallInv ==
  ASSUME WesternPlans, SeriesInv, WallInv, NEW j \in Jobs, JobStep(j)
  PROVE  WallInv'
<1>0. now \in Int /\ 1 \in 1 .. MaxSeq /\ \A m \in 1 .. MaxSeq - 1 : 1 # m + 1
  BY RecurringAssumption DEF WallInv
<1>1. ASSUME NEW p \in Plans, Create(j, p) PROVE WallInv'
  <2> DEFINE at == NextOccurrence(p.rule, p.clock, p.zone, now)
  <2>1. /\ plan'[j] = p /\ \A i \in Jobs \ {j} : plan'[i] = plan[i]
        /\ now' = now
    BY <1>1 DEF Create, InsertJob, SeriesInv
  <2>2. /\ status[<<j, 1>>] = "none" /\ due' = [due EXCEPT ![<<j, 1>>] = at]
        /\ \A r \in Runs \ {<<j, 1>>} : status'[r] = status[r]
    BY <1>1 DEF Create, InsertJobRun, SetStatus, SeriesInv
  <2>3. Chained(j)' <=> p.chained
    BY <2>1, RecurringAssumption, PlanAssumption DEF Chained
  <2>4. ~p.chained => OnPlan(p, at)
    BY <1>0, PlanParts, NextIsOccurrence DEF OnPlan
  <2> HIDE DEF at
  <2> QED
    BY <1>0, <2>1, <2>2, <2>3, <2>4, InsertKeepsWallInv
<1>2. CASE Cancel(j)
  <2>1. \A r \in Runs : status'[r] # "none" => status[r] # "none"
    BY <1>2 DEF Cancel
  <2> QED
    BY <1>0, <1>2, <2>1, SameSeriesKeepWallInv DEF Cancel
<1>3. CASE CountForChild(j)
  BY <1>0, <1>3, SameSeriesKeepWallInv DEF CountForChild
<1>4. CASE InsertChild(j)
  <2>1. counted[j] # -1 /\ UNCHANGED <<now, plan>>
    BY <1>4 DEF InsertChild
  <2>2. Chained(j) /\ counted[j] + 1 \in 1 .. MaxSeq
    BY <2>1, RecurringAssumption DEF SeriesInv
  <2>3. CASE InsertJobRun(<<j, counted[j] + 1>>, "queued", now)
    <3>1. /\ status[<<j, counted[j] + 1>>] = "none" /\ due' = [due EXCEPT ![<<j, counted[j] + 1>>] = now]
          /\ \A r \in Runs \ {<<j, counted[j] + 1>>} : status'[r] = status[r]
      BY <2>3 DEF InsertJobRun, SetStatus, SeriesInv
    <3>2. Chained(j)'
      BY <2>1, <2>2 DEF Chained
    <3> QED
      BY <2>1, <2>2, <3>1, <3>2, InsertKeepsWallInv
  <2>4. CASE UNCHANGED <<status, due>>
    BY <1>0, <2>1, <2>4, SameSeriesKeepWallInv
  <2> QED
    BY <1>4, <2>3, <2>4 DEF InsertChild
<1> QED
  BY <1>1, <1>2, <1>3, <1>4 DEF JobStep

\* The pipeline inserts no run.
LEMMA RunStepKeepsWallInv ==
  ASSUME SeriesInv, WallInv, NEW r \in Runs, RunStep(r)
  PROVE  WallInv'
<1>1. now' = now /\ now \in Int /\ UNCHANGED <<plan, due>>
  BY DEF RunStep, FindDueRun, MarkQueued, StartRun, RetryRun, EndRun, WallInv
<1>2. status[r] # "none" /\ \A q \in Runs \ {r} : status'[q] = status[q]
  BY DEF RunStep, FindDueRun, MarkQueued, StartRun, RetryRun, EndRun, SetStatus, SeriesInv
<1> QED
  BY <1>1, <1>2, SameSeriesKeepWallInv

\* The scan inserts the run after one of the series.
LEMMA ScanStepKeepsWallInv ==
  ASSUME WesternPlans, SeriesInv, WallInv, ScanStep
  PROVE  WallInv'
<1>0. now \in Int
  BY DEF WallInv
<1>1. CASE ScanFind
  BY <1>0, <1>1, SameSeriesKeepWallInv DEF ScanFind
<1>2. ASSUME NEW r \in specs, ScanFails(r) PROVE WallInv'
  BY <1>0, <1>2, SameSeriesKeepWallInv DEF ScanFails
<1>3. ASSUME NEW r \in specs, ScanInsert(r) PROVE WallInv'
  <2>1. PICK j \in Jobs, k \in 1 .. MaxSeq - 1 : r = <<j, k>>
    BY DEF SeriesInv, FollowableRuns
  <2>2. /\ r \in Runs /\ k + 1 \in 1 .. MaxSeq /\ NextOf(r) = <<j, k + 1>>
        /\ \A m \in 1 .. MaxSeq - 1 : k + 1 = m + 1 => m = k
    BY <2>1, RecurringAssumption DEF NextOf, Runs
  <2>3. status[r] # "none" /\ k \in 1 .. MaxSeq
    BY <2>1, RecurringAssumption DEF SeriesInv, Over
  <2>4. plan[j] \in Plans /\ UNCHANGED <<now, plan>>
    <3>1. plan[j] # NoPlan
      BY <2>1, <2>3 DEF SeriesInv
    <3> QED
      BY <1>3, <3>1 DEF ScanInsert, SeriesInv
  <2> DEFINE p == plan[j]
             at == NextOccurrence(p.rule, p.clock, p.zone, due[r])
  <2>5. ~Chained(j) =>
          at = FirstInstant(p.zone, DayOf(p.zone, due[r]) + StepDays(p.rule), p.clock) /\ OnPlan(p, at)
    <3> SUFFICES ASSUME ~Chained(j)
                 PROVE  at = FirstInstant(p.zone, DayOf(p.zone, due[r]) + StepDays(p.rule), p.clock) /\ OnPlan(p, at)
      OBVIOUS
    <3>1. ~p.chained
      BY <2>4, RecurringAssumption DEF Chained
    <3>2. OnPlan(p, due[r])
      BY <2>1, <2>2, <2>3 DEF WallInv
    <3> QED
      BY Zenon, <2>4, <3>1, <3>2, PlanFollows
  <2>6. CASE InsertJobRun(NextOf(r), "pending", at)
    <3>1. /\ status[<<j, k + 1>>] = "none" /\ due' = [due EXCEPT ![<<j, k + 1>>] = at]
          /\ \A q \in Runs \ {<<j, k + 1>>} : status'[q] = status[q]
      BY <2>2, <2>6 DEF InsertJobRun, SetStatus, SeriesInv
    <3>2. Chained(j)' <=> Chained(j)
      BY <2>4 DEF Chained
    <3> HIDE DEF at
    <3> QED
      BY <2>1, <2>2, <2>4, <2>5, <3>1, <3>2, InsertKeepsWallInv
  <2>7. CASE UNCHANGED <<status, due>>
    BY <1>0, <2>4, <2>7, SameSeriesKeepWallInv
  <2> QED
    BY <1>3, <2>1, <2>6, <2>7 DEF ScanInsert, InsertJobRunIfAbsent
<1> QED
  BY <1>1, <1>2, <1>3 DEF ScanStep

\* In a zone west of Greenwich the runs of an unchained job are due at the
\* planned local time of the days the rule names, across any change of the
\* offset: of a time that occurs twice the first, for a time that is skipped
\* the one it would have been (NextOccurrence, SeriesKeepsWallTime).
THEOREM WallTimeKept ==
  ASSUME WesternPlans
  PROVE  RecurringSpec => []SeriesKeepsWallTime
<1>1. RecurringInit => WallInv
  <2> SUFFICES ASSUME RecurringInit PROVE WallInv
    OBVIOUS
  <2>1. \A r \in Runs : status[r] = "none"
    BY DEF RecurringInit
  <2>2. \A r \in FollowableRuns : NextOf(r) \in Runs
    BY FollowableHasNext
  <2>3. now \in Int /\ due = [r \in Runs |-> due[r]]
    BY RecurringAssumption DEF RecurringInit
  <2> QED
    BY <2>1, <2>2, <2>3 DEF WallInv, SeriesKeepsWallTime
<1>2. SeriesInv /\ WallInv /\ [RecurringNext]_recurringVars => WallInv'
  <2> SUFFICES ASSUME SeriesInv, WallInv, [RecurringNext]_recurringVars
               PROVE  WallInv'
    OBVIOUS
  <2>1. CASE Tick
    BY <2>1, SameSeriesKeepWallInv DEF Tick, WallInv
  <2>2. CASE UNCHANGED recurringVars
    BY <2>2, SameSeriesKeepWallInv DEF recurringVars, WallInv
  <2> QED
    BY <2>1, <2>2, JobStepKeepsWallInv, RunStepKeepsWallInv, ScanStepKeepsWallInv DEF RecurringNext
<1>3. WallInv => SeriesKeepsWallTime
  BY DEF WallInv
<1> QED
  BY <1>1, <1>2, <1>3, SeriesInvariant, PTL DEF RecurringSpec

=============================================================================
