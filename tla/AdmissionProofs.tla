-------------------------- MODULE AdmissionProofs ---------------------------
(***************************************************************************)
(* For any number of tenants, concurrent requests and jobs, and any        *)
(* limits: how far concurrent calls of Create may take a tenant over each  *)
(* of the three limits of checkQuota.  Each proof adds to what is counted  *)
(* the requests that have passed the check but have not inserted yet: a    *)
(* check passes only below the limit, and an insert moves one request to   *)
(* the rows.                                                               *)
(***************************************************************************)
EXTENDS Admission, FiniteSetTheorems, TLAPS

Places == {"idle", "jobs", "runs", "recurring", "insert"}

Requests ==
  [pc : Places, tenant : Tenants \cup {"none"}, kind : Kinds \cup {"none"}, age : Nat]

Rows ==
  [tenant : Tenants \cup {"none"}, kind : Kinds \cup {"none"}, age : Nat,
   run : Over \cup {"none", "pending", "active"}]

\* The types of the variables; a request under way has a tenant, and a row
\* without a tenant is no row at all.
AdmissionTypeOK ==
  /\ job \in [JobIds -> Rows]
  /\ request \in [Creators -> Requests]
  /\ reopened \subseteq JobIds
  /\ squeezed \in [Tenants -> Nat]
  /\ \A c \in Creators : request[c].pc # "idle" => request[c].tenant \in Tenants
  /\ \A j \in JobIds : job[j].tenant = "none" <=> job[j] = NoRow

\* The requests of t that have passed the hourly limit and whose job will
\* count in this hour.
PastJobs(t) ==
  {c \in Creators : /\ request[c].pc \in {"runs", "recurring", "insert"}
                    /\ request[c].tenant = t /\ request[c].age < Hour}

\* The requests of t that have passed the limit on active runs.
PastRuns(t) ==
  {c \in Creators : request[c].pc \in {"recurring", "insert"} /\ request[c].tenant = t}

\* The requests of t that have passed the limit on recurring jobs.
PastRecurring(t) ==
  {c \in Creators : /\ request[c].pc = "insert"
                    /\ request[c].tenant = t /\ request[c].kind = "recurring"}

HourlyInv ==
  \A t \in Tenants :
    CountJobsSince(t) + Cardinality(PastJobs(t)) <= MaxJobsPerHour + Cardinality(Creators) - 1

SaturationInv ==
  \A t \in Tenants :
    IF Saturated(t)
    THEN squeezed[t] + Cardinality(PastRuns(t)) <= Cardinality(Creators)
    ELSE squeezed[t] = 0

RecurringInv ==
  \A t \in Tenants :
    Cardinality(ActiveRecurring(t) \ reopened) + Cardinality(PastRecurring(t))
      <= MaxActiveRecurring + Cardinality(Creators) - 1
-----------------------------------------------------------------------------

\* The counts of two sets that only shrink stay within what bounded them.
LEMMA Shrinking ==
  ASSUME NEW A, NEW B, NEW C, NEW D, IsFiniteSet(A), IsFiniteSet(B),
         C \subseteq A, D \subseteq B,
         NEW n \in Int, Cardinality(A) + Cardinality(B) <= n
  PROVE  Cardinality(C) + Cardinality(D) <= n
<1>1. Cardinality(C) <= Cardinality(A) /\ Cardinality(D) <= Cardinality(B)
  BY FS_Subset
<1>2. IsFiniteSet(C) /\ IsFiniteSet(D)
  BY FS_Subset
<1> QED
  BY <1>1, <1>2, FS_CardinalityType

\* Nor does the sum of the two counts grow when one set gains an element and
\* the other one loses one.
LEMMA Moving ==
  ASSUME NEW A, NEW B, NEW C, NEW D, IsFiniteSet(A), IsFiniteSet(B),
         NEW x, NEW y \in B, C \subseteq A \cup {x}, D \subseteq B \ {y},
         NEW n \in Int, Cardinality(A) + Cardinality(B) <= n
  PROVE  Cardinality(C) + Cardinality(D) <= n
<1>0. Cardinality(A) \in Nat
  BY FS_CardinalityType
<1>a. /\ IsFiniteSet(A \cup {x})
      /\ Cardinality(A \cup {x}) = IF x \in A THEN Cardinality(A) ELSE Cardinality(A) + 1
  BY FS_AddElement, Zenon
<1>1. IsFiniteSet(A \cup {x}) /\ Cardinality(A \cup {x}) <= Cardinality(A) + 1
  BY <1>0, <1>a
<1>2. IsFiniteSet(B \ {y}) /\ Cardinality(B \ {y}) = Cardinality(B) - 1
  BY FS_RemoveElement
<1>3. Cardinality(A \cup {x}) + Cardinality(B \ {y}) <= n
  BY <1>1, <1>2, FS_CardinalityType
<1> QED
  BY <1>1, <1>2, <1>3, Shrinking

\* The sets that are counted are finite.
LEMMA AdmissionNumbers ==
  /\ Cardinality(Creators) \in Nat \ {0}
  /\ \A S \in SUBSET JobIds : IsFiniteSet(S) /\ Cardinality(S) \in Nat
  /\ \A S \in SUBSET Creators :
       IsFiniteSet(S) /\ Cardinality(S) \in Nat /\ Cardinality(S) <= Cardinality(Creators)
<1>1. Cardinality(Creators) \in Nat \ {0}
  BY AdmissionAssumption, FS_CardinalityType, FS_EmptySet
<1>2. \A S \in SUBSET JobIds : IsFiniteSet(S) /\ Cardinality(S) \in Nat
  BY AdmissionAssumption, FS_Subset, FS_CardinalityType
<1>3. \A S \in SUBSET Creators :
        IsFiniteSet(S) /\ Cardinality(S) \in Nat /\ Cardinality(S) <= Cardinality(Creators)
  BY AdmissionAssumption, FS_Subset, FS_CardinalityType
<1> QED
  BY <1>1, <1>2, <1>3

-----------------------------------------------------------------------------

\* A request has gone on to its next place with what NewJob built.
Passed(c, next) ==
  /\ request'[c].pc = next
  /\ request'[c].tenant = request[c].tenant
  /\ request'[c].kind = request[c].kind
  /\ request'[c].age = request[c].age

\* A check drops the request, or lets it pass below the limit.
LEMMA CheckEffect ==
  ASSUME AdmissionTypeOK, NEW c \in Creators,
         NEW at \in Places, NEW next \in Places, NEW count \in Nat, NEW limit \in Nat,
         at # "idle", next # "idle", Check(c, at, count, limit, next)
  PROVE  /\ AdmissionTypeOK'
         /\ job' = job /\ reopened' = reopened /\ squeezed' = squeezed
         /\ request[c].pc = at
         /\ \A d \in Creators \ {c} : request'[d] = request[d]
         /\ \/ request'[c].pc = "idle"
            \/ Passed(c, next) /\ count < limit
<1>1. Idle \in Requests /\ Idle.pc = "idle"
  BY DEF Idle, Requests, Places
<1>2. [request[c] EXCEPT !.pc = next] \in Requests
  BY DEF AdmissionTypeOK, Requests
<1>3. \/ request' = [request EXCEPT ![c] = Idle]
      \/ /\ request' = [request EXCEPT ![c] = [request[c] EXCEPT !.pc = next]]
         /\ count < limit
  BY DEF Check, AdmissionTypeOK
<1>4. request' \in [Creators -> Requests]
  BY <1>1, <1>2, <1>3 DEF AdmissionTypeOK
<1>5. \A d \in Creators : request'[d].pc # "idle" => request'[d].tenant \in Tenants
  BY <1>1, <1>2, <1>3 DEF AdmissionTypeOK, Requests, Check
<1>6. job' = job /\ reopened' = reopened /\ squeezed' = squeezed /\ request[c].pc = at
  BY DEF Check
<1>7. AdmissionTypeOK'
  BY <1>4, <1>5, <1>6 DEF AdmissionTypeOK
<1> QED
  BY <1>1, <1>3, <1>6, <1>7 DEF AdmissionTypeOK, Passed, Requests

\* The counts of the queries are natural numbers.
LEMMA QueryNumbers ==
  ASSUME NEW t
  PROVE  CountJobsSince(t) \in Nat /\ CountActiveRuns(t) \in Nat /\ CountActiveRecurring(t) \in Nat
  BY AdmissionNumbers
     DEF CountJobsSince, CountActiveRuns, CountActiveRecurring, JobsCreatedSince, ActiveRuns,
         ActiveRecurring

\* What the three checks have in common: they drop the request or let it pass.
LEMMA ChecksEffect ==
  ASSUME AdmissionTypeOK, NEW c \in Creators,
         CheckJobs(c) \/ CheckRuns(c) \/ CheckRecurring(c)
  PROVE  /\ AdmissionTypeOK'
         /\ job' = job /\ reopened' = reopened /\ squeezed' = squeezed
         /\ \A d \in Creators \ {c} : request'[d] = request[d]
         /\ \/ request'[c].pc = "idle"
            \/ /\ request[c].pc = "jobs" /\ Passed(c, "runs")
               /\ CountJobsSince(request[c].tenant) < MaxJobsPerHour
            \/ /\ request[c].pc = "runs" /\ ~Saturated(request[c].tenant)
               /\ Passed(c, IF request[c].kind = "recurring" THEN "recurring" ELSE "insert")
            \/ /\ request[c].pc = "recurring" /\ Passed(c, "insert")
               /\ CountActiveRecurring(request[c].tenant) < MaxActiveRecurring
<1> USE AdmissionAssumption, QueryNumbers DEF Places
<1>1. CASE CheckJobs(c)
  BY <1>1, CheckEffect DEF CheckJobs
<1>2. CASE CheckRuns(c)
  <2> DEFINE next == IF request[c].kind = "recurring" THEN "recurring" ELSE "insert"
  <2>1. Check(c, "runs", CountActiveRuns(request[c].tenant), MaxConcurrentRuns, next)
    BY <1>2 DEF CheckRuns
  <2>2. next \in Places /\ next # "idle"
    OBVIOUS
  <2>3. CountActiveRuns(request[c].tenant) < MaxConcurrentRuns => ~Saturated(request[c].tenant)
    BY DEF Saturated
  <2> HIDE DEF next
  <2>4. /\ AdmissionTypeOK'
        /\ job' = job /\ reopened' = reopened /\ squeezed' = squeezed
        /\ request[c].pc = "runs"
        /\ \A d \in Creators \ {c} : request'[d] = request[d]
        /\ \/ request'[c].pc = "idle"
           \/ Passed(c, next) /\ CountActiveRuns(request[c].tenant) < MaxConcurrentRuns
    BY <2>1, <2>2, CheckEffect
  <2> QED
    BY <2>3, <2>4 DEF next
<1>3. CASE CheckRecurring(c)
  BY <1>3, CheckEffect DEF CheckRecurring
<1> QED
  BY <1>1, <1>2, <1>3

\* NewJob fills an idle request in, and an error drops one.
LEMMA RequestEffect ==
  ASSUME AdmissionTypeOK, NEW c \in Creators,
         (\E t \in Tenants, kind \in Kinds : NewJob(c, t, kind)) \/ CreateFails(c)
  PROVE  /\ AdmissionTypeOK'
         /\ job' = job /\ reopened' = reopened /\ squeezed' = squeezed
         /\ \A d \in Creators \ {c} : request'[d] = request[d]
         /\ request'[c].pc \in {"idle", "jobs"}
<1>1. PICK r \in Requests : /\ r.pc \in {"idle", "jobs"} /\ (r.pc # "idle" => r.tenant \in Tenants)
                            /\ request' = [request EXCEPT ![c] = r]
                            /\ UNCHANGED <<job, reopened, squeezed>>
  <2>1. CASE CreateFails(c)
    <3>1. Idle \in Requests /\ Idle.pc = "idle"
      BY DEF Idle, Requests, Places
    <3> QED
      BY <2>1, <3>1 DEF CreateFails
  <2>2. ASSUME NEW t \in Tenants, NEW kind \in Kinds, NewJob(c, t, kind)
        PROVE  \E r \in Requests : /\ r.pc \in {"idle", "jobs"} /\ (r.pc # "idle" => r.tenant \in Tenants)
                            /\ request' = [request EXCEPT ![c] = r]
                            /\ UNCHANGED <<job, reopened, squeezed>>
    <3> DEFINE r == [pc |-> "jobs", tenant |-> t, kind |-> kind, age |-> 0]
    <3>1. r \in Requests /\ r.pc = "jobs" /\ r.tenant \in Tenants
      BY DEF Requests, Places
    <3> QED
      BY <2>2, <3>1 DEF NewJob
  <2> QED
    BY <2>1, <2>2
<1>2. request' \in [Creators -> Requests] /\ request'[c] = r
      /\ \A d \in Creators \ {c} : request'[d] = request[d]
  BY <1>1 DEF AdmissionTypeOK
<1>3. AdmissionTypeOK'
  BY <1>1, <1>2 DEF AdmissionTypeOK
<1> QED
  BY <1>1, <1>2, <1>3

\* CreateJobWithRun puts the job of a request into a free row.
LEMMA InsertEffect ==
  ASSUME AdmissionTypeOK, NEW c \in Creators, NEW j \in JobIds, CreateJobWithRun(c, j)
  PROVE  /\ AdmissionTypeOK'
         /\ reopened' = reopened
         /\ request[c].pc = "insert" /\ request[c].tenant \in Tenants
         /\ \A d \in Creators \ {c} : request'[d] = request[d]
         /\ request'[c].pc = "idle"
         /\ \A i \in JobIds \ {j} : job'[i] = job[i]
         /\ job[j] = NoRow
         /\ job'[j].tenant = request[c].tenant /\ job'[j].kind = request[c].kind
         /\ job'[j].age = request[c].age /\ job'[j].run = "pending"
         /\ squeezed' = IF Saturated(request[c].tenant)
                        THEN [squeezed EXCEPT ![request[c].tenant] = @ + 1] ELSE squeezed
<1> DEFINE row == [tenant |-> request[c].tenant, kind |-> request[c].kind,
                   age |-> request[c].age, run |-> "pending"]
<1>1. request[c].pc = "insert" /\ request[c].tenant \in Tenants /\ job[j] = NoRow
  BY DEF CreateJobWithRun, AdmissionTypeOK
<1>2. row \in Rows /\ row.tenant # "none" /\ row.run # NoRow.run
  BY <1>1, AdmissionAssumption DEF AdmissionTypeOK, Requests, Rows, NoRow
<1>3. Idle \in Requests /\ Idle.pc = "idle"
  BY DEF Idle, Requests, Places
<1>4. /\ job' = [job EXCEPT ![j] = row]
      /\ request' = [request EXCEPT ![c] = Idle]
      /\ reopened' = reopened
      /\ squeezed' = IF Saturated(request[c].tenant)
                     THEN [squeezed EXCEPT ![request[c].tenant] = @ + 1] ELSE squeezed
  BY DEF CreateJobWithRun
<1> HIDE DEF row
<1>5. /\ job' \in [JobIds -> Rows] /\ job'[j] = row
      /\ \A i \in JobIds \ {j} : job'[i] = job[i]
  BY <1>2, <1>4 DEF AdmissionTypeOK
<1>6. /\ request' \in [Creators -> Requests] /\ request'[c] = Idle
      /\ \A d \in Creators \ {c} : request'[d] = request[d]
  BY <1>3, <1>4 DEF AdmissionTypeOK
<1>7. squeezed' \in [Tenants -> Nat]
  BY <1>1, <1>4 DEF AdmissionTypeOK
<1>8. \A i \in JobIds : job'[i].tenant = "none" <=> job'[i] = NoRow
  BY <1>2, <1>5 DEF AdmissionTypeOK
<1>9. AdmissionTypeOK'
  BY <1>3, <1>4, <1>5, <1>6, <1>7, <1>8 DEF AdmissionTypeOK
<1> QED
  BY <1>1, <1>3, <1>4, <1>5, <1>6, <1>9 DEF row

\* The status of one run moves, to or from one that is over.
LEMMA MoveEffect ==
  ASSUME AdmissionTypeOK, NEW j \in JobIds,
         NEW from, NEW to \in Over \cup {"pending", "active"}, from # "none",
         MoveRun(j, from, to)
  PROVE  /\ job' \in [JobIds -> Rows] /\ squeezed' \in [Tenants -> Nat]
         /\ \A i \in JobIds : job'[i].tenant = "none" <=> job'[i] = NoRow
         /\ request' = request
         /\ job[j].run = from
         /\ \A i \in JobIds : /\ job'[i].tenant = job[i].tenant /\ job'[i].kind = job[i].kind
                              /\ job'[i].age = job[i].age
         /\ \A i \in JobIds \ {j} : job'[i] = job[i]
         /\ job'[j].run = to
         /\ \A t \in Tenants : squeezed'[t] = IF Saturated(t)' THEN squeezed[t] ELSE 0
<1> DEFINE row == [job[j] EXCEPT !.run = to]
<1>1. /\ row \in Rows /\ row.tenant = job[j].tenant /\ row.kind = job[j].kind
      /\ row.age = job[j].age /\ row.run = to
  BY DEF AdmissionTypeOK, Rows
<1>2. job[j].tenant # "none" /\ row # NoRow
  BY <1>1 DEF MoveRun, AdmissionTypeOK, NoRow
<1>3. /\ job' = [job EXCEPT ![j] = row] /\ request' = request /\ job[j].run = from
      /\ squeezed' = [t \in Tenants |-> IF Saturated(t)' THEN squeezed[t] ELSE 0]
  BY DEF MoveRun
<1> HIDE DEF row
<1>4. /\ job' \in [JobIds -> Rows] /\ job'[j] = row
      /\ \A i \in JobIds \ {j} : job'[i] = job[i]
  BY <1>1, <1>3 DEF AdmissionTypeOK
<1>5. \A i \in JobIds : job'[i].tenant = "none" <=> job'[i] = NoRow
  BY <1>1, <1>2, <1>4 DEF AdmissionTypeOK
<1>6. squeezed' \in [Tenants -> Nat]
  BY <1>3 DEF AdmissionTypeOK
<1>7. \A t \in Tenants : squeezed'[t] = IF Saturated(t)' THEN squeezed[t] ELSE 0
  BY <1>3
<1> QED
  BY <1>1, <1>3, <1>4, <1>5, <1>6, <1>7

\* The moves of the pipeline and of the recurring watcher.
LEMMA MovesEffect ==
  ASSUME AdmissionTypeOK, NEW j \in JobIds, PipelineStep(j) \/ NextRun(j)
  PROVE  /\ AdmissionTypeOK'
         /\ request' = request
         /\ \A i \in JobIds : /\ job'[i].tenant = job[i].tenant /\ job'[i].kind = job[i].kind
                              /\ job'[i].age = job[i].age
         /\ \A i \in JobIds : job'[i].run \notin Over => job[i].run \notin Over \/ i \in reopened'
         /\ reopened \subseteq reopened'
         /\ \A t \in Tenants : squeezed'[t] = IF Saturated(t)' THEN squeezed[t] ELSE 0
<1>1. CASE PipelineStep(j)
  <2>1. PICK move \in RunMoves : MoveRun(j, move[1], move[2]) /\ reopened' = reopened
    BY <1>1 DEF PipelineStep
  <2>2. /\ move[1] \in {"pending", "active"} /\ move[2] \in Over \cup {"pending", "active"}
        /\ move[1] # "none" /\ move[1] \notin Over
    BY DEF RunMoves, Over
  <2> QED
    BY <2>1, <2>2, MoveEffect DEF AdmissionTypeOK
<1>2. CASE NextRun(j)
  <2>1. MoveRun(j, "ended", "pending") /\ reopened' = reopened \cup {j}
    BY <1>2 DEF NextRun
  <2> QED
    BY <2>1, MoveEffect DEF AdmissionTypeOK
<1> QED
  BY <1>1, <1>2

\* Time passes for the rows and for the requests under way.
LEMMA TickEffect ==
  ASSUME AdmissionTypeOK, Tick
  PROVE  /\ AdmissionTypeOK'
         /\ reopened' = reopened /\ squeezed' = squeezed
         /\ \A i \in JobIds : /\ job'[i].tenant = job[i].tenant /\ job'[i].kind = job[i].kind
                              /\ job'[i].run = job[i].run
                              /\ job'[i].age < Hour => job[i].age < Hour
         /\ \A c \in Creators : /\ request'[c].pc = request[c].pc
                                /\ request'[c].tenant = request[c].tenant
                                /\ request'[c].kind = request[c].kind
                                /\ request'[c].age < Hour => request[c].age < Hour
<1>1. ASSUME NEW age \in Nat
      PROVE  Older(age) \in Nat /\ (Older(age) < Hour => age < Hour)
  BY AdmissionAssumption DEF Older
<1>2. ASSUME NEW i \in JobIds
      PROVE  /\ job'[i] \in Rows
             /\ job'[i].tenant = job[i].tenant /\ job'[i].kind = job[i].kind
             /\ job'[i].run = job[i].run
             /\ job'[i].age < Hour => job[i].age < Hour
             /\ job'[i].tenant = "none" <=> job'[i] = NoRow
  <2>1. job[i] \in Rows /\ (job[i].tenant = "none" <=> job[i] = NoRow)
    BY DEF AdmissionTypeOK
  <2>2. job'[i] = IF job[i] = NoRow THEN job[i] ELSE [job[i] EXCEPT !.age = Older(@)]
    BY DEF Tick
  <2>3. CASE job[i] = NoRow
    BY <2>1, <2>2, <2>3
  <2>4. CASE job[i] # NoRow
    BY <1>1, <2>1, <2>2, <2>4 DEF Rows, NoRow
  <2> QED
    BY <2>3, <2>4
<1>3. ASSUME NEW c \in Creators
      PROVE  /\ request'[c] \in Requests
             /\ request'[c].pc = request[c].pc /\ request'[c].tenant = request[c].tenant
             /\ request'[c].kind = request[c].kind
             /\ request'[c].age < Hour => request[c].age < Hour
  <2>1. request[c] \in Requests
    BY DEF AdmissionTypeOK
  <2>2. request'[c] = IF request[c] = Idle THEN request[c] ELSE [request[c] EXCEPT !.age = Older(@)]
    BY DEF Tick
  <2>3. CASE request[c] = Idle
    BY <2>1, <2>2, <2>3
  <2>4. CASE request[c] # Idle
    BY <1>1, <2>1, <2>2, <2>4 DEF Requests
  <2> QED
    BY <2>3, <2>4
<1>4. job' \in [JobIds -> Rows] /\ request' \in [Creators -> Requests]
  BY <1>2, <1>3 DEF Tick
<1>5. reopened' = reopened /\ squeezed' = squeezed
  BY DEF Tick
<1>6. AdmissionTypeOK'
  BY <1>2, <1>3, <1>4, <1>5 DEF AdmissionTypeOK
<1> QED
  BY <1>2, <1>3, <1>5, <1>6

\* The types hold initially and after every step.
LEMMA AdmissionTypes == AdmissionSpec => []AdmissionTypeOK
<1>1. AdmissionInit => AdmissionTypeOK
  <2>1. NoRow \in Rows /\ NoRow.tenant = "none" /\ Idle \in Requests /\ Idle.pc = "idle"
    BY DEF NoRow, Rows, Idle, Requests, Places
  <2> QED
    BY <2>1 DEF AdmissionInit, AdmissionTypeOK
<1>2. AdmissionTypeOK /\ [AdmissionNext]_admissionVars => AdmissionTypeOK'
  <2>1. CASE UNCHANGED admissionVars
    BY <2>1 DEF admissionVars, AdmissionTypeOK
  <2>2. ASSUME AdmissionTypeOK, NEW c \in Creators, CreateStep(c) PROVE AdmissionTypeOK'
    BY <2>2, ChecksEffect, RequestEffect, InsertEffect DEF CreateStep
  <2> QED
    BY <2>1, <2>2, MovesEffect, TickEffect DEF AdmissionNext
<1> QED
  BY <1>1, <1>2, PTL DEF AdmissionSpec

-----------------------------------------------------------------------------

\* No step takes the jobs of the hour, and the requests about to add to them,
\* further over the hourly limit.
LEMMA HourlyStep ==
  ASSUME AdmissionTypeOK, HourlyInv, [AdmissionNext]_admissionVars
  PROVE  HourlyInv'
<1> SUFFICES ASSUME NEW t \in Tenants
             PROVE  Cardinality(JobsCreatedSince(t)') + Cardinality(PastJobs(t)')
                      <= MaxJobsPerHour + Cardinality(Creators) - 1
  BY DEF HourlyInv, CountJobsSince
<1> DEFINE bound == MaxJobsPerHour + Cardinality(Creators) - 1
<1>1. /\ IsFiniteSet(JobsCreatedSince(t)) /\ IsFiniteSet(PastJobs(t))
      /\ Cardinality(JobsCreatedSince(t)) + Cardinality(PastJobs(t)) <= bound
      /\ bound \in Int
  BY AdmissionNumbers, AdmissionAssumption
     DEF HourlyInv, CountJobsSince, JobsCreatedSince, PastJobs
<1> HIDE DEF bound
<1> DEFINE Goal == Cardinality(JobsCreatedSince(t)') + Cardinality(PastJobs(t)') <= bound
<1>2. ASSUME JobsCreatedSince(t)' \subseteq JobsCreatedSince(t), PastJobs(t)' \subseteq PastJobs(t)
      PROVE  Goal
  BY <1>1, <1>2, Shrinking
<1> HIDE DEF Goal
<1>3. ASSUME NEW c \in Creators, CreateStep(c) PROVE Goal
  <2>1. CASE (\E u \in Tenants, kind \in Kinds : NewJob(c, u, kind)) \/ CreateFails(c)
    BY <1>2, <2>1, RequestEffect DEF JobsCreatedSince, PastJobs
  <2>2. CASE CheckJobs(c) \/ CheckRuns(c) \/ CheckRecurring(c)
    <3>1. JobsCreatedSince(t)' = JobsCreatedSince(t)
      BY <2>2, ChecksEffect DEF JobsCreatedSince
    <3>2. CASE Cardinality(JobsCreatedSince(t)) < MaxJobsPerHour
      <4>1. Cardinality(PastJobs(t)') <= Cardinality(Creators) /\ Cardinality(PastJobs(t)') \in Nat
        BY AdmissionNumbers DEF PastJobs
      <4>2. Cardinality(JobsCreatedSince(t)) \in Nat /\ Cardinality(Creators) \in Nat
        BY AdmissionNumbers DEF JobsCreatedSince
      <4> QED
        BY <3>1, <3>2, <4>1, <4>2, AdmissionAssumption DEF Goal, bound
    <3>3. CASE ~(Cardinality(JobsCreatedSince(t)) < MaxJobsPerHour)
      <4>1. c \in PastJobs(t)' => c \in PastJobs(t)
        BY <2>2, <3>3, ChecksEffect DEF PastJobs, Passed, CountJobsSince
      <4>2. PastJobs(t)' \subseteq PastJobs(t)
        BY <2>2, <4>1, ChecksEffect DEF PastJobs
      <4> QED
        BY <1>2, <3>1, <4>2
    <3> QED
      BY <3>2, <3>3
  <2>3. ASSUME NEW j \in JobIds, CreateJobWithRun(c, j) PROVE Goal
    <3>1. PastJobs(t)' \subseteq PastJobs(t) \ {c}
      <4>1. request'[c].pc = "idle" /\ \A d \in Creators \ {c} : request'[d] = request[d]
        BY <2>3, InsertEffect
      <4> QED
        BY <4>1 DEF PastJobs
    <3>2. \A i \in JobIds : i # j => (i \in JobsCreatedSince(t)' <=> i \in JobsCreatedSince(t))
      BY <2>3, InsertEffect DEF JobsCreatedSince
    <3>3. CASE c \in PastJobs(t)
      <4>1. JobsCreatedSince(t)' \subseteq JobsCreatedSince(t) \cup {j}
        BY <3>2 DEF JobsCreatedSince
      <4> QED
        BY <1>1, <3>1, <3>3, <4>1, Moving DEF Goal
    <3>4. CASE c \notin PastJobs(t)
      <4>1. j \notin JobsCreatedSince(t)'
        <5>1. /\ job'[j].tenant = request[c].tenant /\ job'[j].age = request[c].age
              /\ request[c].pc = "insert"
          BY <2>3, InsertEffect
        <5> QED
          BY <3>4, <5>1 DEF JobsCreatedSince, PastJobs
      <4>2. JobsCreatedSince(t)' \subseteq JobsCreatedSince(t)
        BY <3>2, <4>1 DEF JobsCreatedSince
      <4> QED
        BY <1>2, <3>1, <4>2
    <3> QED
      BY <3>3, <3>4
  <2> QED
    BY <1>3, <2>1, <2>2, <2>3 DEF CreateStep
<1>4. ASSUME NEW j \in JobIds, PipelineStep(j) \/ NextRun(j) PROVE Goal
  BY <1>2, <1>4, MovesEffect DEF JobsCreatedSince, PastJobs
<1>5. CASE Tick
  <2>1. JobsCreatedSince(t)' \subseteq JobsCreatedSince(t)
    BY <1>5, TickEffect DEF JobsCreatedSince
  <2>2. PastJobs(t)' \subseteq PastJobs(t)
    BY <1>5, TickEffect DEF PastJobs
  <2> QED
    BY <1>2, <2>1, <2>2 DEF Goal, bound
<1>6. CASE UNCHANGED admissionVars
  <2>1. JobsCreatedSince(t)' = JobsCreatedSince(t) /\ PastJobs(t)' = PastJobs(t)
    BY <1>6 DEF admissionVars, JobsCreatedSince, PastJobs
  <2> QED
    BY <1>2, <2>1 DEF Goal, bound
<1> QED
  BY <1>3, <1>4, <1>5, <1>6 DEF AdmissionNext, Goal, bound

\* Concurrent requests take a tenant at most one job each over the hourly
\* limit (checkQuota counts before CreateJobWithRun inserts).
THEOREM HourlyOvershoot == AdmissionSpec => []HourlyOvershootBounded
<1>1. AdmissionInit => HourlyInv
  <2> SUFFICES ASSUME AdmissionInit, NEW t \in Tenants
               PROVE  CountJobsSince(t) + Cardinality(PastJobs(t))
                        <= MaxJobsPerHour + Cardinality(Creators) - 1
    BY DEF HourlyInv
  <2>1. JobsCreatedSince(t) = {} /\ PastJobs(t) = {}
    BY AdmissionAssumption DEF AdmissionInit, JobsCreatedSince, PastJobs, NoRow, Idle
  <2> QED
    BY <2>1, FS_EmptySet, AdmissionNumbers, AdmissionAssumption DEF CountJobsSince
<1>2. HourlyInv => HourlyOvershootBounded
  <2> SUFFICES ASSUME HourlyInv, NEW t \in Tenants
               PROVE  CountJobsSince(t) <= MaxJobsPerHour + Cardinality(Creators) - 1
    BY DEF HourlyOvershootBounded
  <2>1. Cardinality(PastJobs(t)) \in Nat /\ CountJobsSince(t) \in Nat
    BY AdmissionNumbers, QueryNumbers DEF PastJobs
  <2> QED
    BY <2>1, AdmissionNumbers, AdmissionAssumption DEF HourlyInv
<1> QED
  BY <1>1, <1>2, AdmissionTypes, HourlyStep, PTL DEF AdmissionSpec

-----------------------------------------------------------------------------

\* No step takes a saturated tenant's late admissions, and the requests that
\* may still become one, over the number of requests.
LEMMA SaturationStep ==
  ASSUME AdmissionTypeOK, SaturationInv, [AdmissionNext]_admissionVars
  PROVE  SaturationInv'
<1> SUFFICES ASSUME NEW t \in Tenants
             PROVE  IF Saturated(t)'
                    THEN squeezed'[t] + Cardinality(PastRuns(t)') <= Cardinality(Creators)
                    ELSE squeezed'[t] = 0
  BY DEF SaturationInv
<1> DEFINE Goal == IF Saturated(t)'
                   THEN squeezed'[t] + Cardinality(PastRuns(t)') <= Cardinality(Creators)
                   ELSE squeezed'[t] = 0
<1>0. /\ squeezed[t] \in Nat
      /\ IF Saturated(t) THEN squeezed[t] + Cardinality(PastRuns(t)) <= Cardinality(Creators)
                         ELSE squeezed[t] = 0
  BY DEF SaturationInv, AdmissionTypeOK
<1>1. /\ IsFiniteSet(PastRuns(t))
      /\ Cardinality(PastRuns(t)) \in Nat /\ Cardinality(PastRuns(t)') \in Nat
      /\ Cardinality(PastRuns(t)') <= Cardinality(Creators) /\ Cardinality(Creators) \in Nat
  BY AdmissionNumbers DEF PastRuns
<1>2. ASSUME PastRuns(t)' \subseteq PastRuns(t)
      PROVE  Cardinality(PastRuns(t)') <= Cardinality(PastRuns(t))
  BY <1>1, <1>2, FS_Subset
<1>3. ASSUME Saturated(t)' <=> Saturated(t), squeezed'[t] = squeezed[t],
             Saturated(t) => PastRuns(t)' \subseteq PastRuns(t)
      PROVE  Goal
  BY <1>0, <1>1, <1>2, <1>3
<1> HIDE DEF Goal
<1>4. ASSUME NEW c \in Creators, CreateStep(c) PROVE Goal
  <2>1. CASE (\E u \in Tenants, kind \in Kinds : NewJob(c, u, kind)) \/ CreateFails(c)
    <3>1. (Saturated(t)' <=> Saturated(t)) /\ squeezed' = squeezed
      BY <2>1, RequestEffect DEF Saturated, CountActiveRuns, ActiveRuns
    <3>2. PastRuns(t)' \subseteq PastRuns(t)
      BY <2>1, RequestEffect DEF PastRuns
    <3> QED
      BY <1>3, <3>1, <3>2
  <2>2. CASE CheckJobs(c) \/ CheckRuns(c) \/ CheckRecurring(c)
    <3>1. (Saturated(t)' <=> Saturated(t)) /\ squeezed' = squeezed
      BY <2>2, ChecksEffect DEF Saturated, CountActiveRuns, ActiveRuns
    <3>2. Saturated(t) => (c \in PastRuns(t)' => c \in PastRuns(t))
      BY <2>2, ChecksEffect DEF PastRuns, Passed
    <3>3. Saturated(t) => PastRuns(t)' \subseteq PastRuns(t)
      BY <2>2, <3>2, ChecksEffect DEF PastRuns
    <3> QED
      BY <1>3, <3>1, <3>3
  <2>3. ASSUME NEW j \in JobIds, CreateJobWithRun(c, j) PROVE Goal
    <3>1. /\ request'[c].pc = "idle" /\ request[c].pc = "insert"
          /\ \A d \in Creators \ {c} : request'[d] = request[d]
          /\ \A i \in JobIds \ {j} : job'[i] = job[i]
          /\ job[j] = NoRow /\ job'[j].run = "pending"
          /\ squeezed' = IF Saturated(request[c].tenant)
                        THEN [squeezed EXCEPT ![request[c].tenant] = @ + 1] ELSE squeezed
      BY <2>3, InsertEffect
    <3>2. ActiveRuns(t)' = ActiveRuns(t)
      BY <3>1 DEF ActiveRuns, NoRow
    <3>3. Saturated(t)' <=> Saturated(t)
      BY <3>2 DEF Saturated, CountActiveRuns
    <3>4. PastRuns(t)' = PastRuns(t) \ {c}
      BY <3>1 DEF PastRuns
    <3>5. CASE Saturated(t) /\ request[c].tenant = t
      <4>1. squeezed'[t] = squeezed[t] + 1
        BY <3>1, <3>5 DEF AdmissionTypeOK
      <4>2. c \in PastRuns(t)
        BY <3>1, <3>5 DEF PastRuns
      <4>3. Cardinality(PastRuns(t)') = Cardinality(PastRuns(t)) - 1
        BY <1>1, <3>4, <4>2, FS_RemoveElement
      <4> QED
        BY <1>0, <1>1, <3>3, <3>5, <4>1, <4>3 DEF Goal
    <3>6. CASE ~(Saturated(t) /\ request[c].tenant = t)
      <4>1. squeezed'[t] = squeezed[t]
        BY <3>1, <3>6 DEF AdmissionTypeOK
      <4> QED
        BY <1>3, <3>3, <3>4, <4>1
    <3> QED
      BY <3>5, <3>6
  <2> QED
    BY <1>4, <2>1, <2>2, <2>3 DEF CreateStep
<1>5. ASSUME NEW j \in JobIds, PipelineStep(j) \/ NextRun(j) PROVE Goal
  <2>1. squeezed'[t] = IF Saturated(t)' THEN squeezed[t] ELSE 0
    BY <1>5, MovesEffect
  <2>2. PastRuns(t)' = PastRuns(t)
    BY <1>5, MovesEffect DEF PastRuns
  <2> QED
    BY <1>0, <1>1, <2>1, <2>2 DEF Goal
<1>6. CASE Tick
  <2>1. ActiveRuns(t)' = ActiveRuns(t)
    BY <1>6, TickEffect DEF ActiveRuns
  <2>2. (Saturated(t)' <=> Saturated(t)) /\ squeezed' = squeezed
    BY <1>6, <2>1, TickEffect DEF Saturated, CountActiveRuns
  <2>3. PastRuns(t)' \subseteq PastRuns(t)
    BY <1>6, TickEffect DEF PastRuns
  <2> QED
    BY <1>3, <2>2, <2>3 DEF Goal
<1>7. CASE UNCHANGED admissionVars
  <2>1. (Saturated(t)' <=> Saturated(t)) /\ squeezed' = squeezed
    BY <1>7 DEF admissionVars, Saturated, CountActiveRuns, ActiveRuns
  <2>2. PastRuns(t)' \subseteq PastRuns(t)
    BY <1>7 DEF admissionVars, PastRuns
  <2> QED
    BY <1>3, <2>1, <2>2 DEF Goal
<1> QED
  BY <1>4, <1>5, <1>6, <1>7 DEF AdmissionNext, Goal

\* A saturated tenant gets no more jobs than there are requests past the check
\* (checkQuota refuses while CountActiveRuns is at the limit).
THEOREM SaturationStops == AdmissionSpec => []SaturationStopsAdmission
<1>1. AdmissionInit => SaturationInv
  <2> SUFFICES ASSUME AdmissionInit, NEW t \in Tenants
               PROVE  /\ squeezed[t] = 0
                      /\ squeezed[t] + Cardinality(PastRuns(t)) <= Cardinality(Creators)
    BY DEF SaturationInv
  <2>1. squeezed[t] = 0
    BY DEF AdmissionInit
  <2>2. Cardinality(PastRuns(t)) \in Nat /\ Cardinality(PastRuns(t)) <= Cardinality(Creators)
    BY AdmissionNumbers DEF PastRuns
  <2> QED
    BY <2>1, <2>2, AdmissionNumbers
<1>2. AdmissionTypeOK /\ SaturationInv => SaturationStopsAdmission
  <2> SUFFICES ASSUME AdmissionTypeOK, SaturationInv, NEW t \in Tenants
               PROVE  squeezed[t] <= Cardinality(Creators)
    BY DEF SaturationStopsAdmission
  <2>1. Cardinality(PastRuns(t)) \in Nat /\ squeezed[t] \in Nat
    BY AdmissionNumbers DEF PastRuns, AdmissionTypeOK
  <2> QED
    BY <2>1, AdmissionNumbers DEF SaturationInv
<1> QED
  BY <1>1, <1>2, AdmissionTypes, SaturationStep, PTL DEF AdmissionSpec

-----------------------------------------------------------------------------

\* No step takes the active recurring jobs that never got a second run, and
\* the requests about to add to them, further over the limit.
LEMMA RecurringStep ==
  ASSUME AdmissionTypeOK, RecurringInv, [AdmissionNext]_admissionVars
  PROVE  RecurringInv'
<1> SUFFICES ASSUME NEW t \in Tenants
             PROVE  Cardinality((ActiveRecurring(t) \ reopened)') + Cardinality(PastRecurring(t)')
                      <= MaxActiveRecurring + Cardinality(Creators) - 1
  BY DEF RecurringInv
<1> DEFINE bound == MaxActiveRecurring + Cardinality(Creators) - 1
           First == ActiveRecurring(t) \ reopened
           Goal == Cardinality(First') + Cardinality(PastRecurring(t)') <= bound
<1>1. /\ IsFiniteSet(First) /\ IsFiniteSet(PastRecurring(t))
      /\ Cardinality(First) + Cardinality(PastRecurring(t)) <= bound
      /\ bound \in Int
  BY AdmissionNumbers, AdmissionAssumption DEF RecurringInv, ActiveRecurring, PastRecurring
<1> HIDE DEF bound
<1>2. ASSUME First' \subseteq First, PastRecurring(t)' \subseteq PastRecurring(t)
      PROVE  Goal
  BY <1>1, <1>2, Shrinking
<1> HIDE DEF Goal
<1>3. ASSUME NEW c \in Creators, CreateStep(c) PROVE Goal
  <2>1. CASE (\E u \in Tenants, kind \in Kinds : NewJob(c, u, kind)) \/ CreateFails(c)
    <3>1. First' = First
      BY <2>1, RequestEffect DEF ActiveRecurring
    <3>2. PastRecurring(t)' \subseteq PastRecurring(t)
      BY <2>1, RequestEffect DEF PastRecurring
    <3> QED
      BY <1>2, <3>1, <3>2
  <2>2. CASE CheckJobs(c) \/ CheckRuns(c) \/ CheckRecurring(c)
    <3>1. First' = First
      BY <2>2, ChecksEffect DEF ActiveRecurring
    <3>2. CASE CountActiveRecurring(t) < MaxActiveRecurring
      <4>1. /\ Cardinality(PastRecurring(t)') <= Cardinality(Creators)
            /\ Cardinality(PastRecurring(t)') \in Nat /\ Cardinality(Creators) \in Nat
        BY AdmissionNumbers DEF PastRecurring
      <4>2. IsFiniteSet(ActiveRecurring(t)) /\ First \subseteq ActiveRecurring(t)
        BY AdmissionNumbers DEF ActiveRecurring
      <4>3. Cardinality(First) <= Cardinality(ActiveRecurring(t))
        BY <4>2, FS_Subset
      <4>4. Cardinality(First) \in Nat /\ Cardinality(ActiveRecurring(t)) \in Nat
        BY <1>1, <4>2, FS_CardinalityType
      <4>5. Cardinality(First) < MaxActiveRecurring
        BY <3>2, <4>3, <4>4, AdmissionAssumption DEF CountActiveRecurring
      <4> HIDE DEF First
      <4> QED
        BY <3>1, <4>1, <4>4, <4>5, AdmissionAssumption DEF Goal, bound
    <3>3. CASE ~(CountActiveRecurring(t) < MaxActiveRecurring)
      <4>1. c \in PastRecurring(t)' => c \in PastRecurring(t)
        BY <2>2, <3>3, ChecksEffect DEF PastRecurring, Passed
      <4>2. PastRecurring(t)' \subseteq PastRecurring(t)
        BY <2>2, <4>1, ChecksEffect DEF PastRecurring
      <4> QED
        BY <1>2, <3>1, <4>2
    <3> QED
      BY <3>2, <3>3
  <2>3. ASSUME NEW j \in JobIds, CreateJobWithRun(c, j) PROVE Goal
    <3>1. /\ request'[c].pc = "idle" /\ request[c].pc = "insert"
          /\ \A d \in Creators \ {c} : request'[d] = request[d]
          /\ \A i \in JobIds \ {j} : job'[i] = job[i]
          /\ job'[j].tenant = request[c].tenant /\ job'[j].kind = request[c].kind
          /\ reopened' = reopened
      BY <2>3, InsertEffect
    <3>2. PastRecurring(t)' \subseteq PastRecurring(t) \ {c}
      BY <3>1 DEF PastRecurring
    <3>3. First' \subseteq First \cup {j}
      BY <3>1 DEF ActiveRecurring
    <3>4. CASE c \in PastRecurring(t)
      <4> HIDE DEF First
      <4> QED
        BY <1>1, <3>2, <3>3, <3>4, Moving DEF Goal
    <3>5. CASE c \notin PastRecurring(t)
      <4>1. j \notin First'
        BY <3>1, <3>5 DEF ActiveRecurring, PastRecurring
      <4> QED
        BY <1>2, <3>2, <3>3, <4>1
    <3> QED
      BY <3>4, <3>5
  <2> QED
    BY <1>3, <2>1, <2>2, <2>3 DEF CreateStep
<1>4. ASSUME NEW j \in JobIds, PipelineStep(j) \/ NextRun(j) PROVE Goal
  <2>1. First' \subseteq First
    BY <1>4, MovesEffect DEF ActiveRecurring
  <2>2. PastRecurring(t)' = PastRecurring(t)
    BY <1>4, MovesEffect DEF PastRecurring
  <2> QED
    BY <1>2, <2>1, <2>2
<1>5. CASE Tick
  <2>1. First' = First
    BY <1>5, TickEffect DEF ActiveRecurring
  <2>2. PastRecurring(t)' = PastRecurring(t)
    BY <1>5, TickEffect DEF PastRecurring
  <2> QED
    BY <1>2, <2>1, <2>2 DEF Goal, bound
<1>6. CASE UNCHANGED admissionVars
  <2>1. First' = First
    BY <1>6 DEF admissionVars, ActiveRecurring
  <2>2. PastRecurring(t)' = PastRecurring(t)
    BY <1>6 DEF admissionVars, PastRecurring
  <2> QED
    BY <1>2, <2>1, <2>2 DEF Goal, bound
<1> QED
  BY <1>3, <1>4, <1>5, <1>6 DEF AdmissionNext, Goal, bound

\* Concurrent requests, and jobs between two runs when the query counted, are
\* all that takes a tenant over the limit on recurring jobs.
THEOREM RecurringOvershoot == AdmissionSpec => []RecurringOvershootBounded
<1>1. AdmissionInit => RecurringInv
  <2> SUFFICES ASSUME AdmissionInit, NEW t \in Tenants
               PROVE  Cardinality(ActiveRecurring(t) \ reopened) + Cardinality(PastRecurring(t))
                        <= MaxActiveRecurring + Cardinality(Creators) - 1
    BY DEF RecurringInv
  <2>1. ActiveRecurring(t) \ reopened = {} /\ PastRecurring(t) = {}
    BY DEF AdmissionInit, ActiveRecurring, PastRecurring, NoRow, Idle
  <2> QED
    BY <2>1, FS_EmptySet, AdmissionNumbers, AdmissionAssumption
<1>2. AdmissionTypeOK /\ RecurringInv => RecurringOvershootBounded
  <2> SUFFICES ASSUME AdmissionTypeOK, RecurringInv, NEW t \in Tenants
               PROVE  Cardinality(ActiveRecurring(t))
                        <= MaxActiveRecurring + Cardinality(Creators) - 1 + Cardinality(reopened)
    BY DEF RecurringOvershootBounded
  <2> DEFINE First == ActiveRecurring(t) \ reopened
  <2>1. /\ IsFiniteSet(First) /\ IsFiniteSet(reopened) /\ IsFiniteSet(ActiveRecurring(t))
        /\ Cardinality(First) \in Nat /\ Cardinality(reopened) \in Nat
        /\ Cardinality(ActiveRecurring(t)) \in Nat /\ Cardinality(PastRecurring(t)) \in Nat
    BY AdmissionNumbers DEF AdmissionTypeOK, ActiveRecurring, PastRecurring
  <2>2. ActiveRecurring(t) \subseteq First \cup reopened
    OBVIOUS
  <2>3. Cardinality(First) + Cardinality(PastRecurring(t))
          <= MaxActiveRecurring + Cardinality(Creators) - 1
    BY DEF RecurringInv
  <2> HIDE DEF First
  <2>4. /\ IsFiniteSet(First \cup reopened)
        /\ Cardinality(First \cup reopened) =
             Cardinality(First) + Cardinality(reopened) - Cardinality(First \cap reopened)
    BY <2>1, FS_Union
  <2>5. Cardinality(First \cap reopened) \in Nat
    BY <2>1, FS_Intersection, FS_CardinalityType
  <2>6. Cardinality(ActiveRecurring(t)) <= Cardinality(First \cup reopened)
    BY <2>2, <2>4, FS_Subset
  <2>7. Cardinality(First \cup reopened) \in Nat
    BY <2>4, FS_CardinalityType
  <2> QED
    BY <2>1, <2>3, <2>4, <2>5, <2>6, <2>7, AdmissionNumbers, AdmissionAssumption
<1> QED
  BY <1>1, <1>2, AdmissionTypes, RecurringStep, PTL DEF AdmissionSpec

=============================================================================
