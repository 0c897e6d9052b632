---------------------------- MODULE CostProofs -----------------------------
(***************************************************************************)
(* For any number of tenants, workers and days, and any policy: the state  *)
(* of CostGuard is well typed, an execution's attempts cost no more than   *)
(* what was reserved for it, a date's cost is within the daily limit but   *)
(* for what the date inherited, and the rows cover what was spent and what *)
(* may still be spent.                                                     *)
(*                                                                         *)
(* The last two add up over workers and dates.  What the fold of the       *)
(* community modules returns on a finite set is shown by induction over    *)
(* its subsets.                                                            *)
(***************************************************************************)
EXTENDS CostGuard, FiniteSetTheorems, WellFoundedInduction, TLAPS

PerAttempt == EstimateCostCents(MaxTokens)

\* What is billed is bounded by the attempts made, an execution that calls the
\* model has an attempt left, and whoever executes passed the policy's limit.
ReservationInv ==
  \A w \in Workers :
    /\ exec[w].actual <= exec[w].billed
    /\ exec[w].billed <= PerAttempt * exec[w].tried
    /\ exec[w].pc = "call" => exec[w].tried < Attempts
    /\ exec[w].pc # "idle" => MaxCostCents < 0 \/ Estimated <= MaxCostCents
    /\ exec[w].pc = "idle" => exec[w].tried = 0

\* A larger number of tokens is not estimated cheaper (EstimateCostCents).
LEMMA EstimateMonotone ==
  ASSUME NEW tokens \in 0 .. MaxTokens
  PROVE  EstimateCostCents(tokens) \in Nat /\ EstimateCostCents(tokens) <= PerAttempt
<1>1. \A n \in Nat : EstimateCostCents(n) \in Nat
  BY DEF EstimateCostCents
<1>2. ASSUME NEW a \in Nat, NEW b \in Nat, a <= b
      PROVE  EstimateCostCents(a) <= EstimateCostCents(b)
  <2>1. (a + 999) \div 1000 <= (b + 999) \div 1000 /\ 0 <= (b + 999) \div 1000
    BY <1>2
  <2> QED
    BY <1>2, <2>1 DEF EstimateCostCents
<1> QED
  BY <1>1, <1>2, CostAssumption DEF PerAttempt

\* The estimate of an execution is a natural number.
LEMMA CostNumbers ==
  /\ PerAttempt \in Nat
  /\ Attempts \in Nat \ {0}
  /\ Estimated = PerAttempt * Attempts
  /\ Estimated \in Nat
<1>1. PerAttempt \in Nat
  BY EstimateMonotone, CostAssumption DEF EstimateCostCents, PerAttempt
<1>2. Attempts \in Nat \ {0}
  BY CostAssumption DEF Attempts
<1>3. \A a, b \in Nat : a * b \in Nat
  OBVIOUS
<1> QED
  BY <1>1, <1>2, <1>3 DEF Estimated, PerAttempt

\* The arithmetic of a number of attempts at a fixed price.
LEMMA Products ==
  ASSUME NEW c \in Nat, NEW a \in Nat, NEW b \in Nat, a <= b
  PROVE  c * a \in Nat /\ c * b \in Nat /\ c * a <= c * b /\ c * (a + 1) = c * a + c
  OBVIOUS

\* A worker that executes nothing.
LEMMA NoExecIsExecution ==
  /\ NoExec \in Executions
  /\ NoExec.pc = "idle" /\ NoExec.actual = 0 /\ NoExec.billed = 0 /\ NoExec.tried = 0
<1>1. (CHOOSE t \in Tenants : TRUE) \in Tenants
  BY CostAssumption
<1> QED
  BY <1>1, CostNumbers DEF NoExec, Executions

-----------------------------------------------------------------------------

CostInv == CostTypeOK /\ ReservationInv

\* Nothing is reserved or spent at the start.
LEMMA CostStart == CostInit => CostInv
<1>1. PerAttempt * 0 = 0 /\ 0 \in 0 .. Days
  BY CostNumbers, CostAssumption
<1> QED
  BY <1>1, NoExecIsExecution DEF CostInit, CostInv, CostTypeOK, ReservationInv

\* An execution that is put back to idle satisfies its part of the invariant.
LEMMA IdleIsWithin ==
  ASSUME NEW w \in Workers, exec'[w] = NoExec
  PROVE  /\ exec'[w].actual <= exec'[w].billed
         /\ exec'[w].billed <= PerAttempt * exec'[w].tried
         /\ exec'[w].pc = "idle" /\ exec'[w].tried = 0
<1>1. PerAttempt * 0 = 0
  BY CostNumbers
<1> QED
  BY <1>1, NoExecIsExecution

\* The statements of the ledger write integers to rows of known days.
LEMMA ReserveDailyCostTypes ==
  ASSUME CostTypeOK, NEW t \in Tenants, NEW committed \in BOOLEAN, ReserveDailyCost(t, committed)
  PROVE  rows' \subseteq TenantDays /\ booked' \in [TenantDays -> Int]
<1>1. <<t, date>> \in TenantDays
  BY DEF CostTypeOK, TenantDays
<1>2. Estimated \in Int
  BY CostNumbers
<1>3. CASE ReserveDailyLLMCost(<<t, date>>, committed)
  <2>1. rows' \subseteq TenantDays
    BY <1>1, <1>3 DEF ReserveDailyLLMCost, CostTypeOK
  <2>2. booked' \in [TenantDays -> Int]
    BY <1>1, <1>2, <1>3 DEF ReserveDailyLLMCost, CostTypeOK
  <2> QED
    BY <2>1, <2>2
<1> QED
  BY <1>3 DEF ReserveDailyCost, CostTypeOK

\* A reservation that commits, or is refused.
LEMMA ReserveKeepsInv ==
  ASSUME CostInv, NEW w \in Workers, NEW t \in Tenants, Reserve(w, t)
  PROVE  CostInv'
<1>1. PICK committed \in BOOLEAN :
        /\ ReserveDailyCost(t, committed)
        /\ exec' = IF committed
                   THEN [exec EXCEPT ![w] = [NoExec EXCEPT !.pc = "call", !.tenant = t]]
                   ELSE exec
  BY DEF Reserve
<1>2. rows' \subseteq TenantDays /\ booked' \in [TenantDays -> Int]
  BY <1>1, ReserveDailyCostTypes DEF CostInv
<1>3. UNCHANGED <<date, spent, carried>> /\ (MaxCostCents < 0 \/ Estimated <= MaxCostCents)
  BY DEF Reserve
<1> DEFINE e == [NoExec EXCEPT !.pc = "call", !.tenant = t]
<1>4. /\ e \in Executions
      /\ e.pc = "call" /\ e.actual = 0 /\ e.billed = 0 /\ e.tried = 0
  BY Zenon, NoExecIsExecution DEF Executions
<1>5. CASE exec' = exec
  BY <1>2, <1>3, <1>5 DEF CostInv, CostTypeOK, ReservationInv
<1>6. CASE exec' = [exec EXCEPT ![w] = e]
  <2> HIDE DEF e
  <2>1. exec' \in [Workers -> Executions]
    BY <1>4, <1>6 DEF CostInv, CostTypeOK
  <2>2. \A v \in Workers : exec'[v] = IF v = w THEN e ELSE exec[v]
    BY <1>6 DEF CostInv, CostTypeOK
  <2>3. PerAttempt * 0 = 0 /\ 0 < Attempts
    BY CostNumbers
  <2>4. ReservationInv'
    BY <1>3, <1>4, <2>2, <2>3 DEF CostInv, ReservationInv
  <2> QED
    BY <1>2, <1>3, <2>1, <2>4 DEF CostInv, CostTypeOK
<1> QED
  BY <1>1, <1>5, <1>6

\* A reservation that commits although its caller saw an error.
LEMMA ReserveUnknownKeepsInv ==
  ASSUME CostInv, NEW w \in Workers, NEW t \in Tenants, ReserveUnknown(w, t)
  PROVE  CostInv'
<1>1. /\ ReserveDailyCost(t, TRUE)
      /\ UNCHANGED <<date, exec, spent, carried>>
  BY Zenon DEF ReserveUnknown
<1>2. rows' \subseteq TenantDays /\ booked' \in [TenantDays -> Int]
  BY Zenon, <1>1, ReserveDailyCostTypes DEF CostInv
<1> QED
  BY <1>1, <1>2 DEF CostInv, CostTypeOK, ReservationInv

\* The record of an execution after one more attempt.
LEMMA UpdateIsExecution ==
  ASSUME NEW x \in Executions, NEW taken \in Nat, NEW cost \in Nat,
         x.tried + 1 \in 0 .. Attempts, NEW s \in {"call", "settle"}
  PROVE  [x EXCEPT !.tried = @ + 1, !.actual = @ + taken, !.billed = @ + cost, !.pc = s]
           \in Executions
<1>1. ASSUME NEW y \in Executions, NEW n \in 0 .. Attempts PROVE [y EXCEPT !.tried = n] \in Executions
  BY DEF Executions
<1>2. ASSUME NEW y \in Executions, NEW n \in Nat PROVE [y EXCEPT !.actual = n] \in Executions
  BY DEF Executions
<1>3. ASSUME NEW y \in Executions, NEW n \in Nat PROVE [y EXCEPT !.billed = n] \in Executions
  BY DEF Executions
<1>4. ASSUME NEW y \in Executions PROVE [y EXCEPT !.pc = s] \in Executions
  BY DEF Executions
<1>5. x.actual + taken \in Nat /\ x.billed + cost \in Nat
  BY DEF Executions
<1> DEFINE a == [x EXCEPT !.tried = @ + 1]
           b == [a EXCEPT !.actual = @ + taken]
           c == [b EXCEPT !.billed = @ + cost]
<1>6. a \in Executions /\ a.actual = x.actual /\ a.billed = x.billed
  BY <1>1 DEF Executions
<1>7. b \in Executions /\ b.billed = x.billed
  <2> HIDE DEF a
  <2> QED
    BY <1>2, <1>5, <1>6 DEF Executions
<1>8. c \in Executions
  <2> HIDE DEF b
  <2> QED
    BY <1>3, <1>5, <1>7
<1>9. [c EXCEPT !.pc = s] \in Executions
  <2> HIDE DEF c
  <2> QED
    BY <1>4, <1>8
<1> QED
  BY <1>9

\* One more attempt costs one more share of the reservation at most.
LEMMA AttemptKeepsInv ==
  ASSUME CostInv, NEW w \in Workers, NEW accepted \in BOOLEAN,
         NEW cost \in Nat, NEW taken \in Nat, cost <= PerAttempt, taken <= cost,
         exec[w].pc = "call", AfterAttempt(w, accepted, taken, cost)
  PROVE  exec' \in [Workers -> Executions] /\ ReservationInv'
<1>1. /\ exec[w] \in Executions
      /\ exec[w].actual <= exec[w].billed
      /\ exec[w].billed <= PerAttempt * exec[w].tried
      /\ exec[w].tried < Attempts
      /\ MaxCostCents < 0 \/ Estimated <= MaxCostCents
  BY DEF CostInv, CostTypeOK, ReservationInv
<1>2. /\ exec[w].tried \in Nat /\ exec[w].actual \in Nat /\ exec[w].billed \in Nat
      /\ exec[w].tenant \in Tenants
      /\ exec[w].tried + 1 \in 0 .. Attempts
  BY <1>1, CostNumbers DEF Executions
<1>3. PICK s \in {"call", "settle"} :
        /\ exec' = [exec EXCEPT ![w].tried = @ + 1, ![w].actual = @ + taken,
                                ![w].billed = @ + cost, ![w].pc = s]
        /\ s = "call" => exec[w].tried + 1 < Attempts
  <2>1. (IF accepted \/ exec[w].tried + 1 >= Attempts THEN "settle" ELSE "call") = "call" =>
          exec[w].tried + 1 < Attempts
    BY <1>2, CostNumbers
  <2> QED
    BY Zenon, <2>1 DEF AfterAttempt
<1>4. exec' \in [Workers -> Executions]
  <2> DEFINE e == [exec[w] EXCEPT !.tried = @ + 1, !.actual = @ + taken,
                                  !.billed = @ + cost, !.pc = s]
  <2>1. e \in Executions
    BY Zenon, <1>1, <1>2, UpdateIsExecution
  <2>2. exec' = [exec EXCEPT ![w] = e]
    BY Zenon, <1>3 DEF CostInv, CostTypeOK
  <2> HIDE DEF e
  <2> QED
    BY <2>1, <2>2 DEF CostInv, CostTypeOK
<1>5. /\ exec'[w].tried = exec[w].tried + 1 /\ exec'[w].actual = exec[w].actual + taken
      /\ exec'[w].billed = exec[w].billed + cost /\ exec'[w].pc = s
      /\ \A v \in Workers \ {w} : exec'[v] = exec[v]
  BY <1>1, <1>2, <1>3 DEF CostInv, CostTypeOK, Executions
<1>6. /\ PerAttempt * (exec[w].tried + 1) = PerAttempt * exec[w].tried + PerAttempt
      /\ PerAttempt * exec[w].tried \in Nat
  <2>1. PerAttempt \in Nat /\ exec[w].tried <= exec[w].tried
    BY <1>2, CostNumbers
  <2> QED
    BY Zenon, <1>2, <2>1, Products
<1>7. exec'[w].billed <= PerAttempt * exec'[w].tried
  <2>1. exec[w].billed + cost <= PerAttempt * exec[w].tried + PerAttempt
    BY <1>1, <1>2, <1>6, CostNumbers
  <2> QED
    BY <1>5, <1>6, <2>1
<1>8. /\ exec'[w].actual <= exec'[w].billed
      /\ exec'[w].pc = "call" => exec'[w].tried < Attempts
      /\ exec'[w].pc # "idle"
  BY <1>1, <1>2, <1>3, <1>5
<1> QED
  BY <1>1, <1>4, <1>5, <1>7, <1>8 DEF CostInv, ReservationInv

\* An attempt, answered in time or not, costs at most PerAttempt.
LEMMA AnswerKeepsInv ==
  ASSUME CostInv, NEW w \in Workers, NEW tokens \in TokenUse, NEW valid \in BOOLEAN,
         Answer(w, tokens, valid) \/ NoAnswer(w, tokens)
  PROVE  CostInv'
<1> DEFINE cost == EstimateCostCents(tokens)
<1>1. cost \in Nat /\ cost <= PerAttempt
  BY EstimateMonotone, CostAssumption
<1>2. UNCHANGED <<date, rows, booked, carried>> /\ exec[w].pc = "call"
  BY Zenon DEF Answer, NoAnswer
<1>3. exec' \in [Workers -> Executions] /\ ReservationInv'
  <2> HIDE DEF cost
  <2>1. CASE Answer(w, tokens, valid)
    <3>1. AfterAttempt(w, valid, cost, cost)
      BY <2>1 DEF Answer, cost
    <3>2. cost <= cost
      BY <1>1
    <3> QED
      BY <1>1, <1>2, <3>1, <3>2, AttemptKeepsInv
  <2>2. CASE NoAnswer(w, tokens)
    <3>1. AfterAttempt(w, FALSE, 0, cost)
      BY Zenon, <2>2 DEF NoAnswer, cost
    <3>2. 0 <= cost
      BY <1>1
    <3> QED
      BY Zenon, <1>1, <1>2, <3>1, <3>2, AttemptKeepsInv
  <2> QED
    BY <2>1, <2>2
<1>4. spent' \in [TenantDays -> Nat]
  <2>1. <<exec[w].tenant, date>> \in TenantDays
    BY DEF CostInv, CostTypeOK, TenantDays, Executions
  <2>2. CASE spent' = [spent EXCEPT ![<<exec[w].tenant, date>>] = @ + cost]
    <3> HIDE DEF cost
    <3> QED
      BY <1>1, <2>1, <2>2 DEF CostInv, CostTypeOK
  <2>3. CASE UNCHANGED spent
    BY <2>3 DEF CostInv, CostTypeOK
  <2> QED
    BY Zenon, <2>2, <2>3 DEF Answer, NoAnswer
<1> QED
  BY <1>2, <1>3, <1>4 DEF CostInv, CostTypeOK

\* The reconciliation, and a lost one.
LEMMA SettleKeepsInv ==
  ASSUME CostInv, NEW w \in Workers, NEW lost \in BOOLEAN, Settle(w, lost)
  PROVE  CostInv'
<1> DEFINE delta == exec[w].actual - Estimated
<1>1. delta \in Int
  BY CostNumbers DEF CostInv, CostTypeOK, Executions
<1>2. exec' = [exec EXCEPT ![w] = NoExec] /\ UNCHANGED <<date, rows, spent, carried>>
  BY DEF Settle
<1>3. booked' \in [TenantDays -> Int]
  <2>1. CASE UNCHANGED booked
    BY <2>1 DEF CostInv, CostTypeOK
  <2>2. CASE AdjustDailyLLMCost(<<exec[w].tenant, date>>, delta)
    <3> HIDE DEF delta
    <3> QED
      BY <1>1, <2>2 DEF AdjustDailyLLMCost, CostInv, CostTypeOK
  <2> QED
    BY <2>1, <2>2 DEF Settle
<1>4. /\ exec' \in [Workers -> Executions]
      /\ \A v \in Workers : exec'[v] = NoExec \/ exec'[v] = exec[v]
  BY <1>2, NoExecIsExecution DEF CostInv, CostTypeOK
<1>5. ReservationInv'
  BY <1>4, IdleIsWithin, CostNumbers DEF CostInv, ReservationInv
<1> QED
  BY <1>2, <1>3, <1>4, <1>5 DEF CostInv, CostTypeOK

\* The process restarts with no execution.
LEMMA CrashKeepsInv ==
  ASSUME CostInv, Crash
  PROVE  CostInv'
<1>1. exec' \in [Workers -> Executions] /\ \A w \in Workers : exec'[w] = NoExec
  BY NoExecIsExecution DEF Crash
<1>2. ReservationInv'
  BY <1>1, IdleIsWithin DEF ReservationInv
<1> QED
  BY <1>1, <1>2 DEF Crash, CostInv, CostTypeOK

\* The date changes under the executions.
LEMMA MidnightKeepsInv ==
  ASSUME CostInv, Midnight
  PROVE  CostInv'
<1>1. date' \in 0 .. Days
  BY CostAssumption DEF Midnight, CostInv, CostTypeOK
<1>2. ASSUME NEW t \in Tenants
      PROVE  Cardinality(Open(t)) \in Nat
  BY CostAssumption, FS_Subset, FS_CardinalityType DEF Open
<1>3. carried' \in [TenantDays -> Nat]
  BY <1>2 DEF Midnight, CostInv, CostTypeOK, TenantDays
<1> QED
  BY <1>1, <1>3 DEF Midnight, CostInv, CostTypeOK, ReservationInv

\* CostInv is an invariant of the cost guard, whatever calls fail and wherever
\* a crash strikes.
THEOREM CostInvariant == CostSpec => []CostInv
<1>1. CostInv /\ [CostNext]_costVars => CostInv'
  <2> SUFFICES ASSUME CostInv, [CostNext]_costVars
               PROVE  CostInv'
    OBVIOUS
  <2>1. ASSUME NEW w \in Workers, ExecuteStep(w) PROVE CostInv'
    BY Zenon, <2>1, ReserveKeepsInv, ReserveUnknownKeepsInv, AnswerKeepsInv, SettleKeepsInv
    DEF ExecuteStep
  <2>2. CASE UNCHANGED costVars
    BY <2>2 DEF costVars, CostInv, CostTypeOK, ReservationInv
  <2> QED
    BY <2>1, <2>2, CrashKeepsInv, MidnightKeepsInv DEF CostNext
<1> QED
  BY <1>1, CostStart, PTL DEF CostSpec

\* The state of the cost guard is well typed (CostGuard.CostTypeOK).
THEOREM CostTypeCorrect == CostSpec => []CostTypeOK
<1>1. CostInv => CostTypeOK
  BY DEF CostInv
<1> QED
  BY <1>1, CostInvariant, PTL

\* The answers Execute saw cost no more than its reservation.
LEMMA ActualWithin ==
  ASSUME CostInv, NEW w \in Workers
  PROVE  exec[w].actual \in 0 .. Estimated /\ exec[w].billed <= Estimated
<1>1. /\ exec[w].tried \in 0 .. Attempts /\ exec[w].billed \in Nat /\ exec[w].actual \in Nat
      /\ exec[w].billed <= PerAttempt * exec[w].tried /\ exec[w].actual <= exec[w].billed
  BY DEF CostInv, CostTypeOK, ReservationInv, Executions
<1>2. PerAttempt * exec[w].tried <= PerAttempt * Attempts /\ PerAttempt * exec[w].tried \in Nat
  <2>1. /\ PerAttempt \in Nat /\ exec[w].tried \in Nat /\ Attempts \in Nat
        /\ exec[w].tried <= Attempts
    BY <1>1, CostNumbers
  <2> QED
    BY <2>1, Products
<1> QED
  BY <1>1, <1>2, CostNumbers

\* The attempts of an execution cost no more than its reservation and the
\* policy's limit (CostGuard.WithinReservation).
THEOREM AttemptsWithinReservation == CostSpec => []WithinReservation
<1>1. CostInv => WithinReservation
  <2> SUFFICES ASSUME CostInv, NEW w \in Workers
               PROVE  /\ exec[w].billed <= Estimated
                      /\ MaxCostCents >= 0 => exec[w].billed <= MaxCostCents
    BY DEF WithinReservation
  <2>1. /\ exec[w].billed \in Nat /\ exec[w].tried \in Nat
        /\ exec[w].billed <= PerAttempt * exec[w].tried
    BY DEF CostInv, CostTypeOK, ReservationInv, Executions
  <2>2. exec[w].billed <= Estimated
    BY ActualWithin
  <2>3. CASE exec[w].pc = "idle"
    <3>1. exec[w].tried = 0
      BY <2>3 DEF CostInv, ReservationInv
    <3>2. PerAttempt * 0 = 0
      BY CostNumbers
    <3>3. exec[w].billed = 0
      BY <2>1, <3>1, <3>2
    <3> QED
      BY <2>2, <3>3, CostAssumption
  <2>4. CASE exec[w].pc # "idle"
    <3>1. MaxCostCents < 0 \/ Estimated <= MaxCostCents
      BY <2>4 DEF CostInv, ReservationInv
    <3> QED
      BY <2>1, <2>2, <3>1, CostNumbers, CostAssumption
  <2> QED
    BY <2>3, <2>4
<1> QED
  BY <1>1, CostInvariant, PTL

-----------------------------------------------------------------------------
(* Sums over finite sets. *)

\* Induction over the subsets of a finite set: P holds of each of them if it
\* holds of one whenever it holds of all smaller ones.
LEMMA SubsetInduction ==
  ASSUME NEW S, IsFiniteSet(S), NEW P,
         \A T \in SUBSET S : (\A U \in SUBSET T : U # T => U \in P) => T \in P
  PROVE  SUBSET S \subseteq P
<1>1. IsWellFoundedOn(StrictSubsetOrdering(S), SUBSET S)
  <2>1. FiniteSubsetsOf(S) = SUBSET S
    BY FS_FiniteSubsetsOfFinite, Zenon
  <2>2. IsWellFoundedOn(StrictSubsetOrdering(S), FiniteSubsetsOf(S))
    BY FS_StrictSubsetOrderingWellFounded, Zenon
  <2> QED
    BY <2>1, <2>2, Zenon
<1> DEFINE Bad == (SUBSET S) \ P
<1> SUFFICES ASSUME Bad # {} PROVE FALSE
  OBVIOUS
<1>a. Bad \subseteq SUBSET S /\ Bad # {}
  OBVIOUS
<1> HIDE DEF Bad
<1> DEFINE R == StrictSubsetOrdering(S)
           All == SUBSET S
<1>b. IsWellFoundedOn(R, All) /\ Bad \subseteq All /\ Bad # {}
  BY <1>1, <1>a
<1> HIDE DEF R, All
<1>2. PICK T \in Bad : \A U \in Bad : ~ (<<U, T>> \in R)
  BY <1>b, WFMin
<1> USE DEF Bad, R
<1>3. ASSUME NEW U \in SUBSET T, U # T PROVE U \in P
  <2>1. U \in SUBSET S /\ T \in SUBSET S
    OBVIOUS
  <2>2. <<U, T>> \in StrictSubsetOrdering(S)
    BY <1>3, <2>1 DEF StrictSubsetOrdering
  <2> QED
    BY <1>2, <2>1, <2>2
<1> QED
  BY <1>3

Pick(s) == CHOOSE x \in s : TRUE

\* g is the fold of f over the subsets of S.
IsFold(g, f, S) == g = [s \in SUBSET S |-> IF s = {} THEN 0 ELSE f[Pick(s)] + g[s \ {Pick(s)}]]

LEMMA TotalDef ==
  ASSUME NEW f, NEW S
  PROVE  Total(f, S) = (CHOOSE g : IsFold(g, f, S))[S]
  BY DEF Total, MapThenSumSet, MapThenFoldSet, IsFold, Pick


\* Pick takes an element.
LEMMA PickIn == ASSUME NEW s, s # {} PROVE Pick(s) \in s
  BY DEF Pick

\* What a fold is at a set.
LEMMA FoldsAt ==
  ASSUME NEW g, NEW f, NEW S, IsFold(g, f, S), NEW s \in SUBSET S
  PROVE  g[s] = IF s = {} THEN 0 ELSE f[Pick(s)] + g[s \ {Pick(s)}]
  BY DEF IsFold

\* Two folds agree where both are defined.
LEMMA FoldsUnique ==
  ASSUME NEW f, NEW S, IsFiniteSet(S), NEW T, NEW g, NEW h, IsFold(g, f, S), IsFold(h, f, T)
  PROVE  \A s \in SUBSET S : s \subseteq T => g[s] = h[s]
<1> DEFINE P == {s \in SUBSET S : s \subseteq T => g[s] = h[s]}
<1>1. ASSUME NEW s \in SUBSET S, \A u \in SUBSET s : u # s => u \in P
      PROVE  s \in P
  <2> SUFFICES ASSUME s \subseteq T PROVE g[s] = h[s]
    OBVIOUS
  <2>1. g[s] = IF s = {} THEN 0 ELSE f[Pick(s)] + g[s \ {Pick(s)}]
    BY FoldsAt
  <2>2. h[s] = IF s = {} THEN 0 ELSE f[Pick(s)] + h[s \ {Pick(s)}]
    BY FoldsAt
  <2>3. s # {} => s \ {Pick(s)} \in SUBSET s /\ s \ {Pick(s)} # s
    BY PickIn
  <2>4. s # {} => g[s \ {Pick(s)}] = h[s \ {Pick(s)}]
    BY <1>1, <2>3
  <2> QED
    BY <2>1, <2>2, <2>4
<1> HIDE DEF P
<1>2. SUBSET S \subseteq P
  BY <1>1, SubsetInduction
<1> QED
  BY <1>2 DEF P

\* There is a fold.
LEMMA FoldsExist ==
  ASSUME NEW f, NEW S, IsFiniteSet(S)
  PROVE  \E g : IsFold(g, f, S)
<1> DEFINE P == {T \in SUBSET S : \E g : IsFold(g, f, T)}
<1>1. ASSUME NEW T \in SUBSET S, \A U \in SUBSET T : U # T => U \in P
      PROVE  T \in P
  <2> DEFINE F(U) == CHOOSE g : IsFold(g, f, U)
             rest(s) == s \ {Pick(s)}
             G == [s \in SUBSET T |-> IF s = {} THEN 0 ELSE f[Pick(s)] + F(rest(s))[rest(s)]]
  <2>1. ASSUME NEW U \in SUBSET T, U # T PROVE IsFold(F(U), f, U) /\ IsFiniteSet(U)
    <3>1. \E g : IsFold(g, f, U)
      BY <1>1, <2>1
    <3>2. IsFiniteSet(U)
      BY FS_Subset
    <3> HIDE DEF IsFold
    <3> QED
      BY <3>1, <3>2
  <2>2. ASSUME NEW s \in SUBSET T, s # {} 
        PROVE  rest(s) \in SUBSET T /\ rest(s) # T /\ rest(s) \subseteq s
    BY <2>2, PickIn
  <2> HIDE DEF F
  <2>3. ASSUME NEW u \in SUBSET T, u # T PROVE G[u] = F(u)[u]
    <3>1. F(u)[u] = IF u = {} THEN 0 ELSE f[Pick(u)] + F(u)[rest(u)]
      BY <2>1, <2>3, FoldsAt
    <3>2. u # {} => F(u)[rest(u)] = F(rest(u))[rest(u)]
      <4> SUFFICES ASSUME u # {} PROVE F(u)[rest(u)] = F(rest(u))[rest(u)]
        OBVIOUS
      <4>1. rest(u) \in SUBSET u /\ rest(u) \in SUBSET T /\ rest(u) # T
        BY <2>2
      <4>2. IsFold(F(u), f, u) /\ IsFiniteSet(u) /\ IsFold(F(rest(u)), f, rest(u))
        BY <2>1, <2>3, <4>1
      <4> HIDE DEF rest
      <4> QED
        BY <4>1, <4>2, FoldsUnique
    <3>3. G[u] = IF u = {} THEN 0 ELSE f[Pick(u)] + F(rest(u))[rest(u)]
      OBVIOUS
    <3> QED
      BY <3>1, <3>2, <3>3
  <2>4. \A s \in SUBSET T : s # {} => F(rest(s))[rest(s)] = G[rest(s)]
    BY <2>2, <2>3
  <2>5. G = [s \in SUBSET T |-> IF s = {} THEN 0 ELSE f[Pick(s)] + G[rest(s)]]
    BY <2>4
  <2>6. IsFold(G, f, T)
    BY <2>5 DEF IsFold
  <2> QED
    BY <2>6
<1> HIDE DEF P
<1>2. SUBSET S \subseteq P
  BY <1>1, SubsetInduction
<1> QED
  BY <1>2 DEF P


\* A sum satisfies the equation of the fold.
LEMMA TotalStep ==
  ASSUME NEW f, NEW S, IsFiniteSet(S)
  PROVE  Total(f, S) = IF S = {} THEN 0 ELSE f[Pick(S)] + Total(f, S \ {Pick(S)})
<1> DEFINE F(U) == CHOOSE g : IsFold(g, f, U)
           R == S \ {Pick(S)}
<1>1. ASSUME NEW U, IsFiniteSet(U) PROVE IsFold(F(U), f, U)
  <2>1. \E g : IsFold(g, f, U)
    BY <1>1, FoldsExist
  <2> HIDE DEF IsFold
  <2> QED
    BY <2>1
<1>2. \A U : Total(f, U) = F(U)[U]
  BY TotalDef
<1>3. IsFiniteSet(R) /\ R \in SUBSET S
  BY FS_RemoveElement, FS_Subset
<1> HIDE DEF F
<1>4. F(S)[S] = IF S = {} THEN 0 ELSE f[Pick(S)] + F(S)[R]
  BY <1>1, FoldsAt
<1>5. F(S)[R] = F(R)[R]
  <2> HIDE DEF R
  <2>1. IsFold(F(S), f, S) /\ IsFold(F(R), f, R)
    BY <1>1, <1>3
  <2> QED
    BY <1>3, <2>1, FoldsUnique
<1> QED
  BY <1>2, <1>4, <1>5

\* Sums of integers are integers.
LEMMA TotalType ==
  ASSUME NEW f, NEW S, IsFiniteSet(S), \A x \in S : f[x] \in Int
  PROVE  Total(f, S) \in Int
<1> DEFINE P == {T \in SUBSET S : Total(f, T) \in Int}
<1>1. ASSUME NEW T \in SUBSET S, \A U \in SUBSET T : U # T => U \in P
      PROVE  T \in P
  <2>1. IsFiniteSet(T)
    BY FS_Subset
  <2>2. Total(f, T) = IF T = {} THEN 0 ELSE f[Pick(T)] + Total(f, T \ {Pick(T)})
    BY <2>1, TotalStep
  <2>3. T # {} => Pick(T) \in T /\ T \ {Pick(T)} \in P
    BY <1>1, PickIn
  <2> QED
    BY <2>2, <2>3
<1> HIDE DEF P
<1>2. SUBSET S \subseteq P
  BY <1>1, SubsetInduction
<1> QED
  BY <1>2 DEF P

\* Any element may be taken out of a sum, not only the one Pick takes.
LEMMA TotalTake ==
  ASSUME NEW f, NEW S, IsFiniteSet(S), \A x \in S : f[x] \in Int, NEW x \in S
  PROVE  Total(f, S) = f[x] + Total(f, S \ {x})
<1> DEFINE P == {T \in SUBSET S : \A y \in T : Total(f, T) = f[y] + Total(f, T \ {y})}
<1>1. ASSUME NEW T \in SUBSET S, \A U \in SUBSET T : U # T => U \in P
      PROVE  T \in P
  <2> SUFFICES ASSUME NEW y \in T PROVE Total(f, T) = f[y] + Total(f, T \ {y})
    OBVIOUS
  <2> DEFINE c == Pick(T)
             R == (T \ {y}) \ {c}
  <2>1. IsFiniteSet(T) /\ c \in T /\ T # {}
    BY FS_Subset, PickIn
  <2>2. Total(f, T) = f[c] + Total(f, T \ {c})
    BY <2>1, TotalStep
  <2> HIDE DEF c
  <2>3. CASE y = c
    BY <2>2, <2>3
  <2>4. CASE y # c
    <3>1. T \ {c} \in P /\ T \ {y} \in P /\ y \in T \ {c} /\ c \in T \ {y}
      BY <1>1, <2>1, <2>4
    <3>2. (T \ {c}) \ {y} = R
      OBVIOUS
    <3>3. Total(f, T \ {c}) = f[y] + Total(f, R)
      BY <3>1, <3>2
    <3>4. Total(f, T \ {y}) = f[c] + Total(f, R)
      BY <3>1
    <3>5. IsFiniteSet(R) /\ f[y] \in Int /\ f[c] \in Int /\ \A z \in R : f[z] \in Int
      BY <2>1, FS_Subset
    <3>6. Total(f, R) \in Int
      BY <3>5, TotalType
    <3> QED
      BY <2>2, <3>3, <3>4, <3>5, <3>6
  <2> QED
    BY <2>3, <2>4
<1> HIDE DEF P
<1>2. SUBSET S \subseteq P
  BY <1>1, SubsetInduction
<1> QED
  BY <1>2 DEF P

\* Sums of functions that agree are equal.
LEMMA TotalSame ==
  ASSUME NEW f, NEW g, NEW S, IsFiniteSet(S), \A x \in S : f[x] = g[x]
  PROVE  Total(f, S) = Total(g, S)
<1> DEFINE P == {T \in SUBSET S : Total(f, T) = Total(g, T)}
<1>1. ASSUME NEW T \in SUBSET S, \A U \in SUBSET T : U # T => U \in P
      PROVE  T \in P
  <2>1. IsFiniteSet(T)
    BY FS_Subset
  <2>2. Total(f, T) = IF T = {} THEN 0 ELSE f[Pick(T)] + Total(f, T \ {Pick(T)})
    BY <2>1, TotalStep
  <2>3. Total(g, T) = IF T = {} THEN 0 ELSE g[Pick(T)] + Total(g, T \ {Pick(T)})
    BY <2>1, TotalStep
  <2>4. T # {} => Pick(T) \in T /\ T \ {Pick(T)} \in P
    BY <1>1, PickIn
  <2> QED
    BY <2>2, <2>3, <2>4
<1> HIDE DEF P
<1>2. SUBSET S \subseteq P
  BY <1>1, SubsetInduction
<1> QED
  BY <1>2 DEF P

\* A sum of numbers from 0 to n.
LEMMA TotalBounds ==
  ASSUME NEW f, NEW S, IsFiniteSet(S), NEW n \in Nat, \A x \in S : f[x] \in 0 .. n
  PROVE  Total(f, S) \in Nat /\ Total(f, S) <= Cardinality(S) * n
<1> DEFINE P == {T \in SUBSET S : Total(f, T) \in Nat /\ Total(f, T) <= Cardinality(T) * n}
<1>1. ASSUME NEW T \in SUBSET S, \A U \in SUBSET T : U # T => U \in P
      PROVE  T \in P
  <2>1. IsFiniteSet(T)
    BY FS_Subset
  <2>2. Total(f, T) = IF T = {} THEN 0 ELSE f[Pick(T)] + Total(f, T \ {Pick(T)})
    BY <2>1, TotalStep
  <2>3. CASE T = {}
    BY <2>2, <2>3, FS_EmptySet
  <2>4. CASE T # {}
    <3> DEFINE c == Pick(T)
               R == T \ {c}
    <3>1. c \in T /\ R \in P
      BY <1>1, <2>4, PickIn
    <3> HIDE DEF c
    <3>2. IsFiniteSet(R) /\ Cardinality(R) = Cardinality(T) - 1
      BY <2>1, <3>1, FS_RemoveElement
    <3>3. Cardinality(R) \in Nat /\ Cardinality(T) \in Nat
      BY <2>1, <3>2, FS_CardinalityType
    <3>4. Cardinality(T) * n = Cardinality(R) * n + n
      BY <3>2, <3>3
    <3>5. Total(f, R) \in Nat /\ Total(f, R) <= Cardinality(R) * n /\ f[c] \in 0 .. n
      BY <3>1
    <3>6. Total(f, T) = f[c] + Total(f, R)
      BY <2>2, <2>4 DEF c
    <3>7. Cardinality(R) * n \in Nat
      BY <3>3
    <3> QED
      BY <3>4, <3>5, <3>6, <3>7
  <2> QED
    BY <2>3, <2>4
<1> HIDE DEF P
<1>2. SUBSET S \subseteq P
  BY <1>1, SubsetInduction
<1> QED
  BY <1>2 DEF P

-----------------------------------------------------------------------------
(* The ledger. *)

\* What today's row does not cover of today's cost, and of what may still be
\* spent, is at most what the date inherited.
TodayInv ==
  \A t \in Tenants :
    spent[<<t, date>>] + Unspent(t) <= booked[<<t, date>>] + carried[<<t, date>>] * Estimated

\* No row is booked over the limit, only rows are booked, and days to come
\* have neither a row nor a cost.
RowsInv ==
  \A td \in TenantDays :
    /\ booked[td] <= DailyLimit
    /\ td \notin rows => booked[td] = 0
    /\ td[2] > date => td \notin rows /\ spent[td] = 0

\* What may still be spent is bounded by the executions under way.
LEMMA UnspentBounds ==
  ASSUME CostInv, NEW t \in Tenants
  PROVE  /\ IsFiniteSet(Open(t)) /\ Cardinality(Open(t)) \in Nat
         /\ Unspent(t) \in Nat /\ Unspent(t) <= Cardinality(Open(t)) * Estimated
<1> DEFINE left == [w \in Workers |-> Estimated - exec[w].actual]
<1>1. IsFiniteSet(Open(t)) /\ Cardinality(Open(t)) \in Nat
  BY CostAssumption, FS_Subset, FS_CardinalityType DEF Open
<1>2. \A w \in Open(t) : left[w] \in 0 .. Estimated
  BY ActualWithin, CostNumbers DEF Open
<1> HIDE DEF left
<1>3. Total(left, Open(t)) \in Nat /\ Total(left, Open(t)) <= Cardinality(Open(t)) * Estimated
  BY <1>1, <1>2, TotalBounds, CostNumbers
<1> QED
  BY <1>1, <1>3 DEF Unspent, left

\* How the sum changes when one execution changes.
LEMMA UnspentChange ==
  ASSUME CostInv, CostInv', NEW t \in Tenants, NEW w \in Workers,
         \A v \in Workers \ {w} : exec'[v] = exec[v]
  PROVE  Unspent(t)' = Unspent(t)
                         - (IF w \in Open(t) THEN Estimated - exec[w].actual ELSE 0)
                         + (IF w \in Open(t)' THEN Estimated - exec'[w].actual ELSE 0)
<1> DEFINE left == [v \in Workers |-> Estimated - exec[v].actual]
           after == [v \in Workers |-> Estimated - exec'[v].actual]
           R == Open(t) \ {w}
<1>1. IsFiniteSet(Open(t)) /\ IsFiniteSet(Open(t)') /\ IsFiniteSet(R)
  BY CostAssumption, FS_Subset DEF Open
<1>2. Open(t)' \ {w} = R
  BY DEF Open
<1>3. /\ \A v \in Workers : left[v] \in Int /\ after[v] \in Int
      /\ left[w] = Estimated - exec[w].actual /\ after[w] = Estimated - exec'[w].actual
      /\ \A v \in R : left[v] = after[v]
  BY CostNumbers DEF CostInv, CostTypeOK, Executions, Open
<1>4. Open(t) \subseteq Workers /\ Open(t)' \subseteq Workers /\ R \subseteq Workers
  BY DEF Open
<1>5. Unspent(t) = Total(left, Open(t)) /\ Unspent(t)' = Total(after, Open(t)')
  BY DEF Unspent
<1> HIDE DEF left, after, R
<1>6. Total(left, R) = Total(after, R) /\ Total(left, R) \in Int
  BY <1>1, <1>3, <1>4, TotalSame, TotalType
<1>7. Total(left, Open(t)) = Total(left, R) + (IF w \in Open(t) THEN left[w] ELSE 0)
  <2>1. CASE w \in Open(t)
    <3>1. Total(left, Open(t)) = left[w] + Total(left, Open(t) \ {w})
      BY <1>1, <1>3, <1>4, <2>1, TotalTake
    <3> QED
      BY <1>3, <1>6, <2>1, <3>1 DEF R
  <2>2. CASE w \notin Open(t)
    <3>1. R = Open(t)
      BY <2>2 DEF R
    <3> QED
      BY <1>6, <2>2, <3>1
  <2> QED
    BY <2>1, <2>2
<1>8. Total(after, Open(t)') = Total(after, R) + (IF w \in Open(t)' THEN after[w] ELSE 0)
  <2>1. CASE w \in Open(t)'
    <3>1. Total(after, Open(t)') = after[w] + Total(after, Open(t)' \ {w})
      BY <1>1, <1>3, <1>4, <2>1, TotalTake
    <3>2. Total(after, Open(t)' \ {w}) = Total(after, R)
      BY <1>2, Zenon
    <3> QED
      BY <1>3, <1>6, <2>1, <3>1, <3>2
  <2>2. CASE w \notin Open(t)'
    <3>1. R = Open(t)'
      BY <1>2, <2>2
    <3> QED
      BY <1>6, <2>2, <3>1
  <2> QED
    BY <2>1, <2>2
<1> QED
  BY <1>3, <1>5, <1>6, <1>7, <1>8

\* A step books b for t today, adds s to today's cost and u to what may still
\* be spent, and leaves the other dates alone.
Books(t, b, s, u) ==
  /\ booked'[<<t, date>>] = booked[<<t, date>>] + b
  /\ spent'[<<t, date>>] = spent[<<t, date>>] + s
  /\ Unspent(t)' = Unspent(t) + u
  /\ \A d \in (0 .. Days) \ {date} :
       booked'[<<t, d>>] = booked[<<t, d>>] /\ spent'[<<t, d>>] = spent[<<t, d>>]

\* It books at least what it adds to the two.
Balanced(t) == \E b, s, u \in Int : Books(t, b, s, u) /\ s + u <= b

\* A tenant whose rows, costs and executions stay as they are.
LEMMA NothingIsBalanced ==
  ASSUME CostInv, CostInv', NEW t \in Tenants, Unspent(t)' = Unspent(t),
         \A d \in 0 .. Days : booked'[<<t, d>>] = booked[<<t, d>>] /\ spent'[<<t, d>>] = spent[<<t, d>>]
  PROVE  Balanced(t)
<1>1. /\ booked[<<t, date>>] \in Int /\ spent[<<t, date>>] \in Int /\ date \in 0 .. Days
  BY DEF CostInv, CostTypeOK, TenantDays
<1>2. Unspent(t) \in Int
  BY UnspentBounds
<1>3. /\ booked'[<<t, date>>] = booked[<<t, date>>] + 0
      /\ spent'[<<t, date>>] = spent[<<t, date>>] + 0
      /\ Unspent(t)' = Unspent(t) + 0
  BY <1>1, <1>2
<1>4. Books(t, 0, 0, 0) /\ 0 + 0 <= 0
  BY <1>1, <1>3 DEF Books
<1> QED
  BY <1>4 DEF Balanced

\* One row of a function on tenants and dates changes.
LEMMA RowUpdate ==
  ASSUME NEW f, NEW g, NEW S, f \in [TenantDays -> S], NEW t \in Tenants, NEW d \in 0 .. Days, NEW n,
         g = [f EXCEPT ![<<t, d>>] = @ + n]
  PROVE  /\ g[<<t, d>>] = f[<<t, d>>] + n
         /\ \A u \in Tenants, e \in 0 .. Days : u # t \/ e # d => g[<<u, e>>] = f[<<u, e>>]
  BY DEF TenantDays

\* A committed reservation books the whole estimate (ReserveDailyCost).
LEMMA ReserveBooks ==
  ASSUME CostInv, NEW t \in Tenants, ReserveDailyCost(t, TRUE)
  PROVE  /\ booked'[<<t, date>>] = booked[<<t, date>>] + Estimated
         /\ \A u \in Tenants, d \in 0 .. Days :
              u # t \/ d # date => booked'[<<u, d>>] = booked[<<u, d>>]
<1>1. booked' = [booked EXCEPT ![<<t, date>>] = @ + Estimated]
  BY DEF ReserveDailyCost, ReserveDailyLLMCost
<1>2. booked \in [TenantDays -> Int] /\ date \in 0 .. Days
  BY DEF CostInv, CostTypeOK
<1> QED
  BY <1>1, <1>2, RowUpdate

\* A reservation is booked for the execution it lets start.
LEMMA ReserveBalanced ==
  ASSUME CostInv, CostInv', NEW w \in Workers, NEW t \in Tenants,
         Reserve(w, t) \/ ReserveUnknown(w, t), NEW u \in Tenants
  PROVE  Balanced(u)
<1>1. spent' = spent /\ exec[w].pc = "idle"
  BY DEF Reserve, ReserveUnknown
<1>2. /\ booked[<<u, date>>] \in Int /\ spent[<<u, date>>] \in Int /\ date \in 0 .. Days
      /\ Estimated \in Nat
  BY CostNumbers DEF CostInv, CostTypeOK, TenantDays
<1>3. Unspent(u) \in Int
  BY UnspentBounds
<1>4. CASE exec' = exec /\ booked' = booked
  <2>1. Unspent(u)' = Unspent(u)
    BY <1>4 DEF Unspent, Open
  <2> QED
    BY <1>1, <1>4, <2>1, NothingIsBalanced
<1>5. CASE exec' = exec /\ ReserveDailyCost(t, TRUE)
  <2>1. Unspent(u)' = Unspent(u)
    BY <1>5 DEF Unspent, Open
  <2>2. CASE u # t
    BY <1>1, <1>5, <2>1, <2>2, ReserveBooks, NothingIsBalanced
  <2>3. CASE u = t
    <3>1. /\ booked'[<<u, date>>] = booked[<<u, date>>] + Estimated
          /\ \A d \in (0 .. Days) \ {date} : booked'[<<u, d>>] = booked[<<u, d>>]
      BY <1>5, <2>3, ReserveBooks
    <3>2. /\ spent'[<<u, date>>] = spent[<<u, date>>] + 0
          /\ Unspent(u)' = Unspent(u) + 0
      BY <1>1, <1>2, <1>3, <2>1
    <3>3. Books(u, Estimated, 0, 0) /\ 0 + 0 <= Estimated
      BY <1>1, <1>2, <3>1, <3>2 DEF Books
    <3> QED
      BY <1>2, <3>3 DEF Balanced
  <2> QED
    BY <2>2, <2>3
<1>6. CASE /\ exec' = [exec EXCEPT ![w] = [NoExec EXCEPT !.pc = "call", !.tenant = t]]
           /\ ReserveDailyCost(t, TRUE)
  <2> DEFINE e == [NoExec EXCEPT !.pc = "call", !.tenant = t]
  <2>1. e.pc = "call" /\ e.actual = 0 /\ e.tenant = t
    BY Zenon, NoExecIsExecution DEF Executions
  <2>2. exec' = [exec EXCEPT ![w] = e]
    BY <1>6
  <2> HIDE DEF e
  <2>3. exec'[w] = e /\ \A v \in Workers \ {w} : exec'[v] = exec[v]
    BY <2>2 DEF CostInv, CostTypeOK
  <2>4. w \notin Open(u) /\ (w \in Open(u)' <=> u = t)
    BY <1>1, <2>1, <2>3 DEF Open
  <2>5. Unspent(u)' = Unspent(u)
                        - (IF w \in Open(u) THEN Estimated - exec[w].actual ELSE 0)
                        + (IF w \in Open(u)' THEN Estimated - exec'[w].actual ELSE 0)
    BY <2>3, UnspentChange
  <2>6. Unspent(u)' = Unspent(u) + IF u = t THEN Estimated ELSE 0
    BY <1>2, <1>3, <2>1, <2>3, <2>4, <2>5
  <2>7. CASE u # t
    <3>1. Unspent(u)' = Unspent(u)
      BY <1>3, <2>6, <2>7
    <3> QED
      BY <1>1, <1>6, <2>7, <3>1, ReserveBooks, NothingIsBalanced
  <2>8. CASE u = t
    <3>1. /\ booked'[<<u, date>>] = booked[<<u, date>>] + Estimated
          /\ \A d \in (0 .. Days) \ {date} : booked'[<<u, d>>] = booked[<<u, d>>]
      BY <1>6, <2>8, ReserveBooks
    <3>2. /\ spent'[<<u, date>>] = spent[<<u, date>>] + 0
          /\ Unspent(u)' = Unspent(u) + Estimated
      BY <1>1, <1>2, <2>6, <2>8
    <3>3. Books(u, Estimated, 0, Estimated) /\ 0 + Estimated <= Estimated
      BY <1>1, <1>2, <3>1, <3>2 DEF Books
    <3> QED
      BY <1>2, <3>3 DEF Balanced
  <2> QED
    BY <2>7, <2>8
<1>7. \A committed \in BOOLEAN : ReserveDailyCost(t, committed) =>
        committed \/ booked' = booked
  BY DEF ReserveDailyCost, ReserveDailyLLMCost
<1> QED
  BY Zenon, <1>4, <1>5, <1>6, <1>7 DEF Reserve, ReserveUnknown

\* The execution of an attempt is still the one of its tenant, and has spent
\* what it took.
LEMMA AttemptEffect ==
  ASSUME CostInv, NEW w \in Workers, NEW accepted, NEW taken \in Nat, NEW cost \in Nat,
         exec[w].pc = "call", AfterAttempt(w, accepted, taken, cost)
  PROVE  /\ \A v \in Workers \ {w} : exec'[v] = exec[v]
         /\ exec'[w].pc \in {"call", "settle"}
         /\ exec'[w].tenant = exec[w].tenant /\ exec'[w].actual = exec[w].actual + taken
<1>1. exec \in [Workers -> Executions] /\ exec[w] \in Executions
  BY DEF CostInv, CostTypeOK
<1>2. PICK s \in {"call", "settle"} :
        exec' = [exec EXCEPT ![w].tried = @ + 1, ![w].actual = @ + taken,
                             ![w].billed = @ + cost, ![w].pc = s]
  BY Zenon DEF AfterAttempt
<1> QED
  BY <1>1, <1>2 DEF Executions

\* An attempt spends what was reserved for it, and a dropped answer nothing.
LEMMA AttemptBalanced ==
  ASSUME CostInv, CostInv', NEW w \in Workers, NEW tokens \in TokenUse, NEW valid \in BOOLEAN,
         Answer(w, tokens, valid) \/ NoAnswer(w, tokens), NEW u \in Tenants
  PROVE  Balanced(u)
<1> DEFINE cost == EstimateCostCents(tokens)
           t == exec[w].tenant
<1>1. cost \in Nat
  BY EstimateMonotone, CostAssumption
<1>2. booked' = booked /\ exec[w].pc = "call"
  BY Zenon DEF Answer, NoAnswer
<1>3. /\ booked[<<u, date>>] \in Int /\ spent[<<u, date>>] \in Int /\ date \in 0 .. Days
      /\ Estimated \in Nat /\ exec[w].actual \in Nat /\ t \in Tenants
      /\ spent \in [TenantDays -> Nat]
  BY CostNumbers DEF CostInv, CostTypeOK, TenantDays, Executions
<1>4. Unspent(u) \in Int
  BY UnspentBounds
<1> HIDE DEF cost
<1>5. ASSUME NEW taken \in Nat, NEW accepted, AfterAttempt(w, accepted, taken, cost)
      PROVE  Unspent(u)' = Unspent(u) - IF u = t THEN taken ELSE 0
  <2>1. /\ \A v \in Workers \ {w} : exec'[v] = exec[v]
        /\ exec'[w].pc \in {"call", "settle"}
        /\ exec'[w].tenant = exec[w].tenant /\ exec'[w].actual = exec[w].actual + taken
    BY <1>1, <1>2, <1>5, AttemptEffect
  <2>2. (w \in Open(u) <=> u = t) /\ (w \in Open(u)' <=> u = t)
    BY <1>2, <2>1 DEF Open
  <2>3. Unspent(u)' = Unspent(u)
                        - (IF w \in Open(u) THEN Estimated - exec[w].actual ELSE 0)
                        + (IF w \in Open(u)' THEN Estimated - exec'[w].actual ELSE 0)
    BY <2>1, UnspentChange
  <2> HIDE DEF t
  <2> QED
    BY <1>3, <1>4, <2>1, <2>2, <2>3
<1>6. CASE NoAnswer(w, tokens)
  <2>1. AfterAttempt(w, FALSE, 0, cost) /\ spent' = spent
    BY Zenon, <1>6 DEF NoAnswer, cost
  <2>2. Unspent(u)' = Unspent(u) - IF u = t THEN 0 ELSE 0
    BY <1>5, <2>1
  <2>3. Unspent(u)' = Unspent(u)
    BY <1>4, <2>2
  <2> QED
    BY <1>2, <2>1, <2>3, NothingIsBalanced
<1>7. CASE Answer(w, tokens, valid)
  <2>1. /\ AfterAttempt(w, valid, cost, cost)
        /\ spent' = [spent EXCEPT ![<<t, date>>] = @ + cost]
    BY <1>7 DEF Answer, cost
  <2>2. Unspent(u)' = Unspent(u) - IF u = t THEN cost ELSE 0
    BY <1>1, <1>5, <2>1
  <2>3. /\ spent'[<<t, date>>] = spent[<<t, date>>] + cost
        /\ \A x \in Tenants, e \in 0 .. Days :
             x # t \/ e # date => spent'[<<x, e>>] = spent[<<x, e>>]
    BY <1>3, <2>1, RowUpdate
  <2> HIDE DEF t
  <2>4. CASE u # t
    <3>1. Unspent(u)' = Unspent(u)
      BY <1>4, <2>2, <2>4
    <3> QED
      BY <1>2, <2>3, <2>4, <3>1, NothingIsBalanced
  <2>5. CASE u = t
    <3>1. Unspent(u)' = Unspent(u) + (-cost) /\ booked'[<<u, date>>] = booked[<<u, date>>] + 0
      BY <1>1, <1>2, <1>3, <1>4, <2>2, <2>5
    <3>2. Books(u, 0, cost, -cost) /\ cost + (-cost) <= 0 /\ -cost \in Int
      BY <1>1, <1>2, <2>3, <2>5, <3>1 DEF Books
    <3> QED
      BY <1>1, <3>2 DEF Balanced
  <2> QED
    BY <2>4, <2>5
<1> QED
  BY <1>6, <1>7

\* A reconciliation gives back no more than was not spent.
LEMMA SettleBalanced ==
  ASSUME CostInv, CostInv', NEW w \in Workers, NEW lost \in BOOLEAN, Settle(w, lost), NEW u \in Tenants
  PROVE  Balanced(u)
<1> DEFINE t == exec[w].tenant
           delta == exec[w].actual - Estimated
<1>1. /\ exec[w].pc = "settle" /\ spent' = spent
      /\ exec' = [exec EXCEPT ![w] = NoExec]
  BY DEF Settle
<1>2. /\ booked[<<u, date>>] \in Int /\ spent[<<u, date>>] \in Int /\ date \in 0 .. Days
      /\ t \in Tenants /\ booked \in [TenantDays -> Int]
  BY DEF CostInv, CostTypeOK, TenantDays, Executions
<1>3. Unspent(u) \in Int
  BY UnspentBounds
<1>4. Estimated \in Nat /\ exec[w].actual \in Nat /\ delta \in Int /\ delta <= 0
  BY ActualWithin, CostNumbers
<1>5. Unspent(u)' = Unspent(u) + IF u = t THEN delta ELSE 0
  <2>1. exec'[w] = NoExec /\ \A v \in Workers \ {w} : exec'[v] = exec[v]
    BY <1>1 DEF CostInv, CostTypeOK
  <2>2. (w \in Open(u) <=> u = t) /\ w \notin Open(u)'
    BY <1>1, <2>1, NoExecIsExecution DEF Open
  <2>3. Unspent(u)' = Unspent(u)
                        - (IF w \in Open(u) THEN Estimated - exec[w].actual ELSE 0)
                        + (IF w \in Open(u)' THEN Estimated - exec'[w].actual ELSE 0)
    BY <2>1, UnspentChange
  <2> HIDE DEF t
  <2> QED
    BY <1>3, <1>4, <2>2, <2>3
<1>6. \/ booked' = booked
      \/ booked' = [booked EXCEPT ![<<t, date>>] = @ + delta]
  BY DEF Settle, AdjustDailyLLMCost
<1> HIDE DEF t, delta
<1>7. PICK b \in {0, delta} :
        /\ booked'[<<t, date>>] = booked[<<t, date>>] + b
        /\ \A x \in Tenants, e \in 0 .. Days :
             x # t \/ e # date => booked'[<<x, e>>] = booked[<<x, e>>]
  <2>1. CASE booked' = booked
    <3>1. booked[<<t, date>>] \in Int
      BY <1>2 DEF TenantDays
    <3> QED
      BY <2>1, <3>1
  <2>2. CASE booked' = [booked EXCEPT ![<<t, date>>] = @ + delta]
    BY <1>2, <2>2, RowUpdate
  <2> QED
    BY <1>6, <2>1, <2>2
<1>8. CASE u # t
  <2>1. Unspent(u)' = Unspent(u)
    BY <1>3, <1>5, <1>8
  <2> QED
    BY <1>1, <1>7, <1>8, <2>1, NothingIsBalanced
<1>9. CASE u = t
  <2>1. Unspent(u)' = Unspent(u) + delta /\ spent'[<<u, date>>] = spent[<<u, date>>] + 0
    BY <1>1, <1>2, <1>5, <1>9
  <2>2. Books(u, b, 0, delta) /\ 0 + delta <= b /\ b \in Int
    BY <1>1, <1>4, <1>7, <1>9, <2>1 DEF Books
  <2> QED
    BY <1>4, <2>2 DEF Balanced
<1> QED
  BY <1>8, <1>9

\* A crash leaves the reservations booked.
LEMMA CrashBalanced ==
  ASSUME CostInv, CostInv', Crash, NEW u \in Tenants
  PROVE  Balanced(u)
<1>1. booked' = booked /\ spent' = spent
  BY DEF Crash
<1>2. Open(u)' = {}
  BY NoExecIsExecution DEF Crash, Open
<1>3. Unspent(u) \in Nat
  BY UnspentBounds
<1>4. Unspent(u)' = 0
  <2>1. \A f : Total(f, {}) = 0
    BY TotalStep, FS_EmptySet
  <2> QED
    BY <1>2, <2>1 DEF Unspent
<1>5. booked[<<u, date>>] \in Int /\ spent[<<u, date>>] \in Int
  BY DEF CostInv, CostTypeOK, TenantDays
<1>6. Books(u, 0, 0, -Unspent(u)) /\ 0 + (-Unspent(u)) <= 0 /\ -Unspent(u) \in Int
  BY <1>1, <1>3, <1>4, <1>5 DEF Books
<1> QED
  BY <1>6 DEF Balanced

\* Every step of a day is balanced, for every tenant.
LEMMA StepBalanced ==
  ASSUME CostInv, CostInv', [CostNext]_costVars, ~Midnight, NEW u \in Tenants
  PROVE  Balanced(u) /\ date' = date /\ carried' = carried
<1>1. ASSUME NEW w \in Workers, ExecuteStep(w)
      PROVE  Balanced(u) /\ date' = date /\ carried' = carried
  <2>1. ASSUME NEW t \in Tenants, Reserve(w, t) \/ ReserveUnknown(w, t)
        PROVE  Balanced(u) /\ date' = date /\ carried' = carried
    BY <2>1, ReserveBalanced DEF Reserve, ReserveUnknown
  <2>2. ASSUME NEW tokens \in TokenUse, NEW valid \in BOOLEAN,
               Answer(w, tokens, valid) \/ NoAnswer(w, tokens)
        PROVE  Balanced(u) /\ date' = date /\ carried' = carried
    BY Zenon, <2>2, AttemptBalanced DEF Answer, NoAnswer
  <2>3. ASSUME NEW lost \in BOOLEAN, Settle(w, lost)
        PROVE  Balanced(u) /\ date' = date /\ carried' = carried
    <3>1. date' = date /\ carried' = carried
      BY <2>3 DEF Settle
    <3> QED
      BY <2>3, <3>1, SettleBalanced
  <2> QED
    BY Zenon, <1>1, <2>1, <2>2, <2>3 DEF ExecuteStep
<1>2. CASE Crash
  <2>1. date' = date /\ carried' = carried
    BY <1>2 DEF Crash
  <2> QED
    BY <1>2, <2>1, CrashBalanced
<1>3. CASE UNCHANGED costVars
  <2>1. UNCHANGED <<date, booked, spent, exec, carried>>
    BY <1>3 DEF costVars
  <2>2. Unspent(u)' = Unspent(u)
    BY <2>1 DEF Unspent, Open
  <2> QED
    BY <2>1, <2>2, NothingIsBalanced
<1> QED
  BY Zenon, <1>1, <1>2, <1>3 DEF CostNext

\* What a step does to the rows: a new one is one of today, and only a
\* reservation within the limit raises one.
LEMMA RowsEffect ==
  ASSUME CostInv, RowsInv, [CostNext]_costVars
  PROVE  /\ \A td \in TenantDays : td \in rows' /\ td \notin rows => td[2] = date
         /\ \A td \in TenantDays :
              /\ td \notin rows' => td \notin rows /\ booked'[td] = booked[td]
              /\ booked'[td] <= DailyLimit
<1> DEFINE Effect == /\ \A td \in TenantDays : td \in rows' /\ td \notin rows => td[2] = date
                     /\ \A td \in TenantDays :
                          /\ td \notin rows' => td \notin rows /\ booked'[td] = booked[td]
                          /\ booked'[td] <= DailyLimit
<1>1. /\ booked \in [TenantDays -> Int] /\ date \in 0 .. Days /\ Estimated \in Int
      /\ DailyLimit \in Int
  BY CostNumbers, CostAssumption DEF CostInv, CostTypeOK
<1>2. CASE rows' = rows /\ booked' = booked
  BY <1>2 DEF RowsInv
<1>3. ASSUME NEW t \in Tenants, NEW committed \in BOOLEAN, ReserveDailyCost(t, committed)
      PROVE  Effect
  <2> DEFINE td == <<t, date>>
  <2>1. td \in TenantDays /\ td[2] = date
    BY <1>1 DEF TenantDays
  <2> HIDE DEF td
  <2>2. CASE UNCHANGED <<rows, booked>>
    BY <1>2, <2>2
  <2>3. CASE /\ Estimated <= DailyLimit
             /\ td \in rows => booked[td] + Estimated <= DailyLimit
             /\ rows' = rows \cup {td}
             /\ booked' = [booked EXCEPT ![td] = @ + Estimated]
    <3>1. booked'[td] <= DailyLimit
      BY <1>1, <2>1, <2>3 DEF RowsInv
    <3>2. \A e \in TenantDays \ {td} : booked'[e] = booked[e]
      BY <1>1, <2>1, <2>3
    <3> QED
      BY <2>1, <2>3, <3>1, <3>2 DEF RowsInv
  <2> QED
    BY <1>3, <2>2, <2>3 DEF ReserveDailyCost, ReserveDailyLLMCost, td
<1>4. ASSUME NEW w \in Workers, NEW lost \in BOOLEAN, Settle(w, lost)
      PROVE  Effect
  <2> DEFINE td == <<exec[w].tenant, date>>
             delta == exec[w].actual - Estimated
  <2>1. delta \in Int /\ delta <= 0
    BY ActualWithin, CostNumbers
  <2>2. td \in TenantDays
    BY DEF CostInv, CostTypeOK, TenantDays, Executions
  <2>3. /\ rows' = rows
        /\ booked' = booked \/ (td \in rows /\ booked' = [booked EXCEPT ![td] = @ + delta])
    BY <1>4 DEF Settle, AdjustDailyLLMCost
  <2> HIDE DEF td, delta
  <2>4. CASE td \in rows /\ booked' = [booked EXCEPT ![td] = @ + delta]
    <3>1. booked'[td] <= DailyLimit
      BY <1>1, <2>1, <2>2, <2>4 DEF RowsInv
    <3>2. \A e \in TenantDays \ {td} : booked'[e] = booked[e]
      BY <1>1, <2>2, <2>4
    <3> QED
      BY <2>2, <2>3, <2>4, <3>1, <3>2 DEF RowsInv
  <2> QED
    BY <1>2, <2>3, <2>4
<1> HIDE DEF Effect
<1>5. CASE UNCHANGED costVars
  BY <1>2, <1>5 DEF costVars, Effect
<1>6. CASE Crash \/ Midnight
  BY <1>2, <1>6 DEF Crash, Midnight, Effect
<1>7. ASSUME NEW w \in Workers, ExecuteStep(w) PROVE Effect
  <2>1. ASSUME NEW t \in Tenants, Reserve(w, t) \/ ReserveUnknown(w, t) PROVE Effect
    BY Zenon, <1>3, <2>1 DEF Reserve, ReserveUnknown
  <2>2. ASSUME NEW tokens, NEW valid, Answer(w, tokens, valid) \/ NoAnswer(w, tokens) PROVE Effect
    <3>1. rows' = rows /\ booked' = booked
      BY Zenon, <2>2 DEF Answer, NoAnswer
    <3> QED
      BY <1>2, <3>1 DEF Effect
  <2> QED
    BY Zenon, <1>4, <1>7, <2>1, <2>2 DEF ExecuteStep
<1> QED
  BY Zenon, <1>5, <1>6, <1>7 DEF CostNext, Effect

\* What a new day finds: no row, no cost, and the executions under way.
LEMMA NewDay ==
  ASSUME CostInv, RowsInv, Midnight, NEW t \in Tenants
  PROVE  /\ date' = date + 1 /\ <<t, date'>> \in TenantDays
         /\ booked'[<<t, date'>>] = 0 /\ spent'[<<t, date'>>] = 0
         /\ carried'[<<t, date'>>] = Cardinality(Open(t))
         /\ Unspent(t)' = Unspent(t) /\ Surplus(t)' = Surplus(t)
<1>1. date' = date + 1 /\ date < Days /\ date \in Nat
  BY CostAssumption DEF Midnight, CostInv, CostTypeOK
<1>2. <<t, date'>> \in TenantDays /\ <<t, date'>>[2] = date + 1
  BY <1>1, CostAssumption DEF TenantDays
<1>3. UNCHANGED <<rows, booked, spent, exec>>
  BY DEF Midnight
<1>4. Unspent(t)' = Unspent(t)
  BY <1>3 DEF Unspent, Open
<1>5. Surplus(t)' = Surplus(t)
  BY <1>3 DEF Surplus
<1>6. booked[<<t, date'>>] = 0 /\ spent[<<t, date'>>] = 0
  <2>1. \A td \in TenantDays : td[2] > date => booked[td] = 0 /\ spent[td] = 0
    BY DEF RowsInv
  <2>2. <<t, date'>>[2] > date
    BY <1>1, <1>2
  <2> QED
    BY <1>2, <2>1, <2>2
<1>7. carried'[<<t, date'>>] = Cardinality(Open(t))
  BY <1>1, <1>2 DEF Midnight
<1> QED
  BY <1>1, <1>2, <1>3, <1>4, <1>5, <1>6, <1>7

\* The rows stay within the limit and days to come stay empty.
LEMMA RowsStep ==
  ASSUME CostInv, CostInv', RowsInv, [CostNext]_costVars
  PROVE  RowsInv'
<1> SUFFICES ASSUME NEW td \in TenantDays
             PROVE  /\ booked'[td] <= DailyLimit
                    /\ td \notin rows' => booked'[td] = 0
                    /\ td[2] > date' => td \notin rows' /\ spent'[td] = 0
  BY DEF RowsInv, TenantDays
<1>1. /\ td \in rows' /\ td \notin rows => td[2] = date
      /\ td \notin rows' => td \notin rows /\ booked'[td] = booked[td]
      /\ booked'[td] <= DailyLimit
  BY RowsEffect
<1>2. /\ date \in Int /\ td[1] \in Tenants /\ td[2] \in 0 .. Days /\ td = <<td[1], td[2]>>
  BY DEF CostInv, CostTypeOK, TenantDays
<1>3. CASE Midnight
  <2>1. rows' = rows /\ spent' = spent /\ date' = date + 1
    BY <1>3 DEF Midnight
  <2> QED
    BY <1>1, <1>2, <2>1 DEF RowsInv
<1>4. CASE ~Midnight
  <2>1. Balanced(td[1]) /\ date' = date
    BY <1>2, <1>4, StepBalanced
  <2>2. td[2] # date => spent'[td] = spent[td]
    BY <1>2, <2>1 DEF Balanced, Books
  <2> QED
    BY <1>1, <1>2, <2>1, <2>2 DEF RowsInv
<1> QED
  BY <1>3, <1>4

\* Today's cost and what may still be spent stay covered by today's row and
\* the reservations the date inherited.
LEMMA TodayStep ==
  ASSUME CostInv, CostInv', RowsInv, TodayInv, [CostNext]_costVars
  PROVE  TodayInv'
<1> SUFFICES ASSUME NEW t \in Tenants
             PROVE  spent'[<<t, date'>>] + Unspent(t)'
                      <= booked'[<<t, date'>>] + carried'[<<t, date'>>] * Estimated
  BY DEF TodayInv
<1>1. Unspent(t) \in Nat /\ Unspent(t) <= Cardinality(Open(t)) * Estimated
  BY UnspentBounds
<1>2. CASE Midnight
  <2>1. /\ booked'[<<t, date'>>] = 0 /\ spent'[<<t, date'>>] = 0
        /\ carried'[<<t, date'>>] = Cardinality(Open(t)) /\ Unspent(t)' = Unspent(t)
    BY <1>2, NewDay
  <2>2. Cardinality(Open(t)) * Estimated \in Int
    BY UnspentBounds, CostNumbers
  <2> QED
    BY <1>1, <2>1, <2>2
<1>3. CASE ~Midnight
  <2> DEFINE K == carried[<<t, date>>] * Estimated
  <2>1. Balanced(t) /\ date' = date /\ carried' = carried
    BY <1>3, StepBalanced
  <2>2. PICK b, s, u \in Int : Books(t, b, s, u) /\ s + u <= b
    BY <2>1 DEF Balanced
  <2>3. /\ spent'[<<t, date>>] = spent[<<t, date>>] + s /\ Unspent(t)' = Unspent(t) + u
        /\ booked'[<<t, date>>] = booked[<<t, date>>] + b
    BY <2>2 DEF Books
  <2>4. <<t, date>> \in TenantDays
    BY DEF CostInv, CostTypeOK, TenantDays
  <2>5. spent[<<t, date>>] \in Int /\ booked[<<t, date>>] \in Int /\ K \in Int
    <3>1. spent[<<t, date>>] \in Nat /\ booked[<<t, date>>] \in Int /\ carried[<<t, date>>] \in Nat
      BY <2>4 DEF CostInv, CostTypeOK
    <3> QED
      BY <3>1, CostNumbers
  <2>6. spent[<<t, date>>] + Unspent(t) <= booked[<<t, date>>] + K
    BY DEF TodayInv
  <2>7. carried'[<<t, date'>>] * Estimated = K
    BY <2>1
  <2> HIDE DEF K
  <2>8. spent'[<<t, date>>] + Unspent(t)' <= booked'[<<t, date>>] + K
    BY <1>1, <2>2, <2>3, <2>5, <2>6
  <2> QED
    BY <2>1, <2>7, <2>8
<1> QED
  BY <1>2, <1>3

\* The ledger starts empty.
LEMMA LedgerStart ==
  ASSUME CostInit
  PROVE  RowsInv /\ TodayInv /\ DailyCap /\ LedgerCoversSpend
<1>1. CostInv
  BY CostStart
<1>2. Estimated \in Nat /\ DailyLimit \in Nat /\ date = 0 /\ 0 \in 0 .. Days
  BY CostNumbers, CostAssumption DEF CostInit
<1>3. \A td \in TenantDays : td \notin rows /\ booked[td] = 0 /\ spent[td] = 0 /\ carried[td] = 0
  BY DEF CostInit
<1>4. RowsInv
  BY <1>2, <1>3 DEF RowsInv
<1>5. DailyCap
  BY <1>2, <1>3 DEF DailyCap
<1>6. ASSUME NEW t \in Tenants
      PROVE  Unspent(t) = 0 /\ Surplus(t) = 0
  <2>1. Open(t) = {}
    BY NoExecIsExecution DEF CostInit, Open
  <2>2. Unspent(t) = 0
    BY <2>1, TotalStep, FS_EmptySet DEF Unspent
  <2> DEFINE f == [d \in 0 .. Days |-> booked[<<t, d>>] - spent[<<t, d>>]]
  <2>3. \A d \in 0 .. Days : f[d] \in 0 .. 0
    BY <1>3 DEF TenantDays
  <2>4. IsFiniteSet(0 .. Days)
    BY CostAssumption, FS_Interval
  <2> HIDE DEF f
  <2>5. /\ Total(f, 0 .. Days) \in Nat /\ Cardinality(0 .. Days) \in Nat
        /\ Total(f, 0 .. Days) <= Cardinality(0 .. Days) * 0
    BY <2>3, <2>4, TotalBounds, FS_CardinalityType
  <2>6. Total(f, 0 .. Days) = 0
    BY <2>5
  <2> QED
    BY <2>2, <2>6 DEF Surplus, f
<1>7. TodayInv
  <2> SUFFICES ASSUME NEW t \in Tenants
               PROVE  spent[<<t, date>>] + Unspent(t)
                        <= booked[<<t, date>>] + carried[<<t, date>>] * Estimated
    BY DEF TodayInv
  <2>1. <<t, date>> \in TenantDays
    BY <1>2 DEF TenantDays
  <2> QED
    BY <1>2, <1>3, <1>6, <2>1
<1>8. LedgerCoversSpend
  BY <1>6 DEF LedgerCoversSpend
<1> QED
  BY <1>4, <1>5, <1>7, <1>8

\* The cap of today follows from today's row, that of another day is kept.
LEMMA DailyCapStep ==
  ASSUME CostInv, CostInv', RowsInv', TodayInv', \A t \in Tenants : Unspent(t)' \in Nat,
         DailyCap, [CostNext]_costVars
  PROVE  DailyCap'
<1> SUFFICES ASSUME NEW t \in Tenants, NEW d \in 0 .. Days
             PROVE  spent'[<<t, d>>] <= DailyLimit + carried'[<<t, d>>] * Estimated
  BY DEF DailyCap, TenantDays
<1>1. <<t, d>> \in TenantDays
  BY DEF TenantDays
<1>2. CASE d = date'
  <2> DEFINE K == carried'[<<t, d>>] * Estimated
  <2>1. spent'[<<t, d>>] + Unspent(t)' <= booked'[<<t, d>>] + K
    BY <1>2 DEF TodayInv
  <2>2. booked'[<<t, d>>] <= DailyLimit
    BY <1>1 DEF RowsInv, TenantDays
  <2>3. Unspent(t)' \in Nat
    OBVIOUS
  <2>4. spent'[<<t, d>>] \in Int /\ booked'[<<t, d>>] \in Int /\ carried'[<<t, d>>] \in Nat
    BY <1>1 DEF CostInv, CostTypeOK, TenantDays
  <2>5. K \in Int /\ DailyLimit \in Int
    BY <2>4, CostNumbers, CostAssumption
  <2> HIDE DEF K
  <2>6. spent'[<<t, d>>] <= DailyLimit + K
    BY <2>1, <2>2, <2>3, <2>4, <2>5
  <2> QED
    BY <2>6 DEF K
<1>3. CASE d # date'
  <2>1. spent'[<<t, d>>] = spent[<<t, d>>] /\ carried'[<<t, d>>] = carried[<<t, d>>]
    <3>1. CASE Midnight
      BY <1>1, <1>3, <3>1 DEF Midnight
    <3>2. CASE ~Midnight
      <4>1. Balanced(t) /\ date' = date /\ carried' = carried
        BY <3>2, StepBalanced
      <4> QED
        BY <1>3, <4>1 DEF Balanced, Books
    <3> QED
      BY <3>1, <3>2
  <2> QED
    BY <1>1, <2>1 DEF DailyCap
<1> QED
  BY <1>2, <1>3

\* The rows of all dates gain at least what a step adds to the cost and to
\* what may still be spent.
LEMMA LedgerStep ==
  ASSUME CostInv, CostInv', RowsInv, LedgerCoversSpend, [CostNext]_costVars
  PROVE  LedgerCoversSpend'
<1> SUFFICES ASSUME NEW t \in Tenants
             PROVE  Surplus(t)' >= Unspent(t)'
  BY DEF LedgerCoversSpend
<1>1. Surplus(t) >= Unspent(t)
  BY DEF LedgerCoversSpend
<1>2. CASE Midnight
  BY <1>1, <1>2, NewDay
<1>3. CASE ~Midnight
  <2> DEFINE f == [d \in 0 .. Days |-> booked[<<t, d>>] - spent[<<t, d>>]]
             g == [d \in 0 .. Days |-> booked'[<<t, d>>] - spent'[<<t, d>>]]
             others == (0 .. Days) \ {date}
  <2>1. PICK b, s, u \in Int : Books(t, b, s, u) /\ s + u <= b
    BY <1>3, StepBalanced DEF Balanced
  <2>2. /\ booked \in [TenantDays -> Int] /\ spent \in [TenantDays -> Nat]
        /\ booked' \in [TenantDays -> Int] /\ spent' \in [TenantDays -> Nat]
        /\ date \in 0 .. Days
    BY DEF CostInv, CostTypeOK, TenantDays
  <2>3. \A d \in 0 .. Days : f[d] \in Int /\ g[d] \in Int
    BY <2>2 DEF TenantDays
  <2>4. \A d \in others : f[d] = g[d]
    BY <2>1 DEF Books
  <2>5. g[date] = f[date] + b - s
    <3>1. /\ booked[<<t, date>>] \in Int /\ spent[<<t, date>>] \in Int
          /\ booked'[<<t, date>>] = booked[<<t, date>>] + b
          /\ spent'[<<t, date>>] = spent[<<t, date>>] + s
      BY <2>1, <2>2 DEF Books, TenantDays
    <3> QED
      BY <2>1, <2>2, <3>1
  <2>6. Surplus(t) = Total(f, 0 .. Days) /\ Surplus(t)' = Total(g, 0 .. Days)
    BY DEF Surplus
  <2>7. IsFiniteSet(0 .. Days) /\ IsFiniteSet(others)
    <3>1. IsFiniteSet(0 .. Days) /\ others \subseteq 0 .. Days
      BY CostAssumption, FS_Interval
    <3> QED
      BY <3>1, FS_Subset
  <2> HIDE DEF f, g
  <2>8. /\ Total(f, 0 .. Days) = f[date] + Total(f, others)
        /\ Total(g, 0 .. Days) = g[date] + Total(g, others)
    <3> DEFINE days == 0 .. Days
    <3>1. /\ IsFiniteSet(days) /\ date \in days /\ others = days \ {date}
          /\ \A d \in days : f[d] \in Int /\ g[d] \in Int
      BY <2>2, <2>3, <2>7
    <3> HIDE DEF days, others
    <3>2. Total(f, days) = f[date] + Total(f, others)
      BY <3>1, TotalTake
    <3>3. Total(g, days) = g[date] + Total(g, others)
      BY <3>1, TotalTake
    <3> QED
      BY <3>2, <3>3 DEF days
  <2>9. Total(f, others) = Total(g, others)
    BY <2>4, <2>7, TotalSame
  <2>10. Total(f, others) \in Int /\ Unspent(t) \in Int /\ f[date] \in Int
    <3>1. Total(f, others) \in Int
      BY <2>3, <2>7, TotalType
    <3>2. Unspent(t) \in Int
      BY UnspentBounds
    <3> QED
      BY <2>2, <2>3, <3>1, <3>2
  <2>11. Unspent(t)' = Unspent(t) + u
    BY <2>1 DEF Books
  <2> HIDE DEF others
  <2> QED
    BY <1>1, <2>1, <2>5, <2>6, <2>8, <2>9, <2>10, <2>11
<1> QED
  BY <1>2, <1>3

\* The rows and today's cost as TodayInv and RowsInv have them, at all times.
LEMMA LedgerInvariant == CostSpec => [](CostInv /\ RowsInv /\ TodayInv)
<1>1. CostInit => CostInv /\ RowsInv /\ TodayInv
  BY CostStart, LedgerStart
<1>2. CostInv /\ RowsInv /\ TodayInv /\ CostInv' /\ [CostNext]_costVars => RowsInv' /\ TodayInv'
  BY RowsStep, TodayStep
<1> QED
  BY <1>1, <1>2, CostInvariant, PTL DEF CostSpec

\* What a tenant's answers of a date cost is within the daily limit, but for
\* the executions the date inherited (ReserveDailyCost, the deferred
\* reconciliation).
THEOREM DailyCapHolds == CostSpec => []DailyCap
<1>1. CostInit => DailyCap
  BY LedgerStart
<1>2. /\ CostInv /\ CostInv' /\ RowsInv' /\ TodayInv'
      /\ (\A t \in Tenants : Unspent(t) \in Nat)' /\ DailyCap /\ [CostNext]_costVars
      => DailyCap'
  BY DailyCapStep
<1>3. CostInv => \A t \in Tenants : Unspent(t) \in Nat
  BY UnspentBounds
<1> QED
  BY <1>1, <1>2, <1>3, LedgerInvariant, PTL DEF CostSpec

\* The rows of a tenant hold what its answers cost and what the executions
\* under way may still spend, whatever fails and wherever a crash strikes.
THEOREM LedgerCovers == CostSpec => []LedgerCoversSpend
<1>1. CostInit => LedgerCoversSpend
  BY LedgerStart
<1>2. CostInv /\ CostInv' /\ RowsInv /\ LedgerCoversSpend /\ [CostNext]_costVars
      => LedgerCoversSpend'
  BY LedgerStep
<1> QED
  BY <1>1, <1>2, LedgerInvariant, PTL DEF CostSpec

=============================================================================
