----------------------------- MODULE CostGuard ------------------------------
(***************************************************************************)
(* The daily LLM cost guard: LLMExecutor.Execute reserves the worst case   *)
(* of a run's attempts in tenant_llm_daily_cost, calls the model, and      *)
(* settles the reservation against what the answers cost.  The workers     *)
(* execute runs at the same time; the date is the one Postgres rows are    *)
(* named by (UTC), and it changes while executions are under way.          *)
(***************************************************************************)
EXTENDS Integers, FiniteSets, FiniteSetsExt

CONSTANTS
  Tenants,
  Workers,
  Days,          \* bound: the last date, counted from 0
  TokenUse,      \* the token totals an answer may report
  MaxTokens,     \* MaxInputTokens + MaxOutputTokens of the policy
  MaxRetries,    \* MaxRetries of the policy
  MaxCostCents,  \* MaxCostCents of the policy; negative is no limit
  DailyLimit     \* MaxDailyLLMCostCents of the tenants' quota

\* The model answers within the limits of the request.
ASSUME CostAssumption ==
  /\ Tenants # {}
  /\ IsFiniteSet(Workers)
  /\ Days \in Nat
  /\ MaxTokens \in Nat
  /\ TokenUse \subseteq 0 .. MaxTokens
  /\ MaxRetries \in Int
  /\ MaxCostCents \in Int
  /\ DailyLimit \in Nat

VARIABLES
  date,    \* today
  rows,    \* the <<tenant, date>> that have a row
  booked,  \* cost_cents of the rows; 0 where there is none
  exec,    \* what each worker's Execute is doing
  spent,   \* history: what the answers of a date cost each tenant
  carried  \* history: the executions of each tenant under way at a date's start

costVars == <<date, rows, booked, exec, spent, carried>>

TenantDays == Tenants \X (0 .. Days)

EstimateCostCents(tokens) == IF tokens <= 0 THEN 0 ELSE (tokens + 999) \div 1000

Attempts == IF MaxRetries + 1 < 1 THEN 1 ELSE MaxRetries + 1

Estimated == EstimateCostCents(MaxTokens) * Attempts

\* actual is actualCost; billed is a history of what the attempts cost, the
\* late answers Execute never sees included.
NoExec == [pc |-> "idle", tenant |-> CHOOSE t \in Tenants : TRUE, actual |-> 0, billed |-> 0, tried |-> 0]

Executions ==
  [pc : {"idle", "call", "settle"}, tenant : Tenants, actual : Nat, billed : Nat, tried : 0 .. Attempts]

CostInit ==
  /\ date = 0
  /\ rows = {}
  /\ booked = [td \in TenantDays |-> 0]
  /\ exec = [w \in Workers |-> NoExec]
  /\ spent = [td \in TenantDays |-> 0]
  /\ carried = [td \in TenantDays |-> 0]

-----------------------------------------------------------------------------

\* Mutant: the ON CONFLICT update has no WHERE.
ReserveDailyLLMCost_Unguarded(td, committed) ==
  /\ committed
  /\ rows' = rows \cup {td}
  /\ booked' = [booked EXCEPT ![td] = @ + Estimated]

\* One statement: a row is inserted as it is, or updated if the sum stays
\* within the limit.
ReserveDailyLLMCost(td, committed) ==
  /\ committed <=> (td \in rows => booked[td] + Estimated <= DailyLimit)
  /\ rows' = IF committed THEN rows \cup {td} ELSE rows
  /\ booked' = IF committed THEN [booked EXCEPT ![td] = @ + Estimated] ELSE booked

\* A reservation that alone is over the limit is refused before the statement.
ReserveDailyCost(t, committed) ==
  \/ /\ Estimated <= DailyLimit
     /\ ReserveDailyLLMCost(<<t, date>>, committed)
  \/ /\ Estimated > DailyLimit /\ ~committed
     /\ UNCHANGED <<rows, booked>>

\* The statement finds the row of the date, or nothing to update.
AdjustDailyLLMCost(td, delta) ==
  booked' = IF td \in rows THEN [booked EXCEPT ![td] = @ + delta] ELSE booked

\* Execute up to the reservation.  Without one (over the per-job cost, over
\* the daily limit, or an error) it returns, and nothing is left behind.
Reserve(w, t) ==
  /\ exec[w].pc = "idle"
  /\ MaxCostCents < 0 \/ Estimated <= MaxCostCents
  /\ \E committed \in BOOLEAN :
       /\ ReserveDailyCost(t, committed)
       /\ exec' = IF committed
                  THEN [exec EXCEPT ![w] = [NoExec EXCEPT !.pc = "call", !.tenant = t]]
                  ELSE exec
  /\ UNCHANGED <<date, spent, carried>>

\* The statement commits but its answer is lost: Execute returns the error,
\* before it has deferred the reconciliation.
ReserveUnknown(w, t) ==
  /\ exec[w].pc = "idle"
  /\ MaxCostCents < 0 \/ Estimated <= MaxCostCents
  /\ ReserveDailyCost(t, TRUE)
  /\ UNCHANGED <<date, exec, spent, carried>>

\* Mutant: one attempt too many.
AfterAttempt_OffByOne(w, accepted, taken, cost) ==
  exec' = [exec EXCEPT ![w].tried = @ + 1,
                       ![w].actual = @ + taken,
                       ![w].billed = @ + cost,
                       ![w].pc = IF accepted \/ exec[w].tried + 1 > Attempts
                                 THEN "settle" ELSE "call"]

\* An attempt ends the loop when its output is valid or it was the last one.
AfterAttempt(w, accepted, taken, cost) ==
  exec' = [exec EXCEPT ![w].tried = @ + 1,
                       ![w].actual = @ + taken,
                       ![w].billed = @ + cost,
                       ![w].pc = IF accepted \/ exec[w].tried + 1 >= Attempts
                                 THEN "settle" ELSE "call"]

\* Mutant: keeps the cost of the last answer only.
Answer_LastOnly(w, tokens, valid) ==
  LET cost == EstimateCostCents(tokens)
  IN  /\ exec[w].pc = "call"
      /\ exec' = [exec EXCEPT ![w].tried = @ + 1,
                              ![w].actual = cost,
                              ![w].billed = @ + cost,
                              ![w].pc = IF valid \/ exec[w].tried + 1 >= Attempts
                                        THEN "settle" ELSE "call"]
      /\ spent' = [spent EXCEPT ![<<exec[w].tenant, date>>] = @ + cost]
      /\ UNCHANGED <<date, rows, booked, carried>>

\* The model answers in time: the answer is paid for, valid or not.
Answer(w, tokens, valid) ==
  LET cost == EstimateCostCents(tokens)
  IN  /\ exec[w].pc = "call"
      /\ AfterAttempt(w, valid, cost, cost)
      /\ spent' = [spent EXCEPT ![<<exec[w].tenant, date>>] = @ + cost]
      /\ UNCHANGED <<date, rows, booked, carried>>

\* A timeout or an error of the client.  An answer that came too late may
\* have its cost, but callModel drops it with its token counts.
NoAnswer(w, tokens) ==
  /\ exec[w].pc = "call"
  /\ AfterAttempt(w, FALSE, 0, EstimateCostCents(tokens))
  /\ UNCHANGED <<date, rows, booked, spent, carried>>

\* The deferred reconciliation, on the row of the date it is by then; without
\* a difference there is no statement, and its error is ignored.
Settle(w, lost) ==
  LET delta == exec[w].actual - Estimated
  IN  /\ exec[w].pc = "settle"
      /\ IF lost \/ delta = 0
         THEN UNCHANGED booked
         ELSE AdjustDailyLLMCost(<<exec[w].tenant, date>>, delta)
      /\ exec' = [exec EXCEPT ![w] = NoExec]
      /\ UNCHANGED <<date, rows, spent, carried>>

\* The process dies; the rows stay as they are.
Crash ==
  /\ exec' = [w \in Workers |-> NoExec]
  /\ UNCHANGED <<date, rows, booked, spent, carried>>

\* The executions of a tenant that are under way.
Open(t) == {w \in Workers : exec[w].pc # "idle" /\ exec[w].tenant = t}

Midnight ==
  /\ date < Days
  /\ date' = date + 1
  /\ carried' = [td \in TenantDays |->
                   IF td[2] = date + 1 THEN Cardinality(Open(td[1])) ELSE carried[td]]
  /\ UNCHANGED <<rows, booked, exec, spent>>

ExecuteStep(w) ==
  \/ \E t \in Tenants : Reserve(w, t) \/ ReserveUnknown(w, t)
  \/ \E tokens \in TokenUse, valid \in BOOLEAN : Answer(w, tokens, valid)
  \/ \E tokens \in TokenUse : NoAnswer(w, tokens)
  \/ \E lost \in BOOLEAN : Settle(w, lost)

CostNext == (\E w \in Workers : ExecuteStep(w)) \/ Crash \/ Midnight

CostSpec == CostInit /\ [][CostNext]_costVars

-----------------------------------------------------------------------------

\* The sum of f over a finite set.
Total(f, S) == MapThenSumSet(LAMBDA x : f[x], S)

\* What the executions of t under way have reserved and not spent yet.
Unspent(t) == Total([w \in Workers |-> Estimated - exec[w].actual], Open(t))

\* By how much the rows of t exceed what its answers cost.
Surplus(t) == Total([d \in 0 .. Days |-> booked[<<t, d>>] - spent[<<t, d>>]], 0 .. Days)

\* The types of the ledger and of what Execute is doing; no more attempts are
\* made than the policy allows.
CostTypeOK ==
  /\ date \in 0 .. Days
  /\ rows \subseteq TenantDays
  /\ booked \in [TenantDays -> Int]
  /\ exec \in [Workers -> Executions]
  /\ spent \in [TenantDays -> Nat]
  /\ carried \in [TenantDays -> Nat]

\* The attempts of an execution, late answers included, cost no more than its
\* reservation and the policy's limit for a job, so retries cannot pass either.
WithinReservation ==
  \A w \in Workers :
    /\ exec[w].billed <= Estimated
    /\ MaxCostCents >= 0 => exec[w].billed <= MaxCostCents

\* What a tenant's answers of one date cost is within the daily limit, but
\* for the executions the date inherited: each of these may spend, or give
\* back to the new date's row, up to its whole reservation.
DailyCap ==
  \A td \in TenantDays : spent[td] <= DailyLimit + carried[td] * Estimated

\* Over all dates the rows never understate: they hold what was spent and
\* what the executions under way may still spend, whatever calls fail and
\* wherever a crash strikes.
LedgerCoversSpend ==
  \A t \in Tenants : Surplus(t) >= Unspent(t)

=============================================================================
