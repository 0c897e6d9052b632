----------------------------- MODULE EffectOnce -----------------------------
(***************************************************************************)
(* What idempotent execution promises for each side-effecting run: its     *)
(* effect starts once or never; it may then be confirmed; and only a       *)
(* confirmed effect is ever reported as a success.  Queues, workers,       *)
(* retries and crashes are not visible here.                               *)
(***************************************************************************)
EXTENDS Naturals

CONSTANT Effects   \* the side-effecting runs

VARIABLES
  started,    \* how often each effect has been started
  confirmed,  \* the effects known to be applied
  reported    \* the effects whose run has been reported as a success

effectVars == <<started, confirmed, reported>>

EffectInit ==
  /\ started = [e \in Effects |-> 0]
  /\ confirmed = {}
  /\ reported = {}

Start(e) ==
  /\ started[e] = 0
  /\ started' = [started EXCEPT ![e] = 1]
  /\ UNCHANGED <<confirmed, reported>>

Confirm(e) ==
  /\ started[e] = 1
  /\ confirmed' = confirmed \cup {e}
  /\ UNCHANGED <<started, reported>>

Report(e) ==
  /\ e \in confirmed
  /\ reported' = reported \cup {e}
  /\ UNCHANGED <<started, confirmed>>

EffectNext == \E e \in Effects : Start(e) \/ Confirm(e) \/ Report(e)

EffectSpec == EffectInit /\ [][EffectNext]_effectVars

=============================================================================
