--------------------------- MODULE SchedulerClaims --------------------------
(***************************************************************************)
(* What README.md, comments and tests of the repository say of the         *)
(* pipeline and the code does not keep.  Each is the one property of a run *)
(* in which TLC finds the shortest way to break it.                        *)
(***************************************************************************)
EXTENDS MCScheduler

\* README.md:199 "a slow-but-alive run is never double-executed": no two
\* workers are inside the handler of one run at the same time.
NeverDoubleExecuted ==
  \A v, w \in Workers :
    v # w /\ pc(v) = "handler" /\ pc(w) = "handler" => CurrentRun(v) # CurrentRun(w)

\* README.md:49 "a child job runs after its parent reaches the matching
\* terminal status".
ChildRunsAfterParent ==
  \A r \in Runs :
    calls[r] > 0 /\ Parent[JobOf(r)] # NoJob =>
      \E p \in Runs : JobOf(p) = Parent[JobOf(r)] /\ <<p, Trigger[JobOf(r)]>> \in ended

=============================================================================
