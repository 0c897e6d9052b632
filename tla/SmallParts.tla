----------------------------- MODULE SmallParts -----------------------------
(***************************************************************************)
(* Three parts that share no state with anything else, checked side by     *)
(* side: a behaviour exercises one of them and leaves the others alone.    *)
(***************************************************************************)
EXTENDS FairOrderCheck, OutputSchemaCheck, TaskReads

VARIABLE part  \* the part this behaviour is about

partVars == <<part, batch, policy, answer, built, written, walk>>

NoPolicy == policy = NoSchema /\ answer = Awaited

PartsInit ==
  /\ BatchInit /\ ReadsInit
  /\ \/ part = "schema" /\ SchemaInit
     \/ part \in {"batch", "reads"} /\ NoPolicy

BatchStep == part = "batch" /\ BatchNext /\ UNCHANGED <<part, policy, answer, built, written, walk>>
SchemaStep == part = "schema" /\ SchemaNext /\ UNCHANGED <<part, batch, built, written, walk>>
ReadsStep == part = "reads" /\ ReadsNext /\ UNCHANGED <<part, batch, policy, answer>>

PartsNext == BatchStep \/ SchemaStep \/ ReadsStep

PartsSpec == PartsInit /\ [][PartsNext]_partVars

\* Values for TLC: two jobs of the client's tenant and one of another tenant.
MCReadJobs == {"j", "k", "x"}
MCOwnerOf == [j \in MCReadJobs |-> IF j = "x" THEN "other" ELSE "me"]

=============================================================================
