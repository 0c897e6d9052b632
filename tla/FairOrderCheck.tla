--------------------------- MODULE FairOrderCheck ---------------------------
(***************************************************************************)
(* fairOrder on every batch a worker can read: the batch grows one message *)
(* at a time and is then processed.                                        *)
(***************************************************************************)
EXTENDS FairOrder, FiniteSets, Functions

CONSTANTS
  BatchTenants,  \* the tenants whose messages may be in the batch
  MaxBatch       \* bound: workerReadCount

ASSUME BatchAssumption == MaxBatch \in Nat

VARIABLE batch   \* the messages as read; a message is [id, tenant]

TenantOfMsg == [m \in Range(batch) |-> m.tenant]

BatchInit == batch = <<>>

Receive(t) ==
  /\ Len(batch) < MaxBatch
  /\ batch' = Append(batch, [id |-> Len(batch) + 1, tenant |-> t])

ProcessBatch ==
  /\ batch # <<>>
  /\ batch' = <<>>

BatchNext == (\E t \in BatchTenants : Receive(t)) \/ ProcessBatch

BatchSpec == BatchInit /\ [][BatchNext]_batch

-----------------------------------------------------------------------------

Ordered == fairOrder(batch, TenantOfMsg)

\* How many of the first k messages handed out belong to tenant t.
Served(t, k) == Cardinality({i \in 1 .. k : Ordered[i].tenant = t})

\* fairOrder hands out every message of the batch exactly once.
HandsOutEveryMessageOnce ==
  /\ DOMAIN Ordered = DOMAIN batch
  /\ Range(Ordered) = Range(batch)

\* Messages of one tenant keep the order in which they were read.
KeepsTenantOrder ==
  \A i, j \in DOMAIN Ordered :
    i < j /\ Ordered[i].tenant = Ordered[j].tenant => Ordered[i].id < Ordered[j].id

\* At no point has a tenant been served two messages more than another one
\* that still has messages waiting in the batch.
NoTenantGetsAhead ==
  \A k \in DOMAIN Ordered : \A t, u \in BatchTenants :
    Served(t, k) > Served(u, k) + 1 => Served(u, k) = Served(u, Len(Ordered))

=============================================================================
