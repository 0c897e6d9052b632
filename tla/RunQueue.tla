------------------------------ MODULE RunQueue ------------------------------
(***************************************************************************)
(* The Redis stream task:runs with its consumer group, and task:dlq, as    *)
(* queue_redis.go uses them.  An entry keeps its id from XADD until it has *)
(* been acknowledged and no worker holds a copy; then the id is free again *)
(* (reusing ids keeps the number of them bounded; the order they stand for *)
(* is the order of the two sequences, since a group delivers in id order). *)
(***************************************************************************)
EXTENDS TaskDomain, FairOrder, Functions

CONSTANTS
  Workers,         \* the consumers of the group
  MaxMsgs,         \* bound: entries alive at the same time
  ReadCount,       \* workerReadCount
  MessageTimeout,  \* workerMessageTimeout, in ticks
  ReclaimMinIdle   \* workerReclaimMinIdle, in ticks

ASSUME QueueAssumption ==
  /\ IsFiniteSet(Workers) /\ Workers # {}
  /\ MaxMsgs \in Nat
  /\ ReadCount \in Nat \ {0}
  /\ MessageTimeout \in Nat
  /\ ReclaimMinIdle \in Nat
  /\ ReclaimMinIdle > MessageTimeout

Msgs == 1 .. MaxMsgs
Entry == [id : Msgs, run : Runs]
Pending == [id : Msgs, run : Runs, idle : 0 .. ReclaimMinIdle]

VARIABLES
  stream,  \* entries not delivered yet, in XADD order
  pel,     \* the pending entries list: delivered, not acknowledged, in id order
  inbox,   \* per worker, the entries of its last read still to be processed
  dlq      \* the runs with an entry in task:dlq

queueVars == <<stream, pel, inbox, dlq>>

RunQueueTypeOK ==
  /\ stream \in Seq(Entry)
  /\ pel \in Seq(Pending)
  /\ inbox \in [Workers -> Seq(Entry)]
  /\ dlq \subseteq Runs

RunQueueInit ==
  /\ stream = <<>>
  /\ pel = <<>>
  /\ inbox = [w \in Workers |-> <<>>]
  /\ dlq = {}

IdsOf(entries) == {entries[i].id : i \in DOMAIN entries}

FreeMsgs ==
  Msgs \ (IdsOf(stream) \cup IdsOf(pel) \cup UNION {IdsOf(inbox[w]) : w \in Workers})

\* A run some entry of the group still stands for.
HasMessage(r) ==
  \/ \E i \in DOMAIN stream : stream[i].run = r
  \/ \E i \in DOMAIN pel : pel[i].run = r

TenantOfEntry(read) == [e \in Range(read) |-> TenantOf[JobOf(e.run)]]

-----------------------------------------------------------------------------

Enqueue(r) ==
  /\ \E m \in FreeMsgs :
       /\ \A n \in FreeMsgs : m <= n
       /\ stream' = Append(stream, [id |-> m, run |-> r])
  /\ UNCHANGED <<pel, inbox, dlq>>

FairBatch(read) == fairOrder(read, TenantOfEntry(read))

\* The copies a worker gets to process; fairOrder permutes what was read.
Deliver(w, read) ==
  \E batch \in [DOMAIN read -> Range(read)] :
    /\ batch = FairBatch(read)
    /\ inbox' = [inbox EXCEPT ![w] = batch]

\* XREADGROUP: up to ReadCount new entries, pending from now on.
Read(w) ==
  LET count == IF Len(stream) < ReadCount THEN Len(stream) ELSE ReadCount
      read == SubSeq(stream, 1, count)
  IN  /\ stream # <<>>
      /\ stream' = SubSeq(stream, count + 1, Len(stream))
      /\ pel' = pel \o [i \in 1 .. count |-> [id |-> read[i].id, run |-> read[i].run, idle |-> 0]]
      /\ Deliver(w, read)
      /\ UNCHANGED dlq

Reclaimable == {i \in DOMAIN pel : pel[i].idle >= ReclaimMinIdle}

\* XAUTOCLAIM from 0-0: up to ReadCount of the idle entries, lowest ids first;
\* they change hands and their idle time starts again.
Reclaim(w) ==
  \E n \in 1 .. ReadCount : \E claimed \in [1 .. n -> Reclaimable] :
    /\ \A k, l \in 1 .. n : k < l => claimed[k] < claimed[l]
    /\ \A i \in Reclaimable \ Range(claimed) : n = ReadCount /\ claimed[n] < i
    /\ pel' = [i \in DOMAIN pel |->
                 IF i \in Range(claimed) THEN [pel[i] EXCEPT !.idle = 0] ELSE pel[i]]
    /\ Deliver(w, [k \in 1 .. n |-> [id |-> pel[claimed[k]].id, run |-> pel[claimed[k]].run]])
    /\ UNCHANGED <<stream, dlq>>

\* XACK takes the entry out of the group, whoever it is pending for.
Ack(m) ==
  /\ \/ \E i \in DOMAIN pel :
          /\ pel[i].id = m
          /\ pel' = SubSeq(pel, 1, i - 1) \o SubSeq(pel, i + 1, Len(pel))
     \/ m \notin IdsOf(pel) /\ UNCHANGED pel
  /\ UNCHANGED <<stream, dlq>>

DeadLetter(r) ==
  /\ dlq' = dlq \cup {r}
  /\ UNCHANGED <<stream, pel>>

Older(p) == IF p.idle < ReclaimMinIdle THEN [p EXCEPT !.idle = @ + 1] ELSE p

=============================================================================
