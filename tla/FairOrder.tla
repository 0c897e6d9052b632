----------------------------- MODULE FairOrder ------------------------------
(***************************************************************************)
(* fairOrder of worker.go: the order in which a worker goes through the    *)
(* messages one read returned, round robin over the tenants.  tenantOf is  *)
(* the function that gives the tenant of each of the messages.             *)
(***************************************************************************)
EXTENDS Integers, Sequences

\* Mutant: a tenant is listed once per message.
TenantOrder_Repeats(msgs, tenantOf) == [i \in 1 .. Len(msgs) |-> tenantOf[msgs[i]]]

\* The tenants of msgs in the order of their first message.
TenantOrder(msgs, tenantOf) ==
  LET first(i) == \A j \in 1 .. i - 1 : tenantOf[msgs[j]] # tenantOf[msgs[i]]
      order[i \in 0 .. Len(msgs)] ==
        IF i = 0 THEN <<>>
        ELSE IF first(i) THEN Append(order[i - 1], tenantOf[msgs[i]]) ELSE order[i - 1]
  IN  order[Len(msgs)]

\* Mutant: the order in which the messages were read.
fairOrder_AsRead(msgs, tenantOf) == msgs

\* Mutant: takes each tenant's messages from the end of its queue.
fairOrder_LastFirst(msgs, tenantOf) ==
  [i \in 1 .. Len(msgs) |-> msgs[Len(msgs) + 1 - i]]

\* Round k takes the k-th message of every tenant that has one.
fairOrder(msgs, tenantOf) ==
  LET byTenant(t) == SelectSeq(msgs, LAMBDA m : tenantOf[m] = t)
      order == TenantOrder(msgs, tenantOf)
      round(k) ==
        LET served == SelectSeq(order, LAMBDA t : Len(byTenant(t)) >= k)
        IN  [i \in 1 .. Len(served) |-> byTenant(served[i])[k]]
      out[k \in 0 .. Len(msgs)] == IF k = 0 THEN <<>> ELSE out[k - 1] \o round(k)
  IN  out[Len(msgs)]

=============================================================================
