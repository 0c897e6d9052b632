------------------------------ MODULE Watcher -------------------------------
(***************************************************************************)
(* Watcher.scanOnce (watcher.go): due pending runs become queued and get a *)
(* message.  The runs are read once per bucket and written one by one, so  *)
(* the watcher works from copies that may be old.                          *)
(***************************************************************************)
EXTENDS RunStore, RunQueue

CONSTANT MaxScanFaults   \* bound: calls of the watcher that fail

ASSUME ScanFaultAssumption == MaxScanFaults \in Nat

VARIABLES
  scan,       \* where scanOnce is, the copies left to do, and the one in hand
  scanFaults  \* calls that have failed so far

watcherVars == <<scan, scanFaults>>

\* A copy is a run with the attempts FindDueRuns returned for it.
Copies == Runs \X Nat

WatcherTypeOK ==
  /\ scan \in [at : {"tick", "mark", "enqueue", "revert"}, due : SUBSET Copies,
               hand : SUBSET Copies]
  /\ scan.at \in {"enqueue", "revert"} => \E c \in scan.hand : scan.hand = {c}
  /\ scanFaults \in 0 .. MaxScanFaults

Resting == [at |-> "tick", due |-> {}, hand |-> {}]

WatcherInit ==
  /\ scan = Resting
  /\ scanFaults = 0

\* The loop over the copies goes on, or the scan is over.
NextCopy(due) ==
  scan' = IF due = {} THEN Resting ELSE [at |-> "mark", due |-> due, hand |-> {}]

CountScanFault ==
  /\ scanFaults < MaxScanFaults
  /\ scanFaults' = scanFaults + 1

-----------------------------------------------------------------------------

\* FindDueRuns for the current bucket.
FindDue ==
  /\ scan.at = "tick"
  /\ FindDueRuns # {}
  /\ NextCopy(FindDueRuns)
  /\ UNCHANGED <<storeVars, queueVars, scanFaults>>

\* MarkQueued on the copy, then UpdateRunStatus on the row.
MarkQueued ==
  /\ scan.at = "mark"
  /\ \E c \in scan.due :
       /\ UpdateRunStatus(c[1], "queued", c[2])
       /\ scan' = [at |-> "enqueue", due |-> scan.due \ {c}, hand |-> {c}]
  /\ UNCHANGED <<record, queueVars, scanFaults>>

EnqueueDue ==
  /\ scan.at = "enqueue"
  /\ \E c \in scan.hand : Enqueue(c[1])
  /\ NextCopy(scan.due)
  /\ UNCHANGED <<storeVars, scanFaults>>

\* The watcher sees an error from XADD, whether or not Redis added the entry.
EnqueueDueFails ==
  /\ scan.at = "enqueue"
  /\ \/ \E c \in scan.hand : Enqueue(c[1])
     \/ UNCHANGED queueVars
  /\ scan' = [scan EXCEPT !.at = "revert"]
  /\ CountScanFault
  /\ UNCHANGED storeVars

\* MarkPending on the copy, then UpdateRunStatus on the row.
RevertToPending ==
  /\ scan.at = "revert"
  /\ \E c \in scan.hand : UpdateRunStatus(c[1], "pending", c[2])
  /\ NextCopy(scan.due)
  /\ UNCHANGED <<record, queueVars, scanFaults>>

\* UpdateRunStatus fails: the copy is skipped.
SkipCopy ==
  /\ scan.at \in {"mark", "revert"}
  /\ \/ /\ scan.at = "mark"
        /\ \E c \in scan.due : NextCopy(scan.due \ {c})
     \/ /\ scan.at = "revert"
        /\ NextCopy(scan.due)
  /\ CountScanFault
  /\ UNCHANGED <<storeVars, queueVars>>

\* The five seconds of scanOnce are over: every later call fails, the revert
\* included, because it uses the same context.
ScanDeadline ==
  /\ scan.at # "tick"
  /\ scan' = Resting
  /\ CountScanFault
  /\ UNCHANGED <<storeVars, queueVars>>

WatcherStep == FindDue \/ MarkQueued \/ EnqueueDue \/ RevertToPending

WatcherFailure == EnqueueDueFails \/ SkipCopy \/ ScanDeadline

=============================================================================
