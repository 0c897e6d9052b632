------------------------------ MODULE TaskReads -----------------------------
(***************************************************************************)
(* List and RunsForJob of service.go while runs are inserted and updated:  *)
(* a client pages through the runs of its tenant, or of one of its jobs,   *)
(* with limit and offset.  A run is the position at which NewJobRun built  *)
(* it, so runs are numbered in the order of created_at; runs built at the  *)
(* same microsecond, which the statements leave unordered, are left out.   *)
(***************************************************************************)
EXTENDS Integers, Sequences, FiniteSetsExt

CONSTANTS
  ReadJobs,                \* the jobs
  OwnerOf,                 \* the tenant of each job
  Reader,                  \* the tenant of the client
  defaultLimit, maxLimit,  \* constants of pagination.go
  MaxInt32,                \* the largest int32
  MaxRuns                  \* bound: runs ever built

ASSUME ReadsAssumption ==
  /\ OwnerOf \in [ReadJobs -> {Reader, "other"}]
  /\ defaultLimit \in Nat \ {0} /\ maxLimit \in Nat \ {0} /\ MaxRuns \in Nat
  /\ MaxInt32 \in Nat /\ maxLimit <= MaxInt32

VARIABLES
  built,    \* the job of every run built, by created_at
  written,  \* the runs in the table, the last written first
  walk      \* the client: where it is, what it asked for, got and has seen

readVars == <<built, written, walk>>

Stored == {written[i] : i \in DOMAIN written}

Without(s, r) == SelectSeq(s, LAMBDA x : x # r)

\* What the filters on tenant_id and job_id of the statements let through.
Matches(over, r) == OwnerOf[built[r]] = Reader /\ over \in {"all", built[r]}

NewPagination(limit, offset) ==
  [limit |-> IF limit <= 0 THEN defaultLimit ELSE IF limit > maxLimit THEN maxLimit ELSE limit,
   offset |-> IF offset < 0 THEN 0 ELSE offset]

\* The conversion of the limit and the offset for the statement.
int32(n) == ((n + MaxInt32 + 1) % (2 * (MaxInt32 + 1))) - (MaxInt32 + 1)

\* LIMIT and OFFSET.
Page(rows, p) ==
  SubSeq(rows, int32(p.offset) + 1, Min({int32(p.offset) + int32(p.limit), Len(rows)}))

\* Mutant: the runs that changed last come first.
ListJobRuns_ByUpdate(over, p) == Page(SelectSeq(written, LAMBDA r : Matches(over, r)), p)

\* ORDER BY created_at DESC, and for one job ORDER BY sequence DESC, which is
\* the same order: a job's runs are built one after the other.
ListJobRuns(over, p) ==
  LET newest == [i \in DOMAIN built |-> Len(built) + 1 - i]
  IN  Page(SelectSeq(newest, LAMBDA r : r \in Stored /\ Matches(over, r)), p)

CountJobRuns(over) == Cardinality({r \in Stored : Matches(over, r)})

\* Mutant: the total is read before the page.
ListRuns_CountFirst == <<"count", "page">>

\* The statements of ListRuns and of ListRunsByJob, in this order.
ListRuns == <<"page", "count">>

Idle == [at |-> "idle", over |-> "all", p |-> NewPagination(0, 0), page |-> <<>>,
         total |-> 0, seen |-> {}, owed |-> {}]

ReadsInit == built = <<>> /\ written = <<>> /\ walk = Idle

\* NewJobRun takes created_at some time before the row is inserted.
BuildRun(j) ==
  /\ Len(built) < MaxRuns
  /\ \A r \in DOMAIN built : built[r] = j => r \in Stored
  /\ built' = Append(built, j)
  /\ UNCHANGED <<written, walk>>

InsertBuilt(r) ==
  /\ r \notin Stored
  /\ written' = <<r>> \o written
  /\ UNCHANGED <<built, walk>>

UpdateRun(r) ==
  /\ r \in Stored /\ written[1] # r
  /\ written' = <<r>> \o Without(written, r)
  /\ UNCHANGED <<built, walk>>

\* owed is a history: what a walk from the start should come to see.
StartWalk(over, p) ==
  /\ walk.at = "idle"
  /\ walk' = [Idle EXCEPT !.at = "first", !.over = over, !.p = p,
                          !.owed = IF p.offset > 0 THEN {} ELSE {r \in Stored : Matches(over, r)}]
  /\ UNCHANGED <<built, written>>

List(p) == StartWalk("all", p)
RunsForJob(j, p) == StartWalk(j, p)

\* The handlers of GET /jobs and of GET /jobs/:id/runs.
list(limit, offset) == List(NewPagination(limit, offset))
runsForJob(j, limit, offset) == RunsForJob(j, NewPagination(limit, offset))

\* Postgres refuses a negative offset, and the caller gets an internal error.
Query(at, n, next) ==
  /\ walk.at = at
  /\ walk' = IF ListRuns[n] = "page" /\ int32(walk.p.offset) < 0 THEN [walk EXCEPT !.at = "refused"]
             ELSE IF ListRuns[n] = "page"
             THEN [walk EXCEPT !.at = next, !.page = ListJobRuns(walk.over, walk.p)]
             ELSE [walk EXCEPT !.at = next, !.total = CountJobRuns(walk.over)]
  /\ UNCHANGED <<built, written>>

FirstStatement == Query("first", 1, "second")
SecondStatement == Query("second", 2, "answered")

SeenNow == walk.seen \cup {walk.page[i] : i \in DOMAIN walk.page}

\* The client goes on by the limit the response reports, up to its total.
NextPage ==
  /\ walk.at = "answered"
  /\ LET end == walk.p.offset + walk.p.limit
     IN  walk' = IF end < walk.total
                 THEN [walk EXCEPT !.at = "first", !.p.offset = end, !.seen = SeenNow]
                 ELSE [walk EXCEPT !.at = "done", !.seen = SeenNow]
  /\ UNCHANGED <<built, written>>

EndWalk == walk.at \in {"done", "refused"} /\ walk' = Idle /\ UNCHANGED <<built, written>>

ReadsNext ==
  \/ \E j \in ReadJobs : BuildRun(j)
  \/ \E r \in DOMAIN built : InsertBuilt(r) \/ UpdateRun(r)
  \/ \E limit \in {0, 1, maxLimit + 1}, offset \in {-1, 0, 1, MaxInt32 + 1, 2 * (MaxInt32 + 1)} :
       list(limit, offset) \/ \E j \in ReadJobs : runsForJob(j, limit, offset)
  \/ FirstStatement \/ SecondStatement \/ NextPage \/ EndWalk

-----------------------------------------------------------------------------

\* A client that pages from the start to the end has seen every run there was when it began,
\* and none of another tenant, although runs are inserted and change their
\* status between the pages.
WalkComplete ==
  walk.at = "done" => /\ walk.owed \subseteq walk.seen
                      /\ \A r \in walk.seen : OwnerOf[built[r]] = Reader

\* A response never reports fewer runs than it shows: the page and the total
\* come from two statements, with inserts between them.  (From 2^31 on the
\* offset of the statement is another than the one in the response.)
TotalCoversPage ==
  walk.at = "answered" /\ walk.p.offset <= MaxInt32 =>
    walk.page = <<>> \/ walk.p.offset + Len(walk.page) <= walk.total

=============================================================================
