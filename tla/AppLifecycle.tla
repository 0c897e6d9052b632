---------------------------- MODULE AppLifecycle ----------------------------
(***************************************************************************)
(* The api process from its start to its end: main.go, NewApp, Run and     *)
(* Shutdown of the bootstrap package, and the http.Server under them.      *)
(* Run is a goroutine of its own, so it races with the signal.             *)
(***************************************************************************)
EXTENDS Integers, FiniteSets

CONSTANTS
  Runners,     \* the background runners wireFeatures returns
  JoinRunners  \* the workers among them, which join the consumer group first

ASSUME RunnersAssumption == IsFiniteSet(Runners) /\ JoinRunners \subseteq Runners

VARIABLES
  main,      \* what main is doing
  run,       \* what the goroutine that calls Run is doing
  runner,    \* each background runner: "none", "joining", "on", "off"
  bgCancel,  \* App.bgCancel: "nil", "set", or "called"
  server,    \* the http.Server: "new", "listening", then "closed", or "refused" to start
  pool, rdb, \* the Postgres pool and the Redis client: "none", "open", "closed"
  signal,    \* SIGTERM or SIGINT was received
  timedOut,  \* the shutdown context expired while requests were active
  raced      \* Shutdown saw no bgCancel

appVars == <<main, run, runner, bgCancel, server, pool, rdb, signal, timedOut, raced>>

Ended == {"exited", "fatal"}

On == {i \in Runners : runner[i] \in {"joining", "on"}}

AppInit ==
  /\ main = "boot" /\ run = "none" /\ runner = [i \in Runners |-> "none"]
  /\ bgCancel = "nil" /\ server = "new" /\ pool = "none" /\ rdb = "none"
  /\ signal = FALSE /\ timedOut = FALSE /\ raced = FALSE

Signal ==
  /\ main \notin Ended /\ ~signal
  /\ signal' = TRUE
  /\ UNCHANGED <<main, run, runner, bgCancel, server, pool, rdb, timedOut, raced>>

\* The process is gone, and its goroutines with it.
Exit(how) ==
  /\ main' = how
  /\ runner' = [i \in Runners |-> IF i \in On THEN "off" ELSE runner[i]]
  /\ UNCHANGED <<run, bgCancel, server, pool, rdb, signal, timedOut, raced>>

-----------------------------------------------------------------------------

\* NewApp connects to Postgres, then to Redis.
OpenPool ==
  /\ main = "boot" /\ pool = "none"
  /\ pool' = "open"
  /\ UNCHANGED <<main, run, runner, bgCancel, server, rdb, signal, timedOut, raced>>

OpenPoolFails == main = "boot" /\ pool = "none" /\ Exit("fatal")

\* The graph is wired, and main starts Run in a goroutine.
OpenRedis ==
  /\ main = "boot" /\ pool = "open"
  /\ rdb' = "open" /\ main' = "select" /\ run' = "start"
  /\ UNCHANGED <<runner, bgCancel, server, pool, signal, timedOut, raced>>

OpenRedisFails ==
  /\ main = "boot" /\ pool = "open"
  /\ pool' = "closed" /\ main' = "fatal"
  /\ UNCHANGED <<run, runner, bgCancel, server, rdb, signal, timedOut, raced>>

\* Run: a.bgCancel = cancel.
SetCancel ==
  /\ main \notin Ended /\ run = "start"
  /\ bgCancel' = "set" /\ run' = "spawn"
  /\ UNCHANGED <<main, runner, server, pool, rdb, signal, timedOut, raced>>

\* bgWG.Add(1) and go r.Run(bgCtx), for one runner after the other.
Spawn(i) ==
  /\ main \notin Ended /\ run = "spawn" /\ runner[i] = "none"
  /\ runner' = [runner EXCEPT ![i] = IF i \in JoinRunners THEN "joining" ELSE "on"]
  /\ UNCHANGED <<main, run, bgCancel, server, pool, rdb, signal, timedOut, raced>>

AllSpawned == run = "spawn" /\ \A i \in Runners : runner[i] # "none"

\* ListenAndServe returns at once if Shutdown was called before.
Start ==
  /\ main \notin Ended /\ AllSpawned
  /\ \/ server = "new" /\ run' = "serve" /\ server' = "listening"
     \/ server = "refused" /\ run' = "returned" /\ UNCHANGED server
  /\ UNCHANGED <<main, runner, bgCancel, pool, rdb, signal, timedOut, raced>>

\* The port is taken: Run returns the error.
StartFails ==
  /\ main \notin Ended /\ AllSpawned /\ server = "new"
  /\ run' = "failed"
  /\ UNCHANGED <<main, runner, bgCancel, server, pool, rdb, signal, timedOut, raced>>

ServeReturns ==
  /\ main \notin Ended /\ run = "serve" /\ server = "closed"
  /\ run' = "returned"
  /\ UNCHANGED <<main, runner, bgCancel, server, pool, rdb, signal, timedOut, raced>>

\* Worker.Run starts with EnsureGroup, and ends if that fails.
EnsureGroup(i) ==
  /\ runner[i] = "joining" /\ rdb = "open"
  /\ runner' = [runner EXCEPT ![i] = "on"]
  /\ UNCHANGED <<main, run, bgCancel, server, pool, rdb, signal, timedOut, raced>>

RunnerGivesUp(i) ==
  /\ runner[i] = "joining"
  /\ runner' = [runner EXCEPT ![i] = "off"]
  /\ UNCHANGED <<main, run, bgCancel, server, pool, rdb, signal, timedOut, raced>>

\* A runner returns when bgCtx is cancelled.
RunnerReturns(i) ==
  /\ runner[i] = "on" /\ bgCancel = "called"
  /\ runner' = [runner EXCEPT ![i] = "off"]
  /\ UNCHANGED <<main, run, bgCancel, server, pool, rdb, signal, timedOut, raced>>

-----------------------------------------------------------------------------

\* select in main: a failed server ends the process without a Shutdown.
ServerFatal == main = "select" /\ run = "failed" /\ Exit("fatal")

\* The signal: no new connections from here on.
BeginShutdown ==
  /\ main = "select" /\ signal
  /\ main' = "drain"
  /\ server' = IF server = "listening" THEN "closed" ELSE "refused"
  /\ UNCHANGED <<run, runner, bgCancel, pool, rdb, signal, timedOut, raced>>

\* Mutant: the listener is closed and the requests are not waited for.
DrainServer_Abrupt(active) ==
  /\ main = "drain"
  /\ main' = "cancel"
  /\ UNCHANGED <<run, runner, bgCancel, server, pool, rdb, signal, timedOut, raced>>

\* http.Server.Shutdown returns when no request is active, or on its deadline.
DrainServer(active) ==
  /\ main = "drain" /\ active = {}
  /\ main' = "cancel"
  /\ UNCHANGED <<run, runner, bgCancel, server, pool, rdb, signal, timedOut, raced>>

DrainTimesOut(active) ==
  /\ main = "drain" /\ active # {}
  /\ main' = "cancel" /\ timedOut' = TRUE
  /\ UNCHANGED <<run, runner, bgCancel, server, pool, rdb, signal, raced>>

\* Mutant: the runners are not told.
CancelRunners_Silent ==
  /\ main = "cancel" /\ main' = "wait"
  /\ UNCHANGED <<run, runner, bgCancel, server, pool, rdb, signal, timedOut, raced>>

\* Shutdown reads bgCancel without synchronisation.  A server that was listening
\* orders the write in Run before the read, through the server's mutex; otherwise
\* the read may miss it.
CancelRunners ==
  /\ main = "cancel" /\ main' = "wait"
  /\ \/ bgCancel = "set" /\ bgCancel' = "called" /\ UNCHANGED raced
     \/ (bgCancel = "nil" \/ server = "refused") /\ raced' = TRUE /\ UNCHANGED bgCancel
  /\ UNCHANGED <<run, runner, server, pool, rdb, signal, timedOut>>

\* Mutant: the runners are told and not waited for.
WaitForRunners_Not ==
  /\ main = "wait" /\ main' = "close"
  /\ UNCHANGED <<run, runner, bgCancel, server, pool, rdb, signal, timedOut, raced>>

\* bgWG.Wait has no deadline.
WaitForRunners ==
  /\ main = "wait" /\ On = {}
  /\ main' = "close"
  /\ UNCHANGED <<run, runner, bgCancel, server, pool, rdb, signal, timedOut, raced>>

CloseRedis ==
  /\ main = "close" /\ rdb = "open"
  /\ rdb' = "closed"
  /\ UNCHANGED <<main, run, runner, bgCancel, server, pool, signal, timedOut, raced>>

\* Mutant: the stores are closed in the order in which they were opened.
ClosePool_First ==
  /\ main = "close" /\ pool = "open"
  /\ pool' = "closed"
  /\ UNCHANGED <<main, run, runner, bgCancel, server, rdb, signal, timedOut, raced>>

ClosePool ==
  /\ main = "close" /\ rdb = "closed" /\ pool = "open"
  /\ pool' = "closed"
  /\ UNCHANGED <<main, run, runner, bgCancel, server, rdb, signal, timedOut, raced>>

ReturnFromMain == main = "close" /\ pool = "closed" /\ Exit("exited")

\* The steps that do not depend on the requests the server is handling.
AppStep ==
  \/ OpenPool \/ OpenPoolFails \/ OpenRedis \/ OpenRedisFails
  \/ SetCancel \/ Start \/ StartFails \/ ServeReturns
  \/ \E i \in Runners : Spawn(i) \/ EnsureGroup(i) \/ RunnerGivesUp(i) \/ RunnerReturns(i)
  \/ ServerFatal \/ BeginShutdown \/ CancelRunners \/ WaitForRunners
  \/ CloseRedis \/ ClosePool \/ ReturnFromMain

=============================================================================
