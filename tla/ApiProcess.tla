----------------------------- MODULE ApiProcess -----------------------------
(***************************************************************************)
(* The api process and the requests of the user feature: the server takes  *)
(* requests while it listens, their calls need the pool, and Shutdown      *)
(* waits for them up to its deadline.                                      *)
(***************************************************************************)
EXTENDS AppLifecycle, UserRegistry

vars == <<appVars, userVars>>

Init == AppInit /\ UsersInit

\* Requests that came in and that the server has neither answered nor lost.
InFlight == IF main \in Ended THEN {} ELSE Active

Arrive(r) ==
  /\ server = "listening" /\ main \notin Ended
  /\ \/ \E op \in {"register", "login"} : \E a \in Addresses : \E p \in Passwords : Send(r, op, a, p)
     \/ BadBody(r)
     \/ \E token \in Tokens \cup {NoUser} : me(r, token)

Serve(r) ==
  /\ r \in InFlight /\ pool = "open"
  /\ registerLookup(r) \/ Save(r) \/ login(r) \/ meLookup(r)

\* A call fails by itself, or because the pool is closed.
ServeFails(r) ==
  /\ r \in InFlight
  /\ StoreFails(r)
  /\ IF pool = "closed" THEN UNCHANGED <<users, storeFaults>>
     ELSE storeFaults < MaxStoreFaults /\ storeFaults' = storeFaults + 1

ProcessStep == AppStep \/ DrainServer(InFlight) \/ DrainTimesOut(InFlight)

Next ==
  \/ Signal /\ UNCHANGED userVars
  \/ ProcessStep /\ UNCHANGED userVars
  \/ \E r \in Requests : (Arrive(r) \/ Serve(r) \/ ServeFails(r)) /\ UNCHANGED appVars

Spec == Init /\ [][Next]_vars

\* Every goroutine goes on, calls to Postgres return, a cancelled runner returns
\* and the shutdown context expires.  Signals, requests and failures may not come.
Fairness ==
  /\ WF_vars((OpenPool \/ OpenRedis) /\ UNCHANGED userVars)
  /\ WF_vars((SetCancel \/ Start \/ \E i \in Runners : Spawn(i)) /\ UNCHANGED userVars)
  /\ \A i \in Runners : WF_vars((EnsureGroup(i) \/ RunnerGivesUp(i) \/ RunnerReturns(i)) /\ UNCHANGED userVars)
  /\ WF_vars((ServerFatal \/ BeginShutdown \/ CancelRunners \/ WaitForRunners
                \/ CloseRedis \/ ClosePool \/ ReturnFromMain) /\ UNCHANGED userVars)
  /\ WF_vars((DrainServer(InFlight) \/ DrainTimesOut(InFlight)) /\ UNCHANGED userVars)
  /\ \A r \in Requests : WF_vars((Serve(r) \/ ServeFails(r)) /\ UNCHANGED appVars)

FairSpec == Spec /\ Fairness

-----------------------------------------------------------------------------

Rows == [id: Requests, email: Addresses, password: Passwords]
Places == {"unsent", "find", "save", "byid", "answered"}
Operations == {"", "register", "login", "me"}
Codes == {0, 200, 201, 400, 401, 404, 409, 500}
RequestRecords ==
  [at: Places, op: Operations, email: Addresses \cup {""}, password: Passwords \cup {""},
   token: Requests \cup {NoUser}, code: Codes, known: SUBSET Rows]

\* The types, and: stores are closed in the reverse of the order in which NewApp
\* opened them.
TypeOK ==
  /\ main \in {"boot", "select", "drain", "cancel", "wait", "close"} \cup Ended
  /\ run \in {"none", "start", "spawn", "serve", "failed", "returned"}
  /\ runner \in [Runners -> {"none", "joining", "on", "off"}]
  /\ bgCancel \in {"nil", "set", "called"}
  /\ server \in {"new", "listening", "closed", "refused"}
  /\ pool \in {"none", "open", "closed"} /\ rdb \in {"none", "open", "closed"}
  /\ rdb = "open" => pool = "open"
  /\ signal \in BOOLEAN /\ timedOut \in BOOLEAN /\ raced \in BOOLEAN
  /\ users \subseteq Rows
  /\ req \in [Requests -> RequestRecords]
  /\ storeFaults \in 0 .. MaxStoreFaults

\* Background runners are stopped before their dependencies: none is on while a
\* store is closed, unless the signal came before the server was listening.
RunnersBeforeStores ==
  On # {} /\ "closed" \in {pool, rdb} => server = "refused"

\* Shutdown does not take the pool from a request it could still wait for.
RequestsBeforeStores ==
  pool = "closed" /\ InFlight # {} => timedOut

\* Two spellings of one address never become two accounts, although the lookup
\* in Register compares what was typed.
OneAccountPerAddress ==
  \A u, v \in users : ToLower[u.email] = ToLower[v.email] => u = v

\* Every token names a stored user, so GET /users/me finds it.
TokensNameUsers ==
  /\ \A t \in Tokens : GetUserByID(t) # {}
  /\ \A r \in Requests : req[r].code # 404

\* A conflict is only reported of an address that has an account.
ConflictIsReal ==
  \A r \in Requests :
    req[r].code = 409 => \E u \in users : u.email \in {req[r].email, ToLower[req[r].email]}

\* Who logs in with the stored address and the password of an account that
\* existed when the request came in is let in, or told of an internal error.
GoodLoginAccepted ==
  \A r \in Requests : req[r].op = "login" /\ req[r].code = 401 =>
    \A u \in req[r].known : u.password # req[r].password

\* A signal ends the process, unless Shutdown missed the cancel function that
\* Run was about to set: then it waits for runners nobody stops.
SignalEndsProcess == signal ~> (main \in Ended \/ raced)

=============================================================================
