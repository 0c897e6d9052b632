---------------------------- MODULE UserRegistry ----------------------------
(***************************************************************************)
(* The user feature: register, login and me, each request in the steps     *)
(* between which other requests move (its calls to Postgres).  An address  *)
(* is what the client typed; ToLower is strings.ToLower with TrimSpace.    *)
(* bcrypt is abstracted to: a hash is matched by its own password only.    *)
(* A token is the id of the user it was issued for.                        *)
(***************************************************************************)
EXTENDS Integers, FiniteSets

CONSTANTS
  Requests,       \* the requests; also the ids NewUserID draws, one a request
  Addresses,      \* what clients type as an email address
  ToLower,        \* the stored form of each
  Passwords,
  NoUser,         \* no user, no token
  MaxStoreFaults  \* bound: failed or timed-out calls to Postgres

ASSUME UsersAssumption ==
  /\ ToLower \in [Addresses -> Addresses]
  /\ \A a \in Addresses : ToLower[ToLower[a]] = ToLower[a]
  /\ MaxStoreFaults \in Nat
  /\ NoUser \notin Requests

VARIABLES
  users,        \* the rows of users: [id, email, password]
  req,          \* the requests
  storeFaults   \* failed calls so far

userVars == <<users, req, storeFaults>>

Unsent == [at |-> "unsent", op |-> "", email |-> "", password |-> "", token |-> NoUser,
           code |-> 0, known |-> {}]

Active == {r \in Requests : req[r].at \in {"find", "save", "byid"}}

Tokens == {req[r].token : r \in {x \in Requests : req[x].code \in {200, 201}}} \ {NoUser}

UsersInit == users = {} /\ req = [r \in Requests |-> Unsent] /\ storeFaults = 0

Answer(r, code, token) ==
  req' = [req EXCEPT ![r] = [@ EXCEPT !.at = "answered", !.code = code, !.token = token]]

\* GetUserByEmail and GetUserByID: the rows found, none or one.
GetUserByEmail(email) == {u \in users : u.email = email}
GetUserByID(id) == {u \in users : u.id = id}

\* Mutant: the address is stored as typed.
NewUser_AsTyped(id, email, password) == [id |-> id, email |-> email, password |-> password]

NewUser(id, email, password) == [id |-> id, email |-> ToLower[email], password |-> password]

\* InsertUser under the unique index on email.
InsertUser(u) == GetUserByEmail(u.email) = {} /\ users' = users \cup {u}

-----------------------------------------------------------------------------

\* Binding has accepted the body.  known is a history: the rows that could be
\* found by this address when the request came in.
Send(r, op, email, password) ==
  /\ req[r].at = "unsent"
  /\ req' = [req EXCEPT ![r] = [Unsent EXCEPT !.at = "find", !.op = op, !.email = email,
                                              !.password = password, !.known = GetUserByEmail(email)]]
  /\ UNCHANGED <<users, storeFaults>>

\* A body that does not bind.
BadBody(r) ==
  /\ req[r].at = "unsent"
  /\ Answer(r, 400, NoUser)
  /\ UNCHANGED <<users, storeFaults>>

\* Register looks the address up as typed; hashing follows without a call.
registerLookup(r) ==
  /\ req[r].at = "find" /\ req[r].op = "register"
  /\ IF GetUserByEmail(req[r].email) # {} THEN Answer(r, 409, NoUser)
     ELSE req' = [req EXCEPT ![r].at = "save"]
  /\ UNCHANGED <<users, storeFaults>>

\* Mutant: a unique violation is not looked for.
Save_NoConflict(r) ==
  /\ req[r].at = "save"
  /\ LET u == NewUser(r, req[r].email, req[r].password)
     IN  users' = (IF GetUserByEmail(u.email) = {} THEN users \cup {u} ELSE users)
  /\ Answer(r, 201, r)
  /\ UNCHANGED storeFaults

\* Save, then the token: a unique violation is a conflict.
Save(r) ==
  /\ req[r].at = "save"
  /\ LET u == NewUser(r, req[r].email, req[r].password)
     IN  \/ InsertUser(u) /\ Answer(r, 201, u.id)
         \/ GetUserByEmail(u.email) # {} /\ Answer(r, 409, NoUser) /\ UNCHANGED users
  /\ UNCHANGED storeFaults

login(r) ==
  /\ req[r].at = "find" /\ req[r].op = "login"
  /\ LET found == {u \in GetUserByEmail(req[r].email) : u.password = req[r].password}
     IN  IF found = {} THEN Answer(r, 401, NoUser)
         ELSE \E u \in found : Answer(r, 200, u.id)
  /\ UNCHANGED <<users, storeFaults>>

\* GET /users/me behind the middleware, which refuses a missing or expired token.
me(r, token) ==
  /\ req[r].at = "unsent"
  /\ IF token = NoUser THEN Answer(r, 401, NoUser)
     ELSE req' = [req EXCEPT ![r] = [@ EXCEPT !.at = "byid", !.op = "me", !.token = token]]
  /\ UNCHANGED <<users, storeFaults>>

meLookup(r) ==
  /\ req[r].at = "byid"
  /\ Answer(r, IF GetUserByID(req[r].token) = {} THEN 404 ELSE 200, req[r].token)
  /\ UNCHANGED <<users, storeFaults>>

\* Mutant: an error of the store is taken for "not found" by Login.
StoreFails_NotFound(r) ==
  /\ req[r].at \in {"find", "byid"}
  /\ Answer(r, IF req[r].op = "login" THEN 401 ELSE 500, NoUser)
  /\ UNCHANGED users

\* Mutant: every error of the insert is taken for a unique violation.
StoreFails_Conflict(r) ==
  /\ Answer(r, IF req[r].at = "save" THEN 409 ELSE 500, NoUser)
  /\ UNCHANGED users

\* A call fails or its context expires: writeError answers 500.  An insert may
\* have taken effect all the same.
StoreFails(r) ==
  /\ \/ UNCHANGED users
     \/ req[r].at = "save" /\ InsertUser(NewUser(r, req[r].email, req[r].password))
  /\ Answer(r, 500, NoUser)
=============================================================================
