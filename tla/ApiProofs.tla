------------------------------ MODULE ApiProofs -----------------------------
(***************************************************************************)
(* Proofs about ApiProcess, for any number of runners, requests, addresses *)
(* and passwords.                                                          *)
(***************************************************************************)
EXTENDS ApiProcess, TLAPS

\* The types of the user feature.
UserTypes ==
  /\ users \subseteq Rows
  /\ req \in [Requests -> RequestRecords]
  /\ \A r \in Requests : req[r].at \in {"find", "save"} =>
       req[r].email \in Addresses /\ req[r].password \in Passwords

\* Rows hold canonical addresses, each once; tokens, and requests that carry
\* one, have their row; a conflict has the row it was about.
UserInv ==
  /\ UserTypes
  /\ \A u \in users : ToLower[u.email] = u.email
  /\ \A u, v \in users : u.email = v.email => u = v
  /\ \A r \in Requests :
       /\ req[r].at = "byid" \/ (req[r].code \in {200, 201} /\ req[r].token # NoUser) =>
            \E u \in users : u.id = req[r].token
       /\ req[r].code = 409 =>
            \E u \in users : u.email \in {req[r].email, ToLower[req[r].email]}
       /\ req[r].code # 404
       /\ req[r].at # "answered" => req[r].code = 0

\* A request that was not sent is a request.
LEMMA UnsentType == Unsent \in RequestRecords /\ Unsent.at = "unsent" /\ Unsent.code = 0
  BY DEF Unsent, RequestRecords, Places, Operations, Codes

\* The token of a request is a user id, or none.
LEMMA TokenType == ASSUME UserTypes, NEW r \in Requests PROVE req[r].token \in Requests \cup {NoUser}
<1>1. req[r] \in RequestRecords
  BY DEF UserTypes
<1> QED
  BY Zenon, <1>1 DEF RequestRecords

\* There are no users and no requests at the start.
LEMMA UserStart == Init => UserInv
<1> SUFFICES ASSUME Init PROVE UserInv
  OBVIOUS
<1>1. users = {} /\ req = [r \in Requests |-> Unsent]
  BY DEF Init, UsersInit
<1> QED
  BY <1>1, UnsentType DEF UserInv, UserTypes

\* What an answer changes.
LEMMA AnswerEffect ==
  ASSUME UserTypes, NEW r \in Requests, NEW code \in Codes,
         NEW token \in Requests \cup {NoUser}, Answer(r, code, token)
  PROVE  /\ req' \in [Requests -> RequestRecords]
         /\ req'[r].at = "answered" /\ req'[r].code = code /\ req'[r].token = token
         /\ req'[r].email = req[r].email /\ req'[r].op = req[r].op
         /\ req'[r].password = req[r].password /\ req'[r].known = req[r].known
         /\ \A q \in Requests \ {r} : req'[q] = req[q]
<1> DEFINE n == [req[r] EXCEPT !.at = "answered", !.code = code, !.token = token]
<1>1. req[r] \in RequestRecords /\ "answered" \in Places
  BY DEF UserTypes, Places
<1>2. n \in RequestRecords
  BY Zenon, <1>1 DEF RequestRecords
<1>3. n.at = "answered" /\ n.code = code /\ n.token = token /\ n.email = req[r].email
        /\ n.op = req[r].op /\ n.password = req[r].password /\ n.known = req[r].known
  BY Zenon, <1>1 DEF RequestRecords
<1>4. req' = [req EXCEPT ![r] = n] /\ req \in [Requests -> RequestRecords]
  BY DEF Answer, UserTypes
<1> HIDE DEF n
<1> QED
  BY <1>2, <1>3, <1>4

\* An answer that leaves the rows alone and is in order keeps the invariant.
LEMMA AnswerKeepsUserInv ==
  ASSUME UserInv, NEW r \in Requests, NEW code \in Codes,
         NEW token \in Requests \cup {NoUser}, Answer(r, code, token), UNCHANGED users,
         code \in {200, 201} /\ token # NoUser => \E u \in users : u.id = token,
         code = 409 => \E u \in users : u.email \in {req[r].email, ToLower[req[r].email]},
         code # 404
  PROVE  UserInv'
<1>1. /\ req' \in [Requests -> RequestRecords]
      /\ req'[r].at = "answered" /\ req'[r].code = code /\ req'[r].token = token
      /\ req'[r].email = req[r].email /\ req'[r].op = req[r].op
      /\ req'[r].password = req[r].password /\ req'[r].known = req[r].known
      /\ \A q \in Requests \ {r} : req'[q] = req[q]
  BY AnswerEffect DEF UserInv
<1> QED
  BY <1>1 DEF UserInv, UserTypes

\* A request comes in: it carries a token only if that was issued (me).
LEMMA ArriveKeepsUserInv ==
  ASSUME UserInv, NEW r \in Requests, Arrive(r)
  PROVE  UserInv'
<1>1. ASSUME NEW op \in {"register", "login"}, NEW a \in Addresses, NEW p \in Passwords,
             Send(r, op, a, p)
      PROVE  UserInv'
  <2> DEFINE n == [Unsent EXCEPT !.at = "find", !.op = op, !.email = a, !.password = p,
                                 !.known = GetUserByEmail(a)]
  <2>1. GetUserByEmail(a) \in SUBSET Rows
    BY DEF GetUserByEmail, UserInv, UserTypes
  <2>2. "find" \in Places /\ op \in Operations
    BY Zenon DEF Places, Operations
  <2>3. n \in RequestRecords
    BY Zenon, <2>1, <2>2, UnsentType DEF RequestRecords
  <2>4. n.at = "find" /\ n.email = a /\ n.password = p /\ n.code = 0 /\ n.known = GetUserByEmail(a)
    BY Zenon, UnsentType DEF RequestRecords
  <2>5. req' = [req EXCEPT ![r] = n] /\ users' = users
    BY <1>1 DEF Send
  <2> HIDE DEF n
  <2> QED
    BY <2>3, <2>4, <2>5 DEF UserInv, UserTypes, GetUserByEmail
<1>2. CASE BadBody(r)
  BY <1>2, AnswerKeepsUserInv DEF BadBody, Codes
<1>3. ASSUME NEW token \in Tokens, req[r].at = "unsent", UNCHANGED users,
             req' = [req EXCEPT ![r] = [@ EXCEPT !.at = "byid", !.op = "me", !.token = token]]
      PROVE  UserInv'
  <2> DEFINE n == [req[r] EXCEPT !.at = "byid", !.op = "me", !.token = token]
  <2>1. token \in Requests /\ \E u \in users : u.id = token
    <3>1. PICK q \in Requests : req[q].code \in {200, 201} /\ token = req[q].token /\ token # NoUser
      BY <1>3 DEF Tokens
    <3> QED
      BY <3>1, TokenType DEF UserInv
  <2>2. req[r] \in RequestRecords /\ "byid" \in Places /\ "me" \in Operations
    BY DEF UserInv, UserTypes, Places, Operations
  <2>3. n \in RequestRecords
    BY Zenon, <2>1, <2>2 DEF RequestRecords
  <2>4. n.at = "byid" /\ n.op = "me" /\ n.token = token /\ n.code = req[r].code /\ n.email = req[r].email
    BY Zenon, <2>2 DEF RequestRecords
  <2>5. req' = [req EXCEPT ![r] = n]
    BY <1>3
  <2> HIDE DEF n
  <2> QED
    BY <1>3, <2>1, <2>3, <2>4, <2>5 DEF UserInv, UserTypes
<1>4. ASSUME NEW token \in Tokens \cup {NoUser}, me(r, token)
      PROVE  UserInv'
  <2>1. CASE token = NoUser
    BY SMTT(30), <1>4, <2>1, AnswerKeepsUserInv DEF me, Codes
  <2>2. CASE token # NoUser
    BY Zenon, <1>3, <1>4, <2>2 DEF me
  <2> QED
    BY <2>1, <2>2
<1> QED
  BY <1>1, <1>2, <1>4 DEF Arrive

\* An insert that took effect, whether or not its caller learns of it.
LEMMA SaveKeepsUserInv ==
  ASSUME UserInv, NEW r \in Requests, req[r].at = "save",
         InsertUser(NewUser(r, req[r].email, req[r].password)),
         NEW code \in {201, 500}, NEW token \in {r, NoUser}, Answer(r, code, token)
  PROVE  UserInv'
<1> DEFINE u == NewUser(r, req[r].email, req[r].password)
<1>1. u \in Rows /\ ToLower[u.email] = u.email /\ u.id = r
  BY UsersAssumption DEF UserInv, UserTypes, NewUser, Rows
<1>2. users' = users \cup {u} /\ \A v \in users : v.email # u.email
  BY DEF InsertUser, GetUserByEmail
<1>3. /\ req' \in [Requests -> RequestRecords]
      /\ req'[r].at = "answered" /\ req'[r].code = code /\ req'[r].token = token
      /\ req'[r].email = req[r].email /\ req'[r].op = req[r].op
      /\ req'[r].password = req[r].password /\ req'[r].known = req[r].known
      /\ \A q \in Requests \ {r} : req'[q] = req[q]
  BY AnswerEffect DEF UserInv, Codes
<1> HIDE DEF u
<1> QED
  BY <1>1, <1>2, <1>3 DEF UserInv, UserTypes

\* The calls of register, login and me that succeed.
LEMMA ServeKeepsUserInv ==
  ASSUME UserInv, NEW r \in Requests, Serve(r)
  PROVE  UserInv'
<1>1. CASE registerLookup(r)
  <2>1. CASE GetUserByEmail(req[r].email) # {}
    <3>1. \E u \in users : u.email = req[r].email
      BY <2>1 DEF GetUserByEmail
    <3> QED
      BY <1>1, <2>1, <3>1, AnswerKeepsUserInv DEF registerLookup, Codes
  <2>2. CASE GetUserByEmail(req[r].email) = {}
    <3> DEFINE n == [req[r] EXCEPT !.at = "save"]
    <3>1. req[r] \in RequestRecords /\ req[r].at = "find" /\ req[r].op = "register" /\ "save" \in Places
      BY <1>1 DEF UserInv, UserTypes, Places, registerLookup
    <3>2. n \in RequestRecords
      BY Zenon, <3>1 DEF RequestRecords
    <3>3. /\ n.at = "save" /\ n.email = req[r].email /\ n.password = req[r].password
          /\ n.code = req[r].code /\ n.token = req[r].token /\ n.op = "register"
      BY Zenon, <3>1 DEF RequestRecords
    <3>4. req' = [req EXCEPT ![r] = n] /\ users' = users
      BY <1>1, <2>2 DEF registerLookup
    <3> HIDE DEF n
    <3> QED
      BY <3>1, <3>2, <3>3, <3>4 DEF UserInv, UserTypes
  <2> QED
    BY <2>1, <2>2
<1>2. CASE Save(r)
  <2> DEFINE u == NewUser(r, req[r].email, req[r].password)
  <2>1. CASE InsertUser(u) /\ Answer(r, 201, u.id)
    <3>1. u.id = r
      BY DEF NewUser
    <3> QED
      BY <1>2, <2>1, <3>1, SaveKeepsUserInv DEF Save
  <2>2. CASE GetUserByEmail(u.email) # {} /\ Answer(r, 409, NoUser) /\ UNCHANGED users
    <3>1. \E v \in users : v.email = ToLower[req[r].email]
      BY <2>2 DEF GetUserByEmail, NewUser
    <3> QED
      BY <2>2, <3>1, AnswerKeepsUserInv DEF Codes
  <2> QED
    BY <1>2, <2>1, <2>2 DEF Save
<1>3. CASE login(r)
  <2>1. ASSUME NEW u \in users, Answer(r, 200, u.id), UNCHANGED users
        PROVE  UserInv'
    <3>1. u.id \in Requests
      BY DEF UserInv, UserTypes, Rows
    <3> QED
      BY <2>1, <3>1, AnswerKeepsUserInv DEF Codes
  <2>2. ASSUME Answer(r, 401, NoUser), UNCHANGED users
        PROVE  UserInv'
    BY <2>2, AnswerKeepsUserInv DEF Codes
  <2> QED
    BY <1>3, <2>1, <2>2 DEF login, GetUserByEmail
<1>4. CASE meLookup(r)
  <2>1. GetUserByID(req[r].token) # {} /\ req[r].token \in Requests \cup {NoUser}
    BY <1>4, TokenType DEF meLookup, GetUserByID, UserInv
  <2>2. req[r].at = "byid" /\ Answer(r, 200, req[r].token) /\ UNCHANGED users
    BY <1>4, <2>1 DEF meLookup
  <2>3. \E u \in users : u.id = req[r].token
    BY <2>1 DEF GetUserByID
  <2> QED
    BY <2>1, <2>2, <2>3, AnswerKeepsUserInv DEF Codes
<1> QED
  BY <1>1, <1>2, <1>3, <1>4 DEF Serve

\* A call that fails, with or without its effect.
LEMMA StoreFailsKeepsUserInv ==
  ASSUME UserInv, NEW r \in Requests, StoreFails(r)
  PROVE  UserInv'
<1>1. CASE UNCHANGED users
  BY <1>1, AnswerKeepsUserInv DEF StoreFails, Codes
<1>2. CASE req[r].at = "save" /\ InsertUser(NewUser(r, req[r].email, req[r].password))
  BY <1>2, SaveKeepsUserInv DEF StoreFails
<1> QED
  BY <1>1, <1>2 DEF StoreFails

\* The invariant of the user feature holds in every reachable state: no step
\* of the process touches users or requests.
THEOREM UserInvariant == Spec => []UserInv
<1>1. UserInv /\ [Next]_vars => UserInv'
  <2> SUFFICES ASSUME UserInv, [Next]_vars PROVE UserInv'
    OBVIOUS
  <2>1. CASE UNCHANGED userVars
    BY <2>1 DEF userVars, UserInv, UserTypes
  <2>2. ASSUME NEW r \in Requests, Arrive(r) PROVE UserInv'
    BY <2>2, ArriveKeepsUserInv
  <2>3. ASSUME NEW r \in Requests, Serve(r) PROVE UserInv'
    BY <2>3, ServeKeepsUserInv
  <2>4. ASSUME NEW r \in Requests, ServeFails(r) PROVE UserInv'
    BY <2>4, StoreFailsKeepsUserInv DEF ServeFails
  <2> QED
    BY <2>1, <2>2, <2>3, <2>4 DEF Next, vars
<1> QED
  BY UserStart, <1>1, PTL DEF Spec

\* Two spellings of an address never become two accounts (OneAccountPerAddress):
\* stored addresses are canonical, and the unique index compares those.
THEOREM AccountsUnique == Spec => []OneAccountPerAddress
<1>1. UserInv => OneAccountPerAddress
  BY DEF UserInv, OneAccountPerAddress
<1> QED
  BY <1>1, UserInvariant, PTL

\* Every token names a stored user (TokensNameUsers): Register saves before it
\* issues, and users are never deleted.
THEOREM TokensSound == Spec => []TokensNameUsers
<1>1. UserInv => TokensNameUsers
  BY DEF UserInv, TokensNameUsers, Tokens, GetUserByID
<1> QED
  BY <1>1, UserInvariant, PTL

\* Register answers "email already exists" only of an address that has an
\* account (ConflictIsReal).
THEOREM ConflictsSound == Spec => []ConflictIsReal
<1>1. UserInv => ConflictIsReal
  BY DEF UserInv, ConflictIsReal
<1> QED
  BY <1>1, UserInvariant, PTL

\* What a login could find when it came in is still there while it is looked up,
\* and a login that was refused matched none of it.
LoginInv ==
  \A r \in Requests :
    /\ req[r].at = "unsent" => req[r].op = ""
    /\ req[r].at = "find" => (\A u \in req[r].known : u \in users /\ u.email = req[r].email)
    /\ req[r].op = "login" /\ req[r].code = 401 =>
         \A u \in req[r].known : u.password # req[r].password

\* Rows are only added, so a step need only be looked at for its own request.
LEMMA OthersKeepLoginInv ==
  ASSUME LoginInv, NEW r \in Requests, users \subseteq users',
         \A q \in Requests \ {r} : req'[q] = req[q],
         req'[r].at # "unsent",
         req'[r].at = "find" => (\A u \in req'[r].known : u \in users' /\ u.email = req'[r].email),
         req'[r].op = "login" /\ req'[r].code = 401 =>
           \A u \in req'[r].known : u.password # req'[r].password
  PROVE  LoginInv'
<1> SUFFICES ASSUME NEW q \in Requests
             PROVE  /\ req'[q].at = "unsent" => req'[q].op = ""
                    /\ req'[q].at = "find" => (\A u \in req'[q].known : u \in users' /\ u.email = req'[q].email)
                    /\ req'[q].op = "login" /\ req'[q].code = 401 =>
                         \A u \in req'[q].known : u.password # req'[q].password
  BY Zenon DEF LoginInv
<1>1. CASE q = r
  BY ZenonT(30), <1>1
<1>2. CASE q # r
  <2>1. req'[q] = req[q]
    BY <1>2
  <2>2. /\ req[q].at = "unsent" => req[q].op = ""
        /\ req[q].at = "find" => (\A u \in req[q].known : u \in users /\ u.email = req[q].email)
        /\ req[q].op = "login" /\ req[q].code = 401 =>
             \A u \in req[q].known : u.password # req[q].password
    BY Zenon DEF LoginInv
  <2>3. \A u : u \in users => u \in users'
    OBVIOUS
  <2>4. req'[q].at = "unsent" => req'[q].op = ""
    BY Zenon, <2>1, <2>2
  <2>5. req'[q].at = "find" => (\A u \in req'[q].known : u \in users' /\ u.email = req'[q].email)
    BY <2>1, <2>2, <2>3
  <2>6. req'[q].op = "login" /\ req'[q].code = 401 =>
          \A u \in req'[q].known : u.password # req'[q].password
    BY <2>1, <2>2
  <2> QED
    BY Zenon, <2>4, <2>5, <2>6
<1> QED
  BY Zenon, <1>1, <1>2

\* An answer that refuses no login it should accept.
LEMMA AnswerKeepsLoginInv ==
  ASSUME UserTypes, LoginInv, NEW r \in Requests, NEW code \in Codes,
         NEW token \in Requests \cup {NoUser}, Answer(r, code, token), users \subseteq users',
         code = 401 /\ req[r].op = "login" => \A u \in req[r].known : u.password # req[r].password
  PROVE  LoginInv'
<1>1. /\ req'[r].at = "answered" /\ req'[r].code = code
      /\ req'[r].op = req[r].op
      /\ req'[r].password = req[r].password /\ req'[r].known = req[r].known
      /\ \A q \in Requests \ {r} : req'[q] = req[q]
  BY AnswerEffect
<1> QED
  BY <1>1, OthersKeepLoginInv

\* No login was sent at the start.
LEMMA LoginStart == Init => LoginInv
<1> SUFFICES ASSUME Init, NEW r \in Requests
             PROVE  req[r].at = "unsent" /\ req[r].op = "" /\ req[r].code = 0
  BY ZenonT(30) DEF LoginInv
<1>1. req[r] = Unsent
  BY DEF Init, UsersInit
<1>2. Unsent.at = "unsent" /\ Unsent.op = ""
  BY DEF Unsent
<1>3. Unsent.code = 0
  BY DEF Unsent
<1> QED
  BY <1>1, <1>2, <1>3, Zenon

\* A login comes in: known is what its lookup would find now.
LEMMA ArriveKeepsLoginInv ==
  ASSUME UserInv, LoginInv, NEW r \in Requests, Arrive(r)
  PROVE  LoginInv'
<1>1. ASSUME NEW op \in {"register", "login"}, NEW a \in Addresses, NEW p \in Passwords,
             Send(r, op, a, p)
      PROVE  LoginInv'
  <2> DEFINE n == [Unsent EXCEPT !.at = "find", !.op = op, !.email = a, !.password = p,
                                 !.known = GetUserByEmail(a)]
  <2>1. n.at = "find" /\ n.email = a /\ n.code = 0 /\ n.known = GetUserByEmail(a)
    BY Zenon, UnsentType DEF RequestRecords
  <2>2. req' = [req EXCEPT ![r] = n] /\ users' = users /\ req \in [Requests -> RequestRecords]
    BY <1>1 DEF Send, UserInv, UserTypes
  <2> HIDE DEF n
  <2>3. req'[r] = n /\ \A q \in Requests \ {r} : req'[q] = req[q]
    BY <2>2
  <2>4. (\A u \in req'[r].known : u \in users' /\ u.email = req'[r].email)
    BY <2>1, <2>2, <2>3 DEF GetUserByEmail
  <2> QED
    BY <2>1, <2>2, <2>3, <2>4, OthersKeepLoginInv
<1>2. CASE BadBody(r)
  <2>1. UserTypes /\ req[r].op = "" /\ 400 \in Codes /\ NoUser \in Requests \cup {NoUser}
    BY ZenonT(30), <1>2 DEF BadBody, Codes, LoginInv, UserInv
  <2> QED
    BY ZenonT(30), <1>2, <2>1, AnswerKeepsLoginInv DEF BadBody
<1>3. ASSUME NEW token \in Tokens \cup {NoUser}, me(r, token)
      PROVE  LoginInv'
  <2>1. CASE token = NoUser
    <3>1. UserTypes /\ req[r].op = "" /\ 401 \in Codes /\ NoUser \in Requests \cup {NoUser}
      BY ZenonT(30), <1>3 DEF me, Codes, LoginInv, UserInv
    <3> QED
      BY Zenon, <1>3, <2>1, <3>1, AnswerKeepsLoginInv DEF me
  <2>2. CASE token # NoUser
    <3> DEFINE n == [req[r] EXCEPT !.at = "byid", !.op = "me", !.token = token]
    <3>1. req[r] \in RequestRecords /\ req \in [Requests -> RequestRecords]
      BY DEF UserInv, UserTypes
    <3>2. n.at = "byid" /\ n.op = "me"
      BY Zenon, <3>1 DEF RequestRecords
    <3>3. req' = [req EXCEPT ![r] = n] /\ users' = users
      BY <1>3, <2>2 DEF me
    <3> HIDE DEF n
    <3>4. req'[r] = n /\ \A q \in Requests \ {r} : req'[q] = req[q]
      BY <3>1, <3>3
    <3> QED
      BY <3>2, <3>3, <3>4, OthersKeepLoginInv
  <2> QED
    BY <2>1, <2>2
<1> QED
  BY <1>1, <1>2, <1>3 DEF Arrive

\* Calls of any request: the rows a login may find stay.
LEMMA ServeKeepsLoginInv ==
  ASSUME UserInv, LoginInv, NEW r \in Requests, Serve(r) \/ StoreFails(r)
  PROVE  LoginInv'
<1>0. UserTypes /\ NoUser \in Requests \cup {NoUser} /\ {200, 201, 401, 404, 409, 500} \subseteq Codes
  BY DEF UserInv, Codes
<1>1. CASE registerLookup(r)
  <2>1. CASE GetUserByEmail(req[r].email) # {}
    BY <1>0, <1>1, <2>1, AnswerKeepsLoginInv DEF registerLookup
  <2>2. CASE GetUserByEmail(req[r].email) = {}
    <3> DEFINE n == [req[r] EXCEPT !.at = "save"]
    <3>1. req[r] \in RequestRecords /\ req \in [Requests -> RequestRecords]
      BY <1>0 DEF UserTypes
    <3>2. n.at = "save" /\ n.op = req[r].op
      BY Zenon, <3>1 DEF RequestRecords
    <3>3. req' = [req EXCEPT ![r] = n] /\ users' = users /\ req[r].op = "register"
      BY <1>1, <2>2 DEF registerLookup
    <3> HIDE DEF n
    <3>4. req'[r] = n /\ \A q \in Requests \ {r} : req'[q] = req[q]
      BY <3>1, <3>3
    <3> QED
      BY <3>2, <3>3, <3>4, OthersKeepLoginInv
  <2> QED
    BY <2>1, <2>2
<1>2. CASE Save(r)
  <2>1. NewUser(r, req[r].email, req[r].password).id = r
    BY DEF NewUser
  <2> QED
    BY <1>0, <1>2, <2>1, AnswerKeepsLoginInv DEF Save, InsertUser
<1>3. CASE login(r)
  <2>1. ASSUME NEW u \in users, Answer(r, 200, u.id), UNCHANGED users
        PROVE  LoginInv'
    <3>1. u.id \in Requests
      BY <1>0 DEF UserTypes, Rows
    <3> QED
      BY <1>0, <2>1, <3>1, AnswerKeepsLoginInv
  <2>2. CASE /\ {u \in GetUserByEmail(req[r].email) : u.password = req[r].password} = {}
             /\ Answer(r, 401, NoUser) /\ UNCHANGED users
    <3>1. \A u \in req[r].known : u.password # req[r].password
      BY ZenonT(30), <1>3, <2>2 DEF login, LoginInv, GetUserByEmail
    <3> QED
      BY <1>0, <2>2, <3>1, AnswerKeepsLoginInv
  <2> QED
    BY <1>3, <2>1, <2>2 DEF login, GetUserByEmail
<1>4. CASE meLookup(r)
  BY <1>0, <1>4, TokenType, AnswerKeepsLoginInv DEF meLookup
<1>5. CASE StoreFails(r)
  BY <1>0, <1>5, AnswerKeepsLoginInv DEF StoreFails, InsertUser
<1> QED
  BY <1>1, <1>2, <1>3, <1>4, <1>5 DEF Serve

\* Good credentials of an account that exists are not refused (GoodLoginAccepted):
\* rows are neither changed nor deleted while a login is looked up.
THEOREM LoginsSound == Spec => []GoodLoginAccepted
<1>1. UserInv /\ LoginInv /\ [Next]_vars => LoginInv'
  <2> SUFFICES ASSUME UserInv, LoginInv, [Next]_vars PROVE LoginInv'
    OBVIOUS
  <2>1. CASE UNCHANGED userVars
    BY ZenonT(30), <2>1 DEF userVars, LoginInv
  <2>2. ASSUME NEW r \in Requests, Arrive(r) \/ Serve(r) \/ ServeFails(r) PROVE LoginInv'
    BY <2>2, ArriveKeepsLoginInv, ServeKeepsLoginInv DEF ServeFails
  <2> QED
    BY <2>1, <2>2 DEF Next, vars
<1>2. LoginInv => GoodLoginAccepted
  BY Zenon DEF LoginInv, GoodLoginAccepted
<1> QED
  BY LoginStart, <1>1, <1>2, UserInvariant, PTL DEF Spec

-----------------------------------------------------------------------------

\* A server that has listened has all its runners spawned; stores are closed
\* only once the runners are off, unless the server never listened; and what
\* the drain left behind is only there because its deadline passed.
AppInv ==
  /\ server \in {"new", "listening", "closed", "refused"}
  /\ server \in {"listening", "closed"} => run \in {"serve", "returned"}
  /\ main = "boot" => server = "new" /\ On = {} /\ run = "none" /\ pool \in {"none", "open"} /\ rdb = "none"
  /\ main \in {"select", "drain", "cancel", "wait"} => pool = "open" /\ rdb = "open"
  /\ main = "close" => server = "refused" \/ On = {}
  /\ main \in Ended => On = {}
  /\ main \in {"drain", "cancel", "wait", "close"} => server \in {"closed", "refused"}
  /\ main \in {"cancel", "wait", "close"} => timedOut \/ Active = {}
  /\ main \in {"boot", "select", "drain", "cancel", "wait", "close"} \cup Ended
  /\ runner \in [Runners -> {"none", "joining", "on", "off"}]

\* Nothing runs and nothing is open at the start.
LEMMA AppStart == Init => AppInv
  BY Zenon DEF Init, AppInit, UsersInit, AppInv, On, Ended, Active, Unsent

\* A step that only moves main, run or the flags: On is what it was, or empty.
LEMMA OnAfter ==
  /\ UNCHANGED runner => On' = On
  /\ \A how : Exit(how) /\ runner \in [Runners -> {"none", "joining", "on", "off"}] =>
       On' = {} /\ runner' \in [Runners -> {"none", "joining", "on", "off"}]
  BY DEF On, Exit

\* NewApp connects, or gives up.
LEMMA BootKeepsAppInv ==
  ASSUME AppInv, OpenPool \/ OpenPoolFails \/ OpenRedis \/ OpenRedisFails, Active' = Active
  PROVE  AppInv'
<1>1. CASE OpenPoolFails
  BY <1>1, OnAfter DEF OpenPoolFails, Exit, AppInv, Ended
<1>2. CASE OpenPool \/ OpenRedis \/ OpenRedisFails
  BY <1>2, OnAfter DEF OpenPool, OpenRedis, OpenRedisFails, AppInv, Ended
<1> QED
  BY <1>1, <1>2

\* The steps of Run and of the runners.
LEMMA RunKeepsAppInv ==
  ASSUME AppInv, Active' = Active,
         \/ SetCancel \/ Start \/ StartFails \/ ServeReturns
         \/ \E i \in Runners : Spawn(i) \/ EnsureGroup(i) \/ RunnerGivesUp(i) \/ RunnerReturns(i)
  PROVE  AppInv'
<1>1. CASE SetCancel \/ Start \/ StartFails \/ ServeReturns
  BY <1>1, OnAfter DEF SetCancel, Start, StartFails, ServeReturns, AllSpawned, AppInv, Ended
<1>2. ASSUME NEW i \in Runners, Spawn(i)
      PROVE  AppInv'
  <2>1. runner' \in [Runners -> {"none", "joining", "on", "off"}]
    BY <1>2 DEF Spawn, AppInv
  <2> QED
    BY <1>2, <2>1 DEF Spawn, AppInv, Ended
<1>3. ASSUME NEW i \in Runners, EnsureGroup(i) \/ RunnerGivesUp(i) \/ RunnerReturns(i)
      PROVE  AppInv'
  <2>1. runner' \in [Runners -> {"none", "joining", "on", "off"}] /\ On' \subseteq On
    BY <1>3 DEF EnsureGroup, RunnerGivesUp, RunnerReturns, AppInv, On
  <2> QED
    BY <1>3, <2>1 DEF EnsureGroup, RunnerGivesUp, RunnerReturns, AppInv, Ended
<1> QED
  BY <1>1, <1>2, <1>3

\* The steps of main after the select.
LEMMA ShutdownKeepsAppInv ==
  ASSUME AppInv, Active' = Active,
         \/ ServerFatal \/ BeginShutdown \/ CancelRunners \/ WaitForRunners
         \/ CloseRedis \/ ClosePool \/ ReturnFromMain
         \/ DrainServer(InFlight) \/ DrainTimesOut(InFlight)
  PROVE  AppInv'
<1>1. CASE ServerFatal \/ ReturnFromMain
  BY <1>1, OnAfter DEF ServerFatal, ReturnFromMain, Exit, AppInv, Ended
<1>2. CASE BeginShutdown \/ CancelRunners \/ WaitForRunners \/ CloseRedis \/ ClosePool
  BY <1>2, OnAfter
  DEF BeginShutdown, CancelRunners, WaitForRunners, CloseRedis, ClosePool, AppInv, Ended
<1>3. CASE DrainServer(InFlight) \/ DrainTimesOut(InFlight)
  BY <1>3, OnAfter DEF DrainServer, DrainTimesOut, InFlight, AppInv, Ended
<1> QED
  BY <1>1, <1>2, <1>3

\* Only Arrive makes a request active, and only a listening server lets it.
LEMMA RequestKeepsAppInv ==
  ASSUME AppInv, UserTypes, UNCHANGED appVars, NEW r \in Requests, Arrive(r) \/ Serve(r) \/ ServeFails(r)
  PROVE  AppInv'
<1>1. On' = On
  BY OnAfter DEF appVars
<1>2. CASE Arrive(r)
  BY <1>1, <1>2 DEF Arrive, appVars, AppInv, Ended
<1>3. CASE Serve(r) \/ ServeFails(r)
  <2>1. \A q \in Requests \ {r} : req'[q] = req[q]
    BY ZenonT(30), <1>3 DEF Serve, ServeFails, StoreFails, registerLookup, Save, login, meLookup, Answer, UserTypes
  <2>2. r \in Active
    BY <1>3 DEF Serve, ServeFails, InFlight
  <2>3. Active' \subseteq Active
    BY <2>1, <2>2 DEF Active
  <2> QED
    BY SMTT(30), <1>1, <1>3, <2>3 DEF appVars, AppInv, Ended
<1> QED
  BY <1>2, <1>3

\* The invariant of the process holds in every reachable state.
THEOREM AppInvariant == Spec => []AppInv
<1>1. AppInv /\ UserInv /\ [Next]_vars => AppInv'
  <2> SUFFICES ASSUME AppInv, UserInv, [Next]_vars PROVE AppInv'
    OBVIOUS
  <2>1. UNCHANGED userVars => Active' = Active
    BY DEF userVars, Active
  <2>2. CASE Signal /\ UNCHANGED userVars
    BY <2>1, <2>2, OnAfter DEF Signal, AppInv, Ended
  <2>3. CASE ProcessStep /\ UNCHANGED userVars
    BY <2>1, <2>3, BootKeepsAppInv, RunKeepsAppInv, ShutdownKeepsAppInv DEF ProcessStep, AppStep
  <2>4. ASSUME NEW r \in Requests, Arrive(r) \/ Serve(r) \/ ServeFails(r), UNCHANGED appVars
        PROVE  AppInv'
    BY <2>4, RequestKeepsAppInv DEF UserInv
  <2>5. CASE UNCHANGED vars
    BY <2>1, <2>5, OnAfter DEF vars, appVars, AppInv, Ended
  <2> QED
    BY <2>2, <2>3, <2>4, <2>5 DEF Next
<1> QED
  BY AppStart, <1>1, UserInvariant, PTL DEF Spec

\* Background runners are stopped before the stores they use, unless the signal
\* came before the server was listening (RunnersBeforeStores).
THEOREM RunnersStopFirst == Spec => []RunnersBeforeStores
<1>1. AppInv => RunnersBeforeStores
  BY DEF AppInv, RunnersBeforeStores, Ended
<1> QED
  BY <1>1, AppInvariant, PTL

\* The pool is closed under a request only after the drain timed out
\* (RequestsBeforeStores).
THEOREM RequestsDrainFirst == Spec => []RequestsBeforeStores
<1>1. AppInv => RequestsBeforeStores
  BY DEF AppInv, RequestsBeforeStores, InFlight, Ended
<1> QED
  BY <1>1, AppInvariant, PTL

-----------------------------------------------------------------------------

\* What TypeOK says beyond the two invariants above.
ProcessTypes ==
  /\ run \in {"none", "start", "spawn", "serve", "failed", "returned"}
  /\ bgCancel \in {"nil", "set", "called"}
  /\ pool \in {"none", "open", "closed"} /\ rdb \in {"none", "open", "closed"}
  /\ rdb = "open" => pool = "open"
  /\ signal \in BOOLEAN /\ timedOut \in BOOLEAN /\ raced \in BOOLEAN

\* A step of the process keeps its types; only ClosePool takes the pool from
\* under a client, and it waits for CloseRedis.
LEMMA ProcessKeepsTypes ==
  ASSUME AppInv, ProcessTypes, Signal \/ ProcessStep
  PROVE  ProcessTypes'
<1>1. CASE Signal
  BY Zenon, <1>1 DEF Signal, ProcessTypes
<1>2. CASE OpenPool \/ OpenPoolFails \/ OpenRedis
  BY <1>2 DEF OpenPool, OpenPoolFails, OpenRedis, Exit, ProcessTypes
<1>3. CASE OpenRedisFails
  BY <1>3 DEF OpenRedisFails, ProcessTypes, AppInv
<1>4. CASE SetCancel \/ Start \/ StartFails \/ ServeReturns
  BY <1>4 DEF SetCancel, Start, StartFails, ServeReturns, ProcessTypes
<1>5. ASSUME NEW i \in Runners, Spawn(i) \/ EnsureGroup(i) \/ RunnerGivesUp(i) \/ RunnerReturns(i)
      PROVE  ProcessTypes'
  BY <1>5 DEF Spawn, EnsureGroup, RunnerGivesUp, RunnerReturns, ProcessTypes
<1>6. CASE ServerFatal \/ BeginShutdown \/ CancelRunners \/ WaitForRunners
  BY <1>6 DEF ServerFatal, Exit, BeginShutdown, CancelRunners, WaitForRunners, ProcessTypes
<1>7. CASE CloseRedis \/ ClosePool \/ ReturnFromMain
  BY <1>7 DEF CloseRedis, ClosePool, ReturnFromMain, Exit, ProcessTypes
<1>8. CASE DrainServer(InFlight) \/ DrainTimesOut(InFlight)
  BY <1>8 DEF DrainServer, DrainTimesOut, ProcessTypes
<1> QED
  BY <1>1, <1>2, <1>3, <1>4, <1>5, <1>6, <1>7, <1>8 DEF ProcessStep, AppStep

\* The faults counted stay within their bound.
LEMMA FaultsBounded ==
  ASSUME storeFaults \in 0 .. MaxStoreFaults, [Next]_vars
  PROVE  storeFaults' \in 0 .. MaxStoreFaults
<1>1. ASSUME NEW r \in Requests, Arrive(r) PROVE storeFaults' = storeFaults
  BY <1>1 DEF Arrive, Send, BadBody, me
<1>2. ASSUME NEW r \in Requests, Serve(r) PROVE storeFaults' = storeFaults
  BY <1>2 DEF Serve, registerLookup, Save, login, meLookup
<1>3. ASSUME NEW r \in Requests, ServeFails(r)
      PROVE  \/ storeFaults' = storeFaults
             \/ storeFaults < MaxStoreFaults /\ storeFaults' = storeFaults + 1
  BY <1>3 DEF ServeFails
<1>4. CASE UNCHANGED userVars
  BY <1>4 DEF userVars
<1>5. UNCHANGED vars => UNCHANGED userVars
  BY DEF vars
<1> QED
  BY <1>1, <1>2, <1>3, <1>4, <1>5, UsersAssumption DEF Next

\* The state of the api process is well typed, and its stores are closed in the
\* reverse of the order in which NewApp opened them (TypeOK).
THEOREM ApiTypeCorrect == Spec => []TypeOK
<1> DEFINE Types == ProcessTypes /\ storeFaults \in 0 .. MaxStoreFaults
<1>1. Init => Types
  <2>1. Init => ProcessTypes
    BY Zenon DEF Init, AppInit, ProcessTypes
  <2>2. Init => storeFaults \in 0 .. MaxStoreFaults
    BY UsersAssumption DEF Init, UsersInit
  <2> QED
    BY <2>1, <2>2
<1>2. AppInv /\ Types /\ [Next]_vars => Types'
  <2> SUFFICES ASSUME AppInv, Types, [Next]_vars PROVE Types'
    OBVIOUS
  <2>1. UNCHANGED appVars => ProcessTypes'
    BY Zenon DEF appVars, ProcessTypes
  <2>2. UNCHANGED vars => UNCHANGED appVars
    BY DEF vars
  <2>3. ProcessTypes'
    BY <2>1, <2>2, ProcessKeepsTypes DEF Next
  <2> QED
    BY <2>3, FaultsBounded
<1>3. AppInv /\ UserInv /\ Types => TypeOK
  BY Zenon DEF AppInv, UserInv, UserTypes, ProcessTypes, TypeOK
<1> HIDE DEF Types
<1> QED
  BY <1>1, <1>2, <1>3, AppInvariant, UserInvariant, PTL DEF Spec

=============================================================================
