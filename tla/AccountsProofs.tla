--------------------------- MODULE AccountsProofs ---------------------------
(***************************************************************************)
(* Proofs about Accounts, for any number of users, sessions, keys and      *)
(* calls.  The inductive invariant, Inv, says what a call at each point of *)
(* its transaction holds, and that no two hold the same.                   *)
(***************************************************************************)
EXTENDS Accounts, TLAPS

-----------------------------------------------------------------------------
(* The inductive invariant *)

\* What a call must have been given to be where it is.
Given(r, q) ==
  /\ q.at = "idle" => q = Fresh
  /\ q.at # "done" => q.status = "none"
  /\ q.op = "Register" => q.user = r
  /\ q.at = "row" => q.op \in {"UpdateProfile", "ChangePassword"}
  /\ q.at \in {"name", "keep"} => q.op \in {"Register", "UpdateProfile"}
  /\ q.at \in {"name", "keep"} \/ (q.at = "row" /\ q.op = "UpdateProfile")
       \/ (q.at = "lookup" /\ q.op = "Login") => q.name \in Names
  /\ q.at = "revoke" => q.op = "Refresh"
  /\ q.at = "issue" => q.op \in Issuing
  /\ q.at \in {"scan", "rows"} => q.op \in RevokingAll
  /\ q.at = "commit" => q.op \in Issuing \cup RevokingAll
  /\ q.at = "write" => q.op \in {"CreateAPIKey", "RevokeAPIKey"}
  /\ q.at = "touch" => q.op = "UseKey"
  /\ q.op = "Refresh" => q.token \in sessions
  /\ q.op \in {"RevokeAPIKey", "UseKey"} => q.token \in keys
  /\ q.op # "none" /\ q.at \notin {"lookup", "done"} => q.user \in Users
  /\ q.op = "ChangePassword" => q.user \in Users

\* The user a call acts for is there, unless the call is still creating it.
Acts(q) ==
  q.user # None /\ ~(q.op = "Register" /\ q.at \in {"name", "keep"}) =>
    username[q.user] # None

\* The session rows a call has seen, has still to visit and has locked are its
\* user's, and what it has locked is active until it commits.
Rows(q) ==
  /\ q.before \cup q.todo \cup q.took \subseteq sessions
  /\ q.before # {} => q.op \in RevokingAll
  /\ q.todo # {} => q.at = "rows"
  /\ q.took # {} => q.at \in {"rows", "commit"} \/ (q.op = "Refresh" /\ q.at = "issue")
  /\ \A x \in q.before \cup q.todo \cup q.took : OwnerOf(x) = q.user
  /\ \A x \in q.took : Active(x)
  /\ q.at = "revoke" => OwnerOf(q.token) = q.user
  /\ q.op = "Refresh" /\ q.at \in {"issue", "commit"} =>
       q.token \in q.took \/ ~Active(q.token)
  /\ q.at = "rows" =>
       \A x \in q.before : x \in q.todo \/ x \in q.took \/ ~Active(x)
  /\ q.at = "commit" /\ q.op \in RevokingAll =>
       \A x \in q.before : x \in q.took \/ ~Active(x)

\* A session or key that is there was created by a call that is over, a user
\* by one that has entered its name.
Created(r, q) ==
  /\ q.at = "idle" \/ (q.op = "Register" /\ q.at \in {"name", "keep"}) => username[r] = None
  /\ r \in sessions => q.at = "done" /\ q.op \in Issuing /\ q.user \in Users
  /\ r \in keys => q.at = "done" /\ q.op = "CreateAPIKey" /\ q.user \in Users
  /\ \A u \in Users : password[u] = r => q.at = "done" \/ q.op = "Register"

\* The name being entered is nobody else's.
Claims(q) ==
  q.at = "keep" => \A u \in Users : username[u] = q.name => u = q.user

Locks(q) ==
  \/ q.op = "ChangePassword" /\ q.at \in {"scan", "rows", "commit"}
  \/ q.op = "UpdateProfile" /\ q.at \in {"name", "keep"}

\* Of two calls, only one holds a session row, a user's row or a name.
Apart(q, o) ==
  /\ q.took \cap o.took = {}
  /\ Locks(q) /\ Locks(o) => q.user # o.user
  /\ q.at = "keep" /\ o.at = "keep" => q.name # o.name

Fits(r, q) == Given(r, q) /\ Acts(q) /\ Rows(q) /\ Created(r, q) /\ Claims(q)

Inv ==
  /\ TypeOK
  /\ \A u \in OldUsers : username[u] # None
  /\ OldSessions \subseteq sessions /\ OldKeys \subseteq keys
  /\ \A r \in Requests : Fits(r, req[r])
  /\ \A r \in Requests, s \in Requests : r # s => Apart(req[r], req[s])
  /\ NamesUnique
  /\ RefreshReplaces
  /\ AllSessionsEnded

-----------------------------------------------------------------------------
(* The inductive invariant is one *)

\* Whom a session or a key belongs to does not change with a call that is not
\* over.
LEMMA OwnersKept ==
  ASSUME Inv, NEW r \in Requests, req[r].at # "done", NEW q,
         req' = [req EXCEPT ![r] = q]
  PROVE  \A x \in sessions \cup keys : OwnerOf(x)' = OwnerOf(x)
<1>1. r \notin sessions /\ r \notin keys
  BY DEF Inv, Fits, Created
<1>2. \A x \in Requests \ {r} : req'[x] = req[x]
  BY DEF Inv, TypeOK
<1>3. QED
  BY <1>1, <1>2 DEF OwnerOf

\* Sessions and keys belong to users that are there.
LEMMA OwnersAreThere ==
  ASSUME Inv, NEW x \in sessions \cup keys
  PROVE  OwnerOf(x) \in Users /\ username[OwnerOf(x)] # None
<1>1. CASE x \in Requests
  <2>1. req[x].at = "done" /\ req[x].user \in Users
    BY <1>1 DEF Inv, Fits, Created
  <2>2. username[req[x].user] # None
    BY <1>1, <2>1, AccountsAssumption DEF Inv, Fits, Acts, Users
  <2>3. QED
    BY <1>1, <2>1, <2>2 DEF OwnerOf
<1>2. CASE x \notin Requests
  <2>1. OwnerOf(x) \in OldUsers
    BY <1>2, AccountsAssumption DEF OwnerOf, Inv, TypeOK, Sessions, Keys
  <2>2. QED
    BY <2>1 DEF Inv, Users
<1>3. QED
  BY <1>1, <1>2

\* So does every access token.
LEMMA KnownIsThere ==
  ASSUME Inv, NEW u \in Users, KnowsToken(u)
  PROVE  username[u] # None
<1>1. CASE u \in OldUsers
  BY <1>1 DEF Inv
<1>2. ASSUME NEW s \in Requests, Sent(s), req[s].user = u
      PROVE  username[u] # None
  <2>1. req[s].at = "done"
    BY <1>2 DEF Inv, Fits, Given, Sent
  <2>2. QED
    BY <1>2, <2>1, AccountsAssumption DEF Inv, Fits, Acts, Users
<1>3. QED
  BY <1>1, <1>2 DEF KnowsToken

\* A step that leaves the tables alone and takes a call to where it fits.
LEMMA StatementKeeps ==
  ASSUME Inv, NEW r \in Requests, NEW q \in Requested, req[r].at # "done",
         req' = [req EXCEPT ![r] = q], UNCHANGED tables, Fits(r, q),
         \A s \in Requests \ {r} : Apart(q, req[s]),
         q.at = "done" => q.op = "none"
  PROVE  Inv'
<1>1. /\ req'[r] = q /\ req' \in [Requests -> Requested]
      /\ \A s \in Requests \ {r} : req'[s] = req[s]
      /\ r \notin sessions /\ r \notin keys
  BY DEF Inv, TypeOK, Fits, Created
<1>2. /\ username' = username /\ password' = password /\ sessions' = sessions
      /\ revoked_at' = revoked_at /\ keys' = keys /\ last_used_at' = last_used_at
  BY DEF tables
<1>3. \A x \in sessions \cup keys : OwnerOf(x)' = OwnerOf(x)
  BY OwnersKept
<1>4. TypeOK'
  BY <1>1, <1>2 DEF Inv, TypeOK
<1>5. ASSUME NEW s \in Requests PROVE Fits(s, req[s])'
  <2>1. PICK o : o = req'[s] /\ Fits(s, o) /\ (s # r => o = req[s])
    BY <1>1 DEF Inv
  <2>2. /\ \A x \in o.before \cup o.todo \cup o.took : x \in sessions
        /\ o.at = "revoke" => o.token \in sessions
    BY <2>1 DEF Fits, Rows, Given
  <2>3. Given(s, req[s])'
    BY <1>2, <2>1 DEF Fits, Given, Fresh
  <2>4. Acts(req[s])'
    BY <1>2, <2>1 DEF Fits, Acts
  <2>5. Rows(req[s])'
    BY <1>2, <1>3, <2>1, <2>2 DEF Fits, Rows, Active
  <2>6. Created(s, req[s])' /\ Claims(req[s])'
    BY <1>2, <2>1 DEF Fits, Created, Claims
  <2>7. QED
    BY <2>3, <2>4, <2>5, <2>6 DEF Fits
<1>6. ASSUME NEW s \in Requests, NEW t \in Requests, s # t
      PROVE  Apart(req[s], req[t])'
  <2>1. CASE s = r
    BY <1>1, <1>6, <2>1 DEF Apart, Locks
  <2>2. CASE t = r
    BY <1>1, <1>6, <2>2 DEF Apart, Locks
  <2>3. CASE s # r /\ t # r
    BY <1>1, <1>6, <2>3 DEF Inv, Apart, Locks
  <2>4. QED
    BY <2>1, <2>2, <2>3
<1>7. NamesUnique' /\ RefreshReplaces'
  BY <1>1, <1>2 DEF Inv, NamesUnique, RefreshReplaces, Active
<1>8. AllSessionsEnded'
  <2> SUFFICES ASSUME NEW s \in Requests,
               (req'[s].op = "Logout" /\ req'[s].status = "ok")
                 \/ (req'[s].op = "ChangePassword" /\ password[req'[s].user] = s)
      PROVE  \A x \in req'[s].before : ~Active(x)'
    BY <1>2 DEF AllSessionsEnded
  <2>1. CASE s = r
    BY <1>1, <2>1 DEF Fits, Given, Created
  <2>2. CASE s # r
    BY <1>1, <1>2, <2>2 DEF Inv, AllSessionsEnded, Active
  <2>3. QED
    BY <2>1, <2>2
<1>9. QED
  BY <1>2, <1>4, <1>5, <1>6, <1>7, <1>8 DEF Inv

\* A call is aborted, and its transaction undone.
LEMMA AbortKeeps ==
  ASSUME Inv, NEW r \in Requests, NEW status \in Statuses, req[r].at # "done",
         Abort(r, status), UNCHANGED tables
  PROVE  Inv'
<1> DEFINE q == [Fresh EXCEPT !.at = "done", !.status = status]
<1>1. /\ q \in Requested /\ q.op = "none" /\ q.at = "done" /\ q.user = None
      /\ q.took = {} /\ q.todo = {} /\ q.before = {}
  BY DEF Fresh, Requested, Ops, Points
<1>2. req' = [req EXCEPT ![r] = q]
  BY DEF Abort, Set
<1> HIDE DEF q
<1>3. r \notin sessions /\ r \notin keys
  BY DEF Inv, Fits, Created
<1>4. Given(r, q) /\ Acts(q) /\ Rows(q) /\ Created(r, q) /\ Claims(q)
  BY <1>1, <1>3 DEF Given, Acts, Rows, Created, Claims, Issuing, RevokingAll
<1>5. \A s \in Requests \ {r} : Apart(q, req[s])
  BY <1>1 DEF Apart, Locks
<1>6. QED
  BY <1>1, <1>2, <1>4, <1>5, StatementKeeps DEF Fits

\* A new call, which holds nothing yet.
LEMMA StartKeeps ==
  ASSUME Inv, NEW r \in Requests, NEW q \in Requested, ComesIn(r), Set(r, q), UNCHANGED tables,
         q.at \in {"row", "name", "lookup", "scan", "write"}, q.status = "none", q.op # "none",
         Given(r, q), Acts(q), ~Locks(q), q.todo = {}, q.took = {},
         q.before = {} \/ (q.op \in RevokingAll /\ q.before = SessionsOf(q.user))
  PROVE  Inv'
<1>1. req[r] = Fresh
  BY DEF Inv, Fits, Given, ComesIn
<1>2. /\ r \notin sessions /\ r \notin keys /\ username[r] = None
      /\ \A u \in Users : password[u] # r
  BY <1>1 DEF Inv, Fits, Created, Fresh
<1>3. Rows(q) /\ Created(r, q) /\ Claims(q)
  BY <1>2 DEF Rows, Created, Claims, SessionsOf
<1>4. \A s \in Requests \ {r} : Apart(q, req[s])
  BY DEF Apart
<1>5. QED
  BY <1>3, <1>4, StatementKeeps DEF Fits, Set, ComesIn

\* Calls that come in.
LEMMA StartsKeep ==
  ASSUME Inv, NEW r \in Requests, Start(r)
  PROVE  Inv'
<1> USE DEF Requested, Ops, Points, Statuses, Fresh
<1>1. ASSUME NEW x \in Names, StartRegister(r, x) PROVE Inv'
  <2> DEFINE q == [Fresh EXCEPT !.op = "Register", !.at = "name", !.user = r, !.name = x]
  <2>1. /\ q \in Requested /\ q.op = "Register" /\ q.at = "name" /\ q.user = r /\ q.name = x
        /\ q.todo = {} /\ q.took = {} /\ q.before = {} /\ q.status = "none"
    BY DEF Users
  <2>2. ComesIn(r) /\ Set(r, q) /\ UNCHANGED tables
    BY <1>1 DEF StartRegister
  <2> HIDE DEF q
  <2>3. Given(r, q) /\ Acts(q) /\ ~Locks(q)
    BY <2>1 DEF Given, Acts, Locks, Users
  <2>4. QED
    BY <2>1, <2>2, <2>3, StartKeeps
<1>2. ASSUME NEW x \in Names, StartLogin(r, x) PROVE Inv'
  <2> DEFINE q == [Fresh EXCEPT !.op = "Login", !.at = "lookup", !.name = x]
  <2>1. /\ q \in Requested /\ q.op = "Login" /\ q.at = "lookup" /\ q.user = None /\ q.name = x
        /\ q.todo = {} /\ q.took = {} /\ q.before = {} /\ q.status = "none"
    OBVIOUS
  <2>2. ComesIn(r) /\ Set(r, q) /\ UNCHANGED tables
    BY <1>2 DEF StartLogin
  <2> HIDE DEF q
  <2>3. Given(r, q) /\ Acts(q) /\ ~Locks(q)
    BY <2>1 DEF Given, Acts, Locks
  <2>4. QED
    BY <2>1, <2>2, <2>3, StartKeeps
<1>3. ASSUME NEW u \in Users, NEW x \in Names, StartUpdateProfile(r, u, x) PROVE Inv'
  <2> DEFINE q == [Fresh EXCEPT !.op = "UpdateProfile", !.at = "row", !.user = u, !.name = x]
  <2>1. /\ q \in Requested /\ q.op = "UpdateProfile" /\ q.at = "row" /\ q.user = u /\ q.name = x
        /\ q.todo = {} /\ q.took = {} /\ q.before = {} /\ q.status = "none"
    OBVIOUS
  <2>2. ComesIn(r) /\ Set(r, q) /\ UNCHANGED tables /\ username[u] # None
    BY <1>3, KnownIsThere DEF StartUpdateProfile
  <2> HIDE DEF q
  <2>3. Given(r, q) /\ Acts(q) /\ ~Locks(q)
    BY <2>1, <2>2 DEF Given, Acts, Locks
  <2>4. QED
    BY <2>1, <2>2, <2>3, StartKeeps
<1>4. ASSUME NEW s \in SentSessions, StartRefresh(r, s) PROVE Inv'
  <2> DEFINE q == [Fresh EXCEPT !.op = "Refresh", !.at = "lookup", !.token = s]
  <2>1. /\ q \in Requested /\ q.op = "Refresh" /\ q.at = "lookup" /\ q.user = None
        /\ q.token = s /\ s \in sessions
        /\ q.todo = {} /\ q.took = {} /\ q.before = {} /\ q.status = "none"
    BY DEF SentSessions, Inv, TypeOK
  <2>2. ComesIn(r) /\ Set(r, q) /\ UNCHANGED tables
    BY <1>4 DEF StartRefresh
  <2> HIDE DEF q
  <2>3. Given(r, q) /\ Acts(q) /\ ~Locks(q)
    BY <2>1 DEF Given, Acts, Locks
  <2>4. QED
    BY <2>1, <2>2, <2>3, StartKeeps
<1>5. ASSUME NEW u \in Users, StartLogout(r, u) PROVE Inv'
  <2> DEFINE rows == SessionsOf(u)
             q == [Fresh EXCEPT !.op = "Logout", !.at = "scan", !.user = u, !.before = rows]
  <2>1. rows \in SUBSET Sessions
    BY DEF SessionsOf, Inv, TypeOK
  <2>2. ComesIn(r) /\ Set(r, q) /\ UNCHANGED tables /\ username[u] # None
    BY <1>5, KnownIsThere DEF StartLogout
  <2> HIDE DEF rows
  <2>3. /\ q \in Requested /\ q.op = "Logout" /\ q.at = "scan" /\ q.user = u
        /\ q.todo = {} /\ q.took = {} /\ q.before = rows /\ q.status = "none"
    BY <2>1
  <2> HIDE DEF q
  <2>4. Given(r, q) /\ Acts(q) /\ ~Locks(q)
    BY <2>2, <2>3 DEF Given, Acts, Locks, RevokingAll
  <2>5. QED
    BY <2>2, <2>3, <2>4, StartKeeps DEF rows, RevokingAll
<1>6. ASSUME NEW u \in Users, NEW p \in Passwords, StartChangePassword(r, u, p) PROVE Inv'
  <2> DEFINE rows == SessionsOf(u)
             q == [Fresh EXCEPT !.op = "ChangePassword", !.at = "lookup", !.user = u,
                                !.token = p, !.before = rows]
  <2>1. rows \in SUBSET Sessions /\ p \in Requests \cup {None}
    BY DEF SessionsOf, Inv, TypeOK, Passwords
  <2>2. ComesIn(r) /\ Set(r, q) /\ UNCHANGED tables /\ username[u] # None
    BY <1>6, KnownIsThere DEF StartChangePassword
  <2> HIDE DEF rows
  <2>3. /\ q \in Requested /\ q.op = "ChangePassword" /\ q.at = "lookup" /\ q.user = u
        /\ q.todo = {} /\ q.took = {} /\ q.before = rows /\ q.status = "none"
    BY <2>1 DEF Sessions
  <2> HIDE DEF q
  <2>4. Given(r, q) /\ Acts(q) /\ ~Locks(q)
    BY <2>2, <2>3 DEF Given, Acts, Locks
  <2>5. QED
    BY <2>2, <2>3, <2>4, StartKeeps DEF rows, RevokingAll
<1>7. ASSUME NEW op \in {"CreateAPIKey", "RevokeAPIKey"}, NEW u \in Users,
             NEW k \in keys \cup {None}, StartKey(r, op, u, k),
             op = "RevokeAPIKey" => k \in keys
      PROVE  Inv'
  <2> DEFINE q == [Fresh EXCEPT !.op = op, !.at = "write", !.user = u, !.token = k]
  <2>1. /\ q \in Requested /\ q.op = op /\ q.at = "write" /\ q.user = u /\ q.token = k
        /\ q.todo = {} /\ q.took = {} /\ q.before = {} /\ q.status = "none"
    BY DEF Inv, TypeOK
  <2>2. ComesIn(r) /\ Set(r, q) /\ UNCHANGED tables /\ username[u] # None
    BY <1>7, KnownIsThere DEF StartKey
  <2> HIDE DEF q
  <2>3. Given(r, q) /\ Acts(q) /\ ~Locks(q)
    BY <1>7, <2>1, <2>2 DEF Given, Acts, Locks
  <2>4. QED
    BY <2>1, <2>2, <2>3, StartKeeps
<1>8. ASSUME NEW k \in SentKeys, StartUseKey(r, k) PROVE Inv'
  <2> DEFINE q == [Fresh EXCEPT !.op = "UseKey", !.at = "lookup", !.token = k]
  <2>1. /\ q \in Requested /\ q.op = "UseKey" /\ q.at = "lookup" /\ q.user = None
        /\ q.token = k /\ k \in keys
        /\ q.todo = {} /\ q.took = {} /\ q.before = {} /\ q.status = "none"
    BY DEF SentKeys, Inv, TypeOK
  <2>2. ComesIn(r) /\ Set(r, q) /\ UNCHANGED tables
    BY <1>8 DEF StartUseKey
  <2> HIDE DEF q
  <2>3. Given(r, q) /\ Acts(q) /\ ~Locks(q)
    BY <2>1 DEF Given, Acts, Locks
  <2>4. QED
    BY <2>1, <2>2, <2>3, StartKeeps
<1>9. QED
  BY <1>1, <1>2, <1>3, <1>4, <1>5, <1>6, <1>7, <1>8 DEF Start

\* What the invariant says of one call.
LEMMA OfOne ==
  ASSUME Inv, NEW r \in Requests
  PROVE  /\ req[r] \in Requested /\ Given(r, req[r]) /\ Acts(req[r]) /\ Rows(req[r])
         /\ Created(r, req[r]) /\ Claims(req[r])
         /\ \A s \in Requests \ {r} : Apart(req[r], req[s])
BY DEF Inv, TypeOK, Fits

\* A user's row is locked when nobody else has it.
LEMMA LockKeeps ==
  ASSUME Inv, NEW r \in Requests, LockProfile(r) \/ UpdatePassword(r)
  PROVE  Inv'
<1>1. PICK to \in {"name", "scan"} :
        /\ req[r].at = "row" /\ ~Waits(r) /\ Goto(r, to) /\ UNCHANGED tables
        /\ to = "name" => req[r].op = "UpdateProfile"
        /\ to = "scan" => req[r].op = "ChangePassword"
  BY DEF LockProfile, UpdatePassword
<1> DEFINE q == [req[r] EXCEPT !.at = to]
<1>2. /\ q \in Requested /\ q.at = to /\ q.op = req[r].op /\ q.user = req[r].user
      /\ q.name = req[r].name /\ q.token = req[r].token /\ q.status = req[r].status
      /\ q.before = req[r].before /\ q.todo = req[r].todo /\ q.took = req[r].took
      /\ req' = [req EXCEPT ![r] = q]
  BY <1>1, OfOne DEF Requested, Points, Goto, Set
<1> HIDE DEF q
<1>3. Given(r, q) /\ Acts(q)
  BY <1>1, <1>2, OfOne DEF Given, Acts, RevokingAll
<1>4. Rows(q) /\ Created(r, q) /\ Claims(q)
  BY <1>1, <1>2, OfOne DEF Given, Rows, Created, Claims
<1>5. ASSUME NEW s \in Requests \ {r} PROVE Apart(q, req[s])
  <2>1. ~HoldsUser(s, req[r].user)
    BY <1>1 DEF Waits, WaitsFor
  <2>2. QED
    BY <1>1, <1>2, <2>1, OfOne DEF Apart, Locks, HoldsUser
<1>6. QED
  BY <1>1, <1>2, <1>3, <1>4, <1>5, StatementKeeps DEF Fits

\* A name is entered when nobody has it and nobody else is entering it.
LEMMA EnterNameKeeps ==
  ASSUME Inv, NEW r \in Requests, EnterName(r)
  PROVE  Inv'
<1>1. /\ req[r].at = "name" /\ ~Waits(r) /\ UNCHANGED tables
      /\ req[r].op \in {"Register", "UpdateProfile"}
  BY OfOne DEF EnterName, Given
<1>2. CASE \E u \in Users \ {req[r].user} : username[u] = req[r].name
  BY <1>1, <1>2, AbortKeeps DEF EnterName, Statuses
<1>3. CASE \A u \in Users : username[u] = req[r].name => u = req[r].user
  <2> DEFINE q == [req[r] EXCEPT !.at = "keep"]
  <2>1. /\ q \in Requested /\ q.at = "keep" /\ q.op = req[r].op /\ q.user = req[r].user
        /\ q.name = req[r].name /\ q.token = req[r].token /\ q.status = req[r].status
        /\ q.before = req[r].before /\ q.todo = req[r].todo /\ q.took = req[r].took
        /\ req' = [req EXCEPT ![r] = q]
    BY <1>1, <1>3, OfOne DEF Requested, Points, Goto, Set, EnterName
  <2> HIDE DEF q
  <2>2. Given(r, q) /\ Acts(q)
    BY <1>1, <2>1, OfOne DEF Given, Acts
  <2>3. Rows(q) /\ Created(r, q) /\ Claims(q)
    BY <1>1, <1>3, <2>1, OfOne DEF Given, Rows, Created, Claims
  <2>4. ASSUME NEW s \in Requests \ {r}, req[s].at = "keep" PROVE req[s].name # q.name
    <3> SUFFICES ASSUME req[s].name = req[r].name PROVE FALSE
      BY <2>1
    <3>1. NameInDoubt(s, req[r].name)
      BY <2>4 DEF NameInDoubt
    <3>2. req[r].op = "UpdateProfile" /\ username[req[r].user] = req[r].name
      BY <1>1, <3>1 DEF Waits, WaitsFor, Renames
    <3>3. req[s].user = req[r].user
      BY <1>1, <2>4, <3>2, OfOne DEF Claims, Given
    <3>4. req[s].op # "Register"
      BY <1>1, <2>4, <3>2, <3>3, OfOne, AccountsAssumption DEF Given, Created
    <3>5. Locks(req[s]) /\ Locks(req[r])
      BY <1>1, <2>4, <3>2, <3>4, OfOne DEF Locks, Given
    <3>6. QED
      BY <3>3, <3>5, OfOne DEF Apart
  <2>5. \A s \in Requests \ {r} : Apart(q, req[s])
    BY <1>1, <2>1, <2>4, OfOne DEF Apart, Locks
  <2>6. QED
    BY <1>1, <2>1, <2>2, <2>3, <2>5, StatementKeeps DEF Fits
<1>4. QED
  BY <1>2, <1>3

\* A login, a refresh or a key finds its user.
LEMMA LookupKeeps ==
  ASSUME Inv, NEW r \in Requests,
         (\E p \in Passwords : LookupName(r, p)) \/ LookupSession(r) \/ LookupKey(r)
  PROVE  Inv'
<1>1. req[r].at = "lookup" /\ UNCHANGED tables
  BY DEF LookupName, LookupSession, LookupKey
<1>2. CASE Abort(r, "unauthorized")
  BY <1>1, <1>2, AbortKeeps DEF Statuses
<1>3. CASE ~Abort(r, "unauthorized")
  <2>1. PICK u \in Users, to \in {"issue", "revoke", "touch"} :
          /\ username[u] # None
          /\ Set(r, [req[r] EXCEPT !.user = u, !.at = to])
          /\ to = "issue" => req[r].op = "Login"
          /\ to = "revoke" => req[r].op = "Refresh" /\ u = OwnerOf(req[r].token)
          /\ to = "touch" => req[r].op = "UseKey"
    <3>1. CASE \E p \in Passwords : LookupName(r, p)
      <4>1. PICK u \in Users : /\ username[u] = req[r].name
                               /\ Set(r, [req[r] EXCEPT !.user = u, !.at = "issue"])
        BY <1>3, <3>1 DEF LookupName
      <4>2. req[r].op = "Login" /\ req[r].name \in Names
        BY <3>1, OfOne DEF LookupName, Given
      <4>3. QED
        BY <4>1, <4>2, AccountsAssumption
    <3>2. CASE LookupSession(r)
      <4>1. req[r].op = "Refresh" /\ req[r].token \in sessions
        BY <3>2, OfOne DEF LookupSession, Given
      <4>2. QED
        BY <1>3, <3>2, <4>1, OwnersAreThere DEF LookupSession
    <3>3. CASE LookupKey(r)
      <4>1. req[r].op = "UseKey" /\ req[r].token \in keys
        BY <3>3, OfOne DEF LookupKey, Given
      <4>2. QED
        BY <1>3, <3>3, <4>1, OwnersAreThere DEF LookupKey
    <3>4. QED
      BY <3>1, <3>2, <3>3
  <2> DEFINE q == [req[r] EXCEPT !.user = u, !.at = to]
  <2>2. /\ q \in Requested /\ q.at = to /\ q.op = req[r].op /\ q.user = u
        /\ q.name = req[r].name /\ q.token = req[r].token /\ q.status = req[r].status
        /\ q.before = req[r].before /\ q.todo = req[r].todo /\ q.took = req[r].took
        /\ req' = [req EXCEPT ![r] = q]
    BY <2>1, OfOne DEF Requested, Points, Set
  <2> HIDE DEF q
  <2>3. Given(r, q) /\ Acts(q)
    BY <1>1, <2>1, <2>2, OfOne DEF Given, Acts, Issuing
  <2>4. req[r].before = {} /\ req[r].todo = {} /\ req[r].took = {}
    BY <1>1, <2>1, OfOne DEF Rows, RevokingAll
  <2>5. Rows(q)
    BY <1>1, <2>1, <2>2, <2>4, OfOne DEF Rows
  <2>6. Created(r, q) /\ Claims(q)
    BY <1>1, <2>1, <2>2, OfOne DEF Created, Claims
  <2>7. \A s \in Requests \ {r} : Apart(q, req[s])
    BY <2>1, <2>2, <2>4 DEF Apart, Locks
  <2>8. QED
    BY <1>1, <2>1, <2>2, <2>3, <2>5, <2>6, <2>7, StatementKeeps DEF Fits
<1>4. QED
  BY <1>2, <1>3

\* A call goes on to its next statement and locks nothing.
LEMMA GoesOn ==
  ASSUME Inv, NEW r \in Requests, CreateSession(r) \/ ComparePassword(r) \/ AllRevoked(r)
  PROVE  Inv'
<1>1. req[r].at \in {"issue", "lookup", "rows"} /\ UNCHANGED tables
  BY DEF CreateSession, ComparePassword, AllRevoked
<1>2. CASE Abort(r, "unauthorized")
  BY <1>1, <1>2, AbortKeeps DEF Statuses
<1>3. CASE ~Abort(r, "unauthorized")
  <2>1. PICK to \in {"commit", "row"} :
          /\ Goto(r, to)
          /\ to = "row" => req[r].op = "ChangePassword" /\ req[r].at = "lookup"
          /\ to = "commit" => req[r].at \in {"issue", "rows"} /\ req[r].todo = {}
    BY <1>3, OfOne DEF CreateSession, ComparePassword, AllRevoked, Rows
  <2> DEFINE q == [req[r] EXCEPT !.at = to]
  <2>2. /\ q \in Requested /\ q.at = to /\ q.op = req[r].op /\ q.user = req[r].user
        /\ q.name = req[r].name /\ q.token = req[r].token /\ q.status = req[r].status
        /\ q.before = req[r].before /\ q.todo = req[r].todo /\ q.took = req[r].took
        /\ req' = [req EXCEPT ![r] = q]
    BY <2>1, OfOne DEF Requested, Points, Goto, Set
  <2> HIDE DEF q
  <2>3. Given(r, q) /\ Acts(q)
    BY <1>1, <2>1, <2>2, OfOne DEF Given, Acts, Issuing, RevokingAll
  <2>4. Rows(q)
    BY <1>1, <2>1, <2>2, OfOne DEF Rows, Given, Issuing, RevokingAll
  <2>5. Created(r, q) /\ Claims(q)
    BY <1>1, <2>1, <2>2, OfOne DEF Created, Claims
  <2>6. \A s \in Requests \ {r} : Apart(q, req[s])
    BY <1>1, <2>1, <2>2, OfOne DEF Apart, Locks, Given, Issuing, RevokingAll
  <2>7. QED
    BY <1>1, <2>1, <2>2, <2>3, <2>4, <2>5, <2>6, StatementKeeps DEF Fits
<1>4. QED
  BY <1>2, <1>3

\* A call locks session rows that nobody else has locked.
LEMMA TakesRows ==
  ASSUME Inv, NEW r \in Requests, ScanSessions(r) \/ RevokeSession(r) \/ RevokeRow(r)
  PROVE  Inv'
<1> DEFINE Takes(to, todo, took) ==
             /\ req[r].at \in {"scan", "revoke", "rows"}
             /\ Set(r, [req[r] EXCEPT !.todo = todo, !.took = took, !.at = to])
             /\ (to = "issue" <=> req[r].at = "revoke")
             /\ to = "issue" =>
                  /\ todo = {} /\ took \subseteq {req[r].token}
                  /\ (req[r].token \in took <=> Active(req[r].token))
             /\ to = "rows" =>
                  /\ todo \subseteq SessionsOf(req[r].user)
                  /\ took \subseteq req[r].took \cup req[r].todo
                  /\ \A x \in took \ req[r].took : Active(x)
                  /\ \A x \in req[r].before : x \in todo \/ x \in took \/ ~Active(x)
             /\ \A x \in took \ req[r].took : \A s \in Requests \ {r} : x \notin req[s].took
<1>1. PICK to \in {"issue", "rows"}, todo \in SUBSET Sessions, took \in SUBSET Sessions :
        Takes(to, todo, took)
  <2>1. CASE ScanSessions(r)
    <3> DEFINE todo == {s \in SessionsOf(req[r].user) : Active(s)}
    <3>1. req[r].at = "scan" /\ Set(r, [req[r] EXCEPT !.todo = todo, !.at = "rows"])
      BY <2>1 DEF ScanSessions
    <3>2. /\ req[r].took = {} /\ req[r].took \in SUBSET Sessions
          /\ \A x \in req[r].before : x \in SessionsOf(req[r].user)
      BY <3>1, OfOne DEF Rows, SessionsOf
    <3>3. todo \in SUBSET Sessions /\ \A x \in req[r].before : x \in todo \/ ~Active(x)
      BY <3>2 DEF SessionsOf, Inv, TypeOK
    <3>4. todo \subseteq SessionsOf(req[r].user)
      OBVIOUS
    <3> HIDE DEF todo
    <3>5. [req[r] EXCEPT !.todo = todo, !.at = "rows"]
            = [req[r] EXCEPT !.todo = todo, !.took = {}, !.at = "rows"]
      BY <3>2, OfOne DEF Requested
    <3>6. Takes("rows", todo, {})
      BY <3>1, <3>2, <3>3, <3>4, <3>5
    <3>7. QED
      BY <3>3, <3>6
  <2>2. CASE RevokeSession(r)
    <3> DEFINE token == req[r].token
               took == IF Active(token) THEN {token} ELSE {}
    <3>1. /\ req[r].at = "revoke" /\ ~Waits(r)
          /\ Set(r, [req[r] EXCEPT !.took = took, !.at = "issue"])
      BY <2>2 DEF RevokeSession
    <3>2. req[r].todo = {} /\ req[r].took = {} /\ token \in sessions
      BY <3>1, OfOne DEF Rows, Given
    <3>3. \A s \in Requests \ {r} : token \notin req[s].took
      BY <3>1 DEF Waits, WaitsFor
    <3>4. took \in SUBSET Sessions /\ took \subseteq {token} /\ (token \in took <=> Active(token))
      BY <3>2 DEF Inv, TypeOK
    <3> HIDE DEF took
    <3>5. [req[r] EXCEPT !.took = took, !.at = "issue"]
            = [req[r] EXCEPT !.todo = {}, !.took = took, !.at = "issue"]
      BY <3>2, OfOne DEF Requested
    <3>6. Takes("issue", {}, took)
      BY <3>1, <3>2, <3>3, <3>4, <3>5
    <3>7. QED
      BY <3>4, <3>6
  <2>3. CASE RevokeRow(r)
    <3>1. PICK x \in req[r].todo :
            /\ req[r].at = "rows" /\ \A s \in Requests \ {r} : x \notin req[s].took
            /\ Set(r, [req[r] EXCEPT !.todo = @ \ {x},
                                     !.took = IF Active(x) THEN @ \cup {x} ELSE @])
      BY <2>3 DEF RevokeRow
    <3> DEFINE todo == req[r].todo \ {x}
               took == IF Active(x) THEN req[r].took \cup {x} ELSE req[r].took
    <3>2. /\ todo \in SUBSET Sessions /\ took \in SUBSET Sessions
          /\ todo \subseteq SessionsOf(req[r].user)
      BY OfOne DEF Rows, SessionsOf, Requested
    <3>3. \A y \in req[r].before : y \in todo \/ y \in took \/ ~Active(y)
      BY <3>1, OfOne DEF Rows
    <3>4. took \subseteq req[r].took \cup {x} /\ (x \in took \ req[r].took => Active(x))
      OBVIOUS
    <3>5. Set(r, [req[r] EXCEPT !.todo = todo, !.took = took])
      BY <3>1, OfOne DEF Requested
    <3> HIDE DEF todo, took
    <3>6. [req[r] EXCEPT !.todo = todo, !.took = took]
            = [req[r] EXCEPT !.todo = todo, !.took = took, !.at = "rows"]
      BY <3>1, OfOne DEF Requested
    <3>7. Takes("rows", todo, took)
      BY <3>1, <3>2, <3>3, <3>4, <3>5, <3>6
    <3>8. QED
      BY <3>2, <3>7
  <2>4. QED
    BY <2>1, <2>2, <2>3
<1>2. UNCHANGED tables /\ req[r].at # "done"
  BY DEF ScanSessions, RevokeSession, RevokeRow
<1> DEFINE q == [req[r] EXCEPT !.todo = todo, !.took = took, !.at = to]
<1>3. /\ q \in Requested /\ q.at = to /\ q.op = req[r].op /\ q.user = req[r].user
      /\ q.name = req[r].name /\ q.token = req[r].token /\ q.status = req[r].status
      /\ q.before = req[r].before /\ q.todo = todo /\ q.took = took
      /\ req' = [req EXCEPT ![r] = q]
  BY <1>1, OfOne DEF Requested, Points, Set
<1> HIDE DEF q
<1>4. Given(r, q) /\ Acts(q)
  BY <1>1, <1>3, OfOne DEF Given, Acts, Issuing, RevokingAll
<1>5. Rows(q)
  <2>1. CASE to = "issue"
    <3>1. /\ req[r].at = "revoke" /\ req[r].op = "Refresh" /\ req[r].before = {}
          /\ req[r].token \in sessions /\ OwnerOf(req[r].token) = req[r].user
      BY <1>1, <2>1, OfOne DEF Rows, Given, RevokingAll
    <3>2. /\ q.before = {} /\ q.todo = {} /\ q.took \subseteq {q.token}
          /\ q.token \in q.took <=> Active(q.token)
      BY <1>1, <1>3, <2>1, <3>1
    <3>3. QED
      BY <1>3, <2>1, <3>1, <3>2 DEF Rows
  <2>2. CASE to = "rows"
    BY <1>1, <1>3, <2>2, OfOne DEF Rows, Given, SessionsOf, RevokingAll
  <2>3. QED
    BY <1>1, <2>1, <2>2
<1>6. Created(r, q) /\ Claims(q)
  BY <1>1, <1>3, OfOne DEF Created, Claims, Given, RevokingAll
<1>7. ASSUME NEW s \in Requests \ {r} PROVE Apart(q, req[s])
  BY <1>1, <1>3, OfOne DEF Apart, Locks, Given, RevokingAll
<1>8. QED
  BY <1>1, <1>2, <1>3, <1>4, <1>5, <1>6, <1>7, StatementKeeps DEF Fits

\* A session is no key.
LEMMA SessionsAreNoKeys ==
  ASSUME Inv
  PROVE  sessions \cap keys = {}
<1> SUFFICES ASSUME NEW x \in sessions, x \in keys PROVE FALSE
  OBVIOUS
<1>1. CASE x \in Requests
  BY <1>1, OfOne DEF Created, Issuing
<1>2. CASE x \notin Requests
  BY <1>2, AccountsAssumption DEF Inv, TypeOK, Sessions, Keys
<1>3. QED
  BY <1>1, <1>2

\* A user is created or renamed.
LEMMA CommitUserKeeps ==
  ASSUME Inv, NEW r \in Requests, CommitUser(r)
  PROVE  Inv'
<1> DEFINE u == req[r].user
<1>1. /\ req[r].at = "keep" /\ u \in Users /\ req[r].name \in Names
      /\ req[r].op \in {"Register", "UpdateProfile"}
      /\ username' = [username EXCEPT ![u] = req[r].name]
      /\ password' = [password EXCEPT ![u] = IF req[r].op = "Register" THEN r ELSE @]
      /\ UNCHANGED <<sessions, revoked_at, keys, last_used_at>>
  BY OfOne DEF CommitUser, Given
<1>2. PICK q \in Requested :
        /\ req' = [req EXCEPT ![r] = q] /\ q.todo = {} /\ q.took = {} /\ q.before = {}
        /\ \/ /\ q.op = "Register" /\ q.at = "issue" /\ q.user = u /\ q.status = "none"
              /\ req[r].op = "Register"
           \/ q.op = "none" /\ q.at = "done" /\ q.user = None
  <2>1. CASE req[r].op = "Register" /\ Goto(r, "issue")
    <3> DEFINE q == [req[r] EXCEPT !.at = "issue"]
    <3>1. req[r].todo = {} /\ req[r].took = {} /\ req[r].before = {} /\ req[r].status = "none"
      BY <1>1, <2>1, OfOne DEF Rows, Given, RevokingAll
    <3>2. /\ q \in Requested /\ q.at = "issue" /\ q.op = req[r].op /\ q.user = u
          /\ q.status = req[r].status /\ q.before = req[r].before
          /\ q.todo = req[r].todo /\ q.took = req[r].took
      BY OfOne DEF Requested, Points
    <3>3. req' = [req EXCEPT ![r] = q]
      BY <2>1 DEF Goto, Set
    <3> HIDE DEF q
    <3>4. QED
      BY <2>1, <3>1, <3>2, <3>3
  <2>2. ASSUME NEW status \in {"ok", "failed"}, Abort(r, status)
        PROVE  \E q \in Requested :
                 /\ req' = [req EXCEPT ![r] = q] /\ q.todo = {} /\ q.took = {}
                 /\ q.before = {} /\ q.op = "none" /\ q.at = "done" /\ q.user = None
    <3> DEFINE q == [Fresh EXCEPT !.at = "done", !.status = status]
    <3>1. /\ q \in Requested /\ q.op = "none" /\ q.at = "done" /\ q.user = None
          /\ q.took = {} /\ q.todo = {} /\ q.before = {}
      BY DEF Fresh, Requested, Ops, Points, Statuses
    <3>2. req' = [req EXCEPT ![r] = q]
      BY <2>2 DEF Abort, Set
    <3> HIDE DEF q
    <3>3. QED
      BY <3>1, <3>2
  <2>3. QED
    BY <2>1, <2>2 DEF CommitUser
<1>3. /\ req' \in [Requests -> Requested] /\ req'[r] = q
      /\ \A s \in Requests \ {r} : req'[s] = req[s]
  BY <1>2 DEF Inv, TypeOK
<1>4. /\ q.todo = {} /\ q.took = {} /\ q.before = {}
      /\ \/ /\ q.op = "Register" /\ q.at = "issue" /\ q.user = u /\ q.status = "none"
            /\ req[r].op = "Register"
         \/ q.op = "none" /\ q.at = "done" /\ q.user = None
  BY <1>2
<1> HIDE DEF u
<1>5. \A x \in sessions \cup keys : OwnerOf(x)' = OwnerOf(x)
  BY <1>1, <1>2, OwnersKept
<1>6. /\ username'[u] = req[r].name /\ \A v \in Users \ {u} : username'[v] = username[v]
      /\ \A v \in Users : username[v] # None => username'[v] # None
      /\ \A v \in Users : password'[v] # password[v] => password'[v] = r /\ req[r].op = "Register"
      /\ req[r].name # None
  BY <1>1, AccountsAssumption DEF Inv, TypeOK
<1>7. TypeOK'
  BY <1>1, <1>3 DEF Inv, TypeOK
<1>8. Fits(r, req[r])'
  <2>1. r \notin sessions /\ r \notin keys
    BY <1>1, OfOne DEF Created
  <2>2. q.op = "Register" => u = r
    BY <1>4, OfOne DEF Given, u
  <2>3. Given(r, req[r])' /\ Acts(req[r])'
    BY <1>1, <1>3, <1>4, <1>6, <2>2, AccountsAssumption DEF Given, Acts, Issuing
  <2>4. Rows(req[r])'
    BY <1>1, <1>3, <1>4 DEF Rows
  <2>5. Created(r, req[r])' /\ Claims(req[r])'
    BY <1>1, <1>3, <1>4, <1>6, <2>1, OfOne DEF Created, Claims
  <2>6. QED
    BY <2>3, <2>4, <2>5 DEF Fits
<1>9. ASSUME NEW s \in Requests \ {r} PROVE Fits(s, req[s])'
  <2>1. PICK o : o = req[s] /\ o = req'[s]
    BY <1>3
  <2>2. /\ Given(s, o) /\ Acts(o) /\ Rows(o) /\ Created(s, o) /\ Claims(o) /\ Apart(req[r], o)
        /\ o \in Requested
    BY <2>1, OfOne
  <2>3. Given(s, req[s])'
    BY <1>1, <2>1, <2>2 DEF Given, Fresh
  <2>4. Acts(req[s])'
    BY <1>6, <2>1, <2>2 DEF Acts, Requested
  <2>5. Rows(req[s])'
    BY <1>1, <1>5, <2>1, <2>2 DEF Rows, Given, Active
  <2>6. username[s] = None => username'[s] = None
    <3>1. CASE s = u /\ username[s] = None
      BY <1>1, <1>4, <3>1, OfOne, AccountsAssumption DEF Given, Acts, u
    <3>2. CASE s # u
      BY <1>6, <3>2 DEF Users
    <3>3. QED
      BY <3>1, <3>2
  <2>7. Created(s, req[s])'
    BY <1>1, <1>6, <2>1, <2>2, <2>6 DEF Created
  <2>8. Claims(req[s])'
    BY <1>1, <1>6, <2>1, <2>2 DEF Claims, Apart
  <2>9. QED
    BY <2>3, <2>4, <2>5, <2>7, <2>8 DEF Fits
<1>10. ASSUME NEW s \in Requests, NEW t \in Requests, s # t
       PROVE  Apart(req[s], req[t])'
  <2>1. ~Locks(q) /\ q.at # "keep"
    BY <1>4 DEF Locks
  <2>2. CASE s = r \/ t = r
    BY <1>3, <1>4, <2>1, <2>2 DEF Apart
  <2>3. CASE s # r /\ t # r
    BY <1>3, <1>10, <2>3, OfOne DEF Apart, Locks
  <2>4. QED
    BY <2>2, <2>3
<1>11. NamesUnique'
  BY <1>1, <1>6, OfOne DEF Inv, NamesUnique, Claims, u
<1>12. RefreshReplaces'
  BY <1>1, <1>3, OfOne DEF Inv, RefreshReplaces, Active, Created
<1>13. AllSessionsEnded'
  <2> SUFFICES ASSUME NEW s \in Requests,
               (req'[s].op = "Logout" /\ req'[s].status = "ok")
                 \/ (req'[s].op = "ChangePassword" /\ password'[req'[s].user] = s)
      PROVE  \A x \in req'[s].before : ~Active(x)'
    BY DEF AllSessionsEnded
  <2>1. CASE s = r
    BY <1>3, <1>4, <2>1
  <2>2. CASE s # r
    <3>1. req[s].op = "ChangePassword" => req[s].user \in Users
      BY OfOne DEF Given
    <3>2. QED
      BY <1>1, <1>3, <1>6, <2>2, <3>1 DEF Inv, AllSessionsEnded, Active
  <2>3. QED
    BY <2>1, <2>2
<1>14. QED
  <2>1. \A v \in OldUsers : username'[v] # None
    BY <1>6 DEF Inv, Users
  <2>2. QED
    BY <1>1, <1>7, <1>8, <1>9, <1>10, <1>11, <1>12, <1>13, <2>1 DEF Inv

\* A call ends, and its transaction is committed: rows it created or revoked.
LEMMA EndKeeps ==
  ASSUME Inv, NEW r \in Requests, NEW q \in Requested, req[r].at # "done",
         req' = [req EXCEPT ![r] = q], q.at = "done", q.todo = {}, q.took = {}, TypeOK',
         username' = username,
         sessions \subseteq sessions', sessions' \subseteq sessions \cup {r},
         keys \subseteq keys', keys' \subseteq keys \cup {r},
         \A u \in Users : password'[u] # password[u] => password'[u] = r,
         \A x \in Sessions \cup Keys : ~Active(x) => ~Active(x)',
         \A s \in Requests \ {r} : \A x \in req[s].took : Active(x)',
         Given(r, q)', Acts(q), q.before \subseteq sessions,
         \A x \in q.before : OwnerOf(x) = q.user,
         q.before # {} => q.op \in RevokingAll,
         r \in sessions' => q.op \in Issuing /\ q.user \in Users,
         r \in keys' => q.op = "CreateAPIKey" /\ q.user \in Users,
         r \in sessions' /\ q.op = "Refresh" => ~Active(q.token)',
         (q.op = "Logout" /\ q.status = "ok") \/ (q.op = "ChangePassword" /\ password'[q.user] = r)
           => \A x \in q.before : ~Active(x)'
  PROVE  Inv'
<1>1. /\ req'[r] = q /\ \A s \in Requests \ {r} : req'[s] = req[s]
      /\ r \notin sessions /\ r \notin keys
  BY DEF Inv, TypeOK, Fits, Created
<1>2. \A x \in sessions \cup keys : OwnerOf(x)' = OwnerOf(x)
  BY OwnersKept
<1>3. ASSUME NEW s \in Requests PROVE Fits(s, req[s])'
  <2>1. CASE s = r
    <3>1. Given(s, req[s])' /\ Acts(req[s])' /\ Claims(req[s])'
      BY <1>1, <2>1 DEF Given, Acts, Claims, Fresh
    <3>2. Rows(req[s])'
      BY <1>1, <1>2, <2>1 DEF Rows
    <3>3. Created(s, req[s])'
      BY <1>1, <2>1 DEF Created
    <3>4. QED
      BY <3>1, <3>2, <3>3 DEF Fits
  <2>2. CASE s # r
    <3>1. PICK o : o = req[s] /\ o = req'[s]
      BY <1>1, <2>2
    <3>2. /\ o \in Requested /\ Given(s, o) /\ Acts(o) /\ Rows(o) /\ Created(s, o) /\ Claims(o)
          /\ \A x \in o.took : Active(x)'
      BY <2>2, <3>1, OfOne
    <3>3. Given(s, req[s])'
      BY <3>1, <3>2 DEF Given, Fresh
    <3>4. Acts(req[s])' /\ Claims(req[s])'
      BY <3>1, <3>2 DEF Acts, Claims
    <3>5. Created(s, req[s])'
      BY <2>2, <3>1, <3>2 DEF Created
    <3>6. Rows(req[s])'
      <4>1. /\ o.before \cup o.todo \cup o.took \subseteq sessions'
            /\ \A x \in o.before \cup o.todo \cup o.took : OwnerOf(x)' = o.user
            /\ o.before \in SUBSET Sessions
        BY <1>2, <3>2 DEF Rows, Requested
      <4>2. o.at = "revoke" => OwnerOf(o.token)' = o.user
        BY <1>2, <3>2 DEF Rows, Given
      <4>3. o.op = "Refresh" => o.token \in Sessions
        BY <3>2 DEF Given, Inv, TypeOK
      <4>4. QED
        BY <3>1, <3>2, <4>1, <4>2, <4>3 DEF Rows
    <3>7. QED
      BY <3>3, <3>4, <3>5, <3>6 DEF Fits
  <2>3. QED
    BY <2>1, <2>2
<1>4. ASSUME NEW s \in Requests, NEW t \in Requests, s # t
      PROVE  Apart(req[s], req[t])'
  <2>1. CASE s = r \/ t = r
    <3>1. ~Locks(q)
      BY DEF Locks
    <3>2. QED
      BY <1>1, <1>4, <2>1, <3>1 DEF Apart
  <2>2. CASE s # r /\ t # r
    BY <1>1, <1>4, <2>2, OfOne DEF Apart, Locks
  <2>3. QED
    BY <2>1, <2>2
<1>5. NamesUnique'
  BY DEF Inv, NamesUnique
<1>6. RefreshReplaces'
  <2> SUFFICES ASSUME NEW s \in sessions' \cap Requests, req'[s].op = "Refresh"
      PROVE  revoked_at'[req'[s].token] # None
    BY DEF RefreshReplaces, Active
  <2>1. CASE s = r
    BY <1>1, <2>1 DEF Active
  <2>2. CASE s # r
    <3>1. /\ s \in sessions /\ req'[s] = req[s] /\ req[s].token \in Sessions
          /\ revoked_at[req[s].token] # None
      BY <1>1, <2>2, OfOne DEF Given, Inv, TypeOK, RefreshReplaces, Active
    <3>2. QED
      BY <3>1 DEF Active
  <2>3. QED
    BY <2>1, <2>2
<1>7. AllSessionsEnded'
  <2> SUFFICES ASSUME NEW s \in Requests,
               (req'[s].op = "Logout" /\ req'[s].status = "ok")
                 \/ (req'[s].op = "ChangePassword" /\ password'[req'[s].user] = s),
               NEW x \in req'[s].before
      PROVE  revoked_at'[x] # None
    BY DEF AllSessionsEnded, Active
  <2>1. CASE s = r
    BY <1>1, <2>1 DEF Active
  <2>2. CASE s # r
    <3>1. /\ req'[s] = req[s] /\ req[s].before \subseteq Sessions
          /\ req[s].op = "ChangePassword" => req[s].user \in Users
      BY <1>1, <2>2, OfOne DEF Given, Requested
    <3>2. ~Active(x)
      BY <2>2, <3>1 DEF Inv, AllSessionsEnded
    <3>3. QED
      BY <3>1, <3>2 DEF Active
  <2>3. QED
    BY <2>1, <2>2
<1>8. QED
  BY <1>3, <1>4, <1>5, <1>6, <1>7 DEF Inv

\* The record of a call that has been answered.
LEMMA Answered ==
  ASSUME Inv, NEW r \in Requests, NEW status \in {"ok", "failed"}, Answer(r, status)
  PROVE  \E q \in Requested :
           /\ req' = [req EXCEPT ![r] = q] /\ q.at = "done" /\ q.todo = {} /\ q.took = {}
           /\ q.op = req[r].op /\ q.user = req[r].user /\ q.token = req[r].token
           /\ q.before = req[r].before
<1> DEFINE q == [req[r] EXCEPT !.at = "done", !.status = status, !.name = None,
                               !.todo = {}, !.took = {}]
<1>1. /\ q \in Requested /\ q.at = "done" /\ q.todo = {} /\ q.took = {}
      /\ q.op = req[r].op /\ q.user = req[r].user /\ q.token = req[r].token
      /\ q.before = req[r].before
  BY OfOne DEF Requested, Points, Statuses
<1>2. req' = [req EXCEPT ![r] = q]
  BY DEF Answer, Set
<1> HIDE DEF q
<1>3. QED
  BY <1>1, <1>2

\* The record of a call that has been aborted.
LEMMA Aborted ==
  ASSUME NEW r \in Requests, NEW status \in Statuses, Abort(r, status)
  PROVE  \E q \in Requested :
           /\ req' = [req EXCEPT ![r] = q] /\ q.at = "done" /\ q.todo = {} /\ q.took = {}
           /\ q.op = "none" /\ q.user = None /\ q.before = {}
<1> DEFINE q == [Fresh EXCEPT !.at = "done", !.status = status]
<1>1. /\ q \in Requested /\ q.op = "none" /\ q.at = "done" /\ q.user = None
      /\ q.took = {} /\ q.todo = {} /\ q.before = {}
  BY DEF Fresh, Requested, Ops, Points
<1>2. req' = [req EXCEPT ![r] = q]
  BY DEF Abort, Set
<1> HIDE DEF q
<1>3. QED
  BY <1>1, <1>2

\* The end of a transaction on sessions.
LEMMA CommitKeeps ==
  ASSUME Inv, NEW r \in Requests, Commit(r)
  PROVE  Inv'
<1> DEFINE took == req[r].took
<1>1. /\ req[r].at = "commit" /\ username' = username /\ keys' = keys /\ UNCHANGED last_used_at
      /\ sessions' = sessions \cup IF req[r].op \in Issuing THEN {r} ELSE {}
      /\ revoked_at' = [x \in Sessions \cup Keys |-> IF x \in took THEN r ELSE revoked_at[x]]
      /\ password' = [password EXCEPT ![req[r].user] =
                       IF req[r].op = "ChangePassword" THEN r ELSE @]
  BY DEF Commit, Inv, TypeOK
<1>2. PICK q \in Requested :
        /\ req' = [req EXCEPT ![r] = q] /\ q.at = "done" /\ q.todo = {} /\ q.took = {}
        /\ q.op = req[r].op /\ q.user = req[r].user /\ q.token = req[r].token
        /\ q.before = req[r].before
  BY Answered DEF Commit
<1>3. req[r].user \in Users /\ req[r].op \in Issuing \cup RevokingAll
  BY <1>1, OfOne DEF Given, Issuing, RevokingAll
<1>4. \A x \in Sessions \cup Keys :
        /\ x \in took => revoked_at'[x] = r /\ r # None
        /\ x \notin took => revoked_at'[x] = revoked_at[x]
  BY <1>1, AccountsAssumption
<1>5. /\ req[r].before \subseteq sessions /\ took \subseteq sessions /\ sessions \subseteq Sessions
      /\ \A x \in req[r].before : OwnerOf(x) = req[r].user
      /\ req[r].before # {} => req[r].op \in RevokingAll
      /\ req[r].op = "Refresh" => req[r].token \in sessions
      /\ req[r].op \notin {"RevokeAPIKey", "UseKey"}
  BY <1>3, OfOne DEF Rows, Given, Inv, TypeOK, Issuing, RevokingAll
<1> HIDE DEF took
<1>6. TypeOK'
  <2>1. req' \in [Requests -> Requested]
    BY <1>2 DEF Inv, TypeOK
  <2>2. revoked_at' \in [Sessions \cup Keys -> Requests \cup {None}]
    BY <1>1 DEF Inv, TypeOK
  <2>3. QED
    BY <1>1, <2>1, <2>2 DEF Inv, TypeOK, Sessions
<1>7. /\ sessions \subseteq sessions' /\ sessions' \subseteq sessions \cup {r}
      /\ r \in sessions' => req[r].op \in Issuing
      /\ r \notin keys
  BY <1>1, OfOne DEF Created
<1>8. \A u \in Users : password'[u] # password[u] => password'[u] = r
  BY <1>1, <1>3 DEF Inv, TypeOK
<1>9. \A x \in Sessions \cup Keys : ~Active(x) => ~Active(x)'
  BY <1>4 DEF Active
<1>10. ASSUME NEW s \in Requests \ {r}, NEW x \in req[s].took PROVE Active(x)'
  <2>1. x \in Sessions /\ Active(x) /\ x \notin took
    BY <1>10, OfOne DEF Rows, Requested, Apart, took
  <2>2. QED
    BY <1>4, <2>1 DEF Active
<1>11. Given(r, q)' /\ Acts(q)
  <2>1. Given(r, q)'
    BY <1>1, <1>2, <1>3, <1>5, OfOne DEF Given
  <2>2. Acts(q)
    BY <1>1, <1>2, OfOne DEF Acts
  <2>3. QED
    BY <2>1, <2>2
<1>12. req[r].op = "Refresh" => revoked_at'[req[r].token] # None
  BY <1>1, <1>4, <1>5, OfOne DEF Rows, took, Active
<1>13. req[r].op \in RevokingAll => \A x \in req[r].before : revoked_at'[x] # None
  BY <1>1, <1>4, <1>5, OfOne DEF Rows, took, Active
<1>14. QED
  <2>1. q.op = "Refresh" => ~Active(q.token)'
    BY <1>2, <1>12 DEF Active
  <2>2. q.op \in RevokingAll => \A x \in q.before : ~Active(x)'
    BY <1>2, <1>13 DEF Active
  <2>3. req[r].at # "done" /\ q.at = "done"
    BY <1>1, <1>2
  <2>4. QED
    BY <1>1, <1>2, <1>3, <1>5, <1>6, <1>7, <1>8, <1>9, <1>10, <1>11, <2>1, <2>2, <2>3, EndKeeps
       DEF RevokingAll

\* A statement on keys.
LEMMA KeysKeep ==
  ASSUME Inv, NEW r \in Requests, CreateAPIKey(r) \/ RevokeAPIKey(r) \/ TouchAPIKey(r)
  PROVE  Inv'
<1>1. /\ req[r].at \in {"write", "touch"} /\ username' = username /\ sessions' = sessions
      /\ password' = password
  BY DEF CreateAPIKey, RevokeAPIKey, TouchAPIKey
<1>2. /\ r \notin sessions /\ r \notin keys /\ req[r].before = {}
      /\ req[r].op \in {"CreateAPIKey", "RevokeAPIKey", "UseKey"} /\ req[r].user \in Users
      /\ req[r].op # "CreateAPIKey" => req[r].token \in keys
      /\ CreateAPIKey(r) \/ RevokeAPIKey(r) => req[r].op # "UseKey"
      /\ TouchAPIKey(r) => req[r].op = "UseKey"
      /\ RevokeAPIKey(r) => req[r].op = "RevokeAPIKey"
  BY <1>1, OfOne DEF Created, Rows, Given, RevokingAll, CreateAPIKey, RevokeAPIKey, TouchAPIKey
<1>3. PICK q \in Requested :
        /\ req' = [req EXCEPT ![r] = q] /\ q.at = "done" /\ q.todo = {} /\ q.took = {}
        /\ q.before = {}
        /\ \/ q.op = req[r].op /\ q.user = req[r].user /\ q.token = req[r].token
           \/ q.op = "none" /\ q.user = None /\ keys' = keys
  <2>1. CASE \E status \in {"ok", "failed"} : Answer(r, status)
    BY <1>2, <2>1, Answered
  <2>2. CASE keys' = keys /\ \E status \in {"ok", "failed", "missing"} : Abort(r, status)
    BY <2>2, Aborted DEF Statuses
  <2>3. QED
    BY <2>1, <2>2 DEF CreateAPIKey, RevokeAPIKey, TouchAPIKey
<1>4. /\ keys \subseteq keys' /\ keys' \subseteq keys \cup {r}
      /\ r \in keys' => req[r].op = "CreateAPIKey" /\ q.op = req[r].op /\ q.user = req[r].user
  BY <1>2, <1>3 DEF CreateAPIKey, RevokeAPIKey, TouchAPIKey
<1>5. \/ revoked_at' = revoked_at
      \/ req[r].token \in keys /\ revoked_at' = [revoked_at EXCEPT ![req[r].token] = r]
  <2>1. CASE CreateAPIKey(r) \/ TouchAPIKey(r)
    BY <2>1 DEF CreateAPIKey, TouchAPIKey
  <2>2. CASE RevokeAPIKey(r)
    BY <1>2, <2>2 DEF RevokeAPIKey, Inv, TypeOK
  <2>3. QED
    BY <2>1, <2>2
<1>6. TypeOK'
  <2>1. req' \in [Requests -> Requested]
    BY <1>3 DEF Inv, TypeOK
  <2>2. last_used_at' \in [Keys -> Requests \cup {None}]
    BY DEF CreateAPIKey, RevokeAPIKey, TouchAPIKey, Inv, TypeOK
  <2>3. revoked_at' \in [Sessions \cup Keys -> Requests \cup {None}]
    BY <1>5 DEF Inv, TypeOK
  <2>4. keys' \subseteq Keys
    BY <1>4 DEF Inv, TypeOK, Keys
  <2>5. QED
    BY <1>1, <2>1, <2>2, <2>3, <2>4 DEF Inv, TypeOK
<1>7. \A x \in Sessions \cup Keys : ~Active(x) => ~Active(x)'
  BY <1>5, AccountsAssumption DEF Active, Inv, TypeOK
<1>8. ASSUME NEW s \in Requests \ {r}, NEW x \in req[s].took PROVE Active(x)'
  <2>1. x \in sessions /\ Active(x)
    BY OfOne DEF Rows
  <2>2. x \notin keys /\ x \in Sessions
    BY <2>1, SessionsAreNoKeys DEF Inv, TypeOK
  <2>3. QED
    BY <1>5, <2>1, <2>2 DEF Active, Inv, TypeOK
<1>9. Given(r, q)' /\ Acts(q)
  <2>1. q.op \in {"RevokeAPIKey", "UseKey"} => q.token \in keys'
    BY <1>2, <1>3, <1>4
  <2>2. Given(r, q)'
    BY <1>1, <1>2, <1>3, <2>1 DEF Given
  <2>3. Acts(q)
    BY <1>1, <1>2, <1>3, OfOne DEF Acts
  <2>4. QED
    BY <2>2, <2>3
<1>10. QED
  BY <1>1, <1>2, <1>3, <1>4, <1>6, <1>7, <1>8, <1>9, EndKeeps

-----------------------------------------------------------------------------

LEMMA InitHolds == Init => Inv
<1> SUFFICES ASSUME Init PROVE Inv
  OBVIOUS
<1> USE DEF Init
<1>1. Fresh \in Requested
  BY DEF Fresh, Requested, Ops, Points, Statuses
<1>2. TypeOK
  BY <1>1, AccountsAssumption DEF TypeOK, Users, Sessions, Keys
<1>3. \A u \in OldUsers : username[u] # None
  BY AccountsAssumption DEF Users
<1>4. ASSUME NEW r \in Requests PROVE Fits(r, req[r])
  <2>1. /\ req[r] = Fresh /\ Fresh.at = "idle" /\ Fresh.op = "none" /\ Fresh.status = "none"
        /\ Fresh.user = None /\ Fresh.before = {} /\ Fresh.todo = {} /\ Fresh.took = {}
    BY DEF Fresh
  <2>2. /\ r \notin sessions /\ r \notin keys /\ username[r] = None
        /\ \A u \in Users : password[u] # r
    BY AccountsAssumption DEF Users
  <2>3. Given(r, req[r]) /\ Acts(req[r]) /\ Rows(req[r])
    BY <2>1 DEF Given, Acts, Rows, Issuing, RevokingAll
  <2>4. Created(r, req[r]) /\ Claims(req[r])
    BY <2>1, <2>2 DEF Created, Claims
  <2>5. QED
    BY <2>3, <2>4 DEF Fits
<1>5. \A r \in Requests, s \in Requests : r # s => Apart(req[r], req[s])
  BY DEF Apart, Locks, Fresh
<1>6. NamesUnique
  BY AccountsAssumption DEF NamesUnique, Users
<1>7. RefreshReplaces /\ AllSessionsEnded
  BY AccountsAssumption DEF RefreshReplaces, AllSessionsEnded, Fresh
<1>8. QED
  BY <1>2, <1>3, <1>4, <1>5, <1>6, <1>7 DEF Inv

LEMMA NextKeeps == Inv /\ [Next]_vars => Inv'
<1>1. ASSUME Inv, NEW r \in Requests, Start(r) \/ Step(r) \/ Timeout(r) \/ DeadlockVictim(r)
      PROVE  Inv'
  <2>1. CASE Start(r)
    BY <1>1, <2>1, StartsKeep
  <2>2. CASE Step(r)
    BY <1>1, <2>2, LockKeeps, EnterNameKeeps, CommitUserKeeps, LookupKeeps, GoesOn, TakesRows,
       CommitKeeps, KeysKeep DEF Step
  <2>3. CASE Timeout(r)
    BY <1>1, <2>3, AbortKeeps DEF Timeout, Free, Statuses
  <2>4. QED
    BY <1>1, <2>1, <2>2, <2>3 DEF DeadlockVictim
<1>2. ASSUME Inv, UNCHANGED vars PROVE Inv'
  <2>1. \A x : OwnerOf(x)' = OwnerOf(x)
    BY <1>2 DEF vars, OwnerOf
  <2>2. \A x : Active(x)' = Active(x)
    BY <1>2 DEF vars, tables, Active
  <2>3. TypeOK' /\ NamesUnique' /\ RefreshReplaces' /\ AllSessionsEnded'
    BY <1>2 DEF vars, tables, Inv, TypeOK, NamesUnique, RefreshReplaces, AllSessionsEnded, Active
  <2>4. \A r \in Requests, s \in Requests : r # s => Apart(req[r], req[s])'
    BY <1>2 DEF vars, Inv, Apart, Locks
  <2>5. ASSUME NEW r \in Requests PROVE Fits(r, req[r])'
    <3>1. Given(r, req[r])' /\ Acts(req[r])' /\ Claims(req[r])' /\ Created(r, req[r])'
      BY <1>2, OfOne DEF vars, tables, Given, Acts, Claims, Created
    <3>2. Rows(req[r])'
      BY <1>2, <2>1, <2>2, OfOne DEF vars, tables, Rows
    <3>3. QED
      BY <3>1, <3>2 DEF Fits
  <2>6. QED
    BY <1>2, <2>3, <2>4, <2>5 DEF Inv, vars, tables
<1>3. QED
  BY <1>1, <1>2 DEF Next

\* The invariant holds in every state.
THEOREM Invariant == Spec => []Inv
BY InitHolds, NextKeeps, PTL DEF Spec

-----------------------------------------------------------------------------
(* What follows from it *)

\* The tables and the requests have the types their columns and variables
\* declare.
THEOREM TypeCorrect == Spec => []TypeOK
<1>1. Inv => TypeOK
  BY DEF Inv
<1>2. QED
  BY <1>1, Invariant, PTL

\* No two users have one name (user.go: Register, UpdateProfile; the unique
\* index of users.username).
THEOREM OneNameEach == Spec => []NamesUnique
<1>1. Inv => NamesUnique
  BY DEF Inv
<1>2. QED
  BY <1>1, Invariant, PTL

\* The session a Refresh was given is not active together with the one it
\* issued (user.go: Refresh).
THEOREM Replaced == Spec => []RefreshReplaces
<1>1. Inv => RefreshReplaces
  BY DEF Inv
<1>2. QED
  BY <1>1, Invariant, PTL

\* Logout and ChangePassword end every session there was when they came in
\* (user.go: Logout, ChangePassword).
THEOREM LoggedOut == Spec => []AllSessionsEnded
<1>1. Inv => AllSessionsEnded
  BY DEF Inv
<1>2. QED
  BY <1>1, Invariant, PTL

\* A session or key is ended once, by a call of its user, and no key is
\* touched afterwards (user.go: Refresh, Logout, ChangePassword, RevokeAPIKey;
\* jwt.go: authenticateAPIKey).
THEOREM EndsOnce == Spec => EndedOnceByOwner
<1>1. ASSUME Inv, NEW r \in Requests, Start(r) \/ Step(r) \/ Timeout(r) \/ DeadlockVictim(r)
      PROVE  EndsOnceByOwner
  <2>1. CASE Commit(r)
    <3>1. ASSUME NEW x \in Sessions \cup Keys, revoked_at'[x] # revoked_at[x]
          PROVE  Active(x) /\ req[revoked_at'[x]].user = OwnerOf(x)
      <4>1. x \in req[r].took /\ revoked_at'[x] = r
        BY <1>1, <2>1, <3>1 DEF Commit, Inv, TypeOK
      <4>2. QED
        BY <1>1, <4>1, OfOne DEF Rows
    <3>2. UNCHANGED last_used_at
      BY <2>1 DEF Commit
    <3>3. QED
      BY <3>1, <3>2 DEF EndsOnceByOwner
  <2>2. CASE RevokeAPIKey(r)
    <3>1. req[r].token \in keys /\ keys \subseteq Keys
      BY <1>1, <2>2, OfOne DEF RevokeAPIKey, Given, Inv, TypeOK
    <3>2. ASSUME NEW x \in Sessions \cup Keys, revoked_at'[x] # revoked_at[x]
          PROVE  Active(x) /\ req[revoked_at'[x]].user = OwnerOf(x)
      BY <1>1, <2>2, <3>1, <3>2 DEF RevokeAPIKey, Inv, TypeOK
    <3>3. UNCHANGED last_used_at
      BY <2>2 DEF RevokeAPIKey
    <3>4. QED
      BY <3>2, <3>3 DEF EndsOnceByOwner
  <2>3. CASE TouchAPIKey(r)
    BY <1>1, <2>3 DEF TouchAPIKey, EndsOnceByOwner, Inv, TypeOK
  <2>4. CASE UNCHANGED <<revoked_at, last_used_at>>
    BY <2>4 DEF EndsOnceByOwner
  <2>5. QED
    <3>1. CASE UNCHANGED tables
      BY <2>4, <3>1 DEF tables
    <3>2. CASE CommitUser(r) \/ CreateAPIKey(r)
      BY <2>4, <3>2 DEF CommitUser, CreateAPIKey
    <3>3. CASE Start(r)
      BY <3>1, <3>3 DEF Start, StartRegister, StartLogin, StartUpdateProfile, StartRefresh,
         StartLogout, StartChangePassword, StartKey, StartUseKey
    <3>4. CASE Step(r)
      BY <2>1, <2>2, <2>3, <3>1, <3>2, <3>4 DEF Step, LockProfile, EnterName, LookupName,
         LookupSession, RevokeSession, CreateSession, ComparePassword, UpdatePassword,
         ScanSessions, RevokeRow, AllRevoked, LookupKey
    <3>5. QED
      BY <1>1, <3>1, <3>3, <3>4 DEF DeadlockVictim, Timeout
<1>2. Inv /\ [Next]_vars => [EndsOnceByOwner]_vars
  BY <1>1 DEF Next
<1>3. QED
  BY <1>2, Invariant, PTL DEF Spec, EndedOnceByOwner

\* Calls that wait for each other end all sessions of one user or exchange
\* usernames (user.go: Logout, ChangePassword, UpdateProfile).
THEOREM Deadlocks == Spec => []DeadlockNeedsTwoOfAKind
<1>1. Inv => DeadlockNeedsTwoOfAKind
  <2> SUFFICES ASSUME Inv, NEW S \in SUBSET Requests, Deadlocked(S),
               \A r, s \in S : r # s =>
                 /\ ~({req[r].op, req[s].op} \subseteq RevokingAll /\ req[r].user = req[s].user)
                 /\ ~(Renames(r) /\ Renames(s))
      PROVE  FALSE
    BY DEF DeadlockNeedsTwoOfAKind
  <2>1. \A r \in S : \E s \in S : WaitsFor(r, s)
    BY DEF Deadlocked
  <2>2. \A r \in S : req[r].at \in {"name", "row", "issue", "revoke", "rows"}
    BY <2>1 DEF WaitsFor
  <2>3. \A r, s \in S : req[r].at = "name" /\ WaitsFor(r, s) => Renames(s) /\ req[s].at = "name"
    BY <2>2 DEF WaitsFor, NameInDoubt, Renames
  <2>4. \A r \in S : req[r].at # "name"
    <3> SUFFICES ASSUME NEW r \in S, req[r].at = "name" PROVE FALSE
      OBVIOUS
    <3>1. PICK s \in S : Renames(s) /\ req[s].at = "name"
      BY <2>1, <2>3
    <3>2. PICK t \in S : WaitsFor(s, t)
      BY <2>1
    <3>3. Renames(t) /\ s # t
      BY <2>3, <3>1, <3>2 DEF WaitsFor
    <3>4. QED
      BY <3>1, <3>3
  <2>5. \A s \in S : ~Renames(s)
    BY <2>2, <2>4 DEF Renames
  <2>6. \A r, s \in S : WaitsFor(r, s) =>
          /\ r # s
          /\ \/ req[r].at = "row" /\ HoldsUser(s, req[r].user)
             \/ req[r].at = "revoke" /\ req[r].token \in req[s].took
             \/ req[r].at = "rows" /\ req[r].todo \cap req[s].took # {}
    BY <2>2, <2>4, <2>5 DEF WaitsFor, RefersTo
  <2>7. \A s \in S : req[s].took # {} => req[s].at = "rows"
    <3> SUFFICES ASSUME NEW s \in S, req[s].took # {}, req[s].at # "rows" PROVE FALSE
      OBVIOUS
    <3>1. req[s].at = "issue"
      BY <2>2, OfOne DEF Rows
    <3>2. QED
      BY <2>1, <2>6, <3>1
  <2>8. \A r, s \in S : WaitsFor(r, s) => req[s].at = "rows"
    BY <2>2, <2>4, <2>6, <2>7 DEF HoldsUser
  <2>9. ASSUME NEW r \in S, NEW s \in S, WaitsFor(r, s), req[r].at = "rows"
        PROVE  FALSE
    <3>1. PICK x \in req[r].todo : x \in req[s].took
      BY <2>6, <2>9
    <3>2. req[s].at = "rows" /\ r # s
      BY <2>6, <2>8, <2>9
    <3>3. OwnerOf(x) = req[r].user /\ OwnerOf(x) = req[s].user
      BY <3>1, OfOne DEF Rows
    <3>4. req[r].op \in RevokingAll /\ req[s].op \in RevokingAll
      BY <2>9, <3>2, OfOne DEF Given
    <3>5. QED
      BY <3>2, <3>3, <3>4
  <2>10. PICK r \in S : TRUE
    BY DEF Deadlocked
  <2>11. PICK s \in S : WaitsFor(r, s)
    BY <2>1
  <2>12. QED
    BY <2>1, <2>8, <2>9, <2>11
<1>2. QED
  BY <1>1, Invariant, PTL
=============================================================================
