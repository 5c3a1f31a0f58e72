------------------------------- MODULE Accounts -------------------------------
(***************************************************************************)
(* Users, login sessions and API keys (internal/api/user.go and the key    *)
(* middleware of internal/pkg/jwt/jwt.go), statement by statement, at READ *)
(* COMMITTED.  Tokens are signed, passwords hashed and bodies validated    *)
(* outside the model.                                                      *)
(*                                                                         *)
(* A request is made once; the user, session, password or key it creates   *)
(* is named after it.  Nobody is deleted.  A session that has expired is   *)
(* one whose lookup fails.                                                 *)
(***************************************************************************)
EXTENDS Naturals, FiniteSets

CONSTANTS
  Requests,            \* numbered in the order in which they come in
  Names,               \* users.username
  OldUsers, OldName,   \* users there from the beginning, and their names
  OldSessions, OldKeys,
  OldOwner,            \* OldOwner[x]: the user of an old session or key
  None

ASSUME AccountsAssumption ==
  /\ Requests \subseteq Nat /\ IsFiniteSet(Requests) /\ IsFiniteSet(OldSessions)
  /\ OldName \in [OldUsers -> Names]
  /\ \A u, v \in OldUsers : OldName[u] = OldName[v] => u = v
  /\ OldOwner \in [OldSessions \cup OldKeys -> OldUsers]
  /\ Requests \cap (OldUsers \cup OldSessions \cup OldKeys) = {}
  /\ OldSessions \cap OldKeys = {}
  /\ None \notin Requests \cup Names \cup OldUsers \cup OldSessions \cup OldKeys

VARIABLES
  username,     \* username[u], None while there is no such user
  password,     \* password[u]: the request that set it, None if it is old
  sessions,     \* the rows of user_sessions
  revoked_at,   \* revoked_at[x]: the request that revoked session or key x
  keys,         \* the rows of api_keys
  last_used_at, \* last_used_at[k]: the request that touched key k last
  req           \* the requests

tables == <<username, password, sessions, revoked_at, keys, last_used_at>>
vars == <<tables, req>>

Users == OldUsers \cup Requests
Sessions == OldSessions \cup Requests
Keys == OldKeys \cup Requests

-----------------------------------------------------------------------------
(* Requests *)

Issuing == {"Register", "Login", "Refresh"}
RevokingAll == {"Logout", "ChangePassword"}

\* name: the username asked for; token: the session or key presented; before:
\* the user's sessions when the request came in; todo, took: the session rows
\* an UPDATE has still to visit, and those it has locked and changed.
Fresh ==
  [op |-> "none", at |-> "idle", status |-> "none", user |-> None, name |-> None,
   token |-> None, before |-> {}, todo |-> {}, took |-> {}]

Free(r) == req[r].at \in {"idle", "done"}
ComesIn(r) == req[r].at = "idle" /\ \A q \in Requests : q < r => req[q].at # "idle"
Set(r, new) == req' = [req EXCEPT ![r] = new]
Goto(r, at) == Set(r, [req[r] EXCEPT !.at = at])

\* Slip: the transaction is not ended, and keeps its locks.
Answer_InTx(r, status) == Set(r, [req[r] EXCEPT !.at = "done", !.status = status])

\* The request is answered and its transaction, if any, has committed.
Answer(r, status) ==
  Set(r, [req[r] EXCEPT !.at = "done", !.status = status, !.name = None,
                        !.todo = {}, !.took = {}])

\* ... or has rolled back, or there was nothing that is named after it.
Abort(r, status) == Set(r, [Fresh EXCEPT !.at = "done", !.status = status])

OwnerOf(x) == IF x \in Requests THEN req[x].user ELSE OldOwner[x]
Active(x) == revoked_at[x] = None

\* The access tokens, refresh tokens and keys that clients have been sent.
Sent(r) == req[r].status = "ok"
KnowsToken(u) ==
  u \in OldUsers \/ \E r \in Requests : Sent(r) /\ req[r].op \in Issuing /\ req[r].user = u
SentSessions == {s \in sessions : s \in Requests => Sent(s)}
SentKeys == {k \in keys : k \in Requests => Sent(k)}
Passwords == {None} \cup {password[u] : u \in Users}
SessionsOf(u) == {s \in sessions : OwnerOf(s) = u}

-----------------------------------------------------------------------------
(* Locks *)

\* s holds the row of user u against other updates of it.
HoldsUser(s, u) ==
  /\ req[s].user = u
  /\ \/ req[s].op = "ChangePassword" /\ req[s].at \in {"scan", "rows", "commit"}
     \/ req[s].op = "UpdateProfile" /\ req[s].at \in {"name", "keep"}

\* s is changing the name of its user, which is a key of the row.
Renames(s) ==
  /\ req[s].op = "UpdateProfile" /\ req[s].at \in {"name", "keep"}
  /\ req[s].name # username[req[s].user]

\* s has inserted a session, whose foreign key holds the user's row against
\* a change of its keys.
RefersTo(s, u) == req[s].op \in Issuing /\ req[s].at = "commit" /\ req[s].user = u

\* s is inserting the name x, or giving it up.
NameInDoubt(s, x) ==
  \/ req[s].at = "keep" /\ req[s].name = x
  \/ Renames(s) /\ username[req[s].user] = x

\* r waits for s.
WaitsFor(r, s) ==
  LET me == req[r]
  IN  /\ r # s
      /\ \/ me.at = "name" /\ (me.op = "Register" \/ Renames(r)) /\ NameInDoubt(s, me.name)
         \/ me.at = "row" /\ HoldsUser(s, me.user)
         \/ /\ me.at = "row" /\ me.op = "UpdateProfile" /\ me.name # username[me.user]
            /\ RefersTo(s, me.user)
         \/ me.at = "issue" /\ Renames(s) /\ req[s].user = me.user
         \/ me.at = "revoke" /\ me.token \in req[s].took
         \/ /\ me.at = "rows" /\ me.todo # {} /\ me.todo \cap req[s].took # {}
            /\ \A x \in me.todo : \E q \in Requests \ {r} : x \in req[q].took

Waits(r) == \E s \in Requests : WaitsFor(r, s)

-----------------------------------------------------------------------------
(* Usernames: Register and UpdateProfile *)

StartRegister(r, x) ==
  /\ ComesIn(r)
  /\ Set(r, [Fresh EXCEPT !.op = "Register", !.at = "name", !.user = r, !.name = x])
  /\ UNCHANGED tables

StartUpdateProfile(r, u, x) ==
  /\ ComesIn(r) /\ KnowsToken(u)
  /\ Set(r, [Fresh EXCEPT !.op = "UpdateProfile", !.at = "row", !.user = u, !.name = x])
  /\ UNCHANGED tables

\* UpdateUser locks the row; then it enters the new name into the index.
LockProfile(r) ==
  /\ req[r].at = "row" /\ req[r].op = "UpdateProfile" /\ ~Waits(r)
  /\ Goto(r, "name")
  /\ UNCHANGED tables

\* Slip: names that are being entered or given up are not waited for.
EnterName_NoWait(r) ==
  /\ req[r].at = "name"
  /\ IF \E u \in Users \ {req[r].user} : username[u] = req[r].name THEN Abort(r, "conflict")
     ELSE Goto(r, "keep")
  /\ UNCHANGED tables

\* The unique index: a name in doubt is waited for, a taken one answered 409.
EnterName(r) ==
  /\ req[r].at = "name" /\ ~Waits(r)
  /\ IF \E u \in Users \ {req[r].user} : username[u] = req[r].name THEN Abort(r, "conflict")
     ELSE Goto(r, "keep")
  /\ UNCHANGED tables

\* CreateUser or UpdateUser is committed; Register goes on to its session.
\* The confirmation may be lost.
CommitUser(r) ==
  /\ req[r].at = "keep"
  /\ username' = [username EXCEPT ![req[r].user] = req[r].name]
  /\ password' = [password EXCEPT ![req[r].user] =
                   IF req[r].op = "Register" THEN r ELSE @]
  /\ \/ req[r].op = "Register" /\ Goto(r, "issue")
     \/ req[r].op = "UpdateProfile" /\ Abort(r, "ok")
     \/ Abort(r, "failed")
  /\ UNCHANGED <<sessions, revoked_at, keys, last_used_at>>

-----------------------------------------------------------------------------
(* Sessions: Login and Refresh *)

StartLogin(r, x) ==
  /\ ComesIn(r)
  /\ Set(r, [Fresh EXCEPT !.op = "Login", !.at = "lookup", !.name = x])
  /\ UNCHANGED tables

\* GetUserByUsername, and the password p compared: both answered 401.
LookupName(r, p) ==
  /\ req[r].at = "lookup" /\ req[r].op = "Login"
  /\ \/ \E u \in Users :
          /\ username[u] = req[r].name /\ password[u] = p
          /\ Set(r, [req[r] EXCEPT !.user = u, !.at = "issue"])
     \/ /\ \A u \in Users : username[u] = req[r].name => password[u] # p
        /\ Abort(r, "unauthorized")
  /\ UNCHANGED tables

StartRefresh(r, s) ==
  /\ ComesIn(r)
  /\ Set(r, [Fresh EXCEPT !.op = "Refresh", !.at = "lookup", !.token = s])
  /\ UNCHANGED tables

\* GetActiveSessionByTokenHash, outside the transaction: revoked or expired
\* sessions are answered 401.
LookupSession(r) ==
  /\ req[r].at = "lookup" /\ req[r].op = "Refresh"
  /\ \/ /\ Active(req[r].token)
        /\ Set(r, [req[r] EXCEPT !.user = OwnerOf(req[r].token), !.at = "revoke"])
     \/ Abort(r, "unauthorized")
  /\ UNCHANGED tables

\* Slip: a session that others are revoking is left alone.
RevokeSession_SkipsLocked(r) ==
  LET s == req[r].token
  IN  /\ req[r].at = "revoke"
      /\ Set(r, [req[r] EXCEPT !.took = IF Active(s) /\ ~Waits(r) THEN {s} ELSE {}, !.at = "issue"])
      /\ UNCHANGED tables

\* RevokeSession waits for the row; how many rows it changed is not looked at.
RevokeSession(r) ==
  LET s == req[r].token
  IN  /\ req[r].at = "revoke" /\ ~Waits(r)
      /\ Set(r, [req[r] EXCEPT !.took = IF Active(s) THEN {s} ELSE {}, !.at = "issue"])
      /\ UNCHANGED tables

\* CreateSession
CreateSession(r) ==
  /\ req[r].at = "issue" /\ ~Waits(r)
  /\ Goto(r, "commit")
  /\ UNCHANGED tables

-----------------------------------------------------------------------------
(* Logout and ChangePassword *)

StartLogout(r, u) ==
  /\ ComesIn(r) /\ KnowsToken(u)
  /\ Set(r, [Fresh EXCEPT !.op = "Logout", !.at = "scan", !.user = u, !.before = SessionsOf(u)])
  /\ UNCHANGED tables

\* ... with the password p as the current one.
StartChangePassword(r, u, p) ==
  /\ ComesIn(r) /\ KnowsToken(u)
  /\ Set(r, [Fresh EXCEPT !.op = "ChangePassword", !.at = "lookup", !.user = u,
                          !.token = p, !.before = SessionsOf(u)])
  /\ UNCHANGED tables

\* The password is compared with a row read before the transaction.
ComparePassword(r) ==
  /\ req[r].at = "lookup" /\ req[r].op = "ChangePassword"
  /\ IF password[req[r].user] = req[r].token THEN Goto(r, "row") ELSE Abort(r, "unauthorized")
  /\ UNCHANGED tables

\* UpdateUserPassword
UpdatePassword(r) ==
  /\ req[r].at = "row" /\ req[r].op = "ChangePassword" /\ ~Waits(r)
  /\ Goto(r, "scan")
  /\ UNCHANGED tables

\* Slip: the user is not compared.
ScanSessions_Everyones(r) ==
  /\ req[r].at = "scan"
  /\ Set(r, [req[r] EXCEPT !.todo = {s \in sessions : Active(s)}, !.at = "rows"])
  /\ UNCHANGED tables

\* The snapshot of RevokeAllUserSessions.
ScanSessions(r) ==
  /\ req[r].at = "scan"
  /\ Set(r, [req[r] EXCEPT !.todo = {s \in SessionsOf(req[r].user) : Active(s)}, !.at = "rows"])
  /\ UNCHANGED tables

\* Slip: rows that are locked are skipped.
RevokeRow_SkipsLocked(r) ==
  /\ req[r].at = "rows"
  /\ \E s \in req[r].todo :
       Set(r, [req[r] EXCEPT !.todo = @ \ {s},
                !.took = IF Active(s) /\ \A q \in Requests : s \notin req[q].took
                         THEN @ \cup {s} ELSE @])
  /\ UNCHANGED tables

\* Each row, in whatever order the plan gives, is waited for, and revoked if
\* nobody has.
RevokeRow(r) ==
  /\ req[r].at = "rows"
  /\ \E s \in req[r].todo :
       /\ \A q \in Requests \ {r} : s \notin req[q].took
       /\ Set(r, [req[r] EXCEPT !.todo = @ \ {s}, !.took = IF Active(s) THEN @ \cup {s} ELSE @])
  /\ UNCHANGED tables

AllRevoked(r) ==
  /\ req[r].at = "rows" /\ req[r].todo = {}
  /\ Goto(r, "commit")
  /\ UNCHANGED tables

\* The end of a transaction on sessions.  Its confirmation may be lost.
Commit(r) ==
  /\ req[r].at = "commit"
  /\ sessions' = sessions \cup IF req[r].op \in Issuing THEN {r} ELSE {}
  /\ revoked_at' = [x \in DOMAIN revoked_at |->
       IF x \in req[r].took THEN r ELSE revoked_at[x]]
  /\ password' = [password EXCEPT ![req[r].user] =
                   IF req[r].op = "ChangePassword" THEN r ELSE @]
  /\ \E status \in {"ok", "failed"} : Answer(r, status)
  /\ UNCHANGED <<username, keys, last_used_at>>

-----------------------------------------------------------------------------
(* API keys: one statement each, which waits for its row and commits *)

StartKey(r, op, u, k) ==
  /\ ComesIn(r) /\ KnowsToken(u)
  /\ Set(r, [Fresh EXCEPT !.op = op, !.at = "write", !.user = u, !.token = k])
  /\ UNCHANGED tables

CreateAPIKey(r) ==
  /\ req[r].at = "write" /\ req[r].op = "CreateAPIKey"
  /\ keys' = keys \cup {r}
  /\ \E status \in {"ok", "failed"} : Answer(r, status)
  /\ UNCHANGED <<username, password, sessions, revoked_at, last_used_at>>

\* Only an active key of the caller; otherwise 404.
RevokeAPIKey(r) ==
  LET k == req[r].token
      mine == k \in keys /\ OwnerOf(k) = req[r].user /\ Active(k)
  IN  /\ req[r].at = "write" /\ req[r].op = "RevokeAPIKey"
      /\ revoked_at' = [revoked_at EXCEPT ![k] = IF mine THEN r ELSE @]
      /\ \E status \in {"ok", "failed"} : IF mine THEN Answer(r, status) ELSE Abort(r, "missing")
      /\ UNCHANGED <<username, password, sessions, keys, last_used_at>>

\* A call of any route with a key.
StartUseKey(r, k) ==
  /\ ComesIn(r)
  /\ Set(r, [Fresh EXCEPT !.op = "UseKey", !.at = "lookup", !.token = k])
  /\ UNCHANGED tables

\* authenticateAPIKey: GetActiveAPIKeyByHash; a key is no access token, so
\* AuthMiddleware answers 401 for one that is not found.
LookupKey(r) ==
  /\ req[r].at = "lookup" /\ req[r].op = "UseKey"
  /\ IF req[r].token \in keys /\ Active(req[r].token)
     THEN Set(r, [req[r] EXCEPT !.user = OwnerOf(req[r].token), !.at = "touch"])
     ELSE Abort(r, "unauthorized")
  /\ UNCHANGED tables

\* Slip: WHERE id = ... only.
TouchAPIKey_Any(r) ==
  LET k == req[r].token
  IN  /\ req[r].at = "touch"
      /\ last_used_at' = [last_used_at EXCEPT ![k] = r]
      /\ \E status \in {"ok", "failed"} : Abort(r, status)
      /\ UNCHANGED <<username, password, sessions, revoked_at, keys>>

\* TouchAPIKey, which a key revoked since the lookup does not stop.
TouchAPIKey(r) ==
  LET k == req[r].token
  IN  /\ req[r].at = "touch"
      /\ last_used_at' = [last_used_at EXCEPT ![k] = IF Active(k) THEN r ELSE @]
      /\ \E status \in {"ok", "failed"} : Abort(r, status)
      /\ UNCHANGED <<username, password, sessions, revoked_at, keys>>

-----------------------------------------------------------------------------

\* The 30 s timeout cancels any statement, and its transaction rolls back.
Timeout(r) == ~Free(r) /\ Abort(r, "failed") /\ UNCHANGED tables

\* A set of requests each of which waits for one of them.
Deadlocked(S) == S # {} /\ \A r \in S : \E s \in S : WaitsFor(r, s)

\* PostgreSQL's detector aborts one of them.
DeadlockVictim(r) == (\E S \in SUBSET Requests : r \in S /\ Deadlocked(S)) /\ Timeout(r)

Start(r) ==
  \/ \E x \in Names : StartRegister(r, x) \/ StartLogin(r, x)
  \/ \E u \in Users, x \in Names : StartUpdateProfile(r, u, x)
  \/ \E s \in SentSessions : StartRefresh(r, s)
  \/ \E u \in Users : StartLogout(r, u)
  \/ \E u \in Users, p \in Passwords : StartChangePassword(r, u, p)
  \/ \E u \in Users : StartKey(r, "CreateAPIKey", u, None)
  \/ \E u \in Users, k \in keys : StartKey(r, "RevokeAPIKey", u, k)
  \/ \E k \in SentKeys : StartUseKey(r, k)

Step(r) ==
  \/ LockProfile(r) \/ EnterName(r) \/ CommitUser(r)
  \/ \E p \in Passwords : LookupName(r, p)
  \/ LookupSession(r) \/ RevokeSession(r) \/ CreateSession(r)
  \/ ComparePassword(r) \/ UpdatePassword(r)
  \/ ScanSessions(r) \/ RevokeRow(r) \/ AllRevoked(r) \/ Commit(r)
  \/ CreateAPIKey(r) \/ RevokeAPIKey(r) \/ LookupKey(r) \/ TouchAPIKey(r)

Init ==
  /\ username = [u \in Users |-> IF u \in OldUsers THEN OldName[u] ELSE None]
  /\ password = [u \in Users |-> None]
  /\ sessions = OldSessions /\ keys = OldKeys
  /\ revoked_at = [x \in Sessions \cup Keys |-> None]
  /\ last_used_at = [k \in Keys |-> None]
  /\ req = [r \in Requests |-> Fresh]

Next == \E r \in Requests : Start(r) \/ Step(r) \/ Timeout(r) \/ DeadlockVictim(r)

Spec == Init /\ [][Next]_vars

\* As long as some request can go on, or is in a deadlock, one goes on or is
\* aborted.  That is enough, because every request takes finitely many steps.
FairSpec == Spec /\ WF_vars(\E r \in Requests : Step(r) \/ DeadlockVictim(r))

-----------------------------------------------------------------------------
(* Properties *)

Ops == {"none", "Register", "UpdateProfile", "Login", "Refresh", "Logout",
        "ChangePassword", "CreateAPIKey", "RevokeAPIKey", "UseKey"}
Points == {"idle", "row", "name", "keep", "lookup", "revoke", "issue", "scan", "rows",
           "commit", "write", "touch", "done"}
Statuses == {"none", "ok", "conflict", "unauthorized", "missing", "failed"}
Requested ==
  [op: Ops, at: Points, status: Statuses, user: Users \cup {None}, name: Names \cup {None},
   token: Sessions \cup Keys \cup {None},
   before: SUBSET Sessions, todo: SUBSET Sessions, took: SUBSET Sessions]

\* The tables and the requests have the types their columns and variables
\* declare.
TypeOK ==
  /\ username \in [Users -> Names \cup {None}]
  /\ password \in [Users -> Requests \cup {None}]
  /\ sessions \subseteq Sessions /\ keys \subseteq Keys
  /\ revoked_at \in [Sessions \cup Keys -> Requests \cup {None}]
  /\ last_used_at \in [Keys -> Requests \cup {None}]
  /\ req \in [Requests -> Requested]

\* No two users have one name, although names are taken, changed and given
\* up by calls that overlap.
NamesUnique ==
  \A u, v \in Users : username[u] = username[v] /\ username[u] # None => u = v

\* A session that a Refresh has issued replaces the one it was issued for:
\* the two are never active together, whoever else revokes, fails or rolls
\* back meanwhile.
RefreshReplaces ==
  \A r \in sessions \cap Requests : req[r].op = "Refresh" => ~Active(req[r].token)

\* Logout answered with success, and every password that a ChangePassword has
\* put in force, answered or not, end all sessions that were there when the
\* call came in, also those that other requests were refreshing.
AllSessionsEnded ==
  \A r \in Requests :
    (req[r].op = "Logout" /\ req[r].status = "ok")
      \/ (req[r].op = "ChangePassword" /\ password[req[r].user] = r)
    => \A s \in req[r].before : ~Active(s)

\* Requests that wait for each other end all sessions of one user, or
\* exchange usernames.
DeadlockNeedsTwoOfAKind ==
  \A S \in SUBSET Requests : Deadlocked(S) =>
    \E r, s \in S :
      /\ r # s
      /\ \/ {req[r].op, req[s].op} \subseteq RevokingAll /\ req[r].user = req[s].user
         \/ Renames(r) /\ Renames(s)

\* A session or key ends once, by a call of its own user, and a key is not
\* used after that, although calls look it up before.
EndsOnceByOwner ==
  /\ \A x \in Sessions \cup Keys : revoked_at'[x] # revoked_at[x] =>
       Active(x) /\ req[revoked_at'[x]].user = OwnerOf(x)
  /\ \A k \in Keys : last_used_at'[k] # last_used_at[k] => Active(k)
EndedOnceByOwner == [][EndsOnceByOwner]_vars

\* Every call is answered, although calls wait for each other's rows, names
\* and sessions.
EveryCallAnswered == \A r \in Requests : ~Free(r) ~> req[r].at = "done"
=============================================================================
