------------------------------ MODULE Accounts ------------------------------
(***************************************************************************)
(* Users, browser sessions and API keys (internal/storage/users.go and     *)
(* sessions.go) under the concurrent requests of the JSON API and of the   *)
(* web pages, and the two ways the first administrator comes to be: at     *)
(* process start and over POST /v1/users.                                  *)
(*                                                                         *)
(* A request is a short program: it authenticates, which takes a snapshot  *)
(* of its user's role, and then issues one SQL statement per step.  A      *)
(* password is a version number, 0 the empty hash of the placeholder row   *)
(* that migration 0009 seeds.  The user names that matter are the one in   *)
(* ADMIN_USERNAME (variable env says which row has it) and "any other".    *)
(***************************************************************************)
EXTENDS Naturals, FiniteSets

CONSTANTS Users,        \* row ids; a deleted id is never given out again
          Placeholder,  \* the row with id 1
          Sids, Keys,   \* session ids and API keys, each used once
          Reqs,         \* requests and starting processes in flight
          NoOne,
          MaxPw,        \* bound: passwords set in one behaviour
          Mixes         \* which handlers a behaviour exercises, and its users

ASSUME AccountsAssumption ==
  /\ Placeholder \in Users /\ NoOne \notin Users \cup Reqs \cup Sids /\ MaxPw \in Nat \ {0}
  /\ \A m \in Mixes :
       /\ m.role \in [Users -> {"reader", "editor", "admin", "none", "gone"}]
       /\ \A k \in Keys \cap m.keys : m.owner[k] \in Users /\ m.role[m.owner[k]] \notin {"none", "gone"}

VARIABLES role,    \* role[u], "none" before the row exists and "gone" after
          pw,      \* pw[u], the version of the password hash
          env,     \* the row whose username is ADMIN_USERNAME
          sess, key,
          req,     \* req[r], where request r stands
          lock,    \* holder of the advisory lock userAdminLockKey
          vers,    \* the last password version given out
          excused, \* ghost: sessions a failed revocation left behind
          late,    \* ghost: sessions opened by a login that overlapped a password change
          mix

vars == <<role, pw, env, sess, key, req, lock, vers, excused, late, mix>>
store == <<role, pw, env, sess, key, lock, vers, excused, late, mix>>

Roles == {"reader", "editor", "admin"}
Scopes == {"read", "write", "admin"}
Exists(u) == role[u] \in Roles

\* RoleAtLeast, auth/role.go: roles are ordered, an unknown one grants nothing.
Rank == [x \in Roles |-> CASE x = "reader" -> 1 [] x = "editor" -> 2 [] x = "admin" -> 3]
RoleAtLeast(have, want) == have \in Roles /\ Rank[have] >= Rank[want]

\* ScopeAllows, auth/scope.go, on the three kinds of request it tells apart.
ScopeAllows(scope, kind) ==
  \/ scope = "admin"
  \/ kind = "safe"
  \/ scope = "write" /\ kind = "entry_state"

LoginCapable == {u \in Users : Exists(u) /\ pw[u] # 0}
CountLoginCapableUsers == Cardinality(LoginCapable)
Admins == {u \in LoginCapable : role[u] = "admin"}

IdleReq == [at |-> "idle", who |-> NoOne, role |-> "none", sid |-> NoOne, api |-> FALSE,
            tgt |-> NoOne, give |-> "keep", newpw |-> FALSE, own |-> FALSE, seen |-> 0]
NoSession == [user |-> NoOne, pw |-> 0, age |-> "unused"]
NoKey     == [user |-> NoOne, scope |-> "admin", age |-> "unused"]
Open(s)   == sess[s].age \in {"fresh", "old"}
Live(k)   == key[k].age = "live"

Steps == {"idle", "authed", "login", "count", "lock", "write", "delete", "revoke",
          "byname", "byid", "adopt", "new", "gate"}

SessionRows == [user : Users \cup {NoOne}, pw : 0..MaxPw, age : {"unused", "fresh", "old", "expired", "gone"}]
KeyRows == [user : Users \cup {NoOne}, scope : Scopes, age : {"unused", "live", "expired", "gone"}]
Requests == [at : Steps, who : Users \cup {NoOne}, role : Roles \cup {"none"}, sid : Sids \cup {NoOne}, api : BOOLEAN,
             tgt : Users \cup {NoOne}, give : Roles \cup {"keep"}, newpw : BOOLEAN, own : BOOLEAN, seen : 0..MaxPw]

\* Accounts, sessions, keys and requests have their types.
TypeOK ==
  /\ role \in [Users -> Roles \cup {"none", "gone"}]
  /\ pw \in [Users -> 0..MaxPw]
  /\ env \in Users \cup {NoOne}
  /\ sess \in [Sids -> SessionRows]
  /\ key \in [Keys -> KeyRows]
  /\ req \in [Reqs -> Requests]
  /\ lock \in Reqs \cup {NoOne}
  /\ vers \in 0..MaxPw
  /\ excused \subseteq Sids /\ late \subseteq Sids
  /\ mix \in Mixes

\* A database with the accounts and keys of the mix, nobody signed in.
Init ==
  /\ mix \in Mixes
  /\ role = mix.role
  /\ pw = [u \in Users |-> IF Exists(u) /\ u \notin mix.empty THEN 1 ELSE 0]
  /\ env = NoOne
  /\ sess = [s \in Sids |-> NoSession]
  /\ key = [k \in Keys |-> IF k \in mix.keys THEN [user |-> mix.owner[k], scope |-> "admin", age |-> "live"]
                                             ELSE NoKey]
  /\ req = [r \in Reqs |-> IdleReq]
  /\ lock = NoOne
  /\ vers = 1
  /\ excused = {} /\ late = {}

On(op) == op \in mix.ops
Finish(r) == req' = [req EXCEPT ![r] = IdleReq]
Unlocked(r) == IF lock = r THEN NoOne ELSE lock
\* isLastLoginCapableAdmin reads its row FOR UPDATE: other writers wait.
RowFree(r, u) == \A q \in Reqs \ {r} : lock = q => req[q].tgt # u
\* ON DELETE CASCADE of sessions and api_keys.
CascadeSessions(u) == [s \in Sids |-> IF sess[s].user = u /\ Open(s) THEN [sess[s] EXCEPT !.age = "gone"] ELSE sess[s]]
CascadeKeys(u) == [k \in Keys |-> IF key[k].user = u /\ Live(k) THEN [key[k] EXCEPT !.age = "gone"] ELSE key[k]]

-----------------------------------------------------------------------------
(* Sessions: sign in, sign out, sliding expiry and its cleanup.            *)

\* handleLoginPost reads the row and checks the password against the hash it
\* read; VerifyLogin refuses an empty hash.
LoginVerify(r, u) ==
  /\ On("login") /\ req[r].at = "idle" /\ u \in LoginCapable
  /\ req' = [req EXCEPT ![r].at = "login", ![r].who = u, ![r].seen = pw[u]]
  /\ UNCHANGED store

\* CreateSession: the foreign key refuses a user that is gone by now.
CreateSession(r, s) ==
  /\ req[r].at = "login" /\ sess[s].age = "unused"
  /\ LET u == req[r].who IN
     IF Exists(u)
     THEN /\ sess' = [sess EXCEPT ![s] = [user |-> u, pw |-> req[r].seen, age |-> "fresh"]]
          /\ late' = IF req[r].seen # pw[u] THEN late \cup {s} ELSE late
     ELSE UNCHANGED <<sess, late>>
  /\ Finish(r)
  /\ UNCHANGED <<role, pw, env, key, lock, vers, excused, mix>>

\* handleLogout deletes the session of its cookie, authenticated or not.
handleLogout(s) ==
  /\ On("logout") /\ sess[s].age \in {"fresh", "old", "expired"}
  /\ sess' = [sess EXCEPT ![s].age = "gone"]
  /\ UNCHANGED <<role, pw, env, key, req, lock, vers, excused, late, mix>>

\* SessionNeedsTouch: only a session that has aged is written back.
TouchSession(s) == [sess EXCEPT ![s].age = IF @ = "old" THEN "fresh" ELSE @]

Age(s) ==
  /\ On("age") /\ Open(s)
  /\ sess' = [sess EXCEPT ![s].age = IF @ = "fresh" THEN "old" ELSE "expired"]
  /\ UNCHANGED <<role, pw, env, key, req, lock, vers, excused, late, mix>>

DeleteExpiredSessions ==
  /\ \E s \in Sids : sess[s].age = "expired"
  /\ sess' = [s \in Sids |-> IF sess[s].age = "expired" THEN [sess[s] EXCEPT !.age = "gone"] ELSE sess[s]]
  /\ UNCHANGED <<role, pw, env, key, req, lock, vers, excused, late, mix>>

ExpireKey(k) ==
  /\ On("keys") /\ Live(k)
  /\ key' = [key EXCEPT ![k].age = "expired"]
  /\ UNCHANGED <<role, pw, env, sess, req, lock, vers, excused, late, mix>>

-----------------------------------------------------------------------------
(* Authentication: LookupSession or LookupAPIKey, then GetUser; the role   *)
(* the handler checks is the one read here.                                *)

Principal(r, u, s, api) ==
  req' = [req EXCEPT ![r] = [IdleReq EXCEPT !.at = "authed", !.who = u, !.role = role[u], !.sid = s, !.api = api]]

\* authenticate and requireAuth of the pages.
authenticate(r, s) ==
  /\ On("ui") /\ req[r].at = "idle" /\ Open(s) /\ Exists(sess[s].user)
  /\ Principal(r, sess[s].user, s, FALSE)
  /\ sess' = TouchSession(s)
  /\ UNCHANGED <<role, pw, env, key, lock, vers, excused, late, mix>>

\* authenticateSession: the same lookup for an API call that carries the cookie.
authenticateSession(r, s) ==
  /\ On("api") /\ req[r].at = "idle" /\ Open(s) /\ Exists(sess[s].user)
  /\ Principal(r, sess[s].user, s, TRUE)
  /\ sess' = TouchSession(s)
  /\ UNCHANGED <<role, pw, env, key, lock, vers, excused, late, mix>>

\* authenticateRequestSource by a header token, and wrapAPI's scope check of a
\* state-changing call.
authenticateRequestSource(r, k) ==
  /\ On("api") /\ req[r].at = "idle" /\ Live(k) /\ Exists(key[k].user)
  /\ ScopeAllows(key[k].scope, "change")
  /\ Principal(r, key[k].user, NoOne, TRUE)
  /\ UNCHANGED store

Authed(r, api) == req[r].at = "authed" /\ req[r].api = api
\* requireRole, context.go and ui/auth.go.
requireRole(r, want) == RoleAtLeast(req[r].role, want)

-----------------------------------------------------------------------------
(* storage.UpdateUser, DeleteUser and CreateUser, statement by statement.  *)

\* A change that takes a role away goes through the advisory lock first.
UpdateUser(r, u, give, newpw, own) ==
  /\ newpw => vers < MaxPw
  /\ req' = [req EXCEPT ![r].at = IF give \in {"keep", "admin"} THEN "write" ELSE "lock",
                        ![r].tgt = u, ![r].give = give, ![r].newpw = newpw, ![r].own = own]
  /\ UNCHANGED store

isLastLoginCapableAdmin(u) == u \in Admins /\ Admins = {u}

MutLockAdmins(r) ==
  /\ req[r].at = "lock" /\ ~isLastLoginCapableAdmin(req[r].tgt)
  /\ lock' = r
  /\ req' = [req EXCEPT ![r].at = IF req[r].give = "keep" THEN "delete" ELSE "write"]
  /\ UNCHANGED <<role, pw, env, sess, key, vers, excused, late, mix>>

\* pg_advisory_xact_lock, then the check under it; a missing row or the last
\* administrator ends the transaction.
LockAdmins(r) ==
  /\ req[r].at = "lock" /\ lock = NoOne
  /\ LET u == req[r].tgt IN
     IF Exists(u) /\ ~isLastLoginCapableAdmin(u)
     THEN /\ lock' = r
          /\ req' = [req EXCEPT ![r].at = IF req[r].give = "keep" THEN "delete" ELSE "write"]
     ELSE Finish(r) /\ UNCHANGED lock
  /\ UNCHANGED <<role, pw, env, sess, key, vers, excused, late, mix>>

\* The UPDATE and its commit; the session it came from counts as signed in
\* with the new password when it is the user's own change.
WriteUser(r) ==
  LET u == req[r].tgt
      v == vers + 1
  IN /\ req[r].at = "write" /\ RowFree(r, u)
     /\ req[r].newpw => vers < MaxPw
     /\ lock' = Unlocked(r)
     /\ IF Exists(u)
        THEN /\ role' = [role EXCEPT ![u] = IF req[r].give = "keep" THEN @ ELSE req[r].give]
             /\ IF req[r].newpw
                THEN /\ pw' = [pw EXCEPT ![u] = v] /\ vers' = v
                     /\ req' = [req EXCEPT ![r].at = "revoke"]
                     /\ sess' = IF req[r].own /\ req[r].sid # NoOne
                                THEN [sess EXCEPT ![req[r].sid].pw = v] ELSE sess
                ELSE Finish(r) /\ UNCHANGED <<pw, vers, sess>>
        ELSE Finish(r) /\ UNCHANGED <<role, pw, vers, sess>>
     /\ UNCHANGED <<env, key, excused, late, mix>>

DeleteRow(r) ==
  LET u == req[r].tgt IN
  /\ req[r].at = "delete" /\ lock = r
  /\ role' = [role EXCEPT ![u] = "gone"]
  /\ pw' = [pw EXCEPT ![u] = 0]
  /\ env' = IF env = u THEN NoOne ELSE env
  /\ sess' = CascadeSessions(u)
  /\ key' = CascadeKeys(u)
  /\ lock' = NoOne
  /\ Finish(r)
  /\ UNCHANGED <<vers, excused, late, mix>>

MutRevoked(r) ==
  [s \in Sids |-> IF sess[s].user = req[r].tgt /\ Open(s) /\ s # req[r].sid
                  THEN [sess[s] EXCEPT !.age = "gone"] ELSE sess[s]]

\* DeleteUserSessions, or DeleteUserSessionsExcept for the user's own change.
Revoked(r) ==
  [s \in Sids |-> IF sess[s].user = req[r].tgt /\ Open(s) /\ ~(req[r].own /\ s = req[r].sid)
                  THEN [sess[s] EXCEPT !.age = "gone"] ELSE sess[s]]
Revoke(r) ==
  /\ req[r].at = "revoke"
  /\ sess' = Revoked(r)
  /\ Finish(r)
  /\ UNCHANGED <<role, pw, env, key, lock, vers, excused, late, mix>>

\* A failed statement: the transaction rolls back.  A failed revocation is
\* only logged, the password stays changed.
Fail(r) ==
  /\ On("fail") /\ req[r].at \notin {"idle", "authed"}
  /\ excused' = IF req[r].at = "revoke"
                THEN excused \cup {s \in Sids : Open(s) /\ sess[s].user = req[r].tgt} ELSE excused
  /\ lock' = Unlocked(r)
  /\ Finish(r)
  /\ UNCHANGED <<role, pw, env, sess, key, vers, late, mix>>

\* The handler answers 400 or 403: a bad body, or a role too low.
Refuse(r) == req[r].at = "authed" /\ Finish(r) /\ UNCHANGED store

\* INSERT INTO users: a fresh id; the username is unique.
Insert(u, give, isEnv) ==
  /\ role[u] = "none" /\ vers < MaxPw
  /\ isEnv => env = NoOne
  /\ role' = [role EXCEPT ![u] = give]
  /\ pw' = [pw EXCEPT ![u] = vers + 1]
  /\ vers' = vers + 1
  /\ env' = IF isEnv THEN u ELSE env

-----------------------------------------------------------------------------
(* The handlers of the API and of the pages.                               *)

\* Demoting yourself is refused before the store is asked.
handleUpdateUser(r, u, give, newpw) ==
  /\ On("admin") /\ Authed(r, TRUE) /\ requireRole(r, "admin")
  /\ give # "keep" \/ newpw
  /\ give \in {"keep", "admin"} \/ u # req[r].who
  /\ UpdateUser(r, u, give, newpw, FALSE)

handleAdminUserRole(r, u, give) ==
  /\ On("admin") /\ Authed(r, FALSE) /\ requireRole(r, "admin")
  /\ give = "admin" \/ u # req[r].who
  /\ UpdateUser(r, u, give, FALSE, FALSE)

handleAdminUserPassword(r, u) ==
  /\ On("reset") /\ Authed(r, FALSE) /\ requireRole(r, "admin")
  /\ UpdateUser(r, u, "keep", TRUE, FALSE)

BeginDelete(r, u) ==
  /\ On("admin") /\ requireRole(r, "admin") /\ u # req[r].who
  /\ req' = [req EXCEPT ![r].at = "lock", ![r].tgt = u, ![r].give = "keep"]
  /\ UNCHANGED store
handleDeleteUser(r, u) == Authed(r, TRUE) /\ BeginDelete(r, u)
handleAdminUserDelete(r, u) == Authed(r, FALSE) /\ BeginDelete(r, u)

\* handleCreateUser of an authenticated caller; the unauthenticated branch is
\* BootstrapGate and BootstrapCount.
handleCreateUser(r, u, give) ==
  /\ On("create") /\ Authed(r, TRUE) /\ requireRole(r, "admin")
  /\ Insert(u, give, FALSE) /\ Finish(r)
  /\ UNCHANGED <<sess, key, lock, excused, late, mix>>
handleAdminUserCreate(r, u, give) ==
  /\ On("create") /\ Authed(r, FALSE) /\ requireRole(r, "admin")
  /\ Insert(u, give, FALSE) /\ Finish(r)
  /\ UNCHANGED <<sess, key, lock, excused, late, mix>>

\* handleUpdateMe checks the current password against the row it reads; an
\* account without one goes on to count who can sign in.
handleUpdateMe(r) ==
  /\ On("me") /\ Authed(r, TRUE)
  /\ IF ~Exists(req[r].who) THEN Finish(r) /\ UNCHANGED store
     ELSE IF pw[req[r].who] = 0
     THEN req' = [req EXCEPT ![r].at = "count"] /\ UNCHANGED store
     ELSE UpdateUser(r, req[r].who, "keep", TRUE, TRUE)
FirstPassword(r) ==
  /\ req[r].at = "count"
  /\ IF CountLoginCapableUsers = 0
     THEN UpdateUser(r, req[r].who, "keep", TRUE, TRUE)
     ELSE Finish(r) /\ UNCHANGED store

\* handleSettingsPassword: a browser session, hence an account with a password.
handleSettingsPassword(r) ==
  /\ On("me") /\ Authed(r, FALSE)
  /\ IF Exists(req[r].who) THEN UpdateUser(r, req[r].who, "keep", TRUE, TRUE)
                           ELSE Finish(r) /\ UNCHANGED store

handleSettingsLogoutOthers(r) ==
  /\ On("logout") /\ Authed(r, FALSE)
  /\ sess' = [s \in Sids |-> IF sess[s].user = req[r].who /\ Open(s) /\ s # req[r].sid
                             THEN [sess[s] EXCEPT !.age = "gone"] ELSE sess[s]]
  /\ Finish(r)
  /\ UNCHANGED <<role, pw, env, key, lock, vers, excused, late, mix>>

CreateAPIKey(r, k, scope) ==
  /\ On("keys") /\ key[k].age = "unused"
  /\ key' = IF Exists(req[r].who) THEN [key EXCEPT ![k] = [user |-> req[r].who, scope |-> scope, age |-> "live"]]
                                  ELSE key
  /\ Finish(r)
  /\ UNCHANGED <<role, pw, env, sess, lock, vers, excused, late, mix>>
handleCreateAPIKey(r, k, scope) == Authed(r, TRUE) /\ CreateAPIKey(r, k, scope)
handleAPIKeyCreate(r, k, scope) == Authed(r, FALSE) /\ CreateAPIKey(r, k, scope)

\* DELETE ... WHERE id AND user_id: only the owner's key goes.
DeleteAPIKey(r, k) ==
  /\ On("keys") /\ key[k].user = req[r].who /\ key[k].age \in {"live", "expired"}
  /\ key' = [key EXCEPT ![k].age = "gone"]
  /\ Finish(r)
  /\ UNCHANGED <<role, pw, env, sess, lock, vers, excused, late, mix>>
handleDeleteAPIKey(r, k) == Authed(r, TRUE) /\ DeleteAPIKey(r, k)
handleAPIKeyDelete(r, k) == Authed(r, FALSE) /\ DeleteAPIKey(r, k)

-----------------------------------------------------------------------------
(* The first administrator.                                                *)

\* wrapAPI lets POST /v1/users through while nobody can sign in ...
allowBootstrapCreateUser(r) ==
  /\ On("boot") /\ req[r].at = "idle" /\ CountLoginCapableUsers = 0
  /\ req' = [req EXCEPT ![r].at = "gate"]
  /\ UNCHANGED store
\* ... and the handler counts again before it inserts the environment's admin.
BootstrapCount(r) ==
  /\ req[r].at = "gate"
  /\ IF CountLoginCapableUsers = 0 THEN req' = [req EXCEPT ![r].at = "new"] ELSE Finish(r)
  /\ UNCHANGED store
\* CreateUser for the environment's admin; a duplicate username is an answer.
InsertEnv(r, u) ==
  /\ req[r].at = "new"
  /\ IF env = NoOne THEN Insert(u, "admin", TRUE) ELSE UNCHANGED <<role, pw, vers, env>>
  /\ Finish(r)
  /\ UNCHANGED <<sess, key, lock, excused, late, mix>>

\* EnsureBootstrapAdmin at process start: count, look for the username, look
\* for row 1, insert.
EnsureBootstrapAdmin(r) ==
  /\ On("boot") /\ req[r].at = "idle" /\ CountLoginCapableUsers = 0
  /\ req' = [req EXCEPT ![r].at = "byname"]
  /\ UNCHANGED store
BootByName(r) ==
  /\ req[r].at = "byname"
  /\ req' = IF env # NoOne /\ pw[env] = 0
            THEN [req EXCEPT ![r].at = "adopt", ![r].tgt = env]
            ELSE [req EXCEPT ![r].at = "byid"]
  /\ UNCHANGED store
BootById(r) ==
  /\ req[r].at = "byid"
  /\ req' = IF Exists(Placeholder) /\ pw[Placeholder] = 0
            THEN [req EXCEPT ![r].at = "adopt", ![r].tgt = Placeholder]
            ELSE [req EXCEPT ![r].at = "new"]
  /\ UNCHANGED store
\* The UPDATE repeats the emptiness check; a duplicate username fails it.
Adoptable(u) == Exists(u) /\ pw[u] = 0 /\ env \in {NoOne, u}
adoptPlaceholderAdmin(r) ==
  LET u == req[r].tgt IN
  /\ req[r].at = "adopt" /\ RowFree(r, u)
  /\ IF Adoptable(u)
     THEN /\ vers < MaxPw
          /\ role' = [role EXCEPT ![u] = "admin"]
          /\ pw' = [pw EXCEPT ![u] = vers + 1]
          /\ vers' = vers + 1
          /\ env' = u
     ELSE UNCHANGED <<role, pw, vers, env>>
  /\ Finish(r)
  /\ UNCHANGED <<sess, key, lock, excused, late, mix>>

-----------------------------------------------------------------------------
Next ==
  \/ \E r \in Reqs :
       \/ \E u \in Users : LoginVerify(r, u)
       \/ \E s \in Sids : CreateSession(r, s) \/ authenticate(r, s) \/ authenticateSession(r, s)
       \/ \E k \in Keys : authenticateRequestSource(r, k)
       \/ LockAdmins(r) \/ WriteUser(r) \/ DeleteRow(r) \/ Revoke(r) \/ Fail(r) \/ Refuse(r)
       \/ \E u \in Users, g \in Roles \cup {"keep"}, b \in BOOLEAN : handleUpdateUser(r, u, g, b)
       \/ \E u \in Users, g \in Roles : handleAdminUserRole(r, u, g)
       \/ \E u \in Users : handleAdminUserPassword(r, u) \/ handleDeleteUser(r, u) \/ handleAdminUserDelete(r, u)
       \/ \E u \in Users, g \in Roles : handleCreateUser(r, u, g) \/ handleAdminUserCreate(r, u, g)
       \/ handleUpdateMe(r) \/ FirstPassword(r) \/ handleSettingsPassword(r) \/ handleSettingsLogoutOthers(r)
       \/ \E k \in Keys, c \in Scopes : handleCreateAPIKey(r, k, c) \/ handleAPIKeyCreate(r, k, c)
       \/ \E k \in Keys : handleDeleteAPIKey(r, k) \/ handleAPIKeyDelete(r, k)
       \/ allowBootstrapCreateUser(r) \/ BootstrapCount(r) \/ EnsureBootstrapAdmin(r)
       \/ \E u \in Users : InsertEnv(r, u)
       \/ BootByName(r) \/ BootById(r) \/ adoptPlaceholderAdmin(r)
  \/ \E s \in Sids : handleLogout(s) \/ Age(s)
  \/ \E k \in Keys : ExpireKey(k)
  \/ DeleteExpiredSessions

Spec == Init /\ [][Next]_vars

-----------------------------------------------------------------------------
(* Properties.                                                             *)

\* Once somebody can administer the instance somebody always can: demotions
\* and deletions that run at the same time never each count on the other's
\* administrator (UpdateUser, DeleteUser and their advisory lock).
AdminRemains == [][Admins # {} => Admins' # {}]_vars

\* A revocation that still has to run for the user of session s.
RevocationPending(s) ==
  \E r \in Reqs : req[r].at = "revoke" /\ req[r].tgt = sess[s].user /\ ~(req[r].own /\ req[r].sid = s)
Current(s) == sess[s].pw = pw[sess[s].user]

\* A password change leaves no session that was opened with an older password,
\* whatever changes and logins run at the same time, except where the
\* revocation itself failed or the login overlapped the change.
SessionsCurrent ==
  \A s \in Sids : Open(s) => Current(s) \/ RevocationPending(s) \/ s \in excused \cup late

\* Deleting an account takes its sessions and keys with it, also those that a
\* request already past its checks is about to create.
NoGhostAccess ==
  /\ \A s \in Sids : Open(s) => Exists(sess[s].user)
  /\ \A k \in Keys : Live(k) => Exists(key[k].user)

\* Starting processes that all found row 1 without a password give it one only
\* once: what was set in between stays (adoptPlaceholderAdmin).
BootstrapFillsEmpty ==
  [][\A u \in Users : pw[u] # 0 /\ pw'[u] # pw[u] => \E r \in Reqs : req[r].at \in {"write", "delete"}
                                                                /\ req'[r].at # req[r].at]_vars

\* Sessions and keys open an account only for who may still use it.
AccessCurrent == TypeOK /\ SessionsCurrent /\ NoGhostAccess

\* Somebody administers the instance, and no start takes that over.
AdminsSafe == AdminRemains /\ BootstrapFillsEmpty
=============================================================================
