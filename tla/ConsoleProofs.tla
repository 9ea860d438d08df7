--------------------------- MODULE ConsoleProofs ----------------------------
(***************************************************************************)
(* Proofs about what users, administrators and editors work with.          *)
(* Accounts: an instance that has an administrator keeps one, and sessions *)
(* and keys open an account only for who may still use it.  Schedule and   *)
(* FeedPanel: when a feed is polled next, and what the panel says of it    *)
(* and of the pool.  WebhookAdmin: the settings of a webhook keep what     *)
(* nobody changed, and its counters tell how deliveries ended.  All for    *)
(* any users, requests, plans, loads, editors and changes.                 *)
(***************************************************************************)
EXTENDS Accounts, FeedPanel, WebhookAdmin, FiniteSetTheorems, NaturalsInduction, WellFoundedInduction, TLAPS

(***************************************************************************)
(* What a request remembers stays true of the tables: the session it came  *)
(* with belongs to its user, a user's own change is about that user, and   *)
(* a login that checked a password is for an account that has one.         *)
(***************************************************************************)
RequestOK(r) ==
  /\ req[r].at = "idle" => req[r] = IdleReq
  /\ req[r].at \in {"authed", "login", "count"} => req[r].who \in Users
  /\ req[r].at \in {"lock", "write", "delete", "revoke", "adopt"} => req[r].tgt \in Users
  /\ req[r].sid # NoOne => sess[req[r].sid].user = req[r].who /\ sess[req[r].sid].age # "unused"
  /\ req[r].own => req[r].at \in {"write", "revoke"} /\ req[r].tgt = req[r].who
  /\ req[r].at = "login" /\ Exists(req[r].who) => pw[req[r].who] # 0

\* A session or a key that was given out names its user, an open session an
\* account with a password, and only an account has a password.
RowsOK ==
  /\ \A s \in Sids : sess[s].age # "unused" => sess[s].user \in Users
  /\ \A s \in Sids : Open(s) => pw[sess[s].user] # 0
  /\ \A k \in Keys : Live(k) => key[k].user \in Users
  /\ \A u \in Users : pw[u] # 0 => Exists(u)

\* Who may take an administrator away holds the lock, and found another
\* administrator under it: nobody else writes the row meanwhile.
LockOK(r) ==
  /\ lock = r => req[r].at \in {"write", "delete"} /\ Exists(req[r].tgt) /\ Admins # {req[r].tgt}
  /\ req[r].at = "delete" => lock = r
  /\ req[r].at = "write" /\ req[r].give \notin {"keep", "admin"} => lock = r

Bound == /\ \A r \in Reqs : RequestOK(r)
         /\ RowsOK
Locked == \A r \in Reqs : LockOK(r)
AInv == AccessCurrent /\ Bound /\ Locked

USE AccountsAssumption DEF Roles, Scopes

(***************************************************************************)
(* What most steps have in common                                          *)
(***************************************************************************)
\* Request r moves on to x, and no other request moves.
Moves(r, x) == x \in Requests /\ req' = [req EXCEPT ![r] = x]

\* Sessions may close or be touched, but keep their user ...
Tame ==
  \A s \in Sids : /\ sess'[s].user = sess[s].user /\ (Open(s)' => Open(s))
                  /\ (sess'[s].age = "unused") = (sess[s].age = "unused")
\* ... and their password.
Mild == Tame /\ \A s \in Sids : sess'[s].pw = sess[s].pw
\* Keys may end.
MildKeys == \A k \in Keys : key'[k].user = key[k].user /\ (Live(k)' => Live(k))
\* Accounts stay, an account without a password is an old one.
MildUsers ==
  /\ \A u \in Users : Exists(u) => Exists(u)' /\ (pw[u] # 0 => pw'[u] # 0)
  /\ \A u \in Users : pw'[u] # 0 => Exists(u)'
  /\ \A u \in Users : Exists(u)' /\ pw'[u] = 0 => Exists(u) /\ pw[u] = 0

LEMMA IdleTyped == IdleReq \in Requests /\ NoSession \in SessionRows /\ NoKey \in KeyRows
BY DEF IdleReq, Requests, Steps, NoSession, SessionRows, NoKey, KeyRows

LEMMA MovesFacts ==
  ASSUME TypeOK, NEW r \in Reqs, NEW x, Moves(r, x)
  PROVE  /\ req' \in [Reqs -> Requests] /\ req'[r] = x
         /\ \A q \in Reqs \ {r} : req'[q] = req[q]
BY DEF TypeOK, Moves

LEMMA FinishMoves == ASSUME NEW r \in Reqs, Finish(r) PROVE Moves(r, IdleReq)
BY IdleTyped DEF Finish, Moves

LEMMA UnchangedMild == UNCHANGED sess => Mild
BY DEF Mild, Tame, Open
LEMMA UnchangedKeys == UNCHANGED key => MildKeys
BY DEF MildKeys, Live
LEMMA UnchangedUsers == ASSUME RowsOK, UNCHANGED <<role, pw>> PROVE MildUsers
BY DEF MildUsers, Exists, RowsOK

\* Sessions stay current while no password changes and no revocation ends.
LEMMA CurrentKept ==
  ASSUME SessionsCurrent, Mild, UNCHANGED pw, excused \subseteq excused', late \subseteq late',
         \A q \in Reqs : req[q].at = "revoke" => req'[q] = req[q]
  PROVE  SessionsCurrent'
BY DEF SessionsCurrent, Mild, Tame, RevocationPending, Current

LEMMA GhostKept ==
  ASSUME RowsOK, NoGhostAccess, Tame, MildKeys, MildUsers
  PROVE  NoGhostAccess'
<1>1. \A s \in Sids : Open(s) => sess[s].user \in Users /\ Exists(sess[s].user)
  BY DEF RowsOK, NoGhostAccess, Open
<1>2. \A k \in Keys : Live(k) => key[k].user \in Users /\ Exists(key[k].user)
  BY DEF RowsOK, NoGhostAccess, Live
<1>3. \A u \in Users : Exists(u) => Exists(u)'
  BY DEF MildUsers
<1>4. \A s \in Sids : Open(s)' => Exists(sess[s].user)'
  BY <1>1, <1>3 DEF Tame, Exists
<1>5. \A k \in Keys : Live(k)' => Exists(key[k].user)'
  BY <1>2, <1>3 DEF MildKeys, Exists
<1>. QED BY <1>4, <1>5 DEF NoGhostAccess

LEMMA RowsKept ==
  ASSUME RowsOK, NoGhostAccess, Tame, MildKeys, MildUsers
  PROVE  RowsOK'
<1>1. \A s \in Sids : sess'[s].age # "unused" => sess'[s].user \in Users
  BY DEF RowsOK, Tame
<1>2. \A s \in Sids : Open(s)' => pw'[sess'[s].user] # 0
  <2>1. \A s \in Sids : Open(s) => sess[s].user \in Users /\ Exists(sess[s].user) /\ pw[sess[s].user] # 0
    BY DEF RowsOK, NoGhostAccess, Open
  <2>. QED BY <2>1 DEF Tame, MildUsers
<1>3. \A k \in Keys : Live(k)' => key'[k].user \in Users
  BY DEF RowsOK, MildKeys
<1>4. \A u \in Users : pw'[u] # 0 => Exists(u)'
  BY DEF MildUsers
<1>. QED BY <1>1, <1>2, <1>3, <1>4 DEF RowsOK

\* A request that does not move stays in order.
LEMMA RequestKept ==
  ASSUME TypeOK, NEW q \in Reqs, RequestOK(q), req'[q] = req[q], MildUsers,
         \A s \in Sids : sess[s].age # "unused" => sess'[s].user = sess[s].user /\ sess'[s].age # "unused"
  PROVE  RequestOK(q)'
<1>1. req[q].sid \in Sids \cup {NoOne}
  BY DEF TypeOK, Requests
<1>2. req[q].at = "login" /\ Exists(req[q].who)' => pw'[req[q].who] # 0
  BY DEF RequestOK, MildUsers, Exists
<1>. QED BY <1>1, <1>2 DEF RequestOK, Exists

\* The lock's holder stays protected while nobody writes the row it looked at
\* and no other administrator goes.
LEMMA LockedKept ==
  ASSUME Locked, UNCHANGED lock,
         \A q \in Reqs : \/ req'[q] = req[q]
                         \/ /\ lock # q /\ req'[q].at # "delete"
                            /\ req'[q].at = "write" => req'[q].give \in {"keep", "admin"},
         \A q \in Reqs : lock = q => /\ Exists(req[q].tgt)' /\ (req[q].tgt \in Admins' => req[q].tgt \in Admins)
                                     /\ Admins \ {req[q].tgt} \subseteq Admins'
  PROVE  Locked'
<1> SUFFICES ASSUME NEW q \in Reqs PROVE LockOK(q)'
  BY DEF Locked
<1>1. LockOK(q)
  BY DEF Locked
<1>2. CASE req'[q] = req[q]
  <2>1. lock = q => Exists(req[q].tgt)' /\ Admins' # {req[q].tgt}
    BY <1>1 DEF LockOK
  <2>. QED BY <1>1, <1>2, <2>1 DEF LockOK, Exists
<1>3. CASE req'[q] # req[q]
  BY <1>3 DEF LockOK
<1>. QED BY <1>2, <1>3

(***************************************************************************)
(* Requests that only read                                                 *)
(***************************************************************************)
\* What holds of the record a reading request moves on to.
Sound(x) ==
  /\ x.at \notin {"delete", "revoke"} /\ (x.at = "write" => x.give \in {"keep", "admin"})
  /\ x.at \in {"authed", "login", "count"} => x.who \in Users
  /\ x.at \in {"lock", "write", "adopt"} => x.tgt \in Users
  /\ x.sid # NoOne => sess[x.sid].user = x.who /\ sess[x.sid].age # "unused"
  /\ x.own => x.at = "write" /\ x.tgt = x.who
  /\ x.at = "idle" => x = IdleReq
  /\ x.at = "login" /\ Exists(x.who) => pw[x.who] # 0

LEMMA SoundNow ==
  ASSUME TypeOK, Bound, Locked, NEW r \in Reqs, req[r].at \notin {"write", "delete", "revoke"}
  PROVE  req[r] \in Requests /\ Sound(req[r]) /\ lock # r
BY DEF TypeOK, Bound, RequestOK, Locked, LockOK, Sound

LEMMA IdleSound == IdleReq \in Requests /\ Sound(IdleReq)
BY IdleTyped DEF Sound, IdleReq

\* A step that writes nothing but where its request stands, and at most
\* touches a session.
LEMMA Quiet ==
  ASSUME AInv, NEW r \in Reqs, NEW x, Moves(r, x), Sound(x), req[r].at \notin {"write", "delete", "revoke"},
         sess' \in [Sids -> SessionRows], Mild, UNCHANGED <<role, pw, env, key, lock, vers, excused, late, mix>>
  PROVE  AInv'
<1>1. TypeOK /\ Bound /\ Locked /\ SessionsCurrent /\ NoGhostAccess /\ RowsOK
  BY DEF AInv, AccessCurrent, Bound
<1>2. req' \in [Reqs -> Requests] /\ req'[r] = x /\ \A q \in Reqs \ {r} : req'[q] = req[q]
  BY <1>1, MovesFacts
<1>3. MildKeys /\ MildUsers
  BY <1>1, UnchangedKeys, UnchangedUsers
<1>4. TypeOK'
  BY <1>1, <1>2 DEF TypeOK
<1>5. SessionsCurrent'
  BY <1>1, <1>2, CurrentKept
<1>6. NoGhostAccess' /\ RowsOK'
  BY <1>1, <1>3, GhostKept, RowsKept DEF Mild
<1>7. \A q \in Reqs : RequestOK(q)'
  <2>1. \A s \in Sids : sess[s].age # "unused" => sess'[s].user = sess[s].user /\ sess'[s].age # "unused"
    BY DEF Mild, Tame
  <2>2. ASSUME NEW q \in Reqs, q # r PROVE RequestOK(q)'
    BY <1>1, <1>2, <1>3, <2>1, <2>2, RequestKept DEF Bound
  <2>3. RequestOK(r)'
    <3>1. x.sid \in Sids \cup {NoOne}
      BY DEF Moves, Requests
    <3>. QED BY <1>2, <2>1, <3>1 DEF RequestOK, Sound, Exists
  <2>. QED BY <2>2, <2>3
<1>8. Locked'
  <2>1. lock # r
    BY <1>1, SoundNow
  <2>2. \A q \in Reqs : lock = q => Exists(req[q].tgt)
    BY <1>1 DEF Locked, LockOK
  <2>3. Admins' = Admins /\ \A u : Exists(u)' = Exists(u)
    BY DEF Admins, LoginCapable, Exists
  <2>. QED BY <1>1, <1>2, <2>1, <2>2, <2>3, LockedKept DEF Sound
<1>. QED BY <1>4, <1>5, <1>6, <1>7, <1>8 DEF AInv, AccessCurrent, Bound

LEMMA QuietStore ==
  ASSUME AInv, NEW r \in Reqs, NEW x \in Requests, req' = [req EXCEPT ![r] = x], Sound(x),
         req[r].at \notin {"write", "delete", "revoke"}, UNCHANGED store
  PROVE  AInv'
<1>1. sess' \in [Sids -> SessionRows] /\ Mild
  BY UnchangedMild DEF AInv, AccessCurrent, TypeOK, store
<1>. QED BY <1>1, Quiet DEF Moves, store

LEMMA LoginKeeps == ASSUME AInv, NEW r \in Reqs, NEW u \in Users, LoginVerify(r, u) PROVE AInv'
<1> DEFINE x == [req[r] EXCEPT !.at = "login", !.who = u, !.seen = pw[u]]
<1>1. req[r] \in Requests /\ pw[u] \in 0..MaxPw /\ pw[u] # 0
  BY DEF AInv, AccessCurrent, TypeOK, LoginVerify, LoginCapable
<1>2. req[r].at = "idle" /\ UNCHANGED store /\ req' = [req EXCEPT ![r] = x]
  BY DEF LoginVerify, AInv, AccessCurrent, TypeOK
<1>3. x \in Requests
  BY <1>1 DEF Requests, Steps
<1>4. Sound(x)
  <2>1. req[r] = IdleReq
    BY <1>2 DEF AInv, Bound, RequestOK
  <2>. QED BY <1>1, <2>1 DEF Sound, IdleReq
<1>. QED BY <1>2, <1>3, <1>4, QuietStore

LEMMA AuthenticateKeeps ==
  ASSUME AInv, NEW r \in Reqs, NEW s \in Sids, authenticate(r, s) \/ authenticateSession(r, s)
  PROVE  AInv'
<1>1. PICK api \in BOOLEAN : Principal(r, sess[s].user, s, api)
  BY DEF authenticate, authenticateSession
<1>2. /\ req[r].at = "idle" /\ Open(s) /\ Exists(sess[s].user) /\ sess' = TouchSession(s)
      /\ UNCHANGED <<role, pw, env, key, lock, vers, excused, late, mix>>
  BY DEF authenticate, authenticateSession
<1> DEFINE u == sess[s].user
           x == [IdleReq EXCEPT !.at = "authed", !.who = u, !.role = role[u], !.sid = s, !.api = api]
<1>3. TypeOK /\ u \in Users /\ role[u] \in Roles
  BY <1>2 DEF AInv, AccessCurrent, Bound, RowsOK, Open, Exists
<1>4. Moves(r, x)
  <2>1. x \in Requests
    BY <1>3, IdleTyped DEF Requests, Steps
  <2>. QED BY <1>1, <2>1 DEF Moves, Principal
<1>5. Sound(x)
  BY <1>2, <1>3 DEF Sound, Open, IdleReq
<1>6. sess' \in [Sids -> SessionRows] /\ Mild
  BY <1>2, <1>3 DEF TouchSession, TypeOK, SessionRows, Mild, Tame, Open
<1>. QED BY <1>2, <1>4, <1>5, <1>6, Quiet

LEMMA KeyKeeps == ASSUME AInv, NEW r \in Reqs, NEW k \in Keys, authenticateRequestSource(r, k) PROVE AInv'
<1> DEFINE u == key[k].user
           x == [IdleReq EXCEPT !.at = "authed", !.who = u, !.role = role[u], !.sid = NoOne, !.api = TRUE]
<1>1. u \in Users /\ role[u] \in Roles /\ req[r].at = "idle" /\ UNCHANGED store
  BY DEF authenticateRequestSource, AInv, Bound, RowsOK, Exists
<1>2. x \in Requests
  BY <1>1, IdleTyped DEF Requests, Steps
<1>3. Sound(x)
  BY <1>1 DEF Sound, IdleReq
<1>. QED BY <1>1, <1>2, <1>3, QuietStore DEF authenticateRequestSource, Principal

LEMMA TargetTyped ==
  ASSUME NEW y \in Requests, NEW a \in Steps, NEW u \in Users, NEW g \in Roles \cup {"keep"},
         NEW b \in BOOLEAN, NEW own \in BOOLEAN
  PROVE  [y EXCEPT !.at = a, !.tgt = u, !.give = g, !.newpw = b, !.own = own] \in Requests
BY DEF Requests

\* UpdateUser starts a change of u, of the caller himself or of somebody else.
LEMMA UpdateUserKeeps ==
  ASSUME AInv, NEW r \in Reqs, NEW u \in Users, NEW g \in Roles \cup {"keep"}, NEW b \in BOOLEAN, NEW own \in BOOLEAN,
         req[r].at \in {"authed", "count"}, own => u = req[r].who /\ g = "keep", UpdateUser(r, u, g, b, own)
  PROVE  AInv'
<1> DEFINE x == [req[r] EXCEPT !.at = IF g \in {"keep", "admin"} THEN "write" ELSE "lock",
                               !.tgt = u, !.give = g, !.newpw = b, !.own = own]
<1>1. TypeOK /\ req[r] \in Requests /\ Sound(req[r])
  BY SoundNow DEF AInv, AccessCurrent
<1>2. x \in Requests
  <2>1. (IF g \in {"keep", "admin"} THEN "write" ELSE "lock") \in Steps
    BY DEF Steps
  <2>. QED BY <1>1, <2>1, TargetTyped
<1>3. Sound(x)
  <2>1. /\ x.at = (IF g \in {"keep", "admin"} THEN "write" ELSE "lock") /\ x.tgt = u /\ x.give = g
        /\ x.who = req[r].who /\ x.sid = req[r].sid
    BY <1>1 DEF Requests
  <2>2. x.own => x.at = "write" /\ x.tgt = x.who
    <3>1. CASE own = TRUE
      BY <2>1, <3>1
    <3>2. CASE own = FALSE
      BY <1>1, <3>2 DEF Requests
    <3>. QED BY <3>1, <3>2
  <2>3. x.sid # NoOne => sess[x.sid].user = x.who /\ sess[x.sid].age # "unused"
    BY <1>1, <2>1 DEF Sound
  <2>. QED BY <2>1, <2>2, <2>3 DEF Sound
<1>4. req' = [req EXCEPT ![r] = x] /\ UNCHANGED store
  BY <1>1 DEF UpdateUser, TypeOK
<1>. QED BY <1>2, <1>3, <1>4, QuietStore

LEMMA RefuseKeeps ==
  ASSUME AInv, NEW r \in Reqs, Finish(r), UNCHANGED store, req[r].at \notin {"write", "delete", "revoke"}
  PROVE  AInv'
BY IdleSound, QuietStore DEF Finish

\* A request that only goes to another step of its program.
LEMMA GotoKeeps ==
  ASSUME AInv, NEW r \in Reqs, NEW a \in {"count", "gate", "new", "byname", "byid"},
         req' = [req EXCEPT ![r].at = a], UNCHANGED store,
         req[r].at \notin {"write", "delete", "revoke"}, a = "count" => req[r].who \in Users
  PROVE  AInv'
<1> DEFINE x == [req[r] EXCEPT !.at = a]
<1>1. TypeOK /\ req[r] \in Requests /\ Sound(req[r])
  BY SoundNow DEF AInv, AccessCurrent
<1>2. x \in Requests /\ Sound(x)
  BY <1>1 DEF Requests, Steps, Sound
<1>3. req' = [req EXCEPT ![r] = x]
  BY <1>1 DEF TypeOK
<1>. QED BY <1>2, <1>3, QuietStore

LEMMA AdoptGotoKeeps ==
  ASSUME AInv, NEW r \in Reqs, NEW u \in Users, req' = [req EXCEPT ![r].at = "adopt", ![r].tgt = u], UNCHANGED store,
         req[r].at \in {"byname", "byid"}
  PROVE  AInv'
<1> DEFINE x == [req[r] EXCEPT !.at = "adopt", !.tgt = u]
<1>1. TypeOK /\ req[r] \in Requests /\ Sound(req[r])
  BY SoundNow DEF AInv, AccessCurrent
<1>2. x \in Requests /\ Sound(x)
  BY <1>1, ZenonT(40) DEF Requests, Steps, Sound
<1>3. req' = [req EXCEPT ![r] = x]
  BY <1>1 DEF TypeOK
<1>. QED BY <1>2, <1>3, QuietStore

(***************************************************************************)
(* Requests that write                                                     *)
(***************************************************************************)
LEMMA AInvParts ==
  ASSUME AInv
  PROVE  /\ TypeOK /\ SessionsCurrent /\ NoGhostAccess /\ Bound /\ RowsOK /\ Locked
         /\ \A q \in Reqs : RequestOK(q) /\ LockOK(q)
BY DEF AInv, AccessCurrent, Bound, Locked

LEMMA AInvWhole ==
  ASSUME TypeOK', SessionsCurrent', NoGhostAccess', RowsOK', Locked', \A q \in Reqs : RequestOK(q)'
  PROVE  AInv'
BY DEF AInv, AccessCurrent, Bound

\* The requests and the lock after a step that ends request r and leaves users alone.
LEMMA OthersKept ==
  ASSUME AInv, NEW r \in Reqs, Moves(r, IdleReq), lock # r, UNCHANGED <<role, pw, lock>>,
         \A s \in Sids : sess[s].age # "unused" => sess'[s].user = sess[s].user /\ sess'[s].age # "unused"
  PROVE  Locked' /\ \A q \in Reqs : RequestOK(q)'
<1>1. TypeOK /\ RowsOK /\ Locked /\ \A q \in Reqs : RequestOK(q) /\ LockOK(q)
  BY AInvParts
<1>2. req'[r] = IdleReq /\ \A q \in Reqs \ {r} : req'[q] = req[q]
  BY <1>1, MovesFacts
<1>3. ASSUME NEW q \in Reqs, q # r PROVE RequestOK(q)'
  BY <1>1, <1>2, <1>3, UnchangedUsers, RequestKept
<1>4. RequestOK(r)'
  BY <1>2 DEF RequestOK, IdleReq
<1>5. Locked'
  <2>1. Admins' = Admins /\ \A u : Exists(u)' = Exists(u)
    BY DEF Admins, LoginCapable, Exists
  <2>2. \A q \in Reqs : lock = q => Exists(req[q].tgt)
    BY <1>1 DEF LockOK
  <2>. QED BY <1>1, <1>2, <2>1, <2>2, LockedKept DEF IdleReq
<1>. QED BY <1>3, <1>4, <1>5

LEMMA CreateSessionKeeps == ASSUME AInv, NEW r \in Reqs, NEW s \in Sids, CreateSession(r, s) PROVE AInv'
<1> DEFINE u == req[r].who
<1>1. /\ TypeOK /\ SessionsCurrent /\ NoGhostAccess /\ RowsOK /\ Locked
      /\ \A q \in Reqs : RequestOK(q) /\ LockOK(q)
  BY AInvParts
<1>2. /\ req[r].at = "login" /\ sess[s].age = "unused" /\ Moves(r, IdleReq) /\ u \in Users /\ lock # r
      /\ UNCHANGED <<role, pw, env, key, lock, vers, excused, mix>>
  BY <1>1, FinishMoves DEF CreateSession, RequestOK, LockOK
<1>3. CASE ~Exists(u)
  <2>1. UNCHANGED <<sess, late>>
    BY <1>3 DEF CreateSession
  <2>. QED BY <1>2, <2>1, RefuseKeeps DEF CreateSession, store
<1>4. CASE Exists(u)
  <2> DEFINE row == [user |-> u, pw |-> req[r].seen, age |-> "fresh"]
  <2>1. /\ sess' = [sess EXCEPT ![s] = row] /\ row \in SessionRows
        /\ late' = IF req[r].seen # pw[u] THEN late \cup {s} ELSE late
    BY <1>1, <1>2, <1>4 DEF CreateSession, SessionRows, TypeOK, Requests
  <2>2. sess'[s] = row /\ \A t \in Sids \ {s} : sess'[t] = sess[t]
    BY <1>1, <2>1 DEF TypeOK
  <2>3. req' \in [Reqs -> Requests] /\ \A q \in Reqs \ {r} : req'[q] = req[q]
    BY <1>1, <1>2, MovesFacts
  <2>4. TypeOK'
    BY <1>1, <1>2, <2>1, <2>3 DEF TypeOK
  <2>5. SessionsCurrent'
    <3> SUFFICES ASSUME NEW t \in Sids, Open(t)'
                 PROVE  Current(t)' \/ RevocationPending(t)' \/ t \in (excused \cup late)'
      BY DEF SessionsCurrent
    <3>1. CASE t = s
      BY <1>2, <2>1, <2>2, <3>1 DEF Current
    <3>2. CASE t # s
      <4>1. Open(t) /\ sess'[t] = sess[t]
        BY <2>2, <3>2 DEF Open
      <4>2. Current(t) \/ RevocationPending(t) \/ t \in excused \cup late
        BY <1>1, <4>1 DEF SessionsCurrent
      <4>. QED BY <1>2, <2>1, <2>3, <4>1, <4>2 DEF Current, RevocationPending
    <3>. QED BY <3>1, <3>2
  <2>6. NoGhostAccess'
    BY <1>1, <1>2, <1>4, <2>2 DEF NoGhostAccess, Open, Live, Exists
  <2>7. RowsOK'
    BY <1>1, <1>2, <1>4, <2>2 DEF RowsOK, RequestOK, Open, Live, Exists
  <2>8. Locked' /\ \A q \in Reqs : RequestOK(q)'
    BY <1>2, <2>2, OthersKept
  <2>. QED BY <2>4, <2>5, <2>6, <2>7, <2>8, AInvWhole
<1>. QED BY <1>3, <1>4

\* Sessions and keys that only end, with or without a request that finishes.
LEMMA ClosingKeeps ==
  ASSUME AInv, Mild, MildKeys, sess' \in [Sids -> SessionRows], key' \in [Keys -> KeyRows],
         UNCHANGED <<role, pw, env, req, lock, vers, excused, late, mix>>
  PROVE  AInv'
<1>1. /\ TypeOK /\ SessionsCurrent /\ NoGhostAccess /\ RowsOK /\ Locked /\ MildUsers
      /\ \A q \in Reqs : RequestOK(q) /\ LockOK(q)
  BY AInvParts, UnchangedUsers
<1>2. TypeOK'
  BY <1>1 DEF TypeOK
<1>3. SessionsCurrent'
  BY <1>1, CurrentKept
<1>4. NoGhostAccess' /\ RowsOK'
  BY <1>1, GhostKept, RowsKept DEF Mild
<1>5. \A q \in Reqs : RequestOK(q)'
  BY <1>1, RequestKept DEF Mild, Tame
<1>6. Locked'
  BY <1>1 DEF Locked, LockOK, Admins, LoginCapable, Exists
<1>. QED BY <1>2, <1>3, <1>4, <1>5, <1>6, AInvWhole

LEMMA SessionEndKeeps ==
  ASSUME AInv, (\E s \in Sids : handleLogout(s) \/ Age(s)) \/ (\E k \in Keys : ExpireKey(k)) \/ DeleteExpiredSessions
  PROVE  AInv'
<1>1. TypeOK
  BY AInvParts
<1>2. CASE \E s \in Sids : handleLogout(s) \/ Age(s)
  <2>1. Mild /\ sess' \in [Sids -> SessionRows] /\ UNCHANGED <<role, pw, env, key, req, lock, vers, excused, late, mix>>
    <3>1. PICK s \in Sids : handleLogout(s) \/ Age(s)
      BY <1>2
    <3>2. CASE handleLogout(s)
      BY <1>1, <3>2 DEF handleLogout, TypeOK, SessionRows, Mild, Tame, Open
    <3>3. CASE Age(s)
      BY <1>1, <3>3 DEF Age, TypeOK, SessionRows, Mild, Tame, Open
    <3>. QED BY <3>1, <3>2, <3>3
  <2>. QED BY <1>1, <2>1, ClosingKeeps, UnchangedKeys DEF TypeOK
<1>3. CASE \E k \in Keys : ExpireKey(k)
  <2>1. MildKeys /\ key' \in [Keys -> KeyRows] /\ UNCHANGED <<role, pw, env, sess, req, lock, vers, excused, late, mix>>
    BY <1>1, <1>3 DEF ExpireKey, TypeOK, KeyRows, MildKeys, Live
  <2>. QED BY <1>1, <2>1, ClosingKeeps, UnchangedMild DEF TypeOK
<1>4. CASE DeleteExpiredSessions
  <2>1. Mild /\ sess' \in [Sids -> SessionRows] /\ UNCHANGED <<role, pw, env, key, req, lock, vers, excused, late, mix>>
    BY <1>1, <1>4 DEF DeleteExpiredSessions, TypeOK, SessionRows, Mild, Tame, Open
  <2>. QED BY <1>1, <2>1, ClosingKeeps, UnchangedKeys DEF TypeOK
<1>. QED BY <1>2, <1>3, <1>4

LEMMA LogoutOthersKeeps == ASSUME AInv, NEW r \in Reqs, handleSettingsLogoutOthers(r) PROVE AInv'
<1>1. TypeOK /\ Moves(r, IdleReq) /\ req[r].at = "authed" /\ UNCHANGED <<role, pw, env, key, lock, vers, excused, late, mix>>
  BY AInvParts, FinishMoves DEF handleSettingsLogoutOthers, Authed
<1>2. Mild /\ sess' \in [Sids -> SessionRows]
  BY <1>1 DEF handleSettingsLogoutOthers, TypeOK, SessionRows, Mild, Tame, Open
<1>. QED BY <1>1, <1>2, IdleSound, Quiet

LEMMA APIKeyKeeps ==
  ASSUME AInv, NEW r \in Reqs, NEW k \in Keys, NEW c \in Scopes, req[r].at = "authed",
         CreateAPIKey(r, k, c) \/ DeleteAPIKey(r, k)
  PROVE  AInv'
<1>1. /\ TypeOK /\ SessionsCurrent /\ NoGhostAccess /\ RowsOK /\ Locked
      /\ \A q \in Reqs : RequestOK(q) /\ LockOK(q)
  BY AInvParts
<1>2. /\ Moves(r, IdleReq) /\ lock # r /\ req[r].who \in Users
      /\ UNCHANGED <<role, pw, env, sess, lock, vers, excused, late, mix>>
  BY <1>1, FinishMoves DEF CreateAPIKey, DeleteAPIKey, LockOK, RequestOK
<1>3. req' \in [Reqs -> Requests] /\ \A q \in Reqs \ {r} : req'[q] = req[q]
  BY <1>1, <1>2, MovesFacts
<1>4. /\ key' \in [Keys -> KeyRows]
      /\ \A j \in Keys : Live(j)' => \/ Live(j) /\ key'[j].user = key[j].user
                                     \/ key'[j].user = req[r].who /\ Exists(req[r].who)
  BY <1>1, <1>2 DEF CreateAPIKey, DeleteAPIKey, TypeOK, KeyRows, Live
<1>5. TypeOK'
  BY <1>1, <1>2, <1>3, <1>4 DEF TypeOK
<1>6. SessionsCurrent'
  BY <1>1, <1>2, <1>3, CurrentKept, UnchangedMild
<1>7. NoGhostAccess' /\ RowsOK'
  BY <1>1, <1>2, <1>4 DEF NoGhostAccess, RowsOK, Open, Exists
<1>8. Locked' /\ \A q \in Reqs : RequestOK(q)'
  BY <1>2, OthersKept
<1>. QED BY <1>5, <1>6, <1>7, <1>8, AInvWhole

\* A row without a password gets its first one: CreateUser and the adoption
\* of the placeholder.
FillsRow(r, u, g) ==
  /\ req[r].at \in {"authed", "new", "adopt"} /\ Finish(r)
  /\ pw[u] = 0 /\ vers < MaxPw /\ \A q \in Reqs : lock = q => req[q].tgt # u
  /\ role' = [role EXCEPT ![u] = g] /\ pw' = [pw EXCEPT ![u] = vers + 1] /\ vers' = vers + 1
  /\ env' \in {env, u} /\ UNCHANGED <<sess, key, lock, excused, late, mix>>

LEMMA FillsRowKeeps ==
  ASSUME AInv, NEW r \in Reqs, NEW u \in Users, NEW g \in Roles, FillsRow(r, u, g)
  PROVE  AInv' /\ Admins \subseteq Admins'
<1>1. /\ TypeOK /\ SessionsCurrent /\ NoGhostAccess /\ RowsOK /\ Locked
      /\ \A q \in Reqs : RequestOK(q) /\ LockOK(q)
  BY AInvParts
<1>2. /\ Moves(r, IdleReq) /\ lock # r /\ req[r].at # "revoke" /\ pw[u] = 0 /\ vers \in 0..MaxPw /\ vers < MaxPw
      /\ \A q \in Reqs : lock = q => req[q].tgt # u
      /\ UNCHANGED <<sess, key, lock, excused, late, mix>>
  BY <1>1, FinishMoves DEF FillsRow, LockOK, TypeOK
<1>3. req' \in [Reqs -> Requests] /\ req'[r] = IdleReq /\ \A q \in Reqs \ {r} : req'[q] = req[q]
  BY <1>1, <1>2, MovesFacts
<1>4. /\ role'[u] = g /\ pw'[u] = vers + 1 /\ pw'[u] # 0
      /\ \A w \in Users \ {u} : role'[w] = role[w] /\ pw'[w] = pw[w]
  BY <1>1, <1>2 DEF FillsRow, TypeOK
<1>5. TypeOK'
  BY <1>1, <1>2, <1>3 DEF TypeOK, FillsRow
<1>6. MildUsers
  BY <1>1, <1>2, <1>4 DEF MildUsers, Exists, RowsOK
<1>7. Mild /\ MildKeys
  BY <1>2, UnchangedMild, UnchangedKeys
<1>8. NoGhostAccess' /\ RowsOK'
  BY <1>1, <1>6, <1>7, GhostKept, RowsKept DEF Mild
<1>9. SessionsCurrent'
  <2>1. \A s \in Sids : Open(s) => sess[s].user \in Users \ {u}
    BY <1>1, <1>2 DEF RowsOK, Open
  <2>. QED BY <1>1, <1>2, <1>3, <1>4, <2>1 DEF SessionsCurrent, Current, RevocationPending, Open
<1>10. \A q \in Reqs : RequestOK(q)'
  <2>1. ASSUME NEW q \in Reqs, q # r PROVE RequestOK(q)'
    BY <1>1, <1>2, <1>3, <1>6, <2>1, RequestKept
  <2>2. RequestOK(r)'
    BY <1>3 DEF RequestOK, IdleReq
  <2>. QED BY <2>1, <2>2
<1>11. Admins \subseteq Admins' /\ \A w \in Users \ {u} : w \in Admins' => w \in Admins
  BY <1>1, <1>2, <1>4 DEF Admins, LoginCapable, Exists
<1>12. Locked'
  <2>1. \A q \in Reqs : lock = q => req[q].tgt \in Users \ {u} /\ Exists(req[q].tgt)
    BY <1>1, <1>2 DEF LockOK, RequestOK
  <2>. QED BY <1>1, <1>2, <1>3, <1>4, <1>11, <2>1, LockedKept DEF IdleReq, Exists
<1>. QED BY <1>5, <1>8, <1>9, <1>10, <1>11, <1>12, AInvWhole

LEMMA InsertFills ==
  ASSUME AInv, NEW r \in Reqs, NEW u \in Users, NEW g \in Roles, NEW e \in BOOLEAN,
         req[r].at \in {"authed", "new"}, Insert(u, g, e), Finish(r), UNCHANGED <<sess, key, lock, excused, late, mix>>
  PROVE  FillsRow(r, u, g)
<1>1. pw[u] = 0
  BY AInvParts DEF Insert, RowsOK, Exists
<1>2. \A q \in Reqs : lock = q => req[q].tgt # u
  BY AInvParts DEF Insert, LockOK, Exists
<1>. QED BY <1>1, <1>2 DEF FillsRow, Insert

LEMMA AdoptFills ==
  ASSUME AInv, NEW r \in Reqs, adoptPlaceholderAdmin(r), Adoptable(req[r].tgt)
  PROVE  req[r].tgt \in Users /\ FillsRow(r, req[r].tgt, "admin")
<1>1. req[r].tgt \in Users /\ lock # r
  BY AInvParts DEF adoptPlaceholderAdmin, RequestOK, LockOK
<1>. QED BY <1>1 DEF adoptPlaceholderAdmin, Adoptable, FillsRow, RowFree

LEMMA BeginDeleteKeeps ==
  ASSUME AInv, NEW r \in Reqs, NEW u \in Users, req[r].at = "authed", BeginDelete(r, u) PROVE AInv'
<1> DEFINE x == [req[r] EXCEPT !.at = "lock", !.tgt = u, !.give = "keep"]
<1>1. TypeOK /\ req[r] \in Requests /\ Sound(req[r])
  BY SoundNow DEF AInv, AccessCurrent
<1>2. x \in Requests /\ Sound(x)
  BY <1>1 DEF Requests, Steps, Sound
<1>3. req' = [req EXCEPT ![r] = x] /\ UNCHANGED store
  BY <1>1 DEF TypeOK, BeginDelete
<1>. QED BY <1>2, <1>3, QuietStore

\* Under the lock the request finds another administrator, or ends.
LEMMA LockAdminsKeeps == ASSUME AInv, NEW r \in Reqs, LockAdmins(r) PROVE AInv'
<1> DEFINE u == req[r].tgt
           x == [req[r] EXCEPT !.at = IF req[r].give = "keep" THEN "delete" ELSE "write"]
<1>1. /\ TypeOK /\ SessionsCurrent /\ NoGhostAccess /\ RowsOK /\ Locked
      /\ \A q \in Reqs : RequestOK(q) /\ LockOK(q)
  BY AInvParts
<1>2. /\ req[r].at = "lock" /\ lock = NoOne /\ req[r] \in Requests /\ u \in Users
      /\ UNCHANGED <<role, pw, env, sess, key, vers, excused, late, mix>>
  BY <1>1 DEF LockAdmins, RequestOK, TypeOK
<1>3. CASE ~(Exists(u) /\ ~isLastLoginCapableAdmin(u))
  <2>1. Finish(r) /\ UNCHANGED store
    BY <1>2, <1>3 DEF LockAdmins, store
  <2>. QED BY <1>2, <2>1, RefuseKeeps
<1>4. CASE Exists(u) /\ ~isLastLoginCapableAdmin(u)
  <2>1. Moves(r, x) /\ lock' = r
    <3>1. x \in Requests
      BY <1>2 DEF Requests, Steps
    <3>. QED BY <1>1, <1>4, <3>1 DEF LockAdmins, TypeOK, Moves
  <2>2. req' \in [Reqs -> Requests] /\ req'[r] = x /\ \A q \in Reqs \ {r} : req'[q] = req[q]
    BY <1>1, <2>1, MovesFacts
  <2>3. TypeOK'
    BY <1>1, <1>2, <2>1, <2>2 DEF TypeOK
  <2>4. MildUsers /\ Mild /\ MildKeys
    BY <1>1, <1>2, UnchangedMild, UnchangedKeys, UnchangedUsers
  <2>5. NoGhostAccess' /\ RowsOK'
    BY <1>1, <2>4, GhostKept, RowsKept DEF Mild
  <2>6. SessionsCurrent'
    BY <1>1, <1>2, <2>2, <2>4, CurrentKept
  <2>7. \A q \in Reqs : RequestOK(q)'
    <3>1. ASSUME NEW q \in Reqs, q # r PROVE RequestOK(q)'
      BY <1>1, <1>2, <2>2, <2>4, <3>1, RequestKept
    <3>2. RequestOK(r)'
      BY <1>1, <1>2, <2>2 DEF RequestOK, Requests, Exists
    <3>. QED BY <3>1, <3>2
  <2>8. Locked'
    <3>1. Admins' = Admins /\ \A w : Exists(w)' = Exists(w)
      BY <1>2 DEF Admins, LoginCapable, Exists
    <3>2. ASSUME NEW q \in Reqs, q # r PROVE LockOK(q)'
      <4>1. lock # q
        BY <1>2
      <4>. QED BY <1>1, <2>1, <2>2, <3>2, <4>1 DEF LockOK
    <3>3. LockOK(r)'
      <4>1. Admins # {u}
        BY <1>4 DEF isLastLoginCapableAdmin
      <4>2. x.tgt = u /\ x.at \in {"write", "delete"}
        BY <1>2 DEF Requests
      <4>. QED BY <1>4, <2>1, <2>2, <3>1, <4>1, <4>2 DEF LockOK
    <3>. QED BY <3>2, <3>3 DEF Locked
  <2>. QED BY <2>3, <2>5, <2>6, <2>7, <2>8, AInvWhole
<1>. QED BY <1>3, <1>4

\* The lock and the other requests when r, who may hold the lock, moves on to
\* x and only the row u that nobody else has locked changes.
LEMMA ReleaseKept ==
  ASSUME AInv, NEW r \in Reqs, NEW x, Moves(r, x), lock' = Unlocked(r), x.at \notin {"write", "delete"},
         NEW u, \A q \in Reqs \ {r} : lock = q => req[q].tgt # u,
         \A w \in Users \ {u} : role'[w] = role[w] /\ pw'[w] = pw[w], lock # r => Admins \subseteq Admins'
  PROVE  Locked'
<1>1. TypeOK /\ \A q \in Reqs : RequestOK(q) /\ LockOK(q)
  BY AInvParts
<1>2. req'[r] = x /\ \A q \in Reqs \ {r} : req'[q] = req[q]
  BY <1>1, MovesFacts
<1>3. lock' # r /\ \A q \in Reqs \ {r} : lock' = q <=> lock = q
  BY DEF Unlocked
<1>4. LockOK(r)'
  BY <1>2, <1>3 DEF LockOK
<1>5. ASSUME NEW q \in Reqs \ {r} PROVE LockOK(q)'
  <2>1. CASE lock # q
    BY <1>1, <1>2, <1>3, <2>1 DEF LockOK
  <2>2. CASE lock = q
    <3>1. req[q].tgt \in Users \ {u} /\ Exists(req[q].tgt) /\ Admins # {req[q].tgt}
      BY <1>1, <2>2 DEF LockOK, RequestOK
    <3> DEFINE t == req[q].tgt
    <3>2. Exists(t)'
      BY <1>2, <3>1 DEF Exists
    <3>3. Admins' # {t}
      <4>1. t \in Admins' => t \in Admins
        BY <3>1 DEF Admins, LoginCapable, Exists
      <4>2. Admins \subseteq Admins'
        BY <2>2
      <4>. QED BY <3>1, <4>1, <4>2
    <3>4. req'[q] = req[q] /\ lock' = q
      BY <1>2, <1>3, <2>2
    <3>. QED BY <1>1, <2>2, <3>2, <3>3, <3>4 DEF LockOK
  <2>. QED BY <2>1, <2>2
<1>. QED BY <1>4, <1>5 DEF Locked

\* A request that ends without having written, by an answer or by a failure.
LEMMA EndKeeps ==
  ASSUME AInv, NEW r \in Reqs, Finish(r), lock' = Unlocked(r), UNCHANGED <<role, pw, env, sess, key, vers, late, mix>>,
         excused' \subseteq Sids, SessionsCurrent'
  PROVE  AInv'
<1>1. /\ TypeOK /\ SessionsCurrent /\ NoGhostAccess /\ RowsOK /\ Locked
      /\ \A q \in Reqs : RequestOK(q) /\ LockOK(q)
  BY AInvParts
<1>2. Moves(r, IdleReq)
  BY FinishMoves
<1>3. req' \in [Reqs -> Requests] /\ req'[r] = IdleReq /\ \A q \in Reqs \ {r} : req'[q] = req[q]
  BY <1>1, <1>2, MovesFacts
<1>4. MildUsers /\ Mild /\ MildKeys
  BY <1>1, UnchangedMild, UnchangedKeys, UnchangedUsers
<1>5. TypeOK'
  BY <1>1, <1>3 DEF TypeOK, Unlocked
<1>6. NoGhostAccess' /\ RowsOK'
  BY <1>1, <1>4, GhostKept, RowsKept DEF Mild
<1>7. \A q \in Reqs : RequestOK(q)'
  <2>1. ASSUME NEW q \in Reqs, q # r PROVE RequestOK(q)'
    BY <1>1, <1>3, <1>4, <2>1, RequestKept
  <2>2. RequestOK(r)'
    BY <1>3 DEF RequestOK, IdleReq
  <2>. QED BY <2>1, <2>2
<1>8. Locked'
  <2>1. \A q \in Reqs \ {r} : lock = q => req[q].tgt # NoOne
    BY <1>1 DEF LockOK, RequestOK
  <2>2. Admins' = Admins /\ IdleReq.at \notin {"write", "delete"}
    BY DEF Admins, LoginCapable, Exists, IdleReq
  <2>. QED BY <1>2, <2>1, <2>2, ReleaseKept
<1>. QED BY <1>5, <1>6, <1>7, <1>8, AInvWhole

\* A failed revocation excuses the sessions it was to end.
LEMMA FailKeeps == ASSUME AInv, NEW r \in Reqs, Fail(r) PROVE AInv'
<1>1. TypeOK /\ SessionsCurrent
  BY AInvParts
<1>2. /\ Finish(r) /\ lock' = Unlocked(r) /\ UNCHANGED <<role, pw, env, sess, key, vers, late, mix>>
      /\ excused' \subseteq Sids /\ excused \subseteq excused'
  BY <1>1 DEF Fail, TypeOK
<1>3. SessionsCurrent'
  <2> SUFFICES ASSUME NEW s \in Sids, Open(s)'
               PROVE  Current(s)' \/ RevocationPending(s)' \/ s \in (excused \cup late)'
    BY DEF SessionsCurrent
  <2>1. Open(s) /\ (Current(s) \/ RevocationPending(s) \/ s \in excused \cup late)
    BY <1>1, <1>2 DEF SessionsCurrent, Open
  <2>2. CASE Current(s) \/ s \in excused \cup late
    BY <1>2, <2>2 DEF Current
  <2>3. CASE RevocationPending(s)
    <3>1. PICK q \in Reqs : req[q].at = "revoke" /\ req[q].tgt = sess[s].user /\ ~(req[q].own /\ req[q].sid = s)
      BY <2>3 DEF RevocationPending
    <3>2. CASE q = r
      BY <2>1, <3>1, <3>2 DEF Fail
    <3>3. CASE q # r
      BY <1>1, <1>2, <3>1, <3>3 DEF RevocationPending, Finish, TypeOK
    <3>. QED BY <3>2, <3>3
  <2>. QED BY <2>1, <2>2, <2>3
<1>. QED BY <1>2, <1>3, EndKeeps

\* A revocation ends every session it stands for.
LEMMA RevokeKeeps == ASSUME AInv, NEW r \in Reqs, Revoke(r) PROVE AInv'
<1>1. /\ TypeOK /\ SessionsCurrent /\ NoGhostAccess /\ RowsOK /\ Locked
      /\ \A q \in Reqs : RequestOK(q) /\ LockOK(q)
  BY AInvParts
<1>2. /\ req[r].at = "revoke" /\ Moves(r, IdleReq) /\ lock # r /\ sess' = Revoked(r)
      /\ UNCHANGED <<role, pw, env, key, lock, vers, excused, late, mix>>
  BY <1>1, FinishMoves DEF Revoke, LockOK
<1>3. sess' \in [Sids -> SessionRows] /\ Mild
  BY <1>1, <1>2 DEF Revoked, TypeOK, SessionRows, Mild, Tame, Open
<1>4. req' \in [Reqs -> Requests] /\ \A q \in Reqs \ {r} : req'[q] = req[q]
  BY <1>1, <1>2, MovesFacts
<1>5. TypeOK'
  BY <1>1, <1>2, <1>3, <1>4 DEF TypeOK
<1>6. MildUsers /\ MildKeys
  BY <1>1, <1>2, UnchangedKeys, UnchangedUsers
<1>7. NoGhostAccess' /\ RowsOK'
  BY <1>1, <1>3, <1>6, GhostKept, RowsKept DEF Mild
<1>8. Locked' /\ \A q \in Reqs : RequestOK(q)'
  BY <1>2, <1>3, OthersKept DEF Mild, Tame
<1>9. SessionsCurrent'
  <2> SUFFICES ASSUME NEW s \in Sids, Open(s)'
               PROVE  Current(s)' \/ RevocationPending(s)' \/ s \in (excused \cup late)'
    BY DEF SessionsCurrent
  <2>1. Open(s) /\ (Current(s) \/ RevocationPending(s) \/ s \in excused \cup late)
    BY <1>1, <1>3 DEF SessionsCurrent, Mild, Tame
  <2>2. CASE Current(s) \/ s \in excused \cup late
    BY <1>2, <1>3, <2>2 DEF Current, Mild, Tame
  <2>3. CASE RevocationPending(s)
    <3>1. PICK q \in Reqs : req[q].at = "revoke" /\ req[q].tgt = sess[s].user /\ ~(req[q].own /\ req[q].sid = s)
      BY <2>3 DEF RevocationPending
    <3>2. CASE q = r
      <4>1. sess'[s].age = "gone"
        BY <1>1, <1>2, <2>1, <3>1, <3>2 DEF Revoked, TypeOK, SessionRows
      <4>. QED BY <4>1 DEF Open
    <3>3. CASE q # r
      BY <1>3, <1>4, <3>1, <3>3 DEF RevocationPending, Mild, Tame
    <3>. QED BY <3>2, <3>3
  <2>. QED BY <2>1, <2>2, <2>3
<1>. QED BY <1>5, <1>7, <1>8, <1>9, AInvWhole

\* Deleting a row under the lock takes its sessions and keys along, and
\* leaves the administrator the lock's check found.
LEMMA DeleteRowKeeps ==
  ASSUME AInv, NEW r \in Reqs, DeleteRow(r)
  PROVE  AInv' /\ (Admins # {} => Admins' # {})
<1> DEFINE u == req[r].tgt
<1>1. /\ TypeOK /\ SessionsCurrent /\ NoGhostAccess /\ RowsOK /\ Locked
      /\ \A q \in Reqs : RequestOK(q) /\ LockOK(q)
  BY AInvParts
<1>2. /\ req[r].at = "delete" /\ Moves(r, IdleReq) /\ lock = r /\ lock' = NoOne /\ u \in Users /\ Admins # {u}
      /\ sess' = CascadeSessions(u) /\ key' = CascadeKeys(u) /\ UNCHANGED <<vers, excused, late, mix>>
  BY <1>1, FinishMoves DEF DeleteRow, LockOK, RequestOK
<1>3. req' \in [Reqs -> Requests] /\ req'[r] = IdleReq /\ \A q \in Reqs \ {r} : req'[q] = req[q]
  BY <1>1, <1>2, MovesFacts
<1>4. role'[u] = "gone" /\ pw'[u] = 0 /\ \A w \in Users \ {u} : role'[w] = role[w] /\ pw'[w] = pw[w]
  BY <1>1, <1>2 DEF DeleteRow, TypeOK
<1>5. /\ sess' \in [Sids -> SessionRows]
      /\ \A s \in Sids : /\ sess'[s].user = sess[s].user /\ sess'[s].pw = sess[s].pw
                         /\ Open(s)' => Open(s) /\ sess[s].user # u
                         /\ (sess'[s].age = "unused") = (sess[s].age = "unused")
  BY <1>1, <1>2 DEF CascadeSessions, TypeOK, SessionRows, Open
<1>6. /\ key' \in [Keys -> KeyRows]
      /\ \A k \in Keys : key'[k].user = key[k].user /\ (Live(k)' => Live(k) /\ key[k].user # u)
  BY <1>1, <1>2 DEF CascadeKeys, TypeOK, KeyRows, Live
<1>7. TypeOK'
  <2>1. role' \in [Users -> Roles \cup {"none", "gone"}] /\ pw' \in [Users -> 0..MaxPw] /\ env' \in Users \cup {NoOne}
    BY <1>1, <1>2 DEF DeleteRow, TypeOK
  <2>. QED BY <1>1, <1>2, <1>3, <1>5, <1>6, <2>1 DEF TypeOK
<1>8. SessionsCurrent'
  <2> SUFFICES ASSUME NEW s \in Sids, Open(s)'
               PROVE  Current(s)' \/ RevocationPending(s)' \/ s \in (excused \cup late)'
    BY DEF SessionsCurrent
  <2>1. Open(s) /\ sess[s].user \in Users \ {u} /\ (Current(s) \/ RevocationPending(s) \/ s \in excused \cup late)
    BY <1>1, <1>5 DEF SessionsCurrent, RowsOK, Open
  <2>2. CASE Current(s) \/ s \in excused \cup late
    BY <1>2, <1>4, <1>5, <2>1, <2>2 DEF Current
  <2>3. CASE RevocationPending(s)
    BY <1>2, <1>3, <1>5, <2>3 DEF RevocationPending
  <2>. QED BY <2>1, <2>2, <2>3
<1>9. NoGhostAccess'
  <2>1. \A s \in Sids : Open(s)' => Exists(sess[s].user)'
    BY <1>1, <1>4, <1>5 DEF NoGhostAccess, RowsOK, Exists, Open
  <2>2. \A k \in Keys : Live(k)' => Exists(key[k].user)'
    BY <1>1, <1>4, <1>6 DEF NoGhostAccess, RowsOK, Exists
  <2>. QED BY <2>1, <2>2 DEF NoGhostAccess
<1>10. RowsOK'
  <2>1. \A s \in Sids : sess'[s].age # "unused" => sess'[s].user \in Users
    BY <1>1, <1>5 DEF RowsOK
  <2>2. \A s \in Sids : Open(s)' => pw'[sess'[s].user] # 0
    BY <1>1, <1>4, <1>5 DEF RowsOK, Open
  <2>3. \A w \in Users : pw'[w] # 0 => Exists(w)'
    BY <1>1, <1>4 DEF RowsOK, Exists
  <2>. QED BY <1>1, <1>6, <2>1, <2>2, <2>3 DEF RowsOK
<1>11. \A q \in Reqs : RequestOK(q)'
  <2>1. ASSUME NEW q \in Reqs, q # r PROVE RequestOK(q)'
    <3>1. req[q].sid \in Sids \cup {NoOne} /\ req'[q] = req[q] /\ RequestOK(q)
      BY <1>1, <1>3, <2>1 DEF TypeOK, Requests
    <3>2. req[q].at = "login" /\ Exists(req[q].who)' => pw'[req[q].who] # 0
      BY <1>4, <3>1 DEF RequestOK, Exists
    <3>. QED BY <1>5, <3>1, <3>2 DEF RequestOK, Exists
  <2>2. RequestOK(r)'
    BY <1>3 DEF RequestOK, IdleReq
  <2>. QED BY <2>1, <2>2
<1>12. Locked'
  <2>1. lock' = Unlocked(r) /\ IdleReq.at \notin {"write", "delete"}
    BY <1>2 DEF Unlocked, IdleReq
  <2>. QED BY <1>2, <1>4, <2>1, ReleaseKept
<1>13. Admins # {} => Admins' # {}
  <2> SUFFICES ASSUME Admins # {} PROVE Admins' # {}
    OBVIOUS
  <2>1. PICK w \in Admins : w # u
    BY <1>2
  <2>2. w \in Admins'
    BY <1>4, <2>1 DEF Admins, LoginCapable, Exists
  <2>. QED BY <2>2
<1>. QED BY <1>7, <1>8, <1>9, <1>10, <1>11, <1>12, <1>13, AInvWhole

\* The rows after the UPDATE of WriteUser: an account stays an account, and a
\* change that may take an administrator away is made under the lock.
LEMMA WriteRows ==
  ASSUME AInv, NEW r \in Reqs, WriteUser(r), Exists(req[r].tgt)
  PROVE  /\ req[r].tgt \in Users /\ req[r].at = "write" /\ lock' = Unlocked(r)
         /\ role' \in [Users -> Roles \cup {"none", "gone"}] /\ role'[req[r].tgt] \in Roles
         /\ \A w \in Users \ {req[r].tgt} : role'[w] = role[w]
         /\ lock # r => role'[req[r].tgt] \in {role[req[r].tgt], "admin"}
         /\ UNCHANGED <<env, key, excused, late, mix>>
         /\ \A q \in Reqs \ {r} : lock = q => req[q].tgt # req[r].tgt
<1> DEFINE u == req[r].tgt
<1>1. TypeOK /\ RequestOK(r) /\ LockOK(r)
  BY AInvParts
<1>2. req[r].at = "write" /\ u \in Users /\ req[r].give \in Roles \cup {"keep"}
  BY <1>1 DEF WriteUser, RequestOK, TypeOK, Requests
<1>3. role' = [role EXCEPT ![u] = IF req[r].give = "keep" THEN @ ELSE req[r].give]
  BY DEF WriteUser
<1>4. role' \in [Users -> Roles \cup {"none", "gone"}] /\ role'[u] \in Roles /\ \A w \in Users \ {u} : role'[w] = role[w]
  BY <1>1, <1>2, <1>3 DEF TypeOK, Exists
<1>5. lock # r => role'[u] \in {role[u], "admin"}
  BY <1>1, <1>2, <1>3 DEF LockOK, TypeOK
<1>6. lock' = Unlocked(r) /\ UNCHANGED <<env, key, excused, late, mix>>
      /\ \A q \in Reqs \ {r} : lock = q => req[q].tgt # u
  BY DEF WriteUser, RowFree
<1>. QED BY <1>2, <1>4, <1>5, <1>6

\* What follows when the row's password stays, or a new one takes its place.
LEMMA WriteAdmins ==
  ASSUME AInv, NEW r \in Reqs, WriteUser(r), Exists(req[r].tgt),
         \A w \in Users \ {req[r].tgt} : pw'[w] = pw[w], pw[req[r].tgt] # 0 => pw'[req[r].tgt] # 0
  PROVE  (lock # r => Admins \subseteq Admins') /\ (Admins # {} => Admins' # {})
<1> DEFINE u == req[r].tgt
<1>1. u \in Users /\ role'[u] \in Roles /\ (lock # r => role'[u] \in {role[u], "admin"})
      /\ \A w \in Users \ {u} : role'[w] = role[w]
  BY WriteRows
<1>2. \A w \in Users \ {u} : w \in Admins => w \in Admins'
  BY <1>1 DEF Admins, LoginCapable, Exists
<1>3. CASE lock # r
  <2>1. u \in Admins => u \in Admins'
    BY <1>1, <1>3 DEF Admins, LoginCapable, Exists
  <2>2. Admins \subseteq Users
    BY DEF Admins, LoginCapable
  <2>. QED BY <1>2, <1>3, <2>1, <2>2
<1>4. CASE lock = r
  <2>1. Admins # {u} /\ Admins \subseteq Users
    BY <1>4, AInvParts DEF LockOK, Admins, LoginCapable
  <2>2. Admins # {} => \E w \in Admins : w # u
    BY <2>1
  <2>. QED BY <1>2, <1>4, <2>1, <2>2
<1>. QED BY <1>3, <1>4

LEMMA WriteKept ==
  ASSUME AInv, NEW r \in Reqs, WriteUser(r), Exists(req[r].tgt), NEW x, Moves(r, x), x.at \in {"idle", "revoke"},
         x.at = "idle" => x = IdleReq, x.at = "revoke" => x = [req[r] EXCEPT !.at = "revoke"],
         pw' \in [Users -> 0..MaxPw], vers' \in 0..MaxPw, sess' \in [Sids -> SessionRows], Tame,
         \A w \in Users \ {req[r].tgt} : pw'[w] = pw[w],
         pw'[req[r].tgt] \in {pw[req[r].tgt], vers + 1}, SessionsCurrent'
  PROVE  AInv' /\ (Admins # {} => Admins' # {})
<1> DEFINE u == req[r].tgt
<1>1. /\ TypeOK /\ NoGhostAccess /\ RowsOK /\ Locked
      /\ \A q \in Reqs : RequestOK(q) /\ LockOK(q)
  BY AInvParts
<1>2. /\ u \in Users /\ req[r].at = "write" /\ lock' = Unlocked(r)
      /\ role' \in [Users -> Roles \cup {"none", "gone"}] /\ role'[u] \in Roles
      /\ \A w \in Users \ {u} : role'[w] = role[w]
      /\ UNCHANGED <<env, key, excused, late, mix>>
      /\ \A q \in Reqs \ {r} : lock = q => req[q].tgt # u
  BY WriteRows
<1>3. req' \in [Reqs -> Requests] /\ req'[r] = x /\ \A q \in Reqs \ {r} : req'[q] = req[q]
  BY <1>1, MovesFacts
<1>4. pw[u] # 0 => pw'[u] # 0
  BY <1>1 DEF TypeOK
<1>5. (lock # r => Admins \subseteq Admins') /\ (Admins # {} => Admins' # {})
  BY <1>4, WriteAdmins
<1>6. TypeOK'
  BY <1>1, <1>2, <1>3 DEF TypeOK, Unlocked
<1>7. MildUsers /\ MildKeys
  <2>1. \A w \in Users : Exists(w) => Exists(w)' /\ (pw[w] # 0 => pw'[w] # 0)
    BY <1>2, <1>4 DEF Exists
  <2>2. \A w \in Users : pw'[w] # 0 => Exists(w)'
    BY <1>1, <1>2 DEF Exists, RowsOK
  <2>3. \A w \in Users : Exists(w)' /\ pw'[w] = 0 => Exists(w) /\ pw[w] = 0
    BY <1>1, <1>2, <1>4 DEF Exists
  <2>. QED BY <1>2, <2>1, <2>2, <2>3, UnchangedKeys DEF MildUsers
<1>8. NoGhostAccess' /\ RowsOK'
  BY <1>1, <1>7, GhostKept, RowsKept
<1>9. \A q \in Reqs : RequestOK(q)'
  <2>1. \A s \in Sids : sess[s].age # "unused" => sess'[s].user = sess[s].user /\ sess'[s].age # "unused"
    BY DEF Tame
  <2>2. ASSUME NEW q \in Reqs, q # r PROVE RequestOK(q)'
    BY <1>1, <1>3, <1>7, <2>1, <2>2, RequestKept
  <2>3. RequestOK(r)'
    <3>1. CASE x.at = "idle"
      BY <1>3, <3>1 DEF RequestOK, IdleReq
    <3>2. CASE x.at = "revoke"
      <4>1. req[r] \in Requests /\ RequestOK(r)
        BY <1>1 DEF TypeOK
      <4>2. x.tgt = u /\ x.sid = req[r].sid /\ x.who = req[r].who /\ x.own = req[r].own /\ x.sid \in Sids \cup {NoOne}
        BY <3>2, <4>1 DEF Requests
      <4>. QED BY <1>2, <1>3, <2>1, <3>2, <4>1, <4>2 DEF RequestOK
    <3>. QED BY <3>1, <3>2
  <2>. QED BY <2>2, <2>3
<1>10. Locked'
  BY <1>2, <1>5, ReleaseKept, SMTT(40)
<1>. QED BY <1>5, <1>6, <1>8, <1>9, <1>10, AInvWhole

LEMMA WriteUserKeeps ==
  ASSUME AInv, NEW r \in Reqs, WriteUser(r)
  PROVE  AInv' /\ (Admins # {} => Admins' # {})
<1> DEFINE u == req[r].tgt
           v == vers + 1
<1>1. TypeOK /\ SessionsCurrent /\ RowsOK /\ RequestOK(r) /\ LockOK(r)
  BY AInvParts
<1>2. req[r] \in Requests /\ req[r].at = "write" /\ u \in Users
  BY <1>1 DEF WriteUser, RequestOK, TypeOK
<1>3. CASE ~Exists(u)
  <2>1. /\ Finish(r) /\ lock' = Unlocked(r) /\ UNCHANGED <<role, pw, env, sess, key, vers, excused, late, mix>>
        /\ excused' \subseteq Sids
    BY <1>1, <1>3 DEF WriteUser, TypeOK
  <2>2. SessionsCurrent'
    BY <1>1, <1>2, <2>1, CurrentKept, UnchangedMild DEF Finish, TypeOK
  <2>3. Admins' = Admins
    BY <2>1 DEF Admins, LoginCapable, Exists
  <2>. QED BY <2>1, <2>2, <2>3, EndKeeps
<1>4. CASE Exists(u) /\ ~req[r].newpw
  <2>1. Finish(r) /\ UNCHANGED <<pw, vers, sess>>
    BY <1>4 DEF WriteUser
  <2>2. UNCHANGED <<excused, late>>
    BY DEF WriteUser
  <2>3. SessionsCurrent'
    BY <1>1, <1>2, <2>1, <2>2, CurrentKept, UnchangedMild DEF Finish, TypeOK
  <2>4. Moves(r, IdleReq) /\ IdleReq.at = "idle"
    BY <2>1, FinishMoves DEF IdleReq
  <2>5. pw' \in [Users -> 0..MaxPw] /\ vers' \in 0..MaxPw /\ sess' \in [Sids -> SessionRows] /\ Tame
    BY <1>1, <2>1, UnchangedMild DEF TypeOK, Mild
  <2>. QED BY <1>4, <2>1, <2>3, <2>4, <2>5, WriteKept
<1>5. CASE Exists(u) /\ req[r].newpw
  <2> DEFINE x == [req[r] EXCEPT !.at = "revoke"]
  <2>1. /\ pw' = [pw EXCEPT ![u] = v] /\ vers' = v /\ vers < MaxPw
        /\ sess' = IF req[r].own /\ req[r].sid # NoOne THEN [sess EXCEPT ![req[r].sid].pw = v] ELSE sess
        /\ UNCHANGED <<excused, late>>
    BY <1>5 DEF WriteUser
  <2>2. v \in 0..MaxPw /\ pw' \in [Users -> 0..MaxPw] /\ pw'[u] = v /\ \A w \in Users \ {u} : pw'[w] = pw[w]
    BY <1>1, <1>2, <2>1 DEF TypeOK
  <2>3. Moves(r, x)
    <3>1. x \in Requests
      BY <1>2 DEF Requests, Steps
    <3>2. req' = [req EXCEPT ![r] = x]
      BY <1>1, <1>5 DEF WriteUser, TypeOK
    <3>. QED BY <3>1, <3>2 DEF Moves
  <2>4. /\ sess' \in [Sids -> SessionRows] /\ Tame
        /\ \A s \in Sids : IF req[r].own /\ req[r].sid = s THEN sess'[s].pw = v ELSE sess'[s].pw = sess[s].pw
    <3>1. req[r].sid \in Sids \cup {NoOne}
      BY <1>2 DEF Requests
    <3>2. CASE req[r].own /\ req[r].sid # NoOne
      BY <1>1, <2>1, <2>2, <3>1, <3>2 DEF TypeOK, SessionRows, Tame, Open
    <3>3. CASE ~(req[r].own /\ req[r].sid # NoOne)
      BY <1>1, <2>1, <3>1, <3>3 DEF TypeOK, Tame, Open
    <3>. QED BY <3>2, <3>3
  <2>5. /\ x.at = "revoke" /\ x.tgt = u /\ x.own = req[r].own /\ x.sid = req[r].sid
        /\ req'[r] = x /\ \A q \in Reqs \ {r} : req'[q] = req[q]
    BY <1>1, <1>2, <2>3, MovesFacts DEF Requests
  <2>6. SessionsCurrent'
    <3> SUFFICES ASSUME NEW s \in Sids, Open(s)'
                 PROVE  Current(s)' \/ RevocationPending(s)' \/ s \in (excused \cup late)'
      BY DEF SessionsCurrent
    <3>1. /\ Open(s) /\ sess'[s].user = sess[s].user /\ sess[s].user \in Users
          /\ (Current(s) \/ RevocationPending(s) \/ s \in excused \cup late)
      BY <1>1, <2>4 DEF SessionsCurrent, RowsOK, Tame, Open
    <3>2. CASE sess[s].user = u /\ req[r].own /\ req[r].sid = s
      BY <2>2, <2>4, <3>1, <3>2 DEF Current
    <3>3. CASE sess[s].user = u /\ ~(req[r].own /\ req[r].sid = s)
      <4>1. req'[r].at = "revoke" /\ req'[r].tgt = sess'[s].user
        BY <2>5, <3>1, <3>3
      <4>2. ~(req'[r].own /\ req'[r].sid = s)
        BY <2>5, <3>3
      <4>. QED BY <4>1, <4>2 DEF RevocationPending
    <3>4. CASE sess[s].user # u
      <4>1. ~(req[r].own /\ req[r].sid = s)
        BY <1>1, <3>4 DEF RequestOK
      <4>2. CASE Current(s) \/ s \in excused \cup late
        BY <2>1, <2>2, <2>4, <3>1, <3>4, <4>1, <4>2 DEF Current
      <4>3. CASE RevocationPending(s)
        BY <1>2, <2>5, <3>1, <4>3 DEF RevocationPending
      <4>. QED BY <3>1, <4>2, <4>3
    <3>. QED BY <3>2, <3>3, <3>4
  <2>. QED BY <1>5, <2>1, <2>2, <2>3, <2>4, <2>5, <2>6, WriteKept
<1>. QED BY <1>3, <1>4, <1>5

(***************************************************************************)
(* Every step                                                              *)
(***************************************************************************)
LEMMA AInvInit == Init => AInv
<1> SUFFICES ASSUME Init PROVE AInv
  OBVIOUS
<1>1. \A r \in Reqs : req[r] = IdleReq
  BY DEF Init
<1>2. \A s \in Sids : sess[s].age = "unused"
  BY DEF Init, NoSession
<1>3. \A k \in Keys : Live(k) => k \in mix.keys /\ key[k].user = mix.owner[k]
  BY DEF Init, Live, NoKey
<1>4. \A k \in Keys : Live(k) => key[k].user \in Users /\ Exists(key[k].user)
  <2>1. mix \in Mixes /\ role = mix.role
    BY DEF Init
  <2>. QED BY <1>3, <2>1 DEF Exists
<1>5. TypeOK
  <2>1. role \in [Users -> Roles \cup {"none", "gone"}] /\ mix \in Mixes
    BY DEF Init
  <2>2. pw \in [Users -> 0..MaxPw] /\ vers \in 0..MaxPw
    BY DEF Init
  <2>3. sess \in [Sids -> SessionRows] /\ req \in [Reqs -> Requests]
    BY IdleTyped DEF Init
  <2>4. key \in [Keys -> KeyRows]
    <3>1. \A k \in Keys \cap mix.keys : [user |-> mix.owner[k], scope |-> "admin", age |-> "live"] \in KeyRows
      BY <2>1 DEF KeyRows
    <3>. QED BY <3>1, IdleTyped DEF Init
  <2>. QED BY <2>1, <2>2, <2>3, <2>4 DEF Init, TypeOK
<1>6. SessionsCurrent /\ NoGhostAccess /\ RowsOK
  <2>1. \A u \in Users : pw[u] # 0 => Exists(u)
    BY DEF Init
  <2>. QED BY <1>2, <1>4, <2>1 DEF SessionsCurrent, NoGhostAccess, RowsOK, Open
<1>7. \A r \in Reqs : RequestOK(r) /\ LockOK(r)
  BY <1>1 DEF Init, RequestOK, LockOK, IdleReq
<1>. QED BY <1>5, <1>6, <1>7 DEF AInv, AccessCurrent, Bound, Locked

\* A change of an account that is started, or answered at once.
LEMMA HandlerKeeps ==
  ASSUME AInv, NEW r \in Reqs,
         \/ \E u \in Users, g \in Roles \cup {"keep"}, b \in BOOLEAN : handleUpdateUser(r, u, g, b)
         \/ \E u \in Users, g \in Roles : handleAdminUserRole(r, u, g)
         \/ \E u \in Users : handleAdminUserPassword(r, u)
         \/ handleUpdateMe(r) \/ FirstPassword(r) \/ handleSettingsPassword(r)
  PROVE  AInv'
<1>1. req[r].at \in {"authed", "count"}
  BY DEF handleUpdateUser, handleAdminUserRole, handleAdminUserPassword, handleUpdateMe, FirstPassword,
         handleSettingsPassword, Authed
<1>2. req[r].who \in Users
  BY <1>1, AInvParts DEF RequestOK
<1>3. ASSUME NEW u \in Users, NEW g \in Roles \cup {"keep"}, UpdateUser(r, u, g, TRUE, FALSE) \/ UpdateUser(r, u, g, FALSE, FALSE)
      PROVE  AInv'
  BY <1>1, <1>3, UpdateUserKeeps
<1>4. CASE UpdateUser(r, req[r].who, "keep", TRUE, TRUE)
  BY <1>1, <1>2, <1>4, UpdateUserKeeps
<1>5. CASE Finish(r) /\ UNCHANGED store
  BY <1>1, <1>5, RefuseKeeps
<1>6. CASE req' = [req EXCEPT ![r].at = "count"] /\ UNCHANGED store
  BY <1>1, <1>2, <1>6, GotoKeeps
<1>7. CASE \E u \in Users, g \in Roles \cup {"keep"}, b \in BOOLEAN : handleUpdateUser(r, u, g, b)
  <2>1. PICK u \in Users, g \in Roles \cup {"keep"} : handleUpdateUser(r, u, g, TRUE) \/ handleUpdateUser(r, u, g, FALSE)
    BY <1>7, Zenon
  <2>. QED BY <1>3, <2>1 DEF handleUpdateUser
<1>8. CASE (\E u \in Users, g \in Roles : handleAdminUserRole(r, u, g)) \/ (\E u \in Users : handleAdminUserPassword(r, u))
  BY <1>3, <1>8 DEF handleAdminUserRole, handleAdminUserPassword
<1>9. CASE handleUpdateMe(r) \/ FirstPassword(r) \/ handleSettingsPassword(r)
  BY <1>4, <1>5, <1>6, <1>9 DEF handleUpdateMe, FirstPassword, handleSettingsPassword
<1>. QED BY <1>7, <1>8, <1>9

LEMMA BootKeeps ==
  ASSUME AInv, NEW r \in Reqs,
         \/ allowBootstrapCreateUser(r) \/ BootstrapCount(r) \/ EnsureBootstrapAdmin(r)
         \/ BootByName(r) \/ BootById(r)
  PROVE  AInv'
<1>1. CASE allowBootstrapCreateUser(r) \/ EnsureBootstrapAdmin(r)
  BY <1>1, GotoKeeps DEF allowBootstrapCreateUser, EnsureBootstrapAdmin
<1>2. CASE BootstrapCount(r)
  BY <1>2, GotoKeeps, RefuseKeeps DEF BootstrapCount
<1>3. CASE BootByName(r)
  <2>1. env \in Users \cup {NoOne}
    BY AInvParts DEF TypeOK
  <2>. QED BY <1>3, <2>1, GotoKeeps, AdoptGotoKeeps DEF BootByName
<1>4. CASE BootById(r)
  BY <1>4, GotoKeeps, AdoptGotoKeeps DEF BootById
<1>. QED BY <1>1, <1>2, <1>3, <1>4

\* The steps that change who has an account and its password.
Writes(r) ==
  \/ WriteUser(r) \/ DeleteRow(r)
  \/ \E u \in Users, g \in Roles : FillsRow(r, u, g)

\* A step of request r either writes an account or leaves all of them alone.
LEMMA StepKinds ==
  ASSUME AInv, Next
  PROVE  (\E r \in Reqs : Writes(r)) \/ (AInv' /\ UNCHANGED <<role, pw>>)
<1>1. ASSUME NEW r \in Reqs, NEW u \in Users, NEW g \in Roles, handleCreateUser(r, u, g) \/ handleAdminUserCreate(r, u, g)
      PROVE  FillsRow(r, u, g)
  BY <1>1, InsertFills, ZenonT(40) DEF handleCreateUser, handleAdminUserCreate, Authed
<1>2. ASSUME NEW r \in Reqs, NEW u \in Users, InsertEnv(r, u)
      PROVE  FillsRow(r, u, "admin") \/ (AInv' /\ UNCHANGED <<role, pw>>)
  <2>1. CASE env = NoOne
    BY <1>2, <2>1, InsertFills DEF InsertEnv
  <2>2. CASE env # NoOne
    BY <1>2, <2>2, RefuseKeeps DEF InsertEnv, store
  <2>. QED BY <2>1, <2>2
<1>3. ASSUME NEW r \in Reqs, adoptPlaceholderAdmin(r)
      PROVE  (\E u \in Users : FillsRow(r, u, "admin")) \/ (AInv' /\ UNCHANGED <<role, pw>>)
  <2>1. CASE Adoptable(req[r].tgt)
    BY <1>3, <2>1, AdoptFills
  <2>2. CASE ~Adoptable(req[r].tgt)
    BY <1>3, <2>2, RefuseKeeps DEF adoptPlaceholderAdmin, store
  <2>. QED BY <2>1, <2>2
<1>4. ASSUME NEW r \in Reqs,
             \/ \E u \in Users : LoginVerify(r, u)
             \/ \E s \in Sids : CreateSession(r, s) \/ authenticate(r, s) \/ authenticateSession(r, s)
             \/ \E k \in Keys : authenticateRequestSource(r, k)
             \/ LockAdmins(r) \/ Revoke(r) \/ Fail(r) \/ Refuse(r)
      PROVE  AInv' /\ UNCHANGED <<role, pw>>
  <2>1. CASE (\E u \in Users : LoginVerify(r, u)) \/ (\E k \in Keys : authenticateRequestSource(r, k))
    BY <2>1, LoginKeeps, KeyKeeps DEF LoginVerify, authenticateRequestSource, store
  <2>2. CASE \E s \in Sids : CreateSession(r, s) \/ authenticate(r, s) \/ authenticateSession(r, s)
    BY <2>2, CreateSessionKeeps, AuthenticateKeeps DEF CreateSession, authenticate, authenticateSession
  <2>3. CASE LockAdmins(r) \/ Revoke(r) \/ Fail(r)
    BY <2>3, LockAdminsKeeps, RevokeKeeps, FailKeeps DEF LockAdmins, Revoke, Fail
  <2>4. CASE Refuse(r)
    BY <2>4, RefuseKeeps DEF Refuse, store
  <2>. QED BY <1>4, <2>1, <2>2, <2>3, <2>4
<1>5. ASSUME NEW r \in Reqs,
             \/ \E u \in Users, g \in Roles \cup {"keep"}, b \in BOOLEAN : handleUpdateUser(r, u, g, b)
             \/ \E u \in Users, g \in Roles : handleAdminUserRole(r, u, g)
             \/ \E u \in Users : handleAdminUserPassword(r, u)
             \/ handleUpdateMe(r) \/ FirstPassword(r) \/ handleSettingsPassword(r)
      PROVE  AInv' /\ UNCHANGED <<role, pw>>
  <2>1. UNCHANGED <<role, pw>>
    BY <1>5, ZenonT(40) DEF handleUpdateUser, handleAdminUserRole, handleAdminUserPassword, handleUpdateMe, FirstPassword,
                handleSettingsPassword, UpdateUser, store
  <2>. QED BY <1>5, <2>1, HandlerKeeps
<1>6. ASSUME NEW r \in Reqs, NEW u \in Users, handleDeleteUser(r, u) \/ handleAdminUserDelete(r, u)
      PROVE  AInv' /\ UNCHANGED <<role, pw>>
  BY <1>6, BeginDeleteKeeps DEF handleDeleteUser, handleAdminUserDelete, Authed, BeginDelete, store
<1>7. ASSUME NEW r \in Reqs,
             \/ handleSettingsLogoutOthers(r)
             \/ \E k \in Keys, c \in Scopes : handleCreateAPIKey(r, k, c) \/ handleAPIKeyCreate(r, k, c)
             \/ \E k \in Keys : handleDeleteAPIKey(r, k) \/ handleAPIKeyDelete(r, k)
      PROVE  AInv' /\ UNCHANGED <<role, pw>>
  <2>1. CASE handleSettingsLogoutOthers(r)
    BY <2>1, LogoutOthersKeeps DEF handleSettingsLogoutOthers
  <2>2. CASE \E k \in Keys, c \in Scopes : handleCreateAPIKey(r, k, c) \/ handleAPIKeyCreate(r, k, c)
    BY <2>2, APIKeyKeeps DEF handleCreateAPIKey, handleAPIKeyCreate, Authed, CreateAPIKey
  <2>3. CASE \E k \in Keys : handleDeleteAPIKey(r, k) \/ handleAPIKeyDelete(r, k)
    <3>1. "read" \in Scopes
      OBVIOUS
    <3>. QED BY <2>3, <3>1, APIKeyKeeps DEF handleDeleteAPIKey, handleAPIKeyDelete, Authed, DeleteAPIKey
  <2>. QED BY <1>7, <2>1, <2>2, <2>3
<1>8. ASSUME NEW r \in Reqs,
             \/ allowBootstrapCreateUser(r) \/ BootstrapCount(r) \/ EnsureBootstrapAdmin(r)
             \/ BootByName(r) \/ BootById(r)
      PROVE  AInv' /\ UNCHANGED <<role, pw>>
  BY <1>8, BootKeeps DEF allowBootstrapCreateUser, BootstrapCount, EnsureBootstrapAdmin, BootByName, BootById, store
<1>9. ASSUME (\E s \in Sids : handleLogout(s) \/ Age(s)) \/ (\E k \in Keys : ExpireKey(k)) \/ DeleteExpiredSessions
      PROVE  AInv' /\ UNCHANGED <<role, pw>>
  BY <1>9, SessionEndKeeps DEF handleLogout, Age, ExpireKey, DeleteExpiredSessions
<1>. QED BY <1>1, <1>2, <1>3, <1>4, <1>5, <1>6, <1>7, <1>8, <1>9 DEF Next, Writes

\* One step keeps the invariant and an administrator, and gives a new password
\* to an account that has one only through a change of that account.
LEMMA StepKeeps ==
  ASSUME AInv, [Next]_vars
  PROVE  /\ AInv' /\ (Admins # {} => Admins' # {})
         /\ \A u \in Users : pw[u] # 0 /\ pw'[u] # pw[u] =>
              \E r \in Reqs : req[r].at \in {"write", "delete"} /\ req'[r].at # req[r].at
<1>1. CASE UNCHANGED vars
  <2>1. TypeOK' /\ SessionsCurrent' /\ NoGhostAccess' /\ RowsOK'
    BY <1>1, AInvParts, UnchangedMild, UnchangedKeys, UnchangedUsers, CurrentKept, GhostKept, RowsKept DEF vars, Mild, TypeOK
  <2>2. AInv'
    BY <1>1, <2>1, AInvParts DEF vars, AInv, AccessCurrent, Bound, Locked, RequestOK, LockOK, Exists, Admins, LoginCapable
  <2>. QED BY <1>1, <2>2 DEF vars, Admins, LoginCapable, Exists
<1>2. CASE Next /\ AInv' /\ UNCHANGED <<role, pw>>
  BY <1>2 DEF Admins, LoginCapable, Exists
<1>3. ASSUME NEW r \in Reqs, WriteUser(r) \/ DeleteRow(r)
      PROVE  /\ AInv' /\ (Admins # {} => Admins' # {})
             /\ req[r].at \in {"write", "delete"} /\ req'[r].at # req[r].at
  <2>1. AInv' /\ (Admins # {} => Admins' # {})
    BY <1>3, WriteUserKeeps, DeleteRowKeeps
  <2>2. req[r].at \in {"write", "delete"}
    BY <1>3 DEF WriteUser, DeleteRow
  <2>3. TypeOK /\ req[r] \in Requests
    BY AInvParts DEF TypeOK
  <2>4. req'[r].at \in {"idle", "revoke"}
    <3>1. CASE Finish(r)
      BY <2>3, <3>1 DEF Finish, TypeOK, IdleReq
    <3>2. CASE req' = [req EXCEPT ![r].at = "revoke"]
      BY <2>3, <3>2 DEF TypeOK, Requests
    <3>. QED BY <1>3, <3>1, <3>2 DEF WriteUser, DeleteRow
  <2>. QED BY <2>1, <2>2, <2>4
<1>4. ASSUME NEW r \in Reqs, NEW u \in Users, NEW g \in Roles, FillsRow(r, u, g)
      PROVE  AInv' /\ (Admins # {} => Admins' # {}) /\ \A w \in Users : pw[w] # 0 => pw'[w] = pw[w]
  <2>1. AInv' /\ Admins \subseteq Admins'
    BY <1>4, FillsRowKeeps
  <2>2. \A w \in Users : pw[w] # 0 => pw'[w] = pw[w]
    BY <1>4, AInvParts DEF FillsRow, TypeOK
  <2>. QED BY <2>1, <2>2
<1>5. CASE \E r \in Reqs : Writes(r)
  BY <1>3, <1>4, <1>5 DEF Writes
<1>. QED BY <1>1, <1>2, <1>5, StepKinds

\* Whatever requests overlap, a session is open only for an account that
\* exists, and with its current password unless the revocation is still to
\* come, failed, or the login overlapped the change; keys live only as long
\* as their account.
THEOREM AccessCurrentHolds == Spec => []AccessCurrent
<1>1. Init => AInv
  BY AInvInit
<1>2. AInv /\ [Next]_vars => AInv'
  BY StepKeeps
<1>3. AInv => AccessCurrent
  BY DEF AInv
<1>. QED BY <1>1, <1>2, <1>3, PTL DEF Spec

\* Demotions and deletions under the advisory lock never take the last
\* administrator, and the start-up adoption never replaces a password that
\* was set meanwhile.
THEOREM AdminsSafeHolds == Spec => AdminsSafe
<1>1. Init => AInv
  BY AInvInit
<1>2. AInv /\ [Next]_vars => AInv'
  BY StepKeeps
<1>3. AInv /\ [Next]_vars => [Admins # {} => Admins' # {}]_vars
  BY StepKeeps
<1>4. AInv /\ [Next]_vars =>
        [\A u \in Users : pw[u] # 0 /\ pw'[u] # pw[u] => \E r \in Reqs : req[r].at \in {"write", "delete"}
                                                                       /\ req'[r].at # req[r].at]_vars
  BY StepKeeps
<1>. QED BY <1>1, <1>2, <1>3, <1>4, PTL DEF Spec, AdminsSafe, AdminRemains, BootstrapFillsEmpty

HIDE AccountsAssumption DEF Roles, Scopes

-----------------------------------------------------------------------------
(* Arithmetic.                                                             *)

LEMMA MinOf == ASSUME NEW a \in Int, NEW b \in Int PROVE Min({a, b}) = IF a <= b THEN a ELSE b
<1>1. \A x \in {a, b} : (\A y \in {a, b} : x <= y) <=> x = IF a <= b THEN a ELSE b
  OBVIOUS
<1> QED BY <1>1 DEF Min

LEMMA MaxOf == ASSUME NEW a \in Int, NEW b \in Int PROVE Max({a, b}) = IF a >= b THEN a ELSE b
<1>1. \A x \in {a, b} : (\A y \in {a, b} : x >= y) <=> x = IF a >= b THEN a ELSE b
  OBVIOUS
<1> QED BY <1>1 DEF Max

LEMMA ModIn == ASSUME NEW x \in Int, NEW n \in Nat \ {0} PROVE x % n \in 0..n - 1
OBVIOUS

LEMMA ModSmall == ASSUME NEW n \in Nat \ {0}, NEW x \in 0..n - 1 PROVE x % n = x
OBVIOUS

LEMMA ModNext == ASSUME NEW n \in Nat \ {0}, NEW x \in n..2 * n - 1 PROVE x % n = x - n
OBVIOUS

LEMMA WrapInt == ASSUME NEW x \in Int PROVE Wrap(x, Word) \in Int
<1>1. Word \in Nat \ {0} /\ x + Word \div 2 \in Int /\ Word \div 2 \in Int
  BY ScheduleAssumption
<1>2. (x + Word \div 2) % Word \in Int
  BY <1>1, ModIn
<1> QED BY <1>1, <1>2 DEF Wrap

\* A duration of less than half the word is what it says.
LEMMA WrapSmall == ASSUME NEW x \in Nat, x < Word \div 2 PROVE Wrap(x, Word) = x
<1>1. Word \in Nat \ {0} /\ Word \div 2 \in Nat /\ 2 * (Word \div 2) <= Word
  BY ScheduleAssumption
<1>2. x + Word \div 2 \in 0..Word - 1
  BY <1>1
<1>3. (x + Word \div 2) % Word = x + Word \div 2
  BY <1>1, <1>2, ModSmall
<1> QED BY <1>1, <1>3 DEF Wrap

LEMMA ClampIn ==
  ASSUME NEW d \in Int, NEW lo \in Int, NEW hi \in Int, 0 < lo, lo <= hi
  PROVE  clampPollDuration(d, lo, hi) \in lo..hi
BY DEF clampPollDuration

LEMMA LeastNat ==
  ASSUME NEW T \in SUBSET Nat, T # {}
  PROVE  \E n \in T : \A m \in T : n <= m
<1>1. PICK n \in T : \A m \in T : ~(<<m, n>> \in OpToRel(<, Nat))
  BY NatLessThanWellFounded, WFMin, Zenon
<1>2. \A m \in T : m \in Nat /\ n \in Nat /\ ~(m < n)
  BY <1>1 DEF OpToRel
<1> QED BY <1>2

\* The values of an iteration: what Iterate chooses is there, and is integers.
Iterates(f, d, n, g) == g = [i \in 0..n |-> IF i = 0 THEN d ELSE f[g[i - 1]]]

LEMMA IteratesExist ==
  ASSUME NEW f \in [Int -> Int], NEW d \in Int
  PROVE  \A n \in Nat : \E g \in [0..n -> Int] : Iterates(f, d, n, g)
<1> DEFINE Has(n) == \E g \in [0..n -> Int] : Iterates(f, d, n, g)
           T == {n \in Nat : ~Has(n)}
<1> SUFFICES ASSUME T # {} PROVE FALSE
  OBVIOUS
<1>1. PICK n \in T : \A m \in T : n <= m
  BY LeastNat
<1>2. Has(0)
  <2>1. [i \in 0..0 |-> d] \in [0..0 -> Int] /\ Iterates(f, d, 0, [i \in 0..0 |-> d])
    BY DEF Iterates
  <2> QED BY <2>1
<1> HIDE DEF Has
<1>a. n \in Nat /\ ~Has(n)
  BY <1>1
<1>b. n # 0
  BY <1>a, <1>2
<1>c. n - 1 \in Nat /\ ~(n <= n - 1)
  BY <1>a, <1>b
<1>3. n \in Nat /\ n # 0 /\ n - 1 \in Nat /\ Has(n - 1)
  BY <1>1, <1>a, <1>b, <1>c
<1>4. PICK g \in [0..n - 1 -> Int] : Iterates(f, d, n - 1, g)
  BY <1>3 DEF Has
<1> DEFINE h == [i \in 0..n |-> IF i = n THEN f[g[n - 1]] ELSE g[i]]
<1>d. f[g[n - 1]] \in Int /\ \A i \in 0..n : i # n => g[i] \in Int
  <2>1. n - 1 \in 0..n - 1 /\ \A i \in 0..n : i # n => i \in 0..n - 1
    BY <1>3
  <2>2. g[n - 1] \in Int
    BY <2>1
  <2> QED BY <2>1, <2>2
<1>5. h \in [0..n -> Int]
  BY <1>d
<1>6. \A i \in 0..n : h[i] = IF i = 0 THEN d ELSE f[h[i - 1]]
  <2> SUFFICES ASSUME NEW i \in 0..n PROVE h[i] = IF i = 0 THEN d ELSE f[h[i - 1]]
    OBVIOUS
  <2>1. CASE i = n
    BY <2>1, <1>3
  <2>2. CASE i # n
    <3>1. i \in 0..n - 1 /\ (i # 0 => i - 1 \in 0..n - 1 /\ i - 1 # n)
      BY <2>2, <1>3
    <3>2. g[i] = IF i = 0 THEN d ELSE f[g[i - 1]]
      BY <3>1, <1>4 DEF Iterates
    <3>3. h[i] = g[i]
      BY <2>2
    <3>4. i # 0 => h[i - 1] = g[i - 1]
      BY <3>1, <1>3
    <3> HIDE DEF h
    <3> QED BY <3>2, <3>3, <3>4
  <2> QED BY <2>1, <2>2
<1>7. Iterates(f, d, n, h)
  <2> HIDE DEF h
  <2> QED BY <1>5, <1>6 DEF Iterates
<1> QED BY <1>a, <1>5, <1>7 DEF Has

LEMMA IteratesAgree ==
  ASSUME NEW f, NEW d, NEW n \in Nat, NEW m \in Nat, n <= m, NEW g, NEW h, Iterates(f, d, n, g), Iterates(f, d, m, h)
  PROVE  \A i \in 0..n : g[i] = h[i]
<1> DEFINE T == {i \in 0..n : g[i] # h[i]}
<1> SUFFICES ASSUME T # {} PROVE FALSE
  OBVIOUS
<1>1. PICK i \in T : \A k \in T : i <= k
  <2>1. T \in SUBSET Nat
    OBVIOUS
  <2> HIDE DEF T
  <2> QED BY <2>1, LeastNat
<1>2. i \in 0..n /\ i \in 0..m /\ g[i] # h[i]
  BY <1>1
<1>3. (g[i] = IF i = 0 THEN d ELSE f[g[i - 1]]) /\ (h[i] = IF i = 0 THEN d ELSE f[h[i - 1]])
  BY <1>2 DEF Iterates
<1>4. i # 0
  BY <1>2, <1>3
<1>5. i - 1 \in 0..n /\ ~(i <= i - 1)
  BY <1>2, <1>4
<1>6. g[i - 1] = h[i - 1]
  BY <1>1, <1>5
<1> QED BY <1>2, <1>3, <1>4, <1>6

LEMMA IterateIs ==
  ASSUME NEW f \in [Int -> Int], NEW d \in Int, NEW n \in Nat, NEW m \in Nat, n <= m, NEW h, Iterates(f, d, m, h)
  PROVE  Iterate(f, d, n) = h[n]
<1> DEFINE g == CHOOSE g : Iterates(f, d, n, g)
<1>1. Iterates(f, d, n, g)
  BY IteratesExist
<1>2. Iterate(f, d, n) = g[n]
  BY DEF Iterate, Iterates
<1> HIDE DEF g
<1>3. \A i \in 0..n : g[i] = h[i]
  BY <1>1, IteratesAgree
<1> QED BY <1>2, <1>3

LEMMA IterateInt ==
  ASSUME NEW f \in [Int -> Int], NEW d \in Int, NEW n \in Nat
  PROVE  Iterate(f, d, n) \in Int
<1>1. PICK h \in [0..n -> Int] : Iterates(f, d, n, h)
  BY IteratesExist
<1>3. n \in 0..n /\ n <= n
  OBVIOUS
<1>2. Iterate(f, d, n) = h[n]
  BY <1>1, <1>3, IterateIs
<1> QED BY <1>2, <1>3

LEMMA IterateStep ==
  ASSUME NEW f \in [Int -> Int], NEW d \in Int, NEW n \in Nat
  PROVE  Iterate(f, d, 0) = d /\ Iterate(f, d, n + 1) = f[Iterate(f, d, n)]
<1> DEFINE m == n + 1
<1>0. m \in Nat /\ n <= m /\ 0 <= m /\ 0 \in 0..m /\ m \in 0..m /\ m # 0 /\ m - 1 = n
  OBVIOUS
<1> HIDE DEF m
<1>1. PICK h \in [0..m -> Int] : Iterates(f, d, m, h)
  BY <1>0, IteratesExist
<1>2. Iterate(f, d, 0) = h[0] /\ Iterate(f, d, n) = h[n] /\ Iterate(f, d, m) = h[m]
  <2>1. Iterates(f, d, m, h) /\ m \in Nat /\ m <= m /\ n <= m /\ 0 <= m /\ 0 \in Nat
    BY <1>0, <1>1
  <2>2. Iterate(f, d, 0) = h[0]
    BY <2>1, IterateIs
  <2>3. Iterate(f, d, n) = h[n]
    BY <2>1, IterateIs
  <2>4. Iterate(f, d, m) = h[m]
    BY <2>1, IterateIs
  <2> QED BY <2>2, <2>3, <2>4
<1>3. h[0] = d /\ h[m] = f[h[m - 1]]
  BY <1>0, <1>1 DEF Iterates
<1>4. Iterate(f, d, m) = f[Iterate(f, d, n)]
  BY <1>0, <1>2, <1>3
<1> QED BY <1>2, <1>3, <1>4 DEF m

-----------------------------------------------------------------------------
(* Intervals.                                                              *)

LEMMA BaseIn == ASSUME NEW n \in Int PROVE feedBasePollInterval(n) \in MinPoll..MaxPoll
BY ClampIn, ScheduleAssumption DEF feedBasePollInterval

LEMMA ErrorDelayIn ==
  ASSUME NEW n \in Int, NEW count \in Int
  PROVE  FeedErrorPollDelay(n, count) \in MinPoll..MaxPoll
<1> DEFINE f == [x \in Int |-> Wrap(2 * x, Word)]
           times == Min({Max({count, 1}), 30})
<1>1. f \in [Int -> Int]
  BY WrapInt
<1>2. times \in Nat
  BY MinOf, MaxOf
<1>3. feedBasePollInterval(n) \in Int
  BY BaseIn, ScheduleAssumption
<1>4. Doubled(feedBasePollInterval(n), times, Word) = Iterate(f, feedBasePollInterval(n), times)
  BY DEF Doubled
<1> HIDE DEF f, times
<1>5. Doubled(feedBasePollInterval(n), times, Word) \in Int
  BY <1>1, <1>2, <1>3, <1>4, IterateInt
<1>6. clampPollDuration(Doubled(feedBasePollInterval(n), times, Word), MinPoll, MaxPoll) \in MinPoll..MaxPoll
  BY <1>5, ClampIn, ScheduleAssumption
<1> QED BY <1>6 DEF FeedErrorPollDelay, times

LEMMA AdaptiveIn ==
  ASSUME NEW base \in Nat \ {0}, NEW items \in Nat, NEW quiet \in Nat, NEW top \in Int, NEW hardTop \in Int,
         base <= hardTop, top <= hardTop
  PROVE  AdaptivePollInterval(base, items, quiet, top, hardTop) \in base..hardTop
<1>1. CASE top <= base
  BY <1>1 DEF AdaptivePollInterval
<1>2. CASE ~(top <= base) /\ items > 0
  <2> DEFINE half == (Week \div items) \div 2
  <2>1. half \in Int
    BY <1>2, ScheduleAssumption
  <2>2. AdaptivePollInterval(base, items, quiet, top, hardTop) = clampPollDuration(half, base, top)
    BY <1>2 DEF AdaptivePollInterval
  <2> HIDE DEF half
  <2>3. clampPollDuration(half, base, top) \in base..top
    BY <2>1, <1>2, ClampIn
  <2> QED BY <2>2, <2>3
<1>3. CASE ~(top <= base) /\ ~(items > 0)
  <2> DEFINE grow == [x \in Int |-> IF x < Max({hardTop, top}) THEN 2 * x ELSE x]
             times == Max({quiet \div Week - 1, 0})
             d == Iterate(grow, top, times)
  <2>1. Max({hardTop, top}) = hardTop
    BY MaxOf
  <2>2. grow \in [Int -> Int]
    OBVIOUS
  <2>3. times \in Nat
    <3>1. quiet \div Week - 1 \in Int
      BY ScheduleAssumption
    <3> QED BY <3>1, MaxOf
  <2>4. AdaptivePollInterval(base, items, quiet, top, hardTop) = clampPollDuration(d, base, Max({hardTop, top}))
    BY <1>3 DEF AdaptivePollInterval
  <2> HIDE DEF grow, times
  <2>5. d \in Int
    BY <2>2, <2>3, IterateInt
  <2> HIDE DEF d
  <2>6. clampPollDuration(d, base, hardTop) \in base..hardTop
    BY <2>5, ClampIn
  <2> QED BY <2>1, <2>4, <2>6
<1> QED BY <1>1, <1>2, <1>3

\* What a poll may compute its next check from.
FeedOK == feed.interval \in Nat \ {0} /\ feed.adaptive \in BOOLEAN /\ silent \in Nat

LEMMA OwnIn == ASSUME FeedOK PROVE FeedNextCheckAt \in MinPoll..MaxPoll
BY BaseIn DEF FeedOK, FeedNextCheckAt

LEMMA StretchIn ==
  ASSUME FeedOK, NEW items \in Nat
  PROVE  /\ adaptiveNextCheck(items) \in 0..MaxPoll
         /\ ~feed.adaptive => adaptiveNextCheck(items) = 0
<1> DEFINE top == Min({AdaptiveMax, MaxPoll})
<1>1. top \in Int /\ top <= MaxPoll
  BY MinOf, ScheduleAssumption
<1>2. FeedNextCheckAt \in Nat \ {0} /\ FeedNextCheckAt <= MaxPoll /\ MaxPoll \in Int
  BY OwnIn, ScheduleAssumption
<1> DEFINE quiet == IF items = 0 THEN silent ELSE 0
<1>3. quiet \in Nat
  BY DEF FeedOK
<1>4. adaptiveNextCheck(items) = IF ~feed.adaptive \/ AdaptiveMax <= 0 \/ top <= FeedNextCheckAt THEN 0
         ELSE AdaptivePollInterval(FeedNextCheckAt, items, quiet, top, MaxPoll)
  BY DEF adaptiveNextCheck
<1> HIDE DEF top, quiet
<1>5. AdaptivePollInterval(FeedNextCheckAt, items, quiet, top, MaxPoll) \in FeedNextCheckAt..MaxPoll
  BY <1>1, <1>2, <1>3, AdaptiveIn
<1> QED BY <1>2, <1>4, <1>5

\* A hint only postpones the check, up to the maximum.
LEMMA AfterPollIn ==
  ASSUME FeedOK, NEW items \in Nat, NEW hint \in Int
  PROVE  /\ nextCheckAfterPoll(items, hint) \in FeedNextCheckAt..MaxPoll
         /\ nextCheckAfterPoll(items, hint) >= Min({hint, MaxPoll})
         /\ ~feed.adaptive => nextCheckAfterPoll(items, hint) <= FeedNextCheckAt \/ nextCheckAfterPoll(items, hint) <= Min({hint, MaxPoll})
<1> DEFINE own == Max({FeedNextCheckAt, adaptiveNextCheck(items)})
           most == Min({hint, MaxPoll})
<1>1. FeedNextCheckAt \in Nat \ {0} /\ FeedNextCheckAt <= MaxPoll /\ MaxPoll \in Int
  BY OwnIn, ScheduleAssumption
<1>2. own \in FeedNextCheckAt..MaxPoll /\ (~feed.adaptive => own = FeedNextCheckAt)
  BY <1>1, StretchIn, MaxOf
<1>3. most = IF hint <= MaxPoll THEN hint ELSE MaxPoll
  BY <1>1, MinOf
<1>4. nextCheckAfterPoll(items, hint) = IF hint > own THEN most ELSE own
  BY DEF nextCheckAfterPoll
<1> HIDE DEF own, most
<1>5. nextCheckAfterPoll(items, hint) \in FeedNextCheckAt..MaxPoll /\ nextCheckAfterPoll(items, hint) >= most
  BY <1>1, <1>2, <1>3, <1>4
<1>6. ~feed.adaptive => nextCheckAfterPoll(items, hint) <= FeedNextCheckAt \/ nextCheckAfterPoll(items, hint) <= most
  BY <1>1, <1>2, <1>3, <1>4
<1> QED BY <1>5, <1>6 DEF most

LEMMA SilentIn ==
  ASSUME FeedOK, NEW next \in Int, next <= MaxPoll
  PROVE  silentNextCheck(next) \in next..MaxPoll
<1>1. Min({SilentInterval, MaxPoll}) \in Int /\ Min({SilentInterval, MaxPoll}) <= MaxPoll
  BY MinOf, ScheduleAssumption
<1>2. Max({next, Min({SilentInterval, MaxPoll})}) \in next..MaxPoll
  BY <1>1, MaxOf, ScheduleAssumption
<1> QED BY <1>2, ScheduleAssumption DEF silentNextCheck

LEMMA HintIn ==
  ASSUME NEW h, {h.shared, h.own, h.expires, h.ttl} \subseteq Int
  PROVE  MinNextCheck(h) \in Nat
<1> DEFINE d == IF h.shared # None THEN Wrap(h.shared, Word)
                ELSE IF h.own # None THEN Wrap(h.own, Word) ELSE h.expires
<1>1. d \in Int
  BY WrapInt
<1>2. cacheFreshUntil(h) = IF d <= 0 THEN 0 ELSE Min({d, Day})
  BY DEF cacheFreshUntil
<1> HIDE DEF d
<1>3. cacheFreshUntil(h) \in Nat
  BY <1>1, <1>2, MinOf, ScheduleAssumption
<1>4. feedTTL(h) \in Int
  <2>1. Wrap(h.ttl, Word) \in Int /\ Day \in Int
    BY WrapInt, ScheduleAssumption
  <2>2. Min({Wrap(h.ttl, Word), Day}) \in Int
    BY <2>1, MinOf
  <2> QED BY <2>2 DEF feedTTL
<1> QED BY <1>3, <1>4, MaxOf DEF MinNextCheck

-----------------------------------------------------------------------------
(* Hours.                                                                  *)

WindowOK(w) == w = Always \/ (w.start \in 0..Day - 1 /\ w.end \in 0..Day - 1 /\ w.start # w.end)

LEMMA NextOpenIn ==
  ASSUME NEW w, WindowOK(w), hour \in 0..Day - 1, NEW d \in Nat
  PROVE  NextOpen(w, d) \in d..d + Day - 1
<1> DEFINE h == (hour + d) % Day
<1>1. Day \in Nat \ {0}
  BY ScheduleAssumption
<1>2. h \in 0..Day - 1
  BY <1>1, ModIn
<1>3. NextOpen(w, d) = IF w = Always \/ Contains(w, h) THEN d
                       ELSE d + (w.start - h) + (IF w.start - h > 0 THEN 0 ELSE Day)
  BY DEF NextOpen
<1> HIDE DEF h
<1>4. CASE w = Always \/ Contains(w, h)
  BY <1>1, <1>3, <1>4
<1>5. CASE ~(w = Always \/ Contains(w, h))
  <2>1. w.start \in 0..Day - 1 /\ w.end \in 0..Day - 1 /\ w.start # w.end
    BY <1>5 DEF WindowOK
  <2>2. w.start # h
    BY <1>2, <1>5, <2>1 DEF Contains
  <2> QED BY <1>1, <1>2, <1>3, <1>5, <2>1, <2>2
<1> QED BY <1>4, <1>5

\* Outside the hours NextOpen is the first tick that is inside them.
LEMMA FirstOpen ==
  ASSUME NEW w, WindowOK(w), w # Always, hour \in 0..Day - 1, ~Contains(w, hour), NEW n, n = NextOpen(w, 0)
  PROVE  /\ Contains(w, (hour + n) % Day)
         /\ \A d \in 0..n - 1 : ~Contains(w, (hour + d) % Day)
<1>1. Day \in Nat \ {0} /\ w.start \in 0..Day - 1 /\ w.end \in 0..Day - 1 /\ w.start # w.end
  BY ScheduleAssumption DEF WindowOK
<1>2. (hour + 0) % Day = hour
  BY <1>1, ModSmall
<1>3. n = (w.start - hour) + (IF w.start - hour > 0 THEN 0 ELSE Day)
  BY <1>1, <1>2 DEF NextOpen
<1>4. Contains(w, w.start) /\ w.start # hour
  BY <1>1 DEF Contains
<1>5. CASE w.start > hour
  <2>1. n = w.start - hour
    BY <1>1, <1>3, <1>5
  <2>2. \A d \in 0..n : (hour + d) % Day = hour + d
    <3> SUFFICES ASSUME NEW d \in 0..n PROVE (hour + d) % Day = hour + d
      OBVIOUS
    <3>1. PICK x \in 0..Day - 1 : x = hour + d
      BY <1>1, <2>1
    <3>2. x % Day = x
      BY <1>1, ModSmall
    <3> QED BY <3>1, <3>2
  <2>3. (hour + n) % Day = w.start
    BY <1>1, <1>5, <2>1, <2>2
  <2>4. \A d \in 0..n - 1 : ~Contains(w, hour + d)
    BY <1>1, <1>5, <2>1 DEF Contains
  <2>5. \A d \in 0..n - 1 : d \in 0..n
    BY <1>1, <2>1
  <2> QED BY <1>4, <2>2, <2>3, <2>4, <2>5
<1>6. CASE ~(w.start > hour)
  <2>1. n = w.start - hour + Day /\ w.start < hour /\ w.start < w.end /\ hour >= w.end
    BY <1>1, <1>3, <1>4, <1>6 DEF Contains
  <2>2. \A d \in 0..n : (hour + d) % Day = IF hour + d < Day THEN hour + d ELSE hour + d - Day
    <3> SUFFICES ASSUME NEW d \in 0..n
                 PROVE  (hour + d) % Day = IF hour + d < Day THEN hour + d ELSE hour + d - Day
      OBVIOUS
    <3>1. CASE hour + d < Day
      <4>1. PICK x \in 0..Day - 1 : x = hour + d
        BY <1>1, <3>1
      <4>2. x % Day = x
        BY <1>1, ModSmall
      <4> QED BY <3>1, <4>1, <4>2
    <3>2. CASE ~(hour + d < Day)
      <4>1. PICK x \in Day..2 * Day - 1 : x = hour + d
        BY <1>1, <2>1, <3>2
      <4>2. x % Day = x - Day
        BY <1>1, ModNext
      <4> QED BY <1>1, <3>2, <4>1, <4>2
    <3> QED BY <3>1, <3>2
  <2>3. n \in 0..n /\ ~(hour + n < Day) /\ hour + n - Day = w.start
    BY <1>1, <2>1
  <2>4. \A d \in 0..n - 1 : d \in 0..n /\ (hour + d < Day => hour + d >= w.end)
                            /\ (~(hour + d < Day) => hour + d - Day < w.start)
    BY <1>1, <2>1
  <2>5. (hour + n) % Day = w.start
    BY <2>2, <2>3
  <2>6. \A d \in 0..n - 1 : ~Contains(w, (hour + d) % Day)
    <3> SUFFICES ASSUME NEW d \in 0..n - 1 PROVE ~Contains(w, (hour + d) % Day)
      OBVIOUS
    <3> DEFINE t == (hour + d) % Day
    <3>1. t = IF hour + d < Day THEN hour + d ELSE hour + d - Day
      BY <2>2, <2>4
    <3> HIDE DEF t
    <3>2. t \in Int /\ (t >= w.end \/ t < w.start)
      BY <1>1, <2>1, <2>4, <3>1
    <3>3. ~Contains(w, t)
      BY <1>1, <2>1, <3>2 DEF Contains
    <3> QED BY <3>3 DEF t
  <2> QED BY <1>4, <2>5, <2>6
<1> QED BY <1>5, <1>6

-----------------------------------------------------------------------------
(* The schedule of a feed.                                                 *)

\* A feed is broken exactly when its errors have reached the threshold.
Breaker == broken <=> errors >= Threshold
SchedInv == ScheduleSound /\ Breaker

LEMMA LagsIn == Max(Lags) \in Nat /\ \A lag \in Lags : lag <= Max(Lags)
<1>1. PICK most \in Lags : \A lag \in Lags : lag <= most
  BY ScheduleAssumption
<1>2. \A x \in Lags : x \in Nat
  BY ScheduleAssumption
<1>3. \A x \in Lags : (\A y \in Lags : x >= y) <=> x = most
  BY <1>1, <1>2
<1>4. Max(Lags) = most
  BY <1>3 DEF Max
<1> QED BY <1>1, <1>2, <1>4

LEMMA SilentMax == MaxSilent \in Nat
BY MaxOf, ScheduleAssumption DEF MaxSilent

LEMMA TypesGive ==
  ASSUME SchedTypeOK
  PROVE  /\ FeedOK /\ WindowOK(window) /\ hour \in 0..Day - 1 /\ plan \in Plans
         /\ errors \in 0..Threshold /\ silent \in 0..MaxSilent /\ wait \in Int
         /\ broken \in BOOLEAN /\ halted \in BOOLEAN
<1>1. plan.intervals \subseteq Nat \ {0} /\ plan.adaptive \subseteq BOOLEAN
  BY ScheduleAssumption DEF SchedTypeOK
<1>2. feed.interval \in plan.intervals /\ feed.adaptive \in plan.adaptive
  BY DEF SchedTypeOK
<1>3. silent \in 0..MaxSilent
  BY DEF SchedTypeOK
<1>4. FeedOK
  BY <1>1, <1>2, <1>3, SilentMax DEF FeedOK
<1> QED BY <1>3, <1>4, LagsIn, ScheduleAssumption DEF SchedTypeOK, WindowOK, ParsePollHours

\* The types after a step that stays with its feed, window and hour.
LEMMA TypeStep ==
  ASSUME SchedTypeOK, UNCHANGED <<plan, feed, window, hour>>,
         wait' \in 0..MaxPoll + Day, silent' \in {silent, 0}, errors' \in 0..Threshold,
         broken' \in BOOLEAN, halted' \in BOOLEAN, lasterr' \in {"none", "error", "layout"}
  PROVE  SchedTypeOK'
<1>1. silent' \in 0..MaxSilent
  BY SilentMax DEF SchedTypeOK
<1>2. wait' \in (-Max(Lags))..MaxPoll + Day
  BY LagsIn, ScheduleAssumption
<1>3. plan' \in Plans /\ feed' \in [interval : plan'.intervals, adaptive : plan'.adaptive] /\ ParsePollHours(window') /\ hour' \in 0..Day - 1
  BY DEF SchedTypeOK
<1> QED BY <1>1, <1>2, <1>3 DEF SchedTypeOK, ParsePollHours

LEMMA PlanGives ==
  ASSUME plan \in Plans
  PROVE  /\ \A t \in plan.texts : t.start \in Int /\ t.end \in Int
         /\ \A h \in plan.headers : {h.shared, h.own, h.expires, h.ttl} \subseteq Int
         /\ plan.delays \subseteq Nat
BY ScheduleAssumption

LEMMA ItemsIn == \A i \in ItemsNow : i \in Nat
BY ScheduleAssumption DEF ItemsNow

LEMMA NothingSound ==
  ASSUME last'.kind \in {"none", "hours"}
  PROVE  (WithinBounds /\ HoursHonoured /\ RetryAfterHeld /\ SilenceEnds)'
BY DEF WithinBounds, HoursHonoured, RetryAfterHeld, SilenceEnds

LEMMA SchedStarts == ASSUME SchedInit PROVE SchedInv
<1>1. silent \in 0..MaxSilent
  BY ScheduleAssumption DEF SchedInit
<1>2. last.kind = "none"
  BY DEF SchedInit, Nothing
<1>3. 0 \in (-Max(Lags))..MaxPoll + Day /\ 0 \in 0..Day - 1 /\ 0 \in 0..Threshold /\ ~(0 >= Threshold)
  BY LagsIn, ScheduleAssumption
<1>4. SchedTypeOK
  BY <1>1, <1>3 DEF SchedInit, SchedTypeOK
<1>5. Breaker
  <2>1. errors = 0 /\ broken = FALSE
    BY DEF SchedInit
  <2> QED BY <1>3, <2>1 DEF Breaker
<1> QED BY <1>2, <1>4, <1>5 DEF SchedInv, ScheduleSound, WithinBounds, HoursHonoured, RetryAfterHeld, SilenceEnds

\* What a lag leaves.
LEMMA ElapseStep ==
  ASSUME SchedInv, NEW lag \in Lags, Elapse(lag)
  PROVE  SchedInv'
<1>1. FeedOK /\ WindowOK(window) /\ hour \in 0..Day - 1 /\ silent \in 0..MaxSilent /\ wait \in Int /\ wait > 0
      /\ SchedTypeOK /\ lag \in Nat /\ Day \in Nat \ {0} /\ MaxSilent \in Nat
  BY TypesGive, SilentMax, ScheduleAssumption DEF SchedInv, ScheduleSound, Elapse
<1>2. wait' = wait - (wait + lag) /\ hour' = (hour + (wait + lag)) % Day /\ silent' = Min({silent + (wait + lag), MaxSilent})
      /\ last' = (IF last.kind = "fail" THEN last ELSE Nothing)
      /\ UNCHANGED <<plan, feed, window, errors, broken, halted, lasterr>>
  BY DEF Elapse
<1>3. hour' \in 0..Day - 1
  BY <1>1, <1>2, ModIn
<1>4. silent' \in 0..MaxSilent
  BY <1>1, <1>2, MinOf
<1>5. wait' \in (-Max(Lags))..MaxPoll + Day
  BY <1>1, <1>2, LagsIn, ScheduleAssumption
<1>6. plan' \in Plans /\ feed' \in [interval : plan'.intervals, adaptive : plan'.adaptive] /\ ParsePollHours(window')
      /\ errors' \in 0..Threshold /\ {broken', halted'} \subseteq BOOLEAN /\ lasterr' \in {"none", "error", "layout"}
  BY <1>1, <1>2 DEF SchedTypeOK
<1>7. SchedTypeOK'
  BY <1>3, <1>4, <1>5, <1>6 DEF SchedTypeOK, ParsePollHours
<1>8. (WithinBounds /\ HoursHonoured /\ RetryAfterHeld /\ SilenceEnds)'
  <2>1. CASE last.kind = "fail"
    BY <1>2, <2>1 DEF SchedInv, ScheduleSound, WithinBounds, HoursHonoured, RetryAfterHeld, SilenceEnds
  <2>2. CASE last.kind # "fail"
    <3>1. last'.kind = "none"
      BY <1>2, <2>2 DEF Nothing
    <3> QED BY <3>1, NothingSound
  <2> QED BY <2>1, <2>2
<1>9. Breaker'
  BY <1>2 DEF SchedInv, Breaker
<1> QED BY <1>7, <1>8, <1>9 DEF SchedInv, ScheduleSound

LEMMA OutsideStep ==
  ASSUME SchedInv, OutsidePollWindow
  PROVE  SchedInv'
<1>1. FeedOK /\ WindowOK(window) /\ hour \in 0..Day - 1 /\ SchedTypeOK /\ errors \in 0..Threshold
      /\ broken \in BOOLEAN /\ halted \in BOOLEAN /\ lasterr \in {"none", "error", "layout"}
  BY TypesGive DEF SchedInv, ScheduleSound, SchedTypeOK
<1>2. window # Always /\ ~Contains(window, hour) /\ wait' = NextOpen(window, 0)
      /\ last' = [Nothing EXCEPT !.kind = "outside", !.wait = NextOpen(window, 0), !.base = FeedNextCheckAt]
      /\ UNCHANGED <<plan, feed, window, hour, halted, silent, errors, broken, lasterr>>
  BY DEF OutsidePollWindow, Told, Rows
<1>3. wait' \in 0..0 + Day - 1
  BY <1>1, <1>2, NextOpenIn
<1>4. SchedTypeOK'
  <2>1. wait' \in 0..MaxPoll + Day
    BY <1>3, ScheduleAssumption
  <2> QED BY <1>1, <1>2, <2>1, TypeStep
<1>5. last'.kind = "outside"
  BY <1>2 DEF Nothing
<1>6. Contains(window, (hour + wait') % Day) /\ \A d \in 0..wait' - 1 : ~Contains(window, (hour + d) % Day)
  BY <1>1, <1>2, FirstOpen
<1>7. HoursHonoured'
  BY <1>2, <1>5, <1>6 DEF HoursHonoured, Contains
<1>8. (WithinBounds /\ RetryAfterHeld /\ SilenceEnds)'
  BY <1>5 DEF WithinBounds, RetryAfterHeld, SilenceEnds
<1>9. Breaker'
  BY <1>2 DEF SchedInv, Breaker
<1> QED BY <1>4, <1>7, <1>8, <1>9 DEF SchedInv, ScheduleSound

\* A fetch that stored something or found nothing new.
LEMMA FetchedStep ==
  ASSUME SchedInv, NEW manual \in BOOLEAN, NEW blind \in BOOLEAN, NEW new \in BOOLEAN, NEW h \in plan.headers,
         RecordFetched(manual, blind, new, h)
  PROVE  SchedInv'
<1>1. /\ FeedOK /\ WindowOK(window) /\ hour \in 0..Day - 1 /\ SchedTypeOK /\ plan \in Plans /\ halted \in BOOLEAN
      /\ MinPoll \in Nat /\ MaxPoll \in Nat /\ Day \in Nat \ {0}
  BY TypesGive, ScheduleAssumption DEF SchedInv, ScheduleSound
<1> DEFINE hint == MinNextCheck(h)
           w == IF blind THEN Always ELSE window
           first(i) == nextCheckAfterPoll(i, hint)
           then(i) == IF Woke(new, first(i)) THEN nextCheckAfterPoll(Max({i, 1}), hint) ELSE silentNextCheck(first(i))
<1>2. PICK i \in ItemsNow :
        /\ wait' = NextOpen(w, then(i))
        /\ last' = [kind |-> "ok", wait |-> NextOpen(w, then(i)), base |-> FeedNextCheckAt, hint |-> hint, count |-> 0,
                    open |-> manual \/ InHours, blind |-> blind, woke |-> new /\ silent >= SilentAfter /\ ~feed.adaptive]
  BY DEF RecordFetched
<1>3. /\ Fetches(manual, blind) /\ silent' = (IF new THEN 0 ELSE silent)
      /\ errors' = 0 /\ broken' = FALSE /\ lasterr' = "none" /\ UNCHANGED <<plan, feed, window, hour, halted>>
  BY DEF RecordFetched, Rows
<1>4. hint \in Nat
  BY <1>1, PlanGives, HintIn
<1>5. i \in Nat /\ Max({i, 1}) \in Nat
  BY ItemsIn, MaxOf
<1>6. FeedNextCheckAt \in MinPoll..MaxPoll
  BY <1>1, OwnIn
<1> DEFINE low == Min({hint, MaxPoll})
<1>7. low \in Int
  BY <1>1, <1>4, MinOf
<1> HIDE DEF hint, w, low
<1>8. /\ first(i) \in FeedNextCheckAt..MaxPoll /\ first(i) >= low
      /\ ~feed.adaptive => first(i) <= FeedNextCheckAt \/ first(i) <= low
  <2>1. hint \in Int
    BY <1>4
  <2>2. first(i) \in FeedNextCheckAt..MaxPoll /\ first(i) >= Min({hint, MaxPoll})
    BY <1>1, <1>5, <2>1, AfterPollIn
  <2>3. ~feed.adaptive => first(i) <= FeedNextCheckAt \/ first(i) <= Min({hint, MaxPoll})
    BY <1>1, <1>5, <2>1, AfterPollIn
  <2> QED BY <2>2, <2>3 DEF low
<1>9. /\ nextCheckAfterPoll(Max({i, 1}), hint) \in FeedNextCheckAt..MaxPoll /\ nextCheckAfterPoll(Max({i, 1}), hint) >= low
      /\ ~feed.adaptive => nextCheckAfterPoll(Max({i, 1}), hint) <= FeedNextCheckAt \/ nextCheckAfterPoll(Max({i, 1}), hint) <= low
  <2>1. PICK j \in Nat : j = Max({i, 1})
    BY <1>5
  <2>2. /\ nextCheckAfterPoll(j, hint) \in FeedNextCheckAt..MaxPoll /\ nextCheckAfterPoll(j, hint) >= low
        /\ ~feed.adaptive => nextCheckAfterPoll(j, hint) <= FeedNextCheckAt \/ nextCheckAfterPoll(j, hint) <= low
    <3>1. hint \in Int
      BY <1>4
    <3>2. nextCheckAfterPoll(j, hint) \in FeedNextCheckAt..MaxPoll /\ nextCheckAfterPoll(j, hint) >= Min({hint, MaxPoll})
      BY <1>1, <3>1, AfterPollIn
    <3>3. ~feed.adaptive => nextCheckAfterPoll(j, hint) <= FeedNextCheckAt
                            \/ nextCheckAfterPoll(j, hint) <= Min({hint, MaxPoll})
      BY <1>1, <3>1, AfterPollIn
    <3> QED BY <3>2, <3>3 DEF low
  <2> QED BY <2>1, <2>2
<1>10. silentNextCheck(first(i)) \in first(i)..MaxPoll
  BY <1>1, <1>6, <1>8, SilentIn
<1> DEFINE next == then(i)
<1>11. next \in FeedNextCheckAt..MaxPoll /\ next >= low
  BY <1>1, <1>6, <1>7, <1>8, <1>9, <1>10
\* A feed that woke up is back on its own interval.
<1>12. new /\ ~feed.adaptive => next <= FeedNextCheckAt \/ next <= low
  BY <1>1, <1>6, <1>7, <1>8, <1>9, <1>10 DEF Woke
<1> HIDE DEF next
<1>13. wait' = NextOpen(w, next) /\ last'.wait = wait' /\ last'.kind = "ok" /\ last'.base = FeedNextCheckAt /\ last'.hint = hint
  BY <1>2 DEF next
<1>14. last'.open = (manual \/ InHours) /\ last'.blind = blind /\ last'.woke = (new /\ silent >= SilentAfter /\ ~feed.adaptive)
  BY <1>2
<1>15. wait' \in next..next + Day - 1
  <2>1. WindowOK(w)
    BY <1>1 DEF w, WindowOK
  <2>2. next \in Nat
    BY <1>1, <1>6, <1>11
  <2> QED BY <1>1, <1>13, <2>1, <2>2, NextOpenIn
<1>16. SchedTypeOK'
  <2>1. wait' \in 0..MaxPoll + Day
    BY <1>1, <1>6, <1>11, <1>15
  <2>2. 0 \in 0..Threshold
    BY ScheduleAssumption
  <2> QED BY <1>1, <1>3, <2>1, <2>2, TypeStep
<1>17. WithinBounds'
  <2>1. last'.wait >= last'.base /\ last'.wait >= low /\ last'.wait \in MinPoll..MaxPoll + Day - 1
    BY <1>1, <1>6, <1>7, <1>11, <1>13, <1>15
  <2> QED BY <1>13, <2>1 DEF WithinBounds, low
<1>18. HoursHonoured'
  BY <1>3, <1>13, <1>14 DEF HoursHonoured, Fetches
<1>19. RetryAfterHeld'
  BY <1>13 DEF RetryAfterHeld
<1>20. SilenceEnds'
  <2> SUFFICES ASSUME last'.woke, window' = Always
               PROVE  last'.wait <= Max({last'.base, Min({AdaptiveMax, MaxPoll}), Min({last'.hint, MaxPoll})})
    BY DEF SilenceEnds
  <2>1. new /\ ~feed.adaptive
    BY <1>14
  <2>2. w = Always
    BY <1>3 DEF w
  <2>3. last'.wait = next
    BY <1>13, <2>2 DEF NextOpen
  <2> DEFINE top == Min({AdaptiveMax, MaxPoll})
             S == {FeedNextCheckAt, top, low}
  <2>4. top \in Int
    BY <1>1, MinOf, ScheduleAssumption
  <2>5. FeedNextCheckAt <= Max(S) /\ low <= Max(S) /\ Max(S) \in Int
    <3> HIDE DEF top
    <3>1. FeedNextCheckAt \in Int
      BY <1>1, <1>6
    <3>2. PICK m \in S : \A x \in S : x <= m
      BY <1>7, <2>4, <3>1
    <3>3. \A x \in S : x \in Int
      BY <1>7, <2>4, <3>1
    <3>4. \A x \in S : (\A y \in S : x >= y) <=> x = m
      BY <3>2, <3>3
    <3>5. Max(S) = m
      BY <3>4 DEF Max
    <3> QED BY <3>2, <3>3, <3>5
  <2>6. next <= Max(S)
    BY <1>1, <1>6, <1>7, <1>11, <1>12, <2>1, <2>5
  <2> QED BY <1>13, <2>3, <2>6 DEF low
<1>21. Breaker'
  BY <1>3, ScheduleAssumption DEF Breaker
<1> QED BY <1>16, <1>17, <1>18, <1>19, <1>20, <1>21 DEF SchedInv, ScheduleSound

LEMMA FailedStep ==
  ASSUME SchedInv, NEW manual \in BOOLEAN, NEW bot \in BOOLEAN, NEW gone \in BOOLEAN, Failed(manual, bot, gone)
  PROVE  SchedInv'
<1>1. /\ FeedOK /\ SchedTypeOK /\ errors \in 0..Threshold /\ halted \in BOOLEAN /\ broken \in BOOLEAN
      /\ MinPoll \in Nat /\ MaxPoll \in Nat /\ MinPoll <= MaxPoll /\ Day \in Nat \ {0} /\ Threshold \in Nat \ {0}
  BY TypesGive, ScheduleAssumption DEF SchedInv, ScheduleSound
<1> DEFINE n == (IF manual THEN 0 ELSE errors) + 1
           next == IF bot THEN MaxPoll ELSE FeedErrorPollDelay(feed.interval, n)
           kind == IF bot THEN "bot" ELSE "fail"
<1>2. /\ Fetches(manual, FALSE) /\ errors' = n /\ broken' = (n >= Threshold) /\ lasterr' = "error" /\ wait' = next
      /\ last' = [Nothing EXCEPT !.kind = kind, !.wait = next, !.base = FeedNextCheckAt, !.count = n, !.open = manual \/ InHours]
      /\ halted' = (halted \/ gone) /\ UNCHANGED <<plan, feed, window, hour, silent>>
  BY DEF Failed
<1>3. n \in 1..Threshold
  <2>1. CASE manual
    BY <1>1, <2>1
  <2>2. CASE ~manual
    <3>1. ~broken
      BY <1>2, <2>2 DEF Fetches, MayPoll
    <3>2. errors < Threshold
      BY <1>1, <3>1 DEF SchedInv, Breaker
    <3> QED BY <1>1, <2>2, <3>2
  <2> QED BY <2>1, <2>2
<1> HIDE DEF n
<1>4. next \in MinPoll..MaxPoll
  <2>1. FeedErrorPollDelay(feed.interval, n) \in MinPoll..MaxPoll
    <3>1. n \in Int /\ feed.interval \in Int
      BY <1>1, <1>3 DEF FeedOK
    <3> QED BY <3>1, ErrorDelayIn
  <2> QED BY <1>1, <2>1
<1> HIDE DEF next
<1>5. last'.kind = kind /\ last'.wait = next /\ last'.open = (manual \/ InHours)
  BY <1>2 DEF Nothing
<1>6. SchedTypeOK'
  <2>1. wait' \in 0..MaxPoll + Day
    BY <1>1, <1>2, <1>4
  <2>2. errors' \in 0..Threshold /\ broken' \in BOOLEAN /\ halted' \in BOOLEAN
    BY <1>1, <1>2, <1>3
  <2> QED BY <1>1, <1>2, <2>1, <2>2, TypeStep
<1>7. WithinBounds'
  <2>1. last'.wait \in MinPoll..MaxPoll + Day - 1 /\ last'.wait <= MaxPoll
    BY <1>1, <1>4, <1>5
  <2> QED BY <1>5, <2>1 DEF WithinBounds
<1>8. HoursHonoured'
  <2>1. last'.open
    BY <1>2, <1>5 DEF Fetches
  <2>2. last'.kind \in {"bot", "fail"}
    BY <1>5
  <2> QED BY <2>1, <2>2 DEF HoursHonoured
<1>9. (RetryAfterHeld /\ SilenceEnds)'
  BY <1>5 DEF RetryAfterHeld, SilenceEnds
<1>10. Breaker'
  BY <1>2 DEF Breaker
<1> QED BY <1>6, <1>7, <1>8, <1>9, <1>10 DEF SchedInv, ScheduleSound

\* The next ordinary check, without a poll.
LEMMA OrdinaryCheck ==
  ASSUME SchedInv, NEW kind \in {"layout", "proxy"}, NEW i \in ItemsNow,
         wait' = nextCheckAfterPoll(i, 0), Told(kind, nextCheckAfterPoll(i, 0)),
         UNCHANGED <<plan, feed, window, hour, halted, silent>>,
         errors' \in {errors, 0}, broken' \in BOOLEAN, lasterr' \in {"none", "error", "layout"}, Breaker'
  PROVE  SchedInv'
<1>1. /\ FeedOK /\ SchedTypeOK /\ errors \in 0..Threshold /\ halted \in BOOLEAN
      /\ MinPoll \in Nat /\ MaxPoll \in Nat /\ Day \in Nat \ {0} /\ Threshold \in Nat \ {0}
  BY TypesGive, ScheduleAssumption DEF SchedInv, ScheduleSound
<1>2. FeedNextCheckAt \in MinPoll..MaxPoll /\ nextCheckAfterPoll(i, 0) \in FeedNextCheckAt..MaxPoll
  <2>1. i \in Nat /\ 0 \in Int
    BY ItemsIn
  <2> QED BY <1>1, <2>1, OwnIn, AfterPollIn
<1>3. last'.kind = kind /\ last'.wait = wait' /\ last'.base = FeedNextCheckAt
  BY DEF Told, Nothing
<1>4. SchedTypeOK'
  <2>1. wait' \in 0..MaxPoll + Day /\ errors' \in 0..Threshold
    BY <1>1, <1>2
  <2> QED BY <1>1, <2>1, TypeStep
<1>5. WithinBounds'
  <2>1. last'.wait >= last'.base /\ last'.wait \in MinPoll..MaxPoll + Day - 1 /\ last'.wait <= MaxPoll
    BY <1>1, <1>2, <1>3
  <2> QED BY <1>3, <2>1 DEF WithinBounds
<1>6. (HoursHonoured /\ RetryAfterHeld /\ SilenceEnds)'
  BY <1>3 DEF HoursHonoured, RetryAfterHeld, SilenceEnds
<1> QED BY <1>4, <1>5, <1>6 DEF SchedInv, ScheduleSound

LEMMA LayoutStep ==
  ASSUME SchedInv, NEW manual \in BOOLEAN, LayoutDeferred(manual)
  PROVE  SchedInv'
<1>1. PICK i \in ItemsNow : wait' = nextCheckAfterPoll(i, 0) /\ Told("layout", nextCheckAfterPoll(i, 0))
  BY DEF LayoutDeferred
<1>2. /\ lasterr' = "layout" /\ errors' = (IF manual THEN 0 ELSE errors) /\ broken' = (broken /\ ~manual)
      /\ UNCHANGED <<plan, feed, window, hour, halted, silent>>
  BY DEF LayoutDeferred, Rows
<1>3. broken \in BOOLEAN
  BY TypesGive DEF SchedInv, ScheduleSound
<1>4. Breaker'
  <2>1. CASE manual
    <3>1. ~broken' /\ errors' = 0
      BY <1>2, <2>1, Zenon
    <3>2. ~(0 >= Threshold)
      BY ScheduleAssumption
    <3> QED BY <3>1, <3>2 DEF Breaker
  <2>2. CASE ~manual
    BY <1>2, <1>3, <2>2 DEF SchedInv, Breaker
  <2> QED BY <2>1, <2>2
<1> QED BY <1>1, <1>2, <1>3, <1>4, OrdinaryCheck

LEMMA ProxyStep ==
  ASSUME SchedInv, ProxyUnavailable
  PROVE  SchedInv'
<1>1. PICK i \in ItemsNow : wait' = nextCheckAfterPoll(i, 0) /\ Told("proxy", nextCheckAfterPoll(i, 0))
  BY DEF ProxyUnavailable
<1>2. UNCHANGED <<plan, feed, window, hour, halted, silent, errors, broken, lasterr>>
  BY DEF ProxyUnavailable, Rows
<1>3. broken \in BOOLEAN /\ lasterr \in {"none", "error", "layout"}
  BY DEF SchedInv, ScheduleSound, SchedTypeOK
<1>4. Breaker'
  BY <1>2 DEF SchedInv, Breaker
<1> QED BY <1>1, <1>2, <1>3, <1>4, OrdinaryCheck

\* A reset of the breaker leaves the schedule as it is.
LEMMA ResetStep ==
  ASSUME SchedInv, errors' = 0, broken' = FALSE, halted' \in {halted, FALSE},
         UNCHANGED <<plan, feed, window, hour, wait, silent, lasterr, last>>
  PROVE  SchedInv'
<1>1. 0 \in 0..Threshold /\ ~(0 >= Threshold)
  BY ScheduleAssumption
<1>2. SchedTypeOK /\ halted \in BOOLEAN
  BY TypesGive DEF SchedInv, ScheduleSound
<1>3. {broken', halted'} \subseteq BOOLEAN
  BY <1>2
<1>4. SchedTypeOK'
  BY <1>1, <1>2, <1>3 DEF SchedTypeOK, ParsePollHours
<1>5. (WithinBounds /\ HoursHonoured /\ RetryAfterHeld /\ SilenceEnds)'
  BY DEF SchedInv, ScheduleSound, WithinBounds, HoursHonoured, RetryAfterHeld, SilenceEnds, Contains
<1>6. Breaker'
  BY <1>1 DEF Breaker
<1> QED BY <1>4, <1>5, <1>6 DEF SchedInv, ScheduleSound

LEMMA LimitedStep ==
  ASSUME SchedInv, NEW d \in plan.delays, RateLimited(d)
  PROVE  SchedInv'
<1>1. /\ SchedTypeOK /\ plan \in Plans /\ errors \in 0..Threshold /\ halted \in BOOLEAN /\ broken \in BOOLEAN
      /\ lasterr \in {"none", "error", "layout"} /\ MaxPoll \in Nat /\ Day \in Nat \ {0} /\ Word \in Nat \ {0}
  BY TypesGive, ScheduleAssumption DEF SchedInv, ScheduleSound, SchedTypeOK
<1>2. d \in Nat
  BY <1>1, PlanGives
<1> DEFINE r == Wrap(d, Word)
           until == Max({parseRetryAfter(d), 0})
<1>3. /\ wait' = until /\ last' = [Nothing EXCEPT !.kind = "limited", !.wait = until, !.hint = d]
      /\ UNCHANGED <<plan, feed, window, hour, halted, silent, errors, broken, lasterr>>
  BY DEF RateLimited, Rows
<1>4. r \in Int /\ (d < Word \div 2 => r = d)
  BY <1>2, WrapInt, WrapSmall
<1>5. parseRetryAfter(d) = IF r <= Day THEN r ELSE Day
  <2>1. parseRetryAfter(d) = Min({r, Day})
    BY DEF parseRetryAfter
  <2> HIDE DEF r
  <2> QED BY <1>1, <1>4, <2>1, MinOf
<1> HIDE DEF r
<1>6. until = IF parseRetryAfter(d) >= 0 THEN parseRetryAfter(d) ELSE 0
  <2>1. parseRetryAfter(d) \in Int
    BY <1>1, <1>4, <1>5
  <2> QED BY <2>1, MaxOf
<1> HIDE DEF until
<1>7. until \in 0..Day
  BY <1>1, <1>4, <1>5, <1>6
<1>8. last'.kind = "limited" /\ last'.wait = until /\ last'.hint = d
  BY <1>3 DEF Nothing
<1>9. SchedTypeOK'
  <2>1. wait' \in 0..MaxPoll + Day
    BY <1>1, <1>3, <1>7
  <2> QED BY <1>1, <1>3, <2>1, TypeStep
<1>10. RetryAfterHeld'
  <2> SUFFICES ASSUME d < Word \div 2 PROVE until = Min({d, Day})
    BY <1>8 DEF RetryAfterHeld
  <2>1. Min({d, Day}) = IF d <= Day THEN d ELSE Day
    BY <1>1, <1>2, MinOf
  <2> QED BY <1>1, <1>2, <1>4, <1>5, <1>6, <2>1
<1>11. (WithinBounds /\ HoursHonoured /\ SilenceEnds)'
  BY <1>8 DEF WithinBounds, HoursHonoured, SilenceEnds
<1>12. Breaker'
  BY <1>3 DEF SchedInv, Breaker
<1> QED BY <1>9, <1>10, <1>11, <1>12 DEF SchedInv, ScheduleSound

LEMMA HoursStep ==
  ASSUME SchedInv, NEW t \in plan.texts, SetCategoryPollHours(t)
  PROVE  SchedInv'
<1>1. SchedTypeOK /\ FeedOK
  BY TypesGive DEF SchedInv, ScheduleSound
<1>2. /\ ParsePollHours(t) /\ window' = t /\ wait' = Min({wait, feed.interval}) /\ last' = [Nothing EXCEPT !.kind = "hours"]
      /\ UNCHANGED <<plan, feed, hour, silent, errors, broken, halted, lasterr>>
  BY DEF SetCategoryPollHours
<1>3. wait \in (-Max(Lags))..MaxPoll + Day /\ feed.interval \in Nat
  BY <1>1 DEF SchedTypeOK, FeedOK
<1>4. wait' \in (-Max(Lags))..MaxPoll + Day
  <2>1. wait \in Int /\ feed.interval \in Int
    BY <1>1, <1>3, TypesGive
  <2>2. wait' = IF wait <= feed.interval THEN wait ELSE feed.interval
    BY <1>2, <2>1, MinOf
  <2> QED BY <1>3, <2>1, <2>2, LagsIn, ScheduleAssumption
<1>5. SchedTypeOK'
  BY <1>1, <1>2, <1>4 DEF SchedTypeOK, ParsePollHours
<1>6. last'.kind = "hours"
  BY <1>2 DEF Nothing
<1>7. Breaker'
  BY <1>2 DEF SchedInv, Breaker
<1> QED BY <1>5, <1>6, <1>7, NothingSound DEF SchedInv, ScheduleSound

LEMMA PollsStep ==
  ASSUME SchedInv, NEW manual \in BOOLEAN, Polls(manual)
  PROVE  SchedInv'
<1>1. CASE \E h \in plan.headers, new \in BOOLEAN, blind \in {FALSE, Happens("blind")} : RecordFetched(manual, blind, new, h)
  <2>1. PICK h \in plan.headers, new \in BOOLEAN, blind \in BOOLEAN : RecordFetched(manual, blind, new, h)
    <3>0. ("blind" \in plan.events) \in BOOLEAN
      OBVIOUS
    <3>1. {FALSE, Happens("blind")} \subseteq BOOLEAN
      BY <3>0 DEF Happens
    <3> QED BY <1>1, <3>1
  <2> QED BY <2>1, FetchedStep
<1>2. CASE \E o \in {"fail", "bot", "gone"} : Happens(o) /\ Failed(manual, o = "bot", o = "gone")
  <2>1. PICK o \in {"fail", "bot", "gone"} : Failed(manual, o = "bot", o = "gone")
    BY <1>2
  <2>2. PICK bot \in BOOLEAN, gone \in BOOLEAN : Failed(manual, bot, gone)
    BY <2>1
  <2> QED BY <2>2, FailedStep
<1>3. CASE LayoutDeferred(manual)
  BY <1>3, LayoutStep
<1> QED BY <1>1, <1>2, <1>3 DEF Polls

LEMMA SchedStep ==
  ASSUME SchedInv, [SchedNext]_schedVars
  PROVE  SchedInv'
<1>1. CASE UNCHANGED schedVars
  BY <1>1 DEF schedVars, SchedInv, ScheduleSound, SchedTypeOK, ParsePollHours, WithinBounds, HoursHonoured, RetryAfterHeld,
              SilenceEnds, Contains, Breaker
<1>2. CASE \E lag \in Lags : Elapse(lag)
  BY <1>2, ElapseStep
<1>3. CASE OutsidePollWindow
  BY <1>3, OutsideStep
<1>4. CASE Polls(FALSE)
  BY <1>4, PollsStep
<1>5. CASE Polls(TRUE)
  BY <1>5, PollsStep
<1>6. CASE ManualTurnedAway
  BY <1>6, ResetStep DEF ManualTurnedAway, Rows
<1>7. CASE ProxyUnavailable
  BY <1>7, ProxyStep
<1>8. CASE \E d \in plan.delays : RateLimited(d)
  BY <1>8, LimitedStep
<1>9. CASE \E t \in plan.texts : SetCategoryPollHours(t)
  BY <1>9, HoursStep
<1>10. CASE Unstop
  BY <1>10, ResetStep DEF Unstop
<1> QED BY <1>1, <1>2, <1>3, <1>4, <1>5, <1>6, <1>7, <1>8, <1>9, <1>10 DEF SchedNext

\* The next poll of a feed comes when the interval, the hints of the source, the
\* hours of the category and the silence of the feed allow, whatever the
\* configured durations, the plans and the lags of the worker.
THEOREM ScheduleSoundHolds == SchedSpec => []ScheduleSound
<1>1. SchedInit => SchedInv
  BY SchedStarts
<1>2. SchedInv /\ [SchedNext]_schedVars => SchedInv'
  BY SchedStep
<1>3. SchedInv => ScheduleSound
  BY DEF SchedInv
<1> QED BY <1>1, <1>2, <1>3, PTL DEF SchedSpec

-----------------------------------------------------------------------------
(* The backoff.                                                            *)

LEMMA DoubledIs ==
  ASSUME BackoffFits, NEW b \in MinPoll..MaxPoll
  PROVE  \A n \in 0..Min({Threshold, 30}) :
           /\ Doubled(b, n, Word) \in Nat
           /\ n > 0 => Doubled(b, n, Word) = 2 * Doubled(b, n - 1, Word)
<1> DEFINE N == Min({Threshold, 30})
           two == [x \in Int |-> 2 * x]
           f == [x \in Int |-> Wrap(2 * x, Word)]
           D(n) == Iterate(f, b, n)
           E(n) == Iterate(two, MaxPoll, n)
           Good(n) == D(n) \in Nat /\ D(n) <= E(n) /\ (n > 0 => D(n) = 2 * D(n - 1))
           T == {n \in 0..N : ~Good(n)}
<1>1. /\ f \in [Int -> Int] /\ two \in [Int -> Int] /\ b \in Nat /\ MaxPoll \in Int /\ b <= MaxPoll /\ N \in Nat
      /\ \A x \in Int : two[x] = 2 * x /\ f[x] = Wrap(2 * x, Word)
  <2>1. f \in [Int -> Int]
    BY WrapInt
  <2>2. two \in [Int -> Int]
    OBVIOUS
  <2>3. b \in Nat /\ MaxPoll \in Int /\ b <= MaxPoll
    BY ScheduleAssumption
  <2>4. N \in Nat
    BY MinOf, ScheduleAssumption
  <2> QED BY <2>1, <2>2, <2>3, <2>4
<1>2. \A n \in 0..N : E(n) < Word \div 2 /\ Doubled(b, n, Word) = D(n)
  BY DEF BackoffFits, Doubled
<1> HIDE DEF f, two, N
<1>3. Good(0)
  BY <1>1, IterateStep
<1>4. SUFFICES T = {}
  <2>1. ASSUME T = {}, NEW n \in 0..N
        PROVE  Doubled(b, n, Word) \in Nat /\ (n > 0 => Doubled(b, n, Word) = 2 * Doubled(b, n - 1, Word))
    <3>1. Good(n)
      BY <2>1
    <3>2. n > 0 => n - 1 \in 0..N
      BY <1>1, <2>1
    <3> HIDE DEF D
    <3> QED BY <1>2, <2>1, <3>1, <3>2
  <2> QED BY <2>1 DEF N
<1>5. SUFFICES ASSUME T # {} PROVE FALSE
  OBVIOUS
<1> HIDE DEF Good
<1>6. PICK n \in T : \A m \in T : n <= m
  <2>1. T \in SUBSET Nat
    BY <1>1
  <2> HIDE DEF T
  <2> QED BY <2>1, <1>5, LeastNat
<1>7. n \in 0..N /\ ~Good(n)
  BY <1>6
<1>8. n # 0
  BY <1>3, <1>7
<1>9. PICK m \in 0..N : n = m + 1
  BY <1>1, <1>7, <1>8
<1>10. Good(m)
  BY <1>1, <1>6, <1>7, <1>9
<1>11. D(m) \in Nat /\ D(m) <= E(m) /\ E(m) \in Int
  BY <1>1, <1>9, <1>10, IterateInt DEF Good
<1>12. E(n) = 2 * E(m) /\ D(n) = Wrap(2 * D(m), Word)
  <2>1. m \in Nat
    BY <1>1
  <2>2. E(n) = two[E(m)] /\ D(n) = f[D(m)]
    BY <1>1, <1>9, <2>1, IterateStep
  <2> HIDE DEF D, E
  <2> QED BY <1>1, <1>11, <2>2
<1>13. E(n) < Word \div 2
  BY <1>2, <1>7
<1> HIDE DEF D, E
<1>14. 2 * D(m) \in Nat /\ 2 * D(m) < Word \div 2
  <2>1. Word \div 2 \in Int
    BY ScheduleAssumption
  <2> QED BY <1>11, <1>12, <1>13, <2>1
<1>15. D(n) = 2 * D(m)
  BY <1>12, <1>14, WrapSmall
<1>16. Good(n)
  <2>1. n - 1 = m
    BY <1>1, <1>9
  <2> QED BY <1>11, <1>12, <1>14, <1>15, <2>1 DEF Good
<1> QED BY <1>7, <1>16

LEMMA DelayGrows ==
  ASSUME BackoffFits, NEW n \in Int, NEW count \in 1..Threshold, count + 1 <= Threshold
  PROVE  FeedErrorPollDelay(n, count) <= FeedErrorPollDelay(n, count + 1)
<1> DEFINE b == feedBasePollInterval(n)
           k == Min({Max({count, 1}), 30})
           l == Min({Max({count + 1, 1}), 30})
<1>1. b \in MinPoll..MaxPoll
  BY BaseIn
<1>2. /\ k = (IF count <= 30 THEN count ELSE 30) /\ l = (IF count + 1 <= 30 THEN count + 1 ELSE 30)
  BY MinOf, MaxOf, ScheduleAssumption
<1>3. Min({Threshold, 30}) = IF Threshold <= 30 THEN Threshold ELSE 30
  BY MinOf, ScheduleAssumption
<1>4. /\ FeedErrorPollDelay(n, count) = clampPollDuration(Doubled(b, k, Word), MinPoll, MaxPoll)
      /\ FeedErrorPollDelay(n, count + 1) = clampPollDuration(Doubled(b, l, Word), MinPoll, MaxPoll)
  BY DEF FeedErrorPollDelay
<1> HIDE DEF b, k, l
<1>5. k \in 0..Min({Threshold, 30}) /\ l \in 0..Min({Threshold, 30}) /\ (l = k \/ (l > 0 /\ l - 1 = k))
  BY <1>2, <1>3, ScheduleAssumption
<1>6. /\ Doubled(b, k, Word) \in Nat /\ Doubled(b, l, Word) \in Nat
      /\ (l > 0 => Doubled(b, l, Word) = 2 * Doubled(b, l - 1, Word))
  BY <1>1, <1>5, DoubledIs
<1>7. Doubled(b, k, Word) <= Doubled(b, l, Word)
  BY <1>5, <1>6
<1> QED BY <1>4, <1>6, <1>7, ScheduleAssumption DEF clampPollDuration

\* The delay of the last failure is the one of its count.
FailOK(r, f) == r.kind = "fail" => r.count \in 1..Threshold /\ r.wait = FeedErrorPollDelay(f.interval, r.count)

LEMMA FailedSets ==
  ASSUME SchedInv, NEW manual \in BOOLEAN, NEW bot \in BOOLEAN, NEW gone \in BOOLEAN, Failed(manual, bot, gone)
  PROVE  feed' = feed /\ FailOK(last', feed')
<1> DEFINE n == (IF manual THEN 0 ELSE errors) + 1
           next == IF bot THEN MaxPoll ELSE FeedErrorPollDelay(feed.interval, n)
<1>1. /\ errors' = n /\ feed' = feed
      /\ last' = [Nothing EXCEPT !.kind = IF bot THEN "bot" ELSE "fail", !.wait = next, !.base = FeedNextCheckAt, !.count = n,
                                 !.open = manual \/ InHours]
  BY DEF Failed
<1>2. SchedInv'
  BY FailedStep
<1>3. n \in 0..Threshold /\ n >= 1
  <2>1. errors \in 0..Threshold /\ errors' \in 0..Threshold
    BY <1>2 DEF SchedInv, ScheduleSound, SchedTypeOK
  <2> QED BY <1>1, <2>1
<1> HIDE DEF n, next
<1>4. last'.kind = (IF bot THEN "bot" ELSE "fail") /\ last'.count = n /\ last'.wait = next
  BY <1>1 DEF Nothing
<1>5. n \in 1..Threshold
  BY <1>3, ScheduleAssumption
<1>6. CASE bot
  BY <1>1, <1>4, <1>6 DEF FailOK
<1>7. CASE ~bot
  <2>1. next = FeedErrorPollDelay(feed.interval, n)
    BY <1>7 DEF next
  <2> QED BY <1>1, <1>4, <1>5, <2>1 DEF FailOK
<1> QED BY <1>6, <1>7

LEMMA BackoffStep ==
  ASSUME SchedInv, FailOK(last, feed), [SchedNext]_schedVars
  PROVE  feed' = feed /\ FailOK(last', feed')
<1>1. SUFFICES feed' = feed /\ (last' = last \/ last'.kind # "fail" \/ FailOK(last', feed'))
  BY Zenon DEF FailOK
<1>2. CASE UNCHANGED schedVars
  BY <1>2 DEF schedVars
<1>3. CASE \E lag \in Lags : Elapse(lag)
  BY <1>3 DEF Elapse, Nothing
<1>4. CASE OutsidePollWindow
  BY <1>4 DEF OutsidePollWindow, Told, Rows, Nothing
<1>5. ASSUME NEW manual \in BOOLEAN, Polls(manual)
      PROVE  feed' = feed /\ (last' = last \/ last'.kind # "fail" \/ FailOK(last', feed'))
  <2>1. CASE \E h \in plan.headers, new \in BOOLEAN, blind \in {FALSE, Happens("blind")} : RecordFetched(manual, blind, new, h)
    BY <2>1 DEF RecordFetched, Rows
  <2>2. CASE \E o \in {"fail", "bot", "gone"} : Happens(o) /\ Failed(manual, o = "bot", o = "gone")
    <3>1. PICK o \in {"fail", "bot", "gone"} : Failed(manual, o = "bot", o = "gone")
      BY <2>2
    <3>2. PICK bot \in BOOLEAN, gone \in BOOLEAN : Failed(manual, bot, gone)
      BY <3>1
    <3> QED BY <3>2, FailedSets
  <2>3. CASE LayoutDeferred(manual)
    BY <2>3 DEF LayoutDeferred, Told, Rows, Nothing
  <2> QED BY <1>5, <2>1, <2>2, <2>3 DEF Polls
<1>6. CASE ManualTurnedAway
  BY <1>6 DEF ManualTurnedAway, Rows
<1>7. CASE ProxyUnavailable
  BY <1>7 DEF ProxyUnavailable, Told, Rows, Nothing
<1>8. CASE \E d \in plan.delays : RateLimited(d)
  BY <1>8 DEF RateLimited, Rows, Nothing
<1>9. CASE \E t \in plan.texts : SetCategoryPollHours(t)
  BY <1>9 DEF SetCategoryPollHours, Nothing
<1>10. CASE Unstop
  BY <1>10 DEF Unstop
<1> QED BY <1>2, <1>3, <1>4, <1>5, <1>6, <1>7, <1>8, <1>9, <1>10 DEF SchedNext

\* From failure to failure a feed waits longer, up to the maximum, as long as no
\* delay can wrap around before the breaker opens.
THEOREM BackoffGrowsHolds == ASSUME BackoffFits PROVE SchedSpec => BackoffGrows
<1> DEFINE Inv == SchedInv /\ FailOK(last, feed)
<1>1. SchedInit => Inv
  <2>1. SchedInit => last.kind = "none"
    BY DEF SchedInit, Nothing
  <2> QED BY <2>1, SchedStarts DEF FailOK
<1>2. Inv /\ [SchedNext]_schedVars => Inv'
  BY SchedStep, BackoffStep DEF FailOK
<1>3. Inv /\ [SchedNext]_schedVars
      => [(last.kind = "fail" /\ last'.kind = "fail" /\ last'.count = last.count + 1) => last'.wait >= last.wait]_schedVars
  <2> SUFFICES ASSUME Inv, [SchedNext]_schedVars, last.kind = "fail", last'.kind = "fail", last'.count = last.count + 1
               PROVE  last'.wait >= last.wait
    OBVIOUS
  <2>1. feed' = feed /\ FailOK(last', feed') /\ FailOK(last, feed)
    BY BackoffStep
  <2>2. /\ last.count \in 1..Threshold /\ last'.count \in 1..Threshold
        /\ last.wait = FeedErrorPollDelay(feed.interval, last.count)
        /\ last'.wait = FeedErrorPollDelay(feed.interval, last.count + 1)
    BY <2>1 DEF FailOK
  <2>3. feed.interval \in Int
    BY TypesGive DEF SchedInv, ScheduleSound, FeedOK
  <2>4. FeedErrorPollDelay(feed.interval, last.count) <= FeedErrorPollDelay(feed.interval, last.count + 1)
    BY <2>2, <2>3, DelayGrows
  <2>5. FeedErrorPollDelay(feed.interval, last.count) \in Int /\ FeedErrorPollDelay(feed.interval, last.count + 1) \in Int
    <3>1. MinPoll..MaxPoll \subseteq Int /\ last.count \in Int /\ last.count + 1 \in Int
      BY <2>2, ScheduleAssumption
    <3> QED BY <2>3, <3>1, ErrorDelayIn
  <2> QED BY <2>2, <2>4, <2>5
<1> QED BY <1>1, <1>2, <1>3, PTL DEF SchedSpec, BackoffGrows

-----------------------------------------------------------------------------
(* The panel.                                                              *)

RowTyped(r) == /\ {r.paused, r.manual, r.due, r.inbound} \subseteq BOOLEAN /\ r.err \in {"none", "error", "layout"}
               /\ r.count \in Nat /\ r.age \in Int /\ r.interval \in Int

LEMMA RowsTyped ==
  ASSUME SchedTypeOK
  PROVE  FeedRows = {Polled, Inbound} /\ Polled # Inbound /\ \A r \in FeedRows : RowTyped(r)
<1>1. FeedOK /\ wait \in Int /\ errors \in Nat /\ broken \in BOOLEAN /\ halted \in BOOLEAN
  BY TypesGive, ScheduleAssumption
<1>2. lasterr \in {"none", "error", "layout"}
  BY DEF SchedTypeOK
<1>3. RowTyped(Polled) /\ Polled.inbound = FALSE
  BY <1>1, <1>2 DEF RowTyped, Polled, FeedOK
<1>4. RowTyped(Inbound) /\ Inbound.inbound = TRUE
  BY <1>1 DEF RowTyped, Inbound, Polled, FeedOK
<1> QED BY <1>3, <1>4 DEF FeedRows

Lists == {"paused", "errors", "waiting", "ok"}

\* The lists and the badge as conditions on a row.
LEMMA ListsAre ==
  ASSUME NEW r, RowTyped(r)
  PROVE  /\ adminFeedsStatusWhere("all", r)
         /\ adminFeedsStatusWhere("paused", r) <=> r.paused \/ r.manual
         /\ adminFeedsStatusWhere("errors", r) <=> r.err # "none" \/ r.count > 0
         /\ adminFeedsStatusWhere("waiting", r) <=> ~r.paused /\ ~r.manual /\ r.err = "none" /\ r.count = 0 /\ r.due
         /\ adminFeedsStatusWhere("ok", r) <=> ~r.paused /\ ~r.manual /\ r.err = "none" /\ r.count = 0 /\ ~r.due
         /\ adminFeedsStatusWhere("silent", r) <=>
              ~r.paused /\ ~r.manual /\ r.err = "none" /\ r.count = 0
              /\ (IF r.inbound THEN r.age > r.interval ELSE SilentAfter > 0 /\ r.age > SilentAfter)
<1>1. adminFeedsStatusWhere("all", r) /\ (adminFeedsStatusWhere("paused", r) <=> r.paused \/ r.manual)
  BY DEF adminFeedsStatusWhere, PausedRow
<1>2. adminFeedsStatusWhere("errors", r) <=> r.err # "none" \/ r.count > 0
  BY DEF adminFeedsStatusWhere, FailedRow
<1>3. /\ adminFeedsStatusWhere("waiting", r) <=> ~r.paused /\ ~r.manual /\ r.err = "none" /\ r.count = 0 /\ r.due
      /\ adminFeedsStatusWhere("ok", r) <=> ~r.paused /\ ~r.manual /\ r.err = "none" /\ r.count = 0 /\ ~r.due
  BY DEF adminFeedsStatusWhere, PausedRow
<1>4. adminFeedsHealthy(r) <=> ~r.paused /\ ~r.manual /\ r.err = "none" /\ r.count = 0
  BY DEF adminFeedsHealthy, PausedRow, FailedRow, RowTyped
<1>5. adminFeedsStatusWhere("silent", r) <=>
        adminFeedsHealthy(r) /\ (IF r.inbound THEN r.age > r.interval ELSE SilentAfter > 0 /\ r.age > SilentAfter)
  BY DEF adminFeedsStatusWhere, adminFeedsSilentWhere
<1> QED BY <1>1, <1>2, <1>3, <1>4, <1>5

LEMMA BadgeIs ==
  ASSUME NEW r, RowTyped(r), NEW b, b = classifyAdminFeedStatus(r)
  PROVE  /\ b \in Lists \cup {"silent"} /\ adminFeedsStatusWhere(b, r)
         /\ b # "silent" => b = <<"paused", "errors", "waiting", "ok">>[adminFeedsOrderClause(r)]
<1>1. /\ r.paused \in BOOLEAN /\ r.manual \in BOOLEAN /\ r.due \in BOOLEAN /\ r.inbound \in BOOLEAN /\ r.count \in Nat
  BY DEF RowTyped
<1> DEFINE paused == r.manual \/ r.paused
           failed == r.err # "none" \/ r.count > 0
<1>2. /\ PausedRow(r) <=> paused
      /\ FailedRow(r) <=> failed
      /\ adminFeedsHealthy(r) <=> ~paused /\ ~failed
  BY DEF PausedRow, FailedRow, adminFeedsHealthy
<1>3. CASE paused
  <2>1. b = "paused" /\ adminFeedsOrderClause(r) = 1
    BY <1>2, <1>3 DEF classifyAdminFeedStatus, adminFeedsOrderClause
  <2> QED BY <1>3, <2>1, ListsAre DEF Lists
<1>4. CASE ~paused /\ failed
  <2>1. b = "errors" /\ adminFeedsOrderClause(r) = 2
    BY <1>2, <1>4 DEF classifyAdminFeedStatus, adminFeedsOrderClause
  <2> QED BY <1>4, <2>1, ListsAre DEF Lists
<1>5. CASE ~paused /\ ~failed /\ InboundLate(r)
  <2>1. b = "silent"
    BY <1>5 DEF classifyAdminFeedStatus
  <2>2. adminFeedsStatusWhere("silent", r)
    BY <1>5 DEF adminFeedsStatusWhere, adminFeedsSilentWhere, InboundLate, adminFeedsInboundLate
  <2> QED BY <2>1, <2>2
<1>6. CASE ~paused /\ ~failed /\ ~InboundLate(r)
  <2>1. b = IF r.due THEN "waiting" ELSE "ok"
    BY <1>6 DEF classifyAdminFeedStatus
  <2>2. adminFeedsOrderClause(r) = IF r.due THEN 3 ELSE 4
    BY <1>2, <1>6 DEF adminFeedsOrderClause
  <2>3. ~r.paused /\ ~r.manual /\ r.err = "none" /\ r.count = 0
    BY <1>1, <1>6
  <2>4. adminFeedsStatusWhere(b, r)
    BY <2>1, <2>3, ListsAre
  <2> QED BY <2>1, <2>2, <2>4 DEF Lists
<1> QED BY <1>3, <1>4, <1>5, <1>6

\* A row is in one list, or in both the list of the paused and of the failing.
LEMMA OneList ==
  ASSUME NEW r, RowTyped(r), NEW in, in = {s \in Lists : adminFeedsStatusWhere(s, r)}
  PROVE  Cardinality(in) = 1 \/ in = {"paused", "errors"}
<1>1. /\ r.paused \in BOOLEAN /\ r.manual \in BOOLEAN /\ r.due \in BOOLEAN /\ r.count \in Nat
  BY DEF RowTyped
<1>2. in = {"paused", "errors"} \/ \E s \in Lists : in = {s}
  <2> DEFINE paused == r.paused \/ r.manual
             failed == r.err # "none" \/ r.count > 0
  <2>1. \A s : s \in in <=> s \in Lists /\ adminFeedsStatusWhere(s, r)
    OBVIOUS
  <2>2. CASE paused /\ failed
    <3>1. in = {"paused", "errors"}
      BY <1>1, <2>1, <2>2, ListsAre DEF Lists
    <3> QED BY <3>1
  <2>3. CASE paused /\ ~failed
    <3>1. in = {"paused"}
      BY <1>1, <2>1, <2>3, ListsAre DEF Lists
    <3> QED BY <3>1 DEF Lists
  <2>4. CASE ~paused /\ failed
    <3>1. in = {"errors"}
      BY <1>1, <2>1, <2>4, ListsAre DEF Lists
    <3> QED BY <3>1 DEF Lists
  <2>5. CASE ~paused /\ ~failed /\ r.due
    <3>1. in = {"waiting"}
      BY <1>1, <2>1, <2>5, ListsAre DEF Lists
    <3> QED BY <3>1 DEF Lists
  <2>6. CASE ~paused /\ ~failed /\ ~r.due
    <3>1. in = {"ok"}
      BY <1>1, <2>1, <2>6, ListsAre DEF Lists
    <3> QED BY <3>1 DEF Lists
  <2> QED BY <2>2, <2>3, <2>4, <2>5, <2>6
<1> QED BY <1>2, FS_Singleton

Shown(r) == [row |-> r, status |-> classifyAdminFeedStatus(r)]
Page(s) == {Shown(r) : r \in ListAdminFeedsPage(s)}

LEMMA PageIs ==
  ASSUME NEW s \in Lists \cup {"silent", "all"}
  PROVE  loadAdminFeedsDashboard(s) = Page(s)
<1>1. parseAdminFeedsStatus(s) = s
  BY DEF parseAdminFeedsStatus, Lists
<1> QED BY <1>1 DEF loadAdminFeedsDashboard, Page, Shown

LEMMA RowsFinite ==
  ASSUME NEW S \in SUBSET FeedRows
  PROVE  IsFiniteSet(S) /\ IsFiniteSet(FeedRows)
<1>1. IsFiniteSet({Polled})
  BY FS_Singleton
<1>2. IsFiniteSet({Polled} \cup {Inbound})
  BY <1>1, FS_AddElement
<1>3. FeedRows = {Polled} \cup {Inbound}
  BY DEF FeedRows
<1>4. IsFiniteSet(FeedRows)
  BY <1>2, <1>3
<1> QED BY <1>4, FS_Subset

\* A page has as many lines as rows.
LEMMA PageCount ==
  ASSUME NEW s
  PROVE  Cardinality(Page(s)) = Cardinality(ListAdminFeedsPage(s))
<1> DEFINE S == ListAdminFeedsPage(s)
           f == [r \in S |-> Shown(r)]
<1>1. S \in SUBSET FeedRows
  BY DEF ListAdminFeedsPage
<1>2. IsFiniteSet(S)
  BY <1>1, RowsFinite
<1>3. \A r, q \in S : Shown(r) = Shown(q) => r = q
  BY DEF Shown
<1>4. Page(s) = {Shown(r) : r \in S}
  BY DEF Page
<1> HIDE DEF S
<1>5. f \in [S -> Page(s)] /\ \A r \in S : f[r] = Shown(r)
  BY <1>4
<1>6. \A t \in Page(s) : \E r \in S : f[r] = t
  BY <1>4, <1>5
<1> HIDE DEF f
<1>7. f \in Bijection(S, Page(s))
  BY <1>3, <1>5, <1>6 DEF Bijection, Injection, Surjection, IsInjective
<1>8. ExistsBijection(S, Page(s))
  BY <1>7 DEF ExistsBijection
<1> QED BY <1>2, <1>8, FS_Bijection DEF S

LEMMA CardsAre ==
  ASSUME SchedTypeOK
  PROVE  /\ \A s \in {"ok", "errors", "paused", "silent"} : AdminFeedSummary[s] = Cardinality(ListAdminFeedsPage(s))
         /\ AdminFeedSummary.waiting >= Cardinality(ListAdminFeedsPage("waiting"))
<1>0. \A r \in FeedRows : RowTyped(r)
  BY RowsTyped
<1> DEFINE ok(r) == ~r.paused /\ ~r.manual /\ r.err = "none" /\ r.count = 0 /\ ~r.due
           errs(r) == r.err # "none" \/ r.count > 0
           paused(r) == r.paused \/ r.manual
           waiting(r) == ~r.paused /\ ~r.manual /\ r.due
           still(r) == ~r.paused /\ ~r.manual /\ r.err = "none" /\ r.count = 0
                       /\ (IF r.inbound THEN r.age > r.interval ELSE SilentAfter > 0 /\ r.age > SilentAfter)
<1>1. /\ AdminFeedSummary["ok"] = Cardinality({r \in FeedRows : ok(r)})
      /\ AdminFeedSummary["errors"] = Cardinality({r \in FeedRows : errs(r)})
      /\ AdminFeedSummary["paused"] = Cardinality({r \in FeedRows : paused(r)})
      /\ AdminFeedSummary.waiting = Cardinality({r \in FeedRows : waiting(r)})
      /\ AdminFeedSummary["silent"] = Cardinality({r \in FeedRows : still(r)})
  BY DEF AdminFeedSummary, Card
<1>2. {r \in FeedRows : ok(r)} = ListAdminFeedsPage("ok")
  BY <1>0, ListsAre DEF ListAdminFeedsPage
<1>3. {r \in FeedRows : errs(r)} = ListAdminFeedsPage("errors")
  BY <1>0, ListsAre DEF ListAdminFeedsPage
<1>4. {r \in FeedRows : paused(r)} = ListAdminFeedsPage("paused")
  BY <1>0, ListsAre DEF ListAdminFeedsPage
<1>5. {r \in FeedRows : still(r)} = ListAdminFeedsPage("silent")
  BY <1>0, ListsAre DEF ListAdminFeedsPage
<1>6. Cardinality({r \in FeedRows : waiting(r)}) >= Cardinality(ListAdminFeedsPage("waiting"))
  <2> DEFINE W == {r \in FeedRows : waiting(r)}
             L == ListAdminFeedsPage("waiting")
  <2>1. L \in SUBSET W
    BY <1>0, ListsAre DEF ListAdminFeedsPage
  <2>2. W \in SUBSET FeedRows
    OBVIOUS
  <2> HIDE DEF W, L
  <2>3. IsFiniteSet(W)
    BY <2>2, RowsFinite
  <2>4. IsFiniteSet(L) /\ Cardinality(L) <= Cardinality(W)
    BY <2>1, <2>3, FS_Subset
  <2>5. Cardinality(L) \in Nat /\ Cardinality(W) \in Nat
    BY <2>3, <2>4, FS_CardinalityType
  <2>6. Cardinality(W) >= Cardinality(L)
    BY <2>4, <2>5
  <2> QED BY <2>6 DEF W, L
<1> HIDE DEF ok, errs, paused, still, waiting
<1> QED BY <1>1, <1>2, <1>3, <1>4, <1>5, <1>6

\* The panel agrees with itself about every row a feed can have.
LEMMA Agrees == ASSUME SchedTypeOK PROVE PanelAgrees
<1> DEFINE lists == <<"paused", "errors", "waiting", "ok">>
           page == [s \in {"all", "silent"} \cup {lists[i] : i \in 1..4} |-> loadAdminFeedsDashboard(s)]
           cards == AdminFeedSummary
           in(v) == {s \in DOMAIN page \ {"all", "silent"} : v \in page[s]}
<1>1. {lists[i] : i \in 1..4} = Lists
  <2>1. lists[1] = "paused" /\ lists[2] = "errors" /\ lists[3] = "waiting" /\ lists[4] = "ok"
    OBVIOUS
  <2>2. \A i \in 1..4 : i = 1 \/ i = 2 \/ i = 3 \/ i = 4
    OBVIOUS
  <2>3. 1 \in 1..4 /\ 2 \in 1..4 /\ 3 \in 1..4 /\ 4 \in 1..4
    OBVIOUS
  <2> HIDE DEF lists
  <2>4. \A s : s \in {lists[i] : i \in 1..4} <=> s \in Lists
    BY <2>1, <2>2, <2>3 DEF Lists
  <2> QED BY <2>4
<1>2. DOMAIN page = Lists \cup {"silent", "all"} /\ \A s \in Lists \cup {"silent", "all"} : page[s] = Page(s)
  BY <1>1, PageIs
<1>3. "all" \in Lists \cup {"silent", "all"} /\ DOMAIN page \ {"all", "silent"} = Lists
  BY <1>2 DEF Lists
<1>4. \A r \in FeedRows : RowTyped(r) /\ r \in ListAdminFeedsPage("all")
  BY RowsTyped, ListsAre DEF ListAdminFeedsPage
<1>5. ListAdminFeedsPage("all") = FeedRows
  BY <1>4 DEF ListAdminFeedsPage
<1>6. ASSUME NEW v \in page["all"]
      PROVE  /\ v \in page[v.status]
             /\ Cardinality(in(v)) = 1 \/ in(v) = {"paused", "errors"}
             /\ v.status # "silent" => v.status = lists[adminFeedsOrderClause(v.row)]
  <2>1. PICK r \in FeedRows : v = Shown(r)
    BY <1>2, <1>3, <1>5, <1>6 DEF Page
  <2>2. RowTyped(r) /\ v.row = r /\ v.status = classifyAdminFeedStatus(r)
    BY <1>4, <2>1 DEF Shown
  <2>3. \A s \in Lists \cup {"silent", "all"} : v \in page[s] <=> adminFeedsStatusWhere(s, r)
    <3> HIDE DEF page
    <3> QED BY <1>2, <2>1, <2>2 DEF Page, Shown, ListAdminFeedsPage
  <2>4. in(v) = {s \in Lists : adminFeedsStatusWhere(s, r)}
    <3> HIDE DEF page
    <3> QED BY <1>3, <2>3
  <2>5. v.status \in Lists \cup {"silent"} /\ adminFeedsStatusWhere(v.status, r)
        /\ (v.status # "silent" => v.status = lists[adminFeedsOrderClause(r)])
    BY <2>2, BadgeIs
  <2>6. Cardinality(in(v)) = 1 \/ in(v) = {"paused", "errors"}
    <3> HIDE DEF in
    <3> QED BY <2>2, <2>4, OneList
  <2>7. v \in page[v.status]
    <3> HIDE DEF page
    <3> QED BY <2>3, <2>5
  <2> HIDE DEF page, in, lists
  <2> QED BY <2>2, <2>5, <2>6, <2>7
<1>7. Cardinality(page["all"]) = Cardinality(FeedRows)
  <2>1. page["all"] = Page("all")
    BY <1>2, <1>3
  <2> HIDE DEF page
  <2> QED BY <2>1, <1>5, PageCount
<1>8. \A s \in {"ok", "errors", "paused", "silent"} : cards[s] = Cardinality(page[s])
  <2> HIDE DEF page
  <2> QED BY <1>2, CardsAre, PageCount DEF Lists
<1>9. cards.waiting >= Cardinality(page["waiting"])
  <2>1. page["waiting"] = Page("waiting")
    BY <1>2 DEF Lists
  <2> HIDE DEF page
  <2> QED BY <2>1, CardsAre, PageCount
<1>10. /\ \A v \in page["all"] :
            /\ v \in page[v.status]
            /\ Cardinality(in(v)) = 1 \/ in(v) = {"paused", "errors"}
            /\ v.status # "silent" => v.status = lists[adminFeedsOrderClause(v.row)]
       /\ Cardinality(page["all"]) = Cardinality(FeedRows)
       /\ \A s \in {"ok", "errors", "paused", "silent"} : cards[s] = Cardinality(page[s])
       /\ cards.waiting >= Cardinality(page["waiting"])
  <2> HIDE DEF page, in, lists, cards
  <2> QED BY <1>6, <1>7, <1>8, <1>9
<1> QED BY <1>10, Zenon DEF PanelAgrees

-----------------------------------------------------------------------------
(* The advice.                                                             *)

LEMMA NeededIn == ASSUME NEW i \in Loads PROVE neededWorkers(i) \in 1..1000
<1>1. {i.offered, i.avg, i.samples, i.timeout} \subseteq Nat
  BY FeedPanelAssumption
<1> DEFINE secs == avgPollSeconds(i)
           need == CeilDiv(i.offered * avgPollSeconds(i) * 13, 600)
<1>2. secs \in Nat
  BY <1>1 DEF avgPollSeconds
<1> HIDE DEF secs
<1>3. i.offered * secs * 13 \in Nat
  BY <1>1, <1>2
<1>4. need \in Int
  BY <1>3 DEF CeilDiv, secs
<1>5. neededWorkers(i) = IF i.offered <= 0 THEN 1 ELSE Min({Max({need, 1}), 1000})
  BY DEF neededWorkers, maxWorkers
<1> HIDE DEF need
<1>6. Max({need, 1}) \in Int /\ Max({need, 1}) >= 1
  BY <1>4, MaxOf
<1>7. Min({Max({need, 1}), 1000}) \in 1..1000
  <2>1. PICK x \in Int : x = Max({need, 1})
    BY <1>6
  <2>2. Min({x, 1000}) = IF x <= 1000 THEN x ELSE 1000
    BY MinOf
  <2> QED BY <1>6, <2>1, <2>2
<1> QED BY <1>5, <1>7

LEMMA StepIs ==
  ASSUME NEW w \in Nat \ {0}, NEW n \in Nat \ {0}
  PROVE  capIncreaseStep(w, n) = IF n <= 2 * w THEN n ELSE 2 * w
<1>1. Max({w, 1}) = w
  BY MaxOf
<1> QED BY <1>1, MinOf DEF capIncreaseStep

\* What the last advice has left: a pool that was enlarged is not more than
\* needed unless polls are late, one that was reduced is not less.
AdviceOK ==
  /\ pool \in Nat /\ load \in Loads
  /\ advised = "increase" => pool > 0 /\ (load.lag >= 60 \/ pool <= neededWorkers(load))
  /\ advised = "decrease" => pool > 0 /\ load.lag < 5 /\ pool >= neededWorkers(load)

LEMMA SizeIs ==
  ASSUME pool \in Nat
  PROVE  pollN \in Nat \ {0} /\ Max({pollN, 1}) = pollN /\ (pool > 0 => pollN = pool)
<1>1. pollN \in Nat \ {0} /\ (pool > 0 => pollN = pool)
  BY DEF pollN
<1> QED BY <1>1, MaxOf

LEMMA AdviceIs ==
  ASSUME pool \in Nat, load \in Loads
  PROVE  /\ Advice.action = "increase" => /\ neededWorkers(load) > pollN \/ LagBurst(load, pollN)
                                          /\ Advice.workers = Grown(load, pollN)
         /\ Advice.action = "decrease" => /\ TooMany(load, pollN) /\ ~LagBurst(load, pollN)
                                          /\ Advice.workers = Max({neededWorkers(load), 2})
<1>1. Max({pollN, 1}) = pollN
  BY SizeIs
<1> QED BY <1>1 DEF Advice, Recommend

LEMMA GrownIs ==
  ASSUME NEW i \in Loads, NEW w \in Nat \ {0}, neededWorkers(i) > w \/ LagBurst(i, w)
  PROVE  Grown(i, w) \in Nat \ {0} /\ (i.lag >= 60 \/ Grown(i, w) <= neededWorkers(i))
<1>1. neededWorkers(i) \in Nat \ {0}
  BY NeededIn
<1>2. capIncreaseStep(w, neededWorkers(i)) = (IF neededWorkers(i) <= 2 * w THEN neededWorkers(i) ELSE 2 * w)
  BY <1>1, StepIs
<1>3. capIncreaseStep(w, w + 1) = IF w + 1 <= 2 * w THEN w + 1 ELSE 2 * w
  <2>1. PICK m \in Nat \ {0} : m = w + 1
    OBVIOUS
  <2> QED BY <2>1, StepIs
<1>4. i.lag \in Nat /\ (LagBurst(i, w) => i.lag >= 60)
  BY FeedPanelAssumption DEF LagBurst
<1>5. CASE LagBurst(i, w)
  BY <1>1, <1>2, <1>3, <1>4, <1>5 DEF Grown
<1>6. CASE ~LagBurst(i, w)
  BY <1>1, <1>2, <1>6 DEF Grown
<1> QED BY <1>5, <1>6

LEMMA FollowStep ==
  ASSUME AdviceOK, FollowAdvice
  PROVE  AdviceOK'
<1>1. pool \in Nat /\ load \in Loads /\ load' = load /\ pool' = Advice.workers /\ advised' = Advice.action
      /\ advised' \in {"increase", "decrease"}
  BY DEF AdviceOK, FollowAdvice, loadWorkerAdvice
<1>2. pollN \in Nat \ {0} /\ neededWorkers(load) \in 1..1000
  BY <1>1, SizeIs, NeededIn
<1>3. CASE advised' = "increase"
  <2>1. pool' = Grown(load, pollN) /\ (neededWorkers(load) > pollN \/ LagBurst(load, pollN))
    BY <1>1, <1>3, AdviceIs
  <2>2. pool' \in Nat \ {0} /\ (load.lag >= 60 \/ pool' <= neededWorkers(load))
    BY <1>1, <1>2, <2>1, GrownIs
  <2>3. neededWorkers(load') = neededWorkers(load)
    BY <1>1
  <2> QED BY <1>1, <1>3, <2>2, <2>3 DEF AdviceOK
<1>4. CASE advised' = "decrease"
  <2>1. pool' = Max({neededWorkers(load), 2}) /\ TooMany(load, pollN)
    BY <1>1, <1>4, AdviceIs
  <2>2. pool' \in Nat /\ pool' > 0 /\ pool' >= neededWorkers(load)
    <3>1. PICK n \in Int : n = neededWorkers(load)
      BY <1>2
    <3>2. Max({n, 2}) = IF n >= 2 THEN n ELSE 2
      BY MaxOf
    <3> QED BY <1>2, <2>1, <3>1, <3>2
  <2>3. load.lag < 5
    BY <2>1 DEF TooMany
  <2>4. neededWorkers(load') = neededWorkers(load)
    BY <1>1
  <2> QED BY <1>1, <1>4, <2>2, <2>3, <2>4 DEF AdviceOK
<1> QED BY <1>1, <1>3, <1>4

LEMMA Steady == ASSUME AdviceOK PROVE AdviceSteady
<1>1. pool \in Nat /\ load \in Loads /\ load.lag \in Nat /\ neededWorkers(load) \in 1..1000 /\ pollN \in Nat \ {0}
      /\ (pool > 0 => pollN = pool)
  BY SizeIs, NeededIn, FeedPanelAssumption DEF AdviceOK
<1>2. advised = "increase" => Advice.action # "decrease"
  <2> SUFFICES ASSUME advised = "increase", Advice.action = "decrease" PROVE FALSE
    OBVIOUS
  <2>1. pollN = pool /\ (load.lag >= 60 \/ pool <= neededWorkers(load))
    BY <1>1 DEF AdviceOK
  <2>2. 10 * neededWorkers(load) < 4 * pollN /\ load.lag < 5
    BY <1>1, AdviceIs DEF TooMany
  <2> QED BY <1>1, <2>1, <2>2
<1>3. advised = "decrease" => Advice.action # "increase"
  <2> SUFFICES ASSUME advised = "decrease", Advice.action = "increase" PROVE FALSE
    OBVIOUS
  <2>1. pollN = pool /\ load.lag < 5 /\ pool >= neededWorkers(load)
    BY <1>1 DEF AdviceOK
  <2>2. neededWorkers(load) > pollN \/ load.lag >= 60
    BY <1>1, AdviceIs DEF LagBurst
  <2> QED BY <1>1, <2>1, <2>2
<1> QED BY <1>2, <1>3 DEF AdviceSteady

\* The panel never contradicts itself: badge, lists, order and cards agree for
\* every row the schedule can produce, and advice that was followed is not
\* turned round, for every load and every size of the pool.
THEOREM PanelSoundHolds == FeedPanelSpec => []PanelSound
<1> DEFINE Step == (SchedNext /\ UNCHANGED panelVars) \/ (FollowAdvice /\ UNCHANGED schedVars)
           Inv == SchedInv /\ AdviceOK
<1>1. SchedInit /\ PanelInit => Inv
  BY SchedStarts, FeedPanelAssumption DEF PanelInit, AdviceOK
<1>2. Inv /\ [Step]_<<schedVars, panelVars>> => Inv'
  <2> SUFFICES ASSUME Inv, [Step]_<<schedVars, panelVars>> PROVE Inv'
    OBVIOUS
  <2>1. [SchedNext]_schedVars
    OBVIOUS
  <2>2. FollowAdvice \/ UNCHANGED panelVars
    OBVIOUS
  <2>3. SchedInv'
    BY <2>1, SchedStep
  <2>4. AdviceOK'
    <3>1. CASE FollowAdvice
      BY <3>1, FollowStep
    <3>2. CASE UNCHANGED panelVars
      <4>1. UNCHANGED <<pool, load, advised>>
        BY <3>2 DEF panelVars
      <4>2. neededWorkers(load') = neededWorkers(load)
        BY <4>1
      <4> QED BY <4>1, <4>2 DEF AdviceOK
    <3> QED BY <2>2, <3>1, <3>2
  <2> QED BY <2>3, <2>4
<1>3. Inv => PanelSound
  BY Agrees, Steady DEF SchedInv, ScheduleSound, PanelSound
<1> QED BY <1>1, <1>2, <1>3, PTL DEF FeedPanelSpec

-----------------------------------------------------------------------------
(* Webhook settings.                                                       *)

CfgFields  == {"base", "token", "chat", "target", "id"}
RowFields  == {"kind", "url", "cfg", "secret", "headers", "tmpl", "enabled", "success", "digest"}
FormFields == (RowFields \ {"cfg"}) \cup CfgFields

\* A row as WriteOf makes it: settings of its kind only, accepted as they are.
RowOK(w) ==
  /\ DOMAIN w = RowFields /\ DOMAIN w.cfg = CfgFields /\ w.enabled \in BOOLEAN
  /\ Accepts(w.kind, w.url, w.cfg)
  /\ w.kind = "telegram" => w.cfg.target = Empty /\ w.cfg.id = Empty
  /\ w.kind = "max" => w.cfg.token = Empty /\ w.cfg.chat = Empty /\ w.cfg.target # Empty
  /\ w.kind = "http" => w.cfg = NoCfg
  /\ w.kind # "http" => w.secret = Empty
  /\ w.headers # "broken" /\ w.digest \in 0..1440 /\ w.success \in {"none", "hash", "delete", "mark_read"}

FormOK(f) == DOMAIN f = FormFields /\ f.enabled \in BOOLEAN

\* The form an editor gets to see.
ShownForm(via, w) == IF via = "page" THEN fillWebhookProviderFields(w) ELSE toWebhookDTO(w)

\* A row about to be written has the present values where nothing was typed.
KeepsUntyped(typed, via, r, w) ==
  /\ \A a \in CfgFields \ typed : r.cfg[a] = w.cfg[a] \/ (a = "token" /\ via = "api")
  /\ \A a \in {"secret", "tmpl", "enabled", "success", "digest"} \ typed : r[a] = w[a]
  /\ via = "page" \/ "headers" \in typed \/ r.headers = w.headers

EditShape(x) ==
  \/ x.at \in {"idle", "refused"} /\ DOMAIN x = {"at", "typed", "fresh"}
  \/ x.at = "open" /\ DOMAIN x = {"at", "via", "typed", "fresh", "form"}
  \/ x.at = "write" /\ DOMAIN x = {"at", "via", "typed", "fresh", "row"}

\* What an editor holds; fresh: the row is still the one it was made from.
EditOK(x, h) ==
  /\ EditShape(x) /\ x.fresh \in BOOLEAN /\ (x.fresh => h # NoHook)
  /\ x.at = "idle" => ~x.fresh
  /\ x.at = "open" => FormOK(x.form) /\ x.via \in {"page", "api"} /\ (x.fresh => x.form = ShownForm(x.via, h))
  /\ x.at = "write" => RowOK(x.row) /\ (x.fresh /\ x.row.kind = h.kind => KeepsUntyped(x.typed, x.via, x.row, h))
  /\ x.at = "refused" /\ x.fresh /\ x.typed = {} => ~Guarded(h)

HookOK(h) == h = NoHook \/ RowOK(h)
EditsOK(ed, h) == ed = [e \in Editors |-> ed[e]] /\ \A e \in Editors : EditOK(ed[e], h)
SettingsOK == view \in Views /\ saves \in 0..MaxSaves /\ HookOK(hook) /\ EditsOK(edit, hook)

\* The counters tell the last final outcome by their ranks.
StatsOK ==
  /\ stats \in [sent : 0..2, failed : 0..2, lastSent : 0..2, lastFailed : 0..2, error : BOOLEAN]
  /\ \/ final = "none" /\ stats.sent = 0 /\ stats.lastSent = 0 /\ stats.lastFailed = 0
     \/ final = "sent" /\ stats.sent > 0 /\ stats.lastSent = 2 /\ stats.lastFailed < 2
     \/ final = "dead" /\ stats.lastFailed = 2 /\ stats.lastSent < 2

LogRows == [status : {"none", "pending", "failed", "sent", "dead"}, attempt : 0..MaxAttempts, due : BOOLEAN]
LogsOK == /\ log \in [Logs -> LogRows] /\ taken \in [Logs -> BOOLEAN] /\ flight = [l \in Logs |-> flight[l]]
          /\ \A l \in Logs : log[l].status = "sent" => taken[l]

HookInv == SettingsOK /\ StatsOK /\ LogsOK

-----------------------------------------------------------------------------
(* Rows and forms.                                                         *)

LEMMA Resolved ==
  ASSUME NEW k, NEW u, NEW c
  PROVE  /\ k = "telegram" => ResolveWebhookWrite(k, u, c) = [kind |-> k, url |-> TelegramDisplayURL(c), cfg |-> TelegramCfg(c)]
         /\ k = "max" => ResolveWebhookWrite(k, u, c) = [kind |-> k, url |-> maxMessagesPath(MaxCfg(c)), cfg |-> MaxCfg(c)]
         /\ k \notin {"telegram", "max"} => ResolveWebhookWrite(k, u, c) = [kind |-> k, url |-> u, cfg |-> NoCfg]
BY DEF ResolveWebhookWrite

LEMMA WriteKind ==
  ASSUME NEW f, NEW c, NEW s, NEW w, w = WriteOf(f, c, s)
  PROVE  /\ DOMAIN w = RowFields
         /\ w.kind = f.kind /\ w.enabled = f.enabled /\ w.headers = f.headers /\ w.digest = f.digest /\ w.tmpl = f.tmpl
         /\ w.success = NormalizeWebhookOnSuccess(f.success) /\ w.secret = IF f.kind = "http" THEN s ELSE Empty
         /\ f.kind = "telegram" => w.cfg = TelegramCfg(c)
         /\ f.kind = "max" => w.cfg = MaxCfg(c)
         /\ f.kind = "http" => w.cfg = NoCfg /\ w.url = f.url
<1> DEFINE r == ResolveWebhookWrite(f.kind, f.url, c)
<1>1. r.kind = f.kind
  BY Resolved
<1>2. /\ f.kind = "telegram" => r.cfg = TelegramCfg(c)
      /\ f.kind = "max" => r.cfg = MaxCfg(c)
      /\ f.kind = "http" => r.cfg = NoCfg /\ r.url = f.url
  BY Resolved
<1>3. w = [kind |-> r.kind, url |-> r.url, cfg |-> r.cfg, secret |-> IF r.kind = "http" THEN s ELSE Empty,
           headers |-> f.headers, tmpl |-> f.tmpl, enabled |-> f.enabled,
           success |-> NormalizeWebhookOnSuccess(f.success), digest |-> f.digest]
  BY DEF WriteOf
<1> HIDE DEF r
<1> QED BY <1>1, <1>2, <1>3 DEF RowFields

\* What is accepted is stored in a form that is accepted again.
LEMMA WriteOfOK ==
  ASSUME NEW f, FormOK(f), NEW c, NEW s, WriteAllowed(f), Accepts(f.kind, f.url, c)
  PROVE  RowOK(WriteOf(f, c, s))
<1> SUFFICES ASSUME NEW w, w = WriteOf(f, c, s) PROVE RowOK(w)
  OBVIOUS
<1>1. /\ DOMAIN w = RowFields
      /\ w.kind = f.kind /\ w.enabled = f.enabled /\ w.headers = f.headers /\ w.digest = f.digest /\ w.tmpl = f.tmpl
      /\ w.success = NormalizeWebhookOnSuccess(f.success) /\ w.secret = IF f.kind = "http" THEN s ELSE Empty
      /\ f.kind = "telegram" => w.cfg = TelegramCfg(c)
      /\ f.kind = "max" => w.cfg = MaxCfg(c)
      /\ f.kind = "http" => w.cfg = NoCfg /\ w.url = f.url
  BY WriteKind
<1>2. f.kind \in Kinds /\ f.enabled \in BOOLEAN
  BY DEF WriteAllowed, FormOK
<1>3. w.headers # "broken" /\ w.digest \in 0..1440 /\ w.success \in {"none", "hash", "delete", "mark_read"}
  BY <1>1 DEF WriteAllowed
<1>4. w.kind # "http" => w.secret = Empty
  BY <1>1
<1>5. CASE f.kind = "telegram"
  <2>1. w.cfg.target = Empty /\ w.cfg.id = Empty /\ DOMAIN w.cfg = CfgFields /\ w.cfg.token = c.token /\ w.cfg.chat = c.chat
    BY <1>1, <1>5 DEF TelegramCfg, CfgFields
  <2>2. Accepts(w.kind, w.url, w.cfg)
    BY <1>1, <1>5, <2>1 DEF Accepts, ParseTelegramProviderConfig
  <2> QED BY <1>1, <1>2, <1>3, <1>4, <1>5, <2>1, <2>2 DEF RowOK
<1>6. CASE f.kind = "max"
  <2>1. /\ w.cfg.token = Empty /\ w.cfg.chat = Empty /\ DOMAIN w.cfg = CfgFields /\ w.cfg.base = c.base /\ w.cfg.id = c.id
        /\ w.cfg.target = IF c.target = Empty THEN "chat_id" ELSE c.target
    BY <1>1, <1>6 DEF MaxCfg, CfgFields
  <2>2. Accepts(w.kind, w.url, w.cfg) /\ w.cfg.target # Empty
    BY <1>1, <1>6, <2>1 DEF Accepts, ParseMaxProviderConfig, Targets, Empty
  <2> QED BY <1>1, <1>2, <1>3, <1>4, <1>6, <2>1, <2>2 DEF RowOK
<1>7. CASE f.kind = "http"
  <2>1. DOMAIN NoCfg = CfgFields
    BY DEF CfgFields, NoCfg
  <2>2. Accepts(w.kind, w.url, w.cfg)
    BY <1>1, <1>7 DEF Accepts
  <2> QED BY <1>1, <1>2, <1>3, <1>4, <1>7, <2>1, <2>2 DEF RowOK
<1> QED BY <1>2, <1>5, <1>6, <1>7 DEF Kinds

Typed(f, c) == [Changed(f, c) EXCEPT !.kind = NormalizeWebhookKind(@)]

LEMMA TypedOK ==
  ASSUME NEW f, FormOK(f), NEW c, FormChange(c)
  PROVE  /\ FormOK(Typed(f, c))
         /\ \A a \in FormFields \ {"kind"} : Typed(f, c)[a] = IF a \in DOMAIN c THEN c[a] ELSE f[a]
         /\ Typed(f, c).kind = NormalizeWebhookKind(IF "kind" \in DOMAIN c THEN c["kind"] ELSE f.kind)
<1>1. Changed(f, c) = [x \in FormFields |-> IF x \in DOMAIN c THEN c[x] ELSE f[x]]
  BY DEF Changed, FormOK
<1>2. "kind" \in FormFields /\ "enabled" \in FormFields
  BY DEF FormFields, RowFields
<1>3. Typed(f, c) = [x \in FormFields |-> IF x = "kind" THEN NormalizeWebhookKind(Changed(f, c).kind) ELSE Changed(f, c)[x]]
  BY <1>1, <1>2 DEF Typed
<1>4. /\ \A a \in FormFields \ {"kind"} : Typed(f, c)[a] = IF a \in DOMAIN c THEN c[a] ELSE f[a]
      /\ Typed(f, c).kind = NormalizeWebhookKind(IF "kind" \in DOMAIN c THEN c["kind"] ELSE f.kind)
  BY <1>1, <1>2, <1>3
<1>5. DOMAIN Typed(f, c) = FormFields
  BY <1>3
<1>6. Typed(f, c).enabled \in BOOLEAN
  BY <1>2, <1>4 DEF FormChange, FormOK
<1> QED BY <1>4, <1>5, <1>6 DEF FormOK

LEMMA ShownOK ==
  ASSUME NEW w, RowOK(w), NEW via \in {"page", "api"}, NEW f, f = ShownForm(via, w)
  PROVE  /\ FormOK(f) /\ f.kind = w.kind /\ f.url = w.url
         /\ f.tmpl = w.tmpl /\ f.enabled = w.enabled /\ f.success = w.success /\ f.digest = w.digest
         /\ f.secret = (IF via = "page" THEN w.secret ELSE "keep")
         /\ f.headers = (IF via = "page" THEN Empty ELSE w.headers)
         /\ f.base = w.cfg.base /\ f.chat = w.cfg.chat /\ f.target = w.cfg.target /\ f.id = w.cfg.id
         /\ f.token = (IF via = "page" THEN Empty ELSE IF w.kind = "telegram" THEN Mask ELSE w.cfg.token)
<1>1. DOMAIN w.cfg = CfgFields /\ w.enabled \in BOOLEAN
  BY DEF RowOK
<1>2. \A c, s, h : DOMAIN Form(c, w, s, h) = FormFields
  BY DEF Form, FormFields, RowFields, CfgFields
<1>3. CASE via = "page"
  <2> DEFINE c == [w.cfg EXCEPT !.token = Empty]
  <2>1. c.base = w.cfg.base /\ c.chat = w.cfg.chat /\ c.target = w.cfg.target /\ c.id = w.cfg.id /\ c.token = Empty
    BY <1>1 DEF CfgFields
  <2>2. f = Form(c, w, w.secret, Empty)
    BY <1>3 DEF ShownForm, fillWebhookProviderFields
  <2> HIDE DEF c
  <2> QED BY <1>1, <1>2, <1>3, <2>1, <2>2 DEF Form, FormOK
<1>4. CASE via = "api"
  <2> DEFINE c == IF w.kind = "telegram" THEN MaskTelegramConfig(w.cfg) ELSE w.cfg
  <2>2. c.base = w.cfg.base /\ c.chat = w.cfg.chat /\ c.target = w.cfg.target /\ c.id = w.cfg.id
        /\ c.token = IF w.kind = "telegram" THEN Mask ELSE w.cfg.token
    <3>1. CASE w.kind = "telegram"
      <4>1. ParseTelegramProviderConfig(w.cfg) /\ w.cfg.target = Empty /\ w.cfg.id = Empty
        BY <3>1 DEF RowOK, Accepts
      <4>2. c = [TelegramCfg(w.cfg) EXCEPT !.token = Mask]
        BY <3>1, <4>1 DEF MaskTelegramConfig
      <4> QED BY <3>1, <4>1, <4>2 DEF TelegramCfg
    <3>2. CASE w.kind # "telegram" BY <3>2
    <3> QED BY <3>1, <3>2
  <2>3. f = Form(c, w, "keep", w.headers)
    BY <1>4 DEF ShownForm, toWebhookDTO
  <2> HIDE DEF c
  <2> QED BY <1>1, <1>2, <1>4, <2>2, <2>3 DEF Form, FormOK
<1> QED BY <1>3, <1>4

\* The configuration that handleWebhookUpdate checks and stores.
MergedCfg(f, w) == IF f.kind = "telegram" THEN MergeTelegramToken(CfgOf(f), w.cfg) ELSE CfgOf(f)
Secret(f, w) == IF f.secret = "keep" THEN w.secret ELSE f.secret
Admitted(via, f, w) == webhookParamsFromForm(via, f) /\ WriteAllowed(f) /\ Accepts(f.kind, f.url, MergedCfg(f, w))
TypedIn(form, c) == {x \in DOMAIN c : form[x] # c[x]}

LEMMA MergedIs ==
  ASSUME NEW f, NEW w
  PROVE  LET c == MergedCfg(f, w) IN
         /\ c.base = f.base /\ c.chat = f.chat /\ c.target = f.target /\ c.id = f.id
         /\ c.token = IF f.kind = "telegram" /\ f.token = Empty THEN w.cfg.token ELSE f.token
BY DEF MergedCfg, MergeTelegramToken, CfgOf

\* What was not typed goes through a form as it was.
LEMMA Untouched ==
  ASSUME NEW form, FormOK(form), NEW c, FormChange(c), NEW a \in FormFields \ {"kind"}, a \notin TypedIn(form, c)
  PROVE  Typed(form, c)[a] = form[a]
BY TypedOK DEF TypedIn

LEMMA SavesTyped ==
  ASSUME NEW w, RowOK(w), NEW via \in {"page", "api"}, NEW form, form = ShownForm(via, w),
         NEW c, FormChange(c), NEW f, f = Typed(form, c), NEW r, r = WriteOf(f, MergedCfg(f, w), Secret(f, w)), r.kind = w.kind,
         WriteAllowed(f)
  PROVE  KeepsUntyped(TypedIn(form, c), via, r, w)
<1> DEFINE T == TypedIn(form, c)
<1> DEFINE m == MergedCfg(f, w)
<1>1. /\ FormOK(form) /\ form.tmpl = w.tmpl /\ form.enabled = w.enabled /\ form.success = w.success /\ form.digest = w.digest
      /\ form.secret = (IF via = "page" THEN w.secret ELSE "keep")
      /\ form.headers = (IF via = "page" THEN Empty ELSE w.headers)
      /\ form.base = w.cfg.base /\ form.chat = w.cfg.chat /\ form.target = w.cfg.target /\ form.id = w.cfg.id
      /\ form.token = (IF via = "page" THEN Empty ELSE IF w.kind = "telegram" THEN Mask ELSE w.cfg.token)
  BY ShownOK
<1>2. \A a \in FormFields \ {"kind"} : a \notin T => f[a] = form[a]
  BY <1>1, Untouched
<1>3. /\ r.kind = f.kind /\ r.enabled = f.enabled /\ r.headers = f.headers /\ r.digest = f.digest /\ r.tmpl = f.tmpl
      /\ r.success = NormalizeWebhookOnSuccess(f.success) /\ r.secret = (IF f.kind = "http" THEN Secret(f, w) ELSE Empty)
      /\ f.kind = "telegram" => r.cfg = TelegramCfg(m)
      /\ f.kind = "max" => r.cfg = MaxCfg(m)
      /\ f.kind = "http" => r.cfg = NoCfg
  BY WriteKind
<1>4. /\ m.base = f.base /\ m.chat = f.chat /\ m.target = f.target /\ m.id = f.id
      /\ m.token = IF f.kind = "telegram" /\ f.token = Empty THEN w.cfg.token ELSE f.token
  BY MergedIs
<1>5. /\ w.kind = "telegram" => w.cfg.target = Empty /\ w.cfg.id = Empty
      /\ w.kind = "max" => w.cfg.token = Empty /\ w.cfg.chat = Empty /\ w.cfg.target # Empty
      /\ w.kind = "http" => w.cfg = NoCfg
      /\ w.kind # "http" => w.secret = Empty
      /\ w.success \in {"none", "hash", "delete", "mark_read"}
  BY DEF RowOK
<1>6. f.kind \in {"http", "telegram", "max"}
  BY DEF WriteAllowed, Kinds
<1>7. {"url", "secret", "headers", "tmpl", "enabled", "success", "digest", "base", "token", "chat", "target", "id"} = FormFields \ {"kind"}
  BY DEF FormFields, RowFields, CfgFields
<1> HIDE DEF T, m
<1>8. ASSUME NEW a \in CfgFields \ T PROVE r.cfg[a] = w.cfg[a] \/ (a = "token" /\ via = "api")
  <2>0. a \in {"base", "token", "chat", "target", "id"} /\ f[a] = form[a]
    BY <1>2, <1>7, <1>8 DEF CfgFields
  <2>1. CASE f.kind = "telegram"
    <3>1. r.cfg.base = m.base /\ r.cfg.token = m.token /\ r.cfg.chat = m.chat /\ r.cfg.target = Empty /\ r.cfg.id = Empty
      BY <1>3, <2>1 DEF TelegramCfg
    <3> QED BY <1>1, <1>3, <1>4, <1>5, <2>0, <2>1, <3>1
  <2>2. CASE f.kind = "max"
    <3>1. /\ r.cfg.base = m.base /\ r.cfg.token = Empty /\ r.cfg.chat = Empty /\ r.cfg.id = m.id
          /\ r.cfg.target = IF m.target = Empty THEN "chat_id" ELSE m.target
      BY <1>3, <2>2 DEF MaxCfg
    <3> QED BY <1>1, <1>3, <1>4, <1>5, <2>0, <2>2, <3>1
  <2>3. CASE f.kind = "http"
    BY <1>3, <1>5, <2>3
  <2> QED BY <1>6, <2>1, <2>2, <2>3
<1>9. ASSUME NEW a \in {"secret", "tmpl", "enabled", "success", "digest"} \ T PROVE r[a] = w[a]
  <2>0. f[a] = form[a]
    BY <1>2, <1>7, <1>9
  <2>1. CASE a = "secret"
    BY <1>1, <1>3, <1>5, <2>0, <2>1 DEF Secret
  <2>2. CASE a = "success"
    BY <1>1, <1>3, <1>5, <2>0, <2>2 DEF NormalizeWebhookOnSuccess, Empty
  <2>3. CASE a \in {"tmpl", "enabled", "digest"}
    BY <1>1, <1>3, <2>0, <2>3
  <2> QED BY <2>1, <2>2, <2>3
<1>10. via = "page" \/ "headers" \in T \/ r.headers = w.headers
  BY <1>1, <1>2, <1>3, <1>7
<1> QED BY <1>8, <1>9, <1>10 DEF KeepsUntyped, T

\* An editor who changes nothing is refused only for an address that the
\* guard of the API does not let through.
LEMMA SameIsAdmitted ==
  ASSUME NEW w, RowOK(w), NEW via \in {"page", "api"}, NEW form, form = ShownForm(via, w),
         NEW c, FormChange(c), TypedIn(form, c) = {}, NEW f, f = Typed(form, c), Guarded(w)
  PROVE  Admitted(via, f, w)
<1>1. /\ FormOK(form) /\ form.kind = w.kind /\ form.url = w.url /\ form.success = w.success /\ form.digest = w.digest
      /\ form.headers = (IF via = "page" THEN Empty ELSE w.headers)
      /\ form.base = w.cfg.base /\ form.chat = w.cfg.chat /\ form.target = w.cfg.target /\ form.id = w.cfg.id
      /\ form.token = (IF via = "page" THEN Empty ELSE IF w.kind = "telegram" THEN Mask ELSE w.cfg.token)
  BY ShownOK
<1>2. \A a \in FormFields \ {"kind"} : f[a] = form[a]
  BY <1>1, Untouched
<1>3. {"url", "secret", "headers", "tmpl", "enabled", "success", "digest", "base", "token", "chat", "target", "id"} = FormFields \ {"kind"}
  BY DEF FormFields, RowFields, CfgFields
<1>4. w.kind \in {"http", "telegram", "max"} /\ w.headers # "broken" /\ w.digest \in 0..1440 /\ w.success \in {"none", "hash", "delete", "mark_read"}
  BY DEF RowOK, Accepts
<1>5. f.kind = w.kind
  <2>1. f.kind = NormalizeWebhookKind(IF "kind" \in DOMAIN c THEN c["kind"] ELSE form.kind)
    BY <1>1, TypedOK
  <2>2. "kind" \in DOMAIN c => c["kind"] = form["kind"]
    BY DEF TypedIn
  <2>3. f.kind = NormalizeWebhookKind(w.kind)
    BY <1>1, <2>1, <2>2
  <2> QED BY <1>4, <2>3 DEF NormalizeWebhookKind, Empty
<1>6. WriteAllowed(f)
  BY <1>1, <1>2, <1>3, <1>4, <1>5 DEF WriteAllowed, Kinds, NormalizeWebhookOnSuccess, Empty
<1> DEFINE m == MergedCfg(f, w)
<1>7. /\ m.base = f.base /\ m.chat = f.chat /\ m.target = f.target /\ m.id = f.id
      /\ m.token = IF f.kind = "telegram" /\ f.token = Empty THEN w.cfg.token ELSE f.token
  BY MergedIs
<1> HIDE DEF m
<1>8. f.url = w.url /\ f.base = w.cfg.base /\ f.chat = w.cfg.chat /\ f.target = w.cfg.target /\ f.id = w.cfg.id /\ f.token = form.token
  BY <1>1, <1>2, <1>3
<1>9. CASE w.kind = "http"
  <2>1. w.url \notin {<<"http", Empty>>, <<"http", "noscheme">>}
    BY <1>9 DEF RowOK, Accepts
  <2>2. w.url # <<"http", "private">>
    BY <1>9 DEF Guarded, RequestURL
  <2> QED BY <1>5, <1>6, <1>8, <1>9, <2>1, <2>2 DEF Admitted, Accepts, webhookParamsFromForm
<1>10. CASE w.kind = "telegram"
  <2>1. w.cfg.token # Empty /\ w.cfg.chat # Empty
    BY <1>10 DEF RowOK, Accepts, ParseTelegramProviderConfig
  <2>2. m.token # Empty /\ m.chat # Empty
    BY <1>1, <1>5, <1>7, <1>8, <1>10, <2>1 DEF Mask, Empty
  <2>3. Accepts(f.kind, f.url, m)
    BY <1>5, <1>10, <2>2 DEF Accepts, ParseTelegramProviderConfig
  <2> QED BY <1>5, <1>6, <1>10, <2>3 DEF Admitted, webhookParamsFromForm, m
<1>11. CASE w.kind = "max"
  <2>1. ParseMaxProviderConfig(w.cfg)
    BY <1>11 DEF RowOK, Accepts
  <2>2. ParseMaxProviderConfig(m)
    BY <1>7, <1>8, <2>1 DEF ParseMaxProviderConfig
  <2>3. Accepts(f.kind, f.url, m)
    BY <1>5, <1>11, <2>2 DEF Accepts
  <2> QED BY <1>5, <1>6, <1>11, <2>3 DEF Admitted, webhookParamsFromForm, m
<1> QED BY <1>4, <1>9, <1>10, <1>11

-----------------------------------------------------------------------------
(* The settings.                                                           *)

LEMMA UnfreshOK ==
  ASSUME NEW x, NEW h, NEW g, EditOK(x, h), NEW y, y = [x EXCEPT !.fresh = FALSE]
  PROVE  EditOK(y, g) /\ y.at = x.at /\ y.typed = x.typed /\ ~y.fresh
<1>1. /\ DOMAIN y = DOMAIN x /\ y.fresh = FALSE /\ \A a \in DOMAIN x \ {"fresh"} : y[a] = x[a]
  BY DEF EditOK, EditShape
<1>2. {"at", "typed"} \subseteq DOMAIN x /\ y.at = x.at /\ y.typed = x.typed
  BY <1>1 DEF EditOK, EditShape
<1>3. EditShape(y)
  BY <1>1, <1>2 DEF EditOK, EditShape
<1>4. x.at = "open" => y.form = x.form /\ y.via = x.via
  BY <1>1 DEF EditOK, EditShape
<1>5. x.at = "write" => y.row = x.row /\ y.via = x.via
  BY <1>1 DEF EditOK, EditShape
<1> QED BY <1>1, <1>2, <1>3, <1>4, <1>5 DEF EditOK

LEMMA IdleOK == ASSUME NEW h PROVE EditOK(Idle, h)
BY DEF Idle, EditOK, EditShape

LEMMA AllUnfresh ==
  ASSUME NEW ed, NEW h, NEW g, EditsOK(ed, h), NEW new, new = [x \in Editors |-> [ed[x] EXCEPT !.fresh = FALSE]]
  PROVE  EditsOK(new, g)
BY UnfreshOK DEF EditsOK

LEMMA StaleOK ==
  ASSUME NEW ed, NEW h, NEW g, EditsOK(ed, h), NEW e
  PROVE  EditsOK(Stale(ed, e), g)
BY UnfreshOK, IdleOK DEF EditsOK, Stale

LEMMA OneEdit ==
  ASSUME NEW ed, NEW h, EditsOK(ed, h), NEW e \in Editors, NEW x, EditOK(x, h)
  PROVE  EditsOK([ed EXCEPT ![e] = x], h)
BY DEF EditsOK

\* Without a webhook nothing an editor holds is fresh.
LEMMA NoneFresh ==
  ASSUME NEW ed, NEW g, EditsOK(ed, NoHook)
  PROVE  EditsOK(ed, g)
BY DEF EditsOK, EditOK

LEMMA RowIsNoHook == ASSUME NEW w, RowOK(w) PROVE w # NoHook /\ w.kind \in Kinds
BY DEF RowOK, NoHook, Accepts, Kinds

LEMMA BlankOK == FormOK(Blank)
BY DEF FormOK, Blank, FormFields, RowFields, CfgFields

LEMMA CreateRow ==
  ASSUME SettingsOK, NEW via \in view.via, NEW c \in view.changes, CreateWebhook(via, c)
  PROVE  SettingsOK'
<1> DEFINE f == Typed(Blank, c)
<1>1. FormChange(c)
  BY WebhookAdminAssumption DEF SettingsOK
<1>2. FormOK(f)
  BY <1>1, BlankOK, TypedOK
<1>3. /\ WriteAllowed(f) /\ Accepts(f.kind, f.url, CfgOf(f)) /\ hook' = WriteOf(f, CfgOf(f), f.secret)
      /\ hook = NoHook /\ edit' = edit /\ view' = view /\ saves < MaxSaves /\ saves' = saves + 1
  BY DEF CreateWebhook, Typed, Save
<1> HIDE DEF f
<1>4. RowOK(hook')
  BY <1>2, <1>3, WriteOfOK
<1>5. EditsOK(edit', hook')
  BY <1>3, NoneFresh DEF SettingsOK
<1>6. saves' \in 0..MaxSaves
  BY <1>3, WebhookAdminAssumption DEF SettingsOK
<1> QED BY <1>3, <1>4, <1>5, <1>6 DEF SettingsOK, HookOK

LEMMA OpenEdit ==
  ASSUME SettingsOK, NEW e \in Editors, NEW via \in view.via, handleWebhookEdit(e, via)
  PROVE  SettingsOK'
<1>1. via \in {"page", "api"} /\ RowOK(hook)
  BY WebhookAdminAssumption DEF SettingsOK, HookOK, handleWebhookEdit
<1> DEFINE f == ShownForm(via, hook)
           x == [at |-> "open", via |-> via, typed |-> {}, fresh |-> TRUE, form |-> f]
<1>2. FormOK(f)
  BY <1>1, ShownOK
<1>3. edit' = [edit EXCEPT ![e] = x] /\ UNCHANGED <<view, hook, saves>> /\ hook # NoHook
  BY DEF handleWebhookEdit, ShownForm
<1>4. x.at = "open" /\ x.via = via /\ x.fresh = TRUE /\ x.form = f /\ DOMAIN x = {"at", "via", "typed", "fresh", "form"}
  OBVIOUS
<1> HIDE DEF x
<1>5. EditOK(x, hook)
  BY <1>1, <1>2, <1>3, <1>4 DEF EditOK, EditShape
<1>6. EditsOK([edit EXCEPT ![e] = x], hook)
  BY <1>5, OneEdit DEF SettingsOK
<1> QED BY <1>3, <1>6 DEF SettingsOK

LEMMA EditHolds ==
  ASSUME SettingsOK, NEW e \in Editors
  PROVE  EditOK(edit[e], hook)
BY DEF SettingsOK, EditsOK

LEMMA CheckEdit ==
  ASSUME SettingsOK, NEW e \in Editors, NEW c \in view.changes, handleWebhookUpdate(e, c)
  PROVE  SettingsOK'
<1> DEFINE form == edit[e].form
           via == edit[e].via
           f == Typed(form, c)
           T == TypedIn(form, c)
           r == WriteOf(f, MergedCfg(f, hook), Secret(f, hook))
           ok == hook # NoHook /\ Admitted(via, f, hook)
           w == [at |-> "write", via |-> via, typed |-> T, fresh |-> edit[e].fresh, row |-> r]
           n == [at |-> "refused", typed |-> T, fresh |-> edit[e].fresh]
<1>1. FormChange(c)
  BY WebhookAdminAssumption DEF SettingsOK
<1>2. edit[e].at = "open" /\ EditOK(edit[e], hook)
  BY EditHolds DEF handleWebhookUpdate
<1>3. FormOK(form) /\ via \in {"page", "api"} /\ edit[e].fresh \in BOOLEAN /\ (edit[e].fresh => form = ShownForm(via, hook) /\ hook # NoHook)
  BY <1>2 DEF EditOK
<1>4. FormOK(f)
  BY <1>1, <1>3, TypedOK
<1>5. edit' = [edit EXCEPT ![e] = IF ok THEN w ELSE n] /\ UNCHANGED <<view, hook, saves>>
  BY DEF handleWebhookUpdate, Typed, TypedIn, MergedCfg, Secret, Admitted
<1>6. HookOK(hook)
  BY DEF SettingsOK
<1>7. CASE ok
  <2>1. w.at = "write" /\ w.via = via /\ w.typed = T /\ w.fresh = edit[e].fresh /\ w.row = r /\ DOMAIN w = {"at", "via", "typed", "fresh", "row"}
    OBVIOUS
  <2>2. RowOK(r)
    BY <1>4, <1>7, WriteOfOK DEF Admitted
  <2>3. edit[e].fresh /\ r.kind = hook.kind => KeepsUntyped(T, via, r, hook)
    BY <1>1, <1>3, <1>6, <1>7, SavesTyped DEF HookOK, Admitted
  <2> HIDE DEF w, T, r
  <2>4. EditOK(w, hook)
    BY <1>3, <2>1, <2>2, <2>3 DEF EditOK, EditShape
  <2> QED BY <1>5, <1>7, <2>4, OneEdit DEF SettingsOK
<1>8. CASE ~ok
  <2>2. n.at = "refused" /\ n.typed = T /\ n.fresh = edit[e].fresh /\ DOMAIN n = {"at", "typed", "fresh"}
    OBVIOUS
  <2>3. edit[e].fresh /\ T = {} => ~Guarded(hook)
    BY <1>1, <1>3, <1>6, <1>8, SameIsAdmitted DEF HookOK
  <2> HIDE DEF n, T
  <2>4. EditOK(n, hook)
    BY <1>3, <2>2, <2>3 DEF EditOK, EditShape
  <2> QED BY <1>5, <1>8, <2>4, OneEdit DEF SettingsOK
<1> QED BY <1>7, <1>8

LEMMA WriteEdit ==
  ASSUME SettingsOK, NEW e \in Editors, UpdateWebhook(e)
  PROVE  SettingsOK'
<1>1. edit[e].at = "write" /\ EditOK(edit[e], hook) /\ view' = view /\ saves < MaxSaves /\ saves' = saves + 1
  BY EditHolds DEF UpdateWebhook, Save
<1>2. saves' \in 0..MaxSaves /\ view' \in Views
  BY <1>1, WebhookAdminAssumption DEF SettingsOK
<1>3. CASE hook = NoHook
  <2>1. hook' = NoHook /\ edit' = [edit EXCEPT ![e] = Idle]
    BY <1>3 DEF UpdateWebhook
  <2>2. EditsOK([edit EXCEPT ![e] = Idle], hook)
    BY IdleOK, OneEdit DEF SettingsOK
  <2> QED BY <1>2, <1>3, <2>1, <2>2 DEF SettingsOK, HookOK
<1>4. CASE hook # NoHook
  <2>1. hook' = edit[e].row /\ edit' = Stale(edit, e)
    BY <1>4 DEF UpdateWebhook
  <2>2. RowOK(edit[e].row)
    BY <1>1 DEF EditOK
  <2>3. EditsOK(edit', hook')
    BY <2>1, StaleOK DEF SettingsOK
  <2> QED BY <1>2, <2>1, <2>2, <2>3 DEF SettingsOK, HookOK
<1> QED BY <1>3, <1>4

LEMMA EndEdit ==
  ASSUME SettingsOK, NEW e \in Editors, EditEnds(e)
  PROVE  SettingsOK'
<1>1. edit' = [edit EXCEPT ![e] = Idle] /\ UNCHANGED <<view, hook, saves>>
  BY DEF EditEnds
<1>2. EditsOK([edit EXCEPT ![e] = Idle], hook)
  BY IdleOK, OneEdit DEF SettingsOK
<1> QED BY <1>1, <1>2 DEF SettingsOK

LEMMA SwitchRow ==
  ASSUME SettingsOK, NEW on \in BOOLEAN, setWebhookEnabled(on)
  PROVE  SettingsOK'
<1>1. /\ RowOK(hook) /\ hook' = [hook EXCEPT !.enabled = on] /\ view' = view /\ saves < MaxSaves /\ saves' = saves + 1
      /\ edit' = [x \in Editors |-> [edit[x] EXCEPT !.fresh = FALSE]]
  BY DEF setWebhookEnabled, SettingsOK, HookOK, Save
<1>2. saves' \in 0..MaxSaves /\ view' \in Views
  BY <1>1, WebhookAdminAssumption DEF SettingsOK
<1>3. EditsOK(edit', hook')
  BY <1>1, AllUnfresh DEF SettingsOK
<1>4. DOMAIN hook' = RowFields /\ hook'.enabled = on /\ \A a \in RowFields \ {"enabled"} : hook'[a] = hook[a]
  BY <1>1 DEF RowOK, RowFields
<1>5. /\ hook'.kind = hook.kind /\ hook'.url = hook.url /\ hook'.cfg = hook.cfg /\ hook'.secret = hook.secret
      /\ hook'.headers = hook.headers /\ hook'.success = hook.success /\ hook'.digest = hook.digest
  BY <1>4 DEF RowFields
<1>6. RowOK(hook')
  BY <1>1, <1>4, <1>5 DEF RowOK
<1> QED BY <1>2, <1>3, <1>6 DEF SettingsOK, HookOK

LEMMA DeletedRow ==
  ASSUME SettingsOK, DeleteWebhook
  PROVE  SettingsOK'
<1>1. /\ hook' = NoHook /\ view' = view /\ saves < MaxSaves /\ saves' = saves + 1
      /\ edit' = [x \in Editors |-> [edit[x] EXCEPT !.fresh = FALSE]]
  BY DEF DeleteWebhook, Save
<1>2. saves' \in 0..MaxSaves /\ view' \in Views
  BY <1>1, WebhookAdminAssumption DEF SettingsOK
<1>3. EditsOK(edit', hook')
  BY <1>1, AllUnfresh DEF SettingsOK
<1> QED BY <1>1, <1>2, <1>3 DEF SettingsOK, HookOK

-----------------------------------------------------------------------------
(* Deliveries and counters.                                                *)

NoStats == [sent |-> 0, failed |-> 0, lastSent |-> 0, lastFailed |-> 0, error |-> FALSE]

LEMMA MoreIs == ASSUME NEW n \in 0..2 PROVE More(n) \in 1..2 /\ Earlier(n) \in 0..1
<1>1. Min({n + 1, 2}) = (IF n + 1 <= 2 THEN n + 1 ELSE 2) /\ Min({n, 1}) = IF n <= 1 THEN n ELSE 1
  BY MinOf
<1> QED BY <1>1 DEF More, Earlier

Counters == [sent : 0..2, failed : 0..2, lastSent : 0..2, lastFailed : 0..2, error : BOOLEAN]
LEMMA CountSent ==
  ASSUME NEW c \in Counters, NEW d, d = [c EXCEPT !.sent = More(@), !.lastSent = 2, !.lastFailed = Earlier(@)]
  PROVE  d \in Counters /\ d.sent > 0 /\ d.lastSent = 2 /\ d.lastFailed < 2
<1> DEFINE c1 == [c EXCEPT !.sent = More(c.sent)]
           c2 == [c1 EXCEPT !.lastSent = 2]
           c3 == [c2 EXCEPT !.lastFailed = Earlier(c2.lastFailed)]
<1>1. c1 \in Counters /\ c1.sent > 0
  BY MoreIs DEF Counters
<1>2. d = c3
  BY Zenon
<1> HIDE DEF c1
<1>3. c2 \in Counters /\ c2.sent > 0 /\ c2.lastSent = 2
  BY <1>1 DEF Counters
<1> HIDE DEF c2
<1>4. Earlier(c2.lastFailed) \in 0..1
  BY <1>3, MoreIs DEF Counters
<1>5. c3 \in Counters /\ c3.sent > 0 /\ c3.lastSent = 2 /\ c3.lastFailed < 2
  BY <1>3, <1>4 DEF Counters
<1> HIDE DEF c3
<1> QED BY <1>2, <1>5

LEMMA CountDead ==
  ASSUME NEW c \in Counters, NEW d, d = [c EXCEPT !.failed = More(@), !.lastFailed = 2, !.lastSent = Earlier(@), !.error = TRUE]
  PROVE  d \in Counters /\ d.lastFailed = 2 /\ d.lastSent < 2
<1> DEFINE c1 == [c EXCEPT !.failed = More(c.failed)]
           c2 == [c1 EXCEPT !.lastFailed = 2]
           c3 == [c2 EXCEPT !.lastSent = Earlier(c2.lastSent)]
<1>1. c1 \in Counters
  BY MoreIs DEF Counters
<1>2. d = [c3 EXCEPT !.error = TRUE]
  BY Zenon
<1> HIDE DEF c1
<1>3. c2 \in Counters /\ c2.lastFailed = 2
  BY <1>1 DEF Counters
<1> HIDE DEF c2
<1>4. Earlier(c2.lastSent) \in 0..1
  BY <1>3, MoreIs DEF Counters
<1>5. c3 \in Counters /\ c3.lastFailed = 2 /\ c3.lastSent < 2
  BY <1>3, <1>4 DEF Counters
<1> HIDE DEF c3
<1> QED BY <1>2, <1>5 DEF Counters

LEMMA ZeroStats ==
  ASSUME stats' = NoStats, final' = "none"
  PROVE  StatsOK'
BY DEF StatsOK, NoStats

\* A mark keeps rows and counters in order.
LEMMA MarkKeeps ==
  ASSUME StatsOK, LogsOK, NEW l \in Logs, NEW s \in {"sent", "failed", "dead"}, NEW n \in Nat, Mark(l, s, n),
         taken' \in [Logs -> BOOLEAN], \A k \in Logs : taken[k] => taken'[k], s = "sent" => taken'[l],
         flight' = [k \in Logs |-> flight'[k]]
  PROVE  StatsOK' /\ LogsOK'
<1>1. CASE log[l].status = "none"
  BY <1>1 DEF Mark, StatsOK, LogsOK
<1>2. CASE log[l].status # "none"
  <2> DEFINE row == [status |-> s, attempt |-> Min({n, MaxAttempts}), due |-> s # "failed"]
  <2>1. row \in LogRows
    <3>1. Min({n, MaxAttempts}) \in 0..MaxAttempts
      BY WebhookAdminAssumption, MinOf
    <3> QED BY <3>1 DEF LogRows
  <2>2. log' = [log EXCEPT ![l] = row]
    BY <1>2 DEF Mark
  <2>3. row.status = s
    OBVIOUS
  <2> HIDE DEF row
  <2>4. LogsOK'
    BY <2>1, <2>2, <2>3 DEF LogsOK
  <2>5. CASE s = "sent"
    <3>1. stats' = [stats EXCEPT !.sent = More(@), !.lastSent = 2, !.lastFailed = Earlier(@)] /\ final' = "sent"
      BY <1>2, <2>5 DEF Mark, MarkWebhookLogSent
    <3>2. stats' \in Counters /\ stats'.sent > 0 /\ stats'.lastSent = 2 /\ stats'.lastFailed < 2
      BY <3>1, CountSent DEF StatsOK, Counters
    <3> QED BY <2>4, <3>1, <3>2 DEF StatsOK, Counters
  <2>6. CASE s = "dead"
    <3>1. stats' = [stats EXCEPT !.failed = More(@), !.lastFailed = 2, !.lastSent = Earlier(@), !.error = TRUE] /\ final' = "dead"
      BY <1>2, <2>6 DEF Mark, MarkWebhookLogFailed
    <3>2. stats' \in Counters /\ stats'.lastFailed = 2 /\ stats'.lastSent < 2
      BY <3>1, CountDead DEF StatsOK, Counters
    <3> QED BY <2>4, <3>1, <3>2 DEF StatsOK, Counters
  <2>7. CASE s = "failed"
    <3>1. stats' \in {stats, [stats EXCEPT !.error = TRUE]} /\ final' = final
      BY <1>2, <2>7 DEF Mark, MarkWebhookLogFailed
    <3> QED BY <2>4, <3>1 DEF StatsOK
  <2> QED BY <2>5, <2>6, <2>7
<1> QED BY <1>1, <1>2

LEMMA Deliver ==
  ASSUME StatsOK, LogsOK, NEW l \in Logs, NEW r, deliverWebhookLog(l, r)
  PROVE  StatsOK' /\ LogsOK'
<1> DEFINE w == flight[l]
           n == log[l].attempt + 1
<1>1. n \in Nat /\ n - 1 \in Nat /\ n - 1 = log[l].attempt
  BY WebhookAdminAssumption DEF LogsOK, LogRows
<1>2. flight' = [k \in Logs |-> flight'[k]]
  BY DEF LogsOK, deliverWebhookLog
<1>3. ASSUME UNCHANGED taken, NEW s \in {"failed", "dead"}, NEW m \in Nat, Mark(l, s, m)
      PROVE  StatsOK' /\ LogsOK'
  BY <1>2, <1>3, MarkKeeps DEF LogsOK
<1>4. CASE ~w.enabled
  BY <1>1, <1>3, <1>4 DEF deliverWebhookLog
<1>5. CASE w.enabled /\ ~(BuildWebhookOutbound(w) /\ Guarded(w))
  BY <1>1, <1>3, <1>5 DEF deliverWebhookLog
<1>6. CASE w.enabled /\ BuildWebhookOutbound(w) /\ Guarded(w)
  <2>1. taken' = [taken EXCEPT ![l] = taken[l] \/ Took(w.kind, r)]
    BY <1>6 DEF deliverWebhookLog
  <2>2. taken' \in [Logs -> BOOLEAN] /\ (\A k \in Logs : taken[k] => taken'[k]) /\ (Took(w.kind, r) => taken'[l])
    BY <2>1 DEF LogsOK
  <2>3. ProviderDeliveryOK(w.kind, r) => Took(w.kind, r)
    BY DEF ProviderDeliveryOK, Took, readSnippet
  <2>4. PICK s \in {"sent", "failed", "dead"}, m \in Nat : Mark(l, s, m) /\ (s = "sent" => ProviderDeliveryOK(w.kind, r))
    <3>1. CASE ProviderDeliveryOK(w.kind, r)
      BY <1>1, <1>6, <3>1 DEF deliverWebhookLog
    <3>2. CASE ~ProviderDeliveryOK(w.kind, r) /\ r.code = 429
      BY <1>1, <1>6, <3>2 DEF deliverWebhookLog
    <3>3. CASE ~ProviderDeliveryOK(w.kind, r) /\ r.code # 429
      <4> DEFINE s == IF webhookHTTPRetryable(r) /\ n < MaxAttempts THEN "failed" ELSE "dead"
      <4>1. Mark(l, s, n)
        BY <1>6, <3>3 DEF deliverWebhookLog
      <4>2. s \in {"sent", "failed", "dead"} /\ s # "sent"
        OBVIOUS
      <4> QED BY <1>1, <4>1, <4>2
    <3> QED BY <3>1, <3>2, <3>3
  <2> QED BY <1>2, <2>2, <2>3, <2>4, MarkKeeps
<1> QED BY <1>4, <1>5, <1>6

Emptied == [status |-> "none", attempt |-> 0, due |-> TRUE]

LEMMA OtherSteps ==
  ASSUME StatsOK, LogsOK,
         \/ DeleteWebhook \/ RetryAllWebhookLogs \/ ResetWebhookStats
         \/ \E l \in Logs : Enqueue(l) \/ LoadWebhookDeliveryContext(l) \/ RetryDue(l) \/ PurgeLogs(l)
  PROVE  StatsOK' /\ LogsOK'
<1>0. /\ Emptied \in LogRows
      /\ [status |-> "pending", attempt |-> 0, due |-> TRUE] \in LogRows
  BY WebhookAdminAssumption DEF LogRows, Emptied
<1>1. CASE DeleteWebhook
  BY <1>0, <1>1 DEF DeleteWebhook, StatsOK, LogsOK, Emptied
<1>2. CASE RetryAllWebhookLogs
  <2>1. \A l \in Logs : [log[l] EXCEPT !.status = "pending", !.due = TRUE] \in LogRows
                        /\ [log[l] EXCEPT !.status = "pending", !.due = TRUE].status = "pending"
    BY DEF LogsOK, LogRows
  <2>2. log' = [l \in Logs |-> IF log[l].status \in {"failed", "dead"} THEN [log[l] EXCEPT !.status = "pending", !.due = TRUE] ELSE log[l]]
    BY <1>2 DEF RetryAllWebhookLogs
  <2>3. log' \in [Logs -> LogRows] /\ \A l \in Logs : log'[l].status = "sent" => log[l].status = "sent"
    BY <2>1, <2>2 DEF LogsOK
  <2> QED BY <1>2, <2>3 DEF RetryAllWebhookLogs, StatsOK, LogsOK
<1>3. CASE ResetWebhookStats
  BY <1>3, ZeroStats DEF ResetWebhookStats, NoStats, LogsOK
<1>4. ASSUME NEW l \in Logs, Enqueue(l) PROVE StatsOK' /\ LogsOK'
  <2>1. /\ log' = [log EXCEPT ![l] = [status |-> "pending", attempt |-> 0, due |-> TRUE]] /\ taken' = [taken EXCEPT ![l] = FALSE]
        /\ UNCHANGED <<flight, stats, final>>
    BY <1>4 DEF Enqueue
  <2> QED BY <1>0, <2>1 DEF StatsOK, LogsOK
<1>5. ASSUME NEW l \in Logs, LoadWebhookDeliveryContext(l) PROVE StatsOK' /\ LogsOK'
  BY <1>5 DEF LoadWebhookDeliveryContext, StatsOK, LogsOK
<1>6. ASSUME NEW l \in Logs, RetryDue(l) PROVE StatsOK' /\ LogsOK'
  <2>1. log' = [log EXCEPT ![l] = [log[l] EXCEPT !.due = TRUE]] /\ UNCHANGED <<flight, stats, final, taken>>
    BY <1>6 DEF RetryDue
  <2>2. [log[l] EXCEPT !.due = TRUE] \in LogRows /\ [log[l] EXCEPT !.due = TRUE].status = log[l].status
    BY DEF LogsOK, LogRows
  <2> QED BY <2>1, <2>2 DEF StatsOK, LogsOK
<1>7. ASSUME NEW l \in Logs, PurgeLogs(l) PROVE StatsOK' /\ LogsOK'
  <2>1. /\ log' = [log EXCEPT ![l] = Emptied] /\ taken' = [taken EXCEPT ![l] = FALSE] /\ UNCHANGED <<flight, stats, final>>
    BY <1>7 DEF PurgeLogs, Emptied
  <2>2. Emptied.status = "none"
    BY DEF Emptied
  <2> QED BY <1>0, <2>1, <2>2 DEF StatsOK, LogsOK
<1> QED BY <1>1, <1>2, <1>3, <1>4, <1>5, <1>6, <1>7

-----------------------------------------------------------------------------
(* The theorems about a webhook.                                           *)

LEMMA HookInit == AdminInit => HookInv
<1> SUFFICES ASSUME AdminInit PROVE HookInv
  OBVIOUS
<1>1. SettingsOK
  BY IdleOK, WebhookAdminAssumption DEF AdminInit, SettingsOK, HookOK, EditsOK
<1>2. StatsOK
  BY DEF AdminInit, StatsOK
<1>3. LogsOK
  BY WebhookAdminAssumption DEF AdminInit, LogsOK, LogRows
<1> QED BY <1>1, <1>2, <1>3 DEF HookInv

LEMMA HookNext == HookInv /\ [AdminNext]_adminVars => HookInv'
<1> SUFFICES ASSUME HookInv, [AdminNext]_adminVars PROVE HookInv'
  OBVIOUS
<1> USE DEF HookInv
<1>1. CASE UNCHANGED adminVars
  BY <1>1 DEF adminVars, SettingsOK, StatsOK, LogsOK
<1>2. ASSUME UNCHANGED <<view, hook, edit, saves>> PROVE SettingsOK'
  BY <1>2 DEF SettingsOK
<1>3. ASSUME UNCHANGED <<log, flight, stats, final, taken>> PROVE StatsOK' /\ LogsOK'
  BY <1>3 DEF StatsOK, LogsOK
<1>4. ASSUME NEW via \in view.via, NEW c \in view.changes, CreateWebhook(via, c) PROVE HookInv'
  <2>1. stats' = NoStats /\ final' = "none" /\ UNCHANGED <<log, flight, taken>>
    BY <1>4 DEF CreateWebhook, NoStats
  <2>2. StatsOK' /\ LogsOK'
    BY <2>1, ZeroStats DEF LogsOK
  <2> QED BY <1>4, <2>2, CreateRow
<1>5. ASSUME NEW e \in view.editors,
             \/ \E via \in view.via : handleWebhookEdit(e, via)
             \/ \E c \in view.changes : handleWebhookUpdate(e, c)
             \/ UpdateWebhook(e) \/ EditEnds(e)
      PROVE  HookInv'
  <2>1. e \in Editors
    BY <1>5, WebhookAdminAssumption DEF SettingsOK
  <2>2. UNCHANGED <<log, flight, stats, final, taken>>
    BY <1>5 DEF handleWebhookEdit, handleWebhookUpdate, UpdateWebhook, EditEnds, AttemptsRest
  <2> QED BY <1>3, <1>5, <2>1, <2>2, OpenEdit, CheckEdit, WriteEdit, EndEdit
<1>6. ASSUME NEW on \in BOOLEAN, setWebhookEnabled(on) PROVE HookInv'
  BY <1>3, <1>6, SwitchRow DEF setWebhookEnabled, AttemptsRest
<1>7. CASE DeleteWebhook
  BY <1>7, DeletedRow, OtherSteps
<1>8. ASSUME NEW l \in Logs,
             \/ Enqueue(l) \/ LoadWebhookDeliveryContext(l) \/ RetryDue(l) \/ PurgeLogs(l)
             \/ \E r \in view.replies : deliverWebhookLog(l, r)
      PROVE  HookInv'
  <2>1. UNCHANGED <<view, hook, edit, saves>>
    BY <1>8 DEF Enqueue, LoadWebhookDeliveryContext, RetryDue, PurgeLogs, deliverWebhookLog
  <2>2. StatsOK' /\ LogsOK'
    BY <1>8, OtherSteps, Deliver
  <2> QED BY <1>2, <2>1, <2>2
<1>9. CASE RetryAllWebhookLogs \/ ResetWebhookStats
  BY <1>2, <1>9, OtherSteps DEF RetryAllWebhookLogs, ResetWebhookStats
<1> QED BY <1>1, <1>4, <1>5, <1>6, <1>7, <1>8, <1>9 DEF AdminNext

LEMMA HookInductive == AdminSpec => []HookInv
BY HookInit, HookNext, PTL DEF AdminSpec

LEMMA PanelFollows == HookInv => PanelTruthful
<1> SUFFICES ASSUME HookInv, hook # NoHook PROVE PanelTruthful
  BY DEF PanelTruthful
<1>1. hook.enabled \in BOOLEAN
  BY DEF HookInv, SettingsOK, HookOK, RowOK
<1>2. webhookLastOutcomeFailed <=> final = "dead"
  BY DEF webhookLastOutcomeFailed, HookInv, StatsOK
<1>3. (stats.sent = 0 <=> final = "none") \/ final = "dead"
  BY DEF HookInv, StatsOK
<1>4. final \in {"none", "sent", "dead"}
  BY DEF HookInv, StatsOK
<1> DEFINE Q == {l \in Logs : log[l].status = "pending" \/ (log[l].status = "failed" /\ log[l].due)}
           R == {l \in Logs : log[l].status = "failed" /\ ~log[l].due}
<1>5. IsFiniteSet(Q) /\ IsFiniteSet(R)
  BY WebhookAdminAssumption, FS_Subset
<1>6. queueDue \in Nat /\ retrying \in Nat /\ (queueDue = 0 => Q = {}) /\ (retrying = 0 => R = {})
  BY <1>5, FS_CardinalityType, FS_EmptySet DEF queueDue, retrying
<1>7. queueDue = 0 /\ retrying = 0 => \A l \in Logs : log[l].status \notin {"pending", "failed"}
  BY <1>6
<1>8. ListFailingWebhooks <=> hook.enabled /\ webhookLastOutcomeFailed
  BY DEF ListFailingWebhooks, webhookLastOutcomeFailed
<1> HIDE DEF Q, R
<1> DEFINE s == classifyAdminWebhookStatus
<1>9. /\ (s = "error") = (hook.enabled /\ final = "dead")
      /\ s = "ok" => final = "sent"
      /\ s = "idle" => final = "none"
      /\ s \in {"ok", "idle"} => queueDue = 0 /\ retrying = 0
  BY <1>1, <1>2, <1>3, <1>4, <1>6 DEF classifyAdminWebhookStatus
<1>10. ListFailingWebhooks = (s = "error")
  BY <1>1, <1>2, <1>8, <1>9 DEF ListFailingWebhooks
<1> QED BY <1>7, <1>9, <1>10 DEF PanelTruthful

LEMMA SoundFollows == HookInv => HookSound
<1> SUFFICES ASSUME HookInv PROVE HookSound
  OBVIOUS
<1>1. AdminTypeOK
  <2>1. hook = NoHook \/ (hook.kind \in Kinds /\ hook.enabled \in BOOLEAN /\ DOMAIN hook.cfg = DOMAIN NoCfg)
    <3>1. DOMAIN NoCfg = CfgFields
      BY DEF NoCfg, CfgFields
    <3> QED BY <3>1, RowIsNoHook DEF HookInv, SettingsOK, HookOK, RowOK
  <2>2. \A e \in Editors : edit[e].at \in {"idle", "open", "write", "refused"}
    BY DEF HookInv, SettingsOK, EditsOK, EditOK, EditShape
  <2>3. \A l \in Logs : log[l].status \in {"none", "pending", "failed", "sent", "dead"} /\ log[l].attempt \in 0..MaxAttempts
    BY DEF HookInv, LogsOK, LogRows
  <2> QED BY <2>1, <2>2, <2>3 DEF AdminTypeOK, HookInv, SettingsOK, StatsOK
<1>2. HookBuilds
  <2> SUFFICES ASSUME hook # NoHook PROVE BuildWebhookOutbound([hook EXCEPT !.tmpl = Empty]) /\ (hook.kind # "http" => hook.secret = Empty)
    BY DEF HookBuilds
  <2>1. RowOK(hook)
    BY DEF HookInv, SettingsOK, HookOK
  <2> DEFINE h == [hook EXCEPT !.tmpl = Empty]
  <2>2. h.kind = hook.kind /\ h.cfg = hook.cfg /\ h.tmpl = Empty
    BY <2>1 DEF RowOK, RowFields
  <2> HIDE DEF h
  <2>3. BuildWebhookOutbound(h)
    BY <2>1, <2>2 DEF BuildWebhookOutbound, RowOK, Accepts, Empty
  <2> QED BY <2>1, <2>3 DEF h, RowOK
<1>3. SentMeansTaken
  BY DEF HookInv, LogsOK, SentMeansTaken
<1> QED BY <1>1, <1>2, <1>3, PanelFollows DEF HookSound

\* Whatever editors save over each other, delete and switch, for any number
\* of them: a request can be built from the row, the panel and the alert tell
\* the last outcome and hide no open delivery, and sent rows were taken.
THEOREM HookSoundHolds == AdminSpec => []HookSound
BY HookInductive, SoundFollows, PTL

LEMMA OnlyTypedStep ==
  ASSUME HookInv, HookInv', [AdminNext]_adminVars, NEW e \in Editors
  PROVE  /\ (Commits(e) /\ hook'.kind = hook.kind) =>
              /\ \A x \in DOMAIN NoCfg \ edit[e].typed : hook'.cfg[x] = hook.cfg[x] \/ (x = "token" /\ edit[e].via = "api")
              /\ \A x \in {"secret", "tmpl", "enabled", "success", "digest"} \ edit[e].typed : hook'[x] = hook[x]
              /\ edit[e].via = "page" \/ "headers" \in edit[e].typed \/ hook'.headers = hook.headers
         /\ (edit'[e].at = "refused" /\ edit'[e].typed = {} /\ edit'[e].fresh) => ~Guarded(hook)
<1>0. EditOK(edit[e], hook) /\ EditOK(edit'[e], hook') /\ edit = [x \in Editors |-> edit[x]] /\ DOMAIN NoCfg = CfgFields
  BY DEF HookInv, SettingsOK, EditsOK, NoCfg, CfgFields
<1>1. ASSUME Commits(e), hook'.kind = hook.kind
      PROVE  KeepsUntyped(edit[e].typed, edit[e].via, hook', hook)
  <2>1. edit[e].at = "write" /\ edit'[e].at = "idle" /\ hook # NoHook /\ edit[e].fresh
    BY <1>1 DEF Commits
  <2>2. UpdateWebhook(e)
    <3>1. edit' # edit
      BY <2>1
    <3>2. ASSUME NEW x \in Editors, UpdateWebhook(x), x # e PROVE FALSE
      <4>1. edit' = Stale(edit, x)
        BY <2>1, <3>2 DEF UpdateWebhook
      <4>2. edit'[e] = [edit[e] EXCEPT !.fresh = FALSE]
        BY <3>2, <4>1 DEF Stale
      <4> QED BY <1>0, <2>1, <4>2, UnfreshOK
    <3>3. ASSUME NEW x \in Editors, \/ \E via \in view.via : handleWebhookEdit(x, via)
                                    \/ \E c \in view.changes : handleWebhookUpdate(x, c)
                                    \/ EditEnds(x)
          PROVE FALSE
      <4>1. CASE x = e
        BY <2>1, <3>3, <4>1 DEF handleWebhookEdit, handleWebhookUpdate, EditEnds
      <4>2. CASE x # e
        BY <1>0, <2>1, <3>3, <4>2 DEF handleWebhookEdit, handleWebhookUpdate, EditEnds
      <4> QED BY <4>1, <4>2
    <3>4. ASSUME \/ DeleteWebhook \/ \E on \in BOOLEAN : setWebhookEnabled(on) PROVE FALSE
      <4>1. edit'[e] = [edit[e] EXCEPT !.fresh = FALSE]
        BY <3>4 DEF DeleteWebhook, setWebhookEnabled
      <4> QED BY <1>0, <2>1, <4>1, UnfreshOK
    <3>5. ASSUME NEW l \in Logs,
                 \/ Enqueue(l) \/ LoadWebhookDeliveryContext(l) \/ RetryDue(l) \/ PurgeLogs(l)
                 \/ \E r \in view.replies : deliverWebhookLog(l, r)
          PROVE  FALSE
      BY <3>1, <3>5 DEF Enqueue, LoadWebhookDeliveryContext, RetryDue, PurgeLogs, deliverWebhookLog
    <3>6. ASSUME \/ RetryAllWebhookLogs \/ ResetWebhookStats
                 \/ \E via \in view.via, c \in view.changes : CreateWebhook(via, c)
          PROVE  FALSE
      BY <3>1, <3>6 DEF RetryAllWebhookLogs, ResetWebhookStats, CreateWebhook
    <3>7. view.editors \subseteq Editors
      BY WebhookAdminAssumption DEF HookInv, SettingsOK
    <3> QED BY <3>1, <3>2, <3>3, <3>4, <3>5, <3>6, <3>7 DEF AdminNext, adminVars
  <2>3. hook' = edit[e].row
    BY <2>1, <2>2 DEF UpdateWebhook
  <2> QED BY <1>0, <1>1, <2>1, <2>3 DEF EditOK
<1>2. ASSUME edit'[e].at = "refused", edit'[e].typed = {}, edit'[e].fresh
      PROVE  ~Guarded(hook)
  <2>1. CASE hook' = hook
    BY <1>0, <1>2, <2>1 DEF EditOK
  <2>2. CASE hook' # hook
    <3>1. ASSUME \/ DeleteWebhook \/ \E on \in BOOLEAN : setWebhookEnabled(on) PROVE FALSE
      <4>1. edit'[e] = [edit[e] EXCEPT !.fresh = FALSE]
        BY <3>1 DEF DeleteWebhook, setWebhookEnabled
      <4> QED BY <1>0, <1>2, <4>1, UnfreshOK
    <3>2. ASSUME NEW x, UpdateWebhook(x) PROVE FALSE
      <4>1. edit' = Stale(edit, x)
        BY <2>2, <3>2 DEF UpdateWebhook
      <4>2. edit'[e] = Idle \/ edit'[e] = [edit[e] EXCEPT !.fresh = FALSE]
        BY <4>1 DEF Stale
      <4> QED BY <1>0, <1>2, <4>2, UnfreshOK DEF Idle
    <3>3. ASSUME \E via \in view.via, c \in view.changes : CreateWebhook(via, c) PROVE FALSE
      <4>1. edit' = edit /\ hook = NoHook
        BY <3>3 DEF CreateWebhook
      <4> QED BY <1>0, <1>2, <4>1 DEF EditOK
    <3>4. ASSUME \/ RetryAllWebhookLogs \/ ResetWebhookStats
                 \/ \E x : \/ \E via \in view.via : handleWebhookEdit(x, via)
                           \/ \E c \in view.changes : handleWebhookUpdate(x, c)
                           \/ EditEnds(x)
                 \/ \E l \in Logs : \/ Enqueue(l) \/ LoadWebhookDeliveryContext(l) \/ RetryDue(l) \/ PurgeLogs(l)
                                    \/ \E r \in view.replies : deliverWebhookLog(l, r)
          PROVE  FALSE
      BY <2>2, <3>4 DEF RetryAllWebhookLogs, ResetWebhookStats, handleWebhookEdit, handleWebhookUpdate, EditEnds,
                        Enqueue, LoadWebhookDeliveryContext, RetryDue, PurgeLogs, deliverWebhookLog
    <3> QED BY <2>2, <3>1, <3>2, <3>3, <3>4 DEF AdminNext, adminVars
  <2> QED BY <2>1, <2>2
<1> QED BY <1>0, <1>1, <1>2 DEF KeepsUntyped

\* A save changes what was typed and nothing else as long as nobody else
\* wrote, and what was not touched is accepted again, over pages and API.
THEOREM OnlyTypedHolds == AdminSpec => OnlyTypedChanges
<1>1. HookInv /\ HookInv' /\ [AdminNext]_adminVars =>
        [\A e \in Editors :
           /\ (Commits(e) /\ hook'.kind = hook.kind) =>
                /\ \A x \in DOMAIN NoCfg \ edit[e].typed : hook'.cfg[x] = hook.cfg[x] \/ (x = "token" /\ edit[e].via = "api")
                /\ \A x \in {"secret", "tmpl", "enabled", "success", "digest"} \ edit[e].typed : hook'[x] = hook[x]
                /\ edit[e].via = "page" \/ "headers" \in edit[e].typed \/ hook'.headers = hook.headers
           /\ (edit'[e].at = "refused" /\ edit'[e].typed = {} /\ edit'[e].fresh) => ~Guarded(hook)]_adminVars
  BY OnlyTypedStep, Zenon
<1> QED BY <1>1, HookInductive, PTL DEF AdminSpec, OnlyTypedChanges
=============================================================================
