---------------------------- MODULE CatalogProofs ---------------------------
(***************************************************************************)
(* Proofs about Catalog, for any users, feeds, webhooks, categories and    *)
(* requests in flight: what feeds and subscriptions name exists and        *)
(* belongs to who named it, everybody reads what they want and no more,    *)
(* and the quotas hold for an editor whose requests did not overlap.       *)
(***************************************************************************)
EXTENDS Catalog, FiniteSetTheorems, TLAPS

\* What the rows promise each other.
Rows == OwnWebhookOnly /\ CategoryExists /\ FollowersRead /\ OnlyWantedFeeds

\* A request in flight knows its user, a bulk move goes to another category,
\* and an import does nothing but create feeds and subscribe.
Moves(q) == q.at = "moving" \/ (q.at = "bulk" /\ q.kind = "move")
ReqOK(q) ==
  /\ q.at # "idle" => q.who \in Editors
  /\ Moves(q) => q.cat # q.to
  /\ q.at = "import" \/ q.ctx = "cancelled" => q.kind = "import"
  /\ q.kind = "import" => q.at \in {"queued", "import", "create", "dup", "done"}

\* What the count of a request that still may add a feed is worth: the row it
\* is about to insert fits, and an import has counted at least what there is.
Counted(q, n) ==
  /\ q.at = "create" => n < MaxFeeds
  /\ q.kind = "import" /\ q.at \in {"create", "dup", "import"} =>
       n <= q.seen /\ (q.at = "create" => q.seen < MaxFeeds)

Hooking(u) == {r \in Reqs : req[r].who = u /\ req[r].at = "hook"}
Alone(S) == \A r, s \in S : r = s
Free == Editors \ (Admins \cup exempt)

\* An editor who is not exempt has at most one request that adds feeds, and
\* its count is good until it inserts; likewise for webhooks.
FeedQuota(u) ==
  /\ Alone(Adding(u))
  /\ MaxFeeds > 0 => /\ Owned(u) <= MaxFeeds
                     /\ \A r \in Adding(u) : req[r].ctx = "live" => Counted(req[r], Owned(u))
HookQuota(u) ==
  /\ Alone(Hooking(u))
  /\ MaxHooks > 0 => HookCount(u) <= MaxHooks /\ (Hooking(u) # {} => HookCount(u) < MaxHooks)

CInv ==
  /\ mix \in Mixes /\ TypeOK /\ Rows
  /\ \A r \in Reqs : ReqOK(req[r])
  /\ \A u \in Free : FeedQuota(u) /\ HookQuota(u)

LEMMA CInvSafe == CInv => RefsIntact /\ ReadersAsWanted /\ QuotaUnlessOverlap
BY DEF CInv, Rows, RefsIntact, ReadersAsWanted, QuotaUnlessOverlap, FeedQuota, HookQuota, Free

(* ---------------------------- counting rows ------------------------------ *)

LEMMA Counting ==
  ASSUME NEW u
  PROVE  /\ IsFiniteSet({f \in Live : feed[f].owner = u}) /\ Owned(u) \in Nat
         /\ IsFiniteSet({h \in Hooks : hook[h] = u}) /\ HookCount(u) \in Nat
<1>1. {f \in Live : feed[f].owner = u} \subseteq Feeds /\ {h \in Hooks : hook[h] = u} \subseteq Hooks
  BY DEF Live
<1>2. IsFiniteSet({f \in Live : feed[f].owner = u}) /\ IsFiniteSet({h \in Hooks : hook[h] = u})
  BY <1>1, FS_Subset, CatalogAssumption
<1> QED
  BY <1>2, FS_CardinalityType DEF Owned, HookCount

LEMMA CountingNext ==
  ASSUME NEW u
  PROVE  /\ IsFiniteSet({f \in Live' : feed'[f].owner = u}) /\ Owned(u)' \in Nat
         /\ IsFiniteSet({h \in Hooks : hook'[h] = u}) /\ HookCount(u)' \in Nat
<1>1. {f \in Live' : feed'[f].owner = u} \subseteq Feeds /\ {h \in Hooks : hook'[h] = u} \subseteq Hooks
  BY DEF Live
<1>2. IsFiniteSet({f \in Live' : feed'[f].owner = u}) /\ IsFiniteSet({h \in Hooks : hook'[h] = u})
  BY <1>1, FS_Subset, CatalogAssumption
<1> QED
  BY <1>2, FS_CardinalityType DEF Owned, HookCount

\* No feed appears and none changes its owner.
LEMMA OwnedFalls ==
  ASSUME \A f \in Feeds : feed'[f].st = "live" => feed[f].st = "live" /\ feed'[f].owner = feed[f].owner
  PROVE  \A u : Owned(u)' <= Owned(u)
<1> SUFFICES ASSUME NEW u PROVE Owned(u)' <= Owned(u)
  OBVIOUS
<1>1. {f \in Live' : feed'[f].owner = u} \subseteq {f \in Live : feed[f].owner = u}
  BY DEF Live
<1> QED
  BY <1>1, Counting, FS_Subset DEF Owned

LEMMA HooksFall ==
  ASSUME \A h \in Hooks : \A u \in Users : hook'[h] = u => hook[h] = u
  PROVE  \A u \in Users : HookCount(u)' <= HookCount(u)
<1> SUFFICES ASSUME NEW u \in Users PROVE HookCount(u)' <= HookCount(u)
  OBVIOUS
<1>1. {h \in Hooks : hook'[h] = u} \subseteq {h \in Hooks : hook[h] = u}
  OBVIOUS
<1> QED
  BY <1>1, Counting, FS_Subset DEF HookCount

LEMMA OwnedSame == feed' = feed => \A u : Owned(u)' = Owned(u)
BY DEF Owned, Live

LEMMA HooksSame == hook' = hook => \A u : HookCount(u)' = HookCount(u)
BY DEF HookCount

(* ------------------------------- requests -------------------------------- *)

LEMMA ReqStep ==
  ASSUME CInv, NEW r \in Reqs, NEW x \in Requests, ReqOK(x), req' = [req EXCEPT ![r] = x]
  PROVE  /\ req' \in [Reqs -> Requests] /\ \A s \in Reqs : ReqOK(req'[s])
         /\ req'[r] = x /\ \A s \in Reqs \ {r} : req'[s] = req[s]
BY DEF CInv, TypeOK

LEMMA IdleFits == Idle \in Requests /\ ReqOK(Idle) /\ Idle.at = "idle"
BY DEF Idle, Requests, ReqOK, Moves

Adds == {"create", "dup", "secret", "import"}
Quotas == \A u \in Free : FeedQuota(u) /\ HookQuota(u)

\* A count that was good stays good when there are fewer feeds.
LEMMA CountedFalls ==
  ASSUME NEW q \in Requests, NEW n \in Nat, NEW m \in Nat, m <= n, Counted(q, n)
  PROVE  Counted(q, m)
BY CatalogAssumption DEF Counted, Requests

\* The quotas after a step that adds neither a row nor a request that may:
\* the request in it goes on with a count that is worth what it was worth.
LEMMA QuotaKept ==
  ASSUME CInv, NEW r \in Reqs, NEW x \in Requests, req' = [req EXCEPT ![r] = x], exempt \subseteq exempt',
         \A u : Owned(u)' <= Owned(u), \A u \in Users : HookCount(u)' <= HookCount(u),
         x.at \in Adds => /\ req[r].at \in Adds /\ x.who = req[r].who
                          /\ x.ctx = "live" => req[r].ctx = "live"
                          /\ MaxFeeds > 0 /\ x.who \notin Admins => \A n \in Nat : Counted(req[r], n) => Counted(x, n),
         x.at = "hook" => req[r].at = "hook" /\ x.who = req[r].who
  PROVE  Quotas'
<1> SUFFICES ASSUME NEW u \in Free' PROVE FeedQuota(u)' /\ HookQuota(u)'
  BY DEF Quotas
<1>1. u \in Free /\ u \in Users /\ u \notin Admins
  BY CatalogAssumption DEF Free
<1>2. FeedQuota(u) /\ HookQuota(u)
  BY <1>1 DEF CInv
<1>3. \A s \in Reqs : req'[s] = IF s = r THEN x ELSE req[s]
  BY DEF CInv, TypeOK
<1>4. Adding(u)' \subseteq Adding(u) /\ Hooking(u)' \subseteq Hooking(u)
  BY <1>3 DEF Adding, Hooking, Adds
<1>5. Alone(Adding(u)') /\ Alone(Hooking(u)')
  BY <1>2, <1>4 DEF FeedQuota, HookQuota, Alone
<1>6. /\ Owned(u) \in Nat /\ Owned(u)' \in Nat /\ Owned(u)' <= Owned(u)
      /\ HookCount(u) \in Nat /\ HookCount(u)' \in Nat /\ HookCount(u)' <= HookCount(u)
  BY <1>1, Counting, CountingNext
<1>7. ASSUME MaxFeeds > 0, NEW s \in Adding(u)', req'[s].ctx = "live" PROVE Counted(req'[s], Owned(u)')
  <2>1. s \in Reqs /\ s \in Adding(u) /\ req'[s].who = u /\ req'[s].at \in Adds
    BY <1>4, <1>7 DEF Adding, Adds
  <2>2. req[s] \in Requests /\ req'[s] \in Requests
    BY <1>3, <2>1 DEF CInv, TypeOK
  <2>3. req[s].ctx = "live"
    BY <1>3, <1>7, <2>1
  <2>4. Counted(req[s], Owned(u))
    BY <1>2, <1>7, <2>1, <2>3 DEF FeedQuota
  <2>5. Counted(req'[s], Owned(u))
    BY <1>1, <1>3, <1>6, <1>7, <2>1, <2>4
  <2> QED
    BY <1>6, <2>2, <2>5, CountedFalls
<1>8. MaxFeeds > 0 => Owned(u)' <= MaxFeeds
  BY <1>2, <1>6, CatalogAssumption DEF FeedQuota
<1>9. MaxHooks > 0 => HookCount(u)' <= MaxHooks /\ (Hooking(u)' # {} => HookCount(u)' < MaxHooks)
  BY <1>2, <1>4, <1>6, CatalogAssumption DEF HookQuota
<1> QED
  BY <1>5, <1>7, <1>8, <1>9 DEF FeedQuota, HookQuota

\* The same, when no request is in the step.
LEMMA QuotaRest ==
  ASSUME CInv, req' = req, exempt' = exempt,
         \A u : Owned(u)' <= Owned(u), \A u \in Users : HookCount(u)' <= HookCount(u)
  PROVE  Quotas'
<1> SUFFICES ASSUME NEW u \in Free PROVE FeedQuota(u)' /\ HookQuota(u)'
  BY DEF Quotas, Free
<1>1. FeedQuota(u) /\ HookQuota(u) /\ u \in Users
  BY CatalogAssumption DEF CInv, Free
<1>2. /\ Owned(u) \in Nat /\ Owned(u)' \in Nat /\ Owned(u)' <= Owned(u)
      /\ HookCount(u) \in Nat /\ HookCount(u)' \in Nat /\ HookCount(u)' <= HookCount(u)
  BY <1>1, Counting, CountingNext
<1>3. Adding(u)' = Adding(u) /\ Hooking(u)' = Hooking(u)
  BY DEF Adding, Hooking
<1>4. \A s \in Adding(u) : req[s] \in Requests
  BY DEF Adding, CInv, TypeOK
<1>5. ASSUME MaxFeeds > 0, NEW s \in Adding(u), req[s].ctx = "live" PROVE Counted(req[s], Owned(u)')
  BY <1>1, <1>2, <1>4, <1>5, CountedFalls DEF FeedQuota
<1>6. Alone(Adding(u)') /\ Alone(Hooking(u)')
  BY <1>1, <1>3 DEF FeedQuota, HookQuota, Alone
<1>7. /\ MaxFeeds > 0 => Owned(u)' <= MaxFeeds
      /\ MaxHooks > 0 => HookCount(u)' <= MaxHooks /\ (Hooking(u)' # {} => HookCount(u)' < MaxHooks)
  BY <1>1, <1>2, <1>3, CatalogAssumption DEF FeedQuota, HookQuota
<1> QED
  BY <1>3, <1>5, <1>6, <1>7 DEF FeedQuota, HookQuota

\* A new request has the editor's attention, or its editor is exempt.
LEMMA QuotaStart ==
  ASSUME CInv, NEW r \in Reqs, NEW x \in Requests, req' = [req EXCEPT ![r] = x], exempt \subseteq exempt',
         feed' = feed, hook' = hook, x.who \in Users,
         x.at \in Adds => \/ x.who \in exempt'
                          \/ /\ Adding(x.who) = {}
                             /\ MaxFeeds > 0 /\ x.who \notin Admins /\ x.ctx = "live" => Counted(x, Owned(x.who)),
         x.at = "hook" => \/ x.who \in exempt'
                          \/ Hooking(x.who) = {} /\ MayAddHook(x.who, HookCount(x.who))
  PROVE  Quotas'
<1> SUFFICES ASSUME NEW u \in Free' PROVE FeedQuota(u)' /\ HookQuota(u)'
  BY DEF Quotas
<1>1. u \in Free /\ u \in Users /\ u \notin Admins /\ u \notin exempt'
  BY CatalogAssumption DEF Free
<1>2. FeedQuota(u) /\ HookQuota(u)
  BY <1>1 DEF CInv
<1>3. \A s \in Reqs : req'[s] = IF s = r THEN x ELSE req[s]
  BY DEF CInv, TypeOK
<1>4. Owned(u)' = Owned(u) /\ HookCount(u)' = HookCount(u)
  BY OwnedSame, HooksSame
<1>5. FeedQuota(u)'
  <2>1. CASE x.at \in Adds /\ x.who = u
    <3>1. Adding(u) = {} /\ (MaxFeeds > 0 /\ x.ctx = "live" => Counted(x, Owned(u)))
      BY <1>1, <2>1
    <3>2. \A s \in Adding(u)' : s = r
      BY <1>3, <3>1 DEF Adding
    <3> QED
      BY <1>2, <1>3, <1>4, <3>1, <3>2 DEF FeedQuota, Alone
  <2>2. CASE ~(x.at \in Adds /\ x.who = u)
    <3>1. \A s \in Adding(u)' : s # r /\ s \in Reqs /\ s \in Adding(u) /\ req'[s] = req[s]
      BY <1>3, <2>2 DEF Adding, Adds
    <3> QED
      BY <1>2, <1>4, <3>1 DEF FeedQuota, Alone
  <2> QED
    BY <2>1, <2>2
<1>6. HookQuota(u)'
  <2>1. CASE x.at = "hook" /\ x.who = u
    <3>1. Hooking(u) = {} /\ MayAddHook(u, HookCount(u))
      BY <1>1, <2>1
    <3>2. \A s \in Hooking(u)' : s = r
      BY <1>3, <3>1 DEF Hooking
    <3>3. MaxHooks > 0 => HookCount(u) < MaxHooks
      BY <1>1, <3>1, CatalogAssumption DEF MayAddHook
    <3> QED
      BY <1>2, <1>4, <3>2, <3>3 DEF HookQuota, Alone
  <2>2. CASE ~(x.at = "hook" /\ x.who = u)
    <3>1. \A s \in Hooking(u)' : s # r /\ s \in Reqs /\ s \in Hooking(u)
      BY <1>3, <2>2 DEF Hooking
    <3> QED
      BY <1>2, <1>4, <3>1 DEF HookQuota, Alone
  <2> QED
    BY <2>1, <2>2
<1> QED
  BY <1>5, <1>6

(* ------------------------- putting it together --------------------------- *)

\* TypeOK without the requests.
Tables ==
  /\ feed \in [Feeds -> FeedRows]
  /\ subs \in [Users -> [Feeds -> Hooks \cup {None, Off}]]
  /\ cats \subseteq Cats /\ follows \subseteq Users \X cats
  /\ hook \in [Hooks -> Users \cup {None, Off}]
  /\ chosen \cup stale \subseteq Users \X Feeds
  /\ \A p \in chosen \cup stale : Reads(p[1], p[2])

LEMMA Parts ==
  CInv => /\ mix \in Mixes /\ Tables /\ Rows /\ Quotas
          /\ req \in [Reqs -> Requests] /\ \A r \in Reqs : req[r] \in Requests /\ ReqOK(req[r])
BY DEF CInv, TypeOK, Tables, Quotas

LEMMA Whole ==
  ASSUME CInv, mix' = mix, Tables', Rows', req' \in [Reqs -> Requests], \A r \in Reqs : ReqOK(req'[r]), Quotas'
  PROVE  CInv'
BY DEF CInv, TypeOK, Tables, Quotas

LEMMA RowsRest == ASSUME CInv, UNCHANGED rows PROVE Tables' /\ Rows'
<1>1. Tables /\ Rows
  BY Parts
<1>2. Tables'
  BY <1>1 DEF rows, Tables, Reads
<1>3. Rows'
  BY <1>1 DEF rows, Rows, OwnWebhookOnly, CategoryExists, FollowersRead, OnlyWantedFeeds, Reads, Live, CatOK, Followers, At
<1> QED
  BY <1>2, <1>3

LEMMA CInitInv == Init => CInv
<1> SUFFICES ASSUME Init PROVE CInv
  OBVIOUS
<1>1. mix \in Mixes
  BY DEF Init
<1>2. feed \in [Feeds -> FeedRows] /\ \A f \in Feeds : feed[f].cat \in cats \cup {None}
  <2>1. NoFeed \in FeedRows /\ NoFeed.cat = None
    BY DEF NoFeed, FeedRows
  <2> QED
    BY <1>1, <2>1, MixesAssumption DEF Init
<1>3. subs \in [Users -> [Feeds -> Hooks \cup {None, Off}]] /\ \A u \in Users, f \in Feeds : ~Reads(u, f)
  BY DEF Init, Reads
<1>4. hook \in [Hooks -> Users \cup {None, Off}]
  BY <1>1, MixesAssumption DEF Init
<1>5. req \in [Reqs -> Requests] /\ \A r \in Reqs : req[r] = Idle
  BY IdleFits DEF Init
<1>6. Tables
  BY <1>1, <1>2, <1>3, <1>4, MixesAssumption DEF Init, Tables
<1>7. Rows
  BY <1>2, <1>3 DEF Init, Rows, OwnWebhookOnly, CategoryExists, FollowersRead, OnlyWantedFeeds, CatOK, Followers, At, Live
<1>8. ASSUME NEW u \in Free PROVE FeedQuota(u) /\ HookQuota(u)
  <2>1. u \in Editors \ Admins /\ u \in Users /\ u # None
    BY <1>8, CatalogAssumption DEF Free
  <2>2. Adding(u) = {} /\ Hooking(u) = {}
    BY <1>5, IdleFits DEF Adding, Hooking
  <2>3. {f \in Live : feed[f].owner = u} \subseteq {f \in Feeds \cap DOMAIN mix.feeds : mix.feeds[f].owner = u}
    BY <2>1 DEF Live, Init, NoFeed
  <2>4. {h \in Hooks : hook[h] = u} \subseteq {h \in Hooks \cap DOMAIN mix.hooks : mix.hooks[h] = u}
    BY <2>1 DEF Init
  <2>5. /\ IsFiniteSet({f \in Feeds \cap DOMAIN mix.feeds : mix.feeds[f].owner = u})
        /\ IsFiniteSet({h \in Hooks \cap DOMAIN mix.hooks : mix.hooks[h] = u})
    <3>1. /\ {f \in Feeds \cap DOMAIN mix.feeds : mix.feeds[f].owner = u} \subseteq Feeds
          /\ {h \in Hooks \cap DOMAIN mix.hooks : mix.hooks[h] = u} \subseteq Hooks
      OBVIOUS
    <3> QED
      BY <3>1, FS_Subset, CatalogAssumption
  <2> DEFINE a == Cardinality({f \in Feeds \cap DOMAIN mix.feeds : mix.feeds[f].owner = u})
             b == Cardinality({h \in Hooks \cap DOMAIN mix.hooks : mix.hooks[h] = u})
  <2>6. Owned(u) <= a /\ HookCount(u) <= b
    BY <2>3, <2>4, <2>5, FS_Subset DEF Owned, HookCount
  <2>7. a \in Nat /\ b \in Nat /\ Owned(u) \in Nat /\ HookCount(u) \in Nat
    BY <2>5, FS_CardinalityType, Counting
  <2>8. (MaxFeeds > 0 => a <= MaxFeeds) /\ (MaxHooks > 0 => b <= MaxHooks)
    BY <1>1, <2>1, MixesAssumption
  <2> HIDE DEF a, b
  <2>9. (MaxFeeds > 0 => Owned(u) <= MaxFeeds) /\ (MaxHooks > 0 => HookCount(u) <= MaxHooks)
    BY <2>6, <2>7, <2>8, CatalogAssumption
  <2> QED
    BY <2>2, <2>9 DEF FeedQuota, HookQuota, Alone
<1> QED
  BY <1>1, <1>5, <1>6, <1>7, <1>8, IdleFits DEF CInv, TypeOK, Tables

(* --------------------- steps of the requests alone ----------------------- *)

\* A request that changes no row, or only rows that are none of its business.
LEMMA ReqOnly ==
  ASSUME CInv, NEW r \in Reqs, NEW x \in Requests, ReqOK(x), req' = [req EXCEPT ![r] = x],
         mix' = mix, Tables', Rows', Quotas'
  PROVE  CInv'
BY ReqStep, Whole

\* The end of a request's step.
After(q) == IF q.kind = "import" THEN [q EXCEPT !.at = "import"] ELSE Idle

LEMMA AfterFits ==
  ASSUME NEW q \in Requests, ReqOK(q), q.at # "idle"
  PROVE  After(q) \in Requests /\ ReqOK(After(q))
BY IdleFits DEF After, Requests, ReqOK, Moves

LEMMA ThenIs == ASSUME NEW r \in Reqs, Then(r) PROVE req' = [req EXCEPT ![r] = After(req[r])]
BY DEF Then, After

\* The quotas after a step that ends with Then and adds no row of a user.
LEMMA ThenQuota ==
  ASSUME CInv, NEW r \in Reqs, Then(r), req[r].at \in Adds \cup {"bulk", "moving", "hook"}, exempt' = exempt,
         \A u : Owned(u)' <= Owned(u), \A u \in Users : HookCount(u)' <= HookCount(u)
  PROVE  Quotas'
<1> DEFINE q == req[r]
           x == After(q)
<1>1. q \in Requests /\ ReqOK(q) /\ q.at # "idle"
  BY Parts DEF Adds
<1>2. x \in Requests
  BY <1>1, AfterFits
<1>3. req' = [req EXCEPT ![r] = x]
  BY ThenIs
<1>4. x.at \in Adds => /\ q.at \in Adds /\ x.who = q.who /\ x.ctx = q.ctx
                       /\ \A n \in Nat : Counted(q, n) => Counted(x, n)
  BY <1>1, IdleFits DEF After, Adds, Counted, Requests, ReqOK
<1>5. x.at # "hook"
  BY <1>1, IdleFits DEF After, Requests
<1> HIDE DEF x
<1> QED
  BY <1>2, <1>3, <1>4, <1>5, QuotaKept

LEMMA Starts ==
  ASSUME CInv, NEW r \in Reqs, NEW x \in Requests, ReqOK(x), x.who \in Editors, req' = [req EXCEPT ![r] = x],
         UNCHANGED <<rows, mix>>, exempt \subseteq exempt',
         x.at \in Adds => \/ x.who \in exempt'
                          \/ /\ Adding(x.who) = {}
                             /\ MaxFeeds > 0 /\ x.who \notin Admins /\ x.ctx = "live" => Counted(x, Owned(x.who)),
         x.at = "hook" => \/ x.who \in exempt'
                          \/ Hooking(x.who) = {} /\ MayAddHook(x.who, HookCount(x.who))
  PROVE  CInv'
<1>1. Tables' /\ Rows' /\ mix' = mix /\ feed' = feed /\ hook' = hook
  BY RowsRest DEF rows
<1>2. x.who \in Users
  BY CatalogAssumption
<1>3. Quotas'
  BY <1>1, <1>2, QuotaStart
<1> QED
  BY <1>1, <1>3, ReqOnly

LEMMA CreatesStart ==
  ASSUME CInv, NEW r \in Reqs, NEW u \in Editors, NEW c \in Cats \cup {None}
  PROVE  /\ \A url \in Urls, own \in BOOLEAN : handleCreateFeed(r, u, url, c, own) => CInv'
         /\ \A url \in Urls, h \in Hooks \cup {None} : handleFeedCreate(r, u, url, c, h) => CInv'
         /\ \A own \in BOOLEAN : handleInboundFeedCreate(r, u, c, own) => CInv'
<1>1. ASSUME NEW x \in Requests, x.at = "create", x.who = u, x.kind \in {"rss", "inbound"}, x.ctx = "live",
             MayAdd(u, Owned(u)), Overlap(u), UNCHANGED <<rows, mix>>, req' = [req EXCEPT ![r] = x]
      PROVE  CInv'
  <2>1. ReqOK(x)
    BY <1>1 DEF ReqOK, Moves
  <2>2. exempt \subseteq exempt' /\ (Adding(u) # {} => u \in exempt')
    BY <1>1 DEF Overlap
  <2>3. MaxFeeds > 0 /\ u \notin Admins => Counted(x, Owned(u))
    BY <1>1, CatalogAssumption DEF MayAdd, Counted
  <2> QED
    BY <1>1, <2>1, <2>2, <2>3, Starts
<1>2. ASSUME NEW url \in Urls, NEW own \in BOOLEAN, handleCreateFeed(r, u, url, c, own) PROVE CInv'
  <2> DEFINE x == [Idle EXCEPT !.at = "create", !.who = u, !.kind = "rss", !.url = url, !.cat = c, !.own = own]
  <2>1. x \in Requests /\ x.at = "create" /\ x.who = u /\ x.kind = "rss" /\ x.ctx = "live"
    BY CatalogAssumption DEF Idle, Requests
  <2>2. req' = [req EXCEPT ![r] = x]
    BY <1>2 DEF handleCreateFeed, Start
  <2> HIDE DEF x
  <2> QED
    BY <1>1, <1>2, <2>1, <2>2 DEF handleCreateFeed
<1>3. ASSUME NEW url \in Urls, NEW h \in Hooks \cup {None}, handleFeedCreate(r, u, url, c, h) PROVE CInv'
  <2> DEFINE x == [Idle EXCEPT !.at = "create", !.who = u, !.kind = "rss", !.url = url, !.cat = c, !.hook = h]
  <2>1. x \in Requests /\ x.at = "create" /\ x.who = u /\ x.kind = "rss" /\ x.ctx = "live"
    BY CatalogAssumption DEF Idle, Requests
  <2>2. req' = [req EXCEPT ![r] = x]
    BY <1>3 DEF handleFeedCreate, Start
  <2> HIDE DEF x
  <2> QED
    BY <1>1, <1>3, <2>1, <2>2 DEF handleFeedCreate
<1>4. ASSUME NEW own \in BOOLEAN, handleInboundFeedCreate(r, u, c, own) PROVE CInv'
  <2> DEFINE x == [Idle EXCEPT !.at = "create", !.who = u, !.kind = "inbound", !.cat = c, !.own = own]
  <2>1. x \in Requests /\ x.at = "create" /\ x.who = u /\ x.kind = "inbound" /\ x.ctx = "live"
    BY CatalogAssumption DEF Idle, Requests
  <2>2. req' = [req EXCEPT ![r] = x]
    BY <1>4 DEF handleInboundFeedCreate, Start
  <2> HIDE DEF x
  <2> QED
    BY <1>1, <1>4, <2>1, <2>2 DEF handleInboundFeedCreate
<1> QED
  BY <1>2, <1>3, <1>4

LEMMA BulksStart ==
  ASSUME CInv, NEW r \in Reqs, NEW u \in Editors, NEW c \in Cats \cup {None}
  PROVE  /\ \A h \in Hooks \cup {None} : handleCategoryBulkWebhook(r, u, c, h) => CInv'
         /\ \A to \in Cats \cup {None} : handleCategoryBulkMove(r, u, c, to) => CInv'
<1>1. ASSUME NEW h \in Hooks \cup {None}, handleCategoryBulkWebhook(r, u, c, h) PROVE CInv'
  <2> DEFINE x == [Idle EXCEPT !.at = "bulk", !.who = u, !.kind = "hook", !.cat = c, !.hook = h]
  <2>1. x \in Requests
    BY CatalogAssumption DEF Idle, Requests
  <2>2. ReqOK(x) /\ x.who = u /\ x.at = "bulk"
    BY DEF Idle, ReqOK, Moves
  <2>3. req' = [req EXCEPT ![r] = x]
    BY <1>1 DEF handleCategoryBulkWebhook, Start
  <2> HIDE DEF x
  <2> QED
    BY <1>1, <2>1, <2>2, <2>3, Starts DEF handleCategoryBulkWebhook, Adds
<1>2. ASSUME NEW to \in Cats \cup {None}, handleCategoryBulkMove(r, u, c, to) PROVE CInv'
  <2> DEFINE x == [Idle EXCEPT !.at = "bulk", !.who = u, !.kind = "move", !.cat = c, !.to = to]
  <2>1. x \in Requests
    BY CatalogAssumption DEF Idle, Requests
  <2>2. ReqOK(x) /\ x.who = u /\ x.at = "bulk"
    BY <1>2 DEF Idle, ReqOK, Moves, handleCategoryBulkMove
  <2>3. req' = [req EXCEPT ![r] = x]
    BY <1>2 DEF handleCategoryBulkMove, Start
  <2> HIDE DEF x
  <2> QED
    BY <1>2, <2>1, <2>2, <2>3, Starts DEF handleCategoryBulkMove, Adds
<1> QED
  BY <1>1, <1>2

LEMMA HookStart ==
  ASSUME CInv, NEW r \in Reqs, NEW u \in Editors, CountWebhooks(r, u)
  PROVE  CInv'
<1> DEFINE x == [Idle EXCEPT !.at = "hook", !.who = u]
<1>1. x \in Requests
  BY CatalogAssumption DEF Idle, Requests
<1>2. ReqOK(x) /\ x.who = u /\ x.at = "hook"
  BY DEF Idle, ReqOK, Moves
<1>3. req' = [req EXCEPT ![r] = x]
  BY DEF CountWebhooks, Start
<1> HIDE DEF x
<1>4. exempt \subseteq exempt' /\ (Hooking(u) # {} => u \in exempt')
  BY DEF CountWebhooks, Hooking
<1> QED
  BY <1>1, <1>2, <1>3, <1>4, Starts DEF CountWebhooks, Adds

\* What an import counts first is what there is.
LEMMA SnapshotFits ==
  ASSUME CInv, NEW u \in Editors, NEW ok \in BOOLEAN
  PROVE  /\ Snapshot(u, ok) \in Requests
         /\ Snapshot(u, ok).at = "import" /\ Snapshot(u, ok).kind = "import" /\ Snapshot(u, ok).who = u
         /\ Snapshot(u, ok).ctx = "live" /\ (ok => Snapshot(u, ok).seen = Owned(u))
<1>1. Tables /\ mix.file \subseteq Items /\ u \in Users /\ Owned(u) \in Nat
  BY Parts, MixesAssumption, CatalogAssumption, Counting
<1>2. {feed[f].url : f \in At(u)} \subseteq Urls \cup {None}
  BY <1>1 DEF Tables, At, Live, FeedRows
<1>3. {h \in Hooks : hook[h] = u} \subseteq Hooks /\ cats \subseteq Cats
  BY <1>1 DEF Tables
<1> QED
  BY <1>1, <1>2, <1>3, ZenonT(40) DEF Snapshot, Idle, Requests

LEMMA ImportsStart ==
  ASSUME CInv, NEW r \in Reqs, NEW u \in Editors
  PROVE  /\ \A ok \in BOOLEAN : importOPML(r, u, ok) => CInv'
         /\ startAsyncOPMLImport(r, u) => CInv'
<1>1. ASSUME NEW ok \in BOOLEAN, importOPML(r, u, ok) PROVE CInv'
  <2> DEFINE x == Snapshot(u, ok)
  <2>1. /\ x \in Requests /\ x.at = "import" /\ x.kind = "import" /\ x.who = u
        /\ ok => x.seen = Owned(u)
    BY SnapshotFits
  <2>2. req' = [req EXCEPT ![r] = x] /\ UNCHANGED <<rows, mix>>
    BY <1>1 DEF importOPML, Start
  <2> HIDE DEF x
  <2>3. ReqOK(x)
    BY <2>1 DEF ReqOK, Moves
  <2>4. exempt \subseteq exempt' /\ (Adding(u) # {} \/ ~ok => u \in exempt')
    BY <1>1 DEF importOPML
  <2>5. ok => Counted(x, Owned(u))
    <3>1. Owned(u) \in Nat
      BY Counting
    <3> QED
      BY <2>1, <3>1 DEF Counted
  <2> QED
    BY <2>1, <2>2, <2>3, <2>4, <2>5, Starts
<1>2. ASSUME startAsyncOPMLImport(r, u) PROVE CInv'
  <2> DEFINE x == [Idle EXCEPT !.at = "queued", !.who = u, !.kind = "import"]
  <2>1. x \in Requests
    BY CatalogAssumption DEF Idle, Requests
  <2>2. ReqOK(x) /\ x.who = u /\ x.at = "queued"
    BY DEF Idle, ReqOK, Moves
  <2>3. req' = [req EXCEPT ![r] = x]
    BY <1>2 DEF startAsyncOPMLImport, Start
  <2> HIDE DEF x
  <2> QED
    BY <1>2, <2>1, <2>2, <2>3, Starts DEF startAsyncOPMLImport, Adds
<1> QED
  BY <1>1, <1>2

LEMMA JobRunsInv == ASSUME CInv, NEW r \in Reqs, JobRuns(r) PROVE CInv'
<1> DEFINE q == req[r]
           y == Snapshot(q.who, q.ctx = "live")
           x == [y EXCEPT !.ctx = q.ctx]
<1>1. q \in Requests /\ ReqOK(q) /\ q.at = "queued" /\ q.who \in Editors
  BY Parts DEF JobRuns, ReqOK
<1>2. /\ y \in Requests /\ y.at = "import" /\ y.kind = "import" /\ y.who = q.who
      /\ q.ctx = "live" => y.seen = Owned(q.who)
  BY <1>1, SnapshotFits
<1>3. req' = [req EXCEPT ![r] = x] /\ UNCHANGED <<rows, mix>>
  BY DEF JobRuns
<1> HIDE DEF y
<1>4. /\ x \in Requests /\ x.at = "import" /\ x.kind = "import" /\ x.who = q.who /\ x.ctx = q.ctx
      /\ q.ctx = "live" => x.seen = Owned(q.who)
  BY <1>1, <1>2 DEF Requests
<1>5. ReqOK(x)
  BY <1>1, <1>4 DEF ReqOK, Moves
<1>6. exempt \subseteq exempt' /\ (Adding(q.who) # {} => q.who \in exempt')
  BY DEF JobRuns
<1> HIDE DEF x
<1>7. x.ctx = "live" => Counted(x, Owned(q.who))
  <2>1. Owned(q.who) \in Nat
    BY Counting
  <2> QED
    BY <1>4, <2>1 DEF Counted
<1> QED
  BY <1>1, <1>3, <1>4, <1>5, <1>6, <1>7, Starts

\* Rows that stay are counted as before.
LEMMA NothingCounted ==
  /\ feed' = feed => \A u : Owned(u)' <= Owned(u)
  /\ hook' = hook => \A u \in Users : HookCount(u)' <= HookCount(u)
<1>1. ASSUME feed' = feed, NEW u PROVE Owned(u)' <= Owned(u)
  <2>1. Owned(u)' = Owned(u) /\ Owned(u) \in Nat
    BY <1>1, OwnedSame, Counting
  <2> QED
    BY <2>1
<1>2. ASSUME hook' = hook, NEW u \in Users PROVE HookCount(u)' <= HookCount(u)
  <2>1. HookCount(u)' = HookCount(u) /\ HookCount(u) \in Nat
    BY <1>2, HooksSame, Counting
  <2> QED
    BY <2>1
<1> QED
  BY <1>1, <1>2

\* A step of a request in flight that leaves the rows alone.
LEMMA Goes ==
  ASSUME CInv, NEW r \in Reqs, NEW x \in Requests, ReqOK(x), req' = [req EXCEPT ![r] = x],
         feed' = feed, hook' = hook, mix' = mix, exempt' = exempt, Tables', Rows',
         x.at \in Adds => /\ req[r].at \in Adds /\ x.who = req[r].who
                          /\ x.ctx = "live" => req[r].ctx = "live"
                          /\ MaxFeeds > 0 /\ x.who \notin Admins => \A n \in Nat : Counted(req[r], n) => Counted(x, n),
         x.at # "hook"
  PROVE  CInv'
<1>1. Quotas'
  BY QuotaKept, NothingCounted
<1> QED
  BY <1>1, ReqOnly

\* The same, with the end of a step.
LEMMA GoesThen ==
  ASSUME CInv, NEW r \in Reqs, Then(r), req[r].at \in Adds \cup {"bulk", "moving", "hook"},
         mix' = mix, exempt' = exempt, Tables', Rows',
         \A u : Owned(u)' <= Owned(u), \A u \in Users : HookCount(u)' <= HookCount(u)
  PROVE  CInv'
<1>1. req[r] \in Requests /\ ReqOK(req[r]) /\ req[r].at # "idle"
  BY Parts DEF Adds
<1>2. After(req[r]) \in Requests /\ ReqOK(After(req[r])) /\ req' = [req EXCEPT ![r] = After(req[r])]
  BY <1>1, AfterFits, ThenIs
<1>3. Quotas'
  BY ThenQuota
<1> QED
  BY <1>2, <1>3, ReqOnly

LEMMA RefusedInv == ASSUME CInv, NEW r \in Reqs, CreateFeedRefused(r) PROVE CInv'
<1> DEFINE q == req[r]
<1>1. q \in Requests /\ ReqOK(q) /\ q.at = "create" /\ q.at \in Adds
  BY Parts DEF CreateFeedRefused, Adds
<1>2. UNCHANGED rows /\ mix' = mix /\ exempt' = exempt /\ feed' = feed /\ hook' = hook
  BY DEF CreateFeedRefused, rows
<1>3. Tables' /\ Rows'
  BY <1>2, RowsRest
<1>4. CASE req' = [req EXCEPT ![r].at = "dup"]
  <2> DEFINE x == [q EXCEPT !.at = "dup"]
  <2>1. /\ x \in Requests /\ x.at = "dup" /\ x.who = q.who /\ x.ctx = q.ctx
        /\ x.kind = q.kind /\ x.seen = q.seen /\ x.cat = q.cat /\ x.to = q.to
    BY <1>1 DEF Requests
  <2>2. req' = [req EXCEPT ![r] = x]
    BY <1>4
  <2> HIDE DEF x
  <2>3. ReqOK(x)
    BY <1>1, <2>1 DEF ReqOK, Moves
  <2>4. x.at \in Adds /\ x.at # "hook" /\ \A n \in Nat : Counted(q, n) => Counted(x, n)
    BY <1>1, <2>1 DEF Counted, Adds
  <2> QED
    BY <1>1, <1>2, <1>3, <2>1, <2>2, <2>3, <2>4, Goes
<1>5. CASE Then(r)
  BY <1>1, <1>2, <1>3, <1>5, GoesThen, NothingCounted
<1> QED
  BY <1>4, <1>5 DEF CreateFeedRefused

LEMMA FailInv == ASSUME CInv, NEW r \in Reqs, Fail(r) PROVE CInv'
<1>1. Then(r) /\ req[r].at \in Adds \cup {"bulk", "moving", "hook"}
  BY DEF Fail, Adds
<1>2. UNCHANGED rows /\ mix' = mix /\ exempt' = exempt /\ feed' = feed /\ hook' = hook
  BY DEF Fail, rows
<1> QED
  BY <1>1, <1>2, RowsRest, GoesThen, NothingCounted

LEMMA BulkSelectInv == ASSUME CInv, NEW r \in Reqs, BulkSelect(r) PROVE CInv'
<1> DEFINE q == req[r]
           x == [q EXCEPT !.at = "moving", !.set = In(q.cat)]
<1>1. q \in Requests /\ ReqOK(q) /\ q.at = "bulk" /\ q.kind = "move"
  BY Parts DEF BulkSelect
<1>2. UNCHANGED rows /\ mix' = mix /\ exempt' = exempt /\ feed' = feed /\ hook' = hook
  BY DEF BulkSelect, rows
<1>3. In(q.cat) \subseteq Feeds
  BY DEF In, Live
<1>4. x \in Requests /\ x.at = "moving" /\ x.who = q.who /\ x.kind = "move" /\ x.cat = q.cat /\ x.to = q.to /\ x.ctx = q.ctx
  BY <1>1, <1>3 DEF Requests
<1>5. req' = [req EXCEPT ![r] = x]
  BY DEF BulkSelect
<1> HIDE DEF x
<1>6. ReqOK(x) /\ x.at \notin Adds /\ x.at # "hook"
  BY <1>1, <1>4 DEF ReqOK, Moves, Adds
<1> QED
  BY <1>2, <1>4, <1>5, <1>6, RowsRest, Goes

LEMMA HandlerReturnsInv == ASSUME CInv, NEW r \in Reqs, HandlerReturns(r) PROVE CInv'
<1> DEFINE q == req[r]
           x == [q EXCEPT !.ctx = "cancelled"]
<1>1. q \in Requests /\ ReqOK(q) /\ q.at # "idle" /\ q.kind = "import"
  BY Parts DEF HandlerReturns
<1>2. UNCHANGED rows /\ mix' = mix /\ exempt' = exempt /\ feed' = feed /\ hook' = hook
  BY DEF HandlerReturns, rows
<1>3. /\ x \in Requests /\ x.at = q.at /\ x.who = q.who /\ x.ctx = "cancelled"
      /\ x.kind = q.kind /\ x.seen = q.seen /\ x.cat = q.cat /\ x.to = q.to
  BY <1>1 DEF Requests
<1>4. req' = [req EXCEPT ![r] = x]
  BY DEF HandlerReturns
<1> HIDE DEF x
<1>5. ReqOK(x)
  BY <1>1, <1>3 DEF ReqOK, Moves
<1>6. \A n \in Nat : Counted(q, n) => Counted(x, n)
  BY <1>3 DEF Counted
<1>7. Tables' /\ Rows'
  BY <1>2, RowsRest
<1>8. Quotas'
  BY <1>2, <1>3, <1>4, <1>6, QuotaKept, NothingCounted
<1> QED
  BY <1>2, <1>3, <1>4, <1>5, <1>7, <1>8, ReqOnly

LEMMA CancelledInv == ASSUME CInv, NEW r \in Reqs, ImportCancelled(r) PROVE CInv'
<1> DEFINE q == req[r]
           x == [q EXCEPT !.at = "import"]
<1>1. q \in Requests /\ ReqOK(q) /\ q.at \in {"create", "dup"} /\ q.ctx = "cancelled"
  BY Parts DEF ImportCancelled
<1>2. UNCHANGED rows /\ mix' = mix /\ exempt' = exempt /\ feed' = feed /\ hook' = hook
  BY DEF ImportCancelled, rows
<1>3. /\ x \in Requests /\ x.at = "import" /\ x.who = q.who /\ x.ctx = "cancelled"
      /\ x.kind = q.kind /\ x.seen = q.seen /\ x.cat = q.cat /\ x.to = q.to
  BY <1>1 DEF Requests
<1>4. req' = [req EXCEPT ![r] = x]
  BY DEF ImportCancelled
<1> HIDE DEF x
<1>5. ReqOK(x) /\ x.at # "hook" /\ x.at \in Adds /\ q.at \in Adds
  BY <1>1, <1>3 DEF ReqOK, Moves, Adds
<1>6. \A n \in Nat : Counted(q, n) => Counted(x, n)
  BY <1>1, <1>3 DEF Counted
<1>7. Tables' /\ Rows'
  BY <1>2, RowsRest
<1> QED
  BY <1>2, <1>3, <1>4, <1>5, <1>6, <1>7, Goes

LEMMA ImportDoneInv == ASSUME CInv, NEW r \in Reqs, ImportDone(r) PROVE CInv'
<1> DEFINE q == req[r]
           x == IF On("async") THEN [q EXCEPT !.at = "done"] ELSE Idle
<1>1. q \in Requests /\ ReqOK(q) /\ q.at = "import"
  BY Parts DEF ImportDone
<1>2. UNCHANGED rows /\ mix' = mix /\ exempt' = exempt /\ feed' = feed /\ hook' = hook
  BY DEF ImportDone, rows
<1>3. x \in Requests /\ ReqOK(x) /\ x.at \in {"idle", "done"}
  <2>1. CASE On("async")
    BY <1>1, <2>1 DEF Requests, ReqOK, Moves
  <2>2. CASE ~On("async")
    BY <2>2, IdleFits
  <2> QED
    BY <2>1, <2>2
<1>4. req' = [req EXCEPT ![r] = x]
  BY DEF ImportDone
<1> HIDE DEF x
<1>5. x.at \notin Adds /\ x.at # "hook"
  BY <1>3 DEF Adds
<1> QED
  BY <1>2, <1>3, <1>4, <1>5, RowsRest, Goes

\* Another category harms nobody: no feed is in it and nobody follows it.
LEMMA CatsGrow ==
  ASSUME CInv, cats \subseteq cats', cats' \subseteq Cats, UNCHANGED <<feed, subs, follows, hook, chosen, stale>>
  PROVE  Tables' /\ Rows'
<1>1. Tables /\ Rows
  BY Parts
<1>2. Tables'
  BY <1>1 DEF Tables, Reads
<1>3. Rows'
  BY <1>1 DEF Rows, OwnWebhookOnly, CategoryExists, FollowersRead, OnlyWantedFeeds, Reads, Live, CatOK, Followers, At
<1> QED
  BY <1>2, <1>3

LEMMA ImportItemInv == ASSUME CInv, NEW r \in Reqs, NEW it \in mix.file, ImportItem(r, it) PROVE CInv'
<1> DEFINE q == req[r]
           rest == [q EXCEPT !.todo = q.todo \ {it}, !.n = q.n + 1, !.known = q.known \cup {it[1]}]
           newCat == it[2] # None /\ it[2] \notin q.catsSeen
           made == [rest EXCEPT !.at = "create", !.url = it[1], !.cat = it[2], !.hook = importFeedParams(q, it),
                                !.catsSeen = IF newCat THEN q.catsSeen \cup {it[2]} ELSE q.catsSeen]
           full == [rest EXCEPT !.todo = {}]
<1>1. q \in Requests /\ ReqOK(q) /\ q.at = "import" /\ q.at \in Adds /\ q.who \in Editors
  BY Parts DEF ImportItem, Adds, ReqOK
<1>2. it[1] \in Urls /\ it[2] \in Cats \cup {None} /\ it[3] \in Hooks \cup {None}
  BY Parts, MixesAssumption DEF Items
<1>3. UNCHANGED <<feed, subs, follows, hook, chosen, stale>> /\ exempt' = exempt /\ mix' = mix
  BY DEF ImportItem
<1>4. cats \subseteq cats' /\ cats' \subseteq Cats
  <2>1. cats \subseteq Cats
    BY Parts DEF Tables
  <2>2. cats' = cats \/ (newCat /\ cats' = cats \cup {it[2]})
    BY DEF ImportItem
  <2> QED
    BY <1>2, <2>1, <2>2
<1>5. Tables' /\ Rows'
  BY <1>3, <1>4, CatsGrow
<1>6. importFeedParams(q, it) \in Hooks \cup {None}
  BY <1>2 DEF importFeedParams
<1>7. /\ rest \in Requests /\ rest.at = "import" /\ rest.who = q.who /\ rest.kind = q.kind /\ rest.seen = q.seen
      /\ rest.ctx = q.ctx /\ rest.cat = q.cat /\ rest.to = q.to
  <2>1. /\ q.todo \ {it} \in SUBSET Items /\ q.n + 1 \in Nat
        /\ q.known \cup {it[1]} \in SUBSET (Urls \cup {None})
    BY <1>1, <1>2 DEF Requests
  <2> DEFINE t == q.todo \ {it}
             k == q.known \cup {it[1]}
             n == q.n + 1
  <2>2. t \in SUBSET Items /\ n \in Nat /\ k \in SUBSET (Urls \cup {None}) /\ rest = [q EXCEPT !.todo = t, !.n = n, !.known = k]
    BY <2>1
  <2> HIDE DEF t, k, n, rest
  <2> QED
    BY <1>1, <2>2 DEF Requests
<1>8. \/ req' = [req EXCEPT ![r] = rest]
      \/ req' = [req EXCEPT ![r] = full]
      \/ req' = [req EXCEPT ![r] = made] /\ MayAdd(q.who, q.seen)
  BY DEF ImportItem
<1> HIDE DEF rest
<1>9. /\ full \in Requests /\ full.at = "import" /\ full.who = q.who /\ full.kind = q.kind /\ full.seen = q.seen
      /\ full.ctx = q.ctx /\ full.cat = q.cat /\ full.to = q.to
  BY <1>7 DEF Requests
<1>10. (IF newCat THEN q.catsSeen \cup {it[2]} ELSE q.catsSeen) \in SUBSET Cats
  BY <1>1, <1>2 DEF Requests
<1>11. /\ made \in Requests /\ made.at = "create" /\ made.who = q.who /\ made.kind = q.kind /\ made.seen = q.seen
       /\ made.ctx = q.ctx
  <2> DEFINE cs == IF newCat THEN q.catsSeen \cup {it[2]} ELSE q.catsSeen
             url == it[1]
             cat == it[2]
             wh == importFeedParams(q, it)
  <2>1. /\ made = [rest EXCEPT !.at = "create", !.url = url, !.cat = cat, !.hook = wh, !.catsSeen = cs]
        /\ cs \in SUBSET Cats /\ url \in Urls /\ cat \in Cats \cup {None} /\ wh \in Hooks \cup {None}
    BY <1>2, <1>6, <1>10
  <2> HIDE DEF cs, url, cat, wh, made
  <2> QED
    BY <1>7, <2>1 DEF Requests
<1> HIDE DEF full, made
<1>12. CASE req' = [req EXCEPT ![r] = rest]
  <2>1. ReqOK(rest) /\ rest.at # "hook" /\ \A n \in Nat : Counted(q, n) => Counted(rest, n)
    BY <1>1, <1>7 DEF ReqOK, Moves, Counted
  <2> QED
    BY <1>1, <1>3, <1>5, <1>7, <1>12, <2>1, Goes
<1>13. CASE req' = [req EXCEPT ![r] = full]
  <2>1. ReqOK(full) /\ full.at # "hook" /\ \A n \in Nat : Counted(q, n) => Counted(full, n)
    BY <1>1, <1>9 DEF ReqOK, Moves, Counted
  <2> QED
    BY <1>1, <1>3, <1>5, <1>9, <1>13, <2>1, Goes
<1>14. CASE req' = [req EXCEPT ![r] = made] /\ MayAdd(q.who, q.seen)
  <2>1. ReqOK(made) /\ made.at # "hook"
    BY <1>1, <1>11 DEF ReqOK, Moves
  <2>2. q.kind = "import"
    BY <1>1 DEF ReqOK
  <2>3. MaxFeeds > 0 /\ q.who \notin Admins => q.seen < MaxFeeds
    BY <1>14, CatalogAssumption DEF MayAdd
  <2>4. MaxFeeds > 0 /\ q.who \notin Admins => \A n \in Nat : Counted(q, n) => Counted(made, n)
    BY <1>1, <1>11, <2>2, <2>3, CatalogAssumption DEF Counted, Requests
  <2> QED
    BY <1>1, <1>3, <1>5, <1>11, <1>14, <2>1, <2>4, Goes
<1> QED
  BY <1>8, <1>12, <1>13, <1>14

(* -------------------------- steps of the rows ---------------------------- *)

\* The rows, one reader and one feed at a time.
LEMMA RowsHave ==
  ASSUME CInv
  PROVE  /\ \A u \in Users, f \in Feeds :
              subs[u][f] # Off => /\ feed[f].st = "live" /\ (subs[u][f] # None => hook[subs[u][f]] = u)
                                  /\ <<u, f>> \in chosen \cup stale \/ <<u, feed[f].cat>> \in follows
         /\ \A f \in Feeds :
              feed[f].st = "live" => /\ feed[f].cat \in cats \cup {None}
                                     /\ \A u \in Users : <<u, feed[f].cat>> \in follows => subs[u][f] # Off
         /\ \A u, f : <<u, f>> \in chosen \cup stale => subs[u][f] # Off
         /\ \A u : <<u, None>> \notin follows
<1>1. Tables /\ Rows
  BY Parts
<1>2. \A u, f : <<u, f>> \in chosen \cup stale => subs[u][f] # Off
  BY <1>1 DEF Tables, Reads
<1>3. \A u : <<u, None>> \notin follows
  BY <1>1, CatalogAssumption DEF Tables
<1> QED
  BY <1>1, <1>2, <1>3
     DEF Rows, OwnWebhookOnly, CategoryExists, FollowersRead, OnlyWantedFeeds, Reads, Live, CatOK, Followers, At

LEMMA RowsMade ==
  ASSUME \A u \in Users, f \in Feeds :
           subs'[u][f] # Off => /\ feed'[f].st = "live" /\ (subs'[u][f] # None => hook'[subs'[u][f]] = u)
                                /\ <<u, f>> \in chosen' \cup stale' \/ <<u, feed'[f].cat>> \in follows',
         \A f \in Feeds :
           feed'[f].st = "live" => /\ feed'[f].cat \in cats' \cup {None}
                                   /\ \A u \in Users : <<u, feed'[f].cat>> \in follows' => subs'[u][f] # Off
  PROVE  Rows'
BY DEF Rows, OwnWebhookOnly, CategoryExists, FollowersRead, OnlyWantedFeeds, Reads, Live, CatOK, Followers, At

LEMMA Kept ==
  ASSUME NEW S \in SUBSET (Users \X Feeds), NEW n
  PROVE  /\ Keep(S, n) \subseteq Users \X Feeds
         /\ \A p \in Keep(S, n) : n[p[1]][p[2]] # Off
         /\ \A u, f : <<u, f>> \in Keep(S, n) <=> <<u, f>> \in S /\ n[u][f] # Off
BY DEF Keep

\* A step that changes rows and no request.
LEMMA RowStep ==
  ASSUME CInv, req' = req, exempt' = exempt, mix' = mix, Tables', Rows',
         \A f \in Feeds : feed'[f].st = "live" => feed[f].st = "live" /\ feed'[f].owner = feed[f].owner,
         \A h \in Hooks : \A u \in Users : hook'[h] = u => hook[h] = u
  PROVE  CInv'
<1>1. Quotas'
  BY QuotaRest, OwnedFalls, HooksFall
<1>2. req' \in [Reqs -> Requests] /\ \A r \in Reqs : ReqOK(req'[r])
  BY Parts
<1> QED
  BY <1>1, <1>2, Whole

\* The secret of an inbound feed is no business of its readers.
LEMMA SecretRows ==
  ASSUME CInv, feed' \in [Feeds -> FeedRows],
         \A f \in Feeds : feed'[f].st = feed[f].st /\ feed'[f].cat = feed[f].cat,
         UNCHANGED <<subs, cats, follows, hook, chosen, stale>>
  PROVE  Tables' /\ Rows'
<1>1. Tables
  BY Parts
<1>2. Tables'
  BY <1>1 DEF Tables, Reads
<1>3. Rows'
  BY RowsHave, RowsMade
<1> QED
  BY <1>2, <1>3

LEMMA RotateInv == ASSUME CInv, NEW f \in Feeds, handleInboundSecretRotate(f) PROVE CInv'
<1> DEFINE x == [feed[f] EXCEPT !.secret = "set"]
<1>1. feed \in [Feeds -> FeedRows]
  BY Parts DEF Tables
<1>2. x \in FeedRows /\ x.st = feed[f].st /\ x.cat = feed[f].cat /\ x.owner = feed[f].owner
  BY <1>1 DEF FeedRows
<1>3. feed' = [feed EXCEPT ![f] = x]
  BY DEF handleInboundSecretRotate
<1> HIDE DEF x
<1>4. feed' \in [Feeds -> FeedRows] /\ \A g \in Feeds : feed'[g].st = feed[g].st /\ feed'[g].cat = feed[g].cat /\ feed'[g].owner = feed[g].owner
  BY <1>1, <1>2, <1>3
<1> QED
  BY <1>4, SecretRows, RowStep DEF handleInboundSecretRotate

LEMMA SecretInv == ASSUME CInv, NEW r \in Reqs, SetInboundSecret(r) PROVE CInv'
<1> DEFINE S == req[r].set \cap Live
<1>1. feed \in [Feeds -> FeedRows]
  BY Parts DEF Tables
<1>2. ASSUME NEW f \in Feeds
      PROVE  LET x == [feed[f] EXCEPT !.secret = "set"]
             IN x \in FeedRows /\ x.st = feed[f].st /\ x.cat = feed[f].cat /\ x.owner = feed[f].owner
  BY <1>1 DEF FeedRows
<1>3. feed' = [f \in Feeds |-> IF f \in S THEN [feed[f] EXCEPT !.secret = "set"] ELSE feed[f]]
  BY DEF SetInboundSecret
<1> HIDE DEF S
<1>4. feed' \in [Feeds -> FeedRows] /\ \A g \in Feeds : feed'[g].st = feed[g].st /\ feed'[g].cat = feed[g].cat /\ feed'[g].owner = feed[g].owner
  BY <1>1, <1>2, <1>3
<1>5. UNCHANGED <<subs, cats, follows, hook, chosen, stale, exempt, mix>> /\ Then(r) /\ req[r].at \in Adds
  BY DEF SetInboundSecret, Adds
<1>6. Tables' /\ Rows'
  BY <1>4, <1>5, SecretRows
<1> QED
  BY <1>4, <1>5, <1>6, OwnedFalls, NothingCounted, GoesThen

\* Steps that change only who reads what through which webhook.
LEMMA ReadStep ==
  ASSUME CInv, subs' \in [Users -> [Feeds -> Hooks \cup {None, Off}]],
         UNCHANGED <<feed, cats, hook, stale>>, follows' \subseteq Users \X cats, chosen' \subseteq Users \X Feeds,
         \A u, f : <<u, f>> \in chosen' \cup stale => subs'[u][f] # Off,
         \A u \in Users, f \in Feeds :
           /\ subs'[u][f] # Off => /\ feed[f].st = "live" /\ (subs'[u][f] # None => hook[subs'[u][f]] = u)
                                   /\ <<u, f>> \in chosen' \cup stale \/ <<u, feed[f].cat>> \in follows'
           /\ feed[f].st = "live" /\ <<u, feed[f].cat>> \in follows' => subs'[u][f] # Off
  PROVE  Tables' /\ Rows'
<1>1. Tables
  BY Parts
<1>2. \A p \in chosen' \cup stale' : subs'[p[1]][p[2]] # Off
  BY <1>1 DEF Tables
<1>3. Tables'
  BY <1>1, <1>2 DEF Tables, Reads
<1>4. Rows'
  BY RowsHave, RowsMade
<1> QED
  BY <1>3, <1>4

LEMMA HookFits == ASSUME NEW u, NEW h, OwnHook(u, h) PROVE h \in Hooks \cup {None} /\ h # Off /\ (h # None => hook[h] = u)
BY CatalogAssumption DEF OwnHook

LEMMA SubscribeInv ==
  ASSUME CInv, NEW u \in Users, NEW f \in Feeds, NEW h, Subscribe(u, f, h) PROVE CInv'
<1>1. subs \in [Users -> [Feeds -> Hooks \cup {None, Off}]] /\ follows \subseteq Users \X cats /\ chosen \subseteq Users \X Feeds
  BY Parts DEF Tables
<1>2. h \in Hooks \cup {None} /\ h # Off /\ (h # None => hook[h] = u) /\ feed[f].st = "live"
  BY HookFits DEF Subscribe, Live
<1>3. UNCHANGED <<feed, cats, follows, hook, req, stale, exempt, mix>> /\ chosen' = chosen \cup {<<u, f>>}
  BY DEF Subscribe
<1>4. /\ subs' \in [Users -> [Feeds -> Hooks \cup {None, Off}]]
      /\ \A v \in Users, g \in Feeds : subs'[v][g] = IF v = u /\ g = f THEN h ELSE subs[v][g]
  BY <1>1, <1>2 DEF Subscribe
<1>5. \A v, g : <<v, g>> \in chosen' \cup stale => subs'[v][g] # Off
  <2> SUFFICES ASSUME NEW v, NEW g, <<v, g>> \in chosen' \cup stale PROVE subs'[v][g] # Off
    OBVIOUS
  <2>1. v \in Users /\ g \in Feeds
    BY <1>1, <1>3, Parts DEF Tables
  <2> QED
    BY <1>2, <1>3, <1>4, <2>1, RowsHave
<1>6. Tables' /\ Rows'
  BY <1>1, <1>2, <1>3, <1>4, <1>5, RowsHave, ReadStep
<1> QED
  BY <1>3, <1>6, RowStep

LEMMA UnsubscribeInv ==
  ASSUME CInv, NEW u \in Users, NEW f \in Feeds, Unsubscribe(u, f) PROVE CInv'
<1>1. /\ subs \in [Users -> [Feeds -> Hooks \cup {None, Off}]] /\ follows \subseteq Users \X cats
      /\ chosen \subseteq Users \X Feeds /\ stale \subseteq Users \X Feeds
  BY Parts DEF Tables
<1>2. /\ UNCHANGED <<feed, cats, follows, hook, req, exempt, mix>> /\ <<u, feed[f].cat>> \notin follows
      /\ chosen' = Keep(chosen, subs') /\ stale' = Keep(stale, subs')
  BY DEF Unsubscribe
<1>3. /\ subs' \in [Users -> [Feeds -> Hooks \cup {None, Off}]]
      /\ \A v \in Users, g \in Feeds : subs'[v][g] = IF v = u /\ g = f THEN Off ELSE subs[v][g]
  BY <1>1 DEF Unsubscribe
<1>4. /\ chosen' \cup stale' \subseteq Users \X Feeds /\ \A p \in chosen' \cup stale' : subs'[p[1]][p[2]] # Off
      /\ \A v, g : <<v, g>> \in chosen' \cup stale' <=> <<v, g>> \in chosen \cup stale /\ subs'[v][g] # Off
  BY <1>1, <1>2, Kept
<1>5. Tables'
  BY <1>2, <1>3, <1>4, Parts DEF Tables, Reads
<1>6. Rows'
  BY <1>2, <1>3, <1>4, RowsHave, RowsMade, SMTT(40)
<1> QED
  BY <1>2, <1>5, <1>6, RowStep

\* Rebinding changes the webhook of what is read, never whether it is read.
LEMMA ReboundRows ==
  ASSUME CInv, NEW u \in Users, NEW F, NEW h, OwnHook(u, h), subs' = Rebound(u, F, h),
         UNCHANGED <<feed, cats, follows, hook, chosen, stale>>
  PROVE  Tables' /\ Rows'
<1>1. /\ subs \in [Users -> [Feeds -> Hooks \cup {None, Off}]] /\ follows \subseteq Users \X cats
      /\ chosen \subseteq Users \X Feeds /\ stale \subseteq Users \X Feeds
  BY Parts DEF Tables
<1>2. h \in Hooks \cup {None} /\ h # Off /\ (h # None => hook[h] = u)
  BY HookFits
<1>3. /\ subs' \in [Users -> [Feeds -> Hooks \cup {None, Off}]]
      /\ \A v \in Users, g \in Feeds : subs'[v][g] = IF v = u /\ g \in F /\ subs[v][g] # Off THEN h ELSE subs[v][g]
  BY <1>1, <1>2 DEF Rebound
<1>4. \A v, g : <<v, g>> \in chosen' \cup stale => subs'[v][g] # Off
  <2> SUFFICES ASSUME NEW v, NEW g, <<v, g>> \in chosen \cup stale PROVE subs'[v][g] # Off
    OBVIOUS
  <2>1. v \in Users /\ g \in Feeds
    BY <1>1
  <2> QED
    BY <1>2, <1>3, <2>1, RowsHave
<1> QED
  BY <1>1, <1>2, <1>3, <1>4, RowsHave, ReadStep

LEMMA RebindInv ==
  ASSUME CInv, NEW u \in Users, NEW f \in Feeds, NEW h, handleUpdateSubscription(u, f, h) PROVE CInv'
BY ReboundRows, RowStep DEF handleUpdateSubscription

LEMMA BulkWebhookInv == ASSUME CInv, NEW r \in Reqs, BulkWebhook(r) PROVE CInv'
<1> DEFINE q == req[r]
<1>1. q \in Requests /\ q.who \in Users /\ q.at = "bulk"
  BY Parts, CatalogAssumption DEF BulkWebhook, ReqOK
<1>2. UNCHANGED <<feed, cats, follows, hook, chosen, stale, exempt, mix>> /\ Then(r)
  BY DEF BulkWebhook
<1>3. Tables' /\ Rows'
  <2>1. CASE OwnHook(q.who, q.hook)
    <3>1. subs' = Rebound(q.who, In(q.cat), q.hook)
      BY <2>1 DEF BulkWebhook
    <3> QED
      BY <1>1, <1>2, <2>1, <3>1, ReboundRows
  <2>2. CASE ~OwnHook(q.who, q.hook)
    <3>1. UNCHANGED rows
      BY <1>2, <2>2 DEF BulkWebhook, rows
    <3> QED
      BY <3>1, RowsRest
  <2> QED
    BY <2>1, <2>2
<1> QED
  BY <1>1, <1>2, <1>3, NothingCounted, GoesThen

LEMMA SubscribeByURLInv == ASSUME CInv, NEW r \in Reqs, SubscribeByURL(r) PROVE CInv'
<1> DEFINE q == req[r]
           F == {f \in Live : feed[f].url = q.url /\ ~Reads(q.who, f)}
<1>1. q \in Requests /\ q.who \in Users /\ q.at = "dup" /\ q.at \in Adds
  BY Parts, CatalogAssumption DEF SubscribeByURL, ReqOK, Adds
<1>2. UNCHANGED <<feed, cats, follows, hook, stale, exempt, mix>> /\ Then(r)
  BY DEF SubscribeByURL
<1>3. Tables' /\ Rows'
  <2>1. CASE F # {} /\ OwnHook(q.who, q.hook) /\ q.ctx = "live"
    <3> DEFINE u == q.who
               h == q.hook
    <3>1. subs' = [subs EXCEPT ![u] = [f \in Feeds |-> IF f \in F THEN h ELSE @[f]]] /\ chosen' = chosen \cup ({u} \X F)
      BY <2>1 DEF SubscribeByURL
    <3>2. u \in Users /\ h \in Hooks \cup {None} /\ h # Off /\ (h # None => hook[h] = u)
      BY <1>1, <2>1, HookFits
    <3>3. F \subseteq Feeds /\ \A f \in F : feed[f].st = "live"
      BY DEF Live
    <3> HIDE DEF u, h, F
    <3>4. /\ subs \in [Users -> [Feeds -> Hooks \cup {None, Off}]] /\ follows \subseteq Users \X cats
          /\ chosen \subseteq Users \X Feeds /\ stale \subseteq Users \X Feeds
      BY Parts DEF Tables
    <3>5. /\ subs' \in [Users -> [Feeds -> Hooks \cup {None, Off}]]
          /\ \A v \in Users, g \in Feeds : subs'[v][g] = IF v = u /\ g \in F THEN h ELSE subs[v][g]
      BY <3>1, <3>2, <3>4
    <3>6. chosen' \subseteq Users \X Feeds /\ \A v, g : <<v, g>> \in chosen' <=> <<v, g>> \in chosen \/ (v = u /\ g \in F)
      BY <3>1, <3>2, <3>3, <3>4
    <3>7. \A v, g : <<v, g>> \in chosen' \cup stale => subs'[v][g] # Off
      <4> SUFFICES ASSUME NEW v, NEW g, <<v, g>> \in chosen' \cup stale PROVE subs'[v][g] # Off
        OBVIOUS
      <4>1. v \in Users /\ g \in Feeds
        BY <3>4, <3>6
      <4> QED
        BY <3>2, <3>5, <3>6, <4>1, RowsHave
    <3> QED
      BY <1>2, <3>2, <3>3, <3>4, <3>5, <3>6, <3>7, RowsHave, ReadStep
  <2>2. CASE ~(F # {} /\ OwnHook(q.who, q.hook) /\ q.ctx = "live")
    <3>1. UNCHANGED rows
      BY <1>2, <2>2 DEF SubscribeByURL, rows
    <3> QED
      BY <3>1, RowsRest
  <2> QED
    BY <2>1, <2>2
<1> QED
  BY <1>1, <1>2, <1>3, NothingCounted, GoesThen

LEMMA FollowInv ==
  ASSUME CInv, NEW u \in Users, NEW c \in Cats, FollowCategory(u, c) PROVE CInv'
<1>1. /\ subs \in [Users -> [Feeds -> Hooks \cup {None, Off}]] /\ follows \subseteq Users \X cats
      /\ chosen \subseteq Users \X Feeds /\ stale \subseteq Users \X Feeds
  BY Parts DEF Tables
<1>2. UNCHANGED <<feed, cats, hook, req, chosen, stale, exempt, mix>> /\ follows' = follows \cup {<<u, c>>} /\ c \in cats
  BY DEF FollowCategory
<1>3. /\ subs' \in [Users -> [Feeds -> Hooks \cup {None, Off}]]
      /\ \A v \in Users, g \in Feeds : subs'[v][g] = IF v = u /\ g \in Missing(u, c) THEN None ELSE subs[v][g]
  BY <1>1 DEF FollowCategory
<1>4. \A g \in Feeds : g \in Missing(u, c) <=> feed[g].st = "live" /\ feed[g].cat = c /\ subs[u][g] = Off
  BY DEF Missing, In, Live, Reads
<1>5. \A v, g : <<v, g>> \in chosen' \cup stale => subs'[v][g] # Off
  <2> SUFFICES ASSUME NEW v, NEW g, <<v, g>> \in chosen \cup stale PROVE subs'[v][g] # Off
    BY <1>2
  <2>1. v \in Users /\ g \in Feeds
    BY <1>1
  <2> QED
    BY <1>3, <2>1, RowsHave, CatalogAssumption
<1>6. follows' \subseteq Users \X cats /\ None # Off
  BY <1>1, <1>2, CatalogAssumption
<1>7. Tables' /\ Rows'
  BY <1>1, <1>2, <1>3, <1>4, <1>5, <1>6, RowsHave, ReadStep
<1> QED
  BY <1>2, <1>7, RowStep

LEMMA UnfollowInv ==
  ASSUME CInv, NEW u \in Users, NEW c \in Cats, UnfollowCategory(u, c) PROVE CInv'
<1>1. /\ subs \in [Users -> [Feeds -> Hooks \cup {None, Off}]] /\ follows \subseteq Users \X cats
      /\ chosen \subseteq Users \X Feeds /\ stale \subseteq Users \X Feeds
  BY Parts DEF Tables
<1>2. /\ UNCHANGED <<feed, cats, hook, req, exempt, mix>> /\ follows' = follows \ {<<u, c>>}
      /\ chosen' = Keep(chosen, subs') /\ stale' = Keep(stale, subs')
  BY DEF UnfollowCategory
<1>3. /\ subs' \in [Users -> [Feeds -> Hooks \cup {None, Off}]]
      /\ \A v \in Users, g \in Feeds : subs'[v][g] = IF v = u /\ g \in In(c) THEN Off ELSE subs[v][g]
  BY <1>1 DEF UnfollowCategory
<1>4. \A g \in Feeds : g \in In(c) <=> feed[g].st = "live" /\ feed[g].cat = c
  BY DEF In, Live
<1>5. /\ chosen' \cup stale' \subseteq Users \X Feeds /\ \A p \in chosen' \cup stale' : subs'[p[1]][p[2]] # Off
      /\ \A v, g : <<v, g>> \in chosen' \cup stale' <=> <<v, g>> \in chosen \cup stale /\ subs'[v][g] # Off
  BY <1>1, <1>2, Kept
<1>6. Tables'
  BY <1>1, <1>2, <1>3, <1>5, Parts DEF Tables, Reads
<1>7. Rows'
  BY <1>2, <1>3, <1>4, <1>5, RowsHave, RowsMade
<1> QED
  BY <1>2, <1>6, <1>7, RowStep

LEMMA CategoryInv ==
  ASSUME CInv, NEW c \in Cats PROVE (CreateCategory(c) => CInv') /\ (DeleteCategory(c) => CInv')
<1>1. ASSUME CreateCategory(c) PROVE CInv'
  <2>1. cats \subseteq Cats
    BY Parts DEF Tables
  <2> QED
    BY <1>1, <2>1, CatsGrow, RowStep DEF CreateCategory
<1>2. ASSUME DeleteCategory(c) PROVE CInv'
  <2>1. UNCHANGED <<feed, subs, hook, req, chosen, stale, exempt, mix>> /\ cats' = cats \ {c}
    BY <1>2 DEF DeleteCategory
  <2>2. \A f \in Feeds : feed[f].st = "live" => feed[f].cat # c
    BY <1>2 DEF DeleteCategory, In, Live
  <2>3. follows' \subseteq Users \X cats' /\ \A u, d : <<u, d>> \in follows' <=> <<u, d>> \in follows /\ d # c
    BY <1>2, Parts DEF DeleteCategory, Tables
  <2>4. Tables'
    BY <2>1, <2>3, Parts DEF Tables, Reads
  <2>5. Rows'
    BY <2>1, <2>2, <2>3, RowsHave, RowsMade
  <2> QED
    BY <2>1, <2>4, <2>5, RowStep
<1> QED
  BY <1>1, <1>2

LEMMA DeleteWebhookInv ==
  ASSUME CInv, NEW u \in Users, NEW h \in Hooks, DeleteWebhook(u, h) PROVE CInv'
<1>1. /\ subs \in [Users -> [Feeds -> Hooks \cup {None, Off}]] /\ hook \in [Hooks -> Users \cup {None, Off}]
      /\ chosen \subseteq Users \X Feeds /\ stale \subseteq Users \X Feeds /\ h # Off /\ h # None /\ None # Off
      /\ Off \notin Users
  BY Parts, CatalogAssumption DEF Tables
<1>2. UNCHANGED <<feed, cats, follows, req, chosen, stale, exempt, mix>> /\ hook' = [hook EXCEPT ![h] = Off]
  BY DEF DeleteWebhook
<1>3. /\ subs' \in [Users -> [Feeds -> Hooks \cup {None, Off}]]
      /\ \A v \in Users, g \in Feeds : subs'[v][g] = IF subs[v][g] = h THEN None ELSE subs[v][g]
  BY <1>1 DEF DeleteWebhook
<1>4. hook' \in [Hooks -> Users \cup {None, Off}] /\ \A i \in Hooks : hook'[i] = IF i = h THEN Off ELSE hook[i]
  BY <1>1, <1>2
<1>5. \A p \in chosen' \cup stale' : subs'[p[1]][p[2]] # Off
  BY <1>1, <1>2, <1>3, Parts DEF Tables, Reads
<1>6. Tables'
  BY <1>2, <1>3, <1>4, <1>5, Parts DEF Tables, Reads
<1>7. Rows'
  <2>1. \A v \in Users, g \in Feeds : subs'[v][g] # Off /\ subs'[v][g] # None => hook'[subs'[v][g]] = v
    <3> SUFFICES ASSUME NEW v \in Users, NEW g \in Feeds, subs'[v][g] # Off, subs'[v][g] # None
                 PROVE  hook'[subs'[v][g]] = v
      OBVIOUS
    <3>1. subs'[v][g] = subs[v][g] /\ subs[v][g] \in Hooks /\ subs[v][g] # h
      BY <1>1, <1>3
    <3> QED
      BY <1>4, <3>1, RowsHave
  <2> QED
    BY <1>1, <1>2, <1>3, <2>1, RowsHave, RowsMade
<1> QED
  BY <1>1, <1>2, <1>4, <1>6, <1>7, RowStep

LEMMA DeleteFeedInv == ASSUME CInv, NEW f \in Feeds, DeleteFeed(f) PROVE CInv'
<1> DEFINE x == [NoFeed EXCEPT !.st = "gone"]
<1>1. /\ subs \in [Users -> [Feeds -> Hooks \cup {None, Off}]] /\ feed \in [Feeds -> FeedRows]
      /\ chosen \subseteq Users \X Feeds /\ stale \subseteq Users \X Feeds
  BY Parts DEF Tables
<1>2. x \in FeedRows /\ x.st = "gone"
  BY DEF NoFeed, FeedRows
<1>3. /\ UNCHANGED <<cats, follows, hook, req, exempt, mix>> /\ feed' = [feed EXCEPT ![f] = x]
      /\ chosen' = Keep(chosen, subs') /\ stale' = Keep(stale, subs')
  BY DEF DeleteFeed
<1> HIDE DEF x
<1>4. feed' \in [Feeds -> FeedRows] /\ \A g \in Feeds : feed'[g] = IF g = f THEN x ELSE feed[g]
  BY <1>1, <1>2, <1>3
<1>5. /\ subs' \in [Users -> [Feeds -> Hooks \cup {None, Off}]]
      /\ \A v \in Users, g \in Feeds : subs'[v][g] = IF g = f THEN Off ELSE subs[v][g]
  BY <1>1 DEF DeleteFeed
<1>6. /\ chosen' \cup stale' \subseteq Users \X Feeds /\ \A p \in chosen' \cup stale' : subs'[p[1]][p[2]] # Off
      /\ \A v, g : <<v, g>> \in chosen' \cup stale' <=> <<v, g>> \in chosen \cup stale /\ subs'[v][g] # Off
  BY <1>1, <1>3, Kept
<1>7. Tables'
  BY <1>3, <1>4, <1>5, <1>6, Parts DEF Tables, Reads
<1>8. Rows'
  BY <1>2, <1>3, <1>4, <1>5, <1>6, RowsHave, RowsMade
<1>9. \A g \in Feeds : feed'[g].st = "live" => feed[g].st = "live" /\ feed'[g].owner = feed[g].owner
  BY <1>2, <1>4
<1> QED
  BY <1>3, <1>7, <1>8, <1>9, RowStep

\* syncCategoryFollowersTx, one reader and one feed at a time.
Lost(u, f, old, new) == old \notin {None, new} /\ <<u, old>> \in follows /\ <<u, new>> \notin follows /\ subs[u][f] # Off
Given(u, f, old, new) == new \notin {None, old} /\ <<u, new>> \in follows /\ subs[u][f] = Off

LEMMA SyncedIs ==
  ASSUME CInv, NEW F, NEW old, NEW new
  PROVE  /\ Synced(F, old, new) \in [Users -> [Feeds -> Hooks \cup {None, Off}]]
         /\ \A u \in Users, f \in Feeds :
              Synced(F, old, new)[u][f] = IF f \notin F THEN subs[u][f]
                                          ELSE IF Lost(u, f, old, new) THEN Off
                                          ELSE IF Given(u, f, old, new) THEN None
                                          ELSE subs[u][f]
<1>1. subs \in [Users -> [Feeds -> Hooks \cup {None, Off}]]
  BY Parts DEF Tables
<1>2. \A u \in Users, f \in Feeds : /\ u \in Losing(f, old, new) <=> Lost(u, f, old, new)
                                    /\ u \in Gaining(f, old, new) <=> Given(u, f, old, new)
  BY DEF Losing, Gaining, Lost, Given, Followers, Reads
<1> QED
  BY <1>1, <1>2 DEF Synced

\* A feed that goes from one category to another, and its readers with it.
LEMMA UpdateFeedInv ==
  ASSUME CInv, NEW u \in Users, NEW f \in Feeds, NEW url \in Urls \cup {None}, NEW c \in Cats \cup {None}, NEW h,
         UpdateFeed(u, f, url, c, h)
  PROVE  CInv'
<1> DEFINE old == feed[f].cat
           x == [feed[f] EXCEPT !.url = url, !.cat = c]
           S == Synced({f}, old, c)
<1>1. /\ subs \in [Users -> [Feeds -> Hooks \cup {None, Off}]] /\ feed \in [Feeds -> FeedRows]
      /\ chosen \subseteq Users \X Feeds /\ stale \subseteq Users \X Feeds
  BY Parts DEF Tables
<1>2. feed[f].st = "live" /\ c \in cats \cup {None} /\ h \in Hooks \cup {None} /\ h # Off /\ (h # None => hook[h] = u)
  BY HookFits DEF UpdateFeed, Live, CatOK
<1>3. x \in FeedRows /\ x.st = "live" /\ x.cat = c /\ x.owner = feed[f].owner
  BY <1>1, <1>2 DEF FeedRows
<1>4. /\ UNCHANGED <<cats, follows, hook, req, exempt, mix>> /\ feed' = [feed EXCEPT ![f] = x]
      /\ chosen' = Keep(chosen, subs') /\ stale' = Keep(stale, subs')
  BY DEF UpdateFeed
<1>4a. subs' = [v \in Users |-> [S[v] EXCEPT ![f] = IF v = u /\ @ # Off /\ subs[u][f] # Off THEN h ELSE @]]
  BY DEF UpdateFeed
<1> HIDE DEF x
<1>5. feed' \in [Feeds -> FeedRows] /\ \A g \in Feeds : feed'[g] = IF g = f THEN x ELSE feed[g]
  BY <1>1, <1>3, <1>4
<1>6. /\ S \in [Users -> [Feeds -> Hooks \cup {None, Off}]]
      /\ \A v \in Users, g \in Feeds :
           S[v][g] = IF g # f THEN subs[v][g] ELSE IF Lost(v, f, old, c) THEN Off
                     ELSE IF Given(v, f, old, c) THEN None ELSE subs[v][f]
  BY SyncedIs
<1> HIDE DEF S, old
<1>7. /\ subs' \in [Users -> [Feeds -> Hooks \cup {None, Off}]]
      /\ \A v \in Users, g \in Feeds : subs'[v][g] = IF g = f /\ v = u /\ S[v][f] # Off /\ subs[u][f] # Off THEN h ELSE S[v][g]
  BY <1>2, <1>4a, <1>6
<1>8. \A v \in Users, g \in Feeds : g # f => subs'[v][g] = subs[v][g]
  BY <1>6, <1>7
<1>9. \A v \in Users : /\ subs'[v][f] # Off <=> (subs[v][f] # Off /\ ~Lost(v, f, old, c)) \/ Given(v, f, old, c)
                       /\ subs'[v][f] \in {Off, None, subs[v][f]} \/ (v = u /\ subs'[v][f] = h)
  BY <1>2, <1>6, <1>7, CatalogAssumption DEF Lost, Given
<1>10. /\ chosen' \cup stale' \subseteq Users \X Feeds /\ \A p \in chosen' \cup stale' : subs'[p[1]][p[2]] # Off
       /\ \A v, g : <<v, g>> \in chosen' \cup stale' <=> <<v, g>> \in chosen \cup stale /\ subs'[v][g] # Off
  BY <1>1, <1>4, Kept
<1>11. Tables'
  BY <1>4, <1>5, <1>7, <1>10, Parts DEF Tables, Reads
<1>12. \A v \in Users : subs'[v][f] # Off =>
         /\ subs'[v][f] # None => hook'[subs'[v][f]] = v
         /\ <<v, f>> \in chosen' \cup stale' \/ <<v, c>> \in follows'
  <2> SUFFICES ASSUME NEW v \in Users, subs'[v][f] # Off
               PROVE  /\ subs'[v][f] # None => hook'[subs'[v][f]] = v
                      /\ <<v, f>> \in chosen' \cup stale' \/ <<v, c>> \in follows'
    OBVIOUS
  <2>1. subs'[v][f] # None => hook'[subs'[v][f]] = v
    BY <1>2, <1>4, <1>9, RowsHave
  <2>2. <<v, f>> \in chosen' \cup stale' \/ <<v, c>> \in follows'
    BY <1>4, <1>9, <1>10, RowsHave DEF Lost, Given, old
  <2> QED
    BY <2>1, <2>2
<1>13. \A v \in Users : <<v, c>> \in follows' => subs'[v][f] # Off
  BY <1>2, <1>4, <1>9, RowsHave DEF Lost, Given, old
<1>14. Rows'
  <2>1. ASSUME NEW v \in Users, NEW g \in Feeds, subs'[v][g] # Off
        PROVE  /\ feed'[g].st = "live" /\ (subs'[v][g] # None => hook'[subs'[v][g]] = v)
               /\ <<v, g>> \in chosen' \cup stale' \/ <<v, feed'[g].cat>> \in follows'
    <3>1. CASE g = f
      BY <1>3, <1>5, <1>12, <2>1, <3>1
    <3>2. CASE g # f
      BY <1>4, <1>5, <1>8, <1>10, <2>1, <3>2, RowsHave
    <3> QED
      BY <3>1, <3>2
  <2>2. ASSUME NEW g \in Feeds, feed'[g].st = "live"
        PROVE  /\ feed'[g].cat \in cats' \cup {None}
               /\ \A v \in Users : <<v, feed'[g].cat>> \in follows' => subs'[v][g] # Off
    <3>1. CASE g = f
      BY <1>2, <1>3, <1>4, <1>5, <1>13, <3>1
    <3>2. CASE g # f
      BY <1>4, <1>5, <1>8, <2>2, <3>2, RowsHave
    <3> QED
      BY <3>1, <3>2
  <2> QED
    BY <2>1, <2>2, RowsMade
<1>15. \A g \in Feeds : feed'[g].st = "live" => feed[g].st = "live" /\ feed'[g].owner = feed[g].owner
  BY <1>2, <1>3, <1>5
<1> QED
  BY <1>4, <1>11, <1>14, <1>15, RowStep

LEMMA BulkMoveInv == ASSUME CInv, NEW r \in Reqs, BulkMove(r) PROVE CInv'
<1> DEFINE q == req[r]
           F == q.set \cap Live
           bad == \/ F # {} /\ ~CatOK(q.to)
                  \/ q.set \ F # {} /\ q.to # None /\ Followers(q.to) # {}
           moved == {f \in F : feed[f].cat # q.cat}
           old == q.cat
           new == q.to
<1>1. q \in Requests /\ q.at = "moving" /\ old # new
  BY Parts DEF BulkMove, ReqOK, Moves
<1>2. UNCHANGED <<cats, follows, hook, exempt, mix>> /\ Then(r)
  BY DEF BulkMove
<1>3. CASE bad
  <2>1. UNCHANGED rows
    BY <1>2, <1>3 DEF BulkMove, rows
  <2> QED
    BY <1>1, <1>2, <2>1, RowsRest, NothingCounted, GoesThen DEF rows
<1>4. CASE ~bad
  <2> DEFINE G == stale \cup {p \in Users \X moved : Reads(p[1], p[2])}
  <2>1. /\ feed' = [f \in Feeds |-> IF f \in F THEN [feed[f] EXCEPT !.cat = new] ELSE feed[f]]
        /\ subs' = Synced(F, old, new) /\ chosen' = Keep(chosen, subs') /\ stale' = Keep(G, subs')
    BY <1>4 DEF BulkMove
  <2>2. /\ subs \in [Users -> [Feeds -> Hooks \cup {None, Off}]] /\ feed \in [Feeds -> FeedRows]
        /\ chosen \subseteq Users \X Feeds /\ stale \subseteq Users \X Feeds
    BY Parts DEF Tables
  <2>3. F \subseteq Feeds /\ (\A f \in F : feed[f].st = "live") /\ (F # {} => new \in cats \cup {None}) /\ new \in Cats \cup {None}
    BY <1>1, <1>4 DEF Live, CatOK, Requests
  <2>4. G \subseteq Users \X Feeds /\ \A v \in Users, f \in F : feed[f].cat # old /\ subs[v][f] # Off => <<v, f>> \in G
    BY <2>2, <2>3 DEF Reads
  <2>4a. stale \subseteq G
    OBVIOUS
  <2> HIDE DEF F, bad, moved, G, old, new
  <2>5. \A f \in Feeds : LET x == [feed[f] EXCEPT !.cat = new]
                         IN x \in FeedRows /\ x.st = feed[f].st /\ x.cat = new /\ x.owner = feed[f].owner
    BY <2>2, <2>3 DEF FeedRows
  <2>6. /\ feed' \in [Feeds -> FeedRows]
        /\ \A f \in Feeds : /\ feed'[f].st = feed[f].st /\ feed'[f].owner = feed[f].owner
                            /\ feed'[f].cat = IF f \in F THEN new ELSE feed[f].cat
    BY <2>1, <2>2, <2>5
  <2>7. /\ subs' \in [Users -> [Feeds -> Hooks \cup {None, Off}]]
        /\ \A v \in Users, f \in Feeds :
             subs'[v][f] = IF f \notin F THEN subs[v][f] ELSE IF Lost(v, f, old, new) THEN Off
                           ELSE IF Given(v, f, old, new) THEN None ELSE subs[v][f]
    BY <2>1, SyncedIs
  <2>8. /\ chosen' \cup stale' \subseteq Users \X Feeds /\ \A p \in chosen' \cup stale' : subs'[p[1]][p[2]] # Off
        /\ \A v, f : <<v, f>> \in chosen' \cup stale' <=> <<v, f>> \in chosen \cup G /\ subs'[v][f] # Off
    BY <2>1, <2>2, <2>4, Kept
  <2>9. Tables'
    BY <1>2, <2>6, <2>7, <2>8, Parts DEF Tables, Reads
  <2>10. ASSUME NEW v \in Users, NEW f \in Feeds, subs'[v][f] # Off
         PROVE  /\ feed'[f].st = "live" /\ (subs'[v][f] # None => hook'[subs'[v][f]] = v)
                /\ <<v, f>> \in chosen' \cup stale' \/ <<v, feed'[f].cat>> \in follows'
    <3>1. CASE f \notin F
      BY <1>2, <2>4a, <2>6, <2>7, <2>8, <2>10, <3>1, RowsHave
    <3>2. CASE f \in F /\ Given(v, f, old, new)
      BY <1>2, <2>3, <2>6, <2>7, <2>10, <3>2 DEF Given, Lost
    <3>3. CASE f \in F /\ ~Given(v, f, old, new)
      <4>1. subs'[v][f] = subs[v][f] /\ ~Lost(v, f, old, new)
        BY <2>7, <2>10, <3>3
      <4>2. feed[f].st = "live" /\ (subs[v][f] # None => hook[subs[v][f]] = v)
        BY <2>10, <4>1, RowsHave
      <4>3. <<v, f>> \in chosen \cup G \/ (<<v, old>> \in follows /\ feed[f].cat = old)
        BY <2>4, <2>4a, <2>10, <3>3, <4>1, RowsHave
      <4>4. <<v, old>> \in follows => <<v, new>> \in follows
        BY <1>1, <2>10, <4>1, RowsHave DEF Lost, old, new
      <4> QED
        BY <1>2, <2>6, <2>8, <2>10, <3>3, <4>1, <4>2, <4>3, <4>4
    <3> QED
      BY <3>1, <3>2, <3>3
  <2>11. ASSUME NEW f \in Feeds, feed'[f].st = "live"
         PROVE  /\ feed'[f].cat \in cats' \cup {None}
                /\ \A v \in Users : <<v, feed'[f].cat>> \in follows' => subs'[v][f] # Off
    <3>1. CASE f \notin F
      BY <1>2, <2>6, <2>7, <2>11, <3>1, RowsHave
    <3>2. CASE f \in F
      <4>1. feed'[f].cat = new /\ new \in cats \cup {None}
        BY <2>3, <2>6, <3>2
      <4>2. ASSUME NEW v \in Users, <<v, new>> \in follows PROVE subs'[v][f] # Off
        <5>1. new \notin {None, old}
          BY <1>1, <4>2, RowsHave DEF old, new
        <5>2. ~Lost(v, f, old, new)
          BY <4>2 DEF Lost
        <5> QED
          BY <2>7, <3>2, <4>2, <5>1, <5>2, CatalogAssumption DEF Given
      <4> QED
        BY <1>2, <4>1, <4>2
    <3> QED
      BY <3>1, <3>2
  <2>12. Rows'
    BY <2>10, <2>11, RowsMade
  <2> QED
    BY <1>1, <1>2, <2>6, <2>9, <2>12, OwnedFalls, NothingCounted, GoesThen
<1> QED
  BY <1>3, <1>4

(* --------------------------- adding a row -------------------------------- *)

\* One more feed of its owner, and no other's.
LEMMA OwnedGrows ==
  ASSUME CInv, NEW f \in Feeds, NEW x \in FeedRows, feed[f].st # "live", feed' = [feed EXCEPT ![f] = x]
  PROVE  /\ Owned(x.owner)' <= Owned(x.owner) + 1
         /\ \A u : u # x.owner => Owned(u)' <= Owned(u)
<1>1. \A g \in Feeds : feed'[g] = IF g = f THEN x ELSE feed[g]
  BY Parts DEF Tables
<1>2. \A u : u # x.owner => Owned(u)' <= Owned(u)
  <2> SUFFICES ASSUME NEW u, u # x.owner PROVE Owned(u)' <= Owned(u)
    OBVIOUS
  <2>1. {g \in Live' : feed'[g].owner = u} \subseteq {g \in Live : feed[g].owner = u}
    BY <1>1 DEF Live
  <2> QED
    BY <2>1, Counting, FS_Subset DEF Owned
<1>3. Owned(x.owner)' <= Owned(x.owner) + 1
  <2> DEFINE u == x.owner
             A == {g \in Live : feed[g].owner = u}
             B == {g \in Live' : feed'[g].owner = u}
  <2>1. B \subseteq A \cup {f} /\ f \notin A
    BY <1>1 DEF Live
  <2>2. IsFiniteSet(A) /\ Cardinality(A) \in Nat
    BY Counting DEF Owned
  <2>3. Owned(u) = Cardinality(A) /\ Owned(u)' = Cardinality(B)
    BY DEF Owned
  <2> HIDE DEF A, B
  <2>4. IsFiniteSet(A \cup {f}) /\ Cardinality(A \cup {f}) = Cardinality(A) + 1
    BY <2>1, <2>2, FS_AddElement
  <2>5. Cardinality(B) <= Cardinality(A \cup {f})
    BY <2>1, <2>4, FS_Subset
  <2> QED
    BY <2>2, <2>3, <2>4, <2>5
<1> QED
  BY <1>2, <1>3

LEMMA HooksGrow ==
  ASSUME CInv, NEW h \in Hooks, NEW u \in Users, hook' = [hook EXCEPT ![h] = u], hook[h] = None
  PROVE  /\ HookCount(u)' <= HookCount(u) + 1
         /\ \A v : v # u => HookCount(v)' <= HookCount(v)
<1>1. \A i \in Hooks : hook'[i] = IF i = h THEN u ELSE hook[i]
  BY Parts DEF Tables
<1>2. \A v : v # u => HookCount(v)' <= HookCount(v)
  <2> SUFFICES ASSUME NEW v, v # u PROVE HookCount(v)' <= HookCount(v)
    OBVIOUS
  <2>1. {i \in Hooks : hook'[i] = v} \subseteq {i \in Hooks : hook[i] = v}
    BY <1>1
  <2> QED
    BY <2>1, Counting, FS_Subset DEF HookCount
<1>3. HookCount(u)' <= HookCount(u) + 1
  <2> DEFINE A == {i \in Hooks : hook[i] = u}
             B == {i \in Hooks : hook'[i] = u}
  <2>1. B \subseteq A \cup {h} /\ h \notin A
    BY <1>1, CatalogAssumption
  <2>2. IsFiniteSet(A) /\ Cardinality(A) \in Nat
    BY Counting DEF HookCount
  <2>3. HookCount(u) = Cardinality(A) /\ HookCount(u)' = Cardinality(B)
    BY DEF HookCount
  <2> HIDE DEF A, B
  <2>4. IsFiniteSet(A \cup {h}) /\ Cardinality(A \cup {h}) = Cardinality(A) + 1
    BY <2>1, <2>2, FS_AddElement
  <2>5. Cardinality(B) <= Cardinality(A \cup {h})
    BY <2>1, <2>4, FS_Subset
  <2> QED
    BY <2>2, <2>3, <2>4, <2>5
<1> QED
  BY <1>2, <1>3

LEMMA CreateFeedInv == ASSUME CInv, NEW r \in Reqs, NEW f \in Feeds, CreateFeed(r, f) PROVE CInv'
<1> DEFINE q == req[r]
           new == [u \in Users |-> IF u = q.who /\ q.own THEN q.hook
                                   ELSE IF q.cat # None /\ u \in Followers(q.cat) THEN None ELSE Off]
           x == [st |-> "live", url |-> q.url, cat |-> q.cat, owner |-> q.who, secret |-> "none"]
           y == CASE q.kind = "inbound" -> [q EXCEPT !.at = "secret", !.set = {f}]
                  [] q.kind = "import" -> [q EXCEPT !.at = "import", !.seen = q.seen + 1]
                  [] OTHER -> Idle
<1>1. /\ q \in Requests /\ ReqOK(q) /\ q.at = "create" /\ q.ctx = "live" /\ q.who \in Editors /\ q.who \in Users
      /\ feed[f].st = "none" /\ q.cat \in cats \cup {None} /\ (q.own => OwnHook(q.who, q.hook))
  BY Parts, CatalogAssumption DEF CreateFeed, ReqOK, CatOK
<1>2. /\ UNCHANGED <<cats, follows, hook, stale, exempt, mix>> /\ feed' = [feed EXCEPT ![f] = x]
      /\ chosen' = IF q.own THEN chosen \cup {<<q.who, f>>} ELSE chosen
      /\ req' = [req EXCEPT ![r] = y]
  BY DEF CreateFeed
<1>3. subs' = [u \in Users |-> [subs[u] EXCEPT ![f] = new[u]]]
  BY DEF CreateFeed
<1>4. /\ subs \in [Users -> [Feeds -> Hooks \cup {None, Off}]] /\ feed \in [Feeds -> FeedRows]
      /\ chosen \subseteq Users \X Feeds /\ stale \subseteq Users \X Feeds /\ None # Off
      /\ q.hook \in Hooks \cup {None} /\ q.own \in BOOLEAN
  BY <1>1, Parts, CatalogAssumption DEF Tables, Requests
<1>5. x \in FeedRows /\ x.st = "live" /\ x.cat = q.cat /\ x.owner = q.who
  BY <1>1 DEF FeedRows, Requests
<1>6. \A u \in Users : /\ new[u] \in Hooks \cup {None, Off}
                       /\ new[u] # Off <=> (u = q.who /\ q.own) \/ <<u, q.cat>> \in follows
                       /\ new[u] \notin {None, Off} => hook[new[u]] = u
  <2> SUFFICES ASSUME NEW u \in Users
               PROVE  /\ new[u] \in Hooks \cup {None, Off}
                      /\ new[u] # Off <=> (u = q.who /\ q.own) \/ <<u, q.cat>> \in follows
                      /\ new[u] \notin {None, Off} => hook[new[u]] = u
    OBVIOUS
  <2>1. CASE u = q.who /\ q.own
    <3>1. new[u] = q.hook /\ q.hook # Off /\ (q.hook # None => hook[q.hook] = u)
      BY <1>1, <2>1, HookFits
    <3> QED
      BY <1>4, <2>1, <3>1
  <2>2. CASE ~(u = q.who /\ q.own)
    <3>1. new[u] = IF <<u, q.cat>> \in follows THEN None ELSE Off
      BY <2>2, RowsHave DEF Followers
    <3> QED
      BY <1>4, <2>2, <3>1
  <2> QED
    BY <2>1, <2>2
<1>7. y \in Requests /\ ReqOK(y) /\ y.at \in {"idle", "secret", "import"}
      /\ (y.at # "idle" => y.who = q.who /\ y.ctx = q.ctx)
      /\ (y.at = "secret" => y.kind = "inbound")
      /\ (y.at = "import" => q.kind = "import" /\ y.seen = q.seen + 1)
  <2>1. CASE q.kind = "inbound"
    <3>1. y = [q EXCEPT !.at = "secret", !.set = {f}]
      BY <2>1
    <3> HIDE DEF y
    <3> QED
      BY <1>1, <2>1, <3>1 DEF Requests, ReqOK, Moves
  <2>2. CASE q.kind = "import"
    <3> DEFINE n == q.seen + 1
    <3>1. y = [q EXCEPT !.at = "import", !.seen = n]
      BY <2>2
    <3>2. n \in Nat
      BY <1>1 DEF Requests
    <3> HIDE DEF y, n
    <3>3. /\ y \in Requests /\ y.at = "import" /\ y.kind = "import" /\ y.who = q.who /\ y.ctx = q.ctx
          /\ y.seen = n
      BY <1>1, <2>2, <3>1, <3>2 DEF Requests
    <3>4. ReqOK(y)
      BY <1>1, <3>3 DEF ReqOK, Moves
    <3> QED
      BY <2>2, <3>3, <3>4 DEF n
  <2>3. CASE q.kind \notin {"inbound", "import"}
    <3>1. y = Idle
      BY <2>3
    <3> HIDE DEF y
    <3> QED
      BY <3>1, IdleFits
  <2> QED
    BY <2>1, <2>2, <2>3
<1> HIDE DEF x, y, new
<1>8. feed' \in [Feeds -> FeedRows] /\ \A g \in Feeds : feed'[g] = IF g = f THEN x ELSE feed[g]
  BY <1>2, <1>4, <1>5
<1>9. /\ subs' \in [Users -> [Feeds -> Hooks \cup {None, Off}]]
      /\ \A v \in Users, g \in Feeds : subs'[v][g] = IF g = f THEN new[v] ELSE subs[v][g]
  BY <1>3, <1>4, <1>6
<1>10. /\ chosen' \subseteq Users \X Feeds
       /\ \A v, g : <<v, g>> \in chosen' <=> <<v, g>> \in chosen \/ (q.own /\ v = q.who /\ g = f)
  BY <1>1, <1>2, <1>4
<1>11. \A u \in Users : subs[u][f] = Off /\ <<u, f>> \notin chosen \cup stale
  <2>1. \A u \in Users : subs[u][f] # Off => feed[f].st = "live"
    BY RowsHave
  <2>2. feed[f].st # "live"
    BY <1>1
  <2>3. \A u \in Users : subs[u][f] = Off
    BY <2>1, <2>2
  <2> QED
    BY <2>3, RowsHave
<1>12. \A p \in chosen' \cup stale' : subs'[p[1]][p[2]] # Off
  <2> SUFFICES ASSUME NEW v \in Users, NEW g \in Feeds, <<v, g>> \in chosen' \cup stale' PROVE subs'[v][g] # Off
    BY <1>2, <1>4, <1>10
  <2>1. CASE g = f
    BY <1>2, <1>6, <1>9, <1>10, <1>11, <2>1
  <2>2. CASE g # f
    BY <1>2, <1>9, <1>10, <2>2, RowsHave
  <2> QED
    BY <2>1, <2>2
<1>13. Tables'
  BY <1>2, <1>4, <1>8, <1>9, <1>10, <1>12, Parts DEF Tables, Reads
<1>14. Rows'
  <2>1. ASSUME NEW v \in Users, NEW g \in Feeds, subs'[v][g] # Off
        PROVE  /\ feed'[g].st = "live" /\ (subs'[v][g] # None => hook'[subs'[v][g]] = v)
               /\ <<v, g>> \in chosen' \cup stale' \/ <<v, feed'[g].cat>> \in follows'
    <3>1. CASE g = f
      BY <1>2, <1>5, <1>6, <1>8, <1>9, <1>10, <2>1, <3>1
    <3>2. CASE g # f
      BY <1>2, <1>8, <1>9, <1>10, <2>1, <3>2, RowsHave
    <3> QED
      BY <3>1, <3>2
  <2>2. ASSUME NEW g \in Feeds, feed'[g].st = "live"
        PROVE  /\ feed'[g].cat \in cats' \cup {None}
               /\ \A v \in Users : <<v, feed'[g].cat>> \in follows' => subs'[v][g] # Off
    <3>1. CASE g = f
      BY <1>1, <1>2, <1>5, <1>6, <1>8, <1>9, <3>1
    <3>2. CASE g # f
      BY <1>2, <1>8, <1>9, <2>2, <3>2, RowsHave
    <3> QED
      BY <3>1, <3>2
  <2> QED
    BY <2>1, <2>2, RowsMade
<1>15. Quotas'
  <2> SUFFICES ASSUME NEW u \in Free PROVE FeedQuota(u)' /\ HookQuota(u)'
    BY <1>2 DEF Quotas, Free
  <2>1. FeedQuota(u) /\ HookQuota(u) /\ u \in Users /\ u # None
    BY CatalogAssumption DEF CInv, Free
  <2>2. \A s \in Reqs : req'[s] = IF s = r THEN y ELSE req[s]
    BY <1>2, Parts
  <2>3. Adding(u)' \subseteq Adding(u) /\ Hooking(u)' \subseteq Hooking(u)
    BY <1>1, <1>7, <2>2 DEF Adding, Hooking
  <2>4. Alone(Adding(u)') /\ Alone(Hooking(u)')
    BY <2>1, <2>3 DEF FeedQuota, HookQuota, Alone
  <2>5. HookQuota(u)'
    BY <1>2, <2>1, <2>3, <2>4, HooksSame DEF HookQuota
  <2>6. Owned(u) \in Nat /\ Owned(u)' \in Nat
    BY Counting, CountingNext
  <2>7. CASE u = q.who
    <3>1. r \in Adding(u) /\ \A s \in Adding(u)' : s = r
      BY <1>1, <2>1, <2>3, <2>7 DEF Adding, FeedQuota, Alone
    <3>2. MaxFeeds > 0 => Counted(q, Owned(u))
      BY <1>1, <2>1, <3>1 DEF FeedQuota
    <3>3. Owned(u)' <= Owned(u) + 1
      BY <1>1, <1>2, <1>5, <2>7, OwnedGrows
    <3>4. MaxFeeds > 0 => Owned(u)' <= MaxFeeds
      BY <1>1, <2>6, <3>2, <3>3, CatalogAssumption DEF Counted
    <3>5. MaxFeeds > 0 /\ y.at \in Adds => Counted(y, Owned(u)')
      <4>1. q.seen \in Nat
        BY <1>1 DEF Requests
      <4>2. q.kind = "import" /\ MaxFeeds > 0 => Owned(u) <= q.seen
        BY <1>1, <3>2 DEF Counted
      <4> QED
        BY <1>1, <1>7, <2>6, <3>3, <4>1, <4>2 DEF Counted, Adds
    <3>6. \A s \in Adding(u)' : req'[s] = y /\ y.at \in Adds
      BY <2>2, <3>1 DEF Adding, Adds
    <3> QED
      BY <2>4, <2>5, <3>4, <3>5, <3>6 DEF FeedQuota
  <2>8. CASE u # q.who
    <3>1. Owned(u)' <= Owned(u)
      BY <1>1, <1>2, <1>5, <2>8, OwnedGrows
    <3>2. ASSUME MaxFeeds > 0, NEW s \in Adding(u)', req'[s].ctx = "live" PROVE Counted(req'[s], Owned(u)')
      <4>1. s \in Reqs /\ s # r /\ s \in Adding(u) /\ req'[s] = req[s] /\ req[s] \in Requests
        BY <1>1, <2>2, <2>3, <2>8, <3>2, Parts DEF Adding
      <4>2. Counted(req[s], Owned(u))
        BY <2>1, <3>2, <4>1 DEF FeedQuota
      <4> QED
        BY <2>6, <3>1, <4>1, <4>2, CountedFalls
    <3>3. MaxFeeds > 0 => Owned(u)' <= MaxFeeds
      BY <2>1, <2>6, <3>1, CatalogAssumption DEF FeedQuota
    <3> QED
      BY <2>4, <2>5, <3>2, <3>3 DEF FeedQuota
  <2> QED
    BY <2>7, <2>8
<1> QED
  BY <1>2, <1>7, <1>13, <1>14, <1>15, ReqOnly

LEMMA CreateWebhookInv == ASSUME CInv, NEW r \in Reqs, NEW h \in Hooks, CreateWebhook(r, h) PROVE CInv'
<1> DEFINE q == req[r]
<1>1. q \in Requests /\ ReqOK(q) /\ q.at = "hook" /\ q.who \in Users /\ hook[h] = None /\ q.kind # "import"
  BY Parts, CatalogAssumption DEF CreateWebhook, ReqOK
<1>2. UNCHANGED <<feed, subs, cats, follows, chosen, stale, exempt, mix>> /\ hook' = [hook EXCEPT ![h] = q.who]
  BY DEF CreateWebhook
<1>3. req' = [req EXCEPT ![r] = Idle]
  BY <1>1 DEF CreateWebhook, Then
<1>4. hook \in [Hooks -> Users \cup {None, Off}]
  BY Parts DEF Tables
<1>5. hook' \in [Hooks -> Users \cup {None, Off}] /\ \A i \in Hooks : hook'[i] = IF i = h THEN q.who ELSE hook[i]
  BY <1>1, <1>2, <1>4
<1>6. Tables'
  BY <1>2, <1>5, Parts DEF Tables, Reads
<1>7. \A u \in Users, f \in Feeds : subs[u][f] \notin {None, Off} => subs[u][f] \in Hooks /\ subs[u][f] # h
  <2> SUFFICES ASSUME NEW u \in Users, NEW f \in Feeds, subs[u][f] \notin {None, Off}
               PROVE  subs[u][f] \in Hooks /\ subs[u][f] # h
    OBVIOUS
  <2>1. subs[u][f] \in Hooks
    BY Parts DEF Tables
  <2>2. hook[subs[u][f]] = u /\ u # None
    BY RowsHave, CatalogAssumption
  <2> QED
    BY <1>1, <2>1, <2>2
<1>8. Rows'
  BY <1>2, <1>5, <1>7, RowsHave, RowsMade
<1>9. Quotas'
  <2> SUFFICES ASSUME NEW u \in Free PROVE FeedQuota(u)' /\ HookQuota(u)'
    BY <1>2 DEF Quotas, Free
  <2>1. FeedQuota(u) /\ HookQuota(u) /\ u \in Users
    BY CatalogAssumption DEF CInv, Free
  <2>2. \A s \in Reqs : req'[s] = IF s = r THEN Idle ELSE req[s]
    BY <1>3, Parts
  <2>3. /\ \A s \in Adding(u)' : s \in Adding(u) /\ req'[s] = req[s]
        /\ Hooking(u)' \subseteq Hooking(u) \ {r}
    BY <2>2, IdleFits DEF Adding, Hooking
  <2>4. FeedQuota(u)'
    BY <1>2, <2>1, <2>3, OwnedSame DEF FeedQuota, Alone
  <2>5. HookCount(u) \in Nat /\ HookCount(u)' \in Nat
    BY Counting, CountingNext
  <2>6. HookQuota(u)'
    <3>1. CASE u = q.who
      <4>1. r \in Hooking(u)
        BY <1>1, <3>1 DEF Hooking
      <4>2. Hooking(u)' = {}
        BY <2>1, <2>3, <4>1 DEF HookQuota, Alone
      <4>3. HookCount(u)' <= HookCount(u) + 1
        BY <1>1, <1>2, <3>1, HooksGrow
      <4> QED
        BY <2>1, <2>5, <4>1, <4>2, <4>3, CatalogAssumption DEF HookQuota, Alone
    <3>2. CASE u # q.who
      <4>1. HookCount(u)' <= HookCount(u)
        BY <1>1, <1>2, <3>2, HooksGrow
      <4> QED
        BY <2>1, <2>3, <2>5, <4>1, CatalogAssumption DEF HookQuota, Alone
    <3> QED
      BY <3>1, <3>2
  <2> QED
    BY <2>4, <2>6
<1> QED
  BY <1>2, <1>3, <1>6, <1>8, <1>9, IdleFits, ReqOnly

(* ------------------------------ theorems --------------------------------- *)

LEMMA CNextInv == CInv /\ [Next]_vars => CInv'
<1> SUFFICES ASSUME CInv, [Next]_vars PROVE CInv'
  OBVIOUS
<1>1. CASE UNCHANGED vars
  <2>1. UNCHANGED rows /\ mix' = mix /\ req' = req /\ exempt' = exempt /\ feed' = feed /\ hook' = hook
    BY <1>1 DEF vars, rows
  <2>2. Tables' /\ Rows'
    BY <2>1, RowsRest
  <2> QED
    BY <2>1, <2>2, RowStep
<1>2. mix.urls \subseteq Urls /\ mix.readers \subseteq Users /\ Editors \subseteq Users
  BY Parts, MixesAssumption, CatalogAssumption
<1>3. ASSUME NEW r \in Reqs, NEW u \in Editors,
             \/ \E url \in mix.urls, c \in Cats \cup {None}, own \in BOOLEAN : handleCreateFeed(r, u, url, c, own)
             \/ \E url \in mix.urls, c \in Cats \cup {None}, h \in Hooks \cup {None} : handleFeedCreate(r, u, url, c, h)
             \/ \E c \in Cats \cup {None}, own \in BOOLEAN : handleInboundFeedCreate(r, u, c, own)
      PROVE  CInv'
  BY <1>2, <1>3, CreatesStart
<1>4. ASSUME NEW r \in Reqs, NEW u \in Editors,
             \/ \E c \in Cats \cup {None}, h \in Hooks \cup {None} : handleCategoryBulkWebhook(r, u, c, h)
             \/ \E c, to \in Cats \cup {None} : handleCategoryBulkMove(r, u, c, to)
             \/ handleCreateWebhook(r, u) \/ handleWebhookCreate(r, u)
      PROVE  CInv'
  BY <1>4, BulksStart, HookStart DEF handleCreateWebhook, handleWebhookCreate
<1>5. ASSUME NEW r \in Reqs, NEW u \in Editors,
             \/ \E ok \in BOOLEAN : handleImportFeeds(r, u, ok) \/ handleFeedsImport(r, u, ok)
             \/ startAsyncOPMLImport(r, u)
      PROVE  CInv'
  BY <1>5, ImportsStart DEF handleImportFeeds, handleFeedsImport
<1>6. ASSUME NEW r \in Reqs,
             \/ \E f \in Feeds : CreateFeed(r, f)
             \/ \E h \in Hooks : CreateWebhook(r, h)
             \/ CreateFeedRefused(r) \/ SubscribeByURL(r) \/ SetInboundSecret(r) \/ Fail(r)
             \/ BulkWebhook(r) \/ BulkSelect(r) \/ BulkMove(r)
             \/ HandlerReturns(r) \/ JobRuns(r) \/ ImportCancelled(r) \/ ImportDone(r)
             \/ \E it \in mix.file : ImportItem(r, it)
      PROVE  CInv'
  BY <1>6, CreateFeedInv, CreateWebhookInv, RefusedInv, SubscribeByURLInv, SecretInv, FailInv, BulkWebhookInv,
     BulkSelectInv, BulkMoveInv, HandlerReturnsInv, JobRunsInv, CancelledInv, ImportDoneInv, ImportItemInv
<1>7. ASSUME NEW u \in Users, NEW f \in Feeds,
             \/ handleDeleteSubscription(u, f) \/ handleUnsubscribe(u, f) \/ handleSubscribe(u, f)
             \/ \E h \in Hooks \cup {None} : handleCreateSubscription(u, f, h) \/ handleUpdateSubscription(u, f, h)
      PROVE  CInv'
  BY <1>7, UnsubscribeInv, SubscribeInv, RebindInv
     DEF handleDeleteSubscription, handleUnsubscribe, handleSubscribe, handleCreateSubscription
<1>8. ASSUME NEW u \in Users, NEW f \in Feeds, NEW url \in mix.urls \cup {feed[f].url}, NEW c \in Cats \cup {None},
             \/ handleUpdateFeed(u, f, url, c)
             \/ \E h \in Hooks \cup {None} : handleFeedUpdate(u, f, url, c, h)
      PROVE  CInv'
  <2>1. url \in Urls \cup {None}
    BY <1>2, Parts DEF Tables, FeedRows
  <2> QED
    BY <1>8, <2>1, UpdateFeedInv DEF handleUpdateFeed, handleFeedUpdate
<1>9. ASSUME NEW f \in Feeds, handleDeleteFeed(f) \/ handleFeedDelete(f) \/ handleInboundSecretRotate(f) PROVE CInv'
  BY <1>9, DeleteFeedInv, RotateInv DEF handleDeleteFeed, handleFeedDelete
<1>10. ASSUME NEW c \in Cats,
              handleCreateCategory(c) \/ handleCategoryCreate(c) \/ handleDeleteCategory(c) \/ handleCategoryDelete(c)
       PROVE  CInv'
  BY <1>10, CategoryInv DEF handleCreateCategory, handleCategoryCreate, handleDeleteCategory, handleCategoryDelete
<1>11. ASSUME NEW u \in mix.readers, NEW c \in Cats,
              \/ handleFollowCategory(u, c) \/ handleCategoryFollow(u, c)
              \/ handleUnfollowCategory(u, c) \/ handleCategoryUnfollow(u, c)
       PROVE  CInv'
  <2>1. u \in Users
    BY <1>2
  <2> QED
    BY <1>11, <2>1, FollowInv, UnfollowInv
       DEF handleFollowCategory, handleCategoryFollow, handleUnfollowCategory, handleCategoryUnfollow
<1>12. ASSUME NEW u \in Users, NEW h \in Hooks, handleDeleteWebhook(u, h) \/ handleWebhookDelete(u, h) PROVE CInv'
  BY <1>12, DeleteWebhookInv DEF handleDeleteWebhook, handleWebhookDelete
<1> QED
  BY <1>1, <1>3, <1>4, <1>5, <1>6, <1>7, <1>8, <1>9, <1>10, <1>11, <1>12 DEF Next

LEMMA CInvHolds == Spec => []CInv
<1>1. Init => CInv
  BY CInitInv
<1>2. CInv /\ [Next]_vars => CInv'
  BY CNextInv
<1> QED
  BY <1>1, <1>2, PTL DEF Spec

\* What feeds and subscriptions name exists and belongs to who named it, for
\* any interleaving of requests, deletions, bulk moves and imports
\* (checkSubscriptionRefs, the foreign keys, syncCategoryFollowersTx).
THEOREM RefsIntactHolds == Spec => []RefsIntact
<1>1. CInv => RefsIntact
  BY CInvSafe
<1> QED
  BY <1>1, CInvHolds, PTL

\* Everybody reads the feeds they chose and those of the categories they
\* follow, and no other but through a bulk move that missed an earlier move.
THEOREM ReadersAsWantedHolds == Spec => []ReadersAsWanted
<1>1. CInv => ReadersAsWanted
  BY CInvSafe
<1> QED
  BY <1>1, CInvHolds, PTL

\* The quotas of feeds and webhooks hold for an editor whose requests did not
\* overlap and whose counts did not fail (feedQuotaOK, importOPML).
THEOREM QuotaHolds == Spec => []QuotaUnlessOverlap
<1>1. CInv => QuotaUnlessOverlap
  BY CInvSafe
<1> QED
  BY <1>1, CInvHolds, PTL

=============================================================================
