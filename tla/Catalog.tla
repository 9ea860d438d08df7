------------------------------ MODULE Catalog -------------------------------
(***************************************************************************)
(* The shared catalogue: feeds, categories, who reads what and through     *)
(* which webhook, the editor quotas, the bulk operations of a category and *)
(* the OPML import with its background jobs.                               *)
(*                                                                         *)
(* A handler that needs several statements outside one transaction is a    *)
(* request that takes one step per statement; a transaction whose          *)
(* statements all see what it saw first is one step.  What two membership  *)
(* transactions do to each other between their statements is the subject   *)
(* of ReaderStore; here they are atomic, except the bulk move, which keeps *)
(* a list of feeds from one statement to the next.                         *)
(***************************************************************************)
EXTENDS Naturals, FiniteSets

CONSTANTS Users, Editors, Admins, \* who may write, and whom no quota binds
          Feeds, Hooks,           \* row ids, each given out once
          Urls, Cats,             \* feed addresses; categories, by title
          Reqs,                   \* requests and import jobs in flight
          None, Off,
          MaxFeeds, MaxHooks,     \* MAX_FEEDS_PER_EDITOR, MAX_WEBHOOKS_PER_EDITOR; 0 = unlimited
          MaxImport,              \* MAX_IMPORT_FEEDS
          Mixes                   \* which handlers a behaviour exercises, on which addresses, and the file it imports

ASSUME CatalogAssumption ==
  /\ Admins \subseteq Editors /\ Editors \subseteq Users
  /\ MaxFeeds \in Nat /\ MaxHooks \in Nat /\ MaxImport \in Nat
  /\ IsFiniteSet(Feeds) /\ IsFiniteSet(Hooks)
  /\ None \notin Users \cup Feeds \cup Hooks \cup Urls \cup Cats \cup {Off} /\ Off \notin Hooks \cup Users

VARIABLES feed,      \* feed[f]: the row of feeds
          subs,      \* subs[u][f]: the webhook of the subscription, None without one, Off when not subscribed
          cats, follows,
          hook,      \* hook[h]: its owner, None before the row exists and Off after
          req,
          chosen,    \* ghost: <<u, f>> subscribed to on purpose
          stale,     \* ghost: <<u, f>> given by a move that a bulk move did not know of
          exempt,    \* ghost: editors whose quota check did not see the others
          mix

vars == <<feed, subs, cats, follows, hook, req, chosen, stale, exempt, mix>>
rows == <<feed, subs, cats, follows, hook, chosen, stale>>

NoFeed == [st |-> "none", url |-> None, cat |-> None, owner |-> None, secret |-> "none"]
Idle == [at |-> "idle", who |-> None, kind |-> "none", url |-> None, cat |-> None, to |-> None, hook |-> None,
         own |-> TRUE, seen |-> 0, known |-> {}, catsSeen |-> {}, hooksSeen |-> {}, todo |-> {}, n |-> 0, set |-> {}, ctx |-> "live"]

FeedRows == [st : {"none", "live", "gone"}, url : Urls \cup {None}, cat : Cats \cup {None},
             owner : Users \cup {None}, secret : {"none", "set"}]
Items == Urls \X (Cats \cup {None}) \X (Hooks \cup {None})
Requests == [at : {"idle", "create", "dup", "secret", "bulk", "moving", "hook", "queued", "import", "done"},
             who : Users \cup {None}, kind : {"none", "rss", "inbound", "hook", "move", "import"},
             url : Urls \cup {None}, cat : Cats \cup {None}, to : Cats \cup {None}, hook : Hooks \cup {None},
             own : BOOLEAN, seen : Nat, known : SUBSET (Urls \cup {None}), catsSeen : SUBSET Cats,
             hooksSeen : SUBSET Hooks, todo : SUBSET Items, n : Nat, set : SUBSET Feeds, ctx : {"live", "cancelled"}]

\* A catalogue to begin with: its feeds are in its categories, and its editors
\* are within their quotas.
ASSUME MixesAssumption ==
  \A m \in Mixes :
    /\ m.urls \subseteq Urls /\ m.file \subseteq Items /\ m.cats \subseteq Cats /\ m.readers \subseteq Users
    /\ \A f \in Feeds \cap DOMAIN m.feeds : m.feeds[f] \in FeedRows /\ m.feeds[f].cat \in m.cats \cup {None}
    /\ \A h \in Hooks \cap DOMAIN m.hooks : m.hooks[h] \in Users
    /\ \A u \in Editors \ Admins :
         /\ MaxFeeds > 0 => Cardinality({f \in Feeds \cap DOMAIN m.feeds : m.feeds[f].owner = u}) <= MaxFeeds
         /\ MaxHooks > 0 => Cardinality({h \in Hooks \cap DOMAIN m.hooks : m.hooks[h] = u}) <= MaxHooks

Live == {f \in Feeds : feed[f].st = "live"}
In(c) == {f \in Live : feed[f].cat = c}
Owned(u) == Cardinality({f \in Live : feed[f].owner = u})
Reads(u, f) == subs[u][f] # Off
Followers(c) == {u \in Users : <<u, c>> \in follows}
At(u) == {f \in Live : Reads(u, f)}
CatOK(c) == c \in cats \cup {None}
On(op) == op \in mix.ops
HookCount(u) == Cardinality({h \in Hooks : hook[h] = u})

\* checkSubscriptionRefs: a webhook of another user is refused.
MutOwnHook(u, h) == h \in {None} \cup {g \in Hooks : hook[g] \in Users}
OwnHook(u, h) == h \in {None} \cup {g \in Hooks : hook[g] = u}

\* Limits.Feeds and Limits.Webhooks
MutMayAdd(u, n) == MaxFeeds = 0 \/ u \in Admins \/ n <= MaxFeeds
MayAdd(u, n) == MaxFeeds = 0 \/ u \in Admins \/ n < MaxFeeds
MayAddHook(u, n) == MaxHooks = 0 \/ u \in Admins \/ n < MaxHooks

\* A catalogue nobody reads yet.
Init ==
  /\ mix \in Mixes
  /\ feed = [f \in Feeds |-> IF f \in DOMAIN mix.feeds THEN mix.feeds[f] ELSE NoFeed]
  /\ subs = [u \in Users |-> [f \in Feeds |-> Off]]
  /\ cats = mix.cats /\ follows = {}
  /\ hook = [h \in Hooks |-> IF h \in DOMAIN mix.hooks THEN mix.hooks[h] ELSE None]
  /\ req = [r \in Reqs |-> Idle]
  /\ chosen = {} /\ stale = {} /\ exempt = {}

\* Another request of u may add feeds on a count that this one does not see.
Adding(u) == {r \in Reqs : req[r].who = u /\ req[r].at \in {"create", "dup", "secret", "import"}}
Overlap(u) == exempt' = IF Adding(u) # {} THEN exempt \cup {u} ELSE exempt

Start(r, q) == req[r].at = "idle" /\ req' = [req EXCEPT ![r] = q]
\* The end of a request's step: an import goes on with its next item.
Then(r) == req' = [req EXCEPT ![r] = IF req[r].kind = "import" THEN [req[r] EXCEPT !.at = "import"] ELSE Idle]

-----------------------------------------------------------------------------
(* Transactions of storage: what they leave in subs.                       *)

\* syncCategoryFollowersTx: followers of the old category who do not follow
\* the new one lose the feed, followers of the new one get it.
Losing(f, old, new) == IF old \in {None, new} THEN {} ELSE {u \in Followers(old) \ Followers(new) : Reads(u, f)}
MutGaining(f, old, new) == {}
Gaining(f, old, new) == IF new \in {None, old} THEN {} ELSE {u \in Followers(new) : ~Reads(u, f)}

Synced(F, old, new) ==
  [u \in Users |-> [f \in Feeds |->
     IF f \notin F THEN subs[u][f]
     ELSE IF u \in Losing(f, old, new) THEN Off
     ELSE IF u \in Gaining(f, old, new) THEN None
     ELSE subs[u][f]]]

Keep(S, subsNew) == {p \in S : subsNew[p[1]][p[2]] # Off}
Rebound(u, F, h) == [subs EXCEPT ![u] = [f \in Feeds |-> IF f \in F /\ @[f] # Off THEN h ELSE @[f]]]

-----------------------------------------------------------------------------
(* Adding a feed: the quota, the row, and the subscription to a known URL. *)

\* feedQuotaOK counts, DiscoverFeed may settle on another address, and only
\* then the row is inserted.  The JSON API never names a webhook.
handleCreateFeed(r, u, url, c, own) ==
  /\ On("create") /\ MayAdd(u, Owned(u)) /\ Overlap(u)
  /\ Start(r, [Idle EXCEPT !.at = "create", !.who = u, !.kind = "rss", !.url = url, !.cat = c, !.own = own])
  /\ UNCHANGED <<rows, mix>>

handleFeedCreate(r, u, url, c, h) ==
  /\ On("ui") /\ MayAdd(u, Owned(u)) /\ Overlap(u)
  /\ Start(r, [Idle EXCEPT !.at = "create", !.who = u, !.kind = "rss", !.url = url, !.cat = c, !.hook = h])
  /\ UNCHANGED <<rows, mix>>

\* An inbound feed has a synthetic address of its own.
handleInboundFeedCreate(r, u, c, own) ==
  /\ On("inbound") /\ MayAdd(u, Owned(u)) /\ Overlap(u)
  /\ Start(r, [Idle EXCEPT !.at = "create", !.who = u, !.kind = "inbound", !.cat = c, !.own = own])
  /\ UNCHANGED <<rows, mix>>

Taken(url) == url # None /\ \E f \in Live : feed[f].url = url

\* CreateFeed: one transaction; the followers of the category get the feed.
CreateFeed(r, f) ==
  LET q == req[r]
      new == [u \in Users |-> IF u = q.who /\ q.own THEN q.hook
                              ELSE IF q.cat # None /\ u \in Followers(q.cat) THEN None ELSE Off]
  IN /\ q.at = "create" /\ q.ctx = "live" /\ feed[f].st = "none" /\ ~Taken(q.url) /\ CatOK(q.cat)
     /\ q.own => OwnHook(q.who, q.hook)
     /\ feed' = [feed EXCEPT ![f] = [st |-> "live", url |-> q.url, cat |-> q.cat, owner |-> q.who, secret |-> "none"]]
     /\ subs' = [u \in Users |-> [subs[u] EXCEPT ![f] = new[u]]]
     /\ chosen' = IF q.own THEN chosen \cup {<<q.who, f>>} ELSE chosen
     /\ req' = [req EXCEPT ![r] = CASE q.kind = "inbound" -> [q EXCEPT !.at = "secret", !.set = {f}]
                                    [] q.kind = "import" -> [q EXCEPT !.at = "import", !.seen = q.seen + 1]
                                    [] OTHER -> Idle]
     /\ UNCHANGED <<cats, follows, hook, stale, exempt, mix>>

\* A reference that is gone, or a URL that is taken: nothing is inserted.
CreateFeedRefused(r) ==
  LET q == req[r] IN
  /\ q.at = "create" /\ q.ctx = "live"
  /\ IF Taken(q.url) THEN req' = [req EXCEPT ![r].at = "dup"]
     ELSE /\ ~(CatOK(q.cat) /\ (q.own => OwnHook(q.who, q.hook)))
          /\ Then(r)
  /\ UNCHANGED <<rows, exempt, mix>>

\* SubscribeByURL: the catalogue has this URL, or had it a moment ago.
SubscribeByURL(r) ==
  LET q == req[r]
      F == {f \in Live : feed[f].url = q.url /\ ~Reads(q.who, f)}
  IN /\ q.at = "dup" /\ Then(r)
     /\ IF F # {} /\ OwnHook(q.who, q.hook) /\ q.ctx = "live"
          THEN /\ subs' = [subs EXCEPT ![q.who] = [f \in Feeds |-> IF f \in F THEN q.hook ELSE @[f]]]
               /\ chosen' = chosen \cup ({q.who} \X F)
          ELSE UNCHANGED <<subs, chosen>>
     /\ UNCHANGED <<feed, cats, follows, hook, stale, exempt, mix>>

\* CreateInboundFeed sets the secret in a statement of its own, which may fail.
SetInboundSecret(r) ==
  /\ req[r].at = "secret" /\ Then(r)
  /\ feed' = [f \in Feeds |-> IF f \in req[r].set \cap Live THEN [feed[f] EXCEPT !.secret = "set"] ELSE feed[f]]
  /\ UNCHANGED <<subs, cats, follows, hook, chosen, stale, exempt, mix>>

handleInboundSecretRotate(f) ==
  /\ On("inbound") /\ f \in Live /\ feed[f].url = None
  /\ feed' = [feed EXCEPT ![f].secret = "set"]
  /\ UNCHANGED <<subs, cats, follows, hook, req, chosen, stale, exempt, mix>>

\* A statement fails, or the process stops: an import reports it and goes on.
Fail(r) ==
  /\ On("fail") /\ req[r].at \in {"create", "dup", "secret", "bulk", "moving", "hook"} /\ Then(r)
  /\ UNCHANGED <<rows, exempt, mix>>

-----------------------------------------------------------------------------
(* Editing and deleting feeds.                                             *)

\* UpdateFeed: the caller's webhook is written with the catalogue columns.
UpdateFeed(u, f, url, c, h) ==
  LET old == feed[f].cat IN
  /\ f \in Live /\ CatOK(c) /\ OwnHook(u, h)
  /\ \A g \in Live \ {f} : url = None \/ feed[g].url # url
  /\ feed' = [feed EXCEPT ![f].url = url, ![f].cat = c]
  /\ subs' = [v \in Users |-> [Synced({f}, old, c)[v] EXCEPT ![f] = IF v = u /\ @ # Off /\ subs[u][f] # Off THEN h ELSE @]]
  /\ chosen' = Keep(chosen, subs')
  /\ stale' = Keep(stale, subs')
  /\ UNCHANGED <<cats, follows, hook, req, exempt, mix>>

\* PUT /v1/feeds/{id}: the request has no webhook, so UpdateFeed gets none.
handleUpdateFeed(u, f, url, c) == On("edit") /\ u \in Editors /\ UpdateFeed(u, f, url, c, None)

\* The form of the web page sends the webhook it shows.
handleFeedUpdate(u, f, url, c, h) == On("ui") /\ u \in Editors /\ UpdateFeed(u, f, url, c, h)

\* DeleteFeed: subscriptions and reader state go with the row.
DeleteFeed(f) ==
  /\ On("delete") /\ f \in Live
  /\ feed' = [feed EXCEPT ![f] = [NoFeed EXCEPT !.st = "gone"]]
  /\ subs' = [u \in Users |-> [subs[u] EXCEPT ![f] = Off]]
  /\ chosen' = Keep(chosen, subs') /\ stale' = Keep(stale, subs')
  /\ UNCHANGED <<cats, follows, hook, req, exempt, mix>>

handleDeleteFeed(f) == DeleteFeed(f)
handleFeedDelete(f) == DeleteFeed(f)

-----------------------------------------------------------------------------
(* Membership: one feed, or a whole category.                              *)

Subscribe(u, f, h) ==
  /\ On("member") /\ f \in Live /\ ~Reads(u, f) /\ OwnHook(u, h)
  /\ subs' = [subs EXCEPT ![u][f] = h] /\ chosen' = chosen \cup {<<u, f>>}
  /\ UNCHANGED <<feed, cats, follows, hook, req, stale, exempt, mix>>

\* The API names a webhook, the button of the web page does not.
handleCreateSubscription(u, f, h) == Subscribe(u, f, h)
handleSubscribe(u, f) == Subscribe(u, f, None)

handleUpdateSubscription(u, f, h) ==
  /\ On("rebind") /\ Reads(u, f) /\ OwnHook(u, h) /\ subs' = Rebound(u, {f}, h)
  /\ UNCHANGED <<feed, cats, follows, hook, req, chosen, stale, exempt, mix>>

\* A feed read through a followed category cannot be dropped alone.
Unsubscribe(u, f) ==
  /\ On("member") /\ Reads(u, f) /\ <<u, feed[f].cat>> \notin follows
  /\ subs' = [subs EXCEPT ![u][f] = Off]
  /\ chosen' = Keep(chosen, subs') /\ stale' = Keep(stale, subs')
  /\ UNCHANGED <<feed, cats, follows, hook, req, exempt, mix>>

handleDeleteSubscription(u, f) == Unsubscribe(u, f)
handleUnsubscribe(u, f) == Unsubscribe(u, f)

\* subscribeCategoryFeedsTx: what the user does not read yet.
Missing(u, c) == {f \in In(c) : ~Reads(u, f)}

FollowCategory(u, c) ==
  /\ On("follow") /\ c \in cats /\ follows' = follows \cup {<<u, c>>}
  /\ subs' = [subs EXCEPT ![u] = [f \in Feeds |-> IF f \in Missing(u, c) THEN None ELSE @[f]]]
  /\ UNCHANGED <<feed, cats, hook, req, chosen, stale, exempt, mix>>

UnfollowCategory(u, c) ==
  /\ On("follow") /\ <<u, c>> \in follows /\ follows' = follows \ {<<u, c>>}
  /\ subs' = [subs EXCEPT ![u] = [f \in Feeds |-> IF f \in In(c) THEN Off ELSE @[f]]]
  /\ chosen' = Keep(chosen, subs') /\ stale' = Keep(stale, subs')
  /\ UNCHANGED <<feed, cats, hook, req, exempt, mix>>

handleFollowCategory(u, c) == FollowCategory(u, c)
handleCategoryFollow(u, c) == FollowCategory(u, c)
handleUnfollowCategory(u, c) == UnfollowCategory(u, c)
handleCategoryUnfollow(u, c) == UnfollowCategory(u, c)

-----------------------------------------------------------------------------
(* Categories and webhooks.                                                *)

CreateCategory(c) ==
  /\ On("cats") /\ c \notin cats /\ cats' = cats \cup {c}
  /\ UNCHANGED <<feed, subs, follows, hook, req, chosen, stale, exempt, mix>>

\* feeds.category_id is ON DELETE RESTRICT, category_followers cascades.
DeleteCategory(c) ==
  /\ On("cats") /\ c \in cats /\ In(c) = {}
  /\ cats' = cats \ {c} /\ follows' = {p \in follows : p[2] # c}
  /\ UNCHANGED <<feed, subs, hook, req, chosen, stale, exempt, mix>>

handleCreateCategory(c) == CreateCategory(c)
handleCategoryCreate(c) == CreateCategory(c)
handleDeleteCategory(c) == DeleteCategory(c)
handleCategoryDelete(c) == DeleteCategory(c)

\* The webhook quota is counted before the row is inserted.
CountWebhooks(r, u) ==
  /\ On("hooks") /\ MayAddHook(u, HookCount(u))
  /\ Start(r, [Idle EXCEPT !.at = "hook", !.who = u])
  /\ exempt' = IF \E s \in Reqs : req[s].at = "hook" /\ req[s].who = u THEN exempt \cup {u} ELSE exempt
  /\ UNCHANGED <<rows, mix>>

handleCreateWebhook(r, u) == CountWebhooks(r, u)
handleWebhookCreate(r, u) == CountWebhooks(r, u)

CreateWebhook(r, h) ==
  /\ req[r].at = "hook" /\ hook[h] = None /\ Then(r)
  /\ hook' = [hook EXCEPT ![h] = req[r].who]
  /\ UNCHANGED <<feed, subs, cats, follows, chosen, stale, exempt, mix>>

\* subscriptions.webhook_id is ON DELETE SET NULL.
DeleteWebhook(u, h) ==
  /\ On("unhook") /\ hook[h] = u /\ hook' = [hook EXCEPT ![h] = Off]
  /\ subs' = [v \in Users |-> [f \in Feeds |-> IF subs[v][f] = h THEN None ELSE subs[v][f]]]
  /\ UNCHANGED <<feed, cats, follows, req, chosen, stale, exempt, mix>>

handleDeleteWebhook(u, h) == DeleteWebhook(u, h)
handleWebhookDelete(u, h) == DeleteWebhook(u, h)

-----------------------------------------------------------------------------
(* BulkUpdateFeedsByCategory: lookups, then a transaction that selects the *)
(* feeds once.  Interval, store mode, adaptive and pause write columns     *)
(* that nothing here reads.                                                *)

handleCategoryBulkWebhook(r, u, c, h) ==
  /\ On("bulkhook") /\ CatOK(c) /\ OwnHook(u, h)
  /\ Start(r, [Idle EXCEPT !.at = "bulk", !.who = u, !.kind = "hook", !.cat = c, !.hook = h])
  /\ UNCHANGED <<rows, exempt, mix>>

handleCategoryBulkMove(r, u, c, to) ==
  /\ On("bulkmove") /\ CatOK(c) /\ CatOK(to) /\ to # c
  /\ Start(r, [Idle EXCEPT !.at = "bulk", !.who = u, !.kind = "move", !.cat = c, !.to = to])
  /\ UNCHANGED <<rows, exempt, mix>>

\* A webhook deleted since the lookup fails on the foreign key.
BulkWebhook(r) ==
  LET q == req[r] IN
  /\ q.at = "bulk" /\ q.kind = "hook" /\ Then(r)
  /\ subs' = IF OwnHook(q.who, q.hook) THEN Rebound(q.who, In(q.cat), q.hook) ELSE subs
  /\ UNCHANGED <<feed, cats, follows, hook, chosen, stale, exempt, mix>>

BulkSelect(r) ==
  /\ req[r].at = "bulk" /\ req[r].kind = "move"
  /\ req' = [req EXCEPT ![r].at = "moving", ![r].set = In(req[r].cat)]
  /\ UNCHANGED <<rows, exempt, mix>>

\* The selected feeds move with the category they had when selected as the
\* old one.  A feed deleted since then fails the transaction when it would be
\* given to a follower, a category deleted since then whenever a feed is left.
BulkMove(r) ==
  LET q == req[r]
      F == q.set \cap Live
      bad == \/ F # {} /\ ~CatOK(q.to)
             \/ q.set \ F # {} /\ q.to # None /\ Followers(q.to) # {}
      moved == {f \in F : feed[f].cat # q.cat}
  IN /\ q.at = "moving" /\ Then(r)
     /\ IF bad THEN UNCHANGED <<feed, subs, chosen, stale>>
        ELSE /\ feed' = [f \in Feeds |-> IF f \in F THEN [feed[f] EXCEPT !.cat = q.to] ELSE feed[f]]
             /\ subs' = Synced(F, q.cat, q.to)
             /\ chosen' = Keep(chosen, subs')
             /\ stale' = Keep(stale \cup {p \in Users \X moved : Reads(p[1], p[2])}, subs')
     /\ UNCHANGED <<cats, follows, hook, exempt, mix>>

-----------------------------------------------------------------------------
(* importOPML, in the request or as a job that outlives it.                *)

\* What the import reads before its first item.  It ignores the errors of
\* these reads, also those of a request that has been answered already.
Snapshot(u, ok) ==
  [Idle EXCEPT !.at = "import", !.who = u, !.kind = "import", !.todo = mix.file,
     !.known = IF ok THEN {feed[f].url : f \in At(u)} ELSE {},
     !.seen = IF ok THEN Owned(u) ELSE 0,
     !.catsSeen = IF ok THEN cats ELSE {},
     !.hooksSeen = IF ok THEN {h \in Hooks : hook[h] = u} ELSE {}]

importOPML(r, u, ok) ==
  /\ On("import") /\ (ok \/ On("fail"))
  /\ Start(r, Snapshot(u, ok))
  /\ exempt' = IF Adding(u) # {} \/ ~ok THEN exempt \cup {u} ELSE exempt
  /\ UNCHANGED <<rows, mix>>

handleImportFeeds(r, u, ok) == importOPML(r, u, ok)
handleFeedsImport(r, u, ok) == importOPML(r, u, ok)

\* startAsyncOPMLImport: the job works with the context of the request ...
startAsyncOPMLImport(r, u) ==
  /\ On("async") /\ Start(r, [Idle EXCEPT !.at = "queued", !.who = u, !.kind = "import"])
  /\ UNCHANGED <<rows, exempt, mix>>

\* ... which net/http cancels when the handler has written the job id.
HandlerReturns(r) ==
  /\ On("async") /\ req[r].kind = "import" /\ req[r].at # "idle" /\ req[r].ctx = "live"
  /\ req' = [req EXCEPT ![r].ctx = "cancelled"]
  /\ UNCHANGED <<rows, exempt, mix>>

JobRuns(r) ==
  LET q == req[r] IN
  /\ q.at = "queued"
  /\ req' = [req EXCEPT ![r] = [Snapshot(q.who, q.ctx = "live") EXCEPT !.ctx = q.ctx]]
  /\ exempt' = IF Adding(q.who) # {} THEN exempt \cup {q.who} ELSE exempt
  /\ UNCHANGED <<rows, mix>>

\* importFeedParams: the webhook an outline names, if the import knows it.
importFeedParams(q, it) == IF it[3] \in q.hooksSeen THEN it[3] ELSE None

\* One outline of the file: skipped when the user reads the URL or the file
\* had it before; its category is created when the import has not seen it;
\* the quota ends the import.
ImportItem(r, it) ==
  LET q == req[r]
      rest == [q EXCEPT !.todo = q.todo \ {it}, !.n = q.n + 1, !.known = q.known \cup {it[1]}]
      newCat == it[2] # None /\ it[2] \notin q.catsSeen
  IN /\ q.at = "import" /\ it \in q.todo /\ q.n < MaxImport
     /\ IF it[1] \in q.known THEN req' = [req EXCEPT ![r] = rest] /\ cats' = cats
        ELSE IF newCat /\ (it[2] \in cats \/ q.ctx # "live")
          THEN req' = [req EXCEPT ![r] = rest] /\ cats' = cats
        ELSE /\ cats' = IF newCat THEN cats \cup {it[2]} ELSE cats
             /\ req' = [req EXCEPT ![r] =
                  IF MayAdd(q.who, q.seen)
                    THEN [rest EXCEPT !.at = "create", !.url = it[1], !.cat = it[2], !.hook = importFeedParams(q, it),
                                      !.catsSeen = IF newCat THEN q.catsSeen \cup {it[2]} ELSE q.catsSeen]
                    ELSE [rest EXCEPT !.todo = {}]]
     /\ UNCHANGED <<feed, subs, follows, hook, chosen, stale, exempt, mix>>

\* Every statement of a cancelled request fails; the item is reported.
ImportCancelled(r) ==
  /\ req[r].at \in {"create", "dup"} /\ req[r].ctx = "cancelled"
  /\ req' = [req EXCEPT ![r].at = "import"]
  /\ UNCHANGED <<rows, exempt, mix>>

\* The job ends "done" whatever its report says.
ImportDone(r) ==
  /\ req[r].at = "import" /\ (req[r].todo = {} \/ req[r].n >= MaxImport)
  /\ req' = [req EXCEPT ![r] = IF On("async") THEN [req[r] EXCEPT !.at = "done"] ELSE Idle]
  /\ UNCHANGED <<rows, exempt, mix>>

-----------------------------------------------------------------------------
Next ==
  \/ \E r \in Reqs, u \in Editors :
       \/ \E url \in mix.urls, c \in Cats \cup {None}, own \in BOOLEAN : handleCreateFeed(r, u, url, c, own)
       \/ \E url \in mix.urls, c \in Cats \cup {None}, h \in Hooks \cup {None} : handleFeedCreate(r, u, url, c, h)
       \/ \E c \in Cats \cup {None}, own \in BOOLEAN : handleInboundFeedCreate(r, u, c, own)
       \/ \E c \in Cats \cup {None}, h \in Hooks \cup {None} : handleCategoryBulkWebhook(r, u, c, h)
       \/ \E c, to \in Cats \cup {None} : handleCategoryBulkMove(r, u, c, to)
       \/ handleCreateWebhook(r, u) \/ handleWebhookCreate(r, u)
       \/ \E ok \in BOOLEAN : handleImportFeeds(r, u, ok) \/ handleFeedsImport(r, u, ok)
       \/ startAsyncOPMLImport(r, u)
  \/ \E r \in Reqs :
       \/ \E f \in Feeds : CreateFeed(r, f)
       \/ \E h \in Hooks : CreateWebhook(r, h)
       \/ CreateFeedRefused(r) \/ SubscribeByURL(r) \/ SetInboundSecret(r) \/ Fail(r)
       \/ BulkWebhook(r) \/ BulkSelect(r) \/ BulkMove(r)
       \/ HandlerReturns(r) \/ JobRuns(r) \/ ImportCancelled(r) \/ ImportDone(r)
       \/ \E it \in mix.file : ImportItem(r, it)
  \/ \E u \in Users, f \in Feeds :
       \/ handleDeleteSubscription(u, f) \/ handleUnsubscribe(u, f) \/ handleSubscribe(u, f)
       \/ \E h \in Hooks \cup {None} : handleCreateSubscription(u, f, h) \/ handleUpdateSubscription(u, f, h)
       \/ \E url \in mix.urls \cup {feed[f].url}, c \in Cats \cup {None} :
            /\ f \in Live /\ (feed[f].url = None <=> url = None)
            /\ \/ handleUpdateFeed(u, f, url, c)
               \/ \E h \in Hooks \cup {None} : handleFeedUpdate(u, f, url, c, h)
  \/ \E f \in Feeds : handleDeleteFeed(f) \/ handleFeedDelete(f) \/ handleInboundSecretRotate(f)
  \/ \E c \in Cats : handleCreateCategory(c) \/ handleCategoryCreate(c) \/ handleDeleteCategory(c) \/ handleCategoryDelete(c)
  \/ \E u \in mix.readers, c \in Cats :
       handleFollowCategory(u, c) \/ handleCategoryFollow(u, c) \/ handleUnfollowCategory(u, c) \/ handleCategoryUnfollow(u, c)
  \/ \E u \in Users, h \in Hooks : handleDeleteWebhook(u, h) \/ handleWebhookDelete(u, h)

Spec == Init /\ [][Next]_vars

-----------------------------------------------------------------------------
(* Properties                                                              *)

\* Every variable has its type; ghosts speak of subscriptions that exist.
TypeOK ==
  /\ feed \in [Feeds -> FeedRows]
  /\ subs \in [Users -> [Feeds -> Hooks \cup {None, Off}]]
  /\ cats \subseteq Cats /\ follows \subseteq Users \X cats
  /\ hook \in [Hooks -> Users \cup {None, Off}]
  /\ req \in [Reqs -> Requests]
  /\ chosen \cup stale \subseteq Users \X Feeds
  /\ \A p \in chosen \cup stale : Reads(p[1], p[2])

\* checkSubscriptionRefs and the foreign keys: entries of a feed never go to
\* a webhook of another user or to a deleted one, and only feeds that exist
\* have subscribers, whatever is deleted between a lookup and its write.
OwnWebhookOnly ==
  \A u \in Users, f \in Feeds : Reads(u, f) => f \in Live /\ (subs[u][f] # None => hook[subs[u][f]] = u)

\* Following a category means reading each feed of it, also one added,
\* imported, moved in by hand or moved in bulk (subscribeFollowersTx).
FollowersRead == \A f \in Live : \A u \in Followers(feed[f].cat) : Reads(u, f)

\* Nobody reads a feed without having chosen it or following its category,
\* except through a bulk move that did not see an earlier move of the feed.
OnlyWantedFeeds ==
  \A u \in Users : \A f \in At(u) : <<u, f>> \in chosen \cup stale \/ <<u, feed[f].cat>> \in follows

\* A feed keeps an existing category (feeds.category_id, ON DELETE RESTRICT),
\* so that BulkUpdateFeedsByCategory reaches every feed of the catalogue.
CategoryExists == \A f \in Live : CatOK(feed[f].cat)

\* MAX_FEEDS_PER_EDITOR and MAX_WEBHOOKS_PER_EDITOR hold for an editor whose
\* requests did not overlap and whose counts did not fail (feedQuotaOK and
\* importOPML count first and insert later).
QuotaUnlessOverlap ==
  \A u \in Editors \ (Admins \cup exempt) :
    /\ MaxFeeds > 0 => Owned(u) <= MaxFeeds
    /\ MaxHooks > 0 => HookCount(u) <= MaxHooks

\* What feeds and subscriptions name exists and belongs to who named it.
RefsIntact == TypeOK /\ OwnWebhookOnly /\ CategoryExists

\* Everybody reads the feeds they chose and those of the categories they
\* follow, and no other.
ReadersAsWanted == FollowersRead /\ OnlyWantedFeeds
=============================================================================
