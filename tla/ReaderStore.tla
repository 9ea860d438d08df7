---------------------------- MODULE ReaderStore ----------------------------
(***************************************************************************)
(* The shared catalog and what each reader sees of it: subscriptions,      *)
(* followed categories, entries with their dedup hashes, and the per-user  *)
(* rows (unread, starred, removed, labels) in PostgreSQL.                  *)
(*                                                                         *)
(* Every operation runs at READ COMMITTED.  A transaction is two steps (a  *)
(* poll three): the statement snapshot, which computes what it will write, *)
(* and the commit, which applies it to what the tables hold by then.  Rows *)
(* two transactions would both write (subscriptions, category_followers,   *)
(* the feeds row) are locked; INSERT ... ON CONFLICT and foreign keys are  *)
(* evaluated at the commit; rows inserted after a DELETE's snapshot        *)
(* survive it.  A transaction may be rolled back at any time.              *)
(*                                                                         *)
(* Ages are abstracted: retention may find any of the rows it looks at old *)
(* enough, and LIMIT may leave any of them to the next batch.              *)
(***************************************************************************)
EXTENDS Naturals, FiniteSets

CONSTANTS
  Users, Feeds, Cats, NoCat,
  Items, FeedOf,   \* an item (feed_id, hash) of a feed
  Expiring,        \* feeds with entry_retention_days
  Backfill,        \* SubscribeUnreadBackfill
  Conns,           \* database connections: transactions open at once
  Scenarios        \* the operations, the store_modes and first categories of a behaviour

ASSUME StoreAssumption ==
  /\ NoCat \notin Cats
  /\ FeedOf \in [Items -> Feeds]
  /\ \A s \in Scenarios : /\ s.mode \in [Feeds -> {"full", "filtered", "relay"}]
                           /\ s.cat \in [Feeds -> Cats \cup {NoCat}]
  /\ Expiring \subseteq Feeds
  /\ Backfill \in Nat

VARIABLES
  subs,       \* subscriptions (user_id, feed_id)
  follows,    \* category_followers (user_id, category_id)
  cat,        \* feeds.category_id
  entries,    \* entries, identified by (feed_id, hash)
  removedAt,  \* the entries with removed_at set: stripped or relay
  dedup,      \* feed_entry_dedup
  unread,     \* user_unread (user_id, entry_id)
  starred,    \* user_entries with starred
  removed,    \* user_entries with status 'removed'
  labels,     \* entry_labels, with the owner of the label
  tx,         \* the transaction open on each connection
  scenario,   \* chosen once
  raced,      \* history: (user, feed) pairs two unordered writers met on
  retired     \* history: the entries and the hashes retention has deleted

tables == <<subs, follows, cat, entries, removedAt, dedup, unread, starred, removed, labels>>
vars == <<tables, tx, scenario, raced, retired>>

ops == scenario.ops
Mode == scenario.mode   \* feeds.store_mode

Idle == [op |-> "idle", st |-> "none", who |-> {}, feeds |-> {}, cat |-> NoCat,
         subsAdd |-> {}, subsDel |-> {}, unreadAdd |-> {}, unreadDel |-> {},
         excDel |-> {}, labelDel |-> {}, items |-> {}, hashes |-> {}, todo |-> {}]

Rows(T, u, F) == {r \in T : r[1] = u /\ FeedOf[r[2]] \in F}
Of(F) == {i \in Items : FeedOf[i] \in F}
Exceptions == starred \cup removed

Init ==
  /\ scenario \in Scenarios
  /\ subs = {} /\ follows = {} /\ cat = scenario.cat
  /\ entries = {} /\ removedAt = {} /\ dedup = {}
  /\ unread = {} /\ starred = {} /\ removed = {} /\ labels = {}
  /\ tx = [p \in Conns |-> Idle]
  /\ raced = {} /\ retired = {}

(***************************************************************************)
(* Transactions                                                            *)
(***************************************************************************)
\* The rows both would write are locked by the first one.
Locked(s, t) ==
  \/ (s.subsAdd \cup s.subsDel) \cap (t.subsAdd \cup t.subsDel) # {}
  \/ {s.op, t.op} \subseteq {"follow", "unfollow"} /\ s.who = t.who /\ s.cat = t.cat
  \/ s.op = "move" /\ t.op = "move" /\ s.feeds = t.feeds
  \/ s.op = "poll" /\ t.op = "poll" /\ s.feeds = t.feeds

\* The first snapshot of a transaction that has computed the plan t.
Begin(p, t) ==
  /\ tx[p].op = "idle" /\ t.op \in ops
  /\ \A q \in Conns : ~Locked(tx[q], t)
  /\ tx' = [tx EXCEPT ![p] = t]
  /\ UNCHANGED <<tables, scenario, retired>>

\* Pairs of operations that READ COMMITTED does not order.
Unordered(a, b) ==
  {a, b} \in
    {{"poll", x} : x \in {"unsubscribe", "unfollow", "move", "mark"}}
    \cup {{x, y} : x \in {"mark", "star", "remove"}, y \in {"unsubscribe", "unfollow", "move", "strip"}}
    \cup {{"mark", "remove"}}
    \cup {{x, y} : x \in {"subscribe", "follow", "move"}, y \in {"strip", "remove", "purge"}}
    \cup {{"star", x} : x \in {"collapse", "purge"}}
    \cup {{"follow", "move"}, {"follow", "unsubscribe"}, {"move", "unsubscribe"}, {"move", "unfollow"}}

Met(s, t) ==
  IF Unordered(s.op, t.op) /\ "fetched" \notin {s.st, t.st}
    THEN (s.who \X s.feeds) \cap (t.who \X t.feeds)
    ELSE {}

\* What every commit does to the history: whom the transaction met.
Meets(p) == raced' = raced \cup UNION {Met(tx[p], tx[q]) : q \in Conns \ {p}}

End(p) == tx' = [tx EXCEPT ![p] = Idle] /\ Meets(p) /\ UNCHANGED scenario

\* An error, a cancelled context or a lost connection.
Rollback(p) ==
  /\ tx[p].op # "idle"
  /\ tx' = [tx EXCEPT ![p] = Idle]
  /\ UNCHANGED <<tables, scenario, raced, retired>>

Without(T, S) == {r \in T : r[2] \notin S}

\* What is left of an open transaction when the entries S are deleted: a DELETE
\* skips them, an INSERT that refers to one fails on its foreign key.
Detached(t, S) ==
  CASE \/ t.op \in {"star", "remove", "strip"} /\ t.items \cap S # {}
       \/ t.op # "poll" /\ \E r \in t.unreadAdd : r[2] \in S -> [t EXCEPT !.st = "dead"]
    [] t.op = "poll" /\ t.st # "after" -> t
    [] OTHER -> [t EXCEPT !.items = @ \ S, !.todo = Without(@, S), !.unreadDel = Without(@, S),
                          !.excDel = Without(@, S), !.labelDel = Without(@, S)]

\* DELETE of entries S by connection p, ON DELETE CASCADE; p goes on as t.
Delete(p, S, t) ==
  /\ entries' = entries \ S /\ removedAt' = removedAt \ S
  /\ unread' = Without(unread, S) /\ starred' = Without(starred, S)
  /\ removed' = Without(removed, S) /\ labels' = Without(labels, S)
  /\ tx' = [q \in Conns |-> IF q = p THEN t ELSE Detached(tx[q], S)]
  /\ Meets(p) /\ UNCHANGED scenario

(***************************************************************************)
(* Membership: Subscribe, Unsubscribe, FollowCategory, UnfollowCategory,   *)
(* UpdateFeed with another category                                        *)
(***************************************************************************)
\* The newest entries of feed f; sort_at may order them in any way.
Newest(f) ==
  LET live == Of({f}) \cap (entries \ removedAt)
  IN {S \in SUBSET live : Cardinality(S) = IF Cardinality(live) < Backfill THEN Cardinality(live) ELSE Backfill}

\* subscribeTx for the pairs S, with one choice of the newest entries per feed.
Subscribing(S, new) ==
  [Idle EXCEPT !.subsAdd = S,
     !.unreadAdd = {r \in Users \X Items : <<r[1], FeedOf[r[2]]>> \in S /\ r[2] \in new[FeedOf[r[2]]]}]

MutForget(U, F) ==
  [Idle EXCEPT !.subsDel = subs \cap (U \X F),
     !.excDel = UNION {Rows(Exceptions, u, F) : u \in U},
     !.labelDel = UNION {Rows(labels, u, F) : u \in U}]

\* unsubscribeTx for the subscriptions of U to F.
Forget(U, F) ==
  [Idle EXCEPT !.subsDel = subs \cap (U \X F),
     !.unreadDel = UNION {Rows(unread, u, F) : u \in U},
     !.excDel = UNION {Rows(Exceptions, u, F) : u \in U},
     !.labelDel = UNION {Rows(labels, u, F) : u \in U}]

Subscribe(p, u, f) ==
  \E new \in Newest(f) :
    /\ <<u, f>> \notin subs
    /\ Begin(p, [Subscribing({<<u, f>>}, [g \in Feeds |-> new])
                   EXCEPT !.op = "subscribe", !.who = {u}, !.feeds = {f}])
    /\ UNCHANGED raced

\* A feed read through a followed category cannot be dropped alone.
FollowsFeed(u, f) == <<u, cat[f]>> \in follows

Unsubscribe(p, u, f) ==
  /\ ~FollowsFeed(u, f) /\ <<u, f>> \in subs
  /\ Begin(p, [Forget({u}, {f}) EXCEPT !.op = "unsubscribe", !.who = {u}, !.feeds = {f}])
  /\ UNCHANGED raced

\* subscribeCategoryFeedsTx: the feeds of the category not read yet.
FollowCategory(p, u, c) ==
  LET F == {f \in Feeds : cat[f] = c /\ <<u, f>> \notin subs}
  IN \E new \in [Feeds -> SUBSET Items] :
       /\ \A f \in Feeds : IF f \in F THEN new[f] \in Newest(f) ELSE new[f] = {}
       /\ Begin(p, [Subscribing({u} \X F, new)
                      EXCEPT !.op = "follow", !.who = {u}, !.feeds = Feeds, !.cat = c])
       /\ UNCHANGED raced

UnfollowCategory(p, u, c) ==
  /\ <<u, c>> \in follows
  /\ Begin(p, [Forget({u}, {f \in Feeds : cat[f] = c})
                 EXCEPT !.op = "unfollow", !.who = {u}, !.feeds = Feeds, !.cat = c])
  /\ UNCHANGED raced

Followers(c) == {u \in Users : <<u, c>> \in follows}

\* syncCategoryFollowersTx: who loses the feed and who gets it.
Losing(f, c) == {u \in Followers(cat[f]) \ Followers(c) : <<u, f>> \in subs}
Gaining(f, c) == {u \in Followers(c) : <<u, f>> \notin subs}

\* UpdateFeed: the category changes and the followers are brought along.
MoveFeed(p, f, c) ==
  /\ c # cat[f]
  /\ \E new \in Newest(f) :
       LET add == Subscribing(Gaining(f, c) \X {f}, [g \in Feeds |-> new])
       IN Begin(p, [Forget(Losing(f, c), {f})
                      EXCEPT !.op = "move", !.who = Users, !.feeds = {f}, !.cat = c,
                             !.subsAdd = add.subsAdd, !.unreadAdd = add.unreadAdd])
  /\ UNCHANGED raced

CommitMembership(p) ==
  LET t == tx[p] IN
  /\ t.op \in {"subscribe", "unsubscribe", "follow", "unfollow", "move"}
  /\ t.st # "dead"
  /\ subs' = (subs \cup t.subsAdd) \ t.subsDel
  /\ follows' = CASE t.op = "follow" -> follows \cup (t.who \X {t.cat})
                  [] t.op = "unfollow" -> follows \ (t.who \X {t.cat})
                  [] OTHER -> follows
  /\ cat' = IF t.op = "move" THEN [f \in Feeds |-> IF f \in t.feeds THEN t.cat ELSE cat[f]] ELSE cat
  /\ unread' = (unread \ t.unreadDel) \cup t.unreadAdd
  /\ starred' = starred \ t.excDel /\ removed' = removed \ t.excDel
  /\ labels' = labels \ t.labelDel
  /\ End(p) /\ UNCHANGED <<entries, removedAt, dedup, retired>>

(***************************************************************************)
(* A poll: createEntries and what afterStore does with the new entries     *)
(***************************************************************************)
MutFilterKnown(S) == S \ dedup
\* FilterKnownEntryHashes, and what is left of the fetched items.
FilterKnown(S) == S \ (entries \cup dedup)

\* The fetched items; a filtered or relay feed keeps the hash of those that
\* match no filter.
PollFetched(p, f) ==
  \E S \in SUBSET Of({f}) : \E matched \in SUBSET FilterKnown(S) :
    /\ FilterKnown(S) # {}
    /\ Mode[f] = "full" => matched = FilterKnown(S)
    /\ Begin(p, [Idle EXCEPT !.op = "poll", !.st = "fetched", !.who = Users, !.feeds = {f},
                   !.items = matched, !.hashes = FilterKnown(S) \ matched])
    /\ UNCHANGED raced

\* The snapshot of the INSERT: the dedup filter and the subscribers.
PollInsert(p) ==
  LET t == tx[p] IN
  /\ t.op = "poll" /\ t.st = "fetched"
  /\ tx' = [tx EXCEPT ![p].st = "insert", ![p].items = t.items \ dedup,
              ![p].unreadAdd =
                {<<s[1], i>> : s \in {s \in subs : s[2] \in t.feeds /\ Mode[s[2]] # "relay"}, i \in t.items \ dedup}]
  /\ UNCHANGED <<tables, scenario, raced, retired>>

\* The commit: rows another writer inserted meanwhile are skipped.
PollCommit(p) ==
  LET t == tx[p]
      ins == t.items \ entries
      relay == \E f \in t.feeds : Mode[f] = "relay"
  IN
  /\ t.op = "poll" /\ t.st = "insert"
  /\ entries' = entries \cup ins
  /\ removedAt' = IF relay THEN removedAt \cup ins ELSE removedAt
  /\ unread' = unread \cup {r \in t.unreadAdd : r[2] \in ins}
  /\ dedup' = dedup \cup t.hashes
  /\ tx' = [tx EXCEPT ![p].st = "after", ![p].items = ins,
              ![p].unreadAdd = {}, ![p].hashes = {},
              ![p].todo = IF relay THEN {} ELSE {<<s[1], i>> : s \in {s \in subs : s[2] \in t.feeds}, i \in ins}]
  /\ Meets(p)
  /\ UNCHANGED <<subs, follows, cat, starred, removed, labels, scenario, retired>>

\* A filter of a subscriber labels a new entry or deletes it for that user;
\* the actions of the filters that match come in any order and number.
FilterAction(p) ==
  /\ tx[p].op = "poll" /\ tx[p].st = "after"
  /\ \E r \in tx[p].todo :
       /\ r[2] \in entries
       /\ \/ labels' = labels \cup {r} /\ UNCHANGED <<unread, removed>>
          \/ /\ unread' = unread \ {r}
             /\ removed' = IF <<r[1], FeedOf[r[2]]>> \in subs THEN removed \cup {r} ELSE removed
             /\ UNCHANGED labels
  /\ Meets(p)
  /\ UNCHANGED <<subs, follows, cat, entries, removedAt, dedup, starred, tx, scenario, retired>>

\* dropUndeliveredRelayEntries keeps the hash of a relay entry no webhook
\* was queued for; a full or filtered feed is done.
PollDone(p) ==
  LET t == tx[p] IN
  /\ t.op = "poll" /\ t.st = "after"
  /\ \E drop \in SUBSET (t.items \cap entries) :
       /\ (\E f \in t.feeds : Mode[f] # "relay") => drop = {}
       /\ dedup' = dedup \cup drop
       /\ Delete(p, drop, Idle)
  /\ UNCHANGED <<subs, follows, cat, retired>>

(***************************************************************************)
(* The reader's own operations (BulkUpdateEntries, UpdateEntry,            *)
(* MarkEntriesRemoved, MarkAll...Read)                                     *)
(***************************************************************************)
\* A DELETE of the user's unread rows: one entry, a feed, a category, a label, all.
MarkRead(u, S) ==
  /\ "mark" \in ops
  /\ unread' = unread \ ({u} \X S)
  /\ UNCHANGED <<subs, follows, cat, entries, removedAt, dedup, starred, removed, labels, tx, scenario, raced, retired>>

\* entryMarkUnread takes the entry if it is neither stripped nor removed.
MayMark(u, i) ==
  /\ i \in entries \ removedAt
  /\ <<u, FeedOf[i]>> \in subs
  /\ <<u, i>> \notin removed

MarkUnread(p, u, i) ==
  /\ MayMark(u, i)
  /\ Begin(p, [Idle EXCEPT !.op = "mark", !.who = {u}, !.feeds = {FeedOf[i]}, !.unreadAdd = {<<u, i>>}])
  /\ UNCHANGED raced

CommitMark(p) ==
  /\ tx[p].op = "mark" /\ tx[p].st # "dead"
  /\ unread' = unread \cup tx[p].unreadAdd
  /\ End(p) /\ UNCHANGED <<subs, follows, cat, entries, removedAt, dedup, starred, removed, labels, retired>>

Star(p, u, i) ==
  /\ i \in entries \ removedAt /\ <<u, FeedOf[i]>> \in subs
  /\ Begin(p, [Idle EXCEPT !.op = "star", !.who = {u}, !.feeds = {FeedOf[i]}, !.items = {i}])
  /\ UNCHANGED raced

\* ON CONFLICT: a removed row is left alone.
CommitStar(p) ==
  /\ tx[p].op = "star" /\ tx[p].st # "dead"
  /\ starred' = starred \cup ((tx[p].who \X tx[p].items) \ removed)
  /\ End(p) /\ UNCHANGED <<subs, follows, cat, entries, removedAt, dedup, unread, removed, labels, retired>>

Unstar(u, i) ==
  /\ "star" \in ops
  /\ starred' = starred \ ({<<u, i>>} \ removed)
  /\ UNCHANGED <<subs, follows, cat, entries, removedAt, dedup, unread, removed, labels, tx, scenario, raced, retired>>

RemovePlan(u, i) ==
  [Idle EXCEPT !.op = "remove", !.who = {u}, !.feeds = {FeedOf[i]}, !.items = {i},
               !.unreadDel = unread \cap {<<u, i>>}]

MarkRemoved(p, u, i) ==
  /\ i \in entries /\ <<u, FeedOf[i]>> \in subs
  /\ Begin(p, RemovePlan(u, i))
  /\ UNCHANGED raced

\* MarkEntryRemovedKeepPayload, for the owner of a webhook that delivered the
\* entry: the owner may have unsubscribed since, and gets a row all the same.
WebhookRemove(p, u, i) ==
  /\ i \in entries
  /\ Begin(p, RemovePlan(u, i))
  /\ raced' = raced \cup ({<<u, FeedOf[i]>>} \ subs)

CommitRemove(p) ==
  /\ tx[p].op = "remove" /\ tx[p].st # "dead"
  /\ unread' = unread \ tx[p].unreadDel
  /\ removed' = removed \cup (tx[p].who \X tx[p].items)
  /\ End(p) /\ UNCHANGED <<subs, follows, cat, entries, removedAt, dedup, starred, labels, retired>>

(***************************************************************************)
(* Entries that leave for everybody                                        *)
(***************************************************************************)
\* StripEntryPayloadAfterWebhook
Strip(p, i) ==
  /\ i \in entries
  /\ Begin(p, [Idle EXCEPT !.op = "strip", !.who = Users, !.feeds = {FeedOf[i]}, !.items = {i},
                 !.unreadDel = {r \in unread : r[2] = i}, !.excDel = {r \in Exceptions : r[2] = i}])
  /\ UNCHANGED raced

CommitStrip(p) ==
  LET t == tx[p] IN
  /\ t.op = "strip" /\ t.st # "dead"
  /\ removedAt' = removedAt \cup t.items /\ dedup' = dedup \cup t.items
  /\ unread' = unread \ t.unreadDel
  /\ starred' = starred \ t.excDel /\ removed' = removed \ t.excDel
  /\ End(p) /\ UNCHANGED <<subs, follows, cat, entries, labels, retired>>

Starless(i) == \A u \in Users : <<u, i>> \notin starred

\* CollapseEntriesToHashes for the feeds of a reader; entries with a delivery
\* still queued are among those left out.
Collapse(p, S) ==
  /\ S # {} /\ S \subseteq entries
  /\ \A i \in S : Starless(i) /\ \E u \in Users : <<u, FeedOf[i]>> \in subs
  /\ Begin(p, [Idle EXCEPT !.op = "collapse", !.who = Users, !.feeds = {FeedOf[i] : i \in S}, !.items = S, !.hashes = S])
  /\ UNCHANGED raced

CommitCollapse(p) ==
  /\ tx[p].op = "collapse"
  /\ dedup' = dedup \cup tx[p].hashes
  /\ Delete(p, tx[p].items, Idle)
  /\ UNCHANGED <<subs, follows, cat, retired>>

(***************************************************************************)
(* RunRetentionCleanup: a statement after the other, each one repeated in  *)
(* batches and committed by itself                                         *)
(***************************************************************************)

\* purgeRemovedEntries: every current subscriber has removed the entry.
LeftWithoutReader(i) ==
  /\ \E u \in Users : <<u, i>> \in removed
  /\ \E u \in Users : <<u, FeedOf[i]>> \in subs
  /\ \A u \in Users : <<u, FeedOf[i]>> \in subs => <<u, i>> \in removed
  /\ Starless(i)

\* What the entry statements of the pass look for.
Eligible(st, i) ==
  CASE st = "removed" -> LeftWithoutReader(i)
    [] st = "stripped" -> i \in removedAt
    [] st = "expired" -> FeedOf[i] \in Expiring /\ Starless(i)

NextStage(st) ==
  CASE st = "removed" -> "stripped" [] st = "stripped" -> "expired" [] st = "expired" -> "dedup"

PurgeBegin(p, S) ==
  /\ S \subseteq {i \in entries : Eligible("removed", i)}
  /\ Begin(p, [Idle EXCEPT !.op = "purge", !.st = "removed", !.who = Users,
                 !.feeds = {FeedOf[i] : i \in S}, !.items = S])
  /\ UNCHANGED raced

\* One DELETE commits and the next statement takes its snapshot.
PurgeEntries(p) ==
  LET t == tx[p] IN
  /\ t.op = "purge" /\ t.st # "dedup"
  /\ retired' = retired \cup (t.items \X {"entry"})
  /\ \E next \in {t.st, NextStage(t.st)} :
     \E S \in SUBSET (entries \ t.items) :
       /\ IF next = "dedup" THEN S = {} ELSE \A i \in S : Eligible(next, i)
       /\ Delete(p, t.items, [t EXCEPT !.st = next, !.items = S, !.feeds = {FeedOf[i] : i \in S}])
  /\ UNCHANGED <<subs, follows, cat, dedup>>

\* feed_entry_dedup, by entry_retention_days and by DEDUP_RETENTION_DAYS.
PurgeDedup(p) ==
  /\ tx[p].op = "purge" /\ tx[p].st = "dedup"
  /\ \E S \in SUBSET dedup : dedup' = dedup \ S /\ retired' = retired \cup (S \X {"hash"})
  /\ End(p) /\ UNCHANGED <<subs, follows, cat, entries, removedAt, unread, starred, removed, labels>>

Next ==
  \/ \E p \in Conns :
       \/ Rollback(p) \/ CommitMembership(p)
       \/ PollInsert(p) \/ PollCommit(p) \/ FilterAction(p) \/ PollDone(p)
       \/ CommitMark(p) \/ CommitStar(p) \/ CommitRemove(p) \/ CommitStrip(p)
       \/ CommitCollapse(p) \/ PurgeEntries(p) \/ PurgeDedup(p)
       \/ \E S \in SUBSET entries : Collapse(p, S) \/ PurgeBegin(p, S)
       \/ \E i \in Items : Strip(p, i)
       \/ \E f \in Feeds : PollFetched(p, f) \/ \E c \in Cats \cup {NoCat} : MoveFeed(p, f, c)
       \/ \E u \in Users :
            \/ \E f \in Feeds : Subscribe(p, u, f) \/ Unsubscribe(p, u, f)
            \/ \E c \in Cats : FollowCategory(p, u, c) \/ UnfollowCategory(p, u, c)
            \/ \E i \in Items : MarkUnread(p, u, i) \/ Star(p, u, i) \/ MarkRemoved(p, u, i) \/ WebhookRemove(p, u, i)
  \/ \E u \in Users, i \in Items : MarkRead(u, {i}) \/ Unstar(u, i)
  \/ \E u \in Users, f \in Feeds : MarkRead(u, Of({f}))

Spec == Init /\ [][Next]_vars

(***************************************************************************)
(* Properties                                                              *)
(***************************************************************************)
\* Every row has its key, and the rows of an entry live no longer than it.
TypeOK ==
  /\ subs \subseteq Users \X Feeds /\ follows \subseteq Users \X Cats
  /\ cat \in [Feeds -> Cats \cup {NoCat}]
  /\ entries \subseteq Items /\ removedAt \subseteq entries /\ dedup \subseteq Items
  /\ unread \cup starred \cup removed \cup labels \subseteq Users \X entries
  /\ raced \subseteq Users \X Feeds /\ retired \subseteq Items \X {"entry", "hash"}

\* A user has rows on the entries of a feed only while subscribed to it,
\* unless a writer met an unsubscription it is not ordered with
\* (unsubscribeTx "removes the subscription with the user's per-entry state").
StateOnlyForReaders ==
  \A r \in unread \cup starred \cup removed \cup labels :
    <<r[1], FeedOf[r[2]]>> \in subs \cup raced

\* An unread entry can be read: it is neither stripped nor removed by the
\* user, whatever order polls, backfills, filters and removals come in.
UnreadIsShown ==
  \A r \in unread :
    \/ r[2] \notin removedAt /\ r \notin removed
    \/ <<r[1], FeedOf[r[2]]>> \in raced

\* Who follows a category reads every feed of it (FollowCategory,
\* syncCategoryFollowersTx, ErrFollowsCategory).
FollowersSubscribed ==
  \A u \in Users, f \in Feeds : <<u, cat[f]>> \in follows => <<u, f>> \in subs \cup raced

\* The rows derived from subscriptions, categories and entries stay in step
\* with them, whatever transactions overlap.
RowsInStep == TypeOK /\ StateOnlyForReaders /\ UnreadIsShown /\ FollowersSubscribed

\* An item whose hash is in feed_entry_dedup does not come back as an entry,
\* even when it is collapsed or stripped while a poll is inserting.  (Retention
\* forgets items: one it has deleted is new again.)
KnownStaysKnown ==
  [][\A i \in entries' \ entries : i \in dedup => \E k \in {"entry", "hash"} : <<i, k>> \in retired]_vars

\* Nothing a reader keeps is deleted under them: no starred entry at all, and
\* no unread one by the purge of removed entries.
PurgeSparesReaders ==
  [][\A i \in entries \ entries', u \in Users :
       /\ <<u, i>> \in starred => <<u, FeedOf[i]>> \in raced'
       /\ (<<u, i>> \in unread /\ \E p \in Conns : tx[p].op = "purge" /\ tx[p].st # "expired" /\ i \in tx[p].items)
            => <<u, FeedOf[i]>> \in raced']_vars

\* Polls, collapsing and retention together neither bring back what is known
\* nor delete what a reader keeps.
EntriesKept == KnownStaysKnown /\ PurgeSparesReaders
=============================================================================
