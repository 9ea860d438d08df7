------------------------- MODULE ReaderStoreProofs -------------------------
(***************************************************************************)
(* Proofs about ReaderStore, for any users, feeds, categories, items and   *)
(* connections and any operations together: the rows of a reader stay in   *)
(* step with subscriptions, categories and entries, known items do not     *)
(* come back, and nothing a reader keeps is deleted.                       *)
(*                                                                         *)
(* The inductive invariant says of every open transaction what its plan,   *)
(* computed from an older snapshot, still has to do with the tables: the   *)
(* rows it will delete are all there are, those it will insert still       *)
(* belong, or the pair is in raced.                                        *)
(***************************************************************************)
EXTENDS ReaderStore, TLAPS

Pair(r) == <<r[1], FeedOf[r[2]]>>
Hidden(r) == r[2] \in removedAt \/ r \in removed
Retired(i) == \E k \in {"entry", "hash"} : <<i, k>> \in retired
Members == {"subscribe", "unsubscribe", "follow", "unfollow", "move"}
Pairs == Users \X Feeds
Keys == Users \X Items

\* The fields of a transaction, and the pairs it is about.
TxType ==
  [op : {"idle", "poll", "mark", "star", "remove", "strip", "collapse", "purge"} \cup Members,
   st : {"none", "dead", "fetched", "insert", "after", "removed", "stripped", "expired", "dedup"},
   who : SUBSET Users, feeds : SUBSET Feeds, cat : Cats \cup {NoCat},
   subsAdd : SUBSET Pairs, subsDel : SUBSET Pairs,
   unreadAdd : SUBSET Keys, unreadDel : SUBSET Keys, excDel : SUBSET Keys, labelDel : SUBSET Keys,
   items : SUBSET Items, hashes : SUBSET Items, todo : SUBSET Keys]

\* Rows a change of membership will delete are all those there are, and rows
\* it will insert belong to what it subscribes to and show.
MemberOK(t) ==
  /\ t.subsAdd \cup t.subsDel \subseteq t.who \X t.feeds
  /\ t.subsAdd \cap (t.subsDel \cup subs) = {}
  /\ \A r \in t.unreadAdd : r[2] \in entries /\ Pair(r) \in t.subsAdd /\ (Hidden(r) => Pair(r) \in raced)
  /\ \A r \in unread : Pair(r) \in t.subsDel => r \in t.unreadDel \/ Pair(r) \in raced
  /\ \A r \in starred \cup removed : Pair(r) \in t.subsDel => r \in t.excDel \/ Pair(r) \in raced
  /\ \A r \in labels : Pair(r) \in t.subsDel => r \in t.labelDel \/ Pair(r) \in raced
  /\ \A r \in t.excDel : Pair(r) \in t.subsDel \cup raced
\* What each change of membership knows of the categories.
CatOK(t) ==
  /\ t.op \in {"subscribe", "follow"} => t.subsDel = {}
  /\ t.op \in {"unsubscribe", "unfollow"} => t.subsAdd = {}
  /\ t.op \in {"follow", "unfollow"} => t.feeds = Feeds /\ \E u \in Users : t.who = {u}
  /\ t.op = "move" => t.who = Users /\ \E f \in Feeds : t.feeds = {f}
  /\ t.op = "unsubscribe" => \A x \in t.subsDel : <<x[1], cat[x[2]]>> \notin follows \/ x \in raced
  /\ t.op = "follow" => t.cat \in Cats /\ \A u \in t.who, f \in Feeds : cat[f] = t.cat => <<u, f>> \in subs \cup t.subsAdd \cup raced
  /\ t.op = "unfollow" => \A x \in t.subsDel : cat[x[2]] = t.cat \/ x \in raced
  /\ t.op = "move" =>
       \A u \in Users, f \in t.feeds :
         <<u, t.cat>> \in follows => <<u, f>> \in ((subs \cup t.subsAdd) \ t.subsDel) \cup raced
PollTxOK(t) ==
  /\ t.st = "fetched" => t.op = "poll"
  /\ t.who = Users /\ \E f \in Feeds : t.feeds = {f}
  /\ t.items \cup t.hashes \subseteq Of(t.feeds)
  /\ t.st \in {"fetched", "insert"} => t.items \cap entries = {}
  /\ t.st = "insert" =>
       /\ \A i \in t.items : i \in dedup => Retired(i)
       /\ \A r \in t.unreadAdd : r[2] \in t.items /\ Mode[FeedOf[r[2]]] # "relay" /\ Pair(r) \in subs \cup raced
  /\ t.st = "after" => /\ \A r \in t.todo : FeedOf[r[2]] \in t.feeds /\ Pair(r) \in subs \cup raced
                       /\ \A i \in t.items : i \in entries /\ (Mode[FeedOf[i]] = "relay" => i \in removedAt)
MarkOK(t) ==
  \A r \in t.unreadAdd : /\ r[1] \in t.who /\ FeedOf[r[2]] \in t.feeds /\ r[2] \in entries
                         /\ Pair(r) \in subs \cup raced /\ (Hidden(r) => Pair(r) \in raced)
StarOK(t) ==
  \A u \in t.who, i \in t.items :
    i \in entries /\ FeedOf[i] \in t.feeds /\ <<u, FeedOf[i]>> \in subs \cup raced /\ (i \in removedAt => <<u, FeedOf[i]>> \in raced)
RemoveOK(t) ==
  \A u \in t.who, i \in t.items :
    /\ i \in entries /\ FeedOf[i] \in t.feeds /\ <<u, FeedOf[i]>> \in subs \cup raced
    /\ <<u, i>> \in unread => <<u, i>> \in t.unreadDel \/ <<u, FeedOf[i]>> \in raced
StripOK(t) ==
  /\ t.who = Users
  /\ \A i \in t.items : i \in entries /\ FeedOf[i] \in t.feeds
  /\ \A r \in unread : r[2] \in t.items => r \in t.unreadDel \/ Pair(r) \in raced
  /\ \A r \in starred : r[2] \in t.items => r \in t.excDel \/ Pair(r) \in raced
  /\ \A r \in t.excDel : r[2] \in t.items
LeaveOK(t) ==
  /\ t.who = Users /\ t.unreadAdd = {} /\ \A i \in t.items : FeedOf[i] \in t.feeds
  /\ \A r \in starred : r[2] \in t.items => Pair(r) \in raced
CollapseOK(t) ==
  /\ LeaveOK(t) /\ t.items \subseteq t.hashes
  /\ \A i \in t.hashes : i \in entries \cup dedup \/ Retired(i)
PurgeOK(t) ==
  /\ LeaveOK(t) /\ t.st \in {"removed", "stripped", "expired", "dedup"}
  /\ t.st = "dedup" => t.items = {}
  /\ t.st \in {"removed", "stripped"} =>
       \A u \in Users, i \in t.items : <<u, FeedOf[i]>> \in raced \/ <<u, FeedOf[i]>> \notin subs \/ Hidden(<<u, i>>)

TxOK(t) ==
  /\ t.st = "fetched" => t.op = "poll"
  /\ t.op \in Members /\ t.st # "dead" => MemberOK(t) /\ CatOK(t)
  /\ t.op = "poll" => t.st \in {"fetched", "insert", "after"} /\ PollTxOK(t)
  /\ t.op = "mark" /\ t.st # "dead" => MarkOK(t)
  /\ t.op = "star" /\ t.st # "dead" => StarOK(t)
  /\ t.op = "remove" /\ t.st # "dead" => RemoveOK(t)
  /\ t.op = "strip" /\ t.st # "dead" => StripOK(t)
  /\ t.op = "collapse" => CollapseOK(t)
  /\ t.op = "purge" => PurgeOK(t)

\* A star on a stripped entry is a race.
StarShown == \A r \in starred : r[2] \in removedAt => Pair(r) \in raced

Unlocked == \A p, q \in Conns : p # q => ~Locked(tx[p], tx[q])

Tables == scenario \in Scenarios /\ RowsInStep /\ StarShown

SInv ==
  /\ Tables
  /\ tx \in [Conns -> TxType] /\ Unlocked
  /\ \A p \in Conns : TxOK(tx[p])

-----------------------------------------------------------------------------
(* Who meets whom.                                                         *)

LEMMA UnorderedPairs ==
  /\ \A x \in {"unsubscribe", "unfollow", "move", "mark"} : Unordered("poll", x) /\ Unordered(x, "poll")
  /\ \A x \in {"mark", "star", "remove"}, y \in {"unsubscribe", "unfollow", "move", "strip"} : Unordered(x, y) /\ Unordered(y, x)
  /\ Unordered("mark", "remove") /\ Unordered("remove", "mark")
  /\ \A x \in {"subscribe", "follow", "move"}, y \in {"strip", "remove", "purge"} : Unordered(x, y) /\ Unordered(y, x)
  /\ \A x \in {"collapse", "purge"} : Unordered("star", x) /\ Unordered(x, "star")
  /\ Unordered("follow", "move") /\ Unordered("move", "follow")
  /\ Unordered("follow", "unsubscribe") /\ Unordered("unsubscribe", "follow")
  /\ Unordered("move", "unsubscribe") /\ Unordered("unsubscribe", "move")
  /\ Unordered("move", "unfollow") /\ Unordered("unfollow", "move")
<1>0. \A x, y : {x, y} = {y, x}
  OBVIOUS
<1>1. \A x \in {"unsubscribe", "unfollow", "move", "mark"} : Unordered("poll", x)
  BY SMT DEF Unordered
<1>2. \A x \in {"mark", "star", "remove"}, y \in {"unsubscribe", "unfollow", "move", "strip"} : Unordered(x, y)
  BY SMT DEF Unordered
<1>3. Unordered("mark", "remove")
  BY SMT DEF Unordered
<1>4. \A x \in {"subscribe", "follow", "move"}, y \in {"strip", "remove", "purge"} : Unordered(x, y)
  BY SMT DEF Unordered
<1>5. \A x \in {"collapse", "purge"} : Unordered("star", x)
  BY SMT DEF Unordered
<1>6. Unordered("follow", "move") /\ Unordered("follow", "unsubscribe") /\ Unordered("move", "unsubscribe") /\ Unordered("move", "unfollow")
  BY SMT DEF Unordered
<1>7. \A x, y : Unordered(x, y) => Unordered(y, x)
  BY <1>0 DEF Unordered
<1> QED BY <1>1, <1>2, <1>3, <1>4, <1>5, <1>6, <1>7, Zenon

LEMMA LockedSym == ASSUME NEW s, NEW t PROVE Locked(s, t) <=> Locked(t, s)
<1>1. {s.op, t.op} = {t.op, s.op} /\ (s.subsAdd \cup s.subsDel) \cap (t.subsAdd \cup t.subsDel) = (t.subsAdd \cup t.subsDel) \cap (s.subsAdd \cup s.subsDel)
  OBVIOUS
<1> QED BY <1>1, Zenon DEF Locked

\* A commit of p puts the pairs it has in common with t on record.
LEMMA MeetsAll ==
  ASSUME NEW p \in Conns, Meets(p)
  PROVE  raced \subseteq raced' /\ \A q \in Conns \ {p} : Met(tx[p], tx[q]) \subseteq raced'
BY DEF Meets

LEMMA MetPair ==
  ASSUME NEW s, NEW t, Unordered(s.op, t.op), s.st # "fetched", t.st # "fetched",
         NEW u, NEW f, u \in s.who, f \in s.feeds, u \in t.who, f \in t.feeds
  PROVE  <<u, f>> \in Met(s, t)
BY DEF Met

-----------------------------------------------------------------------------
(* What leaves a transaction as it was.                                    *)

LEMMA MemberMono ==
  ASSUME NEW t, MemberOK(t), entries \subseteq entries', subs' \subseteq subs, unread' \subseteq unread, starred' \subseteq starred,
         removed' \subseteq removed, labels' \subseteq labels, removedAt' \subseteq removedAt, raced \subseteq raced'
  PROVE  MemberOK(t)'
BY DEF MemberOK, Hidden, Pair

LEMMA CatMono ==
  ASSUME NEW t, CatOK(t), cat' = cat, follows' \subseteq follows, subs \subseteq subs', raced \subseteq raced'
  PROVE  CatOK(t)'
BY DEF CatOK

LEMMA PollMono ==
  ASSUME NEW t, PollTxOK(t), entries' = entries, dedup' \subseteq dedup, retired \subseteq retired', subs \subseteq subs',
         removedAt \subseteq removedAt', raced \subseteq raced', scenario' = scenario
  PROVE  PollTxOK(t)'
BY DEF PollTxOK, Pair, Retired, Of, Mode

LEMMA MarkMono ==
  ASSUME NEW t, MarkOK(t), entries \subseteq entries', subs \subseteq subs', removedAt' \subseteq removedAt, removed' \subseteq removed, raced \subseteq raced'
  PROVE  MarkOK(t)'
BY DEF MarkOK, Pair, Hidden

LEMMA StarMono ==
  ASSUME NEW t, StarOK(t), entries \subseteq entries', subs \subseteq subs', removedAt' \subseteq removedAt, raced \subseteq raced'
  PROVE  StarOK(t)'
BY DEF StarOK

LEMMA RemoveMono ==
  ASSUME NEW t, RemoveOK(t), entries \subseteq entries', subs \subseteq subs', unread' \subseteq unread, raced \subseteq raced'
  PROVE  RemoveOK(t)'
BY DEF RemoveOK

LEMMA StripMono ==
  ASSUME NEW t, StripOK(t), entries \subseteq entries', unread' \subseteq unread, starred' \subseteq starred, raced \subseteq raced'
  PROVE  StripOK(t)'
BY DEF StripOK, Pair

LEMMA CollapseMono ==
  ASSUME NEW t, CollapseOK(t), starred' \subseteq starred, entries \subseteq entries', dedup \subseteq dedup', retired \subseteq retired', raced \subseteq raced'
  PROVE  CollapseOK(t)'
BY DEF CollapseOK, LeaveOK, Pair, Retired

LEMMA PurgeMono ==
  ASSUME NEW t, PurgeOK(t), starred' \subseteq starred, subs' \subseteq subs, removed \subseteq removed', removedAt \subseteq removedAt', raced \subseteq raced'
  PROVE  PurgeOK(t)'
BY DEF PurgeOK, LeaveOK, Pair, Hidden

\* Nothing that the plan of t is about has changed.
LEMMA AllSame ==
  ASSUME NEW t, TxOK(t), UNCHANGED <<subs, follows, cat, entries, removedAt, dedup, starred, removed, labels, scenario, retired>>,
         unread' \subseteq unread, raced \subseteq raced'
  PROVE  TxOK(t)'
<1>1. t.op \in Members /\ t.st # "dead" => MemberOK(t)' /\ CatOK(t)'
  BY MemberMono, CatMono DEF TxOK
<1>2. t.op = "poll" => t.st \in {"fetched", "insert", "after"} /\ PollTxOK(t)'
  BY PollMono DEF TxOK
<1>3. t.op = "mark" /\ t.st # "dead" => MarkOK(t)'
  BY MarkMono DEF TxOK
<1>4. t.op = "star" /\ t.st # "dead" => StarOK(t)'
  BY StarMono DEF TxOK
<1>5. t.op = "remove" /\ t.st # "dead" => RemoveOK(t)'
  BY RemoveMono DEF TxOK
<1>6. t.op = "strip" /\ t.st # "dead" => StripOK(t)'
  BY StripMono DEF TxOK
<1>7. t.op = "collapse" => CollapseOK(t)'
  BY CollapseMono DEF TxOK
<1>8. t.op = "purge" => PurgeOK(t)'
  BY PurgeMono DEF TxOK
<1> QED BY <1>1, <1>2, <1>3, <1>4, <1>5, <1>6, <1>7, <1>8 DEF TxOK

\* From the value of a transaction to the transaction of a connection.
LEMMA Lift ==
  ASSUME NEW q, NEW t, tx'[q] = t, TxOK(t)'
  PROVE  TxOK(tx[q])'
BY DEF TxOK, MemberOK, CatOK, PollTxOK, MarkOK, StarOK, RemoveOK, StripOK, LeaveOK, CollapseOK, PurgeOK

-----------------------------------------------------------------------------
(* Changes of membership.                                                  *)

Pairwise(t) == \A x \in t.subsAdd \cup t.subsDel : x = <<x[1], x[2]>> /\ x[1] \in Users /\ x[2] \in Feeds /\ x[1] \in t.who /\ x[2] \in t.feeds

LEMMA PairwiseOK == ASSUME NEW t \in TxType, MemberOK(t) PROVE Pairwise(t)
<1>1. t.subsAdd \cup t.subsDel \subseteq t.who \X t.feeds /\ t.who \subseteq Users /\ t.feeds \subseteq Feeds
  BY DEF TxType, MemberOK
<1> QED BY <1>1 DEF Pairwise

\* The rows of the tables.
LEMMA KeyType ==
  ASSUME TypeOK
  PROVE  \A r \in unread \cup starred \cup removed \cup labels :
           r = <<r[1], r[2]>> /\ r[1] \in Users /\ r[2] \in entries /\ r[2] \in Items /\ FeedOf[r[2]] \in Feeds
<1>1. unread \cup starred \cup removed \cup labels \subseteq Users \X entries /\ entries \subseteq Items
  BY DEF TypeOK
<1> QED BY <1>1, StoreAssumption

LEMMA PlanType ==
  ASSUME NEW t \in TxType
  PROVE  /\ \A r \in t.unreadAdd \cup t.unreadDel \cup t.excDel \cup t.labelDel \cup t.todo :
              r = <<r[1], r[2]>> /\ r[1] \in Users /\ r[2] \in Items /\ FeedOf[r[2]] \in Feeds
         /\ t.who \subseteq Users /\ t.feeds \subseteq Feeds /\ t.items \subseteq Items /\ t.hashes \subseteq Items
<1>1. t.unreadAdd \cup t.unreadDel \cup t.excDel \cup t.labelDel \cup t.todo \subseteq Users \X Items
  BY DEF TxType, Keys
<1>2. t.who \subseteq Users /\ t.feeds \subseteq Feeds /\ t.items \subseteq Items /\ t.hashes \subseteq Items
  BY DEF TxType
<1> QED BY <1>1, <1>2, StoreAssumption

MemberTables(s) ==
  /\ subs' = (subs \cup s.subsAdd) \ s.subsDel
  /\ follows' = CASE s.op = "follow" -> follows \cup (s.who \X {s.cat})
                  [] s.op = "unfollow" -> follows \ (s.who \X {s.cat})
                  [] OTHER -> follows
  /\ cat' = IF s.op = "move" THEN [f \in Feeds |-> IF f \in s.feeds THEN s.cat ELSE cat[f]] ELSE cat
  /\ unread' = (unread \ s.unreadDel) \cup s.unreadAdd
  /\ starred' = starred \ s.excDel /\ removed' = removed \ s.excDel
  /\ labels' = labels \ s.labelDel
  /\ raced \subseteq raced'
  /\ UNCHANGED <<entries, removedAt, dedup, retired, scenario>>

LEMMA MembershipOthers ==
  ASSUME Tables, NEW s \in TxType, s.op \in Members, s.st # "dead", TxOK(s), MemberTables(s),
         NEW t \in TxType, TxOK(t), ~Locked(s, t), Met(s, t) \subseteq raced'
  PROVE  TxOK(t)'
<1>1. MemberOK(s) /\ CatOK(s) /\ Pairwise(s) /\ s.st # "fetched"
  BY PairwiseOK DEF TxOK, Members
<1>2. /\ subs' = (subs \cup s.subsAdd) \ s.subsDel /\ raced \subseteq raced'
      /\ unread' = (unread \ s.unreadDel) \cup s.unreadAdd
      /\ starred' = starred \ s.excDel /\ removed' = removed \ s.excDel /\ labels' = labels \ s.labelDel
      /\ entries' = entries /\ removedAt' = removedAt /\ dedup' = dedup /\ retired' = retired /\ scenario' = scenario
  BY DEF MemberTables
<1>3. ASSUME NEW u \in s.who, NEW f \in s.feeds, u \in t.who, f \in t.feeds, Unordered(s.op, t.op), t.st # "fetched" PROVE <<u, f>> \in raced'
  BY <1>1, <1>3, MetPair
\* Pairs the step takes away or brings, if t is unordered with it.
<1>4. ASSUME NEW u \in t.who, NEW f \in t.feeds, t.op \in {"poll", "mark", "star", "remove"}, t.st # "fetched",
             <<u, f>> \in subs, <<u, f>> \notin subs'
      PROVE  <<u, f>> \in raced'
  <2>1. <<u, f>> \in s.subsDel /\ u \in s.who /\ f \in s.feeds
    BY <1>1, <1>2, <1>4 DEF Pairwise
  <2>2. s.op \in {"unsubscribe", "unfollow", "move"}
    BY <1>1, <2>1 DEF CatOK, Members
  <2>3. Unordered(s.op, t.op)
    BY <1>4, <2>2, UnorderedPairs
  <2> QED BY <1>3, <1>4, <2>1, <2>3
<1>5. ASSUME NEW u \in t.who, NEW f \in t.feeds, t.op \in {"strip", "remove", "purge"}, t.st # "fetched", <<u, f>> \in s.subsAdd
      PROVE  <<u, f>> \in raced'
  <2>1. u \in s.who /\ f \in s.feeds
    BY <1>1, <1>5 DEF Pairwise
  <2>2. s.op \in {"subscribe", "follow", "move"}
    BY <1>1, <1>5 DEF CatOK, Members
  <2>3. Unordered(s.op, t.op)
    BY <1>5, <2>2, UnorderedPairs
  <2> QED BY <1>3, <1>5, <2>1, <2>3
<1>6. t.st = "fetched" => t.op = "poll"
  BY DEF TxOK
<1>7. \A r \in s.unreadAdd : Pair(r) \in s.subsAdd
  BY <1>1 DEF MemberOK
<1>8. ASSUME t.op \in Members, t.st # "dead" PROVE MemberOK(t)'
  <2>1. MemberOK(t) /\ s.subsAdd \cap t.subsAdd = {} /\ s.subsAdd \cap t.subsDel = {}
    BY <1>8 DEF TxOK, Locked
  <2>2. t.subsAdd \cap subs' = {}
    BY <1>2, <2>1 DEF MemberOK
  <2>3. \A r \in unread' : Pair(r) \in t.subsDel => r \in t.unreadDel \/ Pair(r) \in raced'
    BY <1>2, <1>7, <2>1 DEF MemberOK
  <2> QED BY <1>2, <2>1, <2>2, <2>3 DEF MemberOK, Hidden, Pair
<1>9. ASSUME t.op \in Members, t.st # "dead" PROVE CatOK(t)'
  <2>1. CatOK(t) /\ Pairwise(t) /\ t.st # "fetched"
    BY <1>9, PairwiseOK DEF TxOK, Members
  <2>2. follows' \subseteq follows \/ (s.op = "follow" /\ follows' = follows \cup (s.who \X {s.cat}))
    BY DEF MemberTables
  <2>3. cat' = cat \/ (s.op = "move" /\ cat' = [f \in Feeds |-> IF f \in s.feeds THEN s.cat ELSE cat[f]])
    BY DEF MemberTables
  <2>4. cat \in [Feeds -> Cats \cup {NoCat}] /\ follows \subseteq Users \X Cats /\ \A f \in Feeds : cat'[f] # cat[f] => s.op = "move" /\ f \in s.feeds
    BY <2>3 DEF Tables, RowsInStep, TypeOK
  <2>5. ASSUME t.op = "unsubscribe", NEW x \in t.subsDel PROVE <<x[1], cat'[x[2]]>> \notin follows' \/ x \in raced'
    <3>1. x = <<x[1], x[2]>> /\ x[1] \in t.who /\ x[2] \in t.feeds /\ x[2] \in Feeds /\ x[1] \in Users
      BY <2>1 DEF Pairwise
    <3>2. CASE cat'[x[2]] # cat[x[2]]
      <4>1. s.op = "move" /\ x[2] \in s.feeds /\ x[1] \in s.who
        BY <1>1, <2>4, <3>1, <3>2 DEF CatOK
      <4> QED BY <1>3, <2>1, <2>5, <3>1, <4>1, UnorderedPairs
    <3>3. CASE <<x[1], cat[x[2]]>> \in follows' \ follows
      <4>1. s.op = "follow" /\ x[2] \in s.feeds /\ x[1] \in s.who
        BY <1>1, <2>2, <3>1, <3>3 DEF CatOK
      <4> QED BY <1>3, <2>1, <2>5, <3>1, <4>1, UnorderedPairs
    <3> QED BY <1>2, <2>1, <2>5, <3>2, <3>3 DEF CatOK
  <2>6. ASSUME t.op = "follow", NEW u \in t.who, NEW f \in Feeds, cat'[f] = t.cat PROVE <<u, f>> \in subs' \cup t.subsAdd \cup raced'
    <3>1. t.feeds = Feeds /\ t.who = {u} /\ u \in Users
      BY <2>1, <2>6 DEF CatOK
    <3>2. CASE cat'[f] # cat[f]
      <4>1. s.op = "move" /\ f \in s.feeds /\ u \in s.who
        BY <1>1, <2>4, <3>1, <3>2 DEF CatOK
      <4> QED BY <1>3, <2>1, <2>6, <3>1, <4>1, UnorderedPairs
    <3>3. CASE <<u, f>> \in s.subsDel /\ cat'[f] = cat[f]
      <4>1. u \in s.who /\ f \in s.feeds /\ s.op \in {"unsubscribe", "unfollow", "move"}
        BY <1>1, <3>3 DEF Pairwise, CatOK, Members
      <4>2. CASE s.op = "unfollow"
        <5>1. s.who = {u} /\ s.cat # t.cat
          BY <1>1, <2>6, <3>1, <4>1, <4>2 DEF CatOK, Locked
        <5>2. cat[f] = s.cat \/ <<u, f>> \in raced
          BY <1>1, <3>3, <4>2 DEF CatOK
        <5> QED BY <1>2, <2>6, <3>3, <5>1, <5>2
      <4>3. CASE s.op # "unfollow"
        BY <1>3, <2>1, <2>6, <3>1, <4>1, <4>3, UnorderedPairs
      <4> QED BY <4>2, <4>3
    <3>4. CASE <<u, f>> \notin s.subsDel /\ cat'[f] = cat[f]
      BY <1>2, <2>1, <2>6, <3>4 DEF CatOK
    <3> QED BY <3>2, <3>3, <3>4
  <2>7. ASSUME t.op = "unfollow", NEW x \in t.subsDel PROVE cat'[x[2]] = t.cat \/ x \in raced'
    <3>1. x = <<x[1], x[2]>> /\ x[1] \in t.who /\ x[2] \in t.feeds /\ x[2] \in Feeds /\ x[1] \in Users
      BY <2>1 DEF Pairwise
    <3>2. CASE cat'[x[2]] # cat[x[2]]
      <4>1. s.op = "move" /\ x[2] \in s.feeds /\ x[1] \in s.who
        BY <1>1, <2>4, <3>1, <3>2 DEF CatOK
      <4> QED BY <1>3, <2>1, <2>7, <3>1, <4>1, UnorderedPairs
    <3> QED BY <1>2, <2>1, <2>7, <3>2 DEF CatOK
  <2>8. ASSUME t.op = "move", NEW u \in Users, NEW f \in t.feeds, <<u, t.cat>> \in follows'
        PROVE  <<u, f>> \in ((subs' \cup t.subsAdd) \ t.subsDel) \cup raced'
    <3>1. t.feeds = {f} /\ u \in t.who /\ f \in Feeds
      BY <2>1, <2>8 DEF CatOK
    <3>2. CASE <<u, t.cat>> \notin follows
      <4>1. s.op = "follow" /\ f \in s.feeds /\ u \in s.who
        BY <1>1, <2>2, <2>8, <3>1, <3>2 DEF CatOK
      <4> QED BY <1>3, <2>1, <2>8, <3>1, <4>1, UnorderedPairs
    <3>3. CASE <<u, f>> \in s.subsDel
      <4>1. u \in s.who /\ f \in s.feeds /\ s.op \in {"unsubscribe", "unfollow", "move"}
        BY <1>1, <3>3 DEF Pairwise, CatOK, Members
      <4>2. s.op # "move"
        BY <1>1, <2>8, <3>1, <4>1 DEF CatOK, Locked
      <4> QED BY <1>3, <2>1, <2>8, <3>1, <4>1, <4>2, UnorderedPairs
    <3>4. CASE <<u, t.cat>> \in follows /\ <<u, f>> \notin s.subsDel
      BY <1>2, <2>1, <2>8, <3>4 DEF CatOK
    <3> QED BY <3>2, <3>3, <3>4
  <2> QED BY <2>1, <2>5, <2>6, <2>7, <2>8 DEF CatOK
<1>10. ASSUME t.op = "poll" PROVE PollTxOK(t)'
  <2>1. PollTxOK(t)
    BY <1>10 DEF TxOK
  <2>2. ASSUME t.st = "insert", NEW r \in t.unreadAdd PROVE Pair(r) \in subs' \cup raced'
    <3>1. r[1] \in t.who /\ FeedOf[r[2]] \in t.feeds /\ Pair(r) \in subs \cup raced
      BY <2>1, <2>2, PlanType DEF PollTxOK, Of
    <3> QED BY <1>2, <1>4, <1>10, <2>2, <3>1 DEF Pair
  <2>3. ASSUME t.st = "after", NEW r \in t.todo PROVE Pair(r) \in subs' \cup raced'
    <3>1. r[1] \in t.who /\ FeedOf[r[2]] \in t.feeds /\ Pair(r) \in subs \cup raced
      BY <2>1, <2>3, PlanType DEF PollTxOK
    <3> QED BY <1>2, <1>4, <1>10, <2>3, <3>1 DEF Pair
  <2> QED BY <1>2, <2>1, <2>2, <2>3 DEF PollTxOK, Pair, Retired, Mode, Of
<1>11. ASSUME t.op = "mark", t.st # "dead" PROVE MarkOK(t)'
  <2>1. MarkOK(t)
    BY <1>11 DEF TxOK
  <2>2. ASSUME NEW r \in t.unreadAdd PROVE Pair(r) \in subs' \cup raced'
    BY <1>2, <1>4, <1>6, <1>11, <2>1 DEF Pair, MarkOK
  <2> QED BY <1>2, <2>1, <2>2 DEF MarkOK, Pair, Hidden
<1>12. ASSUME t.op = "star", t.st # "dead" PROVE StarOK(t)'
  BY <1>2, <1>4, <1>6, <1>12 DEF StarOK, TxOK
<1>13. ASSUME t.op = "remove", t.st # "dead" PROVE RemoveOK(t)'
  <2>1. RemoveOK(t)
    BY <1>13 DEF TxOK
  <2>2. ASSUME NEW u \in t.who, NEW i \in t.items PROVE <<u, FeedOf[i]>> \in subs' \cup raced'
    BY <1>2, <1>4, <1>6, <1>13, <2>1 DEF RemoveOK
  <2>3. ASSUME NEW u \in t.who, NEW i \in t.items, <<u, i>> \in unread' PROVE <<u, i>> \in t.unreadDel \/ <<u, FeedOf[i]>> \in raced'
    <3>1. CASE <<u, i>> \in unread
      BY <1>2, <2>1, <3>1 DEF RemoveOK
    <3>2. CASE <<u, i>> \in s.unreadAdd
      <4>1. <<u, FeedOf[i]>> \in s.subsAdd /\ FeedOf[i] \in t.feeds
        BY <1>7, <2>1, <3>2 DEF Pair, RemoveOK
      <4> QED BY <1>5, <1>6, <1>13, <4>1
    <3> QED BY <1>2, <2>3, <3>1, <3>2
  <2> QED BY <1>2, <2>1, <2>2, <2>3 DEF RemoveOK
<1>14. ASSUME t.op = "strip", t.st # "dead" PROVE StripOK(t)'
  <2>1. StripOK(t)
    BY <1>14 DEF TxOK
  <2>2. ASSUME NEW r \in unread', r[2] \in t.items PROVE r \in t.unreadDel \/ Pair(r) \in raced'
    <3>1. CASE r \in unread
      BY <1>2, <2>1, <2>2, <3>1 DEF StripOK
    <3>2. CASE r \in s.unreadAdd
      <4>1. Pair(r) \in s.subsAdd /\ FeedOf[r[2]] \in t.feeds /\ r[1] \in t.who
        BY <1>7, <2>1, <2>2, <3>2, PlanType DEF Pair, StripOK
      <4> QED BY <1>5, <1>6, <1>14, <4>1 DEF Pair
    <3> QED BY <1>2, <2>2, <3>1, <3>2
  <2> QED BY <1>2, <2>1, <2>2 DEF StripOK, Pair
<1>15. ASSUME t.op = "collapse" PROVE CollapseOK(t)'
  BY <1>2, <1>15, CollapseMono DEF TxOK
<1>16. ASSUME t.op = "purge" PROVE PurgeOK(t)'
  <2>1. PurgeOK(t) /\ LeaveOK(t) /\ t.who = Users
    BY <1>16 DEF TxOK, PurgeOK, LeaveOK
  <2>2. ASSUME t.st \in {"removed", "stripped"}, NEW u \in Users, NEW i \in t.items
        PROVE  <<u, FeedOf[i]>> \in raced' \/ <<u, FeedOf[i]>> \notin subs' \/ Hidden(<<u, i>>)'
    <3>1. FeedOf[i] \in t.feeds
      BY <2>1 DEF LeaveOK
    <3>2. CASE <<u, FeedOf[i]>> \in raced
      BY <1>2, <3>2
    <3>3. CASE <<u, FeedOf[i]>> \notin subs
      <4>1. <<u, FeedOf[i]>> \in s.subsAdd => <<u, FeedOf[i]>> \in raced'
        BY <1>5, <1>6, <1>16, <2>1, <3>1
      <4> QED BY <1>2, <3>3, <4>1
    <3>4. CASE Hidden(<<u, i>>)
      <4>1. CASE <<u, i>> \in s.excDel
        <5>1. <<u, FeedOf[i]>> \in s.subsDel \cup raced
          BY <1>1, <4>1 DEF MemberOK, Pair
        <5> QED BY <1>2, <5>1
      <4>2. CASE <<u, i>> \notin s.excDel
        BY <1>2, <3>4, <4>2 DEF Hidden
      <4> QED BY <4>1, <4>2
    <3> QED BY <2>1, <2>2, <3>2, <3>3, <3>4 DEF PurgeOK
  <2>3. LeaveOK(t)'
    BY <1>2, <2>1 DEF LeaveOK, Pair
  <2> QED BY <2>1, <2>2, <2>3 DEF PurgeOK
<1> QED BY <1>6, <1>8, <1>9, <1>10, <1>11, <1>12, <1>13, <1>14, <1>15, <1>16 DEF TxOK

LEMMA MembershipTables ==
  ASSUME Tables, NEW s \in TxType, s.op \in Members, s.st # "dead", TxOK(s), MemberTables(s), raced' \subseteq Users \X Feeds
  PROVE  Tables'
<1>1. MemberOK(s) /\ CatOK(s) /\ Pairwise(s)
  BY PairwiseOK DEF TxOK, Members
<1>2. /\ subs' = (subs \cup s.subsAdd) \ s.subsDel /\ raced \subseteq raced'
      /\ unread' = (unread \ s.unreadDel) \cup s.unreadAdd
      /\ starred' = starred \ s.excDel /\ removed' = removed \ s.excDel /\ labels' = labels \ s.labelDel
      /\ entries' = entries /\ removedAt' = removedAt /\ dedup' = dedup /\ retired' = retired /\ scenario' = scenario
  BY DEF MemberTables
<1>3. TypeOK /\ StateOnlyForReaders /\ UnreadIsShown /\ FollowersSubscribed /\ StarShown
  BY DEF Tables, RowsInStep
<1>4. follows' = follows \/ (s.op = "follow" /\ follows' = follows \cup (s.who \X {s.cat})) \/ (s.op = "unfollow" /\ follows' = follows \ (s.who \X {s.cat}))
  BY DEF MemberTables
<1>5. (s.op # "move" /\ cat' = cat) \/ (s.op = "move" /\ cat' = [f \in Feeds |-> IF f \in s.feeds THEN s.cat ELSE cat[f]])
  BY DEF MemberTables
<1>6. TypeOK'
  <2>1. subs' \subseteq Users \X Feeds
    BY <1>2, <1>3 DEF TypeOK, TxType, Pairs
  <2>2. follows' \subseteq Users \X Cats
    <3>1. s.op = "follow" => s.who \X {s.cat} \subseteq Users \X Cats
      BY <1>1, PlanType DEF CatOK
    <3> QED BY <1>3, <1>4, <3>1 DEF TypeOK
  <2>3. cat' \in [Feeds -> Cats \cup {NoCat}]
    BY <1>3, <1>5 DEF TypeOK, TxType
  <2>4. s.unreadAdd \subseteq Users \X entries
    BY <1>1, PlanType DEF MemberOK
  <2> QED BY <1>2, <1>3, <2>1, <2>2, <2>3, <2>4 DEF TypeOK
<1>7. StateOnlyForReaders'
  <2>1. ASSUME NEW r \in s.unreadAdd PROVE Pair(r) \in subs'
    BY <1>1, <1>2 DEF MemberOK
  <2>2. ASSUME NEW r \in unread, r \notin s.unreadDel PROVE Pair(r) \in subs' \cup raced'
    BY <1>1, <1>2, <1>3, <2>2 DEF MemberOK, StateOnlyForReaders, Pair
  <2>3. ASSUME NEW r \in starred \cup removed, r \notin s.excDel PROVE Pair(r) \in subs' \cup raced'
    BY <1>1, <1>2, <1>3, <2>3 DEF MemberOK, StateOnlyForReaders, Pair
  <2>4. ASSUME NEW r \in labels, r \notin s.labelDel PROVE Pair(r) \in subs' \cup raced'
    BY <1>1, <1>2, <1>3, <2>4 DEF MemberOK, StateOnlyForReaders, Pair
  <2> QED BY <1>2, <2>1, <2>2, <2>3, <2>4 DEF StateOnlyForReaders, Pair
<1>8. UnreadIsShown'
  <2>1. ASSUME NEW r \in s.unreadAdd PROVE (r[2] \notin removedAt' /\ r \notin removed') \/ Pair(r) \in raced'
    BY <1>1, <1>2 DEF MemberOK, Hidden
  <2>2. ASSUME NEW r \in unread PROVE (r[2] \notin removedAt' /\ r \notin removed') \/ Pair(r) \in raced'
    BY <1>2, <1>3 DEF UnreadIsShown, Pair
  <2> QED BY <1>2, <2>1, <2>2 DEF UnreadIsShown, Pair
<1>9. StarShown'
  BY <1>2, <1>3 DEF StarShown, Pair
<1>10. FollowersSubscribed'
  <2>1. SUFFICES ASSUME NEW u \in Users, NEW f \in Feeds, <<u, cat'[f]>> \in follows', <<u, f>> \notin raced' PROVE <<u, f>> \in subs'
    BY DEF FollowersSubscribed
  <2>2. <<u, cat[f]>> \in follows => <<u, f>> \in subs
    BY <1>2, <1>3, <2>1 DEF FollowersSubscribed
  <2>3. <<u, f>> \notin raced
    BY <1>2, <2>1
  <2>4. CASE s.op = "subscribe"
    BY <1>1, <1>2, <1>4, <1>5, <2>1, <2>2, <2>4 DEF CatOK
  <2>5. CASE s.op = "unsubscribe"
    <3>1. follows' = follows /\ cat' = cat
      BY <1>4, <1>5, <2>5
    <3>2. <<u, f>> \notin s.subsDel
      BY <1>1, <2>1, <2>3, <2>5, <3>1 DEF CatOK
    <3> QED BY <1>2, <2>1, <2>2, <3>1, <3>2
  <2>6. CASE s.op = "follow"
    <3>1. cat' = cat /\ follows' = follows \cup (s.who \X {s.cat}) /\ s.subsDel = {}
      BY <1>1, <1>4, <1>5, <2>6 DEF CatOK, MemberTables
    <3>2. CASE <<u, cat[f]>> \in follows
      BY <1>2, <2>2, <3>1, <3>2
    <3>3. CASE u \in s.who /\ cat[f] = s.cat
      BY <1>1, <1>2, <2>3, <2>6, <3>1, <3>3 DEF CatOK
    <3> QED BY <2>1, <3>1, <3>2, <3>3
  <2>7. CASE s.op = "unfollow"
    <3>1. cat' = cat /\ follows' = follows \ (s.who \X {s.cat})
      BY <1>5, <2>7 DEF MemberTables
    <3>2. <<u, f>> \notin s.subsDel
      <4>1. SUFFICES ASSUME <<u, f>> \in s.subsDel PROVE FALSE
        OBVIOUS
      <4>2. cat[f] = s.cat /\ u \in s.who
        BY <1>1, <2>3, <2>7, <4>1 DEF CatOK, Pairwise
      <4> QED BY <2>1, <3>1, <4>2
    <3> QED BY <1>2, <2>1, <2>2, <3>1, <3>2
  <2>8. CASE s.op = "move"
    <3>1. follows' = follows /\ cat' = [g \in Feeds |-> IF g \in s.feeds THEN s.cat ELSE cat[g]]
      BY <1>4, <1>5, <2>8
    <3>2. CASE f \in s.feeds
      <4>1. <<u, s.cat>> \in follows
        BY <2>1, <3>1, <3>2
      <4> QED BY <1>1, <1>2, <2>3, <2>8, <3>2, <4>1 DEF CatOK
    <3>3. CASE f \notin s.feeds
      <4>1. <<u, f>> \in subs /\ <<u, f>> \notin s.subsDel
        BY <1>1, <2>1, <2>2, <3>1, <3>3 DEF Pairwise
      <4> QED BY <1>2, <4>1
    <3> QED BY <3>2, <3>3
  <2> QED BY <2>4, <2>5, <2>6, <2>7, <2>8 DEF Members
<1> QED BY <1>2, <1>6, <1>7, <1>8, <1>9, <1>10 DEF Tables, RowsInStep

\* The transactions after a commit of p: p is idle, the others go on.
LEMMA IdleOK == Idle \in TxType /\ TxOK(Idle) /\ \A t : ~Locked(Idle, t) /\ ~Locked(t, Idle)
<1>1. Idle \in TxType
  BY DEF Idle, TxType, Members
<1>2. TxOK(Idle)
  BY DEF Idle, TxOK, Members
<1>3. Idle.op = "idle" /\ Idle.subsAdd \cup Idle.subsDel = {}
  BY DEF Idle
<1>4. \A t : ~Locked(Idle, t)
  BY <1>3 DEF Locked
<1> QED BY <1>1, <1>2, <1>4, LockedSym

LEMMA RacedType ==
  ASSUME TypeOK, NEW p \in Conns, Meets(p), tx \in [Conns -> TxType]
  PROVE  raced' \subseteq Users \X Feeds
<1>1. \A q \in Conns : Met(tx[p], tx[q]) \subseteq tx[p].who \X tx[p].feeds
  BY DEF Met
<1>2. tx[p].who \subseteq Users /\ tx[p].feeds \subseteq Feeds
  BY DEF TxType
<1> QED BY <1>1, <1>2 DEF Meets, TypeOK

LEMMA EndTx ==
  ASSUME SInv, NEW p \in Conns, End(p), \A q \in Conns \ {p} : \A t : t = tx[q] => TxOK(t)'
  PROVE  tx' \in [Conns -> TxType] /\ Unlocked' /\ \A q \in Conns : TxOK(tx[q])'
<1>1. tx \in [Conns -> TxType] /\ tx' = [tx EXCEPT ![p] = Idle]
  BY DEF SInv, End
<1>2. tx' \in [Conns -> TxType]
  BY <1>1, IdleOK
<1>3. Unlocked'
  <2>1. ASSUME NEW q \in Conns, NEW r \in Conns, q # r PROVE ~Locked(tx'[q], tx'[r])
    BY <1>1, <2>1, IdleOK DEF SInv, Unlocked
  <2> QED BY <2>1 DEF Unlocked, Locked
<1>4. ASSUME NEW q \in Conns PROVE TxOK(tx[q])'
  <2>1. CASE q = p
    <3>1. tx'[q] = Idle
      BY <1>1, <2>1
    <3> QED BY <3>1 DEF Idle, TxOK, Members
  <2>2. CASE q # p
    <3>1. PICK t : t = tx[q]
      OBVIOUS
    <3>2. tx'[q] = t /\ TxOK(t)'
      BY <1>1, <2>2, <3>1
    <3> QED BY <3>2, Lift
  <2> QED BY <2>1, <2>2
<1> QED BY <1>2, <1>3, <1>4

LEMMA CommitMembershipOK == ASSUME SInv, NEW p \in Conns, CommitMembership(p) PROVE SInv'
<1>1. PICK s : s = tx[p]
  OBVIOUS
<1>2. s \in TxType /\ s.op \in Members /\ s.st # "dead" /\ TxOK(s) /\ MemberTables(s) /\ Meets(p) /\ End(p)
  <2>1. s \in TxType /\ TxOK(s)
    BY <1>1 DEF SInv
  <2>2. Meets(p) /\ raced \subseteq raced' /\ scenario' = scenario
    BY MeetsAll DEF CommitMembership, End
  <2> QED BY <1>1, <2>1, <2>2 DEF CommitMembership, MemberTables, Members, End
<1>3. Tables /\ TypeOK
  BY DEF SInv, Tables, RowsInStep
<1>4. Tables'
  BY <1>2, <1>3, RacedType, MembershipTables DEF SInv
<1>5. ASSUME NEW q \in Conns \ {p}, NEW t, t = tx[q] PROVE TxOK(t)'
  <2>1. t \in TxType /\ TxOK(t) /\ ~Locked(s, t) /\ Met(s, t) \subseteq raced'
    BY <1>1, <1>2, <1>5, MeetsAll DEF SInv, Unlocked
  <2> QED BY <1>2, <1>3, <2>1, MembershipOthers
<1> QED BY <1>2, <1>4, <1>5, EndTx DEF SInv

-----------------------------------------------------------------------------
(* The reader's own operations, and stripped entries.                      *)

\* A commit: the tables are right and the other plans still fit.
LEMMA CommitTx ==
  ASSUME SInv, NEW p \in Conns, NEW s, s = tx[p], End(p), Tables',
         \A t \in TxType : TxOK(t) /\ ~Locked(s, t) /\ Met(s, t) \subseteq raced' => TxOK(t)'
  PROVE  SInv'
<1>1. ASSUME NEW q \in Conns \ {p}, NEW t, t = tx[q] PROVE TxOK(t)'
  BY <1>1, MeetsAll DEF SInv, Unlocked, End
<1> QED BY <1>1, EndTx DEF SInv

LEMMA PlanOK ==
  ASSUME SInv, NEW p \in Conns, NEW s, s = tx[p]
  PROVE  s \in TxType /\ TxOK(s) /\ TypeOK /\ StateOnlyForReaders /\ UnreadIsShown /\ FollowersSubscribed /\ StarShown /\ scenario \in Scenarios
BY DEF SInv, Tables, RowsInStep

\* The pairs a plan deletes belong to an operation that others race with.
LEMMA Leaving ==
  ASSUME NEW t \in TxType, t.op \in Members, t.st # "dead", TxOK(t)
  PROVE  /\ MemberOK(t) /\ CatOK(t) /\ Pairwise(t) /\ t.st # "fetched"
         /\ \A x \in t.subsDel : t.op \in {"unsubscribe", "unfollow", "move"}
         /\ \A x \in t.subsAdd : t.op \in {"subscribe", "follow", "move"}
<1>1. MemberOK(t) /\ CatOK(t) /\ Pairwise(t) /\ t.st # "fetched"
  BY PairwiseOK DEF TxOK, Members
<1> QED BY <1>1 DEF CatOK, Members

LEMMA CommitMarkOK == ASSUME SInv, NEW p \in Conns, CommitMark(p) PROVE SInv'
<1>1. PICK s : s = tx[p]
  OBVIOUS
<1>2. s \in TxType /\ TxOK(s) /\ TypeOK /\ StateOnlyForReaders /\ UnreadIsShown /\ FollowersSubscribed /\ StarShown /\ scenario \in Scenarios
  BY <1>1, PlanOK
<1>3. /\ s.op = "mark" /\ s.st # "dead" /\ End(p) /\ unread' = unread \cup s.unreadAdd /\ raced \subseteq raced' /\ raced' \subseteq Users \X Feeds
      /\ UNCHANGED <<subs, follows, cat, entries, removedAt, dedup, starred, removed, labels, retired, scenario>>
  BY <1>1, <1>2, RacedType, MeetsAll DEF CommitMark, End, SInv
<1>4. MarkOK(s) /\ s.st # "fetched"
  BY <1>2, <1>3 DEF TxOK
<1>5. Tables'
  <2>1. s.unreadAdd \subseteq Users \X entries
    BY <1>2, <1>4, PlanType DEF MarkOK
  <2>2. TypeOK'
    BY <1>2, <1>3, <2>1 DEF TypeOK
  <2>3. StateOnlyForReaders' /\ UnreadIsShown'
    BY <1>2, <1>3, <1>4 DEF StateOnlyForReaders, UnreadIsShown, MarkOK, Pair, Hidden
  <2>4. FollowersSubscribed' /\ StarShown'
    BY <1>2, <1>3 DEF FollowersSubscribed, StarShown, Pair
  <2> QED BY <1>2, <1>3, <2>2, <2>3, <2>4 DEF Tables, RowsInStep
<1>6. ASSUME NEW t \in TxType, TxOK(t), Met(s, t) \subseteq raced' PROVE TxOK(t)'
  <2>0. ASSUME NEW r \in s.unreadAdd, r[1] \in t.who, FeedOf[r[2]] \in t.feeds, Unordered("mark", t.op), t.st # "fetched" PROVE Pair(r) \in raced'
    BY <1>3, <1>4, <1>6, <2>0, MetPair DEF MarkOK, Pair
  <2>1. ASSUME t.op \in Members, t.st # "dead" PROVE MemberOK(t)' /\ CatOK(t)'
    <3>1. MemberOK(t) /\ CatOK(t) /\ Pairwise(t) /\ t.st # "fetched" /\ \A x \in t.subsDel : t.op \in {"unsubscribe", "unfollow", "move"}
      BY <1>6, <2>1, Leaving
    <3>2. ASSUME NEW r \in s.unreadAdd, Pair(r) \in t.subsDel PROVE Pair(r) \in raced'
      BY <2>0, <3>1, <3>2, UnorderedPairs DEF Pairwise, Pair
    <3>3. MemberOK(t)'
      BY <1>3, <3>1, <3>2 DEF MemberOK, Hidden, Pair
    <3> QED BY <1>3, <3>1, <3>3, CatMono
  <2>2. ASSUME t.op = "remove", t.st # "dead" PROVE RemoveOK(t)'
    <3>1. RemoveOK(t) /\ t.st # "fetched"
      BY <1>6, <2>2 DEF TxOK
    <3>2. ASSUME NEW u \in t.who, NEW i \in t.items, <<u, i>> \in s.unreadAdd PROVE <<u, FeedOf[i]>> \in raced'
      BY <2>0, <2>2, <3>1, <3>2, UnorderedPairs DEF Pair, RemoveOK
    <3> QED BY <1>3, <3>1, <3>2 DEF RemoveOK
  <2>3. ASSUME t.op = "strip", t.st # "dead" PROVE StripOK(t)'
    <3>1. StripOK(t) /\ t.st # "fetched"
      BY <1>6, <2>3 DEF TxOK
    <3>2. ASSUME NEW r \in s.unreadAdd, r[2] \in t.items PROVE Pair(r) \in raced'
      <4>1. r[1] \in t.who /\ FeedOf[r[2]] \in t.feeds
        BY <1>2, <3>1, <3>2, PlanType DEF StripOK
      <4> QED BY <2>0, <2>3, <3>1, <4>1, UnorderedPairs
    <3> QED BY <1>3, <3>1, <3>2 DEF StripOK, Pair
  <2>4. t.op = "poll" => PollTxOK(t)'
    BY <1>3, <1>6, PollMono DEF TxOK
  <2>5. t.op = "mark" /\ t.st # "dead" => MarkOK(t)'
    BY <1>3, <1>6, MarkMono DEF TxOK
  <2>6. t.op = "star" /\ t.st # "dead" => StarOK(t)'
    BY <1>3, <1>6, StarMono DEF TxOK
  <2>7. (t.op = "collapse" => CollapseOK(t)') /\ (t.op = "purge" => PurgeOK(t)')
    BY <1>3, <1>6, CollapseMono, PurgeMono DEF TxOK
  <2> QED BY <1>6, <2>1, <2>2, <2>3, <2>4, <2>5, <2>6, <2>7 DEF TxOK
<1> QED BY <1>1, <1>3, <1>5, <1>6, CommitTx

LEMMA CommitStarOK == ASSUME SInv, NEW p \in Conns, CommitStar(p) PROVE SInv'
<1>1. PICK s : s = tx[p]
  OBVIOUS
<1>2. s \in TxType /\ TxOK(s) /\ TypeOK /\ StateOnlyForReaders /\ UnreadIsShown /\ FollowersSubscribed /\ StarShown /\ scenario \in Scenarios
  BY <1>1, PlanOK
<1>3. /\ s.op = "star" /\ s.st # "dead" /\ End(p) /\ starred' = starred \cup ((s.who \X s.items) \ removed)
      /\ raced \subseteq raced' /\ raced' \subseteq Users \X Feeds
      /\ UNCHANGED <<subs, follows, cat, entries, removedAt, dedup, unread, removed, labels, retired, scenario>>
  BY <1>1, <1>2, RacedType, MeetsAll DEF CommitStar, End, SInv
<1>4. StarOK(s) /\ s.st # "fetched"
  BY <1>2, <1>3 DEF TxOK
<1>r. \A r \in s.who \X s.items : r = <<r[1], r[2]>> /\ r[1] \in s.who /\ r[2] \in s.items
  OBVIOUS
<1>n. \A r \in starred' \ starred : r = <<r[1], r[2]>> /\ r[1] \in s.who /\ r[2] \in s.items
  BY <1>3, <1>r
<1>5. Tables'
  <2>1. s.who \X s.items \subseteq Users \X entries
    BY <1>2, <1>4, PlanType DEF StarOK
  <2>2. TypeOK'
    BY <1>2, <1>3, <2>1 DEF TypeOK
  <2>3. StateOnlyForReaders' /\ StarShown'
    <3>1. ASSUME NEW r \in starred' PROVE Pair(r) \in subs \cup raced /\ (r[2] \in removedAt => Pair(r) \in raced)
      <4>1. CASE r \in starred
        BY <1>2, <4>1 DEF StateOnlyForReaders, StarShown, Pair
      <4>2. CASE r \notin starred
        BY <1>n, <1>4, <4>2 DEF StarOK, Pair
      <4> QED BY <4>1, <4>2
    <3> QED BY <1>2, <1>3, <3>1 DEF StateOnlyForReaders, StarShown, Pair
  <2>4. FollowersSubscribed' /\ UnreadIsShown'
    BY <1>2, <1>3 DEF FollowersSubscribed, UnreadIsShown
  <2> QED BY <1>2, <1>3, <2>2, <2>3, <2>4 DEF Tables, RowsInStep
<1>6. ASSUME NEW t \in TxType, TxOK(t), Met(s, t) \subseteq raced' PROVE TxOK(t)'
  <2>0. ASSUME NEW r \in starred' \ starred, r[1] \in t.who, FeedOf[r[2]] \in t.feeds, Unordered("star", t.op), t.st # "fetched" PROVE Pair(r) \in raced'
    BY <1>3, <1>n, <1>4, <1>6, <2>0, MetPair DEF StarOK, Pair
  <2>u. \A r \in starred' \ starred : r[1] \in Users
    BY <1>2, <1>n, PlanType
  <2>1. ASSUME t.op \in Members, t.st # "dead" PROVE MemberOK(t)' /\ CatOK(t)'
    <3>1. MemberOK(t) /\ CatOK(t) /\ Pairwise(t) /\ t.st # "fetched" /\ \A x \in t.subsDel : t.op \in {"unsubscribe", "unfollow", "move"}
      BY <1>6, <2>1, Leaving
    <3>2. ASSUME NEW r \in starred' \ starred, Pair(r) \in t.subsDel PROVE Pair(r) \in raced'
      BY <2>0, <3>1, <3>2, UnorderedPairs DEF Pairwise, Pair
    <3>3. MemberOK(t)'
      BY <1>3, <3>1, <3>2 DEF MemberOK, Hidden, Pair
    <3> QED BY <1>3, <3>1, <3>3, CatMono
  <2>2. ASSUME t.op \in {"collapse", "purge"}, LeaveOK(t) PROVE LeaveOK(t)'
    <3>1. ASSUME NEW r \in starred' \ starred, r[2] \in t.items PROVE Pair(r) \in raced'
      <4>1. r[1] \in t.who /\ FeedOf[r[2]] \in t.feeds /\ t.st # "fetched"
        BY <1>6, <2>2, <2>u, <3>1 DEF LeaveOK, TxOK
      <4> QED BY <2>0, <2>2, <3>1, <4>1, UnorderedPairs
    <3> QED BY <1>3, <2>2, <3>1 DEF LeaveOK, Pair
  <2>3. ASSUME t.op = "strip", t.st # "dead" PROVE StripOK(t)'
    <3>1. StripOK(t) /\ t.st # "fetched"
      BY <1>6, <2>3 DEF TxOK
    <3>2. ASSUME NEW r \in starred' \ starred, r[2] \in t.items PROVE Pair(r) \in raced'
      <4>1. r[1] \in t.who /\ FeedOf[r[2]] \in t.feeds
        BY <2>u, <3>1, <3>2 DEF StripOK
      <4> QED BY <2>0, <2>3, <3>1, <3>2, <4>1, UnorderedPairs
    <3> QED BY <1>3, <3>1, <3>2 DEF StripOK, Pair
  <2>4. t.op = "poll" => PollTxOK(t)'
    BY <1>3, <1>6, PollMono DEF TxOK
  <2>5. t.op = "mark" /\ t.st # "dead" => MarkOK(t)'
    BY <1>3, <1>6, MarkMono DEF TxOK
  <2>6. (t.op = "star" /\ t.st # "dead" => StarOK(t)') /\ (t.op = "remove" /\ t.st # "dead" => RemoveOK(t)')
    BY <1>3, <1>6, StarMono, RemoveMono DEF TxOK
  <2>7. t.op = "collapse" => CollapseOK(t)'
    BY <1>3, <1>6, <2>2 DEF TxOK, CollapseOK, Retired
  <2>8. t.op = "purge" => PurgeOK(t)'
    BY <1>3, <1>6, <2>2 DEF TxOK, PurgeOK, Hidden
  <2> QED BY <1>6, <2>1, <2>3, <2>4, <2>5, <2>6, <2>7, <2>8 DEF TxOK
<1> QED BY <1>1, <1>3, <1>5, <1>6, CommitTx

LEMMA CommitRemoveOK == ASSUME SInv, NEW p \in Conns, CommitRemove(p) PROVE SInv'
<1>1. PICK s : s = tx[p]
  OBVIOUS
<1>2. s \in TxType /\ TxOK(s) /\ TypeOK /\ StateOnlyForReaders /\ UnreadIsShown /\ FollowersSubscribed /\ StarShown /\ scenario \in Scenarios
  BY <1>1, PlanOK
<1>3. /\ s.op = "remove" /\ s.st # "dead" /\ End(p) /\ removed' = removed \cup (s.who \X s.items) /\ unread' = unread \ s.unreadDel
      /\ raced \subseteq raced' /\ raced' \subseteq Users \X Feeds
      /\ UNCHANGED <<subs, follows, cat, entries, removedAt, dedup, starred, labels, retired, scenario>>
  BY <1>1, <1>2, RacedType, MeetsAll DEF CommitRemove, End, SInv
<1>4. RemoveOK(s) /\ s.st # "fetched"
  BY <1>2, <1>3 DEF TxOK
<1>n. \A r \in removed' \ removed : r = <<r[1], r[2]>> /\ r[1] \in s.who /\ r[2] \in s.items
  <2>1. \A r \in s.who \X s.items : r = <<r[1], r[2]>> /\ r[1] \in s.who /\ r[2] \in s.items
    OBVIOUS
  <2> QED BY <1>3, <2>1
<1>5. Tables'
  <2>1. s.who \X s.items \subseteq Users \X entries
    BY <1>2, <1>4, PlanType DEF RemoveOK
  <2>2. TypeOK'
    BY <1>2, <1>3, <2>1 DEF TypeOK
  <2>3. StateOnlyForReaders'
    <3>1. ASSUME NEW r \in removed' PROVE Pair(r) \in subs \cup raced
      <4>1. CASE r \in removed
        BY <1>2, <4>1 DEF StateOnlyForReaders, Pair
      <4>2. CASE r \notin removed
        BY <1>n, <1>4, <4>2 DEF RemoveOK, Pair
      <4> QED BY <4>1, <4>2
    <3> QED BY <1>2, <1>3, <3>1 DEF StateOnlyForReaders, Pair
  <2>4. UnreadIsShown'
    <3>1. ASSUME NEW r \in unread', r \in removed' \ removed PROVE Pair(r) \in raced
      BY <1>n, <1>3, <1>4, <3>1 DEF RemoveOK, Pair
    <3> QED BY <1>2, <1>3, <3>1 DEF UnreadIsShown, Pair
  <2>5. FollowersSubscribed' /\ StarShown'
    BY <1>2, <1>3 DEF FollowersSubscribed, StarShown, Pair
  <2> QED BY <1>2, <1>3, <2>2, <2>3, <2>4, <2>5 DEF Tables, RowsInStep
<1>6. ASSUME NEW t \in TxType, TxOK(t), Met(s, t) \subseteq raced' PROVE TxOK(t)'
  <2>0. ASSUME NEW r \in removed' \ removed, r[1] \in t.who, FeedOf[r[2]] \in t.feeds, Unordered("remove", t.op), t.st # "fetched" PROVE Pair(r) \in raced'
    BY <1>3, <1>n, <1>4, <1>6, <2>0, MetPair DEF RemoveOK, Pair
  <2>1. ASSUME t.op \in Members, t.st # "dead" PROVE MemberOK(t)' /\ CatOK(t)'
    <3>1. /\ MemberOK(t) /\ CatOK(t) /\ Pairwise(t) /\ t.st # "fetched"
          /\ \A x \in t.subsDel : t.op \in {"unsubscribe", "unfollow", "move"}
          /\ \A x \in t.subsAdd : t.op \in {"subscribe", "follow", "move"}
      BY <1>6, <2>1, Leaving
    <3>2. ASSUME NEW r \in removed' \ removed, Pair(r) \in t.subsDel \cup t.subsAdd PROVE Pair(r) \in raced'
      BY <2>0, <3>1, <3>2, UnorderedPairs DEF Pairwise, Pair
    <3>3. MemberOK(t)'
      BY <1>3, <3>1, <3>2 DEF MemberOK, Hidden, Pair
    <3> QED BY <1>3, <3>1, <3>3, CatMono
  <2>2. ASSUME t.op = "mark", t.st # "dead" PROVE MarkOK(t)'
    <3>1. MarkOK(t) /\ t.st # "fetched"
      BY <1>6, <2>2 DEF TxOK
    <3>2. ASSUME NEW r \in t.unreadAdd, r \in removed' \ removed PROVE Pair(r) \in raced'
      BY <2>0, <2>2, <3>1, <3>2, UnorderedPairs DEF MarkOK
    <3> QED BY <1>3, <3>1, <3>2 DEF MarkOK, Hidden, Pair
  <2>3. (t.op = "strip" /\ t.st # "dead" => StripOK(t)') /\ (t.op = "poll" => PollTxOK(t)')
    BY <1>3, <1>6, StripMono, PollMono DEF TxOK
  <2>4. (t.op = "star" /\ t.st # "dead" => StarOK(t)') /\ (t.op = "remove" /\ t.st # "dead" => RemoveOK(t)')
    BY <1>3, <1>6, StarMono, RemoveMono DEF TxOK
  <2>5. (t.op = "collapse" => CollapseOK(t)') /\ (t.op = "purge" => PurgeOK(t)')
    BY <1>3, <1>6, CollapseMono, PurgeMono DEF TxOK
  <2> QED BY <1>6, <2>1, <2>2, <2>3, <2>4, <2>5 DEF TxOK
<1> QED BY <1>1, <1>3, <1>5, <1>6, CommitTx

LEMMA CommitStripOK == ASSUME SInv, NEW p \in Conns, CommitStrip(p) PROVE SInv'
<1>1. PICK s : s = tx[p]
  OBVIOUS
<1>2. s \in TxType /\ TxOK(s) /\ TypeOK /\ StateOnlyForReaders /\ UnreadIsShown /\ FollowersSubscribed /\ StarShown /\ scenario \in Scenarios
  BY <1>1, PlanOK
<1>3. /\ s.op = "strip" /\ s.st # "dead" /\ End(p) /\ removedAt' = removedAt \cup s.items /\ dedup' = dedup \cup s.items
      /\ unread' = unread \ s.unreadDel /\ starred' = starred \ s.excDel /\ removed' = removed \ s.excDel
      /\ raced \subseteq raced' /\ raced' \subseteq Users \X Feeds
      /\ UNCHANGED <<subs, follows, cat, entries, labels, retired, scenario>>
  BY <1>1, <1>2, RacedType, MeetsAll DEF CommitStrip, End, SInv
<1>4. StripOK(s) /\ s.st # "fetched"
  BY <1>2, <1>3 DEF TxOK
<1>5. Tables'
  <2>1. s.items \subseteq entries
    BY <1>4 DEF StripOK
  <2>2. TypeOK'
    BY <1>2, <1>3, <2>1 DEF TypeOK
  <2>3. UnreadIsShown' /\ StarShown'
    BY <1>2, <1>3, <1>4 DEF UnreadIsShown, StarShown, StripOK, Pair
  <2>4. FollowersSubscribed' /\ StateOnlyForReaders'
    BY <1>2, <1>3 DEF FollowersSubscribed, StateOnlyForReaders
  <2> QED BY <1>2, <1>3, <2>2, <2>3, <2>4 DEF Tables, RowsInStep
<1>6. ASSUME NEW t \in TxType, TxOK(t), Met(s, t) \subseteq raced' PROVE TxOK(t)'
  <2>0. ASSUME NEW u \in t.who, NEW i \in s.items, FeedOf[i] \in t.feeds, Unordered("strip", t.op), t.st # "fetched" PROVE <<u, FeedOf[i]>> \in raced'
    <3>1. u \in s.who /\ FeedOf[i] \in s.feeds
      BY <1>4, PlanType DEF StripOK
    <3> QED BY <1>3, <1>4, <1>6, <2>0, <3>1, MetPair
  <2>1. ASSUME t.op \in Members, t.st # "dead" PROVE MemberOK(t)' /\ CatOK(t)'
    <3>1. /\ MemberOK(t) /\ CatOK(t) /\ Pairwise(t) /\ t.st # "fetched"
          /\ \A x \in t.subsAdd : t.op \in {"subscribe", "follow", "move"}
      BY <1>6, <2>1, Leaving
    <3>2. ASSUME NEW r \in t.unreadAdd, r[2] \in s.items PROVE Pair(r) \in raced'
      <4>1. Pair(r) \in t.subsAdd
        BY <3>1 DEF MemberOK
      <4>2. r[1] \in t.who /\ FeedOf[r[2]] \in t.feeds /\ Unordered("strip", t.op)
        BY <3>1, <4>1, UnorderedPairs DEF Pairwise, Pair
      <4> QED BY <2>0, <3>1, <3>2, <4>2 DEF Pair
    <3>3. MemberOK(t)'
      BY <1>3, <3>1, <3>2 DEF MemberOK, Hidden, Pair
    <3> QED BY <1>3, <3>1, <3>3, CatMono
  <2>2. ASSUME t.op = "mark", t.st # "dead" PROVE MarkOK(t)'
    <3>1. MarkOK(t) /\ t.st # "fetched"
      BY <1>6, <2>2 DEF TxOK
    <3>2. ASSUME NEW r \in t.unreadAdd, r[2] \in s.items PROVE Pair(r) \in raced'
      BY <2>0, <2>2, <3>1, <3>2, UnorderedPairs DEF MarkOK, Pair
    <3> QED BY <1>3, <3>1, <3>2 DEF MarkOK, Hidden, Pair
  <2>3. ASSUME t.op = "star", t.st # "dead" PROVE StarOK(t)'
    <3>1. StarOK(t) /\ t.st # "fetched"
      BY <1>6, <2>3 DEF TxOK
    <3>2. ASSUME NEW u \in t.who, NEW i \in t.items, i \in s.items PROVE <<u, FeedOf[i]>> \in raced'
      BY <2>0, <2>3, <3>1, <3>2, UnorderedPairs DEF StarOK
    <3> QED BY <1>3, <3>1, <3>2 DEF StarOK
  <2>4. ASSUME t.op = "poll" PROVE PollTxOK(t)'
    <3>1. PollTxOK(t) /\ s.items \subseteq entries
      BY <1>4, <1>6, <2>4 DEF TxOK, StripOK
    <3> QED BY <1>3, <3>1 DEF PollTxOK, Retired, Mode, Of, Pair
  <2>5. ASSUME t.op = "purge" PROVE PurgeOK(t)'
    <3>1. PurgeOK(t) /\ \A r \in s.excDel : r[2] \in s.items
      BY <1>4, <1>6, <2>5 DEF TxOK, StripOK
    <3>2. LeaveOK(t)'
      BY <1>3, <3>1 DEF PurgeOK, LeaveOK, Pair
    <3>3. ASSUME NEW u, NEW i, Hidden(<<u, i>>) PROVE Hidden(<<u, i>>)'
      BY <1>3, <3>1, <3>3 DEF Hidden
    <3> QED BY <1>3, <3>1, <3>2, <3>3 DEF PurgeOK
  <2>6. (t.op = "strip" /\ t.st # "dead" => StripOK(t)') /\ (t.op = "remove" /\ t.st # "dead" => RemoveOK(t)')
    BY <1>3, <1>6, StripMono, RemoveMono DEF TxOK
  <2>7. t.op = "collapse" => CollapseOK(t)'
    BY <1>3, <1>6, CollapseMono DEF TxOK
  <2> QED BY <1>6, <2>1, <2>2, <2>3, <2>4, <2>5, <2>6, <2>7 DEF TxOK
<1> QED BY <1>1, <1>3, <1>5, <1>6, CommitTx

-----------------------------------------------------------------------------
(* Steps of one statement, and steps that only change a plan.              *)

\* The tables change and the transactions stay.
LEMMA OneStatement ==
  ASSUME SInv, tx' = tx, Tables', \A q \in Conns : \A t : t = tx[q] => TxOK(t)'
  PROVE  SInv'
<1>1. ASSUME NEW q \in Conns PROVE TxOK(tx[q])'
  <2>1. PICK t : t = tx[q]
    OBVIOUS
  <2> QED BY <2>1, Lift
<1>2. Unlocked' /\ tx' \in [Conns -> TxType]
  BY DEF SInv, Unlocked, Locked, TxType, Pairs, Keys, Members
<1> QED BY <1>1, <1>2 DEF SInv

LEMMA MarkReadOK == ASSUME SInv, NEW u, NEW S, MarkRead(u, S) PROVE SInv'
<1>1. /\ unread' \subseteq unread /\ tx' = tx /\ raced' = raced
      /\ UNCHANGED <<subs, follows, cat, entries, removedAt, dedup, starred, removed, labels, scenario, retired>>
  BY DEF MarkRead
<1>2. Tables'
  BY <1>1 DEF SInv, Tables, RowsInStep, TypeOK, StateOnlyForReaders, UnreadIsShown, FollowersSubscribed, StarShown, Pair
<1>3. \A q \in Conns : \A t : t = tx[q] => TxOK(t)'
  BY <1>1, AllSame DEF SInv
<1> QED BY <1>1, <1>2, <1>3, OneStatement

LEMMA UnstarOK == ASSUME SInv, NEW u, NEW i, Unstar(u, i) PROVE SInv'
<1>1. /\ starred' \subseteq starred /\ tx' = tx /\ raced' = raced
      /\ UNCHANGED <<subs, follows, cat, entries, removedAt, dedup, unread, removed, labels, scenario, retired>>
  BY DEF Unstar
<1>2. Tables'
  BY <1>1 DEF SInv, Tables, RowsInStep, TypeOK, StateOnlyForReaders, UnreadIsShown, FollowersSubscribed, StarShown, Pair
<1>3. ASSUME NEW t, TxOK(t) PROVE TxOK(t)'
  BY <1>1, <1>3, MemberMono, CatMono, PollMono, MarkMono, StarMono, RemoveMono, StripMono, CollapseMono, PurgeMono DEF TxOK
<1>4. \A q \in Conns : \A t : t = tx[q] => TxOK(t)'
  BY <1>3 DEF SInv
<1> QED BY <1>1, <1>2, <1>4, OneStatement

LEMMA PurgeDedupOK == ASSUME SInv, NEW p \in Conns, PurgeDedup(p) PROVE SInv'
<1>1. PICK S \in SUBSET dedup : dedup' = dedup \ S /\ retired' = retired \cup (S \X {"hash"})
  BY DEF PurgeDedup
<1>2. PICK s : s = tx[p]
  OBVIOUS
<1>3. s \in TxType /\ TxOK(s) /\ TypeOK /\ StateOnlyForReaders /\ UnreadIsShown /\ FollowersSubscribed /\ StarShown /\ scenario \in Scenarios
  BY <1>2, PlanOK
<1>4. /\ End(p) /\ raced \subseteq raced' /\ raced' \subseteq Users \X Feeds /\ retired \subseteq retired'
      /\ UNCHANGED <<subs, follows, cat, entries, removedAt, unread, starred, removed, labels, scenario>>
  BY <1>1, <1>3, RacedType, MeetsAll DEF PurgeDedup, End, SInv
<1>5. Tables'
  <2>1. TypeOK'
    BY <1>1, <1>3, <1>4 DEF TypeOK
  <2>2. StateOnlyForReaders' /\ UnreadIsShown' /\ FollowersSubscribed' /\ StarShown'
    BY <1>3, <1>4 DEF StateOnlyForReaders, UnreadIsShown, FollowersSubscribed, StarShown, Pair
  <2> QED BY <1>3, <1>4, <2>1, <2>2 DEF Tables, RowsInStep
<1>6. ASSUME NEW t \in TxType, TxOK(t) PROVE TxOK(t)'
  <2>1. dedup' \subseteq dedup
    BY <1>1
  <2>2. ASSUME t.op = "collapse" PROVE CollapseOK(t)'
    BY <1>1, <1>4, <1>6, <2>2 DEF TxOK, CollapseOK, LeaveOK, Pair, Retired
  <2> QED BY <1>4, <1>6, <2>1, <2>2, MemberMono, CatMono, PollMono, MarkMono, StarMono, RemoveMono, StripMono, PurgeMono DEF TxOK
<1> QED BY <1>2, <1>4, <1>5, <1>6, CommitTx

LEMMA TablesSame ==
  ASSUME Tables, UNCHANGED <<tables, scenario, retired>>, raced \subseteq raced', raced' \subseteq Users \X Feeds
  PROVE  Tables'
<1>1. UNCHANGED <<subs, follows, cat, entries, removedAt, dedup, unread, starred, removed, labels, scenario, retired>>
  BY DEF tables
<1> QED BY <1>1 DEF Tables, RowsInStep, TypeOK, StateOnlyForReaders, UnreadIsShown, FollowersSubscribed, StarShown, Pair

\* The plan of one connection changes; the tables stay.
LEMMA NewPlan ==
  ASSUME SInv, NEW p \in Conns, NEW n \in TxType, tx' = [tx EXCEPT ![p] = n], TxOK(n)',
         \A q \in Conns \ {p} : ~Locked(tx[q], n),
         UNCHANGED <<tables, scenario, retired>>, raced \subseteq raced', raced' \subseteq Users \X Feeds
  PROVE  SInv'
<1>1. tx \in [Conns -> TxType] /\ tx' \in [Conns -> TxType]
  BY DEF SInv
<1>2. ASSUME NEW t, TxOK(t) PROVE TxOK(t)'
  BY <1>2, AllSame DEF tables
<1>3. ASSUME NEW q \in Conns PROVE TxOK(tx[q])'
  <2>1. PICK t : t = tx'[q]
    OBVIOUS
  <2>2. TxOK(t)'
    BY <1>1, <1>2, <2>1 DEF SInv
  <2> QED BY <2>1, <2>2, Lift
<1>4. Unlocked'
  <2>1. ASSUME NEW q \in Conns, NEW r \in Conns, q # r PROVE ~Locked(tx'[q], tx'[r])
    BY <1>1, <2>1, LockedSym DEF SInv, Unlocked
  <2> QED BY <2>1 DEF Unlocked, Locked
<1>5. Tables'
  BY TablesSame DEF SInv
<1> QED BY <1>1, <1>3, <1>4, <1>5 DEF SInv

LEMMA PlanStep ==
  ASSUME SInv, NEW p \in Conns, NEW n \in TxType, tx' = [tx EXCEPT ![p] = n], TxOK(n),
         \A q \in Conns \ {p} : ~Locked(tx[q], n),
         UNCHANGED <<tables, scenario, retired>>, raced \subseteq raced', raced' \subseteq Users \X Feeds
  PROVE  SInv'
<1>1. TxOK(n)'
  BY AllSame DEF tables
<1> QED BY <1>1, NewPlan

LEMMA RollbackOK == ASSUME SInv, NEW p \in Conns, Rollback(p) PROVE SInv'
<1>1. raced' = raced /\ raced \subseteq Users \X Feeds /\ tx' = [tx EXCEPT ![p] = Idle] /\ UNCHANGED <<tables, scenario, retired>>
  BY DEF Rollback, SInv, Tables, RowsInStep, TypeOK
<1> QED BY <1>1, IdleOK, PlanStep

LEMMA BeginOK ==
  ASSUME SInv, NEW p \in Conns, NEW n \in TxType, TxOK(n), Begin(p, n), raced' = raced
  PROVE  SInv'
<1>1. raced \subseteq Users \X Feeds
  BY DEF SInv, Tables, RowsInStep, TypeOK
<1> QED BY <1>1, PlanStep DEF Begin

-----------------------------------------------------------------------------
(* The snapshots: what a plan is when it is made.                          *)

\* subscribeTx.
LEMMA SubscribingOK ==
  ASSUME Tables, NEW S \in SUBSET Pairs, S \cap subs = {}, NEW new,
         \A f \in Feeds, u \in Users : <<u, f>> \in S => new[f] \subseteq Of({f}) \cap (entries \ removedAt)
  PROVE  LET n == Subscribing(S, new)
         IN /\ n = [Idle EXCEPT !.subsAdd = S, !.unreadAdd = n.unreadAdd] /\ n.subsAdd = S /\ n.unreadAdd \subseteq Keys
            /\ \A r \in n.unreadAdd : r[2] \in entries /\ Pair(r) \in S /\ (Hidden(r) => Pair(r) \in raced)
<1> DEFINE A == {r \in Users \X Items : <<r[1], FeedOf[r[2]]>> \in S /\ r[2] \in new[FeedOf[r[2]]]}
<1>1. Subscribing(S, new) = [Idle EXCEPT !.subsAdd = S, !.unreadAdd = A]
  BY DEF Subscribing
<1>2. A \subseteq Keys
  BY DEF Keys
<1>3. ASSUME NEW r \in A PROVE r[2] \in entries /\ Pair(r) \in S /\ (Hidden(r) => Pair(r) \in raced)
  <2>1. r[1] \in Users /\ r[2] \in Items /\ FeedOf[r[2]] \in Feeds /\ Pair(r) \in S /\ r[2] \in new[FeedOf[r[2]]]
    BY StoreAssumption DEF Pair
  <2>2. r[2] \in entries \ removedAt
    BY <2>1 DEF Pair
  <2>3. r \in removed => Pair(r) \in raced
    BY <2>1 DEF Tables, RowsInStep, StateOnlyForReaders, Pair
  <2> QED BY <2>1, <2>2, <2>3 DEF Hidden
<1> HIDE DEF A
<1>4. Subscribing(S, new).subsAdd = S /\ Subscribing(S, new).unreadAdd = A
  BY <1>1 DEF Idle
<1> QED BY <1>1, <1>2, <1>3, <1>4

\* unsubscribeTx.
LEMMA ForgetOK ==
  ASSUME Tables, NEW U \in SUBSET Users, NEW F \in SUBSET Feeds
  PROVE  LET d == Forget(U, F)
         IN /\ d = [Idle EXCEPT !.subsDel = d.subsDel, !.unreadDel = d.unreadDel, !.excDel = d.excDel, !.labelDel = d.labelDel]
            /\ d.subsDel = subs \cap (U \X F) /\ d.unreadDel \subseteq Keys /\ d.excDel \subseteq Keys /\ d.labelDel \subseteq Keys
            /\ \A r \in unread : Pair(r) \in d.subsDel => r \in d.unreadDel
            /\ \A r \in starred \cup removed : Pair(r) \in d.subsDel => r \in d.excDel
            /\ \A r \in labels : Pair(r) \in d.subsDel => r \in d.labelDel
            /\ \A r \in d.excDel : Pair(r) \in d.subsDel \cup raced
<1> DEFINE D == subs \cap (U \X F)
           R == UNION {Rows(unread, u, F) : u \in U}
           X == UNION {Rows(Exceptions, u, F) : u \in U}
           L == UNION {Rows(labels, u, F) : u \in U}
<1>1. Forget(U, F) = [Idle EXCEPT !.subsDel = D, !.unreadDel = R, !.excDel = X, !.labelDel = L]
  BY DEF Forget
<1>2. unread \cup starred \cup removed \cup labels \subseteq Keys
  BY DEF Tables, RowsInStep, TypeOK, Keys
<1>3. R \subseteq Keys /\ X \subseteq Keys /\ L \subseteq Keys
  BY <1>2 DEF Rows, Exceptions
<1>4. ASSUME NEW r, Pair(r) \in D PROVE r[1] \in U /\ FeedOf[r[2]] \in F
  BY <1>4 DEF Pair
<1>5. /\ \A r \in unread : Pair(r) \in D => r \in R
      /\ \A r \in starred \cup removed : Pair(r) \in D => r \in X
      /\ \A r \in labels : Pair(r) \in D => r \in L
  BY <1>4 DEF Rows, Exceptions
<1>6. ASSUME NEW r \in X PROVE Pair(r) \in D \cup raced
  <2>1. r \in starred \cup removed /\ r[1] \in U /\ FeedOf[r[2]] \in F
    BY DEF Rows, Exceptions
  <2>2. Pair(r) \in subs \cup raced
    BY <2>1 DEF Tables, RowsInStep, StateOnlyForReaders, Pair
  <2> QED BY <2>1, <2>2 DEF Pair
<1> HIDE DEF D, R, X, L
<1>7. /\ Forget(U, F).subsDel = D /\ Forget(U, F).unreadDel = R /\ Forget(U, F).excDel = X /\ Forget(U, F).labelDel = L
  BY <1>1 DEF Idle
<1> QED BY <1>1, <1>3, <1>5, <1>6, <1>7 DEF D

LEMMA SubscribeOK == ASSUME SInv, NEW p \in Conns, NEW u \in Users, NEW f \in Feeds, Subscribe(p, u, f) PROVE SInv'
<1>1. PICK new \in Newest(f) :
        /\ <<u, f>> \notin subs
        /\ Begin(p, [Subscribing({<<u, f>>}, [g \in Feeds |-> new]) EXCEPT !.op = "subscribe", !.who = {u}, !.feeds = {f}])
        /\ raced' = raced
  BY DEF Subscribe
<1> DEFINE S == {<<u, f>>}
           a == Subscribing(S, [g \in Feeds |-> new])
           n == [a EXCEPT !.op = "subscribe", !.who = {u}, !.feeds = {f}]
<1>2. new \subseteq Of({f}) \cap (entries \ removedAt)
  BY DEF Newest
<1>3. S \in SUBSET Pairs /\ S \cap subs = {} /\ Tables
  BY <1>1 DEF Pairs, SInv
<1>4. /\ a = [Idle EXCEPT !.subsAdd = S, !.unreadAdd = a.unreadAdd] /\ a.unreadAdd \subseteq Keys
      /\ \A r \in a.unreadAdd : r[2] \in entries /\ Pair(r) \in S /\ (Hidden(r) => Pair(r) \in raced)
  BY <1>2, <1>3, SubscribingOK
<1> HIDE DEF a, S
<1>5. /\ n \in TxType /\ n.op = "subscribe" /\ n.st = "none" /\ n.who = {u} /\ n.feeds = {f} /\ n.subsAdd = S /\ n.subsDel = {}
      /\ n.unreadAdd = a.unreadAdd /\ n.unreadDel = {} /\ n.excDel = {} /\ n.labelDel = {}
  BY <1>3, <1>4, ZenonT(40) DEF TxType, Idle, Members, Keys
<1>6. Begin(p, n)
  BY <1>1 DEF a, S
<1> HIDE DEF n
<1>7. MemberOK(n) /\ CatOK(n)
  BY <1>3, <1>4, <1>5 DEF MemberOK, CatOK, S
<1>8. TxOK(n)
  BY <1>5, <1>7 DEF TxOK
<1> QED BY <1>1, <1>5, <1>6, <1>8, BeginOK

LEMMA UnsubscribeOK == ASSUME SInv, NEW p \in Conns, NEW u \in Users, NEW f \in Feeds, Unsubscribe(p, u, f) PROVE SInv'
<1> DEFINE d == Forget({u}, {f})
           n == [d EXCEPT !.op = "unsubscribe", !.who = {u}, !.feeds = {f}]
<1>1. Begin(p, n) /\ raced' = raced /\ <<u, cat[f]>> \notin follows /\ Tables
  BY DEF Unsubscribe, FollowsFeed, SInv
<1>f. {u} \in SUBSET Users /\ {f} \in SUBSET Feeds
  OBVIOUS
<1>2. /\ d = [Idle EXCEPT !.subsDel = d.subsDel, !.unreadDel = d.unreadDel, !.excDel = d.excDel, !.labelDel = d.labelDel]
      /\ d.subsDel = subs \cap ({u} \X {f}) /\ d.unreadDel \subseteq Keys /\ d.excDel \subseteq Keys /\ d.labelDel \subseteq Keys
      /\ \A r \in unread : Pair(r) \in d.subsDel => r \in d.unreadDel
      /\ \A r \in starred \cup removed : Pair(r) \in d.subsDel => r \in d.excDel
      /\ \A r \in labels : Pair(r) \in d.subsDel => r \in d.labelDel
      /\ \A r \in d.excDel : Pair(r) \in d.subsDel \cup raced
  BY <1>1, <1>f, ForgetOK
<1> HIDE DEF d
<1>3. d.subsDel \subseteq Pairs /\ \A x \in d.subsDel : x[1] = u /\ x[2] = f
  BY <1>2 DEF Pairs
<1>4. /\ n \in TxType /\ n.op = "unsubscribe" /\ n.st = "none" /\ n.who = {u} /\ n.feeds = {f} /\ n.subsAdd = {} /\ n.unreadAdd = {}
      /\ n.subsDel = d.subsDel /\ n.unreadDel = d.unreadDel /\ n.excDel = d.excDel /\ n.labelDel = d.labelDel
  BY <1>2, <1>3, ZenonT(40) DEF TxType, Idle, Members
<1> HIDE DEF n
<1>5. MemberOK(n) /\ CatOK(n)
  BY <1>1, <1>2, <1>3, <1>4 DEF MemberOK, CatOK
<1>6. TxOK(n)
  BY <1>4, <1>5 DEF TxOK
<1> QED BY <1>1, <1>4, <1>6, BeginOK

LEMMA FollowOK == ASSUME SInv, NEW p \in Conns, NEW u \in Users, NEW c \in Cats, FollowCategory(p, u, c) PROVE SInv'
<1> DEFINE F == {f \in Feeds : cat[f] = c /\ <<u, f>> \notin subs}
           S == {u} \X F
<1>1. PICK new \in [Feeds -> SUBSET Items] :
        /\ \A f \in Feeds : IF f \in F THEN new[f] \in Newest(f) ELSE new[f] = {}
        /\ Begin(p, [Subscribing({u} \X F, new) EXCEPT !.op = "follow", !.who = {u}, !.feeds = Feeds, !.cat = c])
        /\ raced' = raced
  BY DEF FollowCategory
<1> DEFINE a == Subscribing(S, new)
           n == [a EXCEPT !.op = "follow", !.who = {u}, !.feeds = Feeds, !.cat = c]
<1>2. S \in SUBSET Pairs /\ S \cap subs = {} /\ Tables /\ \A f \in Feeds : cat[f] = c => <<u, f>> \in subs \cup S
  BY DEF Pairs, SInv
<1>3. \A f \in Feeds, v \in Users : <<v, f>> \in S => new[f] \subseteq Of({f}) \cap (entries \ removedAt)
  BY <1>1 DEF Newest
<1>4. /\ a = [Idle EXCEPT !.subsAdd = S, !.unreadAdd = a.unreadAdd] /\ a.unreadAdd \subseteq Keys
      /\ \A r \in a.unreadAdd : r[2] \in entries /\ Pair(r) \in S /\ (Hidden(r) => Pair(r) \in raced)
  BY <1>2, <1>3, SubscribingOK
<1>s. S \subseteq {u} \X Feeds /\ Begin(p, n)
  BY <1>1
<1> HIDE DEF a, S, F
<1>5. /\ n \in TxType /\ n.op = "follow" /\ n.st = "none" /\ n.who = {u} /\ n.feeds = Feeds /\ n.subsAdd = S /\ n.subsDel = {}
      /\ n.unreadAdd = a.unreadAdd /\ n.unreadDel = {} /\ n.excDel = {} /\ n.labelDel = {} /\ n.cat = c
  BY <1>2, <1>4, ZenonT(40) DEF TxType, Idle, Members, Keys
<1> HIDE DEF n
<1>7. MemberOK(n)
  BY <1>2, <1>4, <1>5, <1>s DEF MemberOK
<1>8. CatOK(n)
  BY <1>2, <1>5 DEF CatOK
<1>9. TxOK(n)
  BY <1>5, <1>7, <1>8 DEF TxOK
<1> QED BY <1>1, <1>5, <1>s, <1>9, BeginOK

LEMMA UnfollowOK == ASSUME SInv, NEW p \in Conns, NEW u \in Users, NEW c \in Cats, UnfollowCategory(p, u, c) PROVE SInv'
<1> DEFINE F == {f \in Feeds : cat[f] = c}
           d == Forget({u}, F)
           n == [d EXCEPT !.op = "unfollow", !.who = {u}, !.feeds = Feeds, !.cat = c]
<1>1. Begin(p, n) /\ raced' = raced /\ Tables
  BY DEF UnfollowCategory, SInv
<1>f. F \in SUBSET Feeds /\ {u} \in SUBSET Users
  OBVIOUS
<1> HIDE DEF F
<1>2. /\ d = [Idle EXCEPT !.subsDel = d.subsDel, !.unreadDel = d.unreadDel, !.excDel = d.excDel, !.labelDel = d.labelDel]
      /\ d.subsDel = subs \cap ({u} \X F) /\ d.unreadDel \subseteq Keys /\ d.excDel \subseteq Keys /\ d.labelDel \subseteq Keys
      /\ \A r \in unread : Pair(r) \in d.subsDel => r \in d.unreadDel
      /\ \A r \in starred \cup removed : Pair(r) \in d.subsDel => r \in d.excDel
      /\ \A r \in labels : Pair(r) \in d.subsDel => r \in d.labelDel
      /\ \A r \in d.excDel : Pair(r) \in d.subsDel \cup raced
  BY <1>1, <1>f, ForgetOK
<1> HIDE DEF d
<1>3. d.subsDel \subseteq Pairs /\ d.subsDel \subseteq {u} \X Feeds /\ \A x \in d.subsDel : cat[x[2]] = c
  BY <1>2 DEF Pairs, F
<1>4. /\ n \in TxType /\ n.op = "unfollow" /\ n.st = "none" /\ n.who = {u} /\ n.feeds = Feeds /\ n.subsAdd = {} /\ n.unreadAdd = {}
      /\ n.subsDel = d.subsDel /\ n.unreadDel = d.unreadDel /\ n.excDel = d.excDel /\ n.labelDel = d.labelDel /\ n.cat = c
  BY <1>2, <1>3, ZenonT(40) DEF TxType, Idle, Members
<1> HIDE DEF n
<1>5. MemberOK(n) /\ CatOK(n)
  BY <1>1, <1>2, <1>3, <1>4 DEF MemberOK, CatOK
<1>6. TxOK(n)
  BY <1>4, <1>5 DEF TxOK
<1> QED BY <1>1, <1>4, <1>6, BeginOK

LEMMA MoveOK == ASSUME SInv, NEW p \in Conns, NEW f \in Feeds, NEW c \in Cats \cup {NoCat}, MoveFeed(p, f, c) PROVE SInv'
<1> DEFINE L == Losing(f, c)
           S == Gaining(f, c) \X {f}
           d == Forget(L, {f})
<1>1. PICK new \in Newest(f) :
        Begin(p, [Forget(Losing(f, c), {f})
                    EXCEPT !.op = "move", !.who = Users, !.feeds = {f}, !.cat = c,
                           !.subsAdd = Subscribing(Gaining(f, c) \X {f}, [g \in Feeds |-> new]).subsAdd,
                           !.unreadAdd = Subscribing(Gaining(f, c) \X {f}, [g \in Feeds |-> new]).unreadAdd])
  BY DEF MoveFeed
<1> DEFINE a == Subscribing(S, [g \in Feeds |-> new])
           n == [d EXCEPT !.op = "move", !.who = Users, !.feeds = {f}, !.cat = c, !.subsAdd = a.subsAdd, !.unreadAdd = a.unreadAdd]
<1>2. new \subseteq Of({f}) \cap (entries \ removedAt) /\ Tables /\ raced' = raced /\ Begin(p, n)
  BY <1>1 DEF Newest, SInv, MoveFeed
<1>3. L \subseteq Users /\ S \in SUBSET Pairs /\ S \cap subs = {} /\ S \subseteq Users \X {f}
  BY DEF Losing, Gaining, Followers, Pairs
<1>4. /\ a.subsAdd = S /\ a.unreadAdd \subseteq Keys
      /\ \A r \in a.unreadAdd : r[2] \in entries /\ Pair(r) \in S /\ (Hidden(r) => Pair(r) \in raced)
  <2>1. \A g \in Feeds, v \in Users : <<v, g>> \in S => [h \in Feeds |-> new][g] \subseteq Of({g}) \cap (entries \ removedAt)
    BY <1>2
  <2> QED BY <1>2, <1>3, <2>1, SubscribingOK
<1>l. L \in SUBSET Users /\ {f} \in SUBSET Feeds
  BY <1>3
<1> HIDE DEF L
<1>5. /\ d = [Idle EXCEPT !.subsDel = d.subsDel, !.unreadDel = d.unreadDel, !.excDel = d.excDel, !.labelDel = d.labelDel]
      /\ d.subsDel = subs \cap (L \X {f}) /\ d.unreadDel \subseteq Keys /\ d.excDel \subseteq Keys /\ d.labelDel \subseteq Keys
      /\ \A r \in unread : Pair(r) \in d.subsDel => r \in d.unreadDel
      /\ \A r \in starred \cup removed : Pair(r) \in d.subsDel => r \in d.excDel
      /\ \A r \in labels : Pair(r) \in d.subsDel => r \in d.labelDel
      /\ \A r \in d.excDel : Pair(r) \in d.subsDel \cup raced
  BY <1>2, <1>l, ForgetOK
\* A follower of the new category has the feed or gets it.
<1>6. ASSUME NEW u \in Users, <<u, c>> \in follows PROVE <<u, f>> \in (subs \cup S) \ d.subsDel
  <2>1. u \notin L
    BY <1>6 DEF L, Losing, Followers
  <2>2. <<u, f>> \notin d.subsDel
    BY <1>5, <2>1
  <2>3. <<u, f>> \in subs \cup S
    BY <1>6 DEF Gaining, Followers
  <2> QED BY <2>2, <2>3
<1>7. d.subsDel \subseteq Users \X {f} /\ S \cap d.subsDel = {} /\ d.subsDel \subseteq Pairs
  BY <1>3, <1>5 DEF Pairs
<1> HIDE DEF a, d, S, L
<1>8. /\ n \in TxType /\ n.op = "move" /\ n.st = "none" /\ n.who = Users /\ n.feeds = {f} /\ n.subsAdd = S /\ n.unreadAdd = a.unreadAdd
      /\ n.subsDel = d.subsDel /\ n.unreadDel = d.unreadDel /\ n.excDel = d.excDel /\ n.labelDel = d.labelDel /\ n.cat = c
  BY <1>3, <1>4, <1>5, <1>7 DEF TxType, Idle, Members
<1> HIDE DEF n
<1>9. MemberOK(n)
  BY <1>3, <1>4, <1>5, <1>7, <1>8 DEF MemberOK
<1>10. CatOK(n)
  BY <1>6, <1>8 DEF CatOK
<1>11. TxOK(n)
  BY <1>8, <1>9, <1>10 DEF TxOK
<1> QED BY <1>2, <1>8, <1>11, BeginOK

LEMMA PollFetchedOK == ASSUME SInv, NEW p \in Conns, NEW f \in Feeds, PollFetched(p, f) PROVE SInv'
<1>1. PICK S \in SUBSET Of({f}) : \E matched \in SUBSET FilterKnown(S) :
        Begin(p, [Idle EXCEPT !.op = "poll", !.st = "fetched", !.who = Users, !.feeds = {f},
                    !.items = matched, !.hashes = FilterKnown(S) \ matched])
  BY DEF PollFetched
<1>2. PICK matched \in SUBSET FilterKnown(S) :
        Begin(p, [Idle EXCEPT !.op = "poll", !.st = "fetched", !.who = Users, !.feeds = {f},
                    !.items = matched, !.hashes = FilterKnown(S) \ matched])
  BY <1>1
<1> DEFINE H == FilterKnown(S) \ matched
           n == [Idle EXCEPT !.op = "poll", !.st = "fetched", !.who = Users, !.feeds = {f}, !.items = matched, !.hashes = H]
<1>3. matched \cup H \subseteq Of({f}) /\ matched \cap entries = {} /\ raced' = raced /\ Begin(p, n)
  BY <1>2 DEF FilterKnown, PollFetched
<1>4. matched \in SUBSET Items /\ H \in SUBSET Items
  BY <1>3 DEF Of
<1> HIDE DEF H
<1>5. n \in TxType /\ n.op = "poll" /\ n.st = "fetched" /\ n.who = Users /\ n.feeds = {f} /\ n.items = matched /\ n.hashes = H
  BY <1>4 DEF TxType, Idle, Members
<1> HIDE DEF n
<1>6. TxOK(n)
  BY <1>3, <1>5 DEF TxOK, PollTxOK, Members
<1> QED BY <1>3, <1>5, <1>6, BeginOK

\* A connection that goes on with its transaction holds the same locks.
LEMMA SameLocks ==
  ASSUME NEW s, NEW t, NEW n, n.op = t.op, n.who = t.who, n.feeds = t.feeds, n.cat = t.cat, n.subsAdd = t.subsAdd, n.subsDel = t.subsDel
  PROVE  (Locked(s, n) <=> Locked(s, t)) /\ (Locked(n, s) <=> Locked(t, s))
BY DEF Locked

LEMMA PollInsertOK == ASSUME SInv, NEW p \in Conns, PollInsert(p) PROVE SInv'
<1>1. PICK t : t = tx[p]
  OBVIOUS
<1>2. t \in TxType /\ TxOK(t) /\ TypeOK /\ StateOnlyForReaders /\ UnreadIsShown /\ FollowersSubscribed /\ StarShown /\ scenario \in Scenarios
  BY <1>1, PlanOK
<1> DEFINE A == {<<s[1], i>> : s \in {s \in subs : s[2] \in t.feeds /\ Mode[s[2]] # "relay"}, i \in t.items \ dedup}
           I == t.items \ dedup
           n == [t EXCEPT !.st = "insert", !.items = I, !.unreadAdd = A]
<1>3. t.op = "poll" /\ t.st = "fetched" /\ tx \in [Conns -> TxType] /\ raced \subseteq Users \X Feeds /\ raced' = raced /\ UNCHANGED <<tables, scenario, retired>>
  BY <1>1, <1>2 DEF PollInsert, SInv, TypeOK
<1>4. PollTxOK(t)
  BY <1>2, <1>3 DEF TxOK
<1>5. A \subseteq Keys /\ \A r \in A : r[2] \in I /\ Mode[FeedOf[r[2]]] # "relay" /\ Pair(r) \in subs
  <2> SUFFICES ASSUME NEW r \in A PROVE r \in Keys /\ r[2] \in I /\ Mode[FeedOf[r[2]]] # "relay" /\ Pair(r) \in subs
    OBVIOUS
  <2>1. PICK s \in subs, i \in I : s[2] \in t.feeds /\ Mode[s[2]] # "relay" /\ r = <<s[1], i>>
    OBVIOUS
  <2>2. s = <<s[1], s[2]>> /\ s[1] \in Users /\ i \in Items
    BY <1>2, PlanType DEF TypeOK
  <2>3. FeedOf[i] = s[2]
    BY <1>4, <2>1 DEF PollTxOK, Of
  <2> QED BY <2>1, <2>2, <2>3 DEF Keys, Pair
<1>6. tx' = [tx EXCEPT ![p] = n]
  <2>1. tx' = [tx EXCEPT ![p].st = "insert", ![p].items = I, ![p].unreadAdd = A]
    BY <1>1 DEF PollInsert
  <2> HIDE DEF A, I
  <2> QED BY <1>1, <1>3, <2>1 DEF TxType
<1>7. I \in SUBSET Items /\ I \subseteq t.items /\ I \cap dedup = {}
  BY <1>2, PlanType
<1> HIDE DEF A, I
<1>8. /\ n \in TxType /\ n.op = "poll" /\ n.st = "insert" /\ n.who = t.who /\ n.feeds = t.feeds /\ n.cat = t.cat
      /\ n.subsAdd = t.subsAdd /\ n.subsDel = t.subsDel /\ n.items = I /\ n.hashes = t.hashes /\ n.unreadAdd = A
  BY <1>2, <1>3, <1>5, <1>7 DEF TxType
<1> HIDE DEF n
<1>9. PollTxOK(n)
  BY <1>3, <1>4, <1>5, <1>7, <1>8 DEF PollTxOK
<1>10. TxOK(n)
  BY <1>8, <1>9 DEF TxOK, Members
<1>11. \A q \in Conns \ {p} : ~Locked(tx[q], n)
  BY <1>1, <1>3, <1>8, SameLocks DEF SInv, Unlocked
<1> QED BY <1>3, <1>6, <1>8, <1>10, <1>11, PlanStep

LEMMA MarkUnreadOK == ASSUME SInv, NEW p \in Conns, NEW u \in Users, NEW i \in Items, MarkUnread(p, u, i) PROVE SInv'
<1> DEFINE n == [Idle EXCEPT !.op = "mark", !.who = {u}, !.feeds = {FeedOf[i]}, !.unreadAdd = {<<u, i>>}]
<1>1. Begin(p, n) /\ raced' = raced /\ i \in entries /\ i \notin removedAt /\ <<u, FeedOf[i]>> \in subs /\ <<u, i>> \notin removed
  BY DEF MarkUnread, MayMark
<1>k. {<<u, i>>} \in SUBSET Keys /\ {FeedOf[i]} \in SUBSET Feeds
  BY StoreAssumption DEF Keys
<1>2. n \in TxType /\ n.op = "mark" /\ n.st = "none" /\ n.who = {u} /\ n.feeds = {FeedOf[i]} /\ n.unreadAdd = {<<u, i>>}
  BY <1>k DEF TxType, Idle, Members
<1> HIDE DEF n
<1>3. TxOK(n)
  BY <1>1, <1>2 DEF TxOK, MarkOK, Members, Pair, Hidden
<1> QED BY <1>1, <1>2, <1>3, BeginOK

LEMMA StarBeginOK == ASSUME SInv, NEW p \in Conns, NEW u \in Users, NEW i \in Items, Star(p, u, i) PROVE SInv'
<1> DEFINE n == [Idle EXCEPT !.op = "star", !.who = {u}, !.feeds = {FeedOf[i]}, !.items = {i}]
<1>1. Begin(p, n) /\ raced' = raced /\ i \in entries /\ i \notin removedAt /\ <<u, FeedOf[i]>> \in subs
  BY DEF Star
<1>2. n \in TxType /\ n.op = "star" /\ n.st = "none" /\ n.who = {u} /\ n.feeds = {FeedOf[i]} /\ n.items = {i}
  BY StoreAssumption DEF TxType, Idle, Members
<1> HIDE DEF n
<1>3. TxOK(n)
  BY <1>1, <1>2 DEF TxOK, StarOK, Members
<1> QED BY <1>1, <1>2, <1>3, BeginOK

LEMMA RemovePlanType ==
  ASSUME NEW u \in Users, NEW i \in Items
  PROVE  LET n == RemovePlan(u, i)
         IN n \in TxType /\ n.op = "remove" /\ n.st = "none" /\ n.who = {u} /\ n.feeds = {FeedOf[i]} /\ n.items = {i} /\ n.unreadDel = unread \cap {<<u, i>>}
<1>1. unread \cap {<<u, i>>} \in SUBSET Keys
  BY DEF Keys
<1> QED BY <1>1, StoreAssumption DEF RemovePlan, TxType, Idle, Members

LEMMA MarkRemovedOK == ASSUME SInv, NEW p \in Conns, NEW u \in Users, NEW i \in Items, MarkRemoved(p, u, i) PROVE SInv'
<1>1. Begin(p, RemovePlan(u, i)) /\ raced' = raced /\ i \in entries /\ <<u, FeedOf[i]>> \in subs
  BY DEF MarkRemoved
<1>2. TxOK(RemovePlan(u, i))
  BY <1>1, RemovePlanType DEF TxOK, RemoveOK, Members
<1> QED BY <1>1, <1>2, RemovePlanType, BeginOK

LEMMA WebhookRemoveOK == ASSUME SInv, NEW p \in Conns, NEW u \in Users, NEW i \in Items, WebhookRemove(p, u, i) PROVE SInv'
<1>1. /\ Begin(p, RemovePlan(u, i)) /\ raced' = raced \cup ({<<u, FeedOf[i]>>} \ subs) /\ i \in entries
      /\ tx' = [tx EXCEPT ![p] = RemovePlan(u, i)] /\ UNCHANGED <<tables, scenario, retired>>
  BY DEF WebhookRemove, Begin
<1>2. raced \subseteq raced' /\ raced' \subseteq Users \X Feeds
  BY <1>1, StoreAssumption DEF SInv, Tables, RowsInStep, TypeOK
<1>3. PICK n : n = RemovePlan(u, i)
  OBVIOUS
<1>4. n \in TxType /\ n.op = "remove" /\ n.st = "none" /\ n.who = {u} /\ n.feeds = {FeedOf[i]} /\ n.items = {i} /\ n.unreadDel = unread \cap {<<u, i>>}
  BY <1>3, RemovePlanType
<1>5. subs' = subs /\ entries' = entries /\ unread' = unread
  BY <1>1 DEF tables
<1>6. RemoveOK(n)'
  BY <1>1, <1>4, <1>5 DEF RemoveOK
<1>7. TxOK(n)'
  BY <1>4, <1>6 DEF TxOK, Members
<1>8. \A q \in Conns \ {p} : ~Locked(tx[q], n)
  BY <1>1, <1>3 DEF Begin
<1> QED BY <1>1, <1>2, <1>3, <1>4, <1>7, <1>8, NewPlan

LEMMA StripOKBegin == ASSUME SInv, NEW p \in Conns, NEW i \in Items, Strip(p, i) PROVE SInv'
<1> DEFINE A == {r \in unread : r[2] = i}
           X == {r \in Exceptions : r[2] = i}
           n == [Idle EXCEPT !.op = "strip", !.who = Users, !.feeds = {FeedOf[i]}, !.items = {i}, !.unreadDel = A, !.excDel = X]
<1>1. Begin(p, n) /\ raced' = raced /\ i \in entries /\ unread \cup starred \cup removed \subseteq Keys
  BY DEF Strip, SInv, Tables, RowsInStep, TypeOK, Keys
<1>2. A \subseteq Keys /\ X \subseteq Keys /\ (\A r \in unread : r[2] = i => r \in A) /\ (\A r \in starred : r[2] = i => r \in X) /\ \A r \in X : r[2] = i
  BY <1>1 DEF Exceptions
<1> HIDE DEF A, X
<1>3. n \in TxType /\ n.op = "strip" /\ n.st = "none" /\ n.who = Users /\ n.feeds = {FeedOf[i]} /\ n.items = {i} /\ n.unreadDel = A /\ n.excDel = X
  BY <1>2, StoreAssumption, ZenonT(40) DEF TxType, Idle, Members
<1> HIDE DEF n
<1>4. TxOK(n)
  BY <1>1, <1>2, <1>3 DEF TxOK, StripOK, Members
<1> QED BY <1>1, <1>3, <1>4, BeginOK

LEMMA StarlessLeaves ==
  ASSUME TypeOK, NEW S, \A i \in S : Starless(i)
  PROVE  \A r \in starred : r[2] \notin S
BY KeyType DEF Starless

LEMMA FeedsOf == ASSUME NEW S \in SUBSET Items PROVE {FeedOf[i] : i \in S} \in SUBSET Feeds
BY StoreAssumption

LEMMA CollapseBeginOK == ASSUME SInv, NEW p \in Conns, NEW S \in SUBSET entries, Collapse(p, S) PROVE SInv'
<1> DEFINE F == {FeedOf[i] : i \in S}
           n == [Idle EXCEPT !.op = "collapse", !.who = Users, !.feeds = F, !.items = S, !.hashes = S]
<1>1. Begin(p, n) /\ raced' = raced /\ (\A i \in S : Starless(i)) /\ S \subseteq entries /\ TypeOK
  BY DEF Collapse, SInv, Tables, RowsInStep
<1>2. S \in SUBSET Items
  BY <1>1 DEF TypeOK
<1>3. F \in SUBSET Feeds /\ \A i \in S : FeedOf[i] \in F
  BY <1>2, FeedsOf
<1> HIDE DEF F
<1>4. n \in TxType /\ n.op = "collapse" /\ n.st = "none" /\ n.who = Users /\ n.feeds = F /\ n.items = S /\ n.hashes = S /\ n.unreadAdd = {}
  BY <1>2, <1>3 DEF TxType, Idle, Members
<1> HIDE DEF n
<1>5. TxOK(n)
  BY <1>1, <1>3, <1>4, StarlessLeaves DEF TxOK, CollapseOK, LeaveOK, Members
<1> QED BY <1>1, <1>4, <1>5, BeginOK

LEMMA PurgeBeginOK == ASSUME SInv, NEW p \in Conns, NEW S \in SUBSET entries, PurgeBegin(p, S) PROVE SInv'
<1> DEFINE F == {FeedOf[i] : i \in S}
           n == [Idle EXCEPT !.op = "purge", !.st = "removed", !.who = Users, !.feeds = F, !.items = S]
<1>1. Begin(p, n) /\ raced' = raced /\ (\A i \in S : LeftWithoutReader(i)) /\ S \subseteq entries /\ TypeOK
  BY DEF PurgeBegin, Eligible, SInv, Tables, RowsInStep
<1>2. S \in SUBSET Items
  BY <1>1 DEF TypeOK
<1>3. F \in SUBSET Feeds /\ \A i \in S : FeedOf[i] \in F
  BY <1>2, FeedsOf
<1> HIDE DEF F
<1>4. n \in TxType /\ n.op = "purge" /\ n.st = "removed" /\ n.who = Users /\ n.feeds = F /\ n.items = S /\ n.unreadAdd = {}
  BY <1>2, <1>3 DEF TxType, Idle, Members
<1> HIDE DEF n
<1>5. \A i \in S : Starless(i) /\ \A u \in Users : <<u, FeedOf[i]>> \in subs => <<u, i>> \in removed
  BY <1>1 DEF LeftWithoutReader
<1>6. PurgeOK(n)
  BY <1>1, <1>3, <1>4, <1>5, StarlessLeaves DEF PurgeOK, LeaveOK, Hidden
<1>7. TxOK(n)
  BY <1>4, <1>6 DEF TxOK, Members
<1> QED BY <1>1, <1>4, <1>7, BeginOK

-----------------------------------------------------------------------------
(* A poll.                                                                 *)

LEMMA FilterActionOK == ASSUME SInv, NEW p \in Conns, FilterAction(p) PROVE SInv'
<1>1. PICK s : s = tx[p]
  OBVIOUS
<1>2. s \in TxType /\ TxOK(s) /\ TypeOK /\ StateOnlyForReaders /\ UnreadIsShown /\ FollowersSubscribed /\ StarShown /\ scenario \in Scenarios
  BY <1>1, PlanOK
<1>3. PICK r \in s.todo :
        /\ r[2] \in entries
        /\ \/ labels' = labels \cup {r} /\ UNCHANGED <<unread, removed>>
           \/ /\ unread' = unread \ {r}
              /\ removed' = IF Pair(r) \in subs THEN removed \cup {r} ELSE removed
              /\ UNCHANGED labels
  BY <1>1 DEF FilterAction, Pair
<1>4. /\ s.op = "poll" /\ s.st = "after" /\ raced \subseteq raced' /\ raced' \subseteq Users \X Feeds /\ tx' = tx
      /\ UNCHANGED <<subs, follows, cat, entries, removedAt, dedup, starred, retired, scenario>>
      /\ \A q \in Conns \ {p} : Met(s, tx[q]) \subseteq raced'
  BY <1>1, <1>2, RacedType, MeetsAll DEF FilterAction, SInv
<1>5. /\ PollTxOK(s) /\ r = <<r[1], r[2]>> /\ r[1] \in Users /\ r[1] \in s.who /\ r[2] \in Items
      /\ FeedOf[r[2]] \in s.feeds /\ Pair(r) \in subs \cup raced
  BY <1>2, <1>4, PlanType DEF TxOK, PollTxOK
<1>6. /\ unread' \subseteq unread /\ labels' \subseteq labels \cup {r} /\ removed \subseteq removed' /\ removed' \subseteq removed \cup {r}
      /\ (r \in removed' /\ r \notin removed => r \notin unread' /\ Pair(r) \in subs)
  BY <1>3
<1>7. Tables'
  <2>1. TypeOK'
    <3>1. r \in Users \X entries
      BY <1>3, <1>5
    <3> QED BY <1>2, <1>4, <1>6, <3>1 DEF TypeOK
  <2>2. StateOnlyForReaders'
    BY <1>2, <1>4, <1>5, <1>6 DEF StateOnlyForReaders, Pair
  <2>3. UnreadIsShown' /\ StarShown' /\ FollowersSubscribed'
    BY <1>2, <1>4, <1>6 DEF UnreadIsShown, StarShown, FollowersSubscribed, Pair
  <2> QED BY <1>2, <1>4, <2>1, <2>2, <2>3 DEF Tables, RowsInStep
<1>8. ASSUME NEW q \in Conns, NEW t, t = tx[q] PROVE TxOK(t)'
  <2>1. t \in TxType /\ TxOK(t)
    BY <1>8, PlanOK
  <2>2. ASSUME r[1] \in t.who, FeedOf[r[2]] \in t.feeds, t.op \in {"unsubscribe", "unfollow", "move", "mark"}, t.st # "fetched" PROVE Pair(r) \in raced'
    <3>1. q # p /\ Unordered(s.op, t.op)
      BY <1>1, <1>4, <1>8, <2>2, UnorderedPairs
    <3> QED BY <1>4, <1>5, <1>8, <2>2, <3>1, MetPair DEF Pair
  <2>3. ASSUME t.op \in Members, t.st # "dead" PROVE MemberOK(t)' /\ CatOK(t)'
    <3>1. MemberOK(t) /\ CatOK(t) /\ Pairwise(t) /\ t.st # "fetched" /\ \A x \in t.subsDel : t.op \in {"unsubscribe", "unfollow", "move"}
      BY <2>1, <2>3, Leaving
    <3>2. Pair(r) \in t.subsDel => Pair(r) \in raced'
      BY <2>2, <3>1 DEF Pairwise, Pair
    <3>3. r \in t.unreadAdd => Pair(r) \notin subs
      BY <3>1 DEF MemberOK
    <3>4. MemberOK(t)'
      BY <1>4, <1>6, <3>1, <3>2, <3>3 DEF MemberOK, Hidden, Pair
    <3> QED BY <1>4, <3>1, <3>4, CatMono
  <2>4. ASSUME t.op = "mark", t.st # "dead" PROVE MarkOK(t)'
    <3>1. MarkOK(t) /\ t.st # "fetched"
      BY <2>1, <2>4 DEF TxOK
    <3>2. r \in t.unreadAdd => Pair(r) \in raced'
      BY <2>2, <2>4, <3>1 DEF MarkOK
    <3> QED BY <1>4, <1>6, <3>1, <3>2 DEF MarkOK, Hidden, Pair
  <2>5. (t.op = "poll" => PollTxOK(t)') /\ (t.op = "star" /\ t.st # "dead" => StarOK(t)') /\ (t.op = "remove" /\ t.st # "dead" => RemoveOK(t)')
    BY <1>4, <1>6, <2>1, PollMono, StarMono, RemoveMono DEF TxOK
  <2>6. (t.op = "strip" /\ t.st # "dead" => StripOK(t)') /\ (t.op = "collapse" => CollapseOK(t)') /\ (t.op = "purge" => PurgeOK(t)')
    BY <1>4, <1>6, <2>1, StripMono, CollapseMono, PurgeMono DEF TxOK
  <2> QED BY <2>1, <2>3, <2>4, <2>5, <2>6 DEF TxOK
<1> QED BY <1>4, <1>7, <1>8, OneStatement

\* A connection ends its transaction or goes on with the locks it has.
Keeps(n, t) ==
  \/ n = Idle
  \/ /\ n.op = t.op /\ n.who = t.who /\ n.cat = t.cat /\ n.subsAdd = t.subsAdd /\ n.subsDel = t.subsDel
     /\ n.feeds = t.feeds \/ n.op = "purge"

LEMMA KeepsLocks == ASSUME NEW n, NEW t, NEW s, Keeps(n, t), ~Locked(t, s) PROVE ~Locked(n, s)
<1>1. CASE n = Idle
  BY <1>1, IdleOK
<1>2. CASE n.op = "purge" /\ n.subsAdd = t.subsAdd /\ n.subsDel = t.subsDel
  BY <1>2 DEF Locked
<1>3. CASE n.op = t.op /\ n.who = t.who /\ n.cat = t.cat /\ n.subsAdd = t.subsAdd /\ n.subsDel = t.subsDel /\ n.feeds = t.feeds
  BY <1>3, SameLocks
<1> QED BY <1>1, <1>2, <1>3 DEF Keeps

LEMMA TxStep ==
  ASSUME SInv, Tables', tx' \in [Conns -> TxType], \A q \in Conns : Keeps(tx'[q], tx[q]),
         \A q \in Conns : \A t : t = tx'[q] => TxOK(t)'
  PROVE  SInv'
<1>1. ASSUME NEW q \in Conns PROVE TxOK(tx[q])'
  <2>1. PICK t : t = tx'[q]
    OBVIOUS
  <2> QED BY <2>1, Lift
<1>2. ASSUME NEW q \in Conns, NEW r \in Conns, q # r PROVE ~Locked(tx'[q], tx'[r])
  <2>1. ~Locked(tx'[q], tx[r])
    BY <1>2, KeepsLocks DEF SInv, Unlocked
  <2> QED BY <2>1, LockedSym, KeepsLocks
<1>3. Unlocked'
  BY <1>2 DEF Unlocked, Locked
<1> QED BY <1>1, <1>3 DEF SInv

\* What a poll knows when it commits.
LEMMA Inserting ==
  ASSUME TypeOK, NEW s \in TxType, s.op = "poll", s.st = "insert", PollTxOK(s)
  PROVE  /\ s.who = Users /\ \E f \in Feeds : s.feeds = {f}
         /\ s.items \subseteq Of(s.feeds) /\ s.hashes \subseteq Of(s.feeds) /\ s.items \cap entries = {}
         /\ \A r \in s.unreadAdd : /\ r = <<r[1], r[2]>> /\ r[1] \in Users /\ r[2] \in s.items /\ FeedOf[r[2]] \in s.feeds
                                   /\ Pair(r) \in subs \cup raced /\ Mode[FeedOf[r[2]]] # "relay"
<1>1. \A r \in s.unreadAdd : r[2] \in s.items /\ Pair(r) \in subs \cup raced /\ Mode[FeedOf[r[2]]] # "relay"
  BY DEF PollTxOK
<1> QED BY <1>1, PlanType DEF PollTxOK, Of

\* The commit of the poll s, on the tables.
Inserted(s) ==
  /\ entries' = entries \cup s.items /\ removedAt \subseteq removedAt' /\ removedAt' \subseteq removedAt \cup s.items
  /\ unread \subseteq unread' /\ unread' \subseteq unread \cup s.unreadAdd
  /\ dedup' = dedup \cup s.hashes
  /\ (s.unreadAdd # {} => removedAt' = removedAt)
  /\ raced \subseteq raced' /\ UNCHANGED <<subs, follows, cat, starred, removed, labels, scenario, retired>>

LEMMA InsertedTables ==
  ASSUME Tables, NEW s \in TxType, s.op = "poll", s.st = "insert", PollTxOK(s), Inserted(s), raced' \subseteq Users \X Feeds
  PROVE  Tables'
<1>1. TypeOK /\ StateOnlyForReaders /\ UnreadIsShown /\ FollowersSubscribed /\ StarShown /\ scenario \in Scenarios
  BY DEF Tables, RowsInStep
<1>2. s.items \subseteq Items /\ s.hashes \subseteq Items /\ s.unreadAdd \subseteq Users \X s.items /\ s.items \cap entries = {}
      /\ \A r \in s.unreadAdd : Pair(r) \in subs \cup raced
  BY <1>1, PlanType, Inserting
<1>3. TypeOK'
  BY <1>1, <1>2 DEF TypeOK, Inserted
<1>4. StateOnlyForReaders'
  BY <1>1, <1>2 DEF StateOnlyForReaders, Inserted, Pair
<1>5. UnreadIsShown'
  <2>1. ASSUME NEW r \in s.unreadAdd PROVE r[2] \notin removedAt' /\ r \notin removed'
    <3>1. r[2] \notin entries
      BY <1>2
    <3> QED BY <1>1, <3>1, KeyType DEF Inserted, TypeOK
  <2>2. ASSUME NEW r \in unread PROVE (r[2] \notin removedAt' /\ r \notin removed') \/ Pair(r) \in raced'
    <3>1. r[2] \in entries
      BY <1>1, KeyType
    <3> QED BY <1>1, <1>2, <3>1 DEF Inserted, UnreadIsShown, Pair
  <2> QED BY <2>1, <2>2 DEF UnreadIsShown, Inserted, Pair
<1>6. StarShown'
  <2>1. \A r \in starred : r[2] \in entries
    BY <1>1, KeyType
  <2> QED BY <1>1, <1>2, <2>1 DEF StarShown, Inserted, Pair
<1>7. FollowersSubscribed' /\ scenario' \in Scenarios
  BY <1>1 DEF FollowersSubscribed, Inserted
<1> QED BY <1>3, <1>4, <1>5, <1>6, <1>7 DEF Tables, RowsInStep

LEMMA InsertedOthers ==
  ASSUME Tables, NEW s \in TxType, s.op = "poll", s.st = "insert", PollTxOK(s), Inserted(s),
         NEW t \in TxType, TxOK(t), ~Locked(s, t), Met(s, t) \subseteq raced'
  PROVE  TxOK(t)'
<1>1. TypeOK
  BY DEF Tables, RowsInStep
<1>2. /\ s.who = Users /\ s.items \subseteq Of(s.feeds) /\ s.hashes \subseteq Of(s.feeds) /\ s.items \cap entries = {}
      /\ \A r \in s.unreadAdd : r[1] \in Users /\ r[2] \in s.items /\ FeedOf[r[2]] \in s.feeds
  BY <1>1, Inserting
<1>3. PICK f \in Feeds : s.feeds = {f}
  BY <1>1, Inserting
<1>4. /\ entries' = entries \cup s.items /\ removedAt \subseteq removedAt' /\ (\A i \in entries : i \in removedAt' => i \in removedAt)
      /\ unread' \subseteq unread \cup s.unreadAdd /\ dedup' = dedup \cup s.hashes
      /\ raced \subseteq raced' /\ UNCHANGED <<subs, follows, cat, starred, removed, labels, scenario, retired>>
  BY <1>2 DEF Inserted
<1>5. \A r \in s.unreadAdd : r[2] \notin entries
  BY <1>2
<1>6. ASSUME t.op \in Members, t.st # "dead" PROVE MemberOK(t)' /\ CatOK(t)'
  <2>1. MemberOK(t) /\ CatOK(t) /\ Pairwise(t) /\ t.st # "fetched" /\ \A x \in t.subsDel : t.op \in {"unsubscribe", "unfollow", "move"}
    BY <1>6, Leaving
  <2>2. ASSUME NEW r \in s.unreadAdd, Pair(r) \in t.subsDel PROVE Pair(r) \in raced'
    <3>1. r[1] \in t.who /\ FeedOf[r[2]] \in t.feeds /\ Unordered(s.op, t.op)
      BY <2>1, <2>2, UnorderedPairs DEF Pairwise, Pair
    <3>2. Pair(r) \in Met(s, t)
      BY <1>2, <2>1, <3>1, MetPair DEF Pair
    <3> QED BY <3>2
  <2>3. MemberOK(t)'
    BY <1>4, <2>1, <2>2 DEF MemberOK, Hidden, Pair
  <2> QED BY <1>4, <2>1, <2>3, CatMono
<1>7. ASSUME t.op = "poll" PROVE PollTxOK(t)'
  <2>1. PollTxOK(t) /\ t.feeds # s.feeds
    BY <1>7 DEF TxOK, Locked
  <2>2. PICK g \in Feeds : t.feeds = {g}
    BY <2>1 DEF PollTxOK
  <2>3. t.items \cap s.items = {} /\ t.items \cap s.hashes = {}
    BY <1>2, <1>3, <2>1, <2>2 DEF PollTxOK, Of
  <2> QED BY <1>4, <2>1, <2>3 DEF PollTxOK, Of, Retired, Mode, Pair
<1>8. t.op = "mark" /\ t.st # "dead" => MarkOK(t)'
  BY <1>4 DEF TxOK, MarkOK, Hidden, Pair
<1>9. t.op = "star" /\ t.st # "dead" => StarOK(t)'
  BY <1>4 DEF TxOK, StarOK
<1>10. t.op = "remove" /\ t.st # "dead" => RemoveOK(t)'
  BY <1>4, <1>5 DEF TxOK, RemoveOK
<1>11. t.op = "strip" /\ t.st # "dead" => StripOK(t)'
  BY <1>4, <1>5 DEF TxOK, StripOK, Pair
<1>12. t.op = "collapse" => CollapseOK(t)'
  BY <1>4, CollapseMono DEF TxOK
<1>13. t.op = "purge" => PurgeOK(t)'
  BY <1>4, PurgeMono DEF TxOK
<1> QED BY <1>6, <1>7, <1>8, <1>9, <1>10, <1>11, <1>12, <1>13 DEF TxOK

LEMMA PollCommitOK == ASSUME SInv, NEW p \in Conns, PollCommit(p) PROVE SInv'
<1>1. PICK s : s = tx[p]
  OBVIOUS
<1>2. s \in TxType /\ TxOK(s) /\ TypeOK /\ StateOnlyForReaders /\ UnreadIsShown /\ FollowersSubscribed /\ StarShown /\ scenario \in Scenarios
  BY <1>1, PlanOK
<1> DEFINE relay == \E f \in s.feeds : Mode[f] = "relay"
           D == IF relay THEN {} ELSE {<<x[1], i>> : x \in {x \in subs : x[2] \in s.feeds}, i \in s.items}
           m == [s EXCEPT !.st = "after", !.items = s.items, !.unreadAdd = {}, !.hashes = {}, !.todo = D]
<1>3. /\ s.op = "poll" /\ s.st = "insert" /\ PollTxOK(s) /\ tx \in [Conns -> TxType]
      /\ raced \subseteq raced' /\ raced' \subseteq Users \X Feeds /\ Meets(p)
  BY <1>1, <1>2, RacedType, MeetsAll DEF PollCommit, SInv, TxOK
<1>4. s.items \ entries = s.items /\ {r \in s.unreadAdd : r[2] \in s.items} = s.unreadAdd
  BY <1>2, <1>3, Inserting
<1>5. /\ entries' = entries \cup s.items /\ removedAt' = (IF relay THEN removedAt \cup s.items ELSE removedAt)
      /\ unread' = unread \cup s.unreadAdd /\ dedup' = dedup \cup s.hashes
      /\ UNCHANGED <<subs, follows, cat, starred, removed, labels, scenario, retired>>
      /\ tx' = [tx EXCEPT ![p].st = "after", ![p].items = s.items, ![p].unreadAdd = {}, ![p].hashes = {}, ![p].todo = D]
  <2> DEFINE ins == s.items \ entries
             E == IF relay THEN {} ELSE {<<x[1], i>> : x \in {x \in subs : x[2] \in s.feeds}, i \in ins}
             A == {r \in s.unreadAdd : r[2] \in ins}
  <2>1. /\ entries' = entries \cup ins /\ removedAt' = (IF relay THEN removedAt \cup ins ELSE removedAt)
        /\ unread' = unread \cup A /\ dedup' = dedup \cup s.hashes
        /\ UNCHANGED <<subs, follows, cat, starred, removed, labels, scenario, retired>>
        /\ tx' = [tx EXCEPT ![p].st = "after", ![p].items = ins, ![p].unreadAdd = {}, ![p].hashes = {}, ![p].todo = E]
    <3>1. /\ entries' = entries \cup ins /\ removedAt' = (IF relay THEN removedAt \cup ins ELSE removedAt)
          /\ dedup' = dedup \cup s.hashes /\ UNCHANGED <<subs, follows, cat, starred, removed, labels, scenario, retired>>
      BY <1>1 DEF PollCommit
    <3>2. unread' = unread \cup A
      BY <1>1 DEF PollCommit
    <3>3. tx' = [tx EXCEPT ![p].st = "after", ![p].items = ins, ![p].unreadAdd = {}, ![p].hashes = {}, ![p].todo = E]
      <4> DEFINE E0 == IF \E f \in tx[p].feeds : Mode[f] = "relay" THEN {}
                       ELSE {<<x[1], i>> : x \in {x \in subs : x[2] \in tx[p].feeds}, i \in tx[p].items \ entries}
      <4>1. tx' = [tx EXCEPT ![p].st = "after", ![p].items = tx[p].items \ entries, ![p].unreadAdd = {}, ![p].hashes = {}, ![p].todo = E0]
        BY DEF PollCommit
      <4>2. E0 = E
        BY <1>1
      <4> HIDE DEF E0, E
      <4> QED BY <1>1, <4>1, <4>2
    <3> QED BY <3>1, <3>2, <3>3
  <2>2. ins = s.items
    BY <1>4
  <2>3. E = D
    BY <2>2, SMTT(30)
  <2>4. A = s.unreadAdd
    BY <1>4, <2>2
  <2> HIDE DEF ins, E, A, D
  <2> QED BY <2>1, <2>2, <2>3, <2>4
<1>6. s.unreadAdd # {} => ~relay
  BY <1>2, <1>3, Inserting
<1>7. Inserted(s)
  BY <1>3, <1>5, <1>6 DEF Inserted
<1>8. D \subseteq Keys /\ \A r \in D : FeedOf[r[2]] \in s.feeds /\ Pair(r) \in subs
  <2> SUFFICES ASSUME NEW r \in D PROVE r \in Keys /\ FeedOf[r[2]] \in s.feeds /\ Pair(r) \in subs
    OBVIOUS
  <2>1. PICK x \in subs, i \in s.items : x[2] \in s.feeds /\ r = <<x[1], i>>
    OBVIOUS
  <2>2. x = <<x[1], x[2]>> /\ x[1] \in Users /\ i \in Items
    BY <1>2, PlanType DEF TypeOK
  <2>3. FeedOf[i] = x[2]
    BY <1>3, <2>1 DEF PollTxOK, Of
  <2> QED BY <2>1, <2>2, <2>3 DEF Keys, Pair
<1>9. \A i \in s.items : i \in entries' /\ (Mode'[FeedOf[i]] = "relay" => i \in removedAt')
  <2>1. \A i \in s.items : FeedOf[i] \in s.feeds
    BY <1>3 DEF PollTxOK, Of
  <2> QED BY <1>5, <2>1 DEF Mode
<1>10. tx' = [tx EXCEPT ![p] = m]
  <2> HIDE DEF D
  <2> QED BY <1>1, <1>3, <1>5 DEF TxType
<1> HIDE DEF D, m
<1>11. PICK n : n = m
  OBVIOUS
<1>12. /\ n \in TxType /\ n.op = "poll" /\ n.st = "after" /\ n.who = s.who /\ n.feeds = s.feeds /\ n.cat = s.cat
       /\ n.subsAdd = s.subsAdd /\ n.subsDel = s.subsDel /\ n.items = s.items /\ n.hashes = {} /\ n.todo = D
  BY <1>2, <1>3, <1>8, <1>11 DEF TxType, m
<1>13. PollTxOK(n)'
  <2>1. PollTxOK(s) /\ subs' = subs
    BY <1>3, <1>5
  <2> QED BY <1>8, <1>9, <1>12, <2>1 DEF PollTxOK, Of
<1>14. TxOK(n)'
  BY <1>12, <1>13 DEF TxOK, Members
<1>15. Tables'
  BY <1>2, <1>3, <1>7, InsertedTables DEF SInv
<1>16. ASSUME NEW q \in Conns, NEW t, t = tx'[q] PROVE TxOK(t)'
  <2>1. CASE q = p
    BY <1>3, <1>10, <1>11, <1>14, <1>16, <2>1
  <2>2. CASE q # p
    <3>1. t = tx[q] /\ t \in TxType /\ TxOK(t) /\ ~Locked(s, t) /\ Met(s, t) \subseteq raced' /\ Tables
      BY <1>1, <1>3, <1>10, <1>16, <2>2, MeetsAll DEF SInv, Unlocked
    <3> QED BY <1>2, <1>3, <1>7, <3>1, InsertedOthers
  <2> QED BY <2>1, <2>2
<1>17. tx' \in [Conns -> TxType] /\ \A q \in Conns : Keeps(tx'[q], tx[q])
  BY <1>1, <1>3, <1>10, <1>11, <1>12 DEF Keeps
<1> QED BY <1>15, <1>16, <1>17, TxStep

-----------------------------------------------------------------------------
(* Entries are deleted.                                                    *)

\* The tables when the entries S go: a hash is kept or the entry is retired.
Deleted(S) ==
  /\ entries' = entries \ S /\ removedAt' = removedAt \ S
  /\ unread' = Without(unread, S) /\ starred' = Without(starred, S)
  /\ removed' = Without(removed, S) /\ labels' = Without(labels, S)
  /\ dedup \subseteq dedup' /\ (\A i \in dedup' : i \in entries \cup dedup \/ Retired(i))
  /\ (\A i \in S : i \in dedup' \/ Retired(i)')
  /\ retired \subseteq retired' /\ raced \subseteq raced'
  /\ UNCHANGED <<subs, follows, cat, scenario>>

LEMMA DeletedTables ==
  ASSUME Tables, NEW S, Deleted(S), raced' \subseteq Users \X Feeds, dedup' \subseteq Items, retired' \subseteq Items \X {"entry", "hash"}
  PROVE  Tables'
<1>1. TypeOK /\ StateOnlyForReaders /\ UnreadIsShown /\ FollowersSubscribed /\ StarShown /\ scenario \in Scenarios
  BY DEF Tables, RowsInStep
<1>2. /\ unread' \subseteq unread /\ starred' \subseteq starred /\ removed' \subseteq removed /\ labels' \subseteq labels
      /\ removedAt' \subseteq removedAt /\ raced \subseteq raced' /\ UNCHANGED <<subs, follows, cat, scenario>>
  BY DEF Deleted, Without
<1>3. TypeOK'
  <2>1. unread \cup starred \cup removed \cup labels \subseteq Users \X entries /\ removedAt \subseteq entries /\ entries \subseteq Items
    BY <1>1 DEF TypeOK
  <2>2. unread' \cup starred' \cup removed' \cup labels' \subseteq Users \X entries'
    BY <2>1 DEF Deleted, Without
  <2>3. removedAt' \subseteq entries' /\ entries' \subseteq Items
    BY <2>1 DEF Deleted
  <2> QED BY <1>1, <1>2, <2>2, <2>3 DEF TypeOK
<1>4. StateOnlyForReaders' /\ UnreadIsShown' /\ FollowersSubscribed' /\ StarShown'
  BY <1>1, <1>2 DEF StateOnlyForReaders, UnreadIsShown, FollowersSubscribed, StarShown, Pair
<1> QED BY <1>1, <1>2, <1>3, <1>4 DEF Tables, RowsInStep

\* The three things a DELETE leaves of an open transaction.
DetachedAs(t, S, d) ==
  \/ /\ \/ t.op \in {"star", "remove", "strip"}
        \/ t.op # "poll" /\ \E r \in t.unreadAdd : r[2] \in S
     /\ d = [t EXCEPT !.st = "dead"]
  \/ t.op = "poll" /\ t.st # "after" /\ d = t
  \/ /\ t.op \in {"star", "remove", "strip"} => t.items \cap S = {}
     /\ t.op # "poll" => \A r \in t.unreadAdd : r[2] \notin S
     /\ t.op = "poll" => t.st = "after"
     /\ d = [t EXCEPT !.items = @ \ S, !.todo = Without(@, S), !.unreadDel = Without(@, S),
                      !.excDel = Without(@, S), !.labelDel = Without(@, S)]

LEMMA DetachedCases == ASSUME NEW t, NEW S PROVE DetachedAs(t, S, Detached(t, S))
<1> DEFINE A == t.op \in {"star", "remove", "strip"} /\ t.items \cap S # {}
           B == t.op # "poll" /\ \E r \in t.unreadAdd : r[2] \in S
           C == t.op = "poll" /\ t.st # "after"
           x == [t EXCEPT !.st = "dead"]
           y == [t EXCEPT !.items = @ \ S, !.todo = Without(@, S), !.unreadDel = Without(@, S),
                          !.excDel = Without(@, S), !.labelDel = Without(@, S)]
<1>1. Detached(t, S) = CASE A \/ B -> x [] C -> t [] OTHER -> y
  BY DEF Detached
<1>2. A \/ B => ~C
  OBVIOUS
<1>3. (A \/ B => Detached(t, S) = x) /\ (C => Detached(t, S) = t) /\ (~A /\ ~B /\ ~C => Detached(t, S) = y)
  <2> HIDE DEF A, B, C, x, y
  <2> QED BY <1>1, <1>2
<1>4. CASE A \/ B
  BY <1>3, <1>4 DEF DetachedAs
<1>5. CASE C
  BY <1>3, <1>5 DEF DetachedAs
<1>6. CASE ~A /\ ~B /\ ~C
  BY <1>3, <1>6 DEF DetachedAs
<1> QED BY <1>4, <1>5, <1>6

LEMMA DetachedType ==
  ASSUME NEW t \in TxType, NEW S
  PROVE  Detached(t, S) \in TxType /\ Keeps(Detached(t, S), t)
<1>1. PICK d : d = Detached(t, S)
  OBVIOUS
<1>2. DetachedAs(t, S, d)
  BY <1>1, DetachedCases
<1>3. d \in TxType /\ d.op = t.op /\ d.who = t.who /\ d.cat = t.cat /\ d.subsAdd = t.subsAdd /\ d.subsDel = t.subsDel /\ d.feeds = t.feeds
  <2>1. CASE d = [t EXCEPT !.st = "dead"]
    BY <2>1 DEF TxType
  <2>2. CASE d = t
    BY <2>2
  <2>3. CASE d = [t EXCEPT !.items = @ \ S, !.todo = Without(@, S), !.unreadDel = Without(@, S),
                           !.excDel = Without(@, S), !.labelDel = Without(@, S)]
    <3>1. Without(t.todo, S) \subseteq t.todo /\ Without(t.unreadDel, S) \subseteq t.unreadDel /\ Without(t.excDel, S) \subseteq t.excDel
          /\ Without(t.labelDel, S) \subseteq t.labelDel /\ t.items \ S \subseteq t.items
      BY DEF Without
    <3>2. Without(t.todo, S) \in SUBSET Keys /\ Without(t.unreadDel, S) \in SUBSET Keys /\ Without(t.excDel, S) \in SUBSET Keys
          /\ Without(t.labelDel, S) \in SUBSET Keys /\ t.items \ S \in SUBSET Items
      BY <3>1 DEF TxType
    <3> QED BY <2>3, <3>2 DEF TxType
  <2> QED BY <1>2, <2>1, <2>2, <2>3 DEF DetachedAs
<1> QED BY <1>1, <1>3 DEF Keeps

LEMMA DeletedOthers ==
  ASSUME Tables, NEW S, Deleted(S), NEW t \in TxType, TxOK(t), NEW d, d = Detached(t, S)
  PROVE  TxOK(d)'
<1>1. DetachedAs(t, S, d)
  BY DetachedCases
<1>2. /\ entries' = entries \ S /\ removedAt' = removedAt \ S
      /\ (\A r : r \in unread' <=> r \in unread /\ r[2] \notin S) /\ (\A r : r \in starred' <=> r \in starred /\ r[2] \notin S)
      /\ (\A r : r \in removed' <=> r \in removed /\ r[2] \notin S) /\ (\A r : r \in labels' <=> r \in labels /\ r[2] \notin S)
      /\ dedup \subseteq dedup' /\ (\A i \in dedup' : i \in entries \cup dedup \/ Retired(i)) /\ (\A i \in S : i \in dedup' \/ Retired(i)')
      /\ retired \subseteq retired' /\ raced \subseteq raced' /\ UNCHANGED <<subs, follows, cat, scenario>>
  BY DEF Deleted, Without
<1>3. CASE d = [t EXCEPT !.st = "dead"] /\ (t.op \in {"star", "remove", "strip"} \/ (t.op # "poll" /\ \E r \in t.unreadAdd : r[2] \in S))
  <2>1. d.op = t.op /\ d.st = "dead" /\ t.op # "poll"
    BY <1>3 DEF TxType
  <2>2. t.op \notin {"collapse", "purge"}
    BY <1>3 DEF TxOK, CollapseOK, PurgeOK, LeaveOK
  <2> QED BY <2>1, <2>2 DEF TxOK
<1>4. CASE t.op = "poll" /\ t.st # "after" /\ d = t
  <2>1. PollTxOK(t) /\ t.st \in {"fetched", "insert"}
    BY <1>4 DEF TxOK
  <2>2. \A i \in t.items : i \in dedup' => Retired(i)' \/ i \in dedup
    BY <1>2, <2>1 DEF PollTxOK, Retired
  <2>3. \A i \in t.items : Retired(i) => Retired(i)'
    BY <1>2 DEF Retired
  <2>4. PollTxOK(t)'
    BY <1>2, <2>1, <2>2, <2>3 DEF PollTxOK, Of, Mode, Pair
  <2> QED BY <1>4, <2>1, <2>4 DEF TxOK, Members
<1>5. CASE /\ t.op \in {"star", "remove", "strip"} => t.items \cap S = {}
           /\ t.op # "poll" => \A r \in t.unreadAdd : r[2] \notin S
           /\ t.op = "poll" => t.st = "after"
           /\ d = [t EXCEPT !.items = @ \ S, !.todo = Without(@, S), !.unreadDel = Without(@, S),
                            !.excDel = Without(@, S), !.labelDel = Without(@, S)]
  <2>1. /\ d.op = t.op /\ d.st = t.st /\ d.who = t.who /\ d.feeds = t.feeds /\ d.cat = t.cat /\ d.subsAdd = t.subsAdd /\ d.subsDel = t.subsDel
        /\ d.unreadAdd = t.unreadAdd /\ d.hashes = t.hashes /\ d.items = t.items \ S
        /\ d.todo = Without(t.todo, S) /\ d.unreadDel = Without(t.unreadDel, S) /\ d.excDel = Without(t.excDel, S) /\ d.labelDel = Without(t.labelDel, S)
    BY <1>5 DEF TxType
  <2>2. /\ (\A r : r \in d.todo <=> r \in t.todo /\ r[2] \notin S) /\ (\A r : r \in d.unreadDel <=> r \in t.unreadDel /\ r[2] \notin S)
        /\ (\A r : r \in d.excDel <=> r \in t.excDel /\ r[2] \notin S) /\ (\A r : r \in d.labelDel <=> r \in t.labelDel /\ r[2] \notin S)
    BY <2>1 DEF Without
  <2>3. ASSUME t.op \in Members, t.st # "dead" PROVE MemberOK(d)' /\ CatOK(d)'
    <3>1. MemberOK(t) /\ CatOK(t) /\ \A r \in t.unreadAdd : r[2] \notin S
      BY <1>5, <2>3 DEF TxOK, Members
    <3>2. MemberOK(d)'
      BY <1>2, <2>1, <2>2, <3>1 DEF MemberOK, Hidden, Pair
    <3>3. CatOK(t)'
      BY <1>2, <3>1, CatMono
    <3>4. CatOK(d)'
      BY <2>1, <3>3 DEF CatOK
    <3> QED BY <3>2, <3>4
  <2>4. ASSUME t.op = "poll" PROVE PollTxOK(d)'
    <3>1. PollTxOK(t) /\ t.st = "after"
      BY <1>5, <2>4 DEF TxOK
    <3> QED BY <1>2, <2>1, <2>2, <3>1 DEF PollTxOK, Of, Mode, Pair
  <2>5. ASSUME t.op = "mark", t.st # "dead" PROVE MarkOK(d)'
    BY <1>2, <1>5, <2>1, <2>5 DEF TxOK, MarkOK, Hidden, Pair
  <2>6. ASSUME t.op = "star", t.st # "dead" PROVE StarOK(d)'
    BY <1>2, <1>5, <2>1, <2>6 DEF TxOK, StarOK
  <2>7. ASSUME t.op = "remove", t.st # "dead" PROVE RemoveOK(d)'
    BY <1>2, <1>5, <2>1, <2>2, <2>7 DEF TxOK, RemoveOK
  <2>8. ASSUME t.op = "strip", t.st # "dead" PROVE StripOK(d)'
    BY <1>2, <1>5, <2>1, <2>2, <2>8 DEF TxOK, StripOK, Pair
  <2>9. ASSUME LeaveOK(t) PROVE LeaveOK(d)'
    BY <1>2, <2>1, <2>9 DEF LeaveOK, Pair
  <2>10. ASSUME t.op = "collapse" PROVE CollapseOK(d)'
    <3>1. CollapseOK(t)
      BY <2>10 DEF TxOK
    <3>2. \A i \in t.hashes : i \in entries' \cup dedup' \/ Retired(i)'
      BY <1>2, <3>1 DEF CollapseOK, Retired
    <3> QED BY <2>1, <2>9, <3>1, <3>2 DEF CollapseOK
  <2>11. ASSUME t.op = "purge" PROVE PurgeOK(d)'
    <3>1. PurgeOK(t)
      BY <2>11 DEF TxOK
    <3> QED BY <1>2, <2>1, <2>9, <3>1 DEF PurgeOK, Hidden
  <2> QED BY <2>1, <2>3, <2>4, <2>5, <2>6, <2>7, <2>8, <2>10, <2>11 DEF TxOK
<1> QED BY <1>1, <1>3, <1>4, <1>5 DEF DetachedAs

\* A DELETE by p, which goes on as n.
LEMMA DeleteOK ==
  ASSUME SInv, NEW p \in Conns, NEW S, NEW n \in TxType, Delete(p, S, n), Deleted(S), Keeps(n, tx[p]), TxOK(n)',
         dedup' \subseteq Items, retired' \subseteq Items \X {"entry", "hash"}
  PROVE  SInv'
<1>1. tx \in [Conns -> TxType] /\ Tables /\ TypeOK /\ Meets(p) /\ tx' = [q \in Conns |-> IF q = p THEN n ELSE Detached(tx[q], S)]
  BY DEF SInv, Tables, RowsInStep, Delete
<1>2. Tables'
  BY <1>1, RacedType, DeletedTables
<1>3. tx' \in [Conns -> TxType]
  BY <1>1, DetachedType
<1>4. \A q \in Conns : Keeps(tx'[q], tx[q])
  BY <1>1, DetachedType
<1>5. ASSUME NEW q \in Conns, NEW d, d = tx'[q] PROVE TxOK(d)'
  <2>1. CASE q = p
    BY <1>1, <1>5, <2>1
  <2>2. CASE q # p
    <3>1. PICK t : t = tx[q]
      OBVIOUS
    <3>2. t \in TxType /\ TxOK(t) /\ d = Detached(t, S)
      BY <1>1, <1>5, <2>2, <3>1 DEF SInv
    <3> QED BY <1>1, <3>2, DeletedOthers
  <2> QED BY <2>1, <2>2
<1> QED BY <1>2, <1>3, <1>4, <1>5, TxStep

LEMMA IdleAfter == TxOK(Idle)' /\ \A t : Keeps(Idle, t)
BY DEF Idle, TxOK, Members, Keeps

LEMMA PollDoneOK == ASSUME SInv, NEW p \in Conns, PollDone(p) PROVE SInv'
<1>1. PICK drop \in SUBSET (tx[p].items \cap entries) : dedup' = dedup \cup drop /\ Delete(p, drop, Idle)
  BY DEF PollDone
<1>2. TypeOK /\ UNCHANGED <<subs, follows, cat, retired>> /\ raced \subseteq raced'
  BY <1>1, MeetsAll DEF PollDone, SInv, Tables, RowsInStep, Delete
<1>3. Deleted(drop)
  BY <1>1, <1>2 DEF Deleted, Delete
<1>4. dedup' \subseteq Items /\ retired' \subseteq Items \X {"entry", "hash"}
  BY <1>1, <1>2 DEF TypeOK
<1> QED BY <1>1, <1>3, <1>4, IdleOK, IdleAfter, DeleteOK

LEMMA CommitCollapseOK == ASSUME SInv, NEW p \in Conns, CommitCollapse(p) PROVE SInv'
<1>1. PICK s : s = tx[p]
  OBVIOUS
<1>2. s \in TxType /\ TxOK(s) /\ TypeOK /\ s.op = "collapse" /\ dedup' = dedup \cup s.hashes /\ Delete(p, s.items, Idle)
  BY <1>1, PlanOK DEF CommitCollapse
<1>3. CollapseOK(s)
  BY <1>2 DEF TxOK
<1>4. UNCHANGED <<subs, follows, cat, retired>> /\ raced \subseteq raced'
  BY <1>2, MeetsAll DEF CommitCollapse, Delete
<1>5. Deleted(s.items)
  BY <1>2, <1>3, <1>4 DEF Deleted, Delete, CollapseOK
<1>6. dedup' \subseteq Items /\ retired' \subseteq Items \X {"entry", "hash"}
  BY <1>2, <1>4, PlanType DEF TypeOK
<1> QED BY <1>2, <1>5, <1>6, IdleOK, IdleAfter, DeleteOK

LEMMA PurgeEntriesOK == ASSUME SInv, NEW p \in Conns, PurgeEntries(p) PROVE SInv'
<1>1. PICK s : s = tx[p]
  OBVIOUS
<1>2. s \in TxType /\ TxOK(s) /\ TypeOK /\ StarShown /\ s.op = "purge" /\ s.st # "dedup" /\ retired' = retired \cup (s.items \X {"entry"})
  BY <1>1, PlanOK DEF PurgeEntries
<1>3. PurgeOK(s)
  BY <1>2 DEF TxOK
<1>4. PICK next \in {s.st, NextStage(s.st)}, S \in SUBSET (entries \ s.items) :
        /\ IF next = "dedup" THEN S = {} ELSE \A i \in S : Eligible(next, i)
        /\ Delete(p, s.items, [s EXCEPT !.st = next, !.items = S, !.feeds = {FeedOf[i] : i \in S}])
  BY <1>1 DEF PurgeEntries
<1> DEFINE F == {FeedOf[i] : i \in S}
           m == [s EXCEPT !.st = next, !.items = S, !.feeds = F]
<1>5. next \in {"removed", "stripped", "expired", "dedup"}
  BY <1>2, <1>3, <1>4 DEF PurgeOK, NextStage
<1>6. S \in SUBSET Items /\ F \in SUBSET Feeds /\ \A i \in S : FeedOf[i] \in F
  <2>1. S \in SUBSET Items
    BY <1>2 DEF TypeOK
  <2> QED BY <2>1, FeedsOf
<1>7. Delete(p, s.items, m)
  BY <1>4
<1> HIDE DEF F, m
<1>8. PICK n : n = m
  OBVIOUS
<1>9. /\ n \in TxType /\ n.op = "purge" /\ n.st = next /\ n.items = S /\ n.feeds = F /\ n.unreadAdd = s.unreadAdd
      /\ n.who = s.who /\ n.cat = s.cat /\ n.subsAdd = s.subsAdd /\ n.subsDel = s.subsDel
  BY <1>2, <1>5, <1>6, <1>8 DEF TxType, m
<1>10. UNCHANGED <<subs, follows, cat, dedup>> /\ raced \subseteq raced' /\ retired \subseteq retired'
  BY <1>2, <1>7, MeetsAll DEF PurgeEntries, Delete
<1>11. \A i \in s.items : Retired(i)'
  BY <1>2 DEF Retired
<1>12. Deleted(s.items)
  BY <1>7, <1>10, <1>11 DEF Deleted, Delete
<1>13. retired' \subseteq Items \X {"entry", "hash"} /\ dedup' \subseteq Items
  BY <1>2, <1>10, PlanType DEF TypeOK
\* What the next statement looks at is not what this one has deleted.
<1>14. /\ \A i \in S : i \in removedAt => i \in removedAt'
       /\ \A i \in S, u \in Users : <<u, i>> \in removed => <<u, i>> \in removed'
       /\ starred' \subseteq starred
  BY <1>4, <1>7 DEF Delete, Without
<1>15. \A r \in starred : r[2] \in S => Pair(r) \in raced
  <2>1. CASE next \in {"removed", "expired"}
    <3>1. \A i \in S : Starless(i)
      BY <1>4, <2>1 DEF Eligible, LeftWithoutReader
    <3> QED BY <1>2, <3>1, StarlessLeaves
  <2>2. CASE next = "stripped"
    BY <1>2, <1>4, <2>2 DEF Eligible, StarShown
  <2>3. CASE next = "dedup"
    BY <1>4, <2>3
  <2> QED BY <1>5, <2>1, <2>2, <2>3
<1>16. ASSUME next \in {"removed", "stripped"}, NEW u \in Users, NEW i \in S PROVE <<u, FeedOf[i]>> \notin subs' \/ Hidden(<<u, i>>)'
  <2>1. CASE next = "removed"
    BY <1>4, <1>10, <1>14, <2>1 DEF Eligible, LeftWithoutReader, Hidden
  <2>2. CASE next = "stripped"
    BY <1>4, <1>14, <2>2 DEF Eligible, Hidden
  <2> QED BY <1>16, <2>1, <2>2
<1>17. LeaveOK(n)'
  BY <1>3, <1>6, <1>9, <1>10, <1>14, <1>15 DEF PurgeOK, LeaveOK, Pair
<1>18. PurgeOK(n)'
  BY <1>4, <1>5, <1>9, <1>16, <1>17 DEF PurgeOK
<1>19. TxOK(n)'
  BY <1>5, <1>9, <1>18 DEF TxOK, Members
<1>20. Keeps(n, tx[p])
  BY <1>1, <1>2, <1>9 DEF Keeps
<1> QED BY <1>7, <1>8, <1>9, <1>12, <1>13, <1>19, <1>20, DeleteOK

-----------------------------------------------------------------------------
(* The specification.                                                      *)

LEMMA InitOK == Init => SInv
<1> SUFFICES ASSUME Init PROVE SInv
  OBVIOUS
<1>1. TypeOK /\ scenario \in Scenarios
  BY StoreAssumption DEF Init, TypeOK
<1>2. StateOnlyForReaders /\ UnreadIsShown /\ FollowersSubscribed /\ StarShown
  BY DEF Init, StateOnlyForReaders, UnreadIsShown, FollowersSubscribed, StarShown
<1>3. tx \in [Conns -> TxType] /\ \A p \in Conns : tx[p] = Idle
  BY IdleOK DEF Init
<1>4. Unlocked /\ \A p \in Conns : TxOK(tx[p])
  BY <1>3, IdleOK DEF Unlocked
<1> QED BY <1>1, <1>2, <1>3, <1>4 DEF SInv, Tables, RowsInStep

\* One fact per action: it keeps the invariant.
LEMMA NextOK == ASSUME SInv, Next PROVE SInv'
<1>1. ASSUME NEW p \in Conns,
             \/ Rollback(p) \/ CommitMembership(p) \/ PollInsert(p) \/ PollCommit(p) \/ FilterAction(p) \/ PollDone(p)
             \/ CommitMark(p) \/ CommitStar(p) \/ CommitRemove(p) \/ CommitStrip(p)
             \/ CommitCollapse(p) \/ PurgeEntries(p) \/ PurgeDedup(p)
      PROVE  SInv'
  BY <1>1, RollbackOK, CommitMembershipOK, PollInsertOK, PollCommitOK, FilterActionOK, PollDoneOK, CommitMarkOK, CommitStarOK,
     CommitRemoveOK, CommitStripOK, CommitCollapseOK, PurgeEntriesOK, PurgeDedupOK
<1>2. ASSUME NEW p \in Conns, NEW S \in SUBSET entries, Collapse(p, S) \/ PurgeBegin(p, S) PROVE SInv'
  BY <1>2, CollapseBeginOK, PurgeBeginOK
<1>3. ASSUME NEW p \in Conns, NEW i \in Items, Strip(p, i) PROVE SInv'
  BY <1>3, StripOKBegin
<1>4. ASSUME NEW p \in Conns, NEW f \in Feeds, PollFetched(p, f) \/ \E c \in Cats \cup {NoCat} : MoveFeed(p, f, c) PROVE SInv'
  BY <1>4, PollFetchedOK, MoveOK
<1>5. ASSUME NEW p \in Conns, NEW u \in Users,
             \/ \E f \in Feeds : Subscribe(p, u, f) \/ Unsubscribe(p, u, f)
             \/ \E c \in Cats : FollowCategory(p, u, c) \/ UnfollowCategory(p, u, c)
      PROVE  SInv'
  BY <1>5, SubscribeOK, UnsubscribeOK, FollowOK, UnfollowOK
<1>6. ASSUME NEW p \in Conns, NEW u \in Users, NEW i \in Items,
             MarkUnread(p, u, i) \/ Star(p, u, i) \/ MarkRemoved(p, u, i) \/ WebhookRemove(p, u, i)
      PROVE  SInv'
  BY <1>6, MarkUnreadOK, StarBeginOK, MarkRemovedOK, WebhookRemoveOK
<1>7. ASSUME NEW u, NEW S, MarkRead(u, S) PROVE SInv'
  BY <1>7, MarkReadOK
<1>8. ASSUME NEW u, NEW i, Unstar(u, i) PROVE SInv'
  BY <1>8, UnstarOK
<1> QED BY <1>1, <1>2, <1>3, <1>4, <1>5, <1>6, <1>7, <1>8, Zenon DEF Next

LEMMA StutterOK == ASSUME SInv, UNCHANGED vars PROVE SInv'
<1>1. UNCHANGED <<tables, tx, scenario, raced, retired>>
  BY DEF vars
<1>2. UNCHANGED <<subs, follows, cat, entries, removedAt, dedup, unread, starred, removed, labels, scenario, retired>>
  BY <1>1 DEF tables
<1>3. Tables'
  BY <1>1, TablesSame DEF SInv, Tables, RowsInStep, TypeOK
<1>4. ASSUME NEW q \in Conns, NEW t, t = tx[q] PROVE TxOK(t)'
  <2>1. TxOK(t)
    BY <1>4 DEF SInv
  <2> QED BY <1>1, <1>2, <2>1, AllSame
<1> QED BY <1>1, <1>3, <1>4, OneStatement

LEMMA AlwaysSInv == Spec => []SInv
<1>1. SInv /\ [Next]_vars => SInv'
  BY NextOK, StutterOK
<1> QED BY InitOK, <1>1, PTL DEF Spec

\* For any users, feeds, items and connections, whatever transactions overlap
\* at READ COMMITTED, a user's unread, starred, removed and label rows belong
\* to a feed the user reads, an unread entry is shown, and a follower of a
\* category is subscribed to its feeds, except for a pair two unordered
\* writers met on.
THEOREM RowsInStepHolds == Spec => []RowsInStep
<1>1. SInv => RowsInStep
  BY DEF SInv, Tables
<1> QED BY AlwaysSInv, <1>1, PTL

KnownStep == \A i \in entries' \ entries : i \in dedup => \E k \in {"entry", "hash"} : <<i, k>> \in retired
SparingStep ==
  \A i \in entries \ entries', u \in Users :
    /\ <<u, i>> \in starred => <<u, FeedOf[i]>> \in raced'
    /\ (<<u, i>> \in unread /\ \E p \in Conns : tx[p].op = "purge" /\ tx[p].st # "expired" /\ i \in tx[p].items)
         => <<u, FeedOf[i]>> \in raced'

\* The four steps that insert or delete entries.
EntryStep(p) == PollCommit(p) \/ PollDone(p) \/ CommitCollapse(p) \/ PurgeEntries(p)

LEMMA EntriesChange == ASSUME Next PROVE (\E p \in Conns : EntryStep(p)) \/ entries' = entries
<1>1. ASSUME NEW p \in Conns,
             \/ Rollback(p) \/ CommitMembership(p) \/ PollInsert(p) \/ FilterAction(p)
             \/ CommitMark(p) \/ CommitStar(p) \/ CommitRemove(p) \/ CommitStrip(p) \/ PurgeDedup(p)
      PROVE  entries' = entries
  BY <1>1 DEF Rollback, CommitMembership, PollInsert, FilterAction, CommitMark, CommitStar, CommitRemove, CommitStrip, PurgeDedup, tables
<1>2. ASSUME NEW p \in Conns, NEW t, Begin(p, t) PROVE entries' = entries
  BY <1>2 DEF Begin, tables
<1>3. ASSUME NEW p \in Conns, NEW S \in SUBSET entries, Collapse(p, S) \/ PurgeBegin(p, S) PROVE entries' = entries
  BY <1>2, <1>3 DEF Collapse, PurgeBegin
<1>4. ASSUME NEW p \in Conns, NEW i \in Items, Strip(p, i) PROVE entries' = entries
  BY <1>2, <1>4 DEF Strip
<1>5. ASSUME NEW p \in Conns, NEW f \in Feeds, PollFetched(p, f) \/ \E c \in Cats \cup {NoCat} : MoveFeed(p, f, c) PROVE entries' = entries
  BY <1>2, <1>5 DEF PollFetched, MoveFeed
<1>6. ASSUME NEW p \in Conns, NEW u \in Users,
             \/ \E f \in Feeds : Subscribe(p, u, f) \/ Unsubscribe(p, u, f)
             \/ \E c \in Cats : FollowCategory(p, u, c) \/ UnfollowCategory(p, u, c)
      PROVE  entries' = entries
  BY <1>2, <1>6 DEF Subscribe, Unsubscribe, FollowCategory, UnfollowCategory
<1>7. ASSUME NEW p \in Conns, NEW u \in Users, NEW i \in Items,
             MarkUnread(p, u, i) \/ Star(p, u, i) \/ MarkRemoved(p, u, i) \/ WebhookRemove(p, u, i)
      PROVE  entries' = entries
  BY <1>2, <1>7 DEF MarkUnread, Star, MarkRemoved, WebhookRemove
<1>8. ASSUME NEW u, NEW S, MarkRead(u, S) \/ Unstar(u, S) PROVE entries' = entries
  BY <1>8 DEF MarkRead, Unstar
<1> QED BY <1>1, <1>3, <1>4, <1>5, <1>6, <1>7, <1>8, Zenon DEF Next, EntryStep

\* What the purge of removed entries is about is not unread, unless raced.
LEMMA PurgedNotUnread ==
  ASSUME SInv, NEW p \in Conns, tx[p].op = "purge", tx[p].st # "expired", NEW u \in Users, NEW i \in tx[p].items, <<u, i>> \in unread
  PROVE  <<u, FeedOf[i]>> \in raced
<1>1. PICK s : s = tx[p]
  OBVIOUS
<1>2. TxOK(s) /\ StateOnlyForReaders /\ UnreadIsShown
  BY <1>1, PlanOK
<1>3. PurgeOK(s) /\ i \in s.items /\ s.st # "expired"
  BY <1>1, <1>2 DEF TxOK
<1>4. <<u, FeedOf[i]>> \in raced \/ <<u, FeedOf[i]>> \notin subs \/ Hidden(<<u, i>>)
  BY <1>3 DEF PurgeOK
<1> QED BY <1>2, <1>4 DEF StateOnlyForReaders, UnreadIsShown, Hidden

LEMMA EntryStepKept == ASSUME SInv, NEW p \in Conns, EntryStep(p) PROVE KnownStep /\ SparingStep
<1>1. PICK s : s = tx[p]
  OBVIOUS
<1>2. s \in TxType /\ TxOK(s) /\ TypeOK /\ StateOnlyForReaders /\ UnreadIsShown /\ FollowersSubscribed /\ StarShown /\ scenario \in Scenarios
  BY <1>1, PlanOK
<1>3. raced \subseteq raced'
  <2>1. Meets(p)
    <3>1. PollCommit(p) => Meets(p)
      BY DEF PollCommit
    <3>2. (PollDone(p) => Meets(p)) /\ (CommitCollapse(p) => Meets(p))
      BY DEF PollDone, CommitCollapse, Delete
    <3>3. PurgeEntries(p) => Meets(p)
      BY DEF PurgeEntries, Delete
    <3> QED BY <3>1, <3>2, <3>3 DEF EntryStep
  <2> QED BY <2>1, MeetsAll
<1>4. KnownStep
  <2>1. CASE PollCommit(p)
    <3>1. s.op = "poll" /\ s.st = "insert" /\ entries' \ entries \subseteq s.items /\ PollTxOK(s)
      BY <1>1, <1>2, <2>1 DEF PollCommit, TxOK
    <3> QED BY <3>1 DEF KnownStep, PollTxOK, Retired
  <2>2. CASE PollDone(p) \/ CommitCollapse(p) \/ PurgeEntries(p)
    BY <2>2 DEF PollDone, CommitCollapse, PurgeEntries, Delete, KnownStep
  <2> QED BY <2>1, <2>2 DEF EntryStep
<1>5. ASSUME NEW i \in entries \ entries', NEW u \in Users, <<u, i>> \in starred PROVE <<u, FeedOf[i]>> \in raced
  <2>1. CASE PollDone(p)
    <3>1. PICK drop \in SUBSET (s.items \cap entries) : ((\E f \in s.feeds : Mode[f] # "relay") => drop = {}) /\ Delete(p, drop, Idle)
      BY <1>1, <2>1 DEF PollDone
    <3>2. PollTxOK(s) /\ s.st = "after"
      BY <1>1, <1>2, <2>1 DEF PollDone, TxOK
    <3>3. i \in drop
      BY <1>5, <3>1 DEF Delete
    <3>4. FeedOf[i] \in s.feeds /\ Mode[FeedOf[i]] = "relay"
      BY <3>1, <3>2, <3>3 DEF PollTxOK, Of
    <3>5. i \in removedAt
      BY <3>1, <3>2, <3>3, <3>4 DEF PollTxOK
    <3> QED BY <1>2, <1>5, <3>5 DEF StarShown, Pair
  <2>2. CASE CommitCollapse(p) \/ PurgeEntries(p)
    <3>1. i \in s.items
      BY <1>1, <1>5, <2>2 DEF CommitCollapse, PurgeEntries, Delete
    <3>2. LeaveOK(s)
      BY <1>1, <1>2, <2>2 DEF CommitCollapse, PurgeEntries, TxOK, CollapseOK, PurgeOK
    <3> QED BY <1>5, <3>1, <3>2 DEF LeaveOK, Pair
  <2>3. ~PollCommit(p)
    BY <1>5 DEF PollCommit
  <2> QED BY <2>1, <2>2, <2>3 DEF EntryStep
<1> QED BY <1>3, <1>4, <1>5, PurgedNotUnread DEF SparingStep

\* For any users, feeds, items and connections: an item whose hash
\* feed_entry_dedup holds is not inserted again, even when it is collapsed or
\* stripped while a poll is inserting, unless retention has forgotten it; and
\* no starred entry is deleted, nor an unread one by the purge of removed
\* entries, unless the star or the row raced with the deletion.
THEOREM EntriesKeptHolds == Spec => EntriesKept
<1>1. SInv /\ [Next]_vars => [KnownStep]_vars /\ [SparingStep]_vars
  <2>1. ASSUME SInv, Next PROVE KnownStep /\ SparingStep
    <3>1. CASE entries' = entries
      BY <3>1 DEF KnownStep, SparingStep
    <3> QED BY <2>1, <3>1, EntriesChange, EntryStepKept
  <2> QED BY <2>1
<1>2. Spec => [][KnownStep]_vars /\ [][SparingStep]_vars
  BY AlwaysSInv, <1>1, PTL DEF Spec
<1> QED BY <1>2 DEF EntriesKept, KnownStaysKnown, PurgeSparesReaders, KnownStep, SparingStep

=============================================================================
