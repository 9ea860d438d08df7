--------------------------- MODULE SourcesProofs ---------------------------
(***************************************************************************)
(* The polls for any feeds, channels, pollers, page sizes and limits: no   *)
(* cursor runs ahead of the entries, and the limiters the polls go through *)
(* (the host's slots, the slots and the cooldown of Max, Telegram's fetch  *)
(* slots and the shared proxy client) hold while polls start, fail, are    *)
(* put off and are cut short by a restart.                                 *)
(*                                                                         *)
(* The inductive invariant PInv has two halves.  DInv is about the data:   *)
(* CursorCovered says nothing of the polls under way, so each of them is   *)
(* Good: what the state it carries passes over is stored, was left, or is  *)
(* among the posts it brings along (Brought); the item set it compares     *)
(* with was stored; and the pages a Telegram poll has read so far are one  *)
(* interval that starts right after the cursor (Paged), or else the last   *)
(* page's newest message would be a cursor beyond an unread one.  LInv is  *)
(* about the limiters: every counter is the number of polls at the step    *)
(* that holds the resource, which is what a forgotten release would break. *)
(***************************************************************************)
EXTENDS Sources, FiniteSetTheorems, NaturalsInduction, WellFoundedInduction, TLAPS

(***************************************************************************)
(* The invariant                                                           *)
(***************************************************************************)
Post      == Channels \X Nat
SlotSteps == {"telegram", "proxy", "socks", "get"}      \* of a Telegram poll
Steps     == SlotSteps \cup {"idle", "max", "fetch", "record"}

StatesKept == {st \in States : Len(st.seen) <= SeenKeep}
FeedRows  == [row : BOOLEAN, st : StatesKept, etag : Nat, items : SUBSET Post,
              stored : SUBSET Post, left : SUBSET Post]
PollRows  == [pc : Steps, st : StatesKept, etag : Nat, items : SUBSET Post,
              chan : Channels \cup {"none"}, base : Nat, page : Nat, from : Nat, tries : Nat,
              got : SUBSET (Nat \cup Post), miss : SUBSET Post,
              out : {"none", "ok", "same", "fail", "defer", "layout"}]

Tables ==
  /\ scene \in Scenes
  /\ posts \in [Channels -> Nat] /\ url \in [Feeds -> Channels]
  /\ db \in [Feeds -> FeedRows]
  /\ poll \in [Pollers -> PollRows]
  /\ limited \subseteq Channels /\ faults \in 0..scene.budget

\* Which steps a poll of this kind takes and what it holds there: numbers of
\* posts while it asks, posts once it records.
PollPlace(r) ==
  /\ r.pc # "idle" => r.chan \in Channels /\ r.base <= posts[r.chan]
  /\ r.pc \in SlotSteps => Kind = "telegram"
  /\ r.pc = "max" => Kind = "max"
  /\ r.pc \in SlotSteps \cup {"max", "fetch"} => r.got \subseteq 1..posts[r.chan]
  /\ r.pc = "record" => r.got \subseteq Post

CursorIn(r) == IF r.st.chan = r.chan THEN r.st.cursor ELSE 0

\* The pages read so far are an interval without a gap after the cursor.
Paged(r) ==
  IF r.page = 0 THEN r.got = {}
  ELSE \E a, b \in Nat : /\ 1 <= a /\ a <= b /\ b <= posts[r.chan] /\ r.got = a..b
                         /\ IF CursorIn(r) > 0 THEN a = CursorIn(r) + 1 /\ b = r.from ELSE a = r.from

\* What the poll will store, or count as out of sight, with its state.
Brought(r) == IF r.pc = "record" /\ r.out = "ok" THEN r.got \cup r.miss ELSE {}

PollCovered(f, r) ==
  /\ r.items \subseteq db[f].stored
  /\ Kind \in CursorKinds \ {"telegram"} /\ r.pc # "idle" => r.chan = url[f]
  /\ PassedBy(url[f], r.st, r.etag) \subseteq db[f].stored \cup db[f].left \cup Brought(r)

FeedCovered(f) ==
  /\ Kind \in CursorKinds => db[f].row
  /\ Passed(f) \subseteq db[f].stored \cup db[f].left

\* The limiters count the polls at the steps that hold them.
MaxHolders == {p \in Pollers : Kind = "max" /\ poll[p].pc = "fetch"}
MaxOK == /\ maxIn = Cardinality(MaxHolders) /\ maxNext \in BOOLEAN /\ maxUntil \in BOOLEAN /\ banned \in BOOLEAN
         /\ banned => maxUntil

Running == {p \in Workers : poll[p].pc # "idle"}
HostOK  == busy = Cardinality(Running) /\ busy <= HostLimit

\* A poll at step x has the endpoint g.
Lend(x, g) ==
  /\ x \notin {"socks", "get"} \/ scene.mode # "service" => g = "none"
  /\ x = "socks" => g # "none"
  /\ x \in {"proxy", "socks"} => scene.mode = "service"
Lent == \A p \in Pollers : Lend(poll[p].pc, given[p])

(***************************************************************************)
(* Intervals of posts: what a page, an API or a document shows             *)
(***************************************************************************)
LEMMA MaxIs ==
  ASSUME NEW S \in SUBSET Int, NEW m \in S, \A x \in S : x <= m
  PROVE  Max(S) = m
<1>1. \A x \in S : (\A y \in S : x >= y) <=> x = m
  OBVIOUS
<1> QED BY <1>1 DEF Max

LEMMA MinIs ==
  ASSUME NEW S \in SUBSET Int, NEW m \in S, \A x \in S : m <= x
  PROVE  Min(S) = m
<1>1. \A x \in S : (\A y \in S : x <= y) <=> x = m
  OBVIOUS
<1> QED BY <1>1 DEF Min

LEMMA LeastNat ==
  ASSUME NEW T \in SUBSET Nat, T # {}
  PROVE  \E n \in T : \A m \in T : n <= m
<1>1. PICK n \in T : \A m \in T : ~(<<m, n>> \in OpToRel(<, Nat))
  BY NatLessThanWellFounded, WFMin, Zenon
<1>2. \A m \in T : m \in Nat /\ n \in Nat /\ ~(m < n)
  BY <1>1 DEF OpToRel
<1> QED BY <1>2

\* The latest of some posts published so far is a number.
LEMMA LatestType ==
  ASSUME NEW n \in Nat, NEW S \in SUBSET (0..n)
  PROVE  Latest(S) \in S \cup {0}
<1> DEFINE T == {n - i : i \in S \cup {0}}
<1>1. T \in SUBSET Nat /\ T # {}
  OBVIOUS
<1>2. PICK t \in T : \A u \in T : t <= u
  BY <1>1, LeastNat
<1>3. PICK m \in S \cup {0} : t = n - m
  BY <1>2
<1>4. \A x \in S \cup {0} : x <= m
  BY <1>2, <1>3
<1>5. S \cup {0} \in SUBSET Int
  OBVIOUS
<1>6. Max(S \cup {0}) = m
  BY <1>3, <1>4, <1>5, MaxIs
<1> QED BY <1>3, <1>6 DEF Latest

LEMMA LatestOfInterval ==
  ASSUME NEW a \in Nat, NEW b \in Nat, a <= b
  PROVE  Latest(a..b) = b
<1>1. b \in (a..b) \cup {0} /\ (a..b) \cup {0} \in SUBSET Int /\ \A x \in (a..b) \cup {0} : x <= b
  OBVIOUS
<1>2. Max((a..b) \cup {0}) = b
  BY <1>1, MaxIs
<1> QED BY <1>2 DEF Latest

LEMMA LatestBeyond ==
  ASSUME NEW a \in Nat, NEW b \in Nat, a <= b, NEW c \in Nat, c <= b
  PROVE  Latest((a..b) \cup {c}) = b
<1> DEFINE S == (a..b) \cup {c} \cup {0}
<1>1. b \in S /\ S \in SUBSET Int /\ \A x \in S : x <= b
  OBVIOUS
<1>2. Max(S) = b
  BY <1>1, MaxIs
<1> QED BY <1>2 DEF Latest

LEMMA LatestOfOne ==
  ASSUME NEW c \in Nat
  PROVE  Latest({} \cup {c}) = c
<1> DEFINE S == {} \cup {c} \cup {0}
<1>1. c \in S /\ S \in SUBSET Int /\ \A x \in S : x <= c
  OBVIOUS
<1>2. Max(S) = c
  BY <1>1, MaxIs
<1> QED BY <1>2 DEF Latest

\* Of two cursors the later one counts.
LEMMA LatestOfTwo ==
  ASSUME NEW c \in Nat, NEW d \in Nat
  PROVE  Latest({c, d}) = IF c <= d THEN d ELSE c
<1> DEFINE S == {c, d} \cup {0}
           m == IF c <= d THEN d ELSE c
<1>1. m \in S /\ S \in SUBSET Int /\ \A x \in S : x <= m
  OBVIOUS
<1>2. Max(S) = m
  BY <1>1, MaxIs
<1> QED BY <1>2 DEF Latest

LEMMA NewestPart == ASSUME NEW S, NEW n PROVE Newest(S, n) \subseteq S
BY DEF Newest

\* The newest posts of an interval are its end.
LEMMA NewestInterval ==
  ASSUME NEW h \in Nat, NEW n \in Nat \ {0}
  PROVE  IF h = 0 THEN Newest(1..h, n) = {}
         ELSE \E a \in 1..h : Newest(1..h, n) = a..h
<1>1. CASE h = 0
  BY <1>1 DEF Newest
<1>2. CASE h # 0
  <2> DEFINE a == IF h <= n THEN 1 ELSE h - n + 1
  <2>1. a \in 1..h
    BY <1>2
  <2>2. ASSUME NEW i \in 1..h
        PROVE  Cardinality({j \in 1..h : j > i}) < n <=> i >= a
    <3>1. {j \in 1..h : j > i} = (i + 1)..h
      OBVIOUS
    <3>2. Cardinality((i + 1)..h) = IF i + 1 > h THEN 0 ELSE h - (i + 1) + 1
      BY FS_Interval
    <3>3. Cardinality({j \in 1..h : j > i}) = Cardinality((i + 1)..h)
      BY <3>1, Zenon
    <3> QED BY <3>2, <3>3
  <2>3. Newest(1..h, n) = a..h
    BY <2>1, <2>2 DEF Newest
  <2> QED BY <1>2, <2>1, <2>3
<1> QED BY <1>1, <1>2

After(h, k) == {i \in 1..h : i > k}

\* The oldest posts after a cursor are the next ones.
LEMMA OldestInterval ==
  ASSUME NEW h \in Nat, NEW k \in Nat, NEW n \in Nat \ {0}
  PROVE  /\ h <= k => Oldest(After(h, k), n) = {}
         /\ ~(h <= k) => Oldest(After(h, k), n) = (k + 1)..(IF h <= k + n THEN h ELSE k + n)
<1> DEFINE S == {i \in 1..h : i > k}
<1>0. S = After(h, k)
  BY DEF After
<1>1. CASE h <= k
  <2>1. S = {}
    BY <1>1
  <2>2. After(h, k) = {}
    BY <1>0, <2>1
  <2>3. Oldest({}, n) = {}
    BY DEF Oldest
  <2> QED BY <1>1, <2>2, <2>3
<1>2. CASE h > k
  <2> DEFINE b == IF h <= k + n THEN h ELSE k + n
  <2>1. b \in (k + 1)..h
    BY <1>2
  <2>2. ASSUME NEW i \in S
        PROVE  Cardinality({j \in S : j < i}) < n <=> i <= b
    <3>1. {j \in S : j < i} = (k + 1)..(i - 1)
      OBVIOUS
    <3>2. Cardinality((k + 1)..(i - 1)) = IF k + 1 > i - 1 THEN 0 ELSE (i - 1) - (k + 1) + 1
      BY FS_Interval
    <3>3. Cardinality({j \in S : j < i}) = Cardinality((k + 1)..(i - 1))
      BY <3>1, Zenon
    <3>4. i \in Nat /\ i > k /\ i <= h
      OBVIOUS
    <3> HIDE DEF S
    <3> QED BY <3>2, <3>3, <3>4
  <2>3. Oldest(S, n) = {i \in S : i <= b}
    BY <2>2 DEF Oldest
  <2>4. {i \in S : i <= b} = (k + 1)..b
    BY <2>1
  <2>5. Oldest(S, n) = (k + 1)..b
    BY <2>3, <2>4
  <2>6. ~(h <= k)
    BY <1>2
  <2>7. Oldest(After(h, k), n) = (k + 1)..b
    BY <1>0, <2>5, Zenon
  <2> QED BY <2>6, <2>7
<1> QED BY <1>1, <1>2

(***************************************************************************)
(* The documents of the bridges                                            *)
(***************************************************************************)
LEMMA StateFields ==
  ASSUME NEW st \in StatesKept
  PROVE  /\ st.doc \in BOOLEAN /\ st.cursor \in Nat /\ st.chan \in Channels \cup {"none"}
         /\ st.seen \in Seq(Nat) /\ Len(st.seen) <= SeenKeep
         /\ st.hash \in Nat /\ st.limited \in BOOLEAN
         /\ st \in States
BY DEF StatesKept, States

LEMMA StateIn ==
  ASSUME NEW st \in States, Len(st.seen) <= SeenKeep
  PROVE  st \in StatesKept
BY DEF StatesKept

LEMMA EmptyStates ==
  /\ NoState \in StatesKept /\ Wiped \in StatesKept
  /\ NoState.cursor = 0 /\ NoState.hash = 0 /\ NoState.seen = <<>> /\ NoState.doc = FALSE
  /\ Wiped.cursor = 0 /\ Wiped.hash = 0 /\ Wiped.seen = <<>>
<1>1. <<>> \in Seq(Nat) /\ Len(<<>>) = 0 /\ 0 <= SeenKeep /\ 0 \in Nat
  BY SourcesAssumption
<1>2. NoState \in States /\ Wiped \in States /\ NoState.seen = <<>> /\ Wiped.seen = <<>>
  BY <1>1 DEF NoState, Wiped, States
<1>3. NoState \in StatesKept /\ Wiped \in StatesKept
  BY <1>1, <1>2, StateIn
<1> QED BY <1>2, <1>3 DEF NoState, Wiped

LEMMA StateChanges ==
  ASSUME NEW st \in StatesKept, NEW d \in BOOLEAN, NEW n \in Nat, NEW l \in BOOLEAN,
         NEW c \in Channels \cup {"none"}
  PROVE  /\ [st EXCEPT !.doc = d] \in StatesKept
         /\ [st EXCEPT !.limited = l] \in StatesKept
         /\ [st EXCEPT !.doc = d, !.limited = l] \in StatesKept
         /\ [st EXCEPT !.doc = d, !.hash = n] \in StatesKept
         /\ [st EXCEPT !.doc = d, !.cursor = n] \in StatesKept
         /\ [st EXCEPT !.doc = d, !.cursor = n, !.chan = c] \in StatesKept
         /\ [st EXCEPT !.doc = d, !.cursor = n, !.limited = l] \in StatesKept
         /\ [st EXCEPT !.doc = d, !.limited = l, !.cursor = n] \in StatesKept
BY DEF StatesKept, States

LEMMA StateCursors ==
  ASSUME NEW st \in StatesKept, NEW d \in BOOLEAN, NEW n \in Nat, NEW l \in BOOLEAN
  PROVE  /\ [st EXCEPT !.doc = d, !.cursor = n].cursor = n
         /\ [st EXCEPT !.doc = d, !.cursor = n, !.limited = l].cursor = n
         /\ [st EXCEPT !.doc = d, !.limited = l, !.cursor = n].cursor = n
BY DEF StatesKept, States

LEMMA PassedCases ==
  ASSUME NEW c, NEW st, NEW e
  PROVE  /\ Kind = "telegram" => PassedBy(c, st, e) = {st.chan} \X (1..st.cursor)
         /\ Kind \in {"max", "vk", "maxstat"} => PassedBy(c, st, e) = {c} \X (1..st.cursor)
         /\ Kind = "ok" => PassedBy(c, st, e) = {c} \X Seen(st)
         /\ Kind = "page" => PassedBy(c, st, e) = {c} \X ({st.hash} \ {0})
         /\ Kind = "rss" => PassedBy(c, st, e) = ({c} \X Newest(1..st.hash, Limit))
                                                   \cup ({c} \X Newest(1..e, Limit))
         /\ Kind \notin CursorKinds => PassedBy(c, st, e) = {}
BY DEF PassedBy, CursorKinds

\* What a state without a cursor, a hash and seen posts passes over.
LEMMA PassedEmpty ==
  ASSUME NEW c, NEW st, st.cursor = 0, st.hash = 0, st.seen = <<>>, NEW e, NEW st2
  PROVE  PassedBy(c, st, e) \subseteq PassedBy(c, st2, e) /\ PassedBy(c, st, 0) = {}
<1>1. Newest(1..0, Limit) = {} /\ 1..0 = {}
  BY DEF Newest
<1>2. Seen(st) = {}
  BY DEF Seen
<1>3. CASE Kind = "telegram"
  BY <1>1, <1>3, PassedCases
<1>4. CASE Kind \in {"max", "vk", "maxstat"}
  BY <1>1, <1>4, PassedCases
<1>5. CASE Kind = "ok"
  BY <1>2, <1>5, PassedCases
<1>6. CASE Kind = "page"
  BY <1>6, PassedCases
<1>7. CASE Kind = "rss"
  BY <1>1, <1>7, PassedCases
<1>8. CASE Kind \notin CursorKinds
  BY <1>8, PassedCases
<1> QED BY <1>3, <1>4, <1>5, <1>6, <1>7, <1>8 DEF CursorKinds

\* Two states that agree on these fields pass over the same posts.
LEMMA PassedSame ==
  ASSUME NEW c, NEW st, NEW st2, NEW e,
         st2.cursor = st.cursor, st2.chan = st.chan, st2.hash = st.hash, st2.seen = st.seen
  PROVE  PassedBy(c, st2, e) = PassedBy(c, st, e)
<1>2. Seen(st2) = Seen(st)
  BY DEF Seen
<1>3. CASE Kind = "telegram"
  BY <1>3, PassedCases
<1>4. CASE Kind \in {"max", "vk", "maxstat"}
  <2>1. PassedBy(c, st, e) = {c} \X (1..st.cursor) /\ PassedBy(c, st2, e) = {c} \X (1..st2.cursor)
    BY <1>4, PassedCases
  <2> QED BY <2>1
<1>5. CASE Kind = "ok"
  <2>1. PassedBy(c, st, e) = {c} \X Seen(st) /\ PassedBy(c, st2, e) = {c} \X Seen(st2)
    BY <1>5, PassedCases
  <2> QED BY <1>2, <2>1
<1>6. CASE Kind = "page"
  BY <1>6, PassedCases
<1>7. CASE Kind = "rss"
  BY <1>7, PassedCases
<1>8. CASE Kind \notin CursorKinds
  BY <1>8, PassedCases
<1> QED BY <1>3, <1>4, <1>5, <1>6, <1>7, <1>8 DEF CursorKinds

\* The state and the ETag count for themselves.
LEMMA PassedSplit ==
  ASSUME NEW c, NEW st, NEW st2, NEW e, NEW e2
  PROVE  PassedBy(c, st, e) \subseteq PassedBy(c, st, e2) \cup PassedBy(c, st2, e)
<1>3. CASE Kind = "telegram"
  BY <1>3, PassedCases
<1>4. CASE Kind \in {"max", "vk", "maxstat"}
  <2>1. PassedBy(c, st, e) = {c} \X (1..st.cursor) /\ PassedBy(c, st, e2) = {c} \X (1..st.cursor)
    BY <1>4, PassedCases
  <2> QED BY <2>1
<1>5. CASE Kind = "ok"
  BY <1>5, PassedCases
<1>6. CASE Kind = "page"
  BY <1>6, PassedCases
<1>7. CASE Kind = "rss"
  BY <1>7, PassedCases
<1>8. CASE Kind \notin CursorKinds
  BY <1>8, PassedCases
<1> QED BY <1>3, <1>4, <1>5, <1>6, <1>7, <1>8 DEF CursorKinds

\* A manual refresh passes over no more than a background poll.
LEMMA RefetchPasses ==
  ASSUME NEW c, NEW st \in StatesKept, NEW e
  PROVE  /\ fullRefetchState(st) \in StatesKept
         /\ PassedBy(c, fullRefetchState(st), e) \subseteq PassedBy(c, st, e)
<1>0. 0 \in Nat /\ "none" \in Channels \cup {"none"} /\ TRUE \in BOOLEAN /\ FALSE \in BOOLEAN
  OBVIOUS
<1>1. fullRefetchState(st) \in StatesKept
  BY <1>0, StateChanges DEF fullRefetchState
<1>2. CASE Kind = "rss"
  <2> DEFINE t == [st EXCEPT !.doc = FALSE, !.hash = 0]
  <2>1. fullRefetchState(st) = t
    BY <1>2 DEF fullRefetchState
  <2>2. t.hash = 0
    BY DEF StatesKept, States
  <2>3. Newest(1..0, Limit) = {}
    BY DEF Newest
  <2> HIDE DEF t
  <2>4. PassedBy(c, t, e) = ({c} \X Newest(1..t.hash, Limit)) \cup ({c} \X Newest(1..e, Limit))
    BY <1>2, PassedCases
  <2>5. PassedBy(c, st, e) = ({c} \X Newest(1..st.hash, Limit)) \cup ({c} \X Newest(1..e, Limit))
    BY <1>2, PassedCases
  <2>6. PassedBy(c, t, e) = {c} \X Newest(1..e, Limit)
    BY <2>2, <2>3, <2>4
  <2>7. PassedBy(c, t, e) \subseteq PassedBy(c, st, e)
    BY <2>5, <2>6
  <2> QED BY <1>1, <2>1, <2>7
<1>3. CASE Kind \in {"max", "telegram"}
  <2> DEFINE t == [st EXCEPT !.doc = TRUE, !.cursor = 0, !.chan = "none"]
  <2>1. fullRefetchState(st) = t
    BY <1>3 DEF fullRefetchState
  <2>2. t.cursor = 0
    BY DEF StatesKept, States
  <2> HIDE DEF t
  <2>3. PassedBy(c, t, e) = {}
    <3>1. 1..0 = {}
      OBVIOUS
    <3>2. CASE Kind = "telegram"
      <4>1. PassedBy(c, t, e) = {t.chan} \X (1..t.cursor)
        BY <3>2, PassedCases
      <4> QED BY <2>2, <3>1, <4>1
    <3>3. CASE Kind = "max"
      <4>1. PassedBy(c, t, e) = {c} \X (1..t.cursor)
        BY <3>3, PassedCases
      <4> QED BY <2>2, <3>1, <4>1
    <3> QED BY <1>3, <3>2, <3>3
  <2> QED BY <1>1, <2>1, <2>3
<1>4. CASE Kind \notin {"max", "telegram", "rss"}
  BY <1>4 DEF fullRefetchState
<1> QED BY <1>1, <1>2, <1>3, <1>4

(***************************************************************************)
(* One poll moves                                                          *)
(***************************************************************************)
Good(p, r) ==
  /\ r \in PollRows
  /\ PollPlace(r)
  /\ r.pc \in SlotSteps => Paged(r)
  /\ r.items \subseteq db[FeedOf[p]].stored
  /\ Cautious(scene) => PollCovered(FeedOf[p], r)

DInv ==
  /\ Tables
  /\ \A f \in Feeds : db[f].items \subseteq db[f].stored
  /\ \A p \in Pollers : Good(p, poll[p])
  /\ Cautious(scene) => \A f \in Feeds : FeedCovered(f)

Moves(p, X) == \E r : Goto(p, r) /\ Good(p, r) /\ r.pc \in X

LEMMA PollFields ==
  ASSUME NEW r \in PollRows
  PROVE  /\ r.pc \in Steps /\ r.st \in StatesKept /\ r.etag \in Nat /\ r.items \in SUBSET Post
         /\ r.chan \in Channels \cup {"none"} /\ r.base \in Nat /\ r.page \in Nat /\ r.from \in Nat
         /\ r.tries \in Nat /\ r.got \in SUBSET (Nat \cup Post) /\ r.miss \in SUBSET Post
         /\ r.out \in {"none", "ok", "same", "fail", "defer", "layout"}
BY DEF PollRows

LEMMA RowFields ==
  ASSUME NEW r \in FeedRows
  PROVE  /\ r.row \in BOOLEAN /\ r.st \in StatesKept /\ r.etag \in Nat
         /\ r.items \in SUBSET Post /\ r.stored \in SUBSET Post /\ r.left \in SUBSET Post
BY DEF FeedRows

LEMMA GoodNow ==
  ASSUME DInv, NEW p \in Pollers
  PROVE  /\ Good(p, poll[p]) /\ poll[p] \in PollRows /\ PollPlace(poll[p])
         /\ FeedOf[p] \in Feeds /\ db[FeedOf[p]] \in FeedRows /\ url[FeedOf[p]] \in Channels
         /\ posts \in [Channels -> Nat]
BY SourcesAssumption DEF DInv, Good, Tables

\* Nothing but the poll of p moves.
LEMMA MovesKeeps ==
  ASSUME DInv, NEW p \in Pollers, NEW r, Goto(p, r), Good(p, r),
         UNCHANGED <<scene, posts, url, db>>, limited' \subseteq Channels,
         faults' \in 0..scene.budget
  PROVE  /\ DInv'
         /\ poll'[p] = r /\ \A q \in Pollers \ {p} : poll'[q] = poll[q]
<1>1. r \in PollRows /\ poll \in [Pollers -> PollRows]
  BY DEF Good, DInv, Tables
<1>2. poll' \in [Pollers -> PollRows] /\ poll'[p] = r /\ \A q \in Pollers \ {p} : poll'[q] = poll[q]
  BY <1>1 DEF Goto
<1>3. Tables'
  BY <1>2 DEF DInv, Tables
<1>4. \A q, s : Good(q, s)' <=> Good(q, s)
  <2> SUFFICES ASSUME NEW q, NEW s PROVE Good(q, s)' <=> Good(q, s)
    OBVIOUS
  <2>1. PollPlace(s)' <=> PollPlace(s)
    BY DEF PollPlace, Kind
  <2>2. Paged(s)' <=> Paged(s)
    BY DEF Paged, CursorIn
  <2>3. PollCovered(FeedOf[q], s)' <=> PollCovered(FeedOf[q], s)
    BY DEF PollCovered, PassedBy, Brought, Kind
  <2> QED BY <2>1, <2>2, <2>3 DEF Good, Cautious
<1>5. \A q \in Pollers : Good(q, poll[q])'
  <2> SUFFICES ASSUME NEW q \in Pollers PROVE Good(q, poll[q])'
    OBVIOUS
  <2>1. PICK s : s = poll'[q]
    OBVIOUS
  <2>2. Good(q, s)
    BY <1>2, <2>1 DEF DInv
  <2>3. Good(q, s)'
    BY <1>4, <2>2
  <2> QED BY <2>1, <2>3
<1>6. (\A f \in Feeds : FeedCovered(f)) => (\A f \in Feeds : FeedCovered(f))'
  BY DEF FeedCovered, Passed, PassedBy, Kind
<1>7. Cautious(scene)' <=> Cautious(scene)
  OBVIOUS
<1> QED BY <1>2, <1>3, <1>5, <1>6, <1>7 DEF DInv

Covers(p, st, S) ==
  Cautious(scene) => PassedBy(url[FeedOf[p]], st, poll[p].etag)
                       \subseteq db[FeedOf[p]].stored \cup db[FeedOf[p]].left \cup S

LEMMA AnswerMoves ==
  ASSUME DInv, NEW p \in Pollers, poll[p].pc # "idle",
         NEW o \in {"ok", "same", "fail", "defer", "layout"}, NEW st \in StatesKept,
         NEW g \in SUBSET Nat, NEW m \in SUBSET Nat, Answer(p, o, st, g, m),
         Covers(p, st, IF o = "ok" THEN Items(p, g) \cup Items(p, m) ELSE {})
  PROVE  Moves(p, {"record"})
<1> DEFINE f == FeedOf[p]
           G == Items(p, g)
           M == Items(p, m)
           t == [poll[p] EXCEPT !.pc = "record", !.out = o, !.st = st, !.got = G, !.miss = M]
<1>1. poll[p] \in PollRows /\ PollPlace(poll[p]) /\ Good(p, poll[p])
  BY GoodNow
<1>2. poll[p].chan \in Channels /\ poll[p].base <= posts[poll[p].chan]
  BY <1>1 DEF PollPlace
<1>3. G \in SUBSET Post /\ M \in SUBSET Post
  BY <1>2 DEF Items, Post
<1>4. Goto(p, t)
  BY DEF Answer
<1> HIDE DEF G, M
<1>5. /\ t \in PollRows /\ t.pc = "record" /\ t.out = o /\ t.st = st /\ t.got = G /\ t.miss = M
      /\ t.chan = poll[p].chan /\ t.base = poll[p].base /\ t.items = poll[p].items /\ t.etag = poll[p].etag
  <2>1. PICK r \in PollRows : r = poll[p]
    BY <1>1
  <2>2. PICK gg \in SUBSET Post, mm \in SUBSET Post : gg = G /\ mm = M
    BY <1>3
  <2>3. PICK tt : tt = [r EXCEPT !.pc = "record", !.out = o, !.st = st, !.got = gg, !.miss = mm]
    OBVIOUS
  <2>4. /\ tt \in PollRows
        /\ tt.pc = "record" /\ tt.out = o /\ tt.st = st /\ tt.got = gg /\ tt.miss = mm
        /\ tt.chan = r.chan /\ tt.base = r.base /\ tt.items = r.items /\ tt.etag = r.etag
    BY <2>3 DEF PollRows, Steps
  <2>5. tt = t
    BY <2>1, <2>2, <2>3
  <2> QED BY <2>1, <2>2, <2>4, <2>5
<1> HIDE DEF t
<1>6. PollPlace(t)
  BY <1>2, <1>3, <1>5 DEF PollPlace, SlotSteps
<1>7. t.items \subseteq db[f].stored /\ t.pc \notin SlotSteps
  BY <1>1, <1>5 DEF Good, SlotSteps
<1>8. ASSUME Cautious(scene) PROVE PollCovered(f, t)
  <2>1. PollCovered(f, poll[p])
    BY <1>1, <1>8 DEF Good
  <2>2. Brought(t) = IF o = "ok" THEN G \cup M ELSE {}
    BY <1>5 DEF Brought
  <2>3. PassedBy(url[f], t.st, t.etag) \subseteq db[f].stored \cup db[f].left \cup Brought(t)
    BY <1>5, <1>8, <2>2 DEF Covers, G, M
  <2>4. Kind \in CursorKinds \ {"telegram"} => t.chan = url[f]
    BY <1>5, <2>1 DEF PollCovered
  <2> QED BY <1>7, <2>3, <2>4 DEF PollCovered
<1>9. Good(p, t)
  BY <1>5, <1>6, <1>7, <1>8 DEF Good
<1> QED BY <1>4, <1>5, <1>9 DEF Moves

\* A poll that fails, is put off or finds nothing new.
LEMMA FailsMoves ==
  ASSUME DInv, NEW p \in Pollers, poll[p].pc # "idle",
         NEW o \in {"same", "fail", "defer", "layout"}, NEW st \in StatesKept,
         Fails(p, o, st), Covers(p, st, {})
  PROVE  Moves(p, {"record"})
<1>1. o \in {"ok", "same", "fail", "defer", "layout"} /\ o # "ok" /\ {} \in SUBSET Nat
  OBVIOUS
<1>2. Covers(p, st, IF o = "ok" THEN Items(p, {}) \cup Items(p, {}) ELSE {})
  BY <1>1
<1>3. Answer(p, o, st, {}, {})
  BY DEF Fails
<1> QED BY <1>1, <1>2, <1>3, AnswerMoves

\* A poll under way passes over no more than what is stored.
LEMMA CoversOwn ==
  ASSUME DInv, NEW p \in Pollers, poll[p].pc # "record"
  PROVE  Covers(p, poll[p].st, {})
BY GoodNow DEF Covers, Good, PollCovered, Brought

LEMMA CoversEmpty ==
  ASSUME DInv, NEW p \in Pollers, poll[p].pc # "record",
         NEW st, st.cursor = 0, st.hash = 0, st.seen = <<>>
  PROVE  Covers(p, st, {})
<1>1. PassedBy(url[FeedOf[p]], st, poll[p].etag) \subseteq PassedBy(url[FeedOf[p]], poll[p].st, poll[p].etag)
  <2>1. PICK c, e, st2 : c = url[FeedOf[p]] /\ e = poll[p].etag /\ st2 = poll[p].st
    OBVIOUS
  <2>2. PassedBy(c, st, e) \subseteq PassedBy(c, st2, e)
    BY PassedEmpty
  <2> QED BY <2>1, <2>2
<1> QED BY <1>1, CoversOwn DEF Covers

\* Errors: whatever the client makes of one.
Outcomes(client) == \A x \in DOMAIN client : client[x] \in {"same", "fail", "defer", "layout"}

LEMMA ErrorsMove ==
  ASSUME DInv, NEW p \in Pollers, poll[p].pc # "idle", NEW client, Outcomes(client),
         NEW st \in StatesKept, Covers(p, st, {}), Errors(p, client, st)
  PROVE  Moves(p, {"record"}) /\ faults' \in 0..scene.budget
<1>1. PICK x \in DOMAIN client : Fault(x) /\ Fails(p, client[x], st)
  BY DEF Errors
<1>2. client[x] \in {"same", "fail", "defer", "layout"}
  BY DEF Outcomes
<1>3. Moves(p, {"record"})
  BY <1>1, <1>2, FailsMoves
<1> QED BY <1>1, <1>3, SourcesAssumption DEF Fault, DInv, Tables

(***************************************************************************)
(* The bridges with a time cursor                                          *)
(***************************************************************************)
Steady == /\ UNCHANGED <<scene, posts, url, db, busy>>
          /\ limited' \subseteq Channels /\ faults' \in 0..scene.budget

LEMMA FaultsCount ==
  ASSUME DInv
  PROVE  /\ NoFault => faults' \in 0..scene.budget
         /\ \A x : Fault(x) => faults' \in 0..scene.budget
<1>1. scene.budget \in Nat /\ faults \in 0..scene.budget
  BY SourcesAssumption DEF DInv, Tables
<1> QED BY <1>1 DEF NoFault, Fault

LEMMA PollNow ==
  ASSUME DInv, NEW p \in Pollers, poll[p].pc # "idle"
  PROVE  /\ poll[p].st \in StatesKept /\ poll[p].chan \in Channels /\ posts[poll[p].chan] \in Nat
         /\ poll[p].base \in Nat /\ poll[p].base <= posts[poll[p].chan] /\ poll[p].page \in Nat
         /\ poll[p].st.cursor \in Nat /\ poll[p].st.doc \in BOOLEAN /\ poll[p].st.limited \in BOOLEAN
         /\ poll[p].pc = "fetch" => poll[p].got \subseteq 1..posts[poll[p].chan]
         /\ poll[p].etag \in Nat /\ limited \subseteq Channels
         /\ poll[p] \in PollRows
<1>1. poll[p] \in PollRows /\ PollPlace(poll[p]) /\ posts \in [Channels -> Nat] /\ limited \subseteq Channels
  BY GoodNow DEF DInv, Tables
<1>2. poll[p].st \in StatesKept /\ poll[p].base \in Nat /\ poll[p].page \in Nat /\ poll[p].etag \in Nat
  BY <1>1, PollFields
<1>3. poll[p].st.cursor \in Nat /\ poll[p].st.doc \in BOOLEAN /\ poll[p].st.limited \in BOOLEAN
  BY <1>2, StateFields
<1> QED BY <1>1, <1>2, <1>3 DEF PollPlace

\* Every post between the old and the new cursor was brought.
LEMMA CursorCovers ==
  ASSUME DInv, NEW p \in Pollers, poll[p].pc \notin {"idle", "record"}, Kind \in {"max", "vk", "maxstat"},
         NEW st, st.cursor \in Nat, NEW g \in SUBSET Nat, NEW m \in SUBSET Nat,
         \A i \in (poll[p].st.cursor + 1)..st.cursor : i \in g \cup m
  PROVE  Covers(p, st, Items(p, g) \cup Items(p, m))
<1> SUFFICES ASSUME Cautious(scene),
                    NEW x \in PassedBy(url[FeedOf[p]], st, poll[p].etag)
             PROVE  x \in db[FeedOf[p]].stored \cup db[FeedOf[p]].left \cup (Items(p, g) \cup Items(p, m))
  BY DEF Covers
<1>1. Covers(p, poll[p].st, {})
  BY CoversOwn
<1>2. poll[p].chan = url[FeedOf[p]]
  BY GoodNow DEF Good, PollCovered, CursorKinds
<1>3. PICK c, e, old : c = url[FeedOf[p]] /\ e = poll[p].etag /\ old = poll[p].st
  OBVIOUS
<1>4. PassedBy(c, st, e) = {c} \X (1..st.cursor) /\ PassedBy(c, old, e) = {c} \X (1..old.cursor)
  BY PassedCases
<1>5. PICK i \in 1..st.cursor : x = <<c, i>>
  BY <1>3, <1>4
<1>6. old.cursor \in Nat
  BY <1>3, PollNow
<1>7. CASE i <= old.cursor
  <2>1. x \in PassedBy(c, old, e)
    BY <1>4, <1>5, <1>6, <1>7
  <2> QED BY <1>1, <1>3, <2>1 DEF Covers
<1>8. CASE i > old.cursor
  <2>1. i \in g \cup m
    BY <1>3, <1>5, <1>6, <1>8
  <2> QED BY <1>2, <1>3, <1>5, <2>1 DEF Items
<1> QED BY <1>5, <1>6, <1>7, <1>8

LEMMA FetchMaxMoves ==
  ASSUME DInv, NEW p \in Pollers, FetchMax(p)
  PROVE  Moves(p, {"record"}) /\ Steady
<1>1. poll[p].pc = "fetch" /\ Kind = "max" /\ UNCHANGED <<scene, posts, url, db, busy, limited>>
  BY DEF FetchMax, Requesting, FetchFrame
<1> DEFINE st == poll[p].st
           new == ComputeAfter(p)
           got == Newest(new, Limit)
           st2 == [st EXCEPT !.doc = TRUE, !.cursor = poll[p].base]
<1>2. /\ st \in StatesKept /\ posts[poll[p].chan] \in Nat /\ poll[p].base \in Nat
      /\ poll[p].base <= posts[poll[p].chan] /\ st.cursor \in Nat /\ limited \subseteq Channels
  BY <1>1, PollNow
<1>3. new \in SUBSET Nat /\ got \in SUBSET new /\ new \ got \in SUBSET Nat
  BY <1>2, NewestPart DEF ComputeAfter
<1>4. CASE NoFault /\ Answer(p, "ok", st2, got, new \ got)
  <2>1. st2 \in StatesKept /\ st2.cursor = poll[p].base
    <3>1. PICK b \in Nat, o \in StatesKept : b = poll[p].base /\ o = st
      BY <1>2
    <3> QED BY <3>1, StateChanges, StateCursors
  <2>2. PICK s \in StatesKept : s = st2
    BY <2>1
  <2>3. PICK g \in SUBSET Nat, m \in SUBSET Nat : g = got /\ m = new \ got
    BY <1>3
  <2>4. \A i \in (poll[p].st.cursor + 1)..s.cursor : i \in g \cup m
    BY <1>2, <2>1, <2>2, <2>3 DEF ComputeAfter
  <2>5. Covers(p, s, Items(p, g) \cup Items(p, m))
    BY <1>1, <1>2, <2>1, <2>2, <2>4, CursorCovers
  <2>6. Answer(p, "ok", s, g, m)
    BY <1>4, <2>2, <2>3
  <2>7. Moves(p, {"record"})
    BY <1>1, <2>5, <2>6, AnswerMoves
  <2> QED BY <1>1, <1>2, <1>4, <2>7, FaultsCount DEF Steady
<1>5. CASE Fault("limit") /\ Fails(p, "defer", st)
  <2>1. PICK s \in StatesKept : s = st
    BY <1>2
  <2>2. Covers(p, s, {}) /\ Fails(p, "defer", s)
    BY <1>1, <1>5, <2>1, CoversOwn
  <2>3. Moves(p, {"record"})
    BY <1>1, <2>2, FailsMoves
  <2> QED BY <1>1, <1>2, <1>5, <2>3, FaultsCount DEF Steady
<1>6. CASE Errors(p, doGET, Wiped)
  <2>1. Covers(p, Wiped, {}) /\ Wiped \in StatesKept
    BY <1>1, EmptyStates, CoversEmpty
  <2>2. Outcomes(doGET)
    BY DEF Outcomes, doGET
  <2>3. Moves(p, {"record"}) /\ faults' \in 0..scene.budget
    BY <1>1, <1>6, <2>1, <2>2, ErrorsMove
  <2> QED BY <1>1, <1>2, <2>3 DEF Steady
<1> QED BY <1>4, <1>5, <1>6 DEF FetchMax

LEMMA FetchVKMoves ==
  ASSUME DInv, NEW p \in Pollers, FetchVK(p)
  PROVE  Moves(p, {"record"}) /\ Steady
<1>1. poll[p].pc = "fetch" /\ Kind = "vk" /\ UNCHANGED <<scene, posts, url, db, busy>>
  BY DEF FetchVK, Requesting, FetchFrame
<1> DEFINE st == poll[p].st
           window == ComputeTimeWindow(p)
           got == Newest(window, Limit)
           st2 == [st EXCEPT !.doc = TRUE, !.cursor = poll[p].base, !.limited = FALSE]
<1>2. /\ st \in StatesKept /\ poll[p].base \in Nat /\ st.cursor \in Nat
      /\ poll[p].chan \in Channels /\ limited \subseteq Channels
  BY <1>1, PollNow
<1>3. window \in SUBSET Nat /\ got \in SUBSET window /\ window \ got \in SUBSET Nat
  <2>1. window \in SUBSET Nat
    BY <1>2 DEF ComputeTimeWindow
  <2> HIDE DEF window
  <2> QED BY <2>1, NewestPart
<1>4. limited' \subseteq Channels
  BY <1>2 DEF FetchVK, SetQueryRateLimit
<1>5. CASE NoFault /\ Answer(p, "ok", st2, got, window \ got)
  <2>1. st2 \in StatesKept /\ st2.cursor = poll[p].base
    <3>1. PICK b \in Nat, o \in StatesKept : b = poll[p].base /\ o = st
      BY <1>2
    <3> QED BY <3>1, StateChanges, StateCursors
  <2>2. PICK s \in StatesKept : s = st2
    BY <2>1
  <2>3. PICK g \in SUBSET Nat, m \in SUBSET Nat : g = got /\ m = window \ got
    BY <1>3
  <2>4. \A i \in (poll[p].st.cursor + 1)..s.cursor : i \in g \cup m
    BY <1>2, <2>1, <2>2, <2>3 DEF ComputeTimeWindow
  <2>5. Covers(p, s, Items(p, g) \cup Items(p, m))
    BY <1>1, <1>2, <2>1, <2>2, <2>4, CursorCovers
  <2>6. Answer(p, "ok", s, g, m)
    BY <1>5, <2>2, <2>3
  <2>7. Moves(p, {"record"})
    BY <1>1, <2>5, <2>6, AnswerMoves
  <2> QED BY <1>1, <1>4, <1>5, <2>7, FaultsCount DEF Steady
<1>6. ASSUME NEW s \in StatesKept, s.cursor = st.cursor, Fails(p, "fail", s), NoFault \/ Fault("limit")
      PROVE  Moves(p, {"record"}) /\ Steady
  <2>1. Covers(p, s, Items(p, {}) \cup Items(p, {}))
    BY <1>1, <1>2, <1>6, CursorCovers
  <2>2. Covers(p, s, {})
    BY <2>1 DEF Covers, Items
  <2>3. Moves(p, {"record"})
    BY <1>1, <1>6, <2>2, FailsMoves
  <2> QED BY <1>1, <1>4, <1>6, <2>3, FaultsCount DEF Steady
<1>7. CASE Errors(p, Call, Wiped)
  <2>1. Covers(p, Wiped, {}) /\ Wiped \in StatesKept
    BY <1>1, EmptyStates, CoversEmpty
  <2>2. Outcomes(Call)
    BY DEF Outcomes, Call
  <2>3. Moves(p, {"record"}) /\ faults' \in 0..scene.budget
    BY <1>1, <1>7, <2>1, <2>2, ErrorsMove
  <2> QED BY <1>1, <1>4, <2>3 DEF Steady
<1>8. CASE NoFault /\ Fails(p, "fail", [st EXCEPT !.doc = TRUE])
  <2>1. PICK s \in StatesKept : s = [st EXCEPT !.doc = TRUE]
    BY <1>2, StateChanges
  <2>2. s.cursor = st.cursor
    BY <1>2, <2>1 DEF StatesKept, States
  <2> QED BY <1>6, <1>8, <2>1, <2>2
<1>9. CASE Fault("limit") /\ Fails(p, "fail", [st EXCEPT !.doc = TRUE, !.limited = TRUE])
  <2>1. PICK s \in StatesKept : s = [st EXCEPT !.doc = TRUE, !.limited = TRUE]
    BY <1>2, StateChanges
  <2>2. s.cursor = st.cursor
    BY <1>2, <2>1 DEF StatesKept, States
  <2> QED BY <1>6, <1>9, <2>1, <2>2
<1> QED BY <1>5, <1>7, <1>8, <1>9 DEF FetchVK

LEMMA FetchMaxstatMoves ==
  ASSUME DInv, NEW p \in Pollers, FetchMaxstat(p)
  PROVE  Moves(p, {"record"}) /\ Steady
<1>1. poll[p].pc = "fetch" /\ Kind = "maxstat" /\ UNCHANGED <<scene, posts, url, db, busy>>
  BY DEF FetchMaxstat, Requesting, FetchFrame
<1> DEFINE st == poll[p].st
           all == 1..posts[poll[p].chan]
           shown == Newest(all, Limit)
           got == {i \in shown : i > st.cursor}
           last == MaxPublishedUnix(shown)
           st2 == [st EXCEPT !.doc = TRUE, !.limited = FALSE, !.cursor = Latest({last, @})]
<1>2. /\ st \in StatesKept /\ posts[poll[p].chan] \in Nat /\ st.cursor \in Nat
      /\ poll[p].chan \in Channels /\ limited \subseteq Channels
  BY <1>1, PollNow
<1>3. all \in SUBSET Nat /\ shown \in SUBSET all /\ got \in SUBSET Nat /\ all \ shown \in SUBSET Nat
  BY <1>2, NewestPart
<1>4. limited' \subseteq Channels
  BY <1>2 DEF FetchMaxstat, SetQueryRateLimit
<1>5. CASE NoFault /\ Answer(p, "ok", st2, got, all \ shown)
  <2>1. PICK n \in Nat : n = posts[poll[p].chan]
    BY <1>2
  <2>2. PICK S \in SUBSET (0..n) : S = shown
    BY <1>3, <2>1
  <2>3. last \in 0..n
    <3>1. Latest(S) \in S \cup {0}
      BY LatestType
    <3> QED BY <2>2, <3>1 DEF MaxPublishedUnix
  <2>4. PICK l \in Nat, c \in Nat : l = last /\ c = st.cursor
    BY <1>2, <2>3
  <2>5. Latest({l, c}) = IF l <= c THEN c ELSE l
    BY LatestOfTwo
  <2> HIDE DEF last
  <2>6. st2 \in StatesKept /\ st2.cursor = IF l <= c THEN c ELSE l
    <3>1. PICK k \in Nat : k = Latest({l, c})
      BY <2>5
    <3>2. st2 = [st EXCEPT !.doc = TRUE, !.limited = FALSE, !.cursor = k]
      BY <2>4, <3>1
    <3>3. PICK o \in StatesKept : o = st
      BY <1>2
    <3> DEFINE t == [o EXCEPT !.doc = TRUE, !.limited = FALSE, !.cursor = k]
    <3>4. t \in StatesKept /\ t.cursor = k
      BY DEF StatesKept, States
    <3>5. st2 = t
      BY <3>2, <3>3
    <3>6. k = IF l <= c THEN c ELSE l
      BY <2>5, <3>1
    <3> HIDE DEF t, st2
    <3> QED BY <3>4, <3>5, <3>6, Zenon
  <2> HIDE DEF st2
  <2>7. PICK s \in StatesKept : s = st2
    BY <2>6
  <2>8. PICK g \in SUBSET Nat, m \in SUBSET Nat : g = got /\ m = all \ shown
    BY <1>3
  <2>9. \A i \in (poll[p].st.cursor + 1)..s.cursor : i \in g \cup m
    BY <1>2, <2>1, <2>3, <2>4, <2>6, <2>7, <2>8
  <2>10. s.cursor \in Nat
    BY <2>7, StateFields
  <2>11. Covers(p, s, Items(p, g) \cup Items(p, m))
    BY <1>1, <2>9, <2>10, CursorCovers
  <2>12. Answer(p, "ok", s, g, m)
    BY <1>5, <2>7, <2>8
  <2>13. Moves(p, {"record"})
    BY <1>1, <2>11, <2>12, AnswerMoves
  <2> QED BY <1>1, <1>4, <1>5, <2>13, FaultsCount DEF Steady
<1>6. ASSUME NEW s \in StatesKept, s.cursor = st.cursor
      PROVE  Covers(p, s, {})
  <2>1. Covers(p, s, Items(p, {}) \cup Items(p, {}))
    BY <1>1, <1>2, <1>6, CursorCovers
  <2> QED BY <2>1 DEF Covers, Items
<1>7. CASE Errors(p, Search, [st EXCEPT !.doc = TRUE])
  <2>1. PICK s \in StatesKept : s = [st EXCEPT !.doc = TRUE]
    BY <1>2, StateChanges
  <2>2. Covers(p, s, {})
    BY <1>2, <1>6, <2>1 DEF StatesKept, States
  <2>3. Outcomes(Search)
    BY DEF Outcomes, Search
  <2>4. Moves(p, {"record"}) /\ faults' \in 0..scene.budget
    BY <1>1, <1>7, <2>1, <2>2, <2>3, ErrorsMove
  <2> QED BY <1>1, <1>4, <2>4 DEF Steady
<1>8. CASE NoFault /\ Fails(p, "fail", [st EXCEPT !.doc = TRUE])
  <2>1. PICK s \in StatesKept : s = [st EXCEPT !.doc = TRUE]
    BY <1>2, StateChanges
  <2>2. Covers(p, s, {}) /\ Fails(p, "fail", s)
    BY <1>2, <1>6, <1>8, <2>1 DEF StatesKept, States
  <2>3. Moves(p, {"record"})
    BY <1>1, <2>2, FailsMoves
  <2> QED BY <1>1, <1>4, <1>8, <2>3, FaultsCount DEF Steady
<1>9. CASE Fault("limit") /\ Fails(p, "fail", [st EXCEPT !.doc = TRUE, !.limited = TRUE])
  <2>1. PICK s \in StatesKept : s = [st EXCEPT !.doc = TRUE, !.limited = TRUE]
    BY <1>2, StateChanges
  <2>2. Covers(p, s, {}) /\ Fails(p, "fail", s)
    BY <1>2, <1>6, <1>9, <2>1 DEF StatesKept, States
  <2>3. Moves(p, {"record"})
    BY <1>1, <2>2, FailsMoves
  <2> QED BY <1>1, <1>4, <1>9, <2>3, FaultsCount DEF Steady
<1> QED BY <1>5, <1>7, <1>8, <1>9 DEF FetchMaxstat

(***************************************************************************)
(* The bridges without a cursor                                            *)
(***************************************************************************)
LEMMA PlainCovers ==
  ASSUME NEW p, NEW st, NEW S, Kind \notin CursorKinds
  PROVE  Covers(p, st, S)
<1>1. PICK c, e : c = url[FeedOf[p]] /\ e = poll[p].etag
  OBVIOUS
<1>2. PassedBy(c, st, e) = {}
  BY PassedCases
<1> QED BY <1>1, <1>2 DEF Covers

\* A request more of the same poll.
LEMMA PageMoves ==
  ASSUME DInv, NEW p \in Pollers, poll[p].pc = "fetch", NEW g \in SUBSET (1..posts[poll[p].chan]),
         NEW n \in Nat, Goto(p, [poll[p] EXCEPT !.got = g, !.page = n])
  PROVE  Moves(p, {"fetch"})
<1>1. poll[p] \in PollRows /\ PollPlace(poll[p]) /\ Good(p, poll[p]) /\ posts[poll[p].chan] \in Nat
  BY GoodNow, PollNow
<1>2. PICK r : r = [poll[p] EXCEPT !.got = g, !.page = n]
  OBVIOUS
<1>3. g \in SUBSET (Nat \cup Post)
  BY <1>1
<1>4. /\ r \in PollRows /\ r.pc = "fetch" /\ r.st = poll[p].st /\ r.etag = poll[p].etag
      /\ r.items = poll[p].items /\ r.chan = poll[p].chan /\ r.base = poll[p].base /\ r.got = g
  BY <1>1, <1>2, <1>3 DEF PollRows
<1>5. PollPlace(r) /\ r.pc \notin SlotSteps
  BY <1>1, <1>4 DEF PollPlace, SlotSteps
<1>6. Brought(r) = Brought(poll[p])
  BY <1>4 DEF Brought
<1>7. Good(p, r)
  BY <1>1, <1>4, <1>5, <1>6 DEF Good, PollCovered
<1> QED BY <1>2, <1>4, <1>7 DEF Moves

LEMMA NewcomersType ==
  ASSUME DInv, NEW p \in Pollers, poll[p].pc = "fetch"
  PROVE  /\ Newcomers(p) \in SUBSET Nat /\ Scrolled(p) \in SUBSET Nat
         /\ Newcomers(p) \subseteq 1..posts[poll[p].chan]
         /\ \A t : Tab(p, t) \subseteq 1..posts[poll[p].chan]
<1>1. posts[poll[p].chan] \in Nat
  BY PollNow
<1>2. PICK S \in SUBSET Nat : S = 1..posts[poll[p].chan]
  BY <1>1
<1>3. Newest(S, Limit) \subseteq S /\ \A t : Newest({i \in S : i % 2 = t}, Limit) \subseteq {i \in S : i % 2 = t}
  BY NewestPart
<1> QED BY <1>2, <1>3 DEF Newcomers, Scrolled, Tab

LEMMA ResolvedType ==
  ASSUME DInv, NEW p \in Pollers, poll[p].pc = "fetch"
  PROVE  Resolved(p) \in StatesKept /\ poll[p].st \in StatesKept
BY PollNow, StateChanges DEF Resolved

LEMMA ClientOutcomes ==
  /\ Outcomes(WallGet) /\ Outcomes(SearchNews) /\ Outcomes(ListPersonVideos) /\ Outcomes(Export)
  /\ Outcomes([neterr |-> "fail", layout |-> "layout"])
  /\ Outcomes(TopicPage) /\ Outcomes(GroupPage) /\ Outcomes(fetchDocument) /\ Outcomes(FetchWith)
  /\ Outcomes(fetchDirect) /\ Outcomes(fetchViaStatic)
<1>1. /\ Outcomes(SearchNews) /\ Outcomes(ListPersonVideos) /\ Outcomes(Export) /\ Outcomes(Call)
      /\ Outcomes([neterr |-> "fail", layout |-> "layout"])
      /\ Outcomes(TopicPage) /\ Outcomes(fetchDocument) /\ Outcomes(FetchWith)
      /\ Outcomes(fetchDirect) /\ Outcomes(fetchViaStatic)
  BY DEF Outcomes, SearchNews, ListPersonVideos, Export, Call, TopicPage, fetchDocument,
         FetchWith, fetchDirect, fetchViaStatic
<1>2. Outcomes(WallGet) /\ Outcomes(GroupPage)
  BY DEF Outcomes, WallGet, GroupPage, mapWallError, Call, TopicPage
<1> QED BY <1>1, <1>2

\* An answer, a failure and an error of a bridge without a cursor.
LEMMA PlainMoves ==
  ASSUME DInv, NEW p \in Pollers, poll[p].pc = "fetch", Kind \notin CursorKinds, NEW st \in StatesKept
  PROVE  /\ \A g, m \in SUBSET Nat : Answer(p, "ok", st, g, m) => Moves(p, {"record"})
         /\ Fails(p, "fail", st) => Moves(p, {"record"})
         /\ \A client : Outcomes(client) /\ Errors(p, client, st)
                          => Moves(p, {"record"}) /\ faults' \in 0..scene.budget
<1>1. poll[p].pc # "idle" /\ \A S : Covers(p, st, S)
  BY PlainCovers
<1>2. ASSUME NEW g \in SUBSET Nat, NEW m \in SUBSET Nat, Answer(p, "ok", st, g, m)
      PROVE  Moves(p, {"record"})
  BY <1>1, <1>2, AnswerMoves
<1>3. ASSUME Fails(p, "fail", st) PROVE Moves(p, {"record"})
  BY <1>1, <1>3, FailsMoves
<1>4. ASSUME NEW client, Outcomes(client), Errors(p, client, st)
      PROVE  Moves(p, {"record"}) /\ faults' \in 0..scene.budget
  BY <1>1, <1>4, ErrorsMove
<1> QED BY <1>2, <1>3, <1>4

LEMMA PlainSteady ==
  ASSUME DInv, UNCHANGED <<scene, posts, url, db, busy, limited>>
  PROVE  /\ NoFault => Steady
         /\ \A x : Fault(x) => Steady
         /\ faults' \in 0..scene.budget => Steady
BY FaultsCount DEF Steady, DInv, Tables

LEMMA FetchWallMoves ==
  ASSUME DInv, NEW p \in Pollers, FetchWall(p) \/ FetchDzenNews(p) \/ FetchRutube(p)
  PROVE  Moves(p, {"record"}) /\ Steady
<1>1. /\ poll[p].pc = "fetch" /\ Kind \notin CursorKinds
      /\ UNCHANGED <<scene, posts, url, db, busy, limited>>
  BY DEF FetchWall, FetchDzenNews, FetchRutube, Requesting, FetchFrame, PlainFrame, CursorKinds
<1>2. PICK s \in StatesKept, t \in StatesKept : s = poll[p].st /\ t = Resolved(p)
  BY <1>1, ResolvedType
<1>3. PICK g \in SUBSET Nat, m \in SUBSET Nat : g = Newcomers(p) /\ m = Scrolled(p)
  BY <1>1, NewcomersType
<1>4. \/ NoFault /\ Answer(p, "ok", s, g, m)
      \/ NoFault /\ Answer(p, "ok", t, g, m)
      \/ NoFault /\ Fails(p, "fail", t)
      \/ Errors(p, WallGet, s) \/ Errors(p, SearchNews, t) \/ Errors(p, ListPersonVideos, t)
  BY <1>2, <1>3 DEF FetchWall, FetchDzenNews, FetchRutube
<1>5. CASE NoFault
  <2>1. Moves(p, {"record"})
    BY <1>1, <1>4, PlainMoves, ClientOutcomes
  <2> QED BY <1>1, <1>5, <2>1, PlainSteady
<1>6. CASE Errors(p, WallGet, s) \/ Errors(p, SearchNews, t) \/ Errors(p, ListPersonVideos, t)
  <2>1. Moves(p, {"record"}) /\ faults' \in 0..scene.budget
    BY <1>1, <1>6, PlainMoves, ClientOutcomes
  <2> QED BY <1>1, <2>1, PlainSteady
<1> QED BY <1>4, <1>5, <1>6

LEMMA FetchTabsMoves ==
  ASSUME DInv, NEW p \in Pollers, FetchTabs(p)
  PROVE  Moves(p, {"fetch", "record"}) /\ Steady
<1>1. /\ poll[p].pc = "fetch" /\ Kind \notin CursorKinds
      /\ UNCHANGED <<scene, posts, url, db, busy, limited>>
  BY DEF FetchTabs, Requesting, FetchFrame, PlainFrame, CursorKinds
<1>2. PICK s \in StatesKept : s = poll[p].st
  BY <1>1, ResolvedType
<1>3. posts[poll[p].chan] \in Nat /\ poll[p].got \subseteq 1..posts[poll[p].chan]
  BY <1>1, PollNow
<1>4. PICK g \in SUBSET (1..posts[poll[p].chan]) : g = poll[p].got \cup Tab(p, poll[p].page)
  BY <1>1, <1>3, NewcomersType
<1>5. PICK m \in SUBSET Nat : m = 1..posts[poll[p].chan] \ g
  <2>1. 1..posts[poll[p].chan] \ g \in SUBSET Nat
    BY <1>3
  <2> QED BY <2>1, Zenon
<1>6. \/ NoFault /\ Goto(p, [poll[p] EXCEPT !.got = g, !.page = 1])
      \/ NoFault /\ Answer(p, "ok", s, g, m)
      \/ Errors(p, Export, s)
  BY <1>2, <1>4, <1>5 DEF FetchTabs
<1>7. CASE NoFault /\ Goto(p, [poll[p] EXCEPT !.got = g, !.page = 1])
  <2>1. Moves(p, {"fetch"})
    BY <1>1, <1>7, PageMoves
  <2> QED BY <1>1, <1>7, <2>1, PlainSteady DEF Moves
<1>8. CASE NoFault /\ Answer(p, "ok", s, g, m)
  <2>1. g \in SUBSET Nat
    BY <1>3
  <2>2. Moves(p, {"record"})
    BY <1>1, <1>8, <2>1, PlainMoves
  <2> QED BY <1>1, <1>8, <2>2, PlainSteady DEF Moves
<1>9. CASE Errors(p, Export, s)
  <2>1. Moves(p, {"record"}) /\ faults' \in 0..scene.budget
    BY <1>1, <1>9, PlainMoves, ClientOutcomes
  <2> QED BY <1>1, <2>1, PlainSteady DEF Moves
<1> QED BY <1>6, <1>7, <1>8, <1>9

LEMMA FetchSmotrimMoves ==
  ASSUME DInv, NEW p \in Pollers, FetchSmotrim(p)
  PROVE  Moves(p, {"fetch", "record"}) /\ Steady
<1>1. /\ poll[p].pc = "fetch" /\ Kind \notin CursorKinds
      /\ UNCHANGED <<scene, posts, url, db, busy, limited>>
  BY DEF FetchSmotrim, Requesting, FetchFrame, PlainFrame, CursorKinds
<1>2. PICK t \in StatesKept : t = Resolved(p)
  BY <1>1, ResolvedType
<1>3. posts[poll[p].chan] \in Nat /\ poll[p].got \subseteq 1..posts[poll[p].chan]
      /\ poll[p] \in PollRows
  BY <1>1, PollNow
<1>4. PICK g \in SUBSET Nat, m \in SUBSET Nat : g = Newcomers(p) /\ m = Scrolled(p)
  BY <1>1, NewcomersType
<1> DEFINE Then(S) == IF poll[p].page = 0 THEN Goto(p, [poll[p] EXCEPT !.got = S, !.page = 1])
                      ELSE IF S # {} THEN Answer(p, "ok", Resolved(p), Newest(S, Limit), Scrolled(p))
                      ELSE Goto(p, [poll[p] EXCEPT !.page = 2])
<1>5. ASSUME NEW S \in SUBSET (1..posts[poll[p].chan]), Then(S)
      PROVE  Moves(p, {"fetch", "record"})
  <2>1. CASE Goto(p, [poll[p] EXCEPT !.got = S, !.page = 1])
    <3>1. Moves(p, {"fetch"})
      BY <1>1, <2>1, PageMoves
    <3> QED BY <3>1 DEF Moves
  <2>2. CASE Answer(p, "ok", Resolved(p), Newest(S, Limit), Scrolled(p))
    <3>1. PICK n \in SUBSET Nat : n = Newest(S, Limit)
      BY <1>3, NewestPart
    <3>2. Answer(p, "ok", t, n, m)
      BY <1>2, <1>4, <2>2, <3>1
    <3>3. Moves(p, {"record"})
      BY <1>1, <3>2, PlainMoves
    <3> QED BY <3>3 DEF Moves
  <2>3. CASE Goto(p, [poll[p] EXCEPT !.page = 2])
    <3>1. PICK g0 \in SUBSET (1..posts[poll[p].chan]) : g0 = poll[p].got
      BY <1>3
    <3>2. [poll[p] EXCEPT !.page = 2] = [poll[p] EXCEPT !.got = g0, !.page = 2]
      BY <1>3, <3>1 DEF PollRows
    <3>3. Goto(p, [poll[p] EXCEPT !.got = g0, !.page = 2])
      BY <2>3, <3>2
    <3>4. Moves(p, {"fetch"})
      BY <1>1, <3>3, PageMoves
    <3> QED BY <3>4 DEF Moves
  <2> QED BY <1>5, <2>1, <2>2, <2>3
<1>6. CASE listViaGraphQL(p)
  <2>1. PICK S1 \in SUBSET (1..posts[poll[p].chan]), S2 \in SUBSET (1..posts[poll[p].chan]) :
          S1 = poll[p].got \cup Tab(p, poll[p].page) /\ S2 = poll[p].got
    BY <1>1, <1>3, NewcomersType
  <2>2. \/ NoFault /\ Then(S1)
        \/ Fault("neterr") /\ Then(S2)
    BY <1>6, <2>1 DEF listViaGraphQL
  <2> HIDE DEF Then
  <2>3. Moves(p, {"fetch", "record"})
    BY <1>5, <2>2
  <2> QED BY <1>1, <2>2, <2>3, PlainSteady
<1>7. CASE listViaBrandPage(p)
  <2>1. \/ NoFault /\ Fails(p, "fail", t)
        \/ NoFault /\ Answer(p, "ok", t, g, m)
        \/ Errors(p, [neterr |-> "fail", layout |-> "layout"], t)
    BY <1>2, <1>4, <1>7 DEF listViaBrandPage
  <2>2. CASE NoFault
    <3>1. Moves(p, {"record"})
      BY <1>1, <2>1, PlainMoves, ClientOutcomes
    <3> QED BY <1>1, <2>2, <3>1, PlainSteady DEF Moves
  <2>3. CASE Errors(p, [neterr |-> "fail", layout |-> "layout"], t)
    <3>1. PICK client : client = [neterr |-> "fail", layout |-> "layout"]
      OBVIOUS
    <3>2. Moves(p, {"record"}) /\ faults' \in 0..scene.budget
      BY <1>1, <2>3, <3>1, PlainMoves, ClientOutcomes
    <3> QED BY <1>1, <3>2, PlainSteady DEF Moves
  <2> QED BY <2>1, <2>2, <2>3
<1> QED BY <1>6, <1>7 DEF FetchSmotrim

(***************************************************************************)
(* The seen list, pages and RSS documents                                  *)
(***************************************************************************)
LEMMA KeptType ==
  ASSUME NEW q \in Seq(Nat)
  PROVE  /\ Kept(q) \in Seq(Nat) /\ Len(Kept(q)) <= SeenKeep /\ Len(Kept(q)) \in Nat
         /\ \A i \in 1..Len(Kept(q)) : i \in 1..Len(q) /\ Kept(q)[i] = q[i]
<1>1. SeenKeep \in Nat /\ SeenKeep > 0
  BY SourcesAssumption
<1>2. CASE Len(q) > SeenKeep
  <2>1. Kept(q) = SubSeq(q, 1, SeenKeep)
    BY <1>2 DEF Kept
  <2>2. SubSeq(q, 1, SeenKeep) \in Seq(Nat) /\ Len(SubSeq(q, 1, SeenKeep)) = SeenKeep
        /\ \A i \in 1..SeenKeep : SubSeq(q, 1, SeenKeep)[i] = q[i]
    BY <1>1, <1>2
  <2> QED BY <1>1, <1>2, <2>1, <2>2
<1>3. CASE ~(Len(q) > SeenKeep)
  BY <1>1, <1>3 DEF Kept
<1> QED BY <1>2, <1>3

Remembering(st, news) == [st EXCEPT !.doc = TRUE, !.seen = Kept(news \o st.seen)]

\* The list after a poll has new posts and posts of the old list.
LEMMA Remembered ==
  ASSUME NEW st \in StatesKept, NEW n \in Nat, NEW new \in SUBSET (1..n), NEW news \in Descending(new)
  PROVE  /\ Remembering(st, news) \in StatesKept
         /\ Seen(Remembering(st, news)) \subseteq new \cup Seen(st)
<1>0. PICK t : t = Remembering(st, news)
  OBVIOUS
<1>1. st.seen \in Seq(Nat)
  BY StateFields
<1>2. IsFiniteSet(1..n)
  BY FS_Interval
<1>3. Cardinality(new) \in Nat
  BY <1>2, FS_Subset, FS_CardinalityType
<1>4. news \in Seq(new) /\ news \in Seq(Nat)
  <2>1. news \in [1..Cardinality(new) -> new]
    BY DEF Descending
  <2>2. news \in Seq(new)
    BY <1>3, <2>1
  <2>3. new \subseteq Nat
    OBVIOUS
  <2>4. news \in [1..Cardinality(new) -> Nat]
    BY <2>1, <2>3
  <2> QED BY <1>3, <2>2, <2>4
<1>5. PICK old \in Seq(Nat) : old = st.seen
  BY <1>1
<1>6. PICK q \in Seq(Nat) : q = news \o old
  <2>1. news \o old \in Seq(Nat)
    BY <1>4
  <2> QED BY <2>1, Zenon
<1>7. \A i \in 1..Len(q) : (\E j \in 1..Len(news) : q[i] = news[j]) \/ (\E j \in 1..Len(old) : q[i] = old[j])
  <2> SUFFICES ASSUME NEW i \in 1..Len(q)
               PROVE (\E j \in 1..Len(news) : q[i] = news[j]) \/ (\E j \in 1..Len(old) : q[i] = old[j])
    OBVIOUS
  <2>1. Len(news) \in Nat /\ Len(old) \in Nat /\ Len(q) = Len(news) + Len(old)
    BY <1>4, <1>6
  <2>2. CASE i <= Len(news)
    <3>1. q[i] = news[i] /\ i \in 1..Len(news)
      BY <1>4, <1>6, <2>1, <2>2
    <3> QED BY <3>1
  <2>3. CASE i > Len(news)
    <3>1. q[i] = old[i - Len(news)] /\ i - Len(news) \in 1..Len(old)
      BY <1>4, <1>6, <2>1, <2>3
    <3> QED BY <3>1
  <2> QED BY <2>1, <2>2, <2>3
<1>8. PICK k \in Seq(Nat) : k = Kept(q)
  BY KeptType
<1>9. t = [st EXCEPT !.doc = TRUE, !.seen = k]
  BY <1>0, <1>5, <1>6, <1>8 DEF Remembering
<1>10. Len(k) <= SeenKeep /\ \A i \in 1..Len(k) : i \in 1..Len(q) /\ k[i] = q[i]
  BY <1>8, KeptType
<1>11. t \in States /\ t.seen = k
  BY <1>9 DEF StatesKept, States
<1>12. t \in StatesKept
  BY <1>10, <1>11, StateIn
<1>13. Seen(t) \subseteq new \cup Seen(st)
  <2> SUFFICES ASSUME NEW i \in 1..Len(k) PROVE k[i] \in new \cup Seen(st)
    BY <1>11 DEF Seen
  <2>1. (\E j \in 1..Len(news) : k[i] = news[j]) \/ (\E j \in 1..Len(old) : k[i] = old[j])
    BY <1>7, <1>10
  <2>2. CASE \E j \in 1..Len(news) : k[i] = news[j]
    BY <1>4, <2>2
  <2>3. CASE \E j \in 1..Len(old) : k[i] = old[j]
    BY <1>5, <2>3 DEF Seen
  <2> QED BY <2>1, <2>2, <2>3
<1> QED BY <1>0, <1>12, <1>13

\* In a careful scene a poll with a cursor asks the channel its feed names.
LEMMA OwnChannel ==
  ASSUME DInv, NEW p \in Pollers, poll[p].pc # "idle", Cautious(scene),
         Kind \in CursorKinds \ {"telegram"}
  PROVE  poll[p].chan = url[FeedOf[p]]
BY GoodNow DEF Good, PollCovered

LEMMA FetchOKMoves ==
  ASSUME DInv, NEW p \in Pollers, FetchOK(p)
  PROVE  Moves(p, {"fetch", "record"}) /\ Steady
<1>1. /\ poll[p].pc = "fetch" /\ Kind = "ok"
      /\ UNCHANGED <<scene, posts, url, db, busy, limited>>
  BY DEF FetchOK, Requesting, FetchFrame, PlainFrame
<1>2. /\ poll[p].st \in StatesKept /\ posts[poll[p].chan] \in Nat /\ poll[p].page \in Nat
      /\ poll[p].got \subseteq 1..posts[poll[p].chan]
  BY <1>1, PollNow
<1>3. PICK st \in StatesKept, n \in Nat : st = poll[p].st /\ n = posts[poll[p].chan]
  BY <1>2
<1>4. PICK new \in SUBSET (1..n) :
        new = IF poll[p].page = 0 THEN parseGroupPage(p) \ Seen(poll[p].st) ELSE poll[p].got
  BY <1>1, <1>2, <1>3, NewcomersType DEF parseGroupPage
<1> DEFINE Remember(news) == IF new = {} THEN poll[p].st ELSE [poll[p].st EXCEPT !.doc = TRUE, !.seen = Kept(news \o @)]
<1>5. \/ NoFault /\ Goto(p, [poll[p] EXCEPT !.got = new, !.page = @ + 1])
      \/ NoFault /\ \E news \in Descending(new) :
           Answer(p, "ok", Remember(news), new, 1..(Latest(new) - Limit))
      \/ Errors(p, GroupPage, poll[p].st) \/ Errors(p, TopicPage, poll[p].st)
  BY <1>4 DEF FetchOK
<1>6. CASE NoFault /\ Goto(p, [poll[p] EXCEPT !.got = new, !.page = @ + 1])
  <2>1. PICK k \in Nat, g \in SUBSET (1..posts[poll[p].chan]) : k = poll[p].page + 1 /\ g = new
    BY <1>2, <1>3
  <2>2. Goto(p, [poll[p] EXCEPT !.got = g, !.page = k])
    BY <1>6, <2>1
  <2>3. Moves(p, {"fetch"})
    BY <1>1, <2>2, PageMoves
  <2> QED BY <1>1, <1>6, <2>3, PlainSteady DEF Moves
<1>7. ASSUME NoFault, NEW news \in Descending(new),
             Answer(p, "ok", Remember(news), new, 1..(Latest(new) - Limit))
      PROVE  Moves(p, {"fetch", "record"}) /\ Steady
  <2>1. PICK g \in SUBSET Nat, m \in SUBSET Nat : g = new /\ m = 1..(Latest(new) - Limit)
    <3>1. new \in SUBSET (0..n)
      OBVIOUS
    <3>2. Latest(new) \in Int /\ Limit \in Int
      <4>1. Latest(new) \in new \cup {0}
        BY <3>1, LatestType
      <4>2. Limit \in Int
        BY SourcesAssumption
      <4>3. \A i \in new \cup {0} : i \in Int
        OBVIOUS
      <4> QED BY <4>1, <4>2, <4>3
    <3>3. 1..(Latest(new) - Limit) \in SUBSET Nat /\ new \in SUBSET Nat
      BY <3>2
    <3> QED BY <3>3, Zenon
  <2>2. PICK s \in StatesKept : s = Remember(news) /\ Seen(s) \subseteq new \cup Seen(st)
    <3>1. CASE new = {}
      BY <1>3, <3>1
    <3>2. CASE new # {}
      <4>1. Remembering(st, news) \in StatesKept /\ Seen(Remembering(st, news)) \subseteq new \cup Seen(st)
        BY Remembered
      <4>2. Remembering(st, news) = Remember(news)
        BY <1>3, <3>2 DEF Remembering
      <4> QED BY <4>1, <4>2
    <3> QED BY <3>1, <3>2
  <2> HIDE DEF Remember
  <2>3. Covers(p, s, Items(p, g) \cup Items(p, m))
    <3> SUFFICES ASSUME Cautious(scene),
                        NEW x \in PassedBy(url[FeedOf[p]], s, poll[p].etag)
                 PROVE  x \in db[FeedOf[p]].stored \cup db[FeedOf[p]].left \cup (Items(p, g) \cup Items(p, m))
      BY DEF Covers
    <3>1. PICK c, e : c = url[FeedOf[p]] /\ e = poll[p].etag
      OBVIOUS
    <3>2. PassedBy(c, s, e) = {c} \X Seen(s) /\ PassedBy(c, st, e) = {c} \X Seen(st)
      BY <1>1, PassedCases
    <3>3. PICK i \in Seen(s) : x = <<c, i>>
      BY <3>1, <3>2
    <3>4. CASE i \in Seen(st)
      <4>1. x \in PassedBy(c, st, e)
        BY <3>2, <3>3, <3>4
      <4>2. Covers(p, poll[p].st, {})
        BY <1>1, CoversOwn
      <4> QED BY <1>3, <3>1, <4>1, <4>2 DEF Covers
    <3>5. CASE i \in new
      <4>1. poll[p].chan = c
        BY <1>1, <3>1, OwnChannel DEF CursorKinds
      <4> QED BY <2>1, <3>3, <3>5, <4>1 DEF Items
    <3> QED BY <2>2, <3>3, <3>4, <3>5
  <2>4. Answer(p, "ok", s, g, m)
    BY <1>7, <2>1, <2>2
  <2>5. Moves(p, {"record"})
    BY <1>1, <2>3, <2>4, AnswerMoves
  <2> QED BY <1>1, <1>7, <2>5, PlainSteady DEF Moves
<1>8. CASE Errors(p, GroupPage, poll[p].st) \/ Errors(p, TopicPage, poll[p].st)
  <2>1. Errors(p, GroupPage, st) \/ Errors(p, TopicPage, st)
    BY <1>3, <1>8
  <2>2. Covers(p, st, {})
    BY <1>1, <1>3, CoversOwn
  <2>3. Moves(p, {"record"}) /\ faults' \in 0..scene.budget
    BY <1>1, <2>1, <2>2, ErrorsMove, ClientOutcomes
  <2> QED BY <1>1, <2>3, PlainSteady DEF Moves
<1> QED BY <1>5, <1>6, <1>7, <1>8

LEMMA FetchPageMoves ==
  ASSUME DInv, NEW p \in Pollers, FetchPage(p)
  PROVE  Moves(p, {"record"}) /\ Steady
<1>1. /\ poll[p].pc = "fetch" /\ Kind = "page"
      /\ UNCHANGED <<scene, posts, url, db, busy, limited>>
  BY DEF FetchPage, Requesting, FetchFrame, PlainFrame
<1>2. PICK st \in StatesKept, v \in Nat : st = poll[p].st /\ v = posts[poll[p].chan]
  BY <1>1, PollNow
<1>3. \/ NoFault /\ Fails(p, "same", [st EXCEPT !.doc = TRUE])
      \/ NoFault /\ Answer(p, "ok", [st EXCEPT !.doc = TRUE, !.hash = v], {v}, 1..(v - 1))
      \/ Errors(p, fetchDocument, st)
  BY <1>2 DEF FetchPage
<1>4. Covers(p, st, {})
  BY <1>1, <1>2, CoversOwn
<1>5. CASE NoFault /\ Fails(p, "same", [st EXCEPT !.doc = TRUE])
  <2>1. PICK s \in StatesKept : s = [st EXCEPT !.doc = TRUE]
    BY StateChanges
  <2>2. s.cursor = st.cursor /\ s.chan = st.chan /\ s.hash = st.hash /\ s.seen = st.seen
    BY <2>1 DEF StatesKept, States
  <2>3. \A c, e : PassedBy(c, s, e) = PassedBy(c, st, e)
    BY <2>2, PassedSame
  <2>4. Covers(p, s, {})
    BY <1>4, <2>3 DEF Covers
  <2>5. Fails(p, "same", s)
    BY <1>5, <2>1
  <2>6. Moves(p, {"record"})
    BY <1>1, <2>4, <2>5, FailsMoves
  <2> QED BY <1>1, <1>5, <2>6, PlainSteady
<1>6. CASE NoFault /\ Answer(p, "ok", [st EXCEPT !.doc = TRUE, !.hash = v], {v}, 1..(v - 1))
  <2>1. PICK s \in StatesKept : s = [st EXCEPT !.doc = TRUE, !.hash = v]
    BY StateChanges
  <2>2. s.hash = v
    BY <2>1 DEF StatesKept, States
  <2>3. PICK g \in SUBSET Nat, m \in SUBSET Nat : g = {v} /\ m = 1..(v - 1)
    <3>1. {v} \in SUBSET Nat /\ 1..(v - 1) \in SUBSET Nat
      OBVIOUS
    <3> QED BY <3>1, Zenon
  <2>4. Covers(p, s, Items(p, g) \cup Items(p, m))
    <3> SUFFICES ASSUME Cautious(scene)
                 PROVE  PassedBy(url[FeedOf[p]], s, poll[p].etag) \subseteq Items(p, g)
      BY DEF Covers
    <3>1. PICK c, e : c = url[FeedOf[p]] /\ e = poll[p].etag
      OBVIOUS
    <3>2. PassedBy(c, s, e) = {c} \X ({s.hash} \ {0})
      BY <1>1, PassedCases
    <3>3. poll[p].chan = c
      BY <1>1, <3>1, OwnChannel DEF CursorKinds
    <3> QED BY <2>2, <2>3, <3>1, <3>2, <3>3 DEF Items
  <2>5. Answer(p, "ok", s, g, m)
    BY <1>6, <2>1, <2>3
  <2>6. Moves(p, {"record"})
    BY <1>1, <2>4, <2>5, AnswerMoves
  <2> QED BY <1>1, <1>6, <2>6, PlainSteady
<1>7. CASE Errors(p, fetchDocument, st)
  <2>1. Moves(p, {"record"}) /\ faults' \in 0..scene.budget
    BY <1>1, <1>4, <1>7, ErrorsMove, ClientOutcomes
  <2> QED BY <1>1, <2>1, PlainSteady
<1> QED BY <1>3, <1>5, <1>6, <1>7

LEMMA FetchRSSMoves ==
  ASSUME DInv, NEW p \in Pollers, FetchRSS(p)
  PROVE  Moves(p, {"record"}) /\ Steady
<1>1. /\ poll[p].pc = "fetch" /\ Kind = "rss"
      /\ UNCHANGED <<scene, posts, url, db, busy, limited>>
  BY DEF FetchRSS, Requesting, FetchFrame, PlainFrame
<1>2. PICK st \in StatesKept, v \in Nat, r \in PollRows :
        st = poll[p].st /\ v = posts[poll[p].chan] /\ r = poll[p]
  BY <1>1, PollNow
<1>3. PICK g \in SUBSET Post, m \in SUBSET Post :
        g = Items(p, Newcomers(p)) /\ m = Items(p, Scrolled(p))
  <2>1. poll[p].chan \in Channels
    BY <1>1, PollNow
  <2> QED BY <1>1, <2>1, NewcomersType DEF Items, Post
<1> DEFINE Changed(e) == [poll[p] EXCEPT !.pc = "record", !.out = "ok", !.etag = e,
                            !.st = [@ EXCEPT !.doc = TRUE, !.hash = v],
                            !.got = Items(p, Newcomers(p)), !.miss = Items(p, Scrolled(p))]
<1>4. \/ NoFault /\ Fails(p, "same", st)
      \/ NoFault /\ \E e \in {v, poll[p].etag} : Goto(p, Changed(e))
      \/ Errors(p, FetchWith, NoState)
  BY <1>2 DEF FetchRSS
<1>5. CASE NoFault /\ Fails(p, "same", st)
  <2>1. Covers(p, st, {})
    BY <1>1, <1>2, CoversOwn
  <2>2. Moves(p, {"record"})
    BY <1>1, <1>5, <2>1, FailsMoves
  <2> QED BY <1>1, <1>5, <2>2, PlainSteady
<1>6. ASSUME NoFault, NEW e \in {v, poll[p].etag}, Goto(p, Changed(e))
      PROVE  Moves(p, {"record"}) /\ Steady
  <2>1. PICK s \in StatesKept : s = [st EXCEPT !.doc = TRUE, !.hash = v]
    BY StateChanges
  <2>2. s.hash = v
    BY <2>1 DEF StatesKept, States
  <2>3. e \in Nat
    BY <1>1, PollNow
  <2>4. PICK t : t = [r EXCEPT !.pc = "record", !.out = "ok", !.etag = e, !.st = s, !.got = g, !.miss = m]
    OBVIOUS
  <2>5. /\ t \in PollRows /\ t.pc = "record" /\ t.out = "ok" /\ t.st = s /\ t.got = g /\ t.miss = m
        /\ t.chan = r.chan /\ t.base = r.base /\ t.items = r.items /\ t.etag = e
    BY <2>3, <2>4 DEF PollRows, Steps
  <2>6. Goto(p, t)
    <3>1. Changed(e) = t
      BY <1>2, <1>3, <2>1, <2>4
    <3> QED BY <1>6, <3>1
  <2> HIDE DEF Changed
  <2>7. PollPlace(t) /\ t.pc \notin SlotSteps
    BY <1>1, <1>2, <2>5, GoodNow DEF PollPlace, SlotSteps
  <2>8. t.items \subseteq db[FeedOf[p]].stored
    BY <1>2, <2>5, GoodNow DEF Good
  <2>9. ASSUME Cautious(scene) PROVE PollCovered(FeedOf[p], t)
    <3>1. PICK c, ee : c = url[FeedOf[p]] /\ ee = poll[p].etag
      OBVIOUS
    <3>2. poll[p].chan = c
      BY <1>1, <2>9, <3>1, OwnChannel DEF CursorKinds
    <3>3. Brought(t) = g \cup m
      BY <2>5 DEF Brought
    <3>4. {c} \X Newest(1..v, Limit) \subseteq g
      BY <1>2, <1>3, <3>2 DEF Items, Newcomers
    <3>5. PassedBy(c, s, e) = ({c} \X Newest(1..s.hash, Limit)) \cup ({c} \X Newest(1..e, Limit))
      BY <1>1, PassedCases
    <3>6. PassedBy(c, st, ee) = ({c} \X Newest(1..st.hash, Limit)) \cup ({c} \X Newest(1..ee, Limit))
      BY <1>1, PassedCases
    <3>7. Covers(p, poll[p].st, {})
      BY <1>1, CoversOwn
    <3>8. {c} \X Newest(1..ee, Limit) \subseteq db[FeedOf[p]].stored \cup db[FeedOf[p]].left
      BY <1>2, <2>9, <3>1, <3>6, <3>7 DEF Covers
    <3>9. PassedBy(c, t.st, t.etag) \subseteq db[FeedOf[p]].stored \cup db[FeedOf[p]].left \cup Brought(t)
      <4>1. CASE e = v
        BY <2>2, <2>5, <3>3, <3>4, <3>5, <4>1
      <4>2. CASE e = ee
        BY <2>2, <2>5, <3>3, <3>4, <3>5, <3>8, <4>2
      <4> QED BY <3>1, <4>1, <4>2
    <3> QED BY <1>2, <2>5, <2>8, <3>1, <3>2, <3>9 DEF PollCovered
  <2>10. Good(p, t)
    BY <2>5, <2>7, <2>8, <2>9 DEF Good
  <2> QED BY <1>1, <1>6, <2>5, <2>6, <2>10, PlainSteady DEF Moves
<1>7. CASE Errors(p, FetchWith, NoState)
  <2>1. Covers(p, NoState, {}) /\ NoState \in StatesKept
    BY <1>1, EmptyStates, CoversEmpty
  <2>2. Moves(p, {"record"}) /\ faults' \in 0..scene.budget
    BY <1>1, <1>7, <2>1, ErrorsMove, ClientOutcomes
  <2> QED BY <1>1, <2>2, PlainSteady
<1> QED BY <1>4, <1>5, <1>6, <1>7

(***************************************************************************)
(* The start of a poll                                                     *)
(***************************************************************************)
FirstStep == IF Kind \in {"telegram", "max"} THEN Kind ELSE "fetch"

LEMMA BeginMoves ==
  ASSUME DInv, NEW p \in Pollers, Begin(p)
  PROVE  /\ Moves(p, {FirstStep})
         /\ UNCHANGED <<scene, posts, url, db, limited>> /\ faults' \in 0..scene.budget
<1> DEFINE f == FeedOf[p]
           w == p \in Workers
<1>1. /\ f \in Feeds /\ db[f] \in FeedRows /\ url[f] \in Channels /\ posts[url[f]] \in Nat
  BY GoodNow
<1>2. PICK st0 \in StatesKept, c \in Channels, e \in Nat : st0 = db[f].st /\ c = url[f] /\ e = db[f].etag
  BY <1>1, RowFields
<1>3. PICK st \in StatesKept : /\ st = IF w THEN db[f].st ELSE fullRefetchState(db[f].st)
                               /\ PassedBy(c, st, e) \subseteq PassedBy(c, st0, e)
  <2>1. CASE w
    BY <1>2, <2>1
  <2>2. CASE ~w
    <3>1. fullRefetchState(st0) \in StatesKept /\ PassedBy(c, fullRefetchState(st0), e) \subseteq PassedBy(c, st0, e)
      BY RefetchPasses
    <3> QED BY <1>2, <2>2, <3>1
  <2> QED BY <2>1, <2>2
<1>4. PICK it \in SUBSET Post : it = (IF w THEN db[f].items ELSE {}) /\ it \subseteq db[f].stored
  <2>1. db[f].items \in SUBSET Post /\ db[f].items \subseteq db[f].stored
    BY <1>1, RowFields DEF DInv
  <2>2. CASE w
    BY <2>1, <2>2
  <2>3. CASE ~w
    <3>1. {} \in SUBSET Post /\ {} \subseteq db[f].stored
      OBVIOUS
    <3>2. {} = IF w THEN db[f].items ELSE {}
      BY <2>3
    <3> HIDE DEF w
    <3> QED BY <3>1, <3>2, Zenon
  <2> QED BY <2>2, <2>3
<1>5. PICK x \in {"telegram", "max", "fetch"} : x = FirstStep
  BY DEF FirstStep
<1>6. PICK n \in Nat : n = posts[url[f]]
  BY <1>1
<1>7. PICK r : r = [IdlePoll EXCEPT !.pc = x, !.st = st, !.etag = e, !.items = it, !.chan = c, !.base = n]
  OBVIOUS
<1>8. Goto(p, r)
  BY <1>2, <1>3, <1>4, <1>5, <1>6, <1>7 DEF Begin, FirstStep
<1>9. /\ r \in PollRows /\ r.pc = x /\ r.st = st /\ r.etag = e /\ r.items = it /\ r.chan = c /\ r.base = n
      /\ r.got = {} /\ r.page = 0
  <2>1. c \in Channels
    BY <1>1, <1>2
  <2> QED BY <1>7, <2>1, EmptyStates DEF PollRows, IdlePoll, Steps, SlotSteps
<1>10. PollPlace(r)
  <2>1. r.pc \in SlotSteps => Kind = "telegram"
    BY <1>5, <1>9 DEF SlotSteps, FirstStep
  <2>2. r.pc = "max" => Kind = "max"
    BY <1>5, <1>9 DEF FirstStep
  <2>3. c \in Channels /\ n <= posts[c]
    BY <1>1, <1>2, <1>6
  <2> QED BY <1>5, <1>9, <2>1, <2>2, <2>3 DEF PollPlace
<1>11. Paged(r)
  BY <1>9 DEF Paged
<1>12. ASSUME Cautious(scene) PROVE PollCovered(f, r)
  <2>1. Passed(f) \subseteq db[f].stored \cup db[f].left
    BY <1>1, <1>12 DEF DInv, FeedCovered
  <2>2. Passed(f) = PassedBy(c, st0, e)
    BY <1>2 DEF Passed
  <2>3. PassedBy(url[f], r.st, r.etag) \subseteq db[f].stored \cup db[f].left \cup Brought(r)
    BY <1>2, <1>3, <1>9, <2>1, <2>2
  <2> QED BY <1>2, <1>4, <1>9, <2>3 DEF PollCovered
<1>13. Good(p, r)
  BY <1>4, <1>9, <1>10, <1>11, <1>12 DEF Good
<1>14. faults' \in 0..scene.budget
  BY FaultsCount DEF Begin
<1>15. UNCHANGED <<scene, posts, url, db, limited>>
  BY DEF Begin
<1> QED BY <1>5, <1>8, <1>9, <1>13, <1>14, <1>15 DEF Moves

(***************************************************************************)
(* The step of a poll changes, and not what it read                        *)
(***************************************************************************)
LEMMA StepMoves ==
  ASSUME DInv, NEW p \in Pollers, poll[p].pc \in SlotSteps \cup {"max"},
         NEW x \in SlotSteps \cup {"fetch"}, x \in SlotSteps <=> poll[p].pc \in SlotSteps,
         NEW k \in Nat, Goto(p, [poll[p] EXCEPT !.pc = x, !.tries = k])
  PROVE  Moves(p, {x})
<1>1. poll[p] \in PollRows /\ PollPlace(poll[p]) /\ Good(p, poll[p])
  BY GoodNow
<1>2. PICK r : r = [poll[p] EXCEPT !.pc = x, !.tries = k]
  OBVIOUS
<1>3. /\ r \in PollRows /\ r.pc = x /\ r.st = poll[p].st /\ r.etag = poll[p].etag
      /\ r.items = poll[p].items /\ r.chan = poll[p].chan /\ r.base = poll[p].base
      /\ r.got = poll[p].got /\ r.page = poll[p].page /\ r.from = poll[p].from
  BY <1>1, <1>2 DEF PollRows, Steps
<1>4. poll[p].pc # "idle" /\ poll[p].pc # "record" /\ x # "idle" /\ x # "record" /\ x # "max"
  BY DEF SlotSteps
<1>5. PollPlace(r)
  BY <1>1, <1>3, <1>4 DEF PollPlace
<1>6. r.pc \in SlotSteps => Paged(r)
  BY <1>1, <1>3 DEF Good, Paged, CursorIn
<1>7. Brought(r) = {} /\ Brought(poll[p]) = {}
  BY <1>3, <1>4 DEF Brought
<1>8. Good(p, r)
  BY <1>1, <1>3, <1>4, <1>5, <1>6, <1>7 DEF Good, PollCovered
<1> QED BY <1>2, <1>3, <1>8 DEF Moves

LEMMA StepOnlyMoves ==
  ASSUME DInv, NEW p \in Pollers, poll[p].pc \in SlotSteps \cup {"max"},
         NEW x \in SlotSteps \cup {"fetch"}, x \in SlotSteps <=> poll[p].pc \in SlotSteps,
         Goto(p, [poll[p] EXCEPT !.pc = x])
  PROVE  Moves(p, {x})
<1>1. poll[p] \in PollRows
  BY GoodNow
<1>2. PICK k \in Nat : k = poll[p].tries
  BY <1>1, PollFields
<1>3. [poll[p] EXCEPT !.pc = x] = [poll[p] EXCEPT !.pc = x, !.tries = k]
  BY <1>1, <1>2 DEF PollRows
<1>4. Goto(p, [poll[p] EXCEPT !.pc = x, !.tries = k])
  BY <1>3
<1> QED BY <1>4, StepMoves

LEMMA tryReserveSlotMoves ==
  ASSUME DInv, NEW p \in Pollers, tryReserveSlot(p)
  PROVE  /\ Moves(p, IF Refused THEN {"record"} ELSE {"fetch"}) /\ Steady
<1>1. poll[p].pc = "max" /\ UNCHANGED <<scene, posts, url, db, busy, limited>> /\ NoFault
  BY DEF tryReserveSlot, FetchFrame
<1>2. CASE Refused
  <2>1. PICK st \in StatesKept : st = poll[p].st
    BY <1>1, PollNow
  <2>2. Fails(p, "defer", st) /\ Covers(p, st, {})
    BY <1>1, <1>2, <2>1, CoversOwn DEF tryReserveSlot
  <2>3. Moves(p, {"record"})
    BY <1>1, <2>2, FailsMoves
  <2> QED BY <1>1, <1>2, <2>3, PlainSteady
<1>3. CASE ~Refused
  <2>1. Goto(p, [poll[p] EXCEPT !.pc = "fetch"])
    BY <1>3 DEF tryReserveSlot
  <2>2. Moves(p, {"fetch"})
    BY <1>1, <2>1, StepOnlyMoves DEF SlotSteps
  <2> QED BY <1>1, <1>3, <2>2, PlainSteady
<1> QED BY <1>2, <1>3

(***************************************************************************)
(* Telegram: the pages read are an interval                                *)
(***************************************************************************)
\* The page asked for now goes on where the last one ended.
LEMMA PageShape ==
  ASSUME DInv, NEW p \in Pollers, poll[p].pc \in SlotSteps,
         NEW N \in Nat, N = posts[poll[p].chan], NEW cur \in Nat, cur = Cursor(p)
  PROVE  \/ PageShows(p) = {}
         \/ \E c, d, a, b \in Nat :
              /\ 1 <= c /\ c <= d /\ d <= N /\ PageShows(p) = c..d
              /\ 1 <= a /\ a <= b /\ b <= N /\ poll[p].got \cup PageShows(p) = a..b
              /\ IF cur > 0 THEN a = cur + 1 /\ b = d ELSE a = c
<1>0. PageSize \in Nat \ {0}
  BY SourcesAssumption
<1>1. poll[p] \in PollRows /\ Paged(poll[p])
  BY GoodNow DEF Good
<1>2. PICK pg \in Nat, fr \in Nat : pg = poll[p].page /\ fr = poll[p].from
  BY <1>1, PollFields
<1>3. CursorIn(poll[p]) = cur
  BY DEF CursorIn, Cursor
<1>4. CASE cur > 0
  <2>1. PICK k \in Nat : k = IF pg = 0 THEN cur ELSE fr
    OBVIOUS
  <2>2. PageShows(p) = Oldest(After(N, k), PageSize)
    BY <1>2, <1>4, <2>1 DEF PageShows, After
  <2>3. CASE N <= k
    BY <1>0, <2>2, <2>3, OldestInterval
  <2>4. CASE ~(N <= k)
    <3>1. PICK d \in (k + 1)..N : PageShows(p) = (k + 1)..d
      <4>1. PICK d \in (k + 1)..N : d = IF N <= k + PageSize THEN N ELSE k + PageSize
        BY <1>0, <2>4
      <4>2. Oldest(After(N, k), PageSize) = (k + 1)..d
        BY <1>0, <2>4, <4>1, OldestInterval
      <4> QED BY <2>2, <4>2
    <3>2. poll[p].got \cup PageShows(p) = (cur + 1)..d
      <4>1. CASE pg = 0
        <5>1. poll[p].got = {} /\ k = cur
          BY <1>1, <1>2, <2>1, <4>1 DEF Paged
        <5> QED BY <3>1, <5>1
      <4>2. CASE pg # 0
        <5>1. fr >= cur + 1 /\ poll[p].got = (cur + 1)..fr /\ k = fr
          BY <1>1, <1>2, <1>3, <1>4, <2>1, <4>2 DEF Paged
        <5>2. (cur + 1)..fr \cup (fr + 1)..d = (cur + 1)..d
          BY <3>1, <5>1
        <5> QED BY <3>1, <5>1, <5>2
      <4> QED BY <4>1, <4>2
    <3>3. k >= cur
      <4>1. CASE pg = 0
        BY <2>1, <4>1
      <4>2. CASE pg # 0
        BY <1>1, <1>2, <1>3, <1>4, <2>1, <4>2 DEF Paged
      <4> QED BY <4>1, <4>2
    <3>4. k + 1 \in Nat /\ d \in Nat /\ cur + 1 \in Nat /\ k + 1 <= d /\ d <= N /\ cur + 1 <= d
      BY <3>1, <3>3
    <3> QED BY <1>4, <3>1, <3>2, <3>4
  <2> QED BY <2>3, <2>4
<1>5. CASE cur = 0
  <2>1. PICK h \in Nat : /\ h <= N /\ PageShows(p) = Newest(1..h, PageSize)
                         /\ IF pg = 0 THEN h = N ELSE h = fr - 1
    <3>1. PageShows(p) = Newest({i \in 1..N : pg = 0 \/ i < fr}, PageSize)
      BY <1>2, <1>5 DEF PageShows
    <3>2. CASE pg = 0
      <4>1. {i \in 1..N : pg = 0 \/ i < fr} = 1..N
        BY <3>2
      <4>2. PageShows(p) = Newest(1..N, PageSize)
        BY <3>1, <4>1, Zenon
      <4>3. N <= N
        OBVIOUS
      <4> QED BY <3>2, <4>2, <4>3, Zenon
    <3>3. CASE pg # 0
      <4>1. 1 <= fr /\ fr <= N
        BY <1>1, <1>2, <1>3, <1>5, <3>3 DEF Paged
      <4>2. {i \in 1..N : pg = 0 \/ i < fr} = 1..(fr - 1)
        BY <3>3, <4>1
      <4>3. PageShows(p) = Newest(1..(fr - 1), PageSize)
        BY <3>1, <4>2, Zenon
      <4>4. fr - 1 \in Nat /\ fr - 1 <= N
        BY <4>1
      <4> QED BY <3>3, <4>3, <4>4, Zenon
    <3> QED BY <3>2, <3>3
  <2>2. CASE h = 0
    BY <1>0, <2>1, <2>2, NewestInterval
  <2>3. CASE h # 0
    <3>1. PICK c \in 1..h : PageShows(p) = c..h
      BY <1>0, <2>1, <2>3, NewestInterval
    <3>2. PICK b \in Nat : h <= b /\ b <= N /\ poll[p].got \cup PageShows(p) = c..b
      <4>1. CASE pg = 0
        <5>1. poll[p].got = {}
          BY <1>1, <1>2, <4>1 DEF Paged
        <5> QED BY <2>1, <3>1, <5>1
      <4>2. CASE pg # 0
        <5>1. PICK b \in Nat : 1 <= fr /\ fr <= b /\ b <= N /\ poll[p].got = fr..b
          BY <1>1, <1>2, <1>3, <1>5, <4>2 DEF Paged
        <5>2. (fr..b) \cup (c..h) = c..b /\ h <= b
          BY <2>1, <3>1, <4>2, <5>1
        <5> QED BY <3>1, <5>1, <5>2
      <4> QED BY <4>1, <4>2
    <3>3. c \in Nat /\ 1 <= c /\ c <= h /\ c <= b
      BY <3>1, <3>2
    <3> QED BY <1>5, <2>1, <3>1, <3>2, <3>3
  <2> QED BY <2>2, <2>3
<1>6. cur > 0 \/ cur = 0
  OBVIOUS
<1> QED BY <1>4, <1>5, <1>6, Zenon

NextPage == IF scene.mode = "service" THEN "proxy" ELSE "get"

\* One page more: the pages read are still an interval.
LEMMA MorePages ==
  ASSUME DInv, NEW p \in Pollers, poll[p].pc \in SlotSteps,
         NEW N \in Nat, N = posts[poll[p].chan], NEW cur \in Nat, cur = Cursor(p),
         NEW c \in Nat, NEW d \in Nat, NEW a \in Nat, NEW b \in Nat,
         1 <= c, c <= d, d <= N, 1 <= a, a <= b, b <= N,
         IF cur > 0 THEN a = cur + 1 /\ b = d ELSE a = c,
         Goto(p, [poll[p] EXCEPT !.got = a..b, !.page = @ + 1, !.tries = 0,
                    !.from = IF cur > 0 THEN d ELSE c, !.pc = NextPage])
  PROVE  Moves(p, {NextPage})
<1>1. poll[p] \in PollRows /\ PollPlace(poll[p]) /\ Good(p, poll[p])
  BY GoodNow
<1>2. PICK g \in SUBSET Nat, fr \in Nat, pg \in Nat, x \in {"proxy", "get"} :
        g = a..b /\ fr = (IF cur > 0 THEN d ELSE c) /\ pg = poll[p].page + 1 /\ x = NextPage
  <2>1. a..b \in SUBSET Nat /\ (IF cur > 0 THEN d ELSE c) \in Nat /\ poll[p].page + 1 \in Nat
        /\ NextPage \in {"proxy", "get"}
    BY <1>1, PollFields DEF NextPage
  <2> QED BY <2>1, Zenon
<1>3. PICK r : r = [poll[p] EXCEPT !.got = g, !.page = pg, !.tries = 0, !.from = fr, !.pc = x]
  OBVIOUS
<1>4. Goto(p, r)
  BY <1>2, <1>3
<1>5. /\ r \in PollRows /\ r.pc = x /\ r.st = poll[p].st /\ r.etag = poll[p].etag
      /\ r.items = poll[p].items /\ r.chan = poll[p].chan /\ r.base = poll[p].base
      /\ r.got = g /\ r.page = pg /\ r.from = fr
  BY <1>1, <1>3 DEF PollRows, Steps, SlotSteps
<1>6. r.pc \in SlotSteps /\ r.pc # "idle" /\ r.pc # "record" /\ r.pc # "max"
      /\ poll[p].pc # "idle" /\ poll[p].pc # "record"
  BY <1>2, <1>5 DEF SlotSteps
<1>7. PollPlace(r)
  <2>1. g \subseteq 1..N
    BY <1>2
  <2> QED BY <1>1, <1>5, <1>6, <2>1 DEF PollPlace
<1>8. CursorIn(r) = cur
  BY <1>5 DEF CursorIn, Cursor
<1>9. Paged(r)
  <2>1. pg # 0
    BY <1>1, <1>2, PollFields
  <2>2. r.got = a..b /\ r.from = IF cur > 0 THEN d ELSE c
    BY <1>2, <1>5
  <2>3. IF cur > 0 THEN a = cur + 1 /\ b = r.from ELSE a = r.from
    BY <2>2
  <2> QED BY <1>5, <1>8, <2>1, <2>2, <2>3 DEF Paged
<1>10. Brought(r) = {} /\ Brought(poll[p]) = {}
  BY <1>6 DEF Brought
<1>11. Good(p, r)
  BY <1>1, <1>5, <1>6, <1>7, <1>9, <1>10 DEF Good, PollCovered
<1> QED BY <1>2, <1>4, <1>5, <1>11 DEF Moves

\* The cursor written at the end: every post up to it is stored, was out of a
\* poll's sight, or is brought now.
LEMMA AdvancedCovers ==
  ASSUME DInv, NEW p \in Pollers, poll[p].pc \in SlotSteps,
         NEW cur \in Nat, cur = Cursor(p), NEW last \in Nat,
         NEW g \in SUBSET Nat, NEW m \in SUBSET Nat,
         \A i \in (cur + 1)..last : i \in g \cup m
  PROVE  /\ Advanced(p, last) \in StatesKept
         /\ Covers(p, Advanced(p, last), Items(p, g) \cup Items(p, m))
<1>1. PICK st \in StatesKept, ch \in Channels : st = poll[p].st /\ ch = poll[p].chan
  BY PollNow DEF SlotSteps
<1>2. Kind = "telegram" /\ poll[p].pc # "record" /\ poll[p].pc # "idle"
  BY GoodNow DEF PollPlace, SlotSteps
<1>3. Covers(p, st, {})
  BY <1>1, <1>2, CoversOwn
<1>4. CASE last = 0
  <2>1. Advanced(p, last) = st
    BY <1>1, <1>4 DEF Advanced
  <2> QED BY <1>3, <2>1 DEF Covers
<1>5. CASE last # 0
  <2>1. PICK s \in StatesKept : s = [st EXCEPT !.doc = TRUE, !.cursor = last, !.chan = ch]
    BY StateChanges
  <2>2. Advanced(p, last) = s
    BY <1>1, <1>5, <2>1 DEF Advanced
  <2>3. s.cursor = last /\ s.chan = ch
    BY <2>1 DEF StatesKept, States
  <2>4. Covers(p, s, Items(p, g) \cup Items(p, m))
    <3> SUFFICES ASSUME Cautious(scene),
                        NEW x \in PassedBy(url[FeedOf[p]], s, poll[p].etag)
                 PROVE  x \in db[FeedOf[p]].stored \cup db[FeedOf[p]].left \cup (Items(p, g) \cup Items(p, m))
      BY DEF Covers
    <3>1. PICK c, e : c = url[FeedOf[p]] /\ e = poll[p].etag
      OBVIOUS
    <3>2. PassedBy(c, s, e) = {s.chan} \X (1..s.cursor) /\ PassedBy(c, st, e) = {st.chan} \X (1..st.cursor)
      BY <1>2, PassedCases
    <3>3. PICK i \in 1..last : x = <<ch, i>>
      BY <2>3, <3>1, <3>2
    <3>4. CASE i <= cur
      <4>1. st.chan = ch /\ st.cursor = cur
        BY <1>1, <3>3, <3>4 DEF Cursor
      <4>2. x \in PassedBy(c, st, e)
        BY <3>2, <3>3, <3>4, <4>1
      <4> QED BY <1>3, <3>1, <4>2 DEF Covers
    <3>5. CASE ~(i <= cur)
      <4>1. i \in g \cup m
        BY <3>3, <3>5
      <4> QED BY <1>1, <3>3, <4>1 DEF Items
    <3> QED BY <3>4, <3>5
  <2> QED BY <2>2, <2>4
<1> QED BY <1>4, <1>5

LEMMA LastPage ==
  ASSUME DInv, NEW p \in Pollers, poll[p].pc \in SlotSteps,
         NEW cur \in Nat, cur = Cursor(p), NEW last \in Nat,
         NEW g \in SUBSET Nat, NEW m \in SUBSET Nat,
         \A i \in (cur + 1)..last : i \in g \cup m,
         Answer(p, "ok", Advanced(p, last), g, m)
  PROVE  Moves(p, {"record"})
<1>1. PICK s \in StatesKept : s = Advanced(p, last) /\ Covers(p, s, Items(p, g) \cup Items(p, m))
  BY AdvancedCovers
<1>2. Answer(p, "ok", s, g, m)
  BY <1>1
<1>3. poll[p].pc # "idle"
  BY DEF SlotSteps
<1> QED BY <1>1, <1>2, <1>3, AnswerMoves

LEMMA TelegramPageMoves ==
  ASSUME DInv, NEW p \in Pollers, poll[p].pc = "get", TelegramPage(p)
  PROVE  Moves(p, {NextPage, "record"})
<1> DEFINE shown == PageShows(p)
           got == poll[p].got \cup shown
<1>0. poll[p].pc \in SlotSteps
  BY DEF SlotSteps
<1>1. poll[p].pc # "idle" /\ poll[p] \in PollRows /\ Paged(poll[p])
  BY <1>0, GoodNow DEF Good, SlotSteps
<1>2. PICK N \in Nat : N = posts[poll[p].chan]
  BY <1>1, PollNow
<1>3. PICK cur \in Nat : cur = Cursor(p)
  BY <1>1, PollNow DEF Cursor
<1>4. \/ /\ shown # {}
         /\ Goto(p, [poll[p] EXCEPT !.got = got, !.page = @ + 1, !.tries = 0,
                        !.from = IF cur > 0 THEN Latest(shown) ELSE Min(shown),
                        !.pc = NextPage])
      \/ Answer(p, "ok", Advanced(p, Latest(got \cup {cur})), got,
                IF cur > 0 \/ got = {} THEN {} ELSE 1..(Min(got) - 1))
  BY <1>3 DEF TelegramPage, NextPage
<1>9. ASSUME shown # {}
      PROVE  \E c, d, a, b \in Nat :
              /\ 1 <= c /\ c <= d /\ d <= N /\ shown = c..d
              /\ 1 <= a /\ a <= b /\ b <= N /\ got = a..b
              /\ IF cur > 0 THEN a = cur + 1 /\ b = d ELSE a = c
  <2>1. \/ PageShows(p) = {}
        \/ \E c, d, a, b \in Nat :
              /\ 1 <= c /\ c <= d /\ d <= N /\ PageShows(p) = c..d
              /\ 1 <= a /\ a <= b /\ b <= N /\ poll[p].got \cup PageShows(p) = a..b
              /\ IF cur > 0 THEN a = cur + 1 /\ b = d ELSE a = c
    BY <1>0, <1>2, <1>3, PageShape, SMTT(30)
  <2> QED BY <1>9, <2>1, Zenon
<1>5. CASE /\ shown # {}
           /\ Goto(p, [poll[p] EXCEPT !.got = got, !.page = @ + 1, !.tries = 0,
                        !.from = IF cur > 0 THEN Latest(shown) ELSE Min(shown),
                        !.pc = NextPage])
  <2>1. PICK c \in Nat, d \in Nat, a \in Nat, b \in Nat :
              /\ 1 <= c /\ c <= d /\ d <= N /\ shown = c..d
              /\ 1 <= a /\ a <= b /\ b <= N /\ got = a..b
              /\ IF cur > 0 THEN a = cur + 1 /\ b = d ELSE a = c
    BY <1>5, <1>9
  <2> HIDE DEF shown, got
  <2>2. Latest(shown) = d
    BY <2>1, LatestOfInterval
  <2>3. Min(shown) = c
    <3>1. c..d \in SUBSET Int /\ c \in c..d /\ \A x \in c..d : c <= x
      BY <2>1
    <3>2. Min(c..d) = c
      BY <3>1, MinIs
    <3> QED BY <2>1, <3>2
  <2>4. Goto(p, [poll[p] EXCEPT !.got = a..b, !.page = @ + 1, !.tries = 0,
                    !.from = IF cur > 0 THEN d ELSE c, !.pc = NextPage])
    BY <1>5, <2>1, <2>2, <2>3
  <2>5. Moves(p, {NextPage})
    BY <1>0, <1>2, <1>3, <2>1, <2>4, MorePages
  <2> QED BY <2>5 DEF Moves
<1>6. ASSUME got = {}, Answer(p, "ok", Advanced(p, Latest(got \cup {cur})), got,
                              IF cur > 0 \/ got = {} THEN {} ELSE 1..(Min(got) - 1))
      PROVE  Moves(p, {"record"})
  <2> HIDE DEF got
  <2>1. Latest(got \cup {cur}) = cur
    <3>1. got \cup {cur} = {} \cup {cur}
      BY <1>6
    <3> QED BY <3>1, LatestOfOne
  <2>2. Answer(p, "ok", Advanced(p, cur), {}, {})
    BY <1>6, <2>1
  <2>3. \A i \in (cur + 1)..cur : i \in {} \cup {}
    OBVIOUS
  <2>4. {} \in SUBSET Nat
    OBVIOUS
  <2> QED BY <1>0, <1>3, <2>2, <2>3, <2>4, LastPage
<1>7. ASSUME NEW a \in Nat, NEW b \in Nat, 1 <= a, a <= b, got = a..b,
             cur > 0 => a = cur + 1,
             Answer(p, "ok", Advanced(p, Latest(got \cup {cur})), got,
                    IF cur > 0 \/ got = {} THEN {} ELSE 1..(Min(got) - 1))
      PROVE  Moves(p, {"record"})
  <2> HIDE DEF got
  <2>1. Latest(got \cup {cur}) = b
    <3>1. cur <= b
      BY <1>7
    <3>2. Latest((a..b) \cup {cur}) = b
      BY <1>7, <3>1, LatestBeyond
    <3> QED BY <1>7, <3>2
  <2>2. Min(got) = a /\ got # {}
    <3>1. a..b \in SUBSET Int /\ a \in a..b /\ \A x \in a..b : a <= x
      BY <1>7
    <3>2. Min(a..b) = a
      BY <3>1, MinIs
    <3> QED BY <1>7, <3>1, <3>2
  <2>3. PICK g \in SUBSET Nat, m \in SUBSET Nat :
          g = got /\ m = IF cur > 0 \/ got = {} THEN {} ELSE 1..(Min(got) - 1)
    <3>1. got \in SUBSET Nat /\ (IF cur > 0 \/ got = {} THEN {} ELSE 1..(Min(got) - 1)) \in SUBSET Nat
      BY <1>7, <2>2
    <3> QED BY <3>1, Zenon
  <2>4. Answer(p, "ok", Advanced(p, b), g, m)
    BY <1>7, <2>1, <2>3
  <2>5. \A i \in (cur + 1)..b : i \in g \cup m
    <3> SUFFICES ASSUME NEW i \in (cur + 1)..b PROVE i \in g \cup m
      OBVIOUS
    <3>1. CASE cur > 0
      BY <1>7, <2>3, <3>1
    <3>2. CASE cur = 0
      <4>1. ~(cur > 0 \/ got = {})
        BY <2>2, <3>2
      <4>2. m = 1..(Min(got) - 1)
        BY <2>3, <4>1, Zenon
      <4>3. m = 1..(a - 1)
        BY <2>2, <4>2
      <4>4. g = a..b
        BY <1>7, <2>3
      <4> QED BY <3>2, <4>3, <4>4
    <3> QED BY <3>1, <3>2
  <2> QED BY <1>0, <1>3, <2>4, <2>5, LastPage
<1>8. CASE Answer(p, "ok", Advanced(p, Latest(got \cup {cur})), got,
                IF cur > 0 \/ got = {} THEN {} ELSE 1..(Min(got) - 1))
  <2>1. CASE shown = {}
    <3>1. got = poll[p].got
      BY <2>1
    <3>2. CASE poll[p].got = {}
      <4>1. Moves(p, {"record"})
        BY <1>6, <1>8, <3>1, <3>2
      <4> QED BY <4>1 DEF Moves
    <3>3. CASE poll[p].got # {}
      <4>1. CursorIn(poll[p]) = cur
        BY <1>3 DEF CursorIn, Cursor
      <4>2. PICK a \in Nat, b \in Nat : 1 <= a /\ a <= b /\ poll[p].got = a..b /\ (cur > 0 => a = cur + 1)
        BY <1>1, <3>3, <4>1 DEF Paged
      <4> HIDE DEF got
      <4>3. Moves(p, {"record"})
        BY <1>7, <1>8, <3>1, <4>2
      <4> QED BY <4>3 DEF Moves
    <3> QED BY <3>2, <3>3
  <2>2. CASE shown # {}
    <3>1. PICK c \in Nat, d \in Nat, a \in Nat, b \in Nat :
              /\ 1 <= c /\ c <= d /\ d <= N /\ shown = c..d
              /\ 1 <= a /\ a <= b /\ b <= N /\ got = a..b
              /\ IF cur > 0 THEN a = cur + 1 /\ b = d ELSE a = c
      BY <1>9, <2>2
    <3> HIDE DEF shown, got
    <3>2. Moves(p, {"record"})
      BY <1>7, <1>8, <3>1
    <3> QED BY <3>2 DEF Moves
  <2> QED BY <2>1, <2>2
<1> QED BY <1>4, <1>5, <1>8

(***************************************************************************)
(* Telegram: the steps                                                     *)
(***************************************************************************)
\* A fetch that fails keeps the state it began with.
LEMMA SlotFails ==
  ASSUME DInv, NEW p \in Pollers, poll[p].pc \in SlotSteps
  PROVE  /\ \A o \in {"fail", "defer"} : Fails(p, o, poll[p].st) => Moves(p, {"record"})
         /\ \A client : Outcomes(client) /\ Errors(p, client, poll[p].st)
                          => Moves(p, {"record"}) /\ faults' \in 0..scene.budget
<1>1. poll[p].pc # "idle" /\ poll[p].pc # "record"
  BY DEF SlotSteps
<1>2. PICK st \in StatesKept : st = poll[p].st
  BY <1>1, PollNow
<1>3. Covers(p, st, {})
  BY <1>1, <1>2, CoversOwn
<1>4. ASSUME NEW o \in {"fail", "defer"}, Fails(p, o, st)
      PROVE  Moves(p, {"record"})
  BY <1>1, <1>3, <1>4, FailsMoves
<1>5. ASSUME NEW client, Outcomes(client), Errors(p, client, st)
      PROVE  Moves(p, {"record"}) /\ faults' \in 0..scene.budget
  BY <1>1, <1>3, <1>5, ErrorsMove
<1> QED BY <1>2, <1>4, <1>5

LEMMA TelegramWaitsMoves ==
  ASSUME DInv, NEW p \in Pollers, TelegramWaits(p)
  PROVE  (Moves(p, {NextPage, "record"}) \/ UNCHANGED poll) /\ Steady
<1>1. poll[p].pc = "telegram" /\ poll[p].pc \in SlotSteps
  BY DEF TelegramWaits, SlotSteps
<1>2. UNCHANGED <<scene, posts, url, db, busy, limited>> /\ NoFault
  BY DEF TelegramWaits, FetchFrame
<1>3. CASE Goto(p, [poll[p] EXCEPT !.pc = IF scene.mode = "service" THEN "proxy" ELSE "get"])
  <2>1. PICK x \in {"proxy", "get"} : x = NextPage
    BY DEF NextPage
  <2>2. Goto(p, [poll[p] EXCEPT !.pc = x])
    BY <1>3, <2>1 DEF NextPage
  <2>3. Moves(p, {x})
    BY <1>1, <2>2, StepOnlyMoves DEF SlotSteps
  <2> QED BY <1>2, <2>1, <2>3, PlainSteady DEF Moves
<1>4. CASE Fails(p, "defer", poll[p].st)
  <2>1. Moves(p, {"record"})
    BY <1>1, <1>4, SlotFails
  <2> QED BY <1>2, <2>1, PlainSteady DEF Moves
<1>5. CASE UNCHANGED poll
  BY <1>2, <1>5, PlainSteady
<1> QED BY <1>3, <1>4, <1>5 DEF TelegramWaits

LEMMA TelegramRingsMoves ==
  ASSUME DInv, NEW p \in Pollers, TelegramRings(p)
  PROVE  UNCHANGED poll /\ Steady
<1>1. UNCHANGED <<scene, posts, url, db, busy, limited, poll>> /\ (NoFault \/ Fault("slow"))
  BY DEF TelegramRings, FetchFrame
<1> QED BY <1>1, PlainSteady

LEMMA TelegramGetMoves ==
  ASSUME DInv, NEW p \in Pollers, TelegramGet(p)
  PROVE  Moves(p, {NextPage, "record"}) /\ Steady
<1>1. poll[p].pc = "get" /\ poll[p].pc \in SlotSteps /\ UNCHANGED <<scene, posts, url, db, busy, limited>>
  BY DEF TelegramGet, FetchFrame, SlotSteps
<1>2. CASE NoFault /\ TelegramPage(p)
  BY <1>1, <1>2, TelegramPageMoves, PlainSteady
<1>3. CASE Errors(p, fetchDirect, poll[p].st) \/ Errors(p, fetchViaStatic, poll[p].st)
  <2>1. Moves(p, {"record"}) /\ faults' \in 0..scene.budget
    BY <1>1, <1>3, SlotFails, ClientOutcomes
  <2> QED BY <1>1, <2>1, PlainSteady DEF Moves
<1> QED BY <1>2, <1>3 DEF TelegramGet

LEMMA TelegramProxyMoves ==
  ASSUME DInv, NEW p \in Pollers, TelegramProxy(p)
  PROVE  Moves(p, {"socks", "record"}) /\ Steady
<1>1. poll[p].pc = "proxy" /\ poll[p].pc \in SlotSteps /\ UNCHANGED <<scene, posts, url, db, busy, limited>>
  BY DEF TelegramProxy, FetchFrame, SlotSteps
<1>2. CASE NoFault /\ Goto(p, [poll[p] EXCEPT !.pc = "socks"])
  <2>1. Moves(p, {"socks"})
    BY <1>1, <1>2, StepOnlyMoves DEF SlotSteps
  <2> QED BY <1>1, <1>2, <2>1, PlainSteady DEF Moves
<1>3. CASE Fault("noproxy") /\ Fails(p, "defer", poll[p].st)
  <2>1. Moves(p, {"record"})
    BY <1>1, <1>3, SlotFails
  <2> QED BY <1>1, <1>3, <2>1, PlainSteady DEF Moves
<1>4. CASE Fault("late") /\ Fails(p, "fail", poll[p].st)
  <2>1. Moves(p, {"record"})
    BY <1>1, <1>4, SlotFails
  <2> QED BY <1>1, <1>4, <2>1, PlainSteady DEF Moves
<1> QED BY <1>2, <1>3, <1>4 DEF TelegramProxy

LEMMA TelegramSocksMoves ==
  ASSUME DInv, NEW p \in Pollers, TelegramSocks(p)
  PROVE  Moves(p, {"get"}) /\ Steady
<1>1. /\ poll[p].pc = "socks" /\ poll[p].pc \in SlotSteps
      /\ UNCHANGED <<scene, posts, url, db, busy, limited>> /\ NoFault
      /\ Goto(p, [poll[p] EXCEPT !.pc = "get"])
  BY DEF TelegramSocks, FetchFrame, SlotSteps
<1>2. Moves(p, {"get"})
  BY <1>1, StepOnlyMoves DEF SlotSteps
<1> QED BY <1>1, <1>2, PlainSteady

LEMMA TelegramViaProxyMoves ==
  ASSUME DInv, NEW p \in Pollers, TelegramViaProxy(p)
  PROVE  Moves(p, {"proxy", "record"}) /\ Steady
<1>1. /\ poll[p].pc = "get" /\ poll[p].pc \in SlotSteps /\ scene.mode = "service"
      /\ UNCHANGED <<scene, posts, url, db, busy, limited>>
  BY DEF TelegramViaProxy, FetchFrame, SlotSteps
<1>2. NextPage = "proxy"
  BY <1>1 DEF NextPage
<1>3. CASE NoFault /\ TelegramPage(p)
  BY <1>1, <1>2, <1>3, TelegramPageMoves, PlainSteady
<1>4. CASE Fault("badproxy") /\ Fails(p, "defer", poll[p].st)
  <2>1. Moves(p, {"record"})
    BY <1>1, <1>4, SlotFails
  <2> QED BY <1>1, <1>4, <2>1, PlainSteady DEF Moves
<1>5. CASE Fault("badproxy") /\ Goto(p, [poll[p] EXCEPT !.pc = "proxy", !.tries = @ + 1])
  <2>1. PICK k \in Nat : k = poll[p].tries + 1
    BY GoodNow, PollFields
  <2>2. Goto(p, [poll[p] EXCEPT !.pc = "proxy", !.tries = k])
    BY <1>5, <2>1
  <2>3. Moves(p, {"proxy"})
    BY <1>1, <2>2, StepMoves DEF SlotSteps
  <2> QED BY <1>1, <1>5, <2>3, PlainSteady DEF Moves
<1> QED BY <1>3, <1>4, <1>5 DEF TelegramViaProxy

\* Whatever a poll asks its source: it goes on or has something to record.
LEMMA FetchSourceMoves ==
  ASSUME DInv, NEW p \in Pollers, FetchSource(p)
  PROVE  (Moves(p, Steps \ {"idle"}) \/ UNCHANGED poll) /\ Steady
<1>1. ASSUME NEW X, X \subseteq Steps \ {"idle"}, Moves(p, X) PROVE Moves(p, Steps \ {"idle"})
  BY <1>1 DEF Moves
<1>2. {NextPage, "record"} \subseteq Steps \ {"idle"}
  BY DEF NextPage, Steps, SlotSteps
<1>3. CASE Telegram(p)
  <2>1. CASE TelegramWaits(p)
    BY <1>1, <1>2, <2>1, TelegramWaitsMoves
  <2>2. CASE TelegramRings(p)
    BY <2>2, TelegramRingsMoves
  <2>3. CASE TelegramGet(p)
    BY <1>1, <1>2, <2>3, TelegramGetMoves
  <2>4. CASE TelegramProxy(p)
    <3>1. {"socks", "record"} \subseteq Steps \ {"idle"}
      BY DEF Steps, SlotSteps
    <3> QED BY <1>1, <2>4, <3>1, TelegramProxyMoves
  <2>5. CASE TelegramSocks(p)
    <3>1. {"get"} \subseteq Steps \ {"idle"}
      BY DEF Steps, SlotSteps
    <3> QED BY <1>1, <2>5, <3>1, TelegramSocksMoves
  <2>6. CASE TelegramViaProxy(p)
    <3>1. {"proxy", "record"} \subseteq Steps \ {"idle"}
      BY DEF Steps, SlotSteps
    <3> QED BY <1>1, <2>6, <3>1, TelegramViaProxyMoves
  <2> QED BY <1>3, <2>1, <2>2, <2>3, <2>4, <2>5, <2>6 DEF Telegram
<1>4. CASE tryReserveSlot(p)
  <2>1. (IF Refused THEN {"record"} ELSE {"fetch"}) \subseteq Steps \ {"idle"}
    BY DEF Steps
  <2> QED BY <1>1, <1>4, <2>1, tryReserveSlotMoves
<1>5. {"record"} \subseteq Steps \ {"idle"} /\ {"fetch", "record"} \subseteq Steps \ {"idle"}
  BY DEF Steps
<1>6. CASE FetchMax(p) \/ FetchVK(p) \/ FetchMaxstat(p) \/ FetchWall(p) \/ FetchDzenNews(p) \/ FetchRutube(p)
  BY <1>1, <1>5, <1>6, FetchMaxMoves, FetchVKMoves, FetchMaxstatMoves, FetchWallMoves
<1>7. CASE FetchTabs(p) \/ FetchSmotrim(p) \/ FetchOK(p)
  BY <1>1, <1>5, <1>7, FetchTabsMoves, FetchSmotrimMoves, FetchOKMoves
<1>8. CASE FetchPage(p) \/ FetchRSS(p)
  BY <1>1, <1>5, <1>8, FetchPageMoves, FetchRSSMoves
<1> QED BY <1>3, <1>4, <1>6, <1>7, <1>8 DEF FetchSource

(***************************************************************************)
(* The tables and the world change                                         *)
(***************************************************************************)
LEMMA IdleRow ==
  /\ IdlePoll \in PollRows /\ IdlePoll.pc = "idle" /\ IdlePoll.st = NoState /\ IdlePoll.etag = 0
  /\ IdlePoll.items = {}
BY EmptyStates DEF IdlePoll, PollRows, Steps

\* A good poll stays good while posts are published and entries stored.
LEMMA GoodKept ==
  ASSUME DInv, NEW q \in Pollers, NEW r, Good(q, r), scene' = scene,
         posts' \in [Channels -> Nat], \A c \in Channels : posts[c] <= posts'[c],
         db[FeedOf[q]].stored \subseteq db'[FeedOf[q]].stored,
         db[FeedOf[q]].left \subseteq db'[FeedOf[q]].left,
         url'[FeedOf[q]] = url[FeedOf[q]] \/ (Cautious(scene) => Kind \notin CursorKinds \ {"telegram"})
  PROVE  Good(q, r)'
<1>0. r \in PollRows /\ PollPlace(r) /\ posts \in [Channels -> Nat]
  BY GoodNow DEF Good
<1>1. r.base \in Nat /\ r.pc \in Steps
  BY <1>0, PollFields
<1>2. PollPlace(r)'
  <2>1. Kind' = Kind
    BY DEF Kind
  <2>2. ASSUME r.pc # "idle" PROVE r.base <= posts'[r.chan]
    BY <1>0, <1>1, <2>2 DEF PollPlace
  <2>3. ASSUME r.pc \in SlotSteps \cup {"max", "fetch"} PROVE r.got \subseteq 1..posts'[r.chan]
    <3>1. r.pc # "idle"
      BY <2>3 DEF SlotSteps
    <3>2. r.chan \in Channels /\ r.got \subseteq 1..posts[r.chan]
      BY <1>0, <2>3, <3>1 DEF PollPlace
    <3>3. PICK n \in Nat, m \in Nat : n = posts[r.chan] /\ m = posts'[r.chan] /\ n <= m
      BY <1>0, <3>2
    <3>4. 1..n \subseteq 1..m
      BY <3>3
    <3> QED BY <3>2, <3>3, <3>4
  <2> QED BY <1>0, <2>1, <2>2, <2>3 DEF PollPlace
<1>3. ASSUME r.pc \in SlotSteps PROVE Paged(r)'
  <2>1. Paged(r)
    BY <1>3 DEF Good
  <2>2. r.chan \in Channels
    BY <1>0, <1>3 DEF PollPlace, SlotSteps
  <2>3. PICK n \in Nat, m \in Nat : n = posts[r.chan] /\ m = posts'[r.chan] /\ n <= m
    BY <1>0, <2>2
  <2>4. CASE r.page = 0
    BY <2>1, <2>4 DEF Paged
  <2>5. CASE r.page # 0
    <3>1. PICK a \in Nat, b \in Nat :
             /\ 1 <= a /\ a <= b /\ b <= n /\ r.got = a..b
             /\ IF CursorIn(r) > 0 THEN a = CursorIn(r) + 1 /\ b = r.from ELSE a = r.from
      BY <2>1, <2>3, <2>5 DEF Paged
    <3>2. b <= m
      BY <2>3, <3>1
    <3> QED BY <2>3, <2>5, <3>1, <3>2 DEF Paged, CursorIn
  <2> QED BY <2>4, <2>5
<1>4. r.items \subseteq db'[FeedOf[q]].stored
  BY DEF Good
<1>5. ASSUME Cautious(scene) PROVE PollCovered(FeedOf[q], r)'
  <2>1. PollCovered(FeedOf[q], r)
    BY <1>5 DEF Good
  <2>2. PICK c, c2 : c = url[FeedOf[q]] /\ c2 = url'[FeedOf[q]]
    OBVIOUS
  <2>3. PassedBy(c2, r.st, r.etag) = PassedBy(c, r.st, r.etag)
    <3>1. CASE c = c2
      BY <3>1
    <3>2. CASE Kind = "telegram"
      <4>1. PICK st, e : st = r.st /\ e = r.etag
        OBVIOUS
      <4>2. PassedBy(c, st, e) = {st.chan} \X (1..st.cursor) /\ PassedBy(c2, st, e) = {st.chan} \X (1..st.cursor)
        BY <3>2, PassedCases
      <4> QED BY <4>1, <4>2
    <3>3. CASE Kind \notin CursorKinds
      BY <3>3, PassedCases
    <3> QED BY <1>5, <2>2, <3>1, <3>2, <3>3
  <2>4. PassedBy(c2, r.st, r.etag)' = PassedBy(c2, r.st, r.etag)
    BY DEF PassedBy, Kind
  <2>5. Brought(r)' = Brought(r)
    BY DEF Brought
  <2>6. PassedBy(c2, r.st, r.etag)' \subseteq (db[FeedOf[q]].stored \cup db[FeedOf[q]].left \cup Brought(r))'
    BY <2>1, <2>2, <2>3, <2>4, <2>5 DEF PollCovered
  <2>7. (Kind \in CursorKinds \ {"telegram"} /\ r.pc # "idle" => r.chan = url[FeedOf[q]])'
    BY <1>5, <2>1 DEF PollCovered, Kind
  <2> QED BY <1>4, <2>2, <2>6, <2>7 DEF PollCovered
<1> QED BY <1>0, <1>2, <1>3, <1>4, <1>5 DEF Good

LEMMA IdleGood ==
  ASSUME DInv, NEW q \in Pollers
  PROVE  Good(q, IdlePoll)
<1>1. PICK c : c = url[FeedOf[q]]
  OBVIOUS
<1>2. PassedBy(c, NoState, 0) = {}
  BY EmptyStates, PassedEmpty
<1>3. PollPlace(IdlePoll)
  BY IdleRow DEF PollPlace, SlotSteps
<1>4. PollCovered(FeedOf[q], IdlePoll)
  BY <1>1, <1>2, IdleRow DEF PollCovered
<1> QED BY <1>3, <1>4, IdleRow DEF Good, SlotSteps

\* A row that keeps what it had stored, and whose state is covered by it.
GoodRow(f, d) ==
  /\ d \in FeedRows
  /\ db[f].stored \subseteq d.stored /\ db[f].left \subseteq d.left
  /\ d.items \subseteq d.stored
  /\ Cautious(scene) /\ Kind \in CursorKinds => d.row

CoveredRow(c, d) == Cautious(scene) => PassedBy(c, d.st, d.etag) \subseteq d.stored \cup d.left

LEMMA WorldKeeps ==
  ASSUME DInv, scene' = scene,
         posts' \in [Channels -> Nat], \A c \in Channels : posts[c] <= posts'[c],
         url' \in [Feeds -> Channels],
         \A f \in Feeds : url'[f] = url[f] \/ (Cautious(scene) => Kind \notin CursorKinds \ {"telegram"}),
         db' \in [Feeds -> FeedRows],
         \A f \in Feeds : GoodRow(f, db'[f]) /\ CoveredRow(url'[f], db'[f]),
         poll' \in [Pollers -> PollRows],
         \A q \in Pollers : Good(q, poll'[q]) \/ poll'[q] = IdlePoll,
         limited' \subseteq Channels, faults' \in 0..scene.budget
  PROVE  DInv'
<1>1. Tables'
  BY DEF DInv, Tables
<1>2. ASSUME NEW q \in Pollers PROVE Good(q, poll[q])'
  <2>1. PICK r : r = poll'[q]
    OBVIOUS
  <2>2. Good(q, r)
    BY <2>1, IdleGood
  <2>3. FeedOf[q] \in Feeds
    BY GoodNow
  <2>4. Good(q, r)'
    BY <2>2, <2>3, GoodKept DEF GoodRow
  <2> QED BY <2>1, <2>4
<1>3. ASSUME NEW f \in Feeds PROVE (db[f].items \subseteq db[f].stored)'
  BY <1>3 DEF GoodRow
<1>4. ASSUME Cautious(scene), NEW f \in Feeds PROVE FeedCovered(f)'
  <2>1. PICK c, d : c = url'[f] /\ d = db'[f]
    OBVIOUS
  <2>2. GoodRow(f, d) /\ CoveredRow(c, d)
    BY <1>4, <2>1
  <2>3. PassedBy(c, d.st, d.etag)' = PassedBy(c, d.st, d.etag)
    BY DEF PassedBy, Kind
  <2>4. Passed(f)' = PassedBy(c, d.st, d.etag)
    BY <2>1, <2>3 DEF Passed
  <2>5. Passed(f)' \subseteq d.stored \cup d.left
    BY <1>4, <2>2, <2>4 DEF CoveredRow
  <2>6. Kind' \in CursorKinds => d.row
    BY <1>4, <2>2 DEF GoodRow, Kind
  <2> QED BY <2>1, <2>5, <2>6 DEF FeedCovered
<1> QED BY <1>1, <1>2, <1>3, <1>4 DEF DInv

\* The rows as they are.
LEMMA RowsGood ==
  ASSUME DInv, NEW f \in Feeds
  PROVE  db[f] \in FeedRows /\ GoodRow(f, db[f]) /\ CoveredRow(url[f], db[f])
<1>1. db[f] \in FeedRows /\ db[f].items \subseteq db[f].stored
  BY DEF DInv, Tables
<1>2. CoveredRow(url[f], db[f])
  BY DEF DInv, FeedCovered, Passed, CoveredRow
<1>3. Cautious(scene) /\ Kind \in CursorKinds => db[f].row
  BY DEF DInv, FeedCovered
<1> QED BY <1>1, <1>2, <1>3 DEF GoodRow

LEMMA TablesNow ==
  ASSUME DInv
  PROVE  /\ posts \in [Channels -> Nat] /\ url \in [Feeds -> Channels] /\ db \in [Feeds -> FeedRows]
         /\ poll \in [Pollers -> PollRows] /\ limited \subseteq Channels
         /\ scene \in Scenes /\ \A c \in Channels : posts[c] <= posts[c]
         /\ faults \in 0..scene.budget /\ scene.budget \in Nat
         /\ \A q \in Pollers : Good(q, poll[q])
<1>1. posts \in [Channels -> Nat]
  BY DEF DInv, Tables
<1>2. \A c \in Channels : posts[c] \in Nat
  BY <1>1
<1> QED BY <1>1, <1>2, SourcesAssumption DEF DInv, Tables

\* Nothing the tables hold changes.
LEMMA StillKeeps ==
  ASSUME DInv, UNCHANGED <<scene, posts, url, db, poll>>, limited' \subseteq Channels,
         faults' \in 0..scene.budget
  PROVE  DInv'
BY TablesNow, RowsGood, WorldKeeps

(***************************************************************************)
(* The outcome is recorded                                                 *)
(***************************************************************************)
\* One row is written and the poll is over.
LEMMA WriteKeeps ==
  ASSUME DInv, NEW p \in Pollers, NEW d, Write(p, d), GoodRow(FeedOf[p], d),
         CoveredRow(url[FeedOf[p]], d), Goto(p, IdlePoll),
         UNCHANGED <<scene, posts, url, limited>>, faults' \in 0..scene.budget
  PROVE  DInv'
<1>1. d \in FeedRows
  BY DEF GoodRow
<1>2. db' \in [Feeds -> FeedRows] /\ db'[FeedOf[p]] = d
      /\ \A f \in Feeds : f # FeedOf[p] => db'[f] = db[f]
  BY <1>1, TablesNow, GoodNow DEF Write
<1>3. ASSUME NEW f \in Feeds PROVE GoodRow(f, db'[f]) /\ CoveredRow(url'[f], db'[f])
  <2>1. PICK e, c : e = db'[f] /\ c = url'[f] /\ c = url[f]
    OBVIOUS
  <2>2. GoodRow(f, e) /\ CoveredRow(c, e)
    BY <1>2, <2>1, RowsGood
  <2> QED BY <2>1, <2>2
<1>4. poll' \in [Pollers -> PollRows] /\ \A q \in Pollers : poll'[q] = poll[q] \/ poll'[q] = IdlePoll
  BY TablesNow, IdleRow DEF Goto
<1>5. \A q \in Pollers : Good(q, poll'[q]) \/ poll'[q] = IdlePoll
  <2> SUFFICES ASSUME NEW q \in Pollers, poll'[q] # IdlePoll PROVE Good(q, poll'[q])
    OBVIOUS
  <2>1. PICK r : r = poll'[q] /\ r = poll[q]
    BY <1>4
  <2>2. Good(q, r)
    BY <2>1, TablesNow
  <2> QED BY <2>1, <2>2
<1> QED BY <1>2, <1>3, <1>4, <1>5, TablesNow, WorldKeeps

\* Nothing is written and the poll is over.
LEMMA DropKeeps ==
  ASSUME DInv, NEW p \in Pollers, UNCHANGED db, Goto(p, IdlePoll),
         UNCHANGED <<scene, posts, url, limited>>, faults' \in 0..scene.budget
  PROVE  DInv'
<1>1. FeedOf[p] \in Feeds /\ db \in [Feeds -> FeedRows]
  BY TablesNow, GoodNow
<1>2. PICK d : d = db[FeedOf[p]]
  OBVIOUS
<1>3. Write(p, d)
  BY <1>1, <1>2 DEF Write
<1>4. GoodRow(FeedOf[p], d) /\ CoveredRow(url[FeedOf[p]], d)
  BY <1>1, <1>2, RowsGood
<1> QED BY <1>3, <1>4, WriteKeeps

\* What a poll of a careful scene has to record.
LEMMA RecordNow ==
  ASSUME DInv, NEW p \in Pollers, poll[p].pc = "record"
  PROVE  /\ poll[p] \in PollRows /\ poll[p].got \in SUBSET Post /\ poll[p].miss \in SUBSET Post
         /\ poll[p].st \in StatesKept /\ poll[p].etag \in Nat
         /\ poll[p].items \subseteq db[FeedOf[p]].stored
         /\ FeedOf[p] \in Feeds /\ db[FeedOf[p]] \in FeedRows
         /\ Cautious(scene) => PassedBy(url[FeedOf[p]], poll[p].st, poll[p].etag)
              \subseteq db[FeedOf[p]].stored \cup db[FeedOf[p]].left
                        \cup (IF poll[p].out = "ok" THEN poll[p].got \cup poll[p].miss ELSE {})
<1>1. Good(p, poll[p]) /\ poll[p] \in PollRows /\ PollPlace(poll[p])
  BY GoodNow
<1> QED BY <1>1, GoodNow, PollFields DEF Good, PollPlace, PollCovered, Brought

LEMMA RecordFetchedKeeps ==
  ASSUME DInv, NEW p \in Pollers, RecordFetched(p)
  PROVE  DInv'
<1>1. /\ poll[p].pc = "record" /\ poll[p].out = "ok"
      /\ UNCHANGED <<scene, posts, url, limited>>
  BY DEF RecordFetched, RecordFrame
<1>2. PICK r \in PollRows, row \in FeedRows : r = poll[p] /\ row = db[FeedOf[p]]
  BY <1>1, RecordNow
<1>3. CASE /\ NoFault /\ row.row
           /\ Write(p, [row EXCEPT !.st = r.st, !.etag = r.etag, !.items = r.got,
                          !.stored = @ \cup r.got, !.left = @ \cup r.miss])
           /\ Finish(p)
  <2>1. PICK d : d = [row EXCEPT !.st = r.st, !.etag = r.etag, !.items = r.got,
                        !.stored = row.stored \cup r.got, !.left = row.left \cup r.miss]
    OBVIOUS
  <2>2. r.got \in SUBSET Post /\ r.miss \in SUBSET Post /\ r.st \in StatesKept /\ r.etag \in Nat
    BY <1>1, <1>2, RecordNow
  <2>3. /\ d \in FeedRows /\ d.row = row.row /\ d.st = r.st /\ d.etag = r.etag /\ d.items = r.got
        /\ d.stored = row.stored \cup r.got /\ d.left = row.left \cup r.miss
    BY <2>1, <2>2 DEF FeedRows
  <2>4. GoodRow(FeedOf[p], d)
    BY <1>2, <1>3, <2>3 DEF GoodRow
  <2>5. CoveredRow(url[FeedOf[p]], d)
    BY <1>1, <1>2, <2>3, RecordNow DEF CoveredRow
  <2>6. Write(p, d) /\ Goto(p, IdlePoll)
    BY <1>3, <2>1 DEF Finish
  <2> QED BY <1>1, <1>3, <2>4, <2>5, <2>6, FaultsCount, WriteKeeps
<1>4. CASE /\ IF row.row THEN Fault("storefail") ELSE NoFault
           /\ Goto(p, [r EXCEPT !.out = "fail"])
           /\ UNCHANGED <<db, busy>>
  <2>1. PICK t : t = [r EXCEPT !.out = "fail"]
    OBVIOUS
  <2>2. /\ t \in PollRows /\ t.pc = "record" /\ t.out = "fail" /\ t.chan = r.chan /\ t.base = r.base
        /\ t.items = r.items /\ t.got = r.got /\ t.st = r.st /\ t.etag = r.etag
    BY <1>1, <1>2, <2>1 DEF PollRows
  <2>3. PollPlace(r) /\ Good(p, r)
    BY <1>2, GoodNow
  <2>4. PollPlace(t)
    BY <2>2, <2>3, <1>1, <1>2 DEF PollPlace
  <2>5. ASSUME Cautious(scene) PROVE PollCovered(FeedOf[p], t)
    <3>1. Kind \notin CursorKinds
      <4>1. Kind \in CursorKinds => row.row
        BY <1>2, <2>5, RecordNow, <1>1, RowsGood DEF GoodRow
      <4>2. Kind \in CursorKinds => "storefail" \notin scene.faults
        BY <2>5 DEF Cautious, Kind
      <4> QED BY <1>4, <4>1, <4>2 DEF Fault
    <3>2. PICK c, st, e : c = url[FeedOf[p]] /\ st = t.st /\ e = t.etag
      OBVIOUS
    <3>3. PassedBy(c, st, e) = {}
      BY <3>1, PassedCases
    <3> QED BY <2>2, <2>3, <3>1, <3>2, <3>3 DEF PollCovered, Good
  <2>6. Good(p, t)
    BY <2>2, <2>3, <2>4, <2>5 DEF Good, SlotSteps
  <2>7. Goto(p, t)
    BY <1>4, <2>1
  <2>8. faults' \in 0..scene.budget /\ limited' \subseteq Channels
    BY <1>1, <1>4, FaultsCount, TablesNow
  <2> QED BY <1>1, <1>4, <2>6, <2>7, <2>8, MovesKeeps
<1> QED BY <1>2, <1>3, <1>4 DEF RecordFetched

LEMMA RecordUnchangedKeeps ==
  ASSUME DInv, NEW p \in Pollers, RecordUnchanged(p)
  PROVE  DInv'
<1>1. /\ poll[p].pc = "record" /\ poll[p].out \in {"ok", "same"} /\ Unchanged(p)
      /\ UNCHANGED <<scene, posts, url, limited>> /\ Goto(p, IdlePoll)
  BY DEF RecordUnchanged, RecordFrame, Finish
<1>2. PICK r \in PollRows, row \in FeedRows : r = poll[p] /\ row = db[FeedOf[p]]
  BY <1>1, RecordNow
<1>3. CASE /\ NoFault /\ row.row
           /\ Write(p, [row EXCEPT !.st = r.st, !.etag = r.etag, !.left = @ \cup r.miss])
  <2>1. PICK d : d = [row EXCEPT !.st = r.st, !.etag = r.etag, !.left = row.left \cup r.miss]
    OBVIOUS
  <2>2. r.miss \in SUBSET Post /\ r.st \in StatesKept /\ r.etag \in Nat /\ r.items \subseteq row.stored
    BY <1>1, <1>2, RecordNow
  <2>3. /\ d \in FeedRows /\ d.row = row.row /\ d.st = r.st /\ d.etag = r.etag /\ d.items = row.items
        /\ d.stored = row.stored /\ d.left = row.left \cup r.miss
    BY <2>1, <2>2 DEF FeedRows
  <2>4. GoodRow(FeedOf[p], d)
    BY <1>1, <1>2, <1>3, <2>3, RecordNow, RowsGood DEF GoodRow
  <2>5. r.out = "ok" => r.got \subseteq row.stored
    BY <1>1, <1>2, <2>2 DEF Unchanged
  <2>6. CoveredRow(url[FeedOf[p]], d)
    BY <1>1, <1>2, <2>3, <2>5, RecordNow DEF CoveredRow
  <2>7. Write(p, d)
    BY <1>3, <2>1
  <2> QED BY <1>1, <1>3, <2>4, <2>6, <2>7, FaultsCount, WriteKeeps
<1>4. CASE (IF row.row THEN Fault("dbfail") ELSE NoFault) /\ UNCHANGED db
  <2>1. faults' \in 0..scene.budget
    BY <1>4, FaultsCount
  <2> QED BY <1>1, <1>4, <2>1, DropKeeps
<1> QED BY <1>2, <1>3, <1>4 DEF RecordUnchanged

LEMMA RecordFailedKeeps ==
  ASSUME DInv, NEW p \in Pollers, RecordFailed(p)
  PROVE  DInv'
<1>1. /\ poll[p].pc = "record" /\ poll[p].out = "fail"
      /\ UNCHANGED <<scene, posts, url, limited>> /\ Goto(p, IdlePoll)
  BY DEF RecordFailed, RecordFrame, Finish
<1>2. PICK r \in PollRows, row \in FeedRows : r = poll[p] /\ row = db[FeedOf[p]]
  BY <1>1, RecordNow
<1>3. CASE NoFault /\ row.row /\ Write(p, IF r.st.doc THEN [row EXCEPT !.st = r.st] ELSE row)
  <2>1. CASE r.st.doc
    <3>1. PICK d : d = [row EXCEPT !.st = r.st]
      OBVIOUS
    <3>2. r.st \in StatesKept
      BY <1>1, <1>2, RecordNow
    <3>3. /\ d \in FeedRows /\ d.row = row.row /\ d.st = r.st /\ d.etag = row.etag /\ d.items = row.items
          /\ d.stored = row.stored /\ d.left = row.left
      BY <3>1, <3>2 DEF FeedRows
    <3>4. GoodRow(FeedOf[p], d)
      BY <1>1, <1>2, <1>3, <3>3, RecordNow, RowsGood DEF GoodRow
    <3>5. ASSUME Cautious(scene) PROVE PassedBy(url[FeedOf[p]], d.st, d.etag) \subseteq d.stored \cup d.left
      <4>1. PICK c, e1, e2, s1, s2 : c = url[FeedOf[p]] /\ e1 = r.etag /\ e2 = row.etag /\ s1 = r.st /\ s2 = row.st
        OBVIOUS
      <4>2. PassedBy(c, s1, e2) \subseteq PassedBy(c, s1, e1) \cup PassedBy(c, s2, e2)
        BY PassedSplit
      <4>3. PassedBy(c, s1, e1) \subseteq row.stored \cup row.left
        BY <1>1, <1>2, <3>5, <4>1, RecordNow
      <4>4. PassedBy(c, s2, e2) \subseteq row.stored \cup row.left
        BY <1>1, <1>2, <3>5, <4>1, RecordNow, RowsGood DEF CoveredRow
      <4> QED BY <3>3, <4>1, <4>2, <4>3, <4>4
    <3>6. CoveredRow(url[FeedOf[p]], d)
      BY <3>5 DEF CoveredRow
    <3>7. Write(p, d)
      BY <1>3, <2>1, <3>1
    <3> QED BY <1>1, <1>3, <3>4, <3>6, <3>7, FaultsCount, WriteKeeps
  <2>2. CASE ~r.st.doc
    <3>1. Write(p, row)
      BY <1>3, <2>2
    <3>2. GoodRow(FeedOf[p], row) /\ CoveredRow(url[FeedOf[p]], row)
      BY <1>1, <1>2, RecordNow, RowsGood
    <3> QED BY <1>1, <1>3, <3>1, <3>2, FaultsCount, WriteKeeps
  <2> QED BY <2>1, <2>2
<1>4. CASE (IF row.row THEN Fault("dbfail") ELSE NoFault) /\ UNCHANGED db
  <2>1. faults' \in 0..scene.budget
    BY <1>4, FaultsCount
  <2> QED BY <1>1, <1>4, <2>1, DropKeeps
<1> QED BY <1>2, <1>3, <1>4 DEF RecordFailed

LEMMA RecordLayoutKeeps ==
  ASSUME DInv, NEW p \in Pollers, RecordLayout(p)
  PROVE  DInv'
<1>1. /\ poll[p].pc = "record" /\ NoFault
      /\ UNCHANGED <<scene, posts, url, limited>> /\ Goto(p, IdlePoll)
  BY DEF RecordLayout, RecordFrame, Finish
<1>2. PICK row \in FeedRows : row = db[FeedOf[p]]
  BY <1>1, RecordNow
<1>3. GoodRow(FeedOf[p], row) /\ CoveredRow(url[FeedOf[p]], row)
  BY <1>1, <1>2, RecordNow, RowsGood
<1>4. CASE row.row
  <2>1. PICK d : d = [row EXCEPT !.st = NoState]
    OBVIOUS
  <2>2. /\ d \in FeedRows /\ d.row = row.row /\ d.st = NoState /\ d.etag = row.etag /\ d.items = row.items
        /\ d.stored = row.stored /\ d.left = row.left
    BY <2>1, EmptyStates DEF FeedRows
  <2>3. GoodRow(FeedOf[p], d)
    BY <1>3, <2>2 DEF GoodRow
  <2>4. CoveredRow(url[FeedOf[p]], d)
    <3>1. PICK c, e, s : c = url[FeedOf[p]] /\ e = row.etag /\ s = row.st
      OBVIOUS
    <3>2. PassedBy(c, NoState, e) \subseteq PassedBy(c, s, e)
      BY EmptyStates, PassedEmpty
    <3> QED BY <1>3, <2>2, <3>1, <3>2 DEF CoveredRow
  <2>5. Write(p, d)
    BY <1>2, <1>4, <2>1 DEF RecordLayout
  <2> QED BY <1>1, <2>3, <2>4, <2>5, FaultsCount, WriteKeeps
<1>5. CASE ~row.row
  <2>1. Write(p, row)
    BY <1>2, <1>5 DEF RecordLayout
  <2> QED BY <1>1, <1>3, <2>1, FaultsCount, WriteKeeps
<1> QED BY <1>4, <1>5

LEMMA RecordKeeps ==
  ASSUME DInv, NEW p \in Pollers, Record(p)
  PROVE  DInv'
<1>1. CASE Deferred(p)
  <2>1. /\ NoFault /\ UNCHANGED db /\ UNCHANGED <<scene, posts, url, limited>> /\ Goto(p, IdlePoll)
    BY <1>1 DEF Deferred, RecordFrame, Finish
  <2> QED BY <2>1, FaultsCount, DropKeeps
<1> QED BY <1>1, RecordFetchedKeeps, RecordUnchangedKeeps, RecordFailedKeeps, RecordLayoutKeeps DEF Record

(***************************************************************************)
(* Time, the environment and the initial state                             *)
(***************************************************************************)
LEMMA LimitEndsKeeps ==
  ASSUME DInv, LimitEnds
  PROVE  DInv'
<1>1. /\ limited' = {} /\ NoFault /\ UNCHANGED <<scene, posts, url>>
      /\ db' = [f \in Feeds |-> [db[f] EXCEPT !.st = Past(@)]]
      /\ poll' = [p \in Pollers |-> [poll[p] EXCEPT !.st = Past(@)]]
  BY DEF LimitEnds
<1>2. ASSUME NEW st \in StatesKept
      PROVE  Past(st) \in StatesKept /\ \A c, e : PassedBy(c, Past(st), e) = PassedBy(c, st, e)
  <2>1. PICK t : t = Past(st)
    OBVIOUS
  <2>2. t \in StatesKept
    BY <2>1, StateChanges DEF Past
  <2>3. t.cursor = st.cursor /\ t.chan = st.chan /\ t.hash = st.hash /\ t.seen = st.seen
    BY <2>1 DEF Past, StatesKept, States
  <2>4. \A c, e : PassedBy(c, t, e) = PassedBy(c, st, e)
    BY <2>3, PassedSame
  <2> QED BY <2>1, <2>2, <2>4
<1>3. ASSUME NEW f \in Feeds
      PROVE  db'[f] \in FeedRows /\ GoodRow(f, db'[f]) /\ CoveredRow(url'[f], db'[f])
  <2>1. PICK row \in FeedRows : row = db[f]
    BY TablesNow
  <2>2. PICK st \in StatesKept, t \in StatesKept : st = row.st /\ t = Past(st)
    BY <1>2, RowFields
  <2>3. PICK d : d = [row EXCEPT !.st = t]
    OBVIOUS
  <2>4. db'[f] = d
    BY <1>1, <2>1, <2>2, <2>3
  <2>5. /\ d \in FeedRows /\ d.row = row.row /\ d.st = t /\ d.etag = row.etag /\ d.items = row.items
        /\ d.stored = row.stored /\ d.left = row.left
    BY <2>3 DEF FeedRows
  <2>6. GoodRow(f, row) /\ CoveredRow(url[f], row)
    BY <2>1, RowsGood
  <2>7. GoodRow(f, d)
    BY <2>5, <2>6 DEF GoodRow
  <2>8. CoveredRow(url[f], d)
    BY <1>2, <2>2, <2>5, <2>6 DEF CoveredRow
  <2> QED BY <1>1, <2>4, <2>5, <2>7, <2>8
<1>4. ASSUME NEW q \in Pollers PROVE poll'[q] \in PollRows /\ Good(q, poll'[q])
  <2>1. PICK r \in PollRows : r = poll[q]
    BY TablesNow
  <2>2. PICK st \in StatesKept, t \in StatesKept : st = r.st /\ t = Past(st)
    BY <1>2, PollFields
  <2>3. PICK s : s = [r EXCEPT !.st = t]
    OBVIOUS
  <2>4. poll'[q] = s
    BY <1>1, <2>1, <2>2, <2>3
  <2>5. /\ s \in PollRows /\ s.pc = r.pc /\ s.st = t /\ s.etag = r.etag /\ s.items = r.items
        /\ s.chan = r.chan /\ s.base = r.base /\ s.page = r.page /\ s.from = r.from /\ s.got = r.got
        /\ s.miss = r.miss /\ s.out = r.out
    BY <2>3 DEF PollRows
  <2>6. Good(q, r)
    BY <2>1, TablesNow
  <2>7. t.cursor = st.cursor /\ t.chan = st.chan
    BY <2>2 DEF Past, StatesKept, States
  <2>8. PollPlace(s)
    BY <2>5, <2>6 DEF Good, PollPlace
  <2>9. r.pc \in SlotSteps => Paged(s)
    BY <2>2, <2>5, <2>6, <2>7 DEF Good, Paged, CursorIn
  <2>10. Brought(s) = Brought(r)
    BY <2>5 DEF Brought
  <2>11. \A c, e : PassedBy(c, t, e) = PassedBy(c, st, e)
    BY <1>2, <2>2
  <2>12. PollCovered(FeedOf[q], r) => PollCovered(FeedOf[q], s)
    BY <2>2, <2>5, <2>10, <2>11 DEF PollCovered
  <2>13. Good(q, s)
    BY <2>5, <2>6, <2>8, <2>9, <2>12 DEF Good
  <2> QED BY <2>4, <2>5, <2>13
<1>5. db' \in [Feeds -> FeedRows] /\ poll' \in [Pollers -> PollRows]
  BY <1>1, <1>3, <1>4
<1>6. url' \in [Feeds -> Channels] /\ limited' \subseteq Channels /\ faults' \in 0..scene.budget
  BY <1>1, TablesNow, FaultsCount
<1> QED BY <1>1, <1>3, <1>4, <1>5, <1>6, TablesNow, WorldKeeps

LEMMA RowsReturnKeeps ==
  ASSUME DInv, RowsReturn
  PROVE  DInv'
<1>1. /\ NoFault /\ UNCHANGED <<scene, posts, url, poll, limited>>
      /\ db' = [f \in Feeds |-> [db[f] EXCEPT !.row = TRUE]]
  BY DEF RowsReturn
<1>3. ASSUME NEW f \in Feeds
      PROVE  db'[f] \in FeedRows /\ GoodRow(f, db'[f]) /\ CoveredRow(url'[f], db'[f])
  <2>1. PICK row \in FeedRows : row = db[f]
    BY TablesNow
  <2>3. PICK d : d = [row EXCEPT !.row = TRUE]
    OBVIOUS
  <2>4. db'[f] = d
    BY <1>1, <2>1, <2>3
  <2>5. /\ d \in FeedRows /\ d.row = TRUE /\ d.st = row.st /\ d.etag = row.etag /\ d.items = row.items
        /\ d.stored = row.stored /\ d.left = row.left
    BY <2>3 DEF FeedRows
  <2>6. GoodRow(f, row) /\ CoveredRow(url[f], row)
    BY <2>1, RowsGood
  <2>7. GoodRow(f, d)
    BY <2>5, <2>6 DEF GoodRow
  <2>8. CoveredRow(url[f], d)
    BY <2>5, <2>6 DEF CoveredRow
  <2> QED BY <1>1, <2>4, <2>5, <2>7, <2>8
<1>5. db' \in [Feeds -> FeedRows]
  BY <1>1, <1>3
<1>6. faults' \in 0..scene.budget
  BY <1>1, FaultsCount
<1> QED BY <1>1, <1>3, <1>5, <1>6, TablesNow, WorldKeeps

LEMMA PostgresCrashKeeps ==
  ASSUME DInv, PostgresCrash
  PROVE  DInv'
<1>1. /\ Fault("pgcrash") /\ UNCHANGED <<scene, posts, url, poll, limited>>
      /\ db' = [f \in Feeds |-> [db[f] EXCEPT !.row = FALSE, !.st = NoState, !.etag = 0, !.items = {}]]
  BY DEF PostgresCrash
<1>2. Cautious(scene) => Kind \notin CursorKinds
  BY <1>1 DEF Fault, Cautious, Kind
<1>3. ASSUME NEW f \in Feeds
      PROVE  db'[f] \in FeedRows /\ GoodRow(f, db'[f]) /\ CoveredRow(url'[f], db'[f])
  <2>1. PICK row \in FeedRows : row = db[f]
    BY TablesNow
  <2>3. PICK d : d = [row EXCEPT !.row = FALSE, !.st = NoState, !.etag = 0, !.items = {}]
    OBVIOUS
  <2>4. db'[f] = d
    BY <1>1, <2>1, <2>3
  <2>5. /\ d \in FeedRows /\ d.items = {} /\ d.stored = row.stored /\ d.left = row.left
        /\ d.st = NoState /\ d.etag = 0
    BY <2>3, EmptyStates DEF FeedRows
  <2>6. GoodRow(f, row)
    BY <2>1, RowsGood
  <2>7. GoodRow(f, d)
    BY <1>2, <2>5, <2>6 DEF GoodRow
  <2>8. CoveredRow(url[f], d)
    <3>1. \A c : PassedBy(c, NoState, 0) = {}
      BY EmptyStates, PassedEmpty
    <3> QED BY <2>5, <3>1 DEF CoveredRow
  <2> QED BY <1>1, <2>4, <2>5, <2>7, <2>8
<1>5. db' \in [Feeds -> FeedRows]
  BY <1>1, <1>3
<1>6. faults' \in 0..scene.budget
  BY <1>1, FaultsCount
<1> QED BY <1>1, <1>3, <1>5, <1>6, TablesNow, WorldKeeps

LEMMA PublishKeeps ==
  ASSUME DInv, NEW c \in Channels, Publish(c)
  PROVE  DInv'
<1>1. /\ NoFault /\ UNCHANGED <<scene, url, db, poll, limited>>
      /\ posts' = [posts EXCEPT ![c] = @ + 1]
  BY DEF Publish
<1>2. posts' \in [Channels -> Nat] /\ \A x \in Channels : posts[x] <= posts'[x]
  BY <1>1, TablesNow
<1>3. faults' \in 0..scene.budget
  BY <1>1, FaultsCount
<1> QED BY <1>1, <1>2, <1>3, TablesNow, RowsGood, WorldKeeps

\* An edited URL: a time cursor would count for the new channel too, Telegram's
\* names its channel.
LEMMA EditURLKeeps ==
  ASSUME DInv, NEW f \in Feeds, NEW c \in Channels, EditURL(f, c)
  PROVE  DInv'
<1>1. /\ Fault("edit") /\ UNCHANGED <<scene, posts, poll, limited>>
      /\ url' = [url EXCEPT ![f] = c] /\ db' = [db EXCEPT ![f].items = {}]
  BY DEF EditURL
<1>2. Cautious(scene) => Kind \notin CursorKinds \ {"telegram"}
  BY <1>1 DEF Fault, Cautious, Kind
<1>3. url' \in [Feeds -> Channels]
  BY <1>1, TablesNow
<1>4. ASSUME NEW g \in Feeds
      PROVE  db'[g] \in FeedRows /\ GoodRow(g, db'[g]) /\ CoveredRow(url'[g], db'[g])
  <2>1. PICK row \in FeedRows : row = db[g]
    BY TablesNow
  <2>2. GoodRow(g, row) /\ CoveredRow(url[g], row)
    BY <2>1, RowsGood
  <2>3. PICK d : d = IF g = f THEN [row EXCEPT !.items = {}] ELSE row
    OBVIOUS
  <2>4. db'[g] = d
    BY <1>1, <2>1, <2>3, TablesNow
  <2>5. /\ d \in FeedRows /\ d.row = row.row /\ d.st = row.st /\ d.etag = row.etag
        /\ d.items \subseteq row.items /\ d.stored = row.stored /\ d.left = row.left
    BY <2>3 DEF FeedRows
  <2>6. GoodRow(g, d)
    BY <2>2, <2>5 DEF GoodRow
  <2>7. ASSUME Cautious(scene) PROVE PassedBy(url'[g], d.st, d.etag) \subseteq d.stored \cup d.left
    <3>1. PICK c1, c2, st, e : c1 = url[g] /\ c2 = url'[g] /\ st = row.st /\ e = row.etag
      OBVIOUS
    <3>2. PassedBy(c2, st, e) = PassedBy(c1, st, e)
      <4>1. CASE Kind = "telegram"
        <5>1. PassedBy(c1, st, e) = {st.chan} \X (1..st.cursor) /\ PassedBy(c2, st, e) = {st.chan} \X (1..st.cursor)
          BY <4>1, PassedCases
        <5> QED BY <5>1
      <4>2. CASE Kind \notin CursorKinds
        BY <4>2, PassedCases
      <4> QED BY <1>2, <2>7, <4>1, <4>2
    <3> QED BY <2>2, <2>5, <2>7, <3>1, <3>2 DEF CoveredRow
  <2>8. CoveredRow(url'[g], d)
    BY <2>7 DEF CoveredRow
  <2> QED BY <2>4, <2>5, <2>6, <2>8
<1>5. db' \in [Feeds -> FeedRows]
  <2>1. PICK d : d = [db[f] EXCEPT !.items = {}]
    OBVIOUS
  <2>2. db' = [db EXCEPT ![f] = d]
    BY <1>1, <2>1
  <2>3. d \in FeedRows
    BY <2>1, TablesNow DEF FeedRows
  <2> QED BY <2>2, <2>3, TablesNow
<1>6. faults' \in 0..scene.budget
  BY <1>1, FaultsCount
<1> QED BY <1>1, <1>2, <1>3, <1>4, <1>5, <1>6, TablesNow, WorldKeeps

LEMMA RestartKeeps ==
  ASSUME DInv, Restart
  PROVE  DInv'
<1>1. /\ Fault("restart") /\ UNCHANGED <<scene, posts, url, db>>
      /\ poll' = [p \in Pollers |-> IdlePoll] /\ limited' = {}
  BY DEF Restart
<1>2. poll' \in [Pollers -> PollRows] /\ \A q \in Pollers : poll'[q] = IdlePoll
  BY <1>1, IdleRow
<1>3. faults' \in 0..scene.budget /\ limited' \subseteq Channels
  BY <1>1, FaultsCount
<1> QED BY <1>1, <1>2, <1>3, TablesNow, RowsGood, WorldKeeps

LEMMA TimersKeep ==
  ASSUME DInv, Timers
  PROVE  DInv'
<1>1. CASE IntervalEnds \/ CooldownEnds
  <2>1. UNCHANGED <<scene, posts, url, db, poll, limited>> /\ NoFault
    BY <1>1 DEF IntervalEnds, CooldownEnds
  <2> QED BY <2>1, TablesNow, FaultsCount, StillKeeps
<1> QED BY <1>1, LimitEndsKeeps, RowsReturnKeeps DEF Timers

LEMMA ChangeSlotsKeeps ==
  ASSUME DInv, NEW n, ChangeSlots(n)
  PROVE  DInv'
<1>1. UNCHANGED <<scene, posts, url, db, poll, limited>> /\ Fault("slots")
  BY DEF ChangeSlots
<1> QED BY <1>1, TablesNow, FaultsCount, StillKeeps

LEMMA BeginKeeps ==
  ASSUME DInv, NEW p \in Pollers, Begin(p)
  PROVE  DInv'
<1>1. PICK r : Goto(p, r) /\ Good(p, r)
  BY BeginMoves DEF Moves
<1> QED BY <1>1, BeginMoves, TablesNow, MovesKeeps

LEMMA FetchSourceKeeps ==
  ASSUME DInv, NEW p \in Pollers, FetchSource(p)
  PROVE  DInv'
<1>1. UNCHANGED <<scene, posts, url, db>> /\ limited' \subseteq Channels /\ faults' \in 0..scene.budget
  BY FetchSourceMoves DEF Steady
<1>2. CASE UNCHANGED poll
  BY <1>1, <1>2, StillKeeps
<1>3. CASE Moves(p, Steps \ {"idle"})
  <2>1. PICK r : Goto(p, r) /\ Good(p, r)
    BY <1>3 DEF Moves
  <2> QED BY <1>1, <2>1, MovesKeeps
<1> QED BY <1>2, <1>3, FetchSourceMoves

LEMMA DataInit == Init => DInv
<1> SUFFICES ASSUME Init PROVE DInv
  OBVIOUS
<1>1. /\ scene \in Scenes /\ posts = [c \in Channels |-> scene.start] /\ url = [f \in Feeds |-> scene.home]
      /\ db = [f \in Feeds |-> NewFeed] /\ poll = [p \in Pollers |-> IdlePoll]
      /\ limited = {} /\ faults = 0
  BY DEF Init
<1>2. scene.home \in Channels /\ scene.start \in Nat /\ scene.budget \in Nat
  BY <1>1, SourcesAssumption
<1>3. /\ NewFeed \in FeedRows /\ NewFeed.row = TRUE /\ NewFeed.st = NoState /\ NewFeed.etag = 0
      /\ NewFeed.items = {}
  BY EmptyStates DEF NewFeed, FeedRows
<1>4. Tables
  BY <1>1, <1>2, <1>3, IdleRow DEF Tables
<1>5. \A c : PassedBy(c, NoState, 0) = {}
  BY EmptyStates, PassedEmpty
<1>6. ASSUME NEW f \in Feeds PROVE db[f].items \subseteq db[f].stored /\ FeedCovered(f)
  <2>1. db[f] = NewFeed
    BY <1>1
  <2> QED BY <1>3, <1>5, <2>1 DEF FeedCovered, Passed
<1>7. ASSUME NEW q \in Pollers PROVE Good(q, poll[q])
  <2>1. poll[q] = IdlePoll
    BY <1>1
  <2>2. PollPlace(IdlePoll)
    BY IdleRow DEF PollPlace, SlotSteps
  <2>3. PollCovered(FeedOf[q], IdlePoll)
    BY <1>5, IdleRow DEF PollCovered
  <2> QED BY <2>1, <2>2, <2>3, IdleRow DEF Good, SlotSteps
<1> QED BY <1>4, <1>6, <1>7 DEF DInv

LEMMA DataNext == DInv /\ [Next]_vars => DInv'
<1> SUFFICES ASSUME DInv, [Next]_vars PROVE DInv'
  OBVIOUS
<1>1. CASE UNCHANGED vars
  <2>1. UNCHANGED <<scene, posts, url, db, poll, limited, faults>>
    BY <1>1 DEF vars
  <2> QED BY <2>1, TablesNow, StillKeeps
<1>2. ASSUME NEW p \in Pollers, Begin(p) \/ Poll(p) PROVE DInv'
  BY <1>2, BeginKeeps, FetchSourceKeeps, RecordKeeps DEF Poll
<1>3. ASSUME NEW c \in Channels, Publish(c) PROVE DInv'
  BY <1>3, PublishKeeps
<1>4. ASSUME NEW f \in Feeds, NEW c \in Channels, EditURL(f, c) PROVE DInv'
  BY <1>4, EditURLKeeps
<1>5. ASSUME NEW n, ChangeSlots(n) PROVE DInv'
  BY <1>5, ChangeSlotsKeeps
<1> QED BY <1>1, <1>2, <1>3, <1>4, <1>5, TimersKeep, RestartKeeps, PostgresCrashKeeps DEF Next

(***************************************************************************)
(* The fetch slots by themselves, for any number of fetchers and any       *)
(* limit.  SlotsInv is inductive: NoLostWakeup needs the counter (a        *)
(* release that wakes somebody moves one unit from inFlight to awake) and  *)
(* the disjointness of the three places a fetcher may be in.               *)
(***************************************************************************)
USE SlotsAssumption

\* The sets of fetchers are finite, and so are their counts.
LEMMA FiniteParts ==
  ASSUME NEW S \in SUBSET Fetchers
  PROVE  IsFiniteSet(S) /\ Cardinality(S) \in Nat
BY FS_Subset, FS_CardinalityType

LEMMA ClampType == \A n \in Nat : ClampConcurrentSlots(n) \in 1..SlotsMax
BY DEF ClampConcurrentSlots

LEMMA SlotsInitInv == (\E n \in Nat : SlotsInit(ClampConcurrentSlots(n))) => SlotsInv
BY ClampType, FS_EmptySet DEF SlotsInit, SlotsInv, SlotsTypeOK, SlotsAccounted, NoLostWakeup

\* A change of the limit wakes everybody, so nobody sleeps.
LEMMA setLimitInv ==
  ASSUME SlotsInv, NEW n \in Nat, setLimit(n)
  PROVE  SlotsInv'
<1>1. limit' \in 1..SlotsMax BY ClampType DEF setLimit
<1>2. QED
  BY <1>1 DEF SlotsInv, SlotsTypeOK, SlotsAccounted, NoLostWakeup, setLimit, Broadcast

LEMMA SlotWantInv ==
  ASSUME SlotsInv, NEW p \in Fetchers, SlotWant(p)
  PROVE  SlotsInv'
<1>1. SlotsTypeOK' BY DEF SlotsInv, SlotsTypeOK, SlotWant
<1>2. SlotsAccounted' BY DEF SlotsInv, SlotsAccounted, SlotWant, Outside
<1>3. Cardinality(awake') = Cardinality(awake) + 1
  BY FiniteParts, FS_AddElement DEF SlotsInv, SlotsTypeOK, SlotWant, Outside
<1>4. NoLostWakeup'
  BY <1>3, FiniteParts DEF SlotsInv, SlotsTypeOK, NoLostWakeup, SlotWant
<1>5. QED BY <1>1, <1>2, <1>4 DEF SlotsInv

\* The waiter's unit moves from awake to inFlight.
LEMMA SlotEnterInv ==
  ASSUME SlotsInv, NEW p \in Fetchers, SlotEnter(p)
  PROVE  SlotsInv'
<1>1. SlotsTypeOK' BY DEF SlotsInv, SlotsTypeOK, SlotsAccounted, SlotEnter, Stop
<1>2. Cardinality(inside') = Cardinality(inside) + 1
  BY FiniteParts, FS_AddElement DEF SlotsInv, SlotsTypeOK, SlotsAccounted, SlotEnter
<1>3. SlotsAccounted' BY <1>2 DEF SlotsInv, SlotsAccounted, SlotEnter
<1>4. Cardinality(awake') = Cardinality(awake) - 1
  BY FiniteParts, FS_RemoveElement DEF SlotsInv, SlotsTypeOK, SlotEnter
<1>5. NoLostWakeup'
  BY <1>4, FiniteParts DEF SlotsInv, SlotsTypeOK, NoLostWakeup, SlotEnter
<1>6. QED BY <1>1, <1>3, <1>5 DEF SlotsInv

\* Somebody gives up or falls asleep only while the slots are all taken.
LEMMA SlotBlockedInv ==
  ASSUME SlotsInv, NEW p \in Fetchers, SlotGiveUp(p) \/ SlotSleep(p)
  PROVE  SlotsInv'
<1>1. SlotsTypeOK'
  BY DEF SlotsInv, SlotsTypeOK, SlotsAccounted, SlotGiveUp, SlotSleep, Stop
<1>2. SlotsAccounted' BY DEF SlotsInv, SlotsAccounted, SlotGiveUp, SlotSleep
<1>3. inFlight' >= limit' /\ awake' \in SUBSET Fetchers
  BY DEF SlotsInv, SlotsTypeOK, SlotGiveUp, SlotSleep
<1>4. NoLostWakeup'
  BY <1>1, <1>3, FiniteParts DEF SlotsTypeOK, NoLostWakeup
<1>5. QED BY <1>1, <1>2, <1>4 DEF SlotsInv

LEMMA SlotEndsInv ==
  ASSUME SlotsInv, NEW p \in Fetchers, SlotEnds(p) \/ SlotRing(p)
  PROVE  SlotsInv'
<1>1. CASE SlotEnds(p)
  BY <1>1 DEF SlotsInv, SlotsTypeOK, SlotsAccounted, NoLostWakeup, SlotEnds
<1>2. CASE SlotRing(p)
  BY <1>2 DEF SlotsInv, SlotsTypeOK, SlotsAccounted, NoLostWakeup, SlotRing, Broadcast
<1>3. QED BY <1>1, <1>2

\* A release gives its unit to a sleeper, if there is one.
LEMMA SlotReleaseInv ==
  ASSUME SlotsInv, NEW p \in Fetchers, SlotRelease(p)
  PROVE  SlotsInv'
<1>1. Cardinality(inside') = Cardinality(inside) - 1 /\ Cardinality(inside') \in Nat
  BY FiniteParts, FS_RemoveElement, FS_CardinalityType DEF SlotsInv, SlotsTypeOK, SlotRelease
<1>2. SlotsTypeOK'
  BY <1>1 DEF SlotsInv, SlotsTypeOK, SlotsAccounted, SlotRelease
<1>3. SlotsAccounted'
  BY <1>1 DEF SlotsInv, SlotsAccounted, SlotRelease
<1>4. ASSUME asleep = {} PROVE NoLostWakeup'
  BY <1>4 DEF NoLostWakeup, SlotRelease
<1>5. ASSUME NEW q \in asleep, awake' = awake \cup {q}, asleep' = asleep \ {q}
      PROVE  NoLostWakeup'
  <2>1. Cardinality(awake') = Cardinality(awake) + 1
    BY <1>5, FiniteParts, FS_AddElement DEF SlotsInv, SlotsTypeOK, SlotsAccounted
  <2>2. inFlight + Cardinality(awake) >= limit
    BY <1>5 DEF SlotsInv, NoLostWakeup
  <2>3. QED
    BY <2>1, <2>2, FiniteParts DEF SlotsInv, SlotsTypeOK, NoLostWakeup, SlotRelease
<1>6. QED BY <1>2, <1>3, <1>4, <1>5 DEF SlotsInv, SlotRelease

LEMMA SlotsNextInv == SlotsInv /\ [SlotsNext]_slotVars => SlotsInv'
<1> SUFFICES ASSUME SlotsInv, [SlotsNext]_slotVars PROVE SlotsInv'
  OBVIOUS
<1>1. CASE UNCHANGED slotVars
  BY <1>1 DEF SlotsInv, SlotsTypeOK, SlotsAccounted, NoLostWakeup, slotVars
<1>2. CASE \E n \in Nat : setLimit(n)
  BY <1>2, setLimitInv
<1>3. ASSUME NEW p \in Fetchers,
             \/ SlotWant(p) \/ SlotEnter(p) \/ SlotGiveUp(p) \/ SlotSleep(p)
             \/ SlotEnds(p) \/ SlotRing(p) \/ SlotRelease(p)
      PROVE  SlotsInv'
  BY <1>3, SlotWantInv, SlotEnterInv, SlotBlockedInv, SlotEndsInv, SlotReleaseInv
<1>4. QED BY <1>1, <1>2, <1>3 DEF SlotsNext

\* acquire and release count right, and no fetch sleeps through a free slot,
\* for any fetchers and any limit.
THEOREM SlotsInvariant == SlotsSpec => []SlotsInv
BY SlotsInitInv, SlotsNextInv, PTL DEF SlotsSpec

(***************************************************************************)
(* The slots implement SlotLimit                                           *)
(***************************************************************************)
LEMMA SlotsInitLimit == (\E n \in Nat : SlotsInit(ClampConcurrentSlots(n))) => FetchLimit!LimitInit
BY ClampType DEF SlotsInit, FetchLimit!LimitInit

LEMMA SameCount == \A S : FetchLimit!Cardinality(S) = Cardinality(S)
BY DEF FetchLimit!Cardinality, Cardinality

LEMMA SlotsNextLimit ==
  SlotsInv /\ SlotsInv' /\ [SlotsNext]_slotVars => [FetchLimit!LimitNext]_<<limit, inside>>
<1> SUFFICES ASSUME SlotsInv, SlotsInv', [SlotsNext]_slotVars,
                    ~UNCHANGED <<limit, inside>>
             PROVE  FetchLimit!LimitNext
  OBVIOUS
<1>1. CASE \E n \in Nat : setLimit(n)
  <2>1. FetchLimit!Resize
    BY <1>1 DEF FetchLimit!Resize, setLimit, SlotsInv, SlotsTypeOK
  <2>2. QED BY <2>1 DEF FetchLimit!LimitNext
<1>2. ASSUME NEW p \in Fetchers, SlotEnter(p)
      PROVE  FetchLimit!LimitNext
  <2>1. FetchLimit!Enter(p)
    BY <1>2, SameCount DEF FetchLimit!Enter, SlotEnter, SlotsInv, SlotsTypeOK, SlotsAccounted
  <2>2. QED BY <2>1 DEF FetchLimit!LimitNext
<1>3. ASSUME NEW p \in Fetchers, SlotRelease(p)
      PROVE  FetchLimit!LimitNext
  <2>1. FetchLimit!Leave(p)
    BY <1>3 DEF FetchLimit!Leave, SlotRelease
  <2>2. QED BY <2>1 DEF FetchLimit!LimitNext
<1>4. ASSUME NEW p \in Fetchers,
             \/ SlotWant(p) \/ SlotGiveUp(p) \/ SlotSleep(p) \/ SlotEnds(p) \/ SlotRing(p)
      PROVE  UNCHANGED <<limit, inside>>
  BY <1>4 DEF SlotWant, SlotGiveUp, SlotSleep, SlotEnds, SlotRing
<1>5. QED BY <1>1, <1>2, <1>3, <1>4 DEF SlotsNext, slotVars

\* The condition variable of telegram/slots.go implements the slot limiter:
\* no fetch enters while as many are inside as the limit of the moment allows.
THEOREM SlotsRefineLimit == SlotsSpec => SlotsLimit
<1>1. SlotsSpec => []SlotsInv BY SlotsInvariant
<1>2. QED
  BY <1>1, SlotsInitLimit, SlotsNextLimit, PTL DEF SlotsSpec, SlotsLimit, FetchLimit!LimitSpec

(***************************************************************************)
(* The shared proxy client by itself, for any endpoints and fetches        *)
(***************************************************************************)
USE ProxyAssumption

LEMMA ProxyInitInv == ProxyInit => ProxyInv
BY DEF ProxyInit, ProxyInv, ProxyTypeOK, ViaOwnProxy, Endpoint

\* An endpoint is allocated only when none is cached, and then there is no
\* shared client that could belong to another one.
LEMMA WorkingProxyInv ==
  ASSUME ProxyInv, NEW b \in Borrowers, given[b] = "none", WorkingProxy(b)
  PROVE  ProxyInv'
<1>1. PICK x \in IF cached # "none" THEN {cached} ELSE Proxies :
        cached' = x /\ given' = [given EXCEPT ![b] = x]
  BY DEF WorkingProxy
<1>2. x \in Proxies BY <1>1 DEF ProxyInv, ProxyTypeOK, Endpoint
<1>3. ProxyTypeOK' BY <1>1, <1>2 DEF ProxyInv, ProxyTypeOK, Endpoint, WorkingProxy
<1>4. via[b] = "none" BY DEF ProxyInv, ViaOwnProxy, ProxyTypeOK
<1>5. ViaOwnProxy'
  BY <1>1, <1>4 DEF ProxyInv, ViaOwnProxy, ProxyTypeOK, WorkingProxy
<1>6. QED BY <1>3, <1>5 DEF ProxyInv

LEMMA SocksClientInv ==
  ASSUME ProxyInv, NEW b \in Borrowers, given[b] # "none", SocksClient(b)
  PROVE  ProxyInv'
<1>1. given[b] \in Proxies BY DEF ProxyInv, ProxyTypeOK, Endpoint
<1>2. ProxyTypeOK' BY <1>1 DEF ProxyInv, ProxyTypeOK, Endpoint, SocksClient
<1>3. via'[b] = given[b]
  BY DEF ProxyInv, ViaOwnProxy, ProxyTypeOK, SocksClient
<1>4. ViaOwnProxy' BY <1>3 DEF ProxyInv, ViaOwnProxy, ProxyTypeOK, SocksClient
<1>5. QED BY <1>2, <1>4 DEF ProxyInv

LEMMA ProxyEndsInv ==
  ASSUME ProxyInv, NEW b \in Borrowers,
         \/ WorkingProxyFails(b) \/ ProxyFetched(b)
         \/ \E last \in BOOLEAN : ReportBadProxy(b, last)
  PROVE  ProxyInv'
<1>1. CASE WorkingProxyFails(b)
  BY <1>1 DEF ProxyInv, ProxyTypeOK, ViaOwnProxy, WorkingProxyFails, HealthFailure
<1>2. CASE ProxyFetched(b)
  BY <1>2 DEF ProxyInv, ProxyTypeOK, ViaOwnProxy, ProxyFetched, HealthSuccess, Endpoint
<1>3. ASSUME NEW last \in BOOLEAN, ReportBadProxy(b, last) PROVE ProxyInv'
  <2>1. ProxyTypeOK'
    BY <1>3 DEF ProxyInv, ProxyTypeOK, ReportBadProxy, DropWorking, HealthFailure, Endpoint
  <2>2. ViaOwnProxy'
    BY <1>3 DEF ProxyInv, ProxyTypeOK, ViaOwnProxy, ReportBadProxy, DropWorking
  <2>3. QED BY <2>1, <2>2 DEF ProxyInv
<1>4. QED BY <1>1, <1>2, <1>3

LEMMA ProxyNextInv == ProxyInv /\ [ProxyNext]_proxyVars => ProxyInv'
<1> SUFFICES ASSUME ProxyInv, [ProxyNext]_proxyVars PROVE ProxyInv'
  OBVIOUS
<1>1. CASE UNCHANGED proxyVars
  BY <1>1 DEF ProxyInv, ProxyTypeOK, ViaOwnProxy, proxyVars
<1>2. CASE ProxyNext
  BY <1>2, WorkingProxyInv, SocksClientInv, ProxyEndsInv DEF ProxyNext
<1>3. QED BY <1>1, <1>2

\* Every request goes through the endpoint it was given, for any number of
\* fetches that share the client.
THEOREM ProxyInvariant == ProxySpec => []ProxyInv
BY ProxyInitInv, ProxyNextInv, PTL DEF ProxySpec

\* A late report about an old endpoint never drops the one that replaced it.
THEOREM DroppedOnlyIfReportedHolds == ProxySpec => DroppedOnlyIfReported
<1> DEFINE A == cached # "none" /\ cached' # cached =>
                  \E b \in Borrowers : given[b] = cached /\ given'[b] = "none"
<1>1. ASSUME ProxyInv, ProxyNext PROVE A
  <2> SUFFICES ASSUME cached # "none", cached' # cached
               PROVE  \E b \in Borrowers : given[b] = cached /\ given'[b] = "none"
    OBVIOUS
  <2>1. PICK b \in Borrowers : \E last \in BOOLEAN : ReportBadProxy(b, last)
    BY <1>1 DEF ProxyNext, WorkingProxy, WorkingProxyFails, SocksClient, ProxyFetched
  <2>2. given[b] = cached /\ given'[b] = "none"
    BY <1>1, <2>1 DEF ProxyInv, ProxyTypeOK, ReportBadProxy, DropWorking
  <2>3. QED BY <2>2
<1>2. ProxyInv /\ [ProxyNext]_proxyVars => [A]_proxyVars BY <1>1
<1>3. QED
  BY <1>2, ProxyInitInv, ProxyNextInv, PTL DEF ProxySpec, DroppedOnlyIfReported

(***************************************************************************)
(* The limiters: hosts, Max, fetch slots and proxies                       *)
(***************************************************************************)
LInv == HostOK /\ MaxOK /\ Lent /\ SlotsInv /\ ProxyInv

\* The step a poll is at, after a step of poll p.
Turn(p, x) == \A q \in Pollers : poll'[q].pc = IF q = p THEN x ELSE poll[q].pc
Still == \A q \in Pollers : poll'[q].pc = poll[q].pc

LEMMA GotoTurns ==
  ASSUME DInv, NEW p \in Pollers, NEW r, Goto(p, r)
  PROVE  Turn(p, r.pc)
BY TablesNow DEF Goto, Turn

LEMMA MovesTurn ==
  ASSUME DInv, NEW p \in Pollers, NEW X, Moves(p, X)
  PROVE  \E x \in X : Turn(p, x)
<1>1. PICK r : Goto(p, r) /\ r.pc \in X
  BY DEF Moves
<1> QED BY <1>1, GotoTurns

LEMMA PollersFinite == ASSUME NEW S \in SUBSET Pollers PROVE IsFiniteSet(S) /\ Cardinality(S) \in Nat
BY SourcesAssumption, SlotsAssumption, FS_Subset, FS_CardinalityType

\* Hosts.
LEMMA HostSame ==
  ASSUME HostOK, busy' = busy, \A q \in Workers : poll'[q].pc = "idle" <=> poll[q].pc = "idle"
  PROVE  HostOK'
<1>1. Running' = Running
  BY DEF Running
<1> QED BY <1>1 DEF HostOK

LEMMA HostBegins ==
  ASSUME HostOK, NEW p \in Workers, poll[p].pc = "idle", NEW x, x # "idle", Turn(p, x), HostAcquire
  PROVE  HostOK'
<1>1. Running' = Running \cup {p} /\ p \notin Running
  BY DEF Running, Turn, Pollers
<1>2. Running \in SUBSET Pollers
  BY DEF Running, Pollers
<1>3. Cardinality(Running') = Cardinality(Running) + 1
  BY <1>1, <1>2, PollersFinite, FS_AddElement
<1>4. Cardinality(Running) \in Nat /\ HostLimit \in Nat
  BY <1>2, PollersFinite, SourcesAssumption
<1> QED BY <1>3, <1>4 DEF HostOK, HostAcquire

LEMMA HostEnds ==
  ASSUME HostOK, NEW p \in Pollers, poll[p].pc # "idle", Turn(p, "idle"), HostRelease(p)
  PROVE  HostOK'
<1>1. CASE p \in Workers
  <2>1. Running' = Running \ {p} /\ p \in Running
    BY <1>1 DEF Running, Turn, Pollers
  <2>2. Running \in SUBSET Pollers
    BY DEF Running, Pollers
  <2>3. Cardinality(Running') = Cardinality(Running) - 1
    BY <2>1, <2>2, PollersFinite, FS_RemoveElement
  <2>4. Cardinality(Running) \in Nat /\ HostLimit \in Nat
    BY <2>2, PollersFinite, SourcesAssumption
  <2> QED BY <1>1, <2>3, <2>4 DEF HostOK, HostRelease
<1>2. CASE p \notin Workers
  <2>1. \A q \in Workers : poll'[q].pc = poll[q].pc
    BY <1>2 DEF Turn, Pollers
  <2> QED BY <1>2, <2>1, HostSame DEF HostRelease
<1> QED BY <1>1, <1>2

\* Max.
MaxEnters(p) == /\ p \in Pollers \ MaxHolders /\ MaxHolders' = MaxHolders \cup {p}
                /\ ~Refused /\ maxIn' = maxIn + 1
MaxLeaves(p) == p \in MaxHolders /\ MaxHolders' = MaxHolders \ {p} /\ maxIn' = maxIn - 1
MaxMove == /\ \/ MaxHolders' = MaxHolders /\ maxIn' = maxIn
              \/ MaxHolders' = {} /\ maxIn' = 0
              \/ \E p \in Pollers : MaxEnters(p) \/ MaxLeaves(p)
           /\ maxNext' \in BOOLEAN /\ maxUntil' \in BOOLEAN /\ banned' \in BOOLEAN
           /\ banned' => maxUntil'

LEMMA MaxSame ==
  ASSUME MaxOK, scene' = scene, UNCHANGED maxVars,
         Kind # "max" \/ \A q \in Pollers : poll'[q].pc = "fetch" <=> poll[q].pc = "fetch"
  PROVE  MaxMove
<1>1. MaxHolders' = MaxHolders
  BY DEF MaxHolders, Kind
<1> QED BY <1>1 DEF MaxMove, MaxOK, maxVars

LEMMA MaxMoveKeeps == ASSUME MaxOK, MaxMove PROVE MaxOK'
<1>1. MaxHolders \in SUBSET Pollers
  BY DEF MaxHolders
<1>2. IsFiniteSet(MaxHolders) /\ Cardinality(MaxHolders) \in Nat
  BY <1>1, PollersFinite
<1>3. maxIn' = Cardinality(MaxHolders')
  <2>1. CASE MaxHolders' = MaxHolders /\ maxIn' = maxIn
    BY <2>1 DEF MaxOK
  <2>2. CASE MaxHolders' = {} /\ maxIn' = 0
    BY <2>2, FS_EmptySet
  <2>3. ASSUME NEW p \in Pollers, MaxEnters(p) PROVE maxIn' = Cardinality(MaxHolders')
    BY <1>2, <2>3, FS_AddElement DEF MaxEnters, MaxOK
  <2>4. ASSUME NEW p \in Pollers, MaxLeaves(p) PROVE maxIn' = Cardinality(MaxHolders')
    BY <1>2, <2>4, FS_RemoveElement DEF MaxLeaves, MaxOK
  <2> QED BY <2>1, <2>2, <2>3, <2>4 DEF MaxMove
<1> QED BY <1>3 DEF MaxOK, MaxMove

\* Fetch slots.
SlotsReset == /\ limit' \in 1..SlotsMax /\ inFlight' = 0
              /\ awake' = {} /\ asleep' = {} /\ inside' = {} /\ ended' = {} /\ ringing' = {}
SlotMove == [SlotsNext]_slotVars \/ SlotsReset

LEMMA SlotOp ==
  ASSUME NEW p \in Pollers,
         \/ SlotWant(p) \/ SlotEnter(p) \/ SlotGiveUp(p) \/ SlotSleep(p)
         \/ SlotEnds(p) \/ SlotRing(p) \/ SlotRelease(p) \/ UNCHANGED slotVars
  PROVE  SlotMove
BY SourcesAssumption DEF SlotMove, SlotsNext

LEMMA SlotMoveKeeps == ASSUME SlotsInv, SlotMove PROVE SlotsInv'
<1>1. CASE SlotsReset
  BY <1>1, FS_EmptySet DEF SlotsReset, SlotsInv, SlotsTypeOK, SlotsAccounted, NoLostWakeup
<1> QED BY <1>1, SlotsNextInv DEF SlotMove

\* Proxies.
LEMMA LentTurn ==
  ASSUME Lent, scene' = scene, NEW p \in Pollers, NEW x, Turn(p, x),
         \A q \in Pollers : q # p => given'[q] = given[q],
         Lend(x, given'[p])
  PROVE  Lent'
BY DEF Lent, Lend, Turn

LEMMA ProxySame == ASSUME ProxyInv, UNCHANGED proxyVars PROVE ProxyInv'
BY DEF ProxyInv, ProxyTypeOK, ViaOwnProxy, proxyVars

LimMove == /\ HostOK' /\ MaxMove /\ SlotMove /\ ProxyInv' /\ Lent' /\ scene' = scene

LEMMA LimMoveKeeps == ASSUME LInv, LimMove PROVE LInv'
BY MaxMoveKeeps, SlotMoveKeeps DEF LInv, LimMove

\* Nothing the limiters know of happens.
LEMMA QuietLim ==
  ASSUME LInv, Still, UNCHANGED <<scene, maxVars, busy, slotVars, proxyVars>>
  PROVE  LimMove
<1>1. \A q \in Workers : q \in Pollers
  BY DEF Pollers
<1>2. HostOK'
  BY <1>1, HostSame DEF LInv, Still
<1>3. MaxMove
  BY MaxSame DEF LInv, Still
<1>4. Lent'
  BY DEF LInv, Lent, Lend, Still, proxyVars
<1> QED BY <1>2, <1>3, <1>4, ProxySame DEF LInv, LimMove, SlotMove

\* A step of a poll that none of the limiters sees, except perhaps the slots.
LEMMA PlainLim ==
  ASSUME LInv, NEW p \in Pollers, NEW x, Turn(p, x), poll[p].pc # "idle", x # "idle",
         poll[p].pc \notin {"socks", "get"}, x \notin {"proxy", "socks", "get"},
         Kind # "max" \/ (poll[p].pc = "fetch" <=> x = "fetch"),
         UNCHANGED <<scene, maxVars, busy, proxyVars>>, SlotMove
  PROVE  LimMove
<1>1. \A q \in Workers : poll'[q].pc = "idle" <=> poll[q].pc = "idle"
  BY DEF Turn, Pollers
<1>2. HostOK'
  BY <1>1, HostSame DEF LInv
<1>3. MaxMove
  BY MaxSame DEF LInv, Turn
<1>4. Lent'
  BY LentTurn DEF LInv, Lent, Lend, proxyVars
<1> QED BY <1>2, <1>3, <1>4, ProxySame DEF LInv, LimMove

(***************************************************************************)
(* What the steps do to the limiters                                       *)
(***************************************************************************)
LEMMA BeginLim ==
  ASSUME DInv, LInv, NEW p \in Pollers, Begin(p)
  PROVE  LimMove
<1>1. /\ poll[p].pc = "idle" /\ UNCHANGED <<scene, maxVars, proxyVars>>
      /\ IF p \in Workers THEN HostAcquire ELSE UNCHANGED busy
      /\ SlotWant(p) \/ UNCHANGED slotVars
  BY DEF Begin
<1>2. PICK x \in {"telegram", "max", "fetch"} : x = FirstStep /\ (Kind = "max" => x = "max")
  BY DEF FirstStep
<1>3. Turn(p, x)
  BY <1>2, BeginMoves, MovesTurn
<1>4. HostOK'
  <2>1. CASE p \in Workers
    BY <1>1, <1>2, <1>3, <2>1, HostBegins DEF LInv
  <2>2. CASE p \notin Workers
    <3>1. \A q \in Workers : poll'[q].pc = poll[q].pc
      BY <1>3, <2>2 DEF Turn, Pollers
    <3> QED BY <1>1, <2>2, <3>1, HostSame DEF LInv
  <2> QED BY <2>1, <2>2
<1>5. MaxMove
  <2>1. Kind # "max" \/ \A q \in Pollers : poll'[q].pc = "fetch" <=> poll[q].pc = "fetch"
    BY <1>1, <1>2, <1>3 DEF Turn
  <2> QED BY <1>1, <2>1, MaxSame DEF LInv
<1>6. SlotMove
  BY <1>1, SlotOp
<1>7. Lent'
  BY <1>1, <1>2, <1>3, LentTurn DEF LInv, Lent, Lend, proxyVars
<1> QED BY <1>1, <1>4, <1>5, <1>6, <1>7, ProxySame DEF LInv, LimMove

\* A step of a Telegram poll that holds or wants a slot.
LEMMA SlotLim ==
  ASSUME DInv, LInv, NEW p \in Pollers, poll[p].pc \in SlotSteps,
         NEW x \in SlotSteps \cup {"record"}, Turn(p, x),
         UNCHANGED <<scene, maxVars, busy>>, SlotMove, ProxyInv',
         \A q \in Pollers : q # p => given'[q] = given[q], Lend(x, given'[p])
  PROVE  LimMove
<1>1. \A q \in Workers : poll'[q].pc = "idle" <=> poll[q].pc = "idle"
  BY DEF Turn, Pollers, SlotSteps
<1>2. HostOK'
  BY <1>1, HostSame DEF LInv
<1>3. Kind = "telegram"
  BY GoodNow DEF PollPlace
<1>4. MaxMove
  BY <1>3, MaxSame DEF LInv
<1> QED BY <1>2, <1>4, LentTurn DEF LInv, LimMove

LEMMA GivenKept ==
  ASSUME LInv, NEW p \in Pollers
  PROVE  /\ given \in [Pollers -> Endpoint] /\ Lend(poll[p].pc, given[p]) /\ p \in Borrowers
         /\ UNCHANGED proxyVars => UNCHANGED given
BY SourcesAssumption DEF LInv, ProxyInv, ProxyTypeOK, Lent, proxyVars

LEMMA TelegramWaitsLim ==
  ASSUME DInv, LInv, NEW p \in Pollers, TelegramWaits(p)
  PROVE  LimMove
<1>1. /\ poll[p].pc = "telegram" /\ UNCHANGED <<scene, maxVars, busy, proxyVars>>
      /\ SlotEnter(p) \/ SlotGiveUp(p) \/ SlotSleep(p)
  BY DEF TelegramWaits, FetchFrame
<1>2. SlotMove
  BY <1>1, SlotOp
<1>3. ASSUME NEW x \in {NextPage, "record"}, Turn(p, x) PROVE LimMove
  <2>1. x \in SlotSteps \cup {"record"} /\ poll[p].pc \in SlotSteps
    BY <1>1, <1>3 DEF NextPage, SlotSteps
  <2>2. Lend(x, given'[p])
    BY <1>1, <1>3, GivenKept DEF Lend, NextPage
  <2> QED BY <1>1, <1>2, <1>3, <2>1, <2>2, SlotLim, GivenKept, ProxySame DEF LInv
<1>4. CASE UNCHANGED poll
  <2>1. Turn(p, "telegram")
    BY <1>1, <1>4 DEF Turn
  <2> QED BY <1>1, <1>2, <2>1, PlainLim
<1> QED BY <1>3, <1>4, TelegramWaitsMoves, MovesTurn

LEMMA TelegramRingsLim ==
  ASSUME DInv, LInv, NEW p \in Pollers, TelegramRings(p)
  PROVE  LimMove
<1>1. UNCHANGED <<scene, poll, maxVars, busy, proxyVars>> /\ (SlotEnds(p) \/ SlotRing(p))
  BY DEF TelegramRings, FetchFrame
<1>2. SlotMove
  BY <1>1, SlotOp
<1>3. HostOK'
  BY <1>1, HostSame DEF LInv
<1>4. MaxMove
  BY <1>1, MaxSame DEF LInv
<1>5. Lent'
  BY <1>1 DEF LInv, Lent, Lend, proxyVars
<1> QED BY <1>1, <1>2, <1>3, <1>4, <1>5, ProxySame DEF LInv, LimMove

LEMMA TelegramPageSlots ==
  ASSUME NEW p \in Pollers, TelegramPage(p)
  PROVE  SlotMove
<1>1. SlotRelease(p) \/ UNCHANGED slotVars
  BY DEF TelegramPage
<1> QED BY <1>1, SlotOp

LEMMA TelegramGetLim ==
  ASSUME DInv, LInv, NEW p \in Pollers, TelegramGet(p)
  PROVE  LimMove
<1>1. /\ poll[p].pc = "get" /\ scene.mode # "service" /\ UNCHANGED <<scene, maxVars, busy, proxyVars>>
      /\ TelegramPage(p) \/ SlotRelease(p)
  BY DEF TelegramGet, FetchFrame
<1>2. SlotMove
  BY <1>1, SlotOp, TelegramPageSlots
<1>3. PICK x \in {NextPage, "record"} : Turn(p, x)
  BY TelegramGetMoves, MovesTurn
<1>4. x \in SlotSteps \cup {"record"} /\ poll[p].pc \in SlotSteps
  BY <1>1 DEF NextPage, SlotSteps
<1>5. Lend(x, given'[p])
  BY <1>1, GivenKept DEF Lend, NextPage
<1> QED BY <1>1, <1>2, <1>3, <1>4, <1>5, SlotLim, GivenKept, ProxySame DEF LInv

LEMMA TelegramProxyLim ==
  ASSUME DInv, LInv, NEW p \in Pollers, TelegramProxy(p)
  PROVE  LimMove
<1>1. poll[p].pc = "proxy" /\ poll[p].pc \in SlotSteps /\ UNCHANGED <<scene, maxVars, busy>>
  BY DEF TelegramProxy, FetchFrame, SlotSteps
<1>2. given[p] = "none" /\ scene.mode = "service" /\ p \in Borrowers /\ given \in [Pollers -> Endpoint]
  BY <1>1, GivenKept DEF Lend
<1>3. CASE WorkingProxy(p) /\ Goto(p, [poll[p] EXCEPT !.pc = "socks"]) /\ UNCHANGED slotVars
  <2>1. ProxyInv'
    BY <1>2, <1>3, WorkingProxyInv DEF LInv
  <2>2. PICK r : r = [poll[p] EXCEPT !.pc = "socks"]
    OBVIOUS
  <2>3. r.pc = "socks"
    BY <2>2, TablesNow DEF PollRows
  <2>4. Turn(p, "socks")
    BY <1>3, <2>2, <2>3, GotoTurns
  <2>5. PICK y : y # "none" /\ given' = [given EXCEPT ![p] = y]
    BY <1>3 DEF WorkingProxy
  <2>6. given'[p] # "none" /\ \A q \in Pollers : q # p => given'[q] = given[q]
    BY <1>2, <2>5
  <2>7. Lend("socks", given'[p])
    BY <1>2, <2>6 DEF Lend
  <2>8. SlotMove
    BY <1>3, SlotOp
  <2> QED BY <1>1, <2>1, <2>4, <2>6, <2>7, <2>8, SlotLim DEF SlotSteps
<1>4. ASSUME SlotRelease(p), NEW o \in {"fail", "defer"}, Fails(p, o, poll[p].st), ProxyInv', UNCHANGED given PROVE LimMove
  <2>1. Moves(p, {"record"})
    BY <1>1, <1>4, SlotFails
  <2>2. Turn(p, "record")
    BY <2>1, MovesTurn
  <2>3. Lend("record", given'[p])
    BY <1>2, <1>4 DEF Lend
  <2>4. SlotMove
    BY <1>4, SlotOp
  <2> QED BY <1>1, <1>4, <2>2, <2>3, <2>4, SlotLim
<1>5. CASE WorkingProxyFails(p) /\ Fails(p, "defer", poll[p].st) /\ SlotRelease(p)
  <2>1. ProxyInv' /\ UNCHANGED given
    BY <1>2, <1>5, ProxyEndsInv DEF LInv, WorkingProxyFails
  <2> QED BY <1>4, <1>5, <2>1
<1>6. CASE UNCHANGED proxyVars /\ Fails(p, "fail", poll[p].st) /\ SlotRelease(p)
  BY <1>4, <1>6, ProxySame DEF LInv, proxyVars
<1> QED BY <1>3, <1>5, <1>6 DEF TelegramProxy

LEMMA TelegramSocksLim ==
  ASSUME DInv, LInv, NEW p \in Pollers, TelegramSocks(p)
  PROVE  LimMove
<1>1. /\ poll[p].pc = "socks" /\ poll[p].pc \in SlotSteps /\ UNCHANGED <<scene, maxVars, busy, slotVars>>
      /\ SocksClient(p)
  BY DEF TelegramSocks, FetchFrame, SlotSteps
<1>2. given[p] # "none" /\ scene.mode = "service" /\ p \in Borrowers
  BY <1>1, GivenKept DEF Lend
<1>3. ProxyInv' /\ UNCHANGED given
  BY <1>1, <1>2, SocksClientInv DEF LInv, SocksClient
<1>4. Turn(p, "get")
  BY TelegramSocksMoves, MovesTurn
<1>5. Lend("get", given'[p])
  BY <1>2, <1>3 DEF Lend
<1>6. SlotMove
  BY <1>1, SlotOp
<1> QED BY <1>1, <1>3, <1>4, <1>5, <1>6, SlotLim DEF SlotSteps

LEMMA TelegramViaProxyLim ==
  ASSUME DInv, LInv, NEW p \in Pollers, TelegramViaProxy(p)
  PROVE  LimMove
<1>1. /\ poll[p].pc = "get" /\ poll[p].pc \in SlotSteps /\ scene.mode = "service"
      /\ UNCHANGED <<scene, maxVars, busy>>
      /\ TelegramPage(p) \/ SlotRelease(p) \/ UNCHANGED slotVars
  BY DEF TelegramViaProxy, FetchFrame, SlotSteps
<1>2. ProxyFetched(p) \/ \E last \in BOOLEAN : ReportBadProxy(p, last)
  <2>1. ASSUME ReportBadProxy(p, poll[p].tries >= Retry) PROVE ReportBadProxy(p, TRUE) \/ ReportBadProxy(p, FALSE)
    BY <2>1 DEF ReportBadProxy
  <2>2. ProxyFetched(p) \/ ReportBadProxy(p, poll[p].tries >= Retry)
    BY DEF TelegramViaProxy
  <2> QED BY <2>1, <2>2
<1>3. given \in [Pollers -> Endpoint] /\ p \in Borrowers
  BY GivenKept
<1>4. ProxyInv'
  BY <1>2, <1>3, ProxyEndsInv DEF LInv
<1>5. given' = [given EXCEPT ![p] = "none"]
  BY <1>2 DEF ProxyFetched, ReportBadProxy
<1>6. given'[p] = "none" /\ \A q \in Pollers : q # p => given'[q] = given[q]
  BY <1>3, <1>5
<1>7. SlotMove
  BY <1>1, SlotOp, TelegramPageSlots
<1>8. PICK x \in {"proxy", "record"} : Turn(p, x)
  BY TelegramViaProxyMoves, MovesTurn
<1>9. Lend(x, given'[p])
  BY <1>1, <1>6 DEF Lend
<1> QED BY <1>1, <1>4, <1>6, <1>7, <1>8, <1>9, SlotLim DEF SlotSteps

LEMMA tryReserveSlotLim ==
  ASSUME DInv, LInv, NEW p \in Pollers, tryReserveSlot(p)
  PROVE  LimMove
<1>1. /\ poll[p].pc = "max"
      /\ UNCHANGED <<scene, busy, maxNext, maxUntil, banned, slotVars, proxyVars>>
      /\ IF Refused THEN UNCHANGED maxIn ELSE maxIn' = maxIn + 1
  BY DEF tryReserveSlot, FetchFrame, NoSlots
<1>2. Kind = "max"
  BY <1>1, GoodNow DEF PollPlace
<1>3. PICK x \in IF Refused THEN {"record"} ELSE {"fetch"} : Turn(p, x)
  BY tryReserveSlotMoves, MovesTurn
<1>4. SlotMove
  BY <1>1, SlotOp
<1>5. CASE Refused
  BY <1>1, <1>3, <1>4, <1>5, PlainLim DEF maxVars
<1>6. CASE ~Refused
  <2>1. MaxHolders' = MaxHolders \cup {p} /\ p \notin MaxHolders
    BY <1>1, <1>2, <1>3, <1>6 DEF MaxHolders, Turn, Kind
  <2>2. MaxEnters(p)
    BY <1>1, <1>6, <2>1 DEF MaxEnters
  <2>3. MaxMove
    BY <1>1, <2>2 DEF MaxMove, LInv, MaxOK
  <2>4. HostOK'
    <3>1. \A q \in Workers : poll'[q].pc = "idle" <=> poll[q].pc = "idle"
      BY <1>1, <1>3, <1>6 DEF Turn, Pollers
    <3> QED BY <1>1, <3>1, HostSame DEF LInv
  <2>5. Lent'
    BY <1>1, <1>3, <1>6, LentTurn DEF LInv, Lent, Lend, proxyVars
  <2> QED BY <1>1, <1>4, <2>3, <2>4, <2>5, ProxySame DEF LInv, LimMove
<1> QED BY <1>5, <1>6

LEMMA FetchMaxLim ==
  ASSUME DInv, LInv, NEW p \in Pollers, FetchMax(p)
  PROVE  LimMove
<1>1. /\ poll[p].pc = "fetch" /\ Kind = "max" /\ UNCHANGED <<scene, busy, slotVars, proxyVars>>
      /\ releaseSlot(FALSE) \/ releaseSlot(TRUE)
  BY DEF FetchMax, Requesting, FetchFrame, NoSlots
<1>2. Turn(p, "record")
  BY FetchMaxMoves, MovesTurn
<1>3. MaxHolders' = MaxHolders \ {p} /\ p \in MaxHolders
  BY <1>1, <1>2 DEF MaxHolders, Turn, Kind
<1>4. maxIn' = maxIn - 1 /\ maxNext' \in BOOLEAN /\ maxUntil' \in BOOLEAN /\ banned' \in BOOLEAN
      /\ (banned' => maxUntil')
  BY <1>1 DEF releaseSlot, LInv, MaxOK
<1>5. MaxMove
  BY <1>3, <1>4 DEF MaxMove, MaxLeaves
<1>6. HostOK'
  <2>1. \A q \in Workers : poll'[q].pc = "idle" <=> poll[q].pc = "idle"
    BY <1>1, <1>2 DEF Turn, Pollers
  <2> QED BY <1>1, <2>1, HostSame DEF LInv
<1>7. Lent'
  BY <1>1, <1>2, LentTurn DEF LInv, Lent, Lend, proxyVars
<1>8. SlotMove
  BY <1>1, SlotOp
<1> QED BY <1>1, <1>5, <1>6, <1>7, <1>8, ProxySame DEF LInv, LimMove

\* The sources without a limiter.
LEMMA OtherLim ==
  ASSUME DInv, LInv, NEW p \in Pollers,
         \/ FetchVK(p) \/ FetchMaxstat(p) \/ FetchWall(p) \/ FetchDzenNews(p) \/ FetchRutube(p)
         \/ FetchTabs(p) \/ FetchSmotrim(p) \/ FetchOK(p) \/ FetchPage(p) \/ FetchRSS(p)
  PROVE  LimMove
<1>1. poll[p].pc = "fetch" /\ Kind # "max" /\ UNCHANGED <<scene, busy, maxVars, slotVars, proxyVars>>
  BY DEF FetchVK, FetchMaxstat, FetchWall, FetchDzenNews, FetchRutube, FetchTabs, FetchSmotrim, FetchOK,
         FetchPage, FetchRSS, Requesting, FetchFrame, PlainFrame, NoSlots
<1>2. Moves(p, {"record"}) \/ Moves(p, {"fetch", "record"})
  BY FetchVKMoves, FetchMaxstatMoves, FetchWallMoves, FetchTabsMoves, FetchSmotrimMoves, FetchOKMoves,
     FetchPageMoves, FetchRSSMoves
<1>3. PICK x \in {"fetch", "record"} : Turn(p, x)
  BY <1>2, MovesTurn
<1> QED BY <1>1, <1>3, SlotOp, PlainLim

LEMMA FetchSourceLim ==
  ASSUME DInv, LInv, NEW p \in Pollers, FetchSource(p)
  PROVE  LimMove
BY TelegramWaitsLim, TelegramRingsLim, TelegramGetLim, TelegramProxyLim, TelegramSocksLim,
   TelegramViaProxyLim, tryReserveSlotLim, FetchMaxLim, OtherLim DEF FetchSource, Telegram

LEMMA RecordLim ==
  ASSUME DInv, LInv, NEW p \in Pollers, Record(p)
  PROVE  LimMove
<1>1. poll[p].pc = "record" /\ UNCHANGED <<scene, maxVars, slotVars, proxyVars>>
  BY DEF Record, RecordFetched, RecordUnchanged, RecordFailed, RecordLayout, Deferred, RecordFrame
<1>2. CASE Finish(p)
  <2>1. HostRelease(p) /\ Turn(p, "idle")
    BY <1>2, GotoTurns, IdleRow DEF Finish
  <2>2. HostOK'
    BY <1>1, <2>1, HostEnds DEF LInv
  <2>3. MaxMove
    <3>1. \A q \in Pollers : poll'[q].pc = "fetch" <=> poll[q].pc = "fetch"
      BY <1>1, <2>1 DEF Turn
    <3> QED BY <1>1, <3>1, MaxSame DEF LInv
  <2>4. Lent'
    BY <1>1, <2>1, LentTurn DEF LInv, Lent, Lend, proxyVars
  <2> QED BY <1>1, <2>2, <2>3, <2>4, SlotOp, ProxySame DEF LInv, LimMove
<1>3. CASE Goto(p, [poll[p] EXCEPT !.out = "fail"]) /\ UNCHANGED busy
  <2>1. PICK r : r = [poll[p] EXCEPT !.out = "fail"]
    OBVIOUS
  <2>2. r.pc = "record"
    BY <1>1, <2>1, TablesNow DEF PollRows
  <2>3. Turn(p, "record")
    BY <1>3, <2>1, <2>2, GotoTurns
  <2> QED BY <1>1, <1>3, <2>3, SlotOp, PlainLim
<1> QED
  BY <1>2, <1>3 DEF Record, RecordFetched, RecordUnchanged, RecordFailed, RecordLayout, Deferred

LEMMA TimersLim ==
  ASSUME DInv, LInv, Timers
  PROVE  LimMove
<1>1. CASE LimitEnds
  <2>1. Still
    BY <1>1, TablesNow DEF LimitEnds, Still, PollRows
  <2> QED BY <1>1, <2>1, QuietLim DEF LimitEnds
<1>2. CASE RowsReturn
  <2>1. Still /\ UNCHANGED <<scene, maxVars, busy, slotVars, proxyVars>>
    BY <1>2 DEF RowsReturn, Still
  <2> QED BY <2>1, QuietLim
<1>3. CASE IntervalEnds \/ CooldownEnds
  <2>1. /\ UNCHANGED <<scene, poll, maxIn, busy, slotVars, proxyVars>>
        /\ maxNext' \in BOOLEAN /\ maxUntil' \in BOOLEAN /\ banned' \in BOOLEAN /\ (banned' => maxUntil')
    <3>1. UNCHANGED <<scene, poll, maxIn, busy, slotVars, proxyVars>>
      BY <1>3 DEF IntervalEnds, CooldownEnds
    <3>2. /\ maxNext' = FALSE
          /\ (maxUntil' = maxUntil /\ banned' = banned) \/ (maxUntil' = FALSE /\ banned' = FALSE)
      BY <1>3 DEF IntervalEnds, CooldownEnds
    <3>3. maxUntil \in BOOLEAN /\ banned \in BOOLEAN /\ (banned => maxUntil)
      BY DEF LInv, MaxOK
    <3>4. maxNext' \in BOOLEAN /\ maxUntil' \in BOOLEAN /\ banned' \in BOOLEAN
      BY <3>2, <3>3
    <3>5. banned' => maxUntil'
      BY <3>2, <3>3, Zenon
    <3> QED BY <3>1, <3>4, <3>5
  <2>2. MaxHolders' = MaxHolders
    BY <2>1 DEF MaxHolders, Kind
  <2>3. MaxMove
    BY <2>1, <2>2 DEF MaxMove
  <2>4. HostOK'
    BY <2>1, HostSame DEF LInv
  <2>5. Lent'
    BY <2>1 DEF LInv, Lent, Lend, proxyVars
  <2> QED BY <2>1, <2>3, <2>4, <2>5, ProxySame DEF LInv, LimMove, SlotMove
<1> QED BY <1>1, <1>2, <1>3 DEF Timers

LEMMA ChangeSlotsLim ==
  ASSUME DInv, LInv, NEW n \in 0..(SlotsMax + 1), ChangeSlots(n)
  PROVE  LimMove
<1>1. UNCHANGED <<scene, poll, maxVars, busy, proxyVars>> /\ setLimit(n) /\ n \in Nat
  BY DEF ChangeSlots
<1>2. SlotMove
  BY <1>1 DEF SlotMove, SlotsNext
<1>3. HostOK'
  BY <1>1, HostSame DEF LInv
<1>4. MaxMove
  BY <1>1, MaxSame DEF LInv
<1>5. Lent'
  BY <1>1 DEF LInv, Lent, Lend, proxyVars
<1> QED BY <1>1, <1>2, <1>3, <1>4, <1>5, ProxySame DEF LInv, LimMove

LEMMA RestartLim ==
  ASSUME DInv, LInv, Restart
  PROVE  LimMove
<1>1. /\ poll' = [p \in Pollers |-> IdlePoll] /\ scene' = scene /\ limit' = scene.slots
      /\ maxIn' = 0 /\ maxNext' = FALSE /\ maxUntil' = FALSE /\ banned' = FALSE /\ busy' = 0
      /\ inFlight' = 0 /\ awake' = {} /\ asleep' = {} /\ inside' = {} /\ ended' = {} /\ ringing' = {}
      /\ cached' = "none" /\ socks' = "none" /\ streak' = 0
      /\ given' = [b \in Borrowers |-> "none"] /\ via' = [b \in Borrowers |-> "none"]
  BY DEF Restart
<1>2. \A q \in Pollers : poll'[q].pc = "idle"
  BY <1>1, IdleRow
<1>3. HostOK'
  <2>1. Running' = {}
    BY <1>2 DEF Running, Pollers
  <2>2. Cardinality(Running') = 0
    BY <2>1, FS_EmptySet
  <2> QED BY <1>1, <2>2, SourcesAssumption DEF HostOK
<1>4. MaxMove
  <2>1. MaxHolders' = {}
    BY <1>2 DEF MaxHolders
  <2> QED BY <1>1, <2>1 DEF MaxMove
<1>5. SlotMove
  <2>1. scene.slots \in 1..SlotsMax
    BY TablesNow, SourcesAssumption
  <2> QED BY <1>1, <2>1 DEF SlotMove, SlotsReset
<1>6. ProxyInv'
  BY <1>1 DEF ProxyInv, ProxyTypeOK, ViaOwnProxy, Endpoint
<1>7. Lent'
  <2>1. \A q \in Pollers : given'[q] = "none"
    BY <1>1, SourcesAssumption
  <2> QED BY <1>2, <2>1 DEF Lent, Lend
<1> QED BY <1>1, <1>3, <1>4, <1>5, <1>6, <1>7 DEF LimMove

LEMMA WorldLim ==
  ASSUME DInv, LInv,
         \/ \E c \in Channels : Publish(c)
         \/ \E f \in Feeds, c \in Channels : EditURL(f, c)
         \/ PostgresCrash
  PROVE  LimMove
<1>1. UNCHANGED <<scene, poll, maxVars, busy, slotVars, proxyVars>>
  BY DEF Publish, EditURL, PostgresCrash
<1>2. Still
  BY <1>1 DEF Still
<1> QED BY <1>1, <1>2, QuietLim

LEMMA LimitersNext == ASSUME DInv, LInv, [Next]_vars PROVE LimMove
<1>1. CASE UNCHANGED vars
  <2>1. UNCHANGED <<scene, poll, maxVars, busy, slotVars, proxyVars>>
    BY <1>1 DEF vars
  <2>2. Still
    BY <2>1 DEF Still
  <2> QED BY <2>1, <2>2, QuietLim
<1>2. ASSUME NEW p \in Pollers, Begin(p) \/ Poll(p) PROVE LimMove
  BY <1>2, BeginLim, FetchSourceLim, RecordLim DEF Poll
<1>3. ASSUME NEW n \in 0..(SlotsMax + 1), ChangeSlots(n) PROVE LimMove
  BY <1>3, ChangeSlotsLim
<1> QED BY <1>1, <1>2, <1>3, TimersLim, RestartLim, WorldLim DEF Next

LEMMA LimitersInit == Init => LInv
<1> SUFFICES ASSUME Init PROVE LInv
  OBVIOUS
<1>1. /\ scene \in Scenes /\ poll = [p \in Pollers |-> IdlePoll]
      /\ maxIn = 0 /\ maxNext = FALSE /\ maxUntil = FALSE /\ banned = FALSE /\ busy = 0
      /\ SlotsInit(scene.slots) /\ ProxyInit
  BY DEF Init
<1>2. \A q \in Pollers : poll[q].pc = "idle"
  BY <1>1, IdleRow
<1>3. HostOK
  <2>1. Running = {}
    BY <1>2 DEF Running, Pollers
  <2>2. Cardinality(Running) = 0
    BY <2>1, FS_EmptySet
  <2> QED BY <1>1, <2>2, SourcesAssumption DEF HostOK
<1>4. MaxOK
  <2>1. MaxHolders = {}
    BY <1>2 DEF MaxHolders
  <2>2. Cardinality(MaxHolders) = 0
    BY <2>1, FS_EmptySet
  <2> QED BY <1>1, <2>2 DEF MaxOK
<1>5. SlotsInv
  <2>1. scene.slots \in 1..SlotsMax
    BY <1>1, SourcesAssumption
  <2> QED BY <1>1, <2>1, FS_EmptySet DEF SlotsInit, SlotsInv, SlotsTypeOK, SlotsAccounted, NoLostWakeup
<1>6. ProxyInv
  BY <1>1, ProxyInitInv
<1>7. Lent
  <2>1. \A q \in Pollers : given[q] = "none"
    BY <1>1, SourcesAssumption DEF ProxyInit
  <2> QED BY <1>2, <2>1 DEF Lent, Lend
<1> QED BY <1>3, <1>4, <1>5, <1>6, <1>7 DEF LInv

(***************************************************************************)
(* The theorems                                                            *)
(***************************************************************************)
PInv == DInv /\ LInv

LEMMA PollsInit == Init => PInv
BY DataInit, LimitersInit DEF PInv

LEMMA PollsNext == PInv /\ [Next]_vars => PInv'
BY DataNext, LimitersNext, LimMoveKeeps DEF PInv

LEMMA PollsInv == Spec => []PInv
BY PollsInit, PollsNext, PTL DEF Spec

LEMMA TypesFollow == PInv => SourcesTypeOK
<1> SUFFICES ASSUME PInv PROVE SourcesTypeOK
  OBVIOUS
<1>1. DInv /\ LInv
  BY DEF PInv
<1>2. \A f \in Feeds : db[f].st \in States /\ Len(db[f].st.seen) <= SeenKeep
  BY <1>1, TablesNow, RowFields DEF StatesKept
<1>3. \A p \in Pollers : poll[p].st \in States
  BY <1>1, TablesNow, PollFields DEF StatesKept
<1>4. MaxHolders \in SUBSET Pollers /\ Running \in SUBSET Pollers
  BY DEF MaxHolders, Running, Pollers
<1>5. maxIn \in Nat /\ busy \in 0..HostLimit
  BY <1>1, <1>4, PollersFinite, SourcesAssumption DEF LInv, MaxOK, HostOK
<1> QED BY <1>1, <1>2, <1>3, <1>5, TablesNow DEF SourcesTypeOK, LInv, SlotsInv, ProxyInv

\* The tables, the polls under way and the limiters have their types, whatever
\* fails: no count of the host's slots passes its limit, no list of seen posts
\* outgrows seenKeep.
THEOREM SourcesTypes == Spec => []SourcesTypeOK
BY PollsInv, TypesFollow, PTL

\* No cursor, hash, ETag or seen list runs ahead of the entries, for every
\* bridge, any number of polls of a feed, any page size and any length of the
\* sources' answers, while the stored transaction and the state are one.
THEOREM SourcesInvHolds == Spec => [](Cautious(scene) => SourcesInv)
<1>1. ASSUME PInv, Cautious(scene) PROVE SourcesInv
  <2>1. CursorCovered
    BY <1>1 DEF PInv, DInv, FeedCovered, CursorCovered
  <2> QED BY <1>1, <2>1, TypesFollow DEF SourcesInv
<1>2. PInv => (Cautious(scene) => SourcesInv)
  BY <1>1
<1> QED BY <1>2, PollsInv, PTL

\* In the polls, too, every path out of a Telegram fetch gives its slot back
\* once and wakes a sleeper, and no request leaves through another fetch's
\* endpoint, with restarts and failures in between.
THEOREM PollsKeepLimiters == Spec => [](SlotsInv /\ ProxyInv)
<1>1. PInv => SlotsInv /\ ProxyInv
  BY DEF PInv, LInv
<1> QED BY <1>1, PollsInv, PTL

\* Every step of the polls is a step of the two abstract limiters.
LEMMA LimitStep == PInv /\ PInv' /\ [Next]_vars => [FetchLimit!LimitNext]_<<limit, inside>>
<1> SUFFICES ASSUME PInv, PInv', [Next]_vars PROVE [FetchLimit!LimitNext]_<<limit, inside>>
  OBVIOUS
<1>1. SlotMove /\ SlotsInv /\ SlotsInv'
  BY LimitersNext DEF PInv, LInv, LimMove
<1>2. CASE SlotsReset
  BY <1>2 DEF SlotsReset, FetchLimit!LimitNext, FetchLimit!Reboot
<1> QED BY <1>1, <1>2, SlotsNextLimit DEF SlotMove

\* The Telegram polls use the fetch slots as a slot limiter; a restart empties it.
THEOREM PollsRefineLimit == Spec => SlotsLimit
<1>1. Init => FetchLimit!LimitInit
  BY SourcesAssumption DEF Init, SlotsInit, FetchLimit!LimitInit
<1> QED BY <1>1, LimitStep, PollsInv, PTL DEF Spec, SlotsLimit, FetchLimit!LimitSpec

LEMMA SameMaxCount == \A S : MaxLimit!Cardinality(S) = Cardinality(S)
BY DEF MaxLimit!Cardinality, Cardinality

LEMMA MaxStep ==
  ASSUME PInv, [Next]_vars
  PROVE  /\ [MaxLimit!LimitNext]_<<scene.slots, MaxHolders>>
         /\ maxIn' > maxIn => ~banned
<1>1. MaxMove /\ MaxOK /\ scene' = scene /\ maxIn \in Nat /\ scene.slots \in 1..SlotsMax
  <2>1. scene.slots \in 1..SlotsMax
    BY TablesNow, SourcesAssumption DEF PInv
  <2>2. maxIn \in Nat
    BY TypesFollow DEF SourcesTypeOK
  <2> QED BY <2>1, <2>2, LimitersNext DEF PInv, LInv, LimMove
<1>2. CASE MaxHolders' = MaxHolders /\ maxIn' = maxIn
  BY <1>1, <1>2
<1>3. CASE MaxHolders' = {} /\ maxIn' = 0
  BY <1>1, <1>3 DEF MaxLimit!LimitNext, MaxLimit!Reboot, MaxHolders
<1>4. ASSUME NEW p \in Pollers, MaxEnters(p)
      PROVE  MaxLimit!Enter(p) /\ ~banned
  BY <1>1, <1>4, SameMaxCount DEF MaxEnters, MaxLimit!Enter, MaxHolders, Refused, MaxOK
<1>5. ASSUME NEW p \in Pollers, MaxLeaves(p)
      PROVE  MaxLimit!Leave(p) /\ ~(maxIn' > maxIn)
  BY <1>1, <1>5 DEF MaxLeaves, MaxLimit!Leave, MaxHolders
<1> QED BY <1>1, <1>2, <1>3, <1>4, <1>5 DEF MaxMove, MaxLimit!LimitNext

\* tryReserveSlot and releaseSlot are a slot limiter for the Max requests, and
\* none starts during a cooldown, although good answers of older requests come
\* in while it lasts: for any number of polls and slots.
THEOREM MaxLimitedHolds == Spec => MaxLimited
<1>1. Init => MaxLimit!LimitInit
  BY SourcesAssumption DEF Init, MaxLimit!LimitInit, IdlePoll
<1>2. PInv /\ [Next]_vars => [MaxLimit!LimitNext]_<<scene.slots, MaxHolders>>
  BY MaxStep
<1>3. PInv /\ [Next]_vars => [maxIn' > maxIn => ~banned]_vars
  BY MaxStep
<1>4. Spec => MaxSlotsLimit
  BY <1>1, <1>2, PollsInv, PTL DEF Spec, MaxSlotsLimit, MaxLimit!LimitSpec, MaxHolders
<1>5. Spec => CooldownHeld
  BY <1>3, PollsInv, PTL DEF Spec, CooldownHeld
<1> QED BY <1>4, <1>5 DEF MaxLimited

=============================================================================
