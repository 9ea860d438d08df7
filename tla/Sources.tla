------------------------------ MODULE Sources ------------------------------
(***************************************************************************)
(* What a poll does between loading a feed and recording it: the bridges   *)
(* (internal/reader) ask their source with the cursor, the hash or the     *)
(* list of seen posts kept in bridge_state, and the refresher stores what  *)
(* they return together with the advanced state.  The background worker of *)
(* a feed, manual refreshes, an edited URL, failing sources and a failing  *)
(* database interleave.                                                    *)
(*                                                                         *)
(* Post i of a channel is the i-th one published; the time of a post is    *)
(* its number, and a time cursor is the number of posts published when the *)
(* clock was read.  A version of a page or of an RSS document is the       *)
(* number of posts in it.                                                  *)
(***************************************************************************)
EXTENDS FetchSlots, ProxyPool, Sequences, FiniteSetsExt

CONSTANTS Feeds, Channels,
          Workers, Manuals,  \* background polls, one per feed, and manual ones
          FeedOf,            \* the feed each of them polls
          PageSize,          \* messages on a t.me/s page
          MaxPages,          \* pages of a poll without a cursor
          IncPages,          \* incrementalMaxPages
          Limit,             \* posts an API, a group page or an RSS document shows
          SeenKeep,          \* seenKeep of ok_group
          MaxTopics,         \* maxTopicFetches of ok_group
          Retry,             \* TELEGRAM_PROXY_RETRY
          HostLimit,         \* POLL_HOST_CONCURRENCY
          Scenes             \* what a behaviour starts from, see Init

Pollers == Workers \cup Manuals

ASSUME SourcesAssumption ==
  /\ Fetchers = Pollers /\ Borrowers = Pollers
  /\ FeedOf \in [Pollers -> Feeds]
  /\ {PageSize, MaxPages, IncPages, Limit, SeenKeep, HostLimit} \subseteq Nat \ {0}
  /\ \A s \in Scenes : s.home \in Channels /\ s.start \in Nat /\ s.slots \in 1..SlotsMax /\ s.budget \in Nat

VARIABLES scene,    \* the kind of the feeds, the faults and the bounds
          posts,    \* posts published in each channel
          url,      \* the channel feeds.feed_url names
          db,       \* feed_poll_state and the stored items of each feed
          poll,     \* the polls under way
          maxIn,    \* max.Handler.inFlight
          maxNext,  \* now < nextSlot
          maxUntil, \* now < globalUntil
          banned,   \* history: the API's last 429 is younger than the cooldown
          limited,  \* the queries in Handler.rateLimited of vk and maxstat
          busy,     \* HostLimiter.busy of the feeds' host
          faults    \* events of the environment so far

maxVars == <<maxIn, maxNext, maxUntil, banned>>
vars == <<scene, posts, url, db, poll, maxVars, limited, busy, faults, slotVars, proxyVars>>

Kind == scene.kind
Fault(x) == x \in scene.faults /\ faults < scene.budget /\ faults' = faults + 1
NoFault  == UNCHANGED faults

\* A bridge's document in bridge_state; doc: there is one.
NoState == [doc |-> FALSE, cursor |-> 0, chan |-> "none", seen |-> <<>>,
            hash |-> 0, limited |-> FALSE]
Wiped   == [NoState EXCEPT !.doc = TRUE]

IdlePoll == [pc |-> "idle", st |-> NoState, etag |-> 0, items |-> {}, chan |-> "none",
             base |-> 0, page |-> 0, from |-> 0, tries |-> 0, got |-> {}, miss |-> {},
             out |-> "none"]

\* row: the feed has its feed_poll_state row; items: the set behind
\* items_hash; stored: hashes in entries or feed_entry_dedup; left: posts a
\* successful poll could not see, because the source's answer was too short.
NewFeed == [row |-> TRUE, st |-> NoState, etag |-> 0, items |-> {}, stored |-> {}, left |-> {}]

Init ==
  /\ scene \in Scenes
  /\ posts = [c \in Channels |-> scene.start]
  /\ url = [f \in Feeds |-> scene.home]
  /\ db = [f \in Feeds |-> NewFeed]
  /\ poll = [p \in Pollers |-> IdlePoll]
  /\ maxIn = 0 /\ maxNext = FALSE /\ maxUntil = FALSE /\ banned = FALSE
  /\ limited = {} /\ busy = 0 /\ faults = 0
  /\ SlotsInit(scene.slots) /\ ProxyInit

Newest(S, n) == {i \in S : Cardinality({j \in S : j > i}) < n}
Oldest(S, n) == {i \in S : Cardinality({j \in S : j < i}) < n}
Latest(S)  == Max(S \cup {0})

Goto(p, r) == poll' = [poll EXCEPT ![p] = r]
Items(p, S) == {poll[p].chan} \X S

(***************************************************************************)
(* refreshLoaded: the state a poll starts from                             *)
(***************************************************************************)
\* fullRefetchState: a manual refresh strips the RSS body hash, the item-set
\* hash and the cursors of Max and Telegram, and nothing else.
fullRefetchState(st) ==
  IF Kind = "rss" THEN [st EXCEPT !.doc = FALSE, !.hash = 0]
  ELSE IF Kind \in {"max", "telegram"} THEN [st EXCEPT !.doc = TRUE, !.cursor = 0, !.chan = "none"]
  ELSE st

\* Acquire and the function it returns.
HostAcquire == busy < HostLimit /\ busy' = busy + 1
HostRelease(p) == busy' = IF p \in Workers THEN busy - 1 ELSE busy

\* A worker takes a slot of the host (a busy host defers the poll: nothing
\* happens); a manual refresh does not.  Telegram then waits for a fetch slot.
Begin(p) ==
  LET f == FeedOf[p]
      w == p \in Workers
  IN /\ p \in scene.pollers
     /\ poll[p].pc = "idle" /\ db[f].row
     /\ IF w THEN HostAcquire /\ NoFault
             ELSE Fault("manual") /\ UNCHANGED busy
     /\ Goto(p, [IdlePoll EXCEPT !.pc = IF Kind \in {"telegram", "max"} THEN Kind ELSE "fetch",
                   !.st = IF w THEN db[f].st ELSE fullRefetchState(db[f].st),
                   !.etag = db[f].etag,
                   !.items = IF w THEN db[f].items ELSE {},
                   !.chan = url[f], !.base = posts[url[f]]])
     /\ IF Kind = "telegram" THEN SlotWant(p) ELSE UNCHANGED slotVars
     /\ UNCHANGED <<scene, posts, url, db, maxVars, limited, proxyVars>>

\* The bridge returns: entries and a new state, or an error with a state.
Answer(p, o, st, got, miss) ==
  Goto(p, [poll[p] EXCEPT !.pc = "record", !.out = o, !.st = st,
                          !.got = Items(p, got), !.miss = Items(p, miss)])
Fails(p, o, st) == Answer(p, o, st, {}, {})

\* A request goes wrong; the client says what becomes of which error: a failed
\* poll, a poll put off, a changed layout.
Errors(p, client, st) == \E x \in DOMAIN client : Fault(x) /\ Fails(p, client[x], st)

FetchFrame == UNCHANGED <<scene, posts, url, db, busy>>
Requesting(p, k) == poll[p].pc = "fetch" /\ Kind = k /\ FetchFrame
NoSlots == UNCHANGED <<slotVars, proxyVars>>

(***************************************************************************)
(* Telegram                                                                *)
(***************************************************************************)
TelegramWaits(p) ==
  /\ poll[p].pc = "telegram"
  /\ \/ /\ SlotEnter(p)
        /\ Goto(p, [poll[p] EXCEPT !.pc = IF scene.mode = "service" THEN "proxy" ELSE "get"])
     \/ SlotGiveUp(p) /\ Fails(p, "defer", poll[p].st)      \* ErrSlotsBusy
     \/ SlotSleep(p) /\ UNCHANGED poll
  /\ NoFault
  /\ FetchFrame /\ UNCHANGED <<maxVars, limited, proxyVars>>

\* Half of the poll's time is over, or somebody's broadcast arrives.
TelegramRings(p) ==
  /\ Kind = "telegram"
  /\ \/ Fault("slow") /\ SlotEnds(p)
     \/ NoFault /\ SlotRing(p)
  /\ FetchFrame /\ UNCHANGED <<poll, maxVars, limited, proxyVars>>

\* The message cursor counts only for the channel it was taken from.
MutCursor(p) == poll[p].st.cursor
Cursor(p) == IF poll[p].st.chan = poll[p].chan THEN poll[p].st.cursor ELSE 0

\* What the page requested now shows: the newest messages or those before the
\* oldest one seen, or, after a cursor, the oldest messages after it.
PageShows(p) ==
  LET all == 1..posts[poll[p].chan]
      r == poll[p]
  IN IF Cursor(p) > 0
     THEN Oldest({i \in all : i > IF r.page = 0 THEN Cursor(p) ELSE r.from}, PageSize)
     ELSE Newest({i \in all : r.page = 0 \/ i < r.from}, PageSize)

\* The state the bridge returns: the cursor and its channel are written over
\* the form's document, unless there is nothing to remember.
Advanced(p, last) ==
  IF last = 0 THEN poll[p].st
  ELSE [poll[p].st EXCEPT !.doc = TRUE, !.cursor = last, !.chan = poll[p].chan]

\* One page more, or the result of the fetch and the end of its slot.
TelegramPage(p) ==
  LET r == poll[p]
      cur == Cursor(p)
      shown == PageShows(p)
      got == r.got \cup shown
      more == /\ shown # {}
              /\ IF cur > 0 THEN Latest(shown) < posts[r.chan] ELSE Min(shown) > 1
              /\ r.page + 1 < IF cur > 0 THEN IncPages ELSE MaxPages
  IN IF more
     THEN /\ Goto(p, [r EXCEPT !.got = got, !.page = @ + 1, !.tries = 0,
                        !.from = IF cur > 0 THEN Latest(shown) ELSE Min(shown),
                        !.pc = IF scene.mode = "service" THEN "proxy" ELSE "get"])
          /\ UNCHANGED slotVars
     ELSE /\ Answer(p, "ok", Advanced(p, Latest(got \cup {cur})), got, IF cur > 0 \/ got = {} THEN {} ELSE 1..(Min(got) - 1))
          /\ SlotRelease(p)

\* An error of a direct request is the feed's; behind a proxy it is the proxy's.
fetchDirect    == [neterr |-> "fail", layout |-> "layout"]
fetchViaStatic == [neterr |-> "defer", layout |-> "layout"]

TelegramGet(p) ==
  /\ poll[p].pc = "get" /\ scene.mode # "service"
  /\ \/ NoFault /\ TelegramPage(p)
     \/ /\ Errors(p, IF scene.mode = "direct" THEN fetchDirect ELSE fetchViaStatic, poll[p].st)
        /\ SlotRelease(p)
  /\ FetchFrame /\ UNCHANGED <<maxVars, limited, proxyVars>>

\* fetchPageWithRetry: a proxy, unless the poll's time is over, a client for
\* it ...
TelegramProxy(p) ==
  /\ poll[p].pc = "proxy"
  /\ \/ /\ NoFault /\ WorkingProxy(p)
        /\ Goto(p, [poll[p] EXCEPT !.pc = "socks"]) /\ UNCHANGED slotVars
     \/ /\ Fault("noproxy") /\ WorkingProxyFails(p)
        /\ Fails(p, "defer", poll[p].st) /\ SlotRelease(p)
     \/ /\ Fault("late") /\ UNCHANGED proxyVars
        /\ Fails(p, "fail", poll[p].st) /\ SlotRelease(p)
  /\ FetchFrame /\ UNCHANGED <<maxVars, limited>>

TelegramSocks(p) ==
  /\ poll[p].pc = "socks"
  /\ SocksClient(p)
  /\ Goto(p, [poll[p] EXCEPT !.pc = "get"])
  /\ NoFault
  /\ FetchFrame /\ UNCHANGED <<maxVars, limited, slotVars>>

\* ... and the page through it, or a report about the proxy and a retry.
TelegramViaProxy(p) ==
  LET r == poll[p]
      lastTry == r.tries >= Retry
  IN /\ r.pc = "get" /\ scene.mode = "service"
     /\ \/ NoFault /\ ProxyFetched(p) /\ TelegramPage(p)
        \/ /\ Fault("badproxy") /\ ReportBadProxy(p, lastTry)
           /\ IF lastTry THEN Fails(p, "defer", r.st) /\ SlotRelease(p)
              ELSE Goto(p, [r EXCEPT !.pc = "proxy", !.tries = @ + 1]) /\ UNCHANGED slotVars
     /\ FetchFrame /\ UNCHANGED <<maxVars, limited>>

Telegram(p) == \/ TelegramWaits(p) \/ TelegramRings(p) \/ TelegramGet(p)
               \/ TelegramProxy(p) \/ TelegramSocks(p) \/ TelegramViaProxy(p)

(***************************************************************************)
(* Max                                                                     *)
(***************************************************************************)
Refused == maxIn >= scene.slots \/ maxUntil \/ (maxIn = 0 /\ maxNext)

tryReserveSlot(p) ==
  /\ poll[p].pc = "max"
  /\ IF Refused THEN Fails(p, "defer", poll[p].st) /\ UNCHANGED maxIn
     ELSE maxIn' = maxIn + 1 /\ Goto(p, [poll[p] EXCEPT !.pc = "fetch"])
  /\ NoFault /\ FetchFrame /\ UNCHANGED <<maxNext, maxUntil, banned, limited>> /\ NoSlots

\* releaseSlot; the cooldown starts only after a rate-limited answer and
\* later answers of requests still in flight do not shorten it.
MutReleaseSlot(rateLimited) ==
  /\ maxIn' = maxIn - 1 /\ maxNext' = TRUE
  /\ maxUntil' = rateLimited /\ banned' = (banned \/ rateLimited)

MutReleaseKeeps(rateLimited) ==
  /\ maxNext' = TRUE
  /\ maxUntil' = (maxUntil \/ rateLimited) /\ banned' = (banned \/ rateLimited)
  /\ UNCHANGED maxIn

releaseSlot(rateLimited) ==
  /\ maxIn' = maxIn - 1 /\ maxNext' = TRUE
  /\ maxUntil' = (maxUntil \/ rateLimited) /\ banned' = (banned \/ rateLimited)

\* The messages after the cursor; the new cursor is the time at which the
\* fetch began.  An error other than a rate limit returns an empty state.
doGET == [neterr |-> "fail", layout |-> "layout"]
ComputeAfter(p) == (poll[p].st.cursor + 1)..posts[poll[p].chan]

FetchMax(p) ==
  LET st == poll[p].st
      new == ComputeAfter(p)
      got == Newest(new, Limit)
  IN /\ Requesting(p, "max")
     /\ \/ /\ NoFault /\ releaseSlot(FALSE)
           /\ Answer(p, "ok", [st EXCEPT !.doc = TRUE, !.cursor = poll[p].base], got, new \ got)
        \/ Fault("limit") /\ releaseSlot(TRUE) /\ Fails(p, "defer", st)
        \/ Errors(p, doGET, Wiped) /\ releaseSlot(FALSE)
     /\ UNCHANGED limited /\ NoSlots

(***************************************************************************)
(* VK search and maxstat                                                   *)
(***************************************************************************)
\* RateLimitedUntil in the feed's state, or the query's in memory: the poll
\* fails at once.
QueryLimited(p) == poll[p].st.limited \/ poll[p].chan \in limited

SetQueryRateLimit(p) == limited' = limited \cup {poll[p].chan}

\* newsfeed.search from the cursor to the time at which the fetch began.
ComputeTimeWindow(p) == (poll[p].st.cursor + 1)..poll[p].base
Call == [neterr |-> "fail", layout |-> "layout"]

FetchVK(p) ==
  LET st == poll[p].st
      window == ComputeTimeWindow(p)
      got == Newest(window, Limit)
  IN /\ Requesting(p, "vk")
     /\ IF QueryLimited(p) THEN NoFault /\ Fails(p, "fail", [st EXCEPT !.doc = TRUE]) /\ UNCHANGED limited
        ELSE \/ /\ NoFault /\ UNCHANGED limited
                /\ Answer(p, "ok", [st EXCEPT !.doc = TRUE, !.cursor = poll[p].base, !.limited = FALSE],
                          got, window \ got)
             \/ /\ Fault("limit") /\ SetQueryRateLimit(p)
                /\ Fails(p, "fail", [st EXCEPT !.doc = TRUE, !.limited = TRUE])
             \/ Errors(p, Call, Wiped) /\ UNCHANGED limited
     /\ UNCHANGED maxVars /\ NoSlots

\* The newest posts, whenever they were published; the new cursor is the
\* latest of them.  Errors keep the state.
MaxPublishedUnix(S) == Latest(S)
Search == [neterr |-> "fail"]

FetchMaxstat(p) ==
  LET st == poll[p].st
      all == 1..posts[poll[p].chan]
      shown == Newest(all, Limit)
      got == {i \in shown : i > st.cursor}
      last == MaxPublishedUnix(shown)
  IN /\ Requesting(p, "maxstat")
     /\ IF QueryLimited(p) THEN NoFault /\ Fails(p, "fail", [st EXCEPT !.doc = TRUE]) /\ UNCHANGED limited
        ELSE \/ /\ NoFault /\ UNCHANGED limited
                /\ Answer(p, "ok", [st EXCEPT !.doc = TRUE, !.limited = FALSE,
                                      !.cursor = Latest({last, @})], got, all \ shown)
             \/ /\ Fault("limit") /\ SetQueryRateLimit(p)
                /\ Fails(p, "fail", [st EXCEPT !.doc = TRUE, !.limited = TRUE])
             \/ Errors(p, Search, [st EXCEPT !.doc = TRUE]) /\ UNCHANGED limited
     /\ UNCHANGED maxVars /\ NoSlots

(***************************************************************************)
(* Bridges without a cursor                                                *)
(***************************************************************************)
Newcomers(p) == Newest(1..posts[poll[p].chan], Limit)
Scrolled(p)  == 1..posts[poll[p].chan] \ Newcomers(p)
PlainFrame   == UNCHANGED <<maxVars, limited>> /\ NoSlots

\* vk_group: wall.get, whose flood errors put the poll off.
mapWallError == [limit |-> "defer", neterr |-> "fail"]
WallGet == [limit |-> mapWallError.limit, neterr |-> mapWallError.neterr, layout |-> Call.layout]

FetchWall(p) ==
  /\ Requesting(p, "wall")
  /\ \/ NoFault /\ Answer(p, "ok", poll[p].st, Newcomers(p), Scrolled(p))
     \/ Errors(p, WallGet, poll[p].st)
  /\ PlainFrame

\* dzen_news and rutube write the query or the channel back into the state; no
\* results are an error of dzen_news.
Resolved(p) == [poll[p].st EXCEPT !.doc = TRUE]

SearchNews == [neterr |-> "fail", layout |-> "layout"]

FetchDzenNews(p) ==
  /\ Requesting(p, "news")
  /\ \/ /\ NoFault
        /\ IF Newcomers(p) = {} THEN Fails(p, "fail", Resolved(p))
           ELSE Answer(p, "ok", Resolved(p), Newcomers(p), Scrolled(p))
     \/ Errors(p, SearchNews, Resolved(p))
  /\ PlainFrame

ListPersonVideos == [neterr |-> "fail", layout |-> "layout"]

FetchRutube(p) ==
  /\ Requesting(p, "rutube")
  /\ \/ NoFault /\ Answer(p, "ok", Resolved(p), Newcomers(p), Scrolled(p))
     \/ Errors(p, ListPersonVideos, Resolved(p))
  /\ PlainFrame

\* The posts of one tab (dzen_channel) or of one of plots and episodes (smotrim).
Tab(p, t) == Newest({i \in 1..posts[poll[p].chan] : i % 2 = t}, Limit)

\* dzen_channel: a request per tab; an error of one fails them all.
Export == [neterr |-> "fail", limit |-> "defer", layout |-> "layout"]

FetchTabs(p) ==
  LET r == poll[p]
      got == r.got \cup Tab(p, r.page)
  IN /\ Requesting(p, "tabs")
     /\ \/ /\ NoFault
           /\ IF r.page = 0 THEN Goto(p, [r EXCEPT !.got = got, !.page = 1])
              ELSE Answer(p, "ok", r.st, got, 1..posts[r.chan] \ got)
        \/ Errors(p, Export, r.st)
     /\ PlainFrame

\* smotrim: plots, then episodes, an error of either counting as no items ...
listViaGraphQL(p) ==
  LET r == poll[p]
      Then(S) == IF r.page = 0 THEN Goto(p, [r EXCEPT !.got = S, !.page = 1])
                 ELSE IF S # {} THEN Answer(p, "ok", Resolved(p), Newest(S, Limit), Scrolled(p))
                 ELSE Goto(p, [r EXCEPT !.page = 2])
  IN \/ NoFault /\ Then(r.got \cup Tab(p, r.page))
     \/ Fault("neterr") /\ Then(r.got)

\* ... and the brand page when both brought nothing.
listViaBrandPage(p) ==
  \/ /\ NoFault
     /\ IF Newcomers(p) = {} THEN Fails(p, "fail", Resolved(p))
        ELSE Answer(p, "ok", Resolved(p), Newcomers(p), Scrolled(p))
  \/ Errors(p, [neterr |-> "fail", layout |-> "layout"], Resolved(p))

FetchSmotrim(p) ==
  /\ Requesting(p, "smotrim")
  /\ IF poll[p].page < 2 THEN listViaGraphQL(p) ELSE listViaBrandPage(p)
  /\ PlainFrame

(***************************************************************************)
(* ok_group: the group page, a page of each of the first unseen posts, and *)
(* the list of seen posts                                                  *)
(***************************************************************************)
\* A group page must be there and be a group's; any answer about a post will do.
TopicPage == [neterr |-> "fail", limit |-> "defer"]
GroupPage == [neterr |-> TopicPage.neterr, limit |-> TopicPage.limit, layout |-> "layout"]

parseGroupPage(p) == Newcomers(p)

Seen(st) == {st.seen[i] : i \in 1..Len(st.seen)}
\* The posts S, the newest first, and the list cut to seenKeep.
Descending(S) == {s \in [1..Cardinality(S) -> S] : \A i, j \in 1..Cardinality(S) : i < j => s[i] > s[j]}
Kept(seen) == IF Len(seen) > SeenKeep THEN SubSeq(seen, 1, SeenKeep) ELSE seen

FetchOK(p) ==
  LET r == poll[p]
      new == IF r.page = 0 THEN parseGroupPage(p) \ Seen(r.st) ELSE r.got
      Remember(news) == IF new = {} THEN r.st ELSE [r.st EXCEPT !.doc = TRUE, !.seen = Kept(news \o @)]
  IN /\ Requesting(p, "ok")
     /\ \/ /\ NoFault
           /\ IF r.page < Cardinality(new) /\ r.page < MaxTopics THEN Goto(p, [r EXCEPT !.got = new, !.page = @ + 1])
              ELSE \E news \in Descending(new) :
                     Answer(p, "ok", Remember(news), new, 1..(Latest(new) - Limit))
        \/ Errors(p, IF r.page = 0 THEN GroupPage ELSE TopicPage, r.st)
     /\ PlainFrame

(***************************************************************************)
(* Pages and RSS documents                                                 *)
(***************************************************************************)
fetchDocument == [neterr |-> "fail"]

FetchPage(p) ==
  LET r == poll[p]
      v == posts[r.chan]
  IN /\ Requesting(p, "page")
     /\ \/ /\ NoFault
           /\ IF r.st.hash = v THEN Fails(p, "same", [r.st EXCEPT !.doc = TRUE])
              ELSE Answer(p, "ok", [r.st EXCEPT !.doc = TRUE, !.hash = v], {v}, 1..(v - 1))
        \/ Errors(p, fetchDocument, r.st)
     /\ PlainFrame

\* A source may send an ETag or none (the stored one is kept then); it answers
\* 304 to the ETag of the present document.  An unchanged body is not parsed.
FetchWith == [neterr |-> "fail", limit |-> "defer"]

FetchRSS(p) ==
  LET r == poll[p]
      v == posts[r.chan]
      Changed(e) == [r EXCEPT !.pc = "record", !.out = "ok", !.etag = e,
                       !.st = [@ EXCEPT !.doc = TRUE, !.hash = v],
                       !.got = Items(p, Newcomers(p)), !.miss = Items(p, Scrolled(p))]
  IN /\ Requesting(p, "rss")
     /\ \/ /\ NoFault
           /\ IF r.etag = v \/ r.st.hash = v THEN Fails(p, "same", r.st)
              ELSE \E e \in {v, r.etag} : Goto(p, Changed(e))
        \/ Errors(p, FetchWith, NoState)
     /\ PlainFrame

FetchSource(p) == \/ Telegram(p) \/ tryReserveSlot(p) \/ FetchMax(p) \/ FetchVK(p)
                  \/ FetchMaxstat(p) \/ FetchWall(p) \/ FetchDzenNews(p) \/ FetchRutube(p)
                  \/ FetchTabs(p) \/ FetchSmotrim(p)
                  \/ FetchOK(p) \/ FetchPage(p) \/ FetchRSS(p)

(***************************************************************************)
(* refreshLoaded: the outcome is recorded                                  *)
(***************************************************************************)
RecordFrame == UNCHANGED <<scene, posts, url, maxVars, limited, slotVars, proxyVars>>

Finish(p) == Goto(p, IdlePoll) /\ HostRelease(p)

Write(p, row) == db' = [db EXCEPT ![FeedOf[p]] = row]

\* The item set of last time: nothing to insert.
Unchanged(p) == poll[p].out = "same" \/ (poll[p].got # {} /\ poll[p].got = poll[p].items)

\* storeFetched and UpdateFeedRefreshMeta: entries, items_hash and state in one
\* transaction.  A failed transaction is a failed poll, and the failure is
\* recorded with the state the bridge returned.
RecordFetched(p) ==
  LET r == poll[p]
      row == db[FeedOf[p]]
  IN /\ r.pc = "record" /\ r.out = "ok" /\ ~Unchanged(p)
     /\ \/ /\ NoFault /\ row.row
           /\ Write(p, [row EXCEPT !.st = r.st, !.etag = r.etag, !.items = r.got,
                          !.stored = @ \cup r.got, !.left = @ \cup r.miss])
           /\ Finish(p)
        \/ /\ IF row.row THEN Fault("storefail") ELSE NoFault
           /\ Goto(p, [r EXCEPT !.out = "fail"])
           /\ UNCHANGED <<db, busy>>
     /\ RecordFrame

\* UpdateFeedRefreshMeta alone; its error is only logged.
RecordUnchanged(p) ==
  LET r == poll[p]
      row == db[FeedOf[p]]
  IN /\ r.pc = "record" /\ r.out \in {"ok", "same"} /\ Unchanged(p)
     /\ \/ /\ NoFault /\ row.row
           /\ Write(p, [row EXCEPT !.st = r.st, !.etag = r.etag, !.left = @ \cup r.miss])
        \/ (IF row.row THEN Fault("dbfail") ELSE NoFault) /\ UNCHANGED db
     /\ Finish(p)
     /\ RecordFrame

\* failPoll: RecordFeedPollFailure keeps bridge_state when there is no state.
RecordFailed(p) ==
  LET r == poll[p]
      row == db[FeedOf[p]]
  IN /\ r.pc = "record" /\ r.out = "fail"
     /\ \/ /\ NoFault /\ row.row
           /\ Write(p, IF r.st.doc THEN [row EXCEPT !.st = r.st] ELSE row)
        \/ (IF row.row THEN Fault("dbfail") ELSE NoFault) /\ UNCHANGED db
     /\ Finish(p)
     /\ RecordFrame

\* deferLayout writes an empty bridge_state; a deferral writes nothing.
RecordLayout(p) ==
  LET row == db[FeedOf[p]]
  IN /\ poll[p].pc = "record" /\ poll[p].out = "layout"
     /\ NoFault
     /\ Write(p, IF row.row THEN [row EXCEPT !.st = NoState] ELSE row)
     /\ Finish(p)
     /\ RecordFrame

Deferred(p) ==
  /\ poll[p].pc = "record" /\ poll[p].out = "defer"
  /\ NoFault
  /\ Finish(p)
  /\ UNCHANGED db /\ RecordFrame

Record(p) == RecordFetched(p) \/ RecordUnchanged(p) \/ RecordFailed(p) \/ RecordLayout(p) \/ Deferred(p)

(***************************************************************************)
(* Time and the environment                                                *)
(***************************************************************************)
IntervalEnds ==
  /\ maxNext /\ ~maxUntil
  /\ maxNext' = FALSE
  /\ NoFault
  /\ UNCHANGED <<scene, posts, url, db, poll, maxIn, maxUntil, banned, limited, busy, slotVars, proxyVars>>

\* globalUntil passes, and nextSlot with it.
CooldownEnds ==
  /\ maxUntil \/ banned
  /\ maxNext' = FALSE /\ maxUntil' = FALSE /\ banned' = FALSE
  /\ NoFault
  /\ UNCHANGED <<scene, posts, url, db, poll, maxIn, limited, busy, slotVars, proxyVars>>

Past(st) == [st EXCEPT !.limited = FALSE]

\* RateLimitedUntil passes, wherever it was kept.
LimitEnds ==
  /\ limited # {} \/ \E f \in Feeds : db[f].st.limited \/ \E p \in Pollers : poll[p].st.limited
  /\ limited' = {}
  /\ db' = [f \in Feeds |-> [db[f] EXCEPT !.st = Past(@)]]
  /\ poll' = [p \in Pollers |-> [poll[p] EXCEPT !.st = Past(@)]]
  /\ NoFault
  /\ UNCHANGED <<scene, posts, url, maxVars, busy, slotVars, proxyVars>>

\* EnsureFeedPollStateRows.
RowsReturn ==
  /\ \E f \in Feeds : ~db[f].row
  /\ db' = [f \in Feeds |-> [db[f] EXCEPT !.row = TRUE]]
  /\ NoFault
  /\ UNCHANGED <<scene, posts, url, poll, maxVars, limited, busy, slotVars, proxyVars>>

Timers == IntervalEnds \/ CooldownEnds \/ LimitEnds \/ RowsReturn

Publish(c) ==
  /\ c \in scene.channels /\ posts[c] < scene.posts
  /\ posts' = [posts EXCEPT ![c] = @ + 1]
  /\ NoFault
  /\ UNCHANGED <<scene, url, db, poll, maxVars, limited, busy, slotVars, proxyVars>>

\* UpdateFeed with another channel: items_hash is reset, bridge_state kept.
EditURL(f, c) ==
  /\ Fault("edit") /\ url[f] # c
  /\ url' = [url EXCEPT ![f] = c]
  /\ db' = [db EXCEPT ![f].items = {}]
  /\ UNCHANGED <<scene, posts, poll, maxVars, limited, busy, slotVars, proxyVars>>

\* UpdateConfig with another number of fetch slots.
ChangeSlots(n) ==
  /\ Kind = "telegram" /\ Fault("slots")
  /\ setLimit(n)
  /\ UNCHANGED <<scene, posts, url, db, poll, maxVars, limited, busy, proxyVars>>

\* The process ends and is started again.
Restart ==
  /\ Fault("restart")
  /\ poll' = [p \in Pollers |-> IdlePoll]
  /\ maxIn' = 0 /\ maxNext' = FALSE /\ maxUntil' = FALSE /\ banned' = FALSE
  /\ limited' = {} /\ busy' = 0
  /\ limit' = scene.slots /\ inFlight' = 0 /\ awake' = {} /\ asleep' = {} /\ inside' = {}
  /\ ended' = {} /\ ringing' = {}
  /\ cached' = "none" /\ socks' = "none" /\ streak' = 0
  /\ given' = [b \in Borrowers |-> "none"] /\ via' = [b \in Borrowers |-> "none"]
  /\ UNCHANGED <<scene, posts, url, db>>

\* PostgreSQL crashes and the UNLOGGED feed_poll_state is empty.
PostgresCrash ==
  /\ Fault("pgcrash")
  /\ db' = [f \in Feeds |-> [db[f] EXCEPT !.row = FALSE, !.st = NoState, !.etag = 0, !.items = {}]]
  /\ UNCHANGED <<scene, posts, url, poll, maxVars, limited, busy, slotVars, proxyVars>>

Poll(p) == FetchSource(p) \/ Record(p)
Work(p) == (p \in Workers /\ Begin(p)) \/ Poll(p)

Next == \/ \E p \in Pollers : Begin(p) \/ Poll(p)
        \/ Timers
        \/ \E c \in Channels : Publish(c)
        \/ \E f \in Feeds, c \in Channels : EditURL(f, c)
        \/ \E n \in 0..(SlotsMax + 1) : ChangeSlots(n)
        \/ Restart \/ PostgresCrash

Spec == Init /\ [][Next]_vars

\* Workers and requests run and timers fire.
Fairness == (\A p \in Pollers : WF_vars(Work(p))) /\ WF_vars(Timers)
FairSpec == Spec /\ Fairness

(***************************************************************************)
(* Properties                                                              *)
(***************************************************************************)
States == [doc : BOOLEAN, cursor : Nat, chan : Channels \cup {"none"}, seen : Seq(Nat),
           hash : Nat, limited : BOOLEAN]

\* The type of the tables, of the polls and of the limiters.
SourcesTypeOK ==
  /\ SlotsTypeOK /\ ProxyTypeOK
  /\ posts \in [Channels -> Nat] /\ url \in [Feeds -> Channels]
  /\ \A f \in Feeds : db[f].st \in States /\ Len(db[f].st.seen) <= SeenKeep
  /\ \A p \in Pollers : poll[p].st \in States
  /\ maxIn \in Nat /\ busy \in 0..HostLimit
  /\ limited \subseteq Channels /\ faults \in 0..scene.budget

\* The posts a state and an ETag tell the next poll of channel c to pass over.
PassedBy(c, st, etag) ==
  LET Document(v) == {c} \X Newest(1..v, Limit)
  IN CASE Kind = "telegram" -> {st.chan} \X (1..st.cursor)
       [] Kind \in {"max", "vk", "maxstat"} -> {c} \X (1..st.cursor)
       [] Kind = "ok" -> {c} \X Seen(st)
       [] Kind = "page" -> {c} \X ({st.hash} \ {0})
       [] Kind = "rss" -> Document(st.hash) \cup Document(etag)
       [] OTHER -> {}

Passed(f) == PassedBy(url[f], db[f].st, db[f].etag)

\* The bridges that keep a cursor, a hash or a list.
CursorKinds == {"telegram", "max", "vk", "maxstat", "ok", "page", "rss"}

\* The scenes in which a cursor can be trusted.  In the others a transaction
\* of storeFetched fails (of itself, or because feed_poll_state was lost under
\* the poll) and the advanced state is recorded with the failure; or an edited
\* URL carries a time cursor, a hash or a list over to another channel.
Cautious(s) ==
  s.kind \in CursorKinds => /\ {"storefail", "pgcrash"} \cap s.faults = {}
                            /\ s.kind # "telegram" => "edit" \notin s.faults

\* A cursor, a body hash, an ETag or a seen list never runs ahead of the
\* entries: what the state lets the next poll pass over is stored, or was never
\* visible to a poll, whatever manual refreshes, edits, crashes and failing
\* sources happen between the fetch and the write.
CursorCovered ==
  \A f \in Feeds : /\ Passed(f) \subseteq db[f].stored \cup db[f].left
                   /\ db[f].items \subseteq db[f].stored

\* The tables and the polls have their types, and no cursor runs ahead.
SourcesInv == SourcesTypeOK /\ CursorCovered

MaxLimit == INSTANCE SlotLimit WITH
  Users <- Pollers, MaxSize <- SlotsMax, size <- scene.slots,
  holders <- {p \in Pollers : Kind = "max" /\ poll[p].pc = "fetch"}

\* tryReserveSlot and releaseSlot, which only count, are a slot limiter for the
\* requests under way: no exit of a fetch leaves the count wrong.
MaxSlotsLimit == MaxLimit!LimitSpec

\* While the Max API's cooldown lasts no request starts, although requests that
\* were in flight when it said 429 come back later with good answers.
CooldownHeld == [][maxIn' > maxIn => ~banned]_vars

\* The Max API is asked within its slots and outside its cooldown.
MaxLimited == MaxSlotsLimit /\ CooldownHeld

\* No post gets lost for good: once the source and the database behave, every
\* post is stored or has scrolled out of the source's answer before a poll.
AllStored ==
  <>[](\/ ~scene.live
       \/ \A p \in Workers \cap scene.pollers : LET f == FeedOf[p] IN \A i \in 1..posts[url[f]] :
            <<url[f], i>> \in db[f].stored \cup db[f].left)

=============================================================================
