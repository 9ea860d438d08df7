-------------------------------- MODULE Opml --------------------------------
(* OPML files: the export of a user's feeds, which reads categories, feeds    *)
(* and webhooks one after the other while others edit them, the walk over the *)
(* outlines of a file and the settings an import makes of them.  What the     *)
(* import then stores is modelled in Catalog.                                 *)
EXTENDS Integers, Sequences, FiniteSets
LOCAL INSTANCE SequencesExt

CONSTANTS
  Shelves,         \* what is exported: [cats, feeds, hooks, edits]; edits is a bound
  Files,           \* documents that came from elsewhere: sequences of outlines
  DefaultInterval, MinInterval, MaxInterval, MaxRetention,
  DetectType       \* reader.DetectFeedTypeFromURL: URL -> feed type

ASSUME OpmlAssumption == DefaultInterval \in MinInterval..MaxInterval /\ MaxRetention \in Nat

\* cats: id -> title; feeds: sequence of rows; hooks: id -> name; at: how far
\* the export is; got: what it has read; doc: the file; entries, params: what
\* the walk found and what the import makes of each entry; edits: how many
\* edits came between.
VARIABLES shelf, cats, feeds, hooks, at, got, doc, entries, params, edits
opmlVars == <<shelf, cats, feeds, hooks, at, got, doc, entries, params, edits>>

\* Texts are compared without case and surrounding space.
Flags == {"tls", "proxy", "crawler", "adaptive"}
Rules == {"agent", "scraper", "rewrite", "blocked", "keep"}
NoCat == 0
NoHookId == 0
\* A numeric attribute: absent, text that is no number, or a number.
Absent == [is |-> "absent", n |-> 0]
Junk == [is |-> "junk", n |-> 0]
Number(k) == [is |-> "number", n |-> k]
\* An outline: a feed's or a folder's attributes and its children; every
\* attribute that is absent is "".
Outline(title, text, type, url, kids) ==
  [title |-> title, text |-> text, type |-> type, url |-> url, kids |-> kids,
   feedType |-> "", interval |-> Absent, retention |-> Absent, hashOnly |-> "", storeMode |-> "", webhook |-> "",
   flags |-> [f \in Flags |-> ""], rules |-> [r \in Rules |-> ""]]

(* --------------------------------- the walk ------------------------------ *)

outlineTitle(o) == IF o.title # "" THEN o.title ELSE o.text
isRSSOutline(o) == o.type = "rss" \/ o.url.xml # ""
feedURLFromOutline(o) == IF o.url.xml # "" THEN o.url.xml ELSE o.url.plain

\* Zero is "not specified"; what does not parse is reported and left out.
settingsFromOutline(o) ==
  [feedType |-> o.feedType,
   interval |-> IF o.interval.n > 0 THEN o.interval.n ELSE 0,
   retention |-> IF o.retention.n > 0 THEN o.retention.n ELSE 0,
   flags |-> [f \in Flags |-> o.flags[f] = "true"],
   storeMode |-> IF o.storeMode \in {"full", "filtered", "relay"} THEN o.storeMode
                 ELSE IF o.hashOnly = "true" THEN "filtered" ELSE "",
   webhook |-> o.webhook,
   rules |-> o.rules]
settingsErrors(o) ==
  {a \in {"interval"} : o.interval # Absent /\ o.interval.n <= 0}
  \cup {a \in {"retention"} : o.retention = Junk \/ o.retention.n < 0}
  \cup {a \in {"hashOnly"} : o.hashOnly \notin {"", "true", "false"}}
  \cup {a \in {"storeMode"} : o.storeMode \notin {"", "full", "filtered", "relay"}}
  \cup {f \in Flags : o.flags[f] \notin {"", "true", "false"}}

EntryOf(o, category) ==
  [title |-> outlineTitle(o), url |-> feedURLFromOutline(o), category |-> category,
   settings |-> settingsFromOutline(o), errors |-> settingsErrors(o)]

RECURSIVE collectOutlineFeeds(_, _)
collectOutlineFeeds(o, category) ==
  IF isRSSOutline(o) THEN (IF feedURLFromOutline(o) = "" THEN << >> ELSE <<EntryOf(o, category)>>)
  ELSE FlattenSeq([i \in 1..Len(o.kids) |->
         collectOutlineFeeds(o.kids[i], IF outlineTitle(o) # "" THEN outlineTitle(o) ELSE category)])
CollectFeeds(d) == FlattenSeq([i \in 1..Len(d) |-> collectOutlineFeeds(d[i], "")])

(* -------------------------------- the import ----------------------------- *)

FeedTypes == {"rss", "telegram", "page", "inbound"}
Named(name) == {h \in DOMAIN got.hooks : got.hooks[h] = name}
importFeedParams(e) ==
  LET s == e.settings IN
  [title |-> e.title, url |-> e.url, category |-> e.category,
   feedType |-> IF s.feedType \in FeedTypes THEN s.feedType ELSE DetectType[e.url],
   interval |-> IF s.interval \in MinInterval..MaxInterval THEN s.interval ELSE DefaultInterval,
   retention |-> IF s.retention \in 0..MaxRetention THEN s.retention ELSE 0,
   flags |-> s.flags, rules |-> s.rules,
   storeMode |-> IF s.storeMode = "" THEN "full" ELSE s.storeMode,
   hook |-> IF s.webhook # "" /\ Cardinality(Named(s.webhook)) = 1
            THEN CHOOSE h \in Named(s.webhook) : TRUE ELSE NoHookId]

(* -------------------------------- the export ----------------------------- *)

\* writeSettingsAttrs: only what differs from the default is written.
writeSettingsAttrs(o, f, hook) ==
  [o EXCEPT !.feedType = IF f.feedType = "rss" THEN "" ELSE f.feedType,
            !.interval = IF f.interval > 0 THEN Number(f.interval) ELSE Absent,
            !.retention = IF f.retention > 0 THEN Number(f.retention) ELSE Absent,
            !.storeMode = IF f.storeMode = "full" THEN "" ELSE f.storeMode,
            !.webhook = hook,
            !.flags = [x \in Flags |-> IF f.flags[x] THEN "true" ELSE ""],
            !.rules = f.rules]
writeFeedOutline(f, hook) ==
  LET title == IF f.title = "" THEN f.url ELSE f.title
  IN writeSettingsAttrs(Outline(title, title, "rss", [xml |-> f.url, plain |-> ""], << >>), f, hook)

\* Folders of the categories that have feeds, then the feeds of categories
\* the export did not read, then those without one.
MutGenerate(cs, fs) ==
  LET outlines(c) == LET mine == SelectSeq(fs, LAMBDA f : f.category = c) IN [i \in 1..Len(mine) |-> mine[i].outline]
      used == SetToSortSeq({c \in DOMAIN cs : \E i \in 1..Len(fs) : fs[i].category = c}, <)
  IN [i \in 1..Len(used) |-> Outline(cs[used[i]], cs[used[i]], "", [xml |-> "", plain |-> ""], outlines(used[i]))] \o outlines(NoCat)
Generate(cs, fs) ==
  LET outlines(c) == LET mine == SelectSeq(fs, LAMBDA f : f.category = c) IN [i \in 1..Len(mine) |-> mine[i].outline]
      used == SetToSortSeq({c \in DOMAIN cs : \E i \in 1..Len(fs) : fs[i].category = c}, <)
      lost == SetToSortSeq({fs[i].category : i \in 1..Len(fs)} \ (DOMAIN cs \cup {NoCat}), <)
  IN [i \in 1..Len(used) |-> Outline(cs[used[i]], cs[used[i]], "", [xml |-> "", plain |-> ""], outlines(used[i]))]
     \o FlattenSeq([i \in 1..Len(lost) |-> outlines(lost[i])]) \o outlines(NoCat)

(* --------------------------------- actions ------------------------------- *)

Unread == [cats |-> << >>, feeds |-> << >>, hooks |-> << >>]
OpmlInit ==
  /\ shelf \in Shelves /\ cats = shelf.cats /\ feeds = shelf.feeds /\ hooks = shelf.hooks
  /\ at = "idle" /\ got = Unread /\ doc = << >> /\ entries = << >> /\ params = << >> /\ edits = 0
Rest == UNCHANGED <<shelf, cats, feeds, hooks, edits>>

\* exportOPMLForUser, read by read.
ListCategories == at = "idle" /\ at' = "cats" /\ got' = [got EXCEPT !.cats = cats] /\ Rest /\ UNCHANGED <<doc, entries, params>>
ListFeeds == at = "cats" /\ at' = "feeds" /\ got' = [got EXCEPT !.feeds = feeds] /\ Rest /\ UNCHANGED <<doc, entries, params>>
ListWebhooks(ok) ==
  /\ at = "feeds" /\ at' = "hooks" /\ got' = [got EXCEPT !.hooks = IF ok THEN hooks ELSE << >>]
  /\ Rest /\ UNCHANGED <<doc, entries, params>>
NameOf(h) == IF h \in DOMAIN got.hooks THEN got.hooks[h] ELSE ""
exportOPMLForUser ==
  /\ at = "hooks" /\ at' = "file"
  /\ LET sent == SelectSeq(got.feeds, LAMBDA f : f.feedType # "inbound")
     IN doc' = Generate(got.cats, [i \in 1..Len(sent) |->
                 [category |-> sent[i].category, outline |-> writeFeedOutline(sent[i], NameOf(sent[i].hook))]])
  /\ Rest /\ UNCHANGED <<got, entries, params>>
\* A file from elsewhere.
Receive(d) == at = "idle" /\ d # << >> /\ at' = "file" /\ doc' = d /\ got' = [got EXCEPT !.hooks = hooks] /\ Rest /\ UNCHANGED <<entries, params>>
ImportFile ==
  /\ at = "file" /\ at' = "imported"
  /\ entries' = CollectFeeds(doc)
  /\ params' = [i \in 1..Len(CollectFeeds(doc)) |-> importFeedParams(CollectFeeds(doc)[i])]
  /\ Rest /\ UNCHANGED <<got, doc>>

\* Others edit meanwhile: a feed moves to a category that is new or old, a
\* category or a webhook goes.
Editing == at \in {"idle", "cats", "feeds", "hooks"} /\ edits < shelf.edits /\ edits' = edits + 1
MoveFeed(i, c) ==
  /\ Editing /\ i \in 1..Len(feeds) /\ feeds[i].category # c
  /\ cats' = IF c \in DOMAIN cats THEN cats ELSE [x \in DOMAIN cats \cup {c} |-> IF x = c THEN "new" ELSE cats[x]]
  /\ feeds' = [feeds EXCEPT ![i].category = c]
  /\ UNCHANGED <<shelf, hooks, at, got, doc, entries, params>>
DeleteCategory(c) ==
  /\ Editing /\ c \in DOMAIN cats /\ cats' = [x \in DOMAIN cats \ {c} |-> cats[x]]
  /\ feeds' = [i \in 1..Len(feeds) |-> IF feeds[i].category = c THEN [feeds[i] EXCEPT !.category = NoCat] ELSE feeds[i]]
  /\ UNCHANGED <<shelf, hooks, at, got, doc, entries, params>>
DeleteHook(h) ==
  /\ Editing /\ h \in DOMAIN hooks /\ hooks' = [x \in DOMAIN hooks \ {h} |-> hooks[x]]
  /\ feeds' = [i \in 1..Len(feeds) |-> IF feeds[i].hook = h THEN [feeds[i] EXCEPT !.hook = NoHookId] ELSE feeds[i]]
  /\ UNCHANGED <<shelf, cats, at, got, doc, entries, params>>

OpmlNext ==
  \/ ListCategories \/ ListFeeds \/ (\E ok \in BOOLEAN : ListWebhooks(ok)) \/ exportOPMLForUser
  \/ \E d \in Files : Receive(d)
  \/ ImportFile
  \/ \E i \in 1..Len(feeds), c \in {1, 2, 3} : MoveFeed(i, c)
  \/ \E c \in {1, 2} : DeleteCategory(c)
  \/ \E h \in {1, 2} : DeleteHook(h)

(* ------------------------------- properties ------------------------------ *)

OpmlTypeOK ==
  /\ shelf \in Shelves /\ at \in {"idle", "cats", "feeds", "hooks", "file", "imported"}
  /\ NoCat \notin DOMAIN cats /\ Len(feeds) = Len(shelf.feeds) /\ Len(params) = Len(entries)

\* The settings an import makes of an exported feed.
Restored(f) ==
  [title |-> IF f.title = "" THEN f.url ELSE f.title, url |-> f.url,
   category |-> IF f.category \in DOMAIN got.cats THEN got.cats[f.category] ELSE "",
   feedType |-> IF f.feedType = "rss" THEN DetectType[f.url] ELSE f.feedType,
   interval |-> IF f.interval \in MinInterval..MaxInterval THEN f.interval ELSE DefaultInterval,
   retention |-> f.retention, flags |-> f.flags, rules |-> f.rules, storeMode |-> f.storeMode,
   hook |-> IF NameOf(f.hook) # "" /\ Cardinality(Named(NameOf(f.hook))) = 1 THEN f.hook ELSE NoHookId]

\* "Exported files ... rssam restores per-feed settings from them on import":
\* every feed that was read comes back once, with its settings, whatever was
\* edited between the reads; a category that was not read is left out, a
\* blank title is the address, and a webhook's name must be there and unique.
\* (A feed of type rss whose address looks like another type's becomes one.)
RoundTrip ==
  (at = "imported" /\ got.feeds # << >>) =>
    LET mine == {i \in 1..Len(got.feeds) : got.feeds[i].feedType # "inbound"} IN
    /\ Len(params) = Cardinality(mine)
    /\ {params[k] : k \in 1..Len(params)} = {Restored(got.feeds[i]) : i \in mine}

\* Reference definitions: outlines by the path that leads to them.
RECURSIVE Paths(_)
Paths(os) == UNION {{<<i>>} \cup {<<i>> \o p : p \in Paths(os[i].kids)} : i \in 1..Len(os)}
RECURSIVE NodeAt(_, _)
NodeAt(os, p) == IF Len(p) = 1 THEN os[p[1]] ELSE NodeAt(os[p[1]].kids, Tail(p))
Above(os, p) == [k \in 1..Len(p) - 1 |-> NodeAt(os, SubSeq(p, 1, k))]
FeedPath(os, p) ==
  /\ isRSSOutline(NodeAt(os, p)) /\ feedURLFromOutline(NodeAt(os, p)) # ""
  /\ \A k \in 1..Len(p) - 1 : ~isRSSOutline(Above(os, p)[k])
NearestTitle(os, p) ==
  LET titled == {k \in 1..Len(p) - 1 : outlineTitle(Above(os, p)[k]) # ""}
  IN IF titled = {} THEN "" ELSE outlineTitle(Above(os, p)[CHOOSE k \in titled : \A j \in titled : j <= k])
\* q comes after p in the document (one is never a prefix of the other here).
Before(p, q) == \E k \in 1..Len(p) : k <= Len(q) /\ SubSeq(p, 1, k - 1) = SubSeq(q, 1, k - 1) /\ p[k] < q[k]

\* The walk against its meaning: the feeds of a file are the outlines with an
\* address that no other feed outline encloses, in document order, each in
\* the nearest folder above it that has a title.
NearestFolder ==
  at = "imported" =>
    LET order == SetToSortSeq({p \in Paths(doc) : FeedPath(doc, p)}, Before) IN
    /\ Len(entries) = Len(order)
    /\ \A i \in 1..Len(order) :
         /\ entries[i].url = feedURLFromOutline(NodeAt(doc, order[i]))
         /\ entries[i].category = NearestTitle(doc, order[i])

\* Files mean what they say, this program's and others'.
FilesSound == OpmlTypeOK /\ RoundTrip /\ NearestFolder
=============================================================================
