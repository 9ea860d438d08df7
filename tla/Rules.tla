------------------------------- MODULE Rules --------------------------------
(***************************************************************************)
(* A user's filters: their edits, the two lists of enabled filters that    *)
(* the worker's refresher and the one of the HTTP server cache for a few   *)
(* seconds, the compiled filters the process shares, and the polls and     *)
(* tests that use them.                                                    *)
(*                                                                         *)
(* A filter is known by the version of its parts.  The header row carries  *)
(* updated_at, its key; rules, scope and actions are tables of their own,  *)
(* read by statements of their own.  An edit writes all of them in one     *)
(* transaction.                                                            *)
(***************************************************************************)
EXTENDS Naturals, Sequences

CONSTANTS Filters,      \* a sequence: the filters of the user by order_id
          Polls,        \* polls at work; Proc gives the refresher of each
          Tests,        \* requests that try out a filter
          Reqs,         \* requests that write filters or labels
          Labels, Users, Me,
          Procs, Server, \* the refreshers; the one whose cache the handlers drop
          MaxVer,       \* edits per filter
          RowLimit,     \* the limit of ListEnabledFilters, in joined rows
          MaxRules,     \* rules per filter (engine and form agree on the bound)
          TTL,          \* enabledFilterCacheTTL, in ticks
          Faults,       \* statements that may fail
          Mixes,        \* what goes on together, one of them per behaviour
          Gone, Unused

Ids == {Filters[i] : i \in 1..Len(Filters)}
Acts == Labels \cup {"none", "webhook", "delete"}
Modes == {"full", "filtered", "relay"}

ASSUME RulesAssumption ==
  /\ {MaxVer, RowLimit, MaxRules, TTL, Faults} \subseteq Nat /\ MaxVer > 0 /\ TTL > 0
  /\ Me \in Users /\ Server \in Procs /\ {Gone, Unused} \cap (Users \cup Nat) = {}
  /\ Filters \in Seq(Ids) /\ \A i, j \in 1..Len(Filters) : Filters[i] = Filters[j] => i = j
  /\ Labels \cap {"none", "webhook", "delete"} = {}
  /\ \A m \in Mixes :
       /\ m.filters \subseteq Ids /\ m.params \subseteq [n : Nat, act : Acts, enabled : BOOLEAN] /\ m.labels \subseteq Labels
       /\ m.polls \subseteq Polls /\ m.procs \subseteq Procs /\ m.modes \subseteq Modes /\ m.wants \subseteq SUBSET Nat /\ m.tests \subseteq Tests

VARIABLES row,     \* row[f]: the filter's tables
          cache,   \* cache[p]: filterCache of a refresher
          comp,    \* comp[f]: the engine's compiled filter
          poll, test, req,
          label,   \* label[t]: its owner
          tags,    \* labels on the entry of the latest poll
          over,    \* ghost: the enabled filters once had more rows than the limit
          faults,
          mix      \* the filters, requests, rule counts, actions, modes and entries in play

vars == <<row, cache, comp, poll, test, req, label, tags, over, faults, mix>>
other == <<row, label, tags, over, mix>>

Versions == 0..MaxVer
NoRow == [key |-> 0, parts |-> 0, n |-> 0, act |-> "none", enabled |-> FALSE]
NoList == [age |-> TTL, view |-> {}, old |-> FALSE]  \* old, ghost: filters were written since
NoPoll == [at |-> "idle", proc |-> Server, mode |-> "full", view |-> {}, want |-> {},
           hit |-> FALSE, todo |-> {}, failed |-> FALSE, stale |-> FALSE]
NoTest == [at |-> "idle", f |-> Gone, key |-> 0, rules |-> 0, n |-> 0]

Exists(f) == row[f].key > 0
Live(f) == Exists(f) /\ row[f].enabled

\* Handlers only know the filters of the signed-in user.  Rows in the list
\* are joined with the rules: a filter without rules still takes one.
RowsOf(f) == IF row[f].n = 0 THEN 1 ELSE row[f].n
Before[i \in 0..Len(Filters)] ==
  IF i = 0 THEN 0 ELSE Before[i - 1] + (IF Live(Filters[i]) THEN RowsOf(Filters[i]) ELSE 0)
Pos(f) == CHOOSE i \in 1..Len(Filters) : Filters[i] = f
\* The limit cuts the list of rows: a filter may keep only some of its rules.
Listed(f) == Live(f) /\ Before[Pos(f) - 1] < RowLimit
Cut(f) == Before[Pos(f)] > RowLimit
Overfull == Before[Len(Filters)] > RowLimit

Init ==
  /\ row = [f \in Ids |-> NoRow] /\ cache = [p \in Procs |-> NoList]
  /\ comp = [f \in Ids |-> Gone]
  /\ poll = [a \in Polls |-> NoPoll] /\ test = [t \in Tests |-> NoTest] /\ req = [r \in Reqs |-> "idle"]
  /\ label = [t \in Labels |-> Unused] /\ tags = {} /\ over = FALSE /\ faults = 0
  /\ mix \in Mixes

-----------------------------------------------------------------------------
(* Writing filters and labels.                                             *)

\* ValidateRules refuses what the engine could not compile later.
ValidateRules(n) == n <= MaxRules

Write(r, f, new) ==
  /\ req[r] = "idle" /\ row' = [row EXCEPT ![f] = new] /\ req' = [req EXCEPT ![r] = "written"]
  /\ over' = (over \/ Overfull')
  /\ poll' = [a \in Polls |-> [poll[a] EXCEPT !.stale = poll[a].at # "idle"]]
  /\ cache' = [p \in Procs |-> [cache[p] EXCEPT !.old = cache[p].age < TTL]]
  /\ UNCHANGED <<comp, test, label, tags, faults, mix>>

CreateFilter(r, f, p) ==
  /\ ~Exists(f) /\ row[f].parts = 0 /\ ValidateRules(p.n)
  /\ Write(r, f, [key |-> 1, parts |-> 1, n |-> p.n, act |-> p.act, enabled |-> p.enabled])

\* UpdateFilter: the header with updated_at, then rules, scope and actions anew.
MutUpdateFilter(r, f, p) ==
  /\ Exists(f) /\ row[f].parts < MaxVer /\ ValidateRules(p.n)
  /\ Write(r, f, [key |-> row[f].key, parts |-> row[f].parts + 1, n |-> p.n, act |-> p.act, enabled |-> p.enabled])
UpdateFilter(r, f, p) ==
  /\ Exists(f) /\ row[f].parts < MaxVer /\ ValidateRules(p.n)
  /\ Write(r, f, [key |-> row[f].parts + 1, parts |-> row[f].parts + 1, n |-> p.n, act |-> p.act, enabled |-> p.enabled])

\* The row and, by ON DELETE CASCADE, its parts.  Its id is not used again.
DeleteFilter(r, f) == Exists(f) /\ Write(r, f, [NoRow EXCEPT !.parts = row[f].parts])

handleCreateFilter(r, f, p) == CreateFilter(r, f, p)
handleFilterCreate(r, f, p) == CreateFilter(r, f, p)
handleUpdateFilter(r, f, p) == UpdateFilter(r, f, p)
handleFilterUpdate(r, f, p) == UpdateFilter(r, f, p)
handleDeleteFilter(r, f) == DeleteFilter(r, f)
handleFilterDelete(r, f) == DeleteFilter(r, f)

\* The handlers hold the server's refresher; the worker's expires by itself.
InvalidateFilterCache(r) ==
  /\ req[r] = "written" /\ req' = [req EXCEPT ![r] = "idle"] /\ cache' = [cache EXCEPT ![Server] = NoList]
  /\ UNCHANGED <<comp, poll, test, faults, other>>

handleLabelCreate(t, u) ==
  /\ label[t] = Unused /\ label' = [label EXCEPT ![t] = u]
  /\ UNCHANGED <<row, cache, comp, poll, test, req, tags, over, faults, mix>>
handleLabelDelete(t) ==
  /\ label[t] \in Users /\ label' = [label EXCEPT ![t] = Gone] /\ tags' = tags \ {t}
  /\ UNCHANGED <<row, cache, comp, poll, test, req, over, faults, mix>>

-----------------------------------------------------------------------------
(* ttlCache and listEnabledFiltersCached.                                  *)

Older(c) == IF c.age + 1 < TTL THEN [c EXCEPT !.age = @ + 1] ELSE NoList
Tick ==
  /\ \E p \in Procs : cache[p].age < TTL
  /\ cache' = [p \in Procs |-> Older(cache[p])]
  /\ UNCHANGED <<comp, poll, test, req, faults, other>>

Fresh(p) == cache[p].age < TTL
\* put stamps the item, get leaves the stamp alone.
MutGet(p) == [cache EXCEPT ![p].age = IF @ < TTL THEN 0 ELSE @]
Get(p) == [cache EXCEPT ![p] = IF Fresh(p) THEN @ ELSE NoList]
Put(p, view, old) == [cache EXCEPT ![p] = [age |-> 0, view |-> view, old |-> old]]

Step(a, q) == poll' = [poll EXCEPT ![a] = q]

PollStart(a, p, mode, want) ==
  /\ poll[a].at = "idle" /\ tags = {}
  /\ Step(a, [NoPoll EXCEPT !.at = IF mode = "full" THEN "asked" ELSE "ask", !.proc = p, !.mode = mode, !.want = want])
  /\ UNCHANGED <<cache, comp, test, req, faults, other>>

\* "ask" precedes the store of a filtered or relay poll, "asked" follows the store.
After(at) == IF at \in {"ask", "read"} THEN "sift" ELSE "match"
Loading(at) == IF at = "ask" THEN "read" ELSE "reread"

\* A list is the set of its entries; it is gone through by order_id.  The
\* headers and rules come from one statement.
Heads == {[f |-> f, key |-> row[f].key, rules |-> row[f].parts, n |-> row[f].n, items |-> 0, act |-> "none", cut |-> Cut(f)] :
            f \in {g \in Ids : Listed(g)}}
First(e, S) == e \in S /\ \A x \in S : Pos(e.f) <= Pos(x.f)

listEnabledFiltersCached(a) ==
  LET q == poll[a] IN
  /\ q.at \in {"ask", "asked"}
  /\ IF Fresh(q.proc)
       THEN Step(a, [q EXCEPT !.at = After(q.at), !.todo = cache[q.proc].view,
                              !.stale = @ \/ cache[q.proc].old])
       ELSE Step(a, [q EXCEPT !.at = Loading(q.at), !.todo = Heads])
  /\ cache' = Get(q.proc)
  /\ UNCHANGED <<comp, test, req, faults, other>>

\* loadFilterScopeAndActions: two more statements per filter, here one step.
loadFilterScopeAndActions(a) ==
  LET q == poll[a] IN
  /\ q.at \in {"read", "reread"}
  /\ \E e \in q.todo :
       /\ First(e, q.todo)
       /\ Step(a, [q EXCEPT !.todo = @ \ {e},
                            !.view = @ \cup {[e EXCEPT !.items = row[e.f].parts, !.act = row[e.f].act]}])
  /\ UNCHANGED <<cache, comp, test, req, faults, other>>

ListLoaded(a) ==
  LET q == poll[a] IN
  /\ q.at \in {"read", "reread"} /\ q.todo = {}
  /\ cache' = Put(q.proc, q.view, q.stale)
  /\ Step(a, [q EXCEPT !.at = After(q.at), !.todo = q.view, !.view = {}])
  /\ UNCHANGED <<comp, test, req, faults, other>>

\* A failed list ends a filtered poll before the store; after the store the
\* poll goes on without filters.  Nothing is cached.
MutListFails(a) ==
  LET q == poll[a] IN
  /\ q.at \in {"read", "reread"} /\ faults < Faults /\ faults' = faults + 1
  /\ Step(a, IF q.at = "read" THEN NoPoll ELSE [q EXCEPT !.at = "match", !.view = {}, !.todo = {}, !.failed = TRUE])
  /\ cache' = Put(q.proc, {}, q.stale)
  /\ UNCHANGED <<comp, test, req, other>>
ListFails(a) ==
  LET q == poll[a] IN
  /\ q.at \in {"read", "reread"} /\ faults < Faults /\ faults' = faults + 1
  /\ Step(a, IF q.at = "read" THEN NoPoll ELSE [q EXCEPT !.at = "match", !.view = {}, !.todo = {}, !.failed = TRUE])
  /\ UNCHANGED <<cache, comp, test, req, other>>

-----------------------------------------------------------------------------
(* The engine: one compiled filter per id, found by its key.               *)

Compiled(e) == [key |-> e.key, rules |-> e.rules, items |-> e.items, cut |-> e.cut]
\* A filter without rules is not cached and never matches.
getCompiled(e) == IF e.n > 0 /\ comp[e.f] # Gone THEN (IF comp[e.f].key = e.key THEN comp[e.f] ELSE Compiled(e)) ELSE Compiled(e)
Remember(e) == comp' = IF e.n = 0 THEN comp ELSE [comp EXCEPT ![e.f] = getCompiled(e)]

\* Rules and scope of the entry the poll found: versions in want match it;
\* a filter that lost rules to the limit may match anything.
Verdicts(e, want) ==
  LET c == getCompiled(e) IN
  IF e.n = 0 THEN {FALSE} ELSE IF c.cut THEN BOOLEAN ELSE {{c.rules, c.items} \subseteq want}

\* processEntriesFiltered: the first filter that matches keeps the entry.
Sift(a) ==
  LET q == poll[a] IN
  /\ q.at = "sift"
  /\ \E e \in q.todo :
       /\ First(e, q.todo) /\ Remember(e)
       /\ \E hit \in Verdicts(e, q.want) :
            Step(a, IF hit THEN [q EXCEPT !.at = "store", !.todo = {}] ELSE [q EXCEPT !.todo = @ \ {e}])
  /\ UNCHANGED <<cache, test, req, faults, other>>

\* StoreFilteredPoll: a hash for an entry nobody wants.
StoreFilteredPoll(a) ==
  LET q == poll[a] IN
  /\ \/ q.at = "store" /\ Step(a, [q EXCEPT !.at = "asked"])
     \/ q.at = "sift" /\ q.todo = {} /\ Step(a, NoPoll)
  /\ UNCHANGED <<cache, comp, test, req, faults, other>>

\* A label that is gone or another user's is left out.
applyFilterAction(e) ==
  tags \cup ({e.act} \cap (({"webhook", "delete"} \cup {t \in Labels : label[t] = Me})))
\* A relay entry takes the webhook actions only.
applyFilterActions(e, mode) == IF mode = "relay" /\ e.act # "webhook" THEN tags ELSE applyFilterAction(e)

\* applySubscriberFilters: match, filter_matches, and the filter's actions.
applySubscriberFilters(a) ==
  LET q == poll[a] IN
  /\ q.at = "match"
  /\ \E e \in q.todo :
       /\ First(e, q.todo) /\ Remember(e)
       /\ \E hit \in Verdicts(e, q.want) :
            /\ Step(a, [q EXCEPT !.todo = @ \ {e}, !.hit = @ \/ hit])
            /\ tags' = IF hit THEN applyFilterActions(e, q.mode) ELSE tags
  /\ UNCHANGED <<row, cache, test, req, label, over, faults, mix>>

afterStore(a) ==
  /\ poll[a].at = "match" /\ poll[a].todo = {} /\ Step(a, [poll[a] EXCEPT !.at = "done"])
  /\ UNCHANGED <<cache, comp, test, req, faults, other>>

\* The entries of the poll are no longer looked at.
PollEnd(a) ==
  /\ poll[a].at = "done" /\ Step(a, NoPoll) /\ tags' = {}
  /\ UNCHANGED <<row, cache, comp, test, req, label, over, faults, mix>>

-----------------------------------------------------------------------------
(* Trying out a filter: GetFilter reads header, rules and scope in turn    *)
(* and compiles what it read.                                              *)

GetFilter(t, f) ==
  /\ test[t].at = "idle" /\ Exists(f) /\ test' = [test EXCEPT ![t] = [at |-> "header", f |-> f, key |-> row[f].key, rules |-> 0, n |-> 0]]
  /\ UNCHANGED <<cache, comp, poll, req, faults, other>>
getFilterRules(t) ==
  /\ test[t].at = "header" /\ test' = [test EXCEPT ![t].at = "rules", ![t].rules = row[test[t].f].parts, ![t].n = row[test[t].f].n]
  /\ UNCHANGED <<cache, comp, poll, req, faults, other>>
handleTestFilter(t) ==
  LET q == test[t]
      e == [f |-> q.f, key |-> q.key, rules |-> q.rules, n |-> q.n, items |-> row[q.f].parts, act |-> "none", cut |-> FALSE]
  IN /\ q.at = "rules" /\ Remember(e) /\ test' = [test EXCEPT ![t] = NoTest]
     /\ UNCHANGED <<cache, poll, req, faults, other>>

Next ==
  \/ Tick
  \/ \E r \in Reqs, f \in mix.filters :
       \/ \E p \in mix.params : \/ handleCreateFilter(r, f, p) \/ handleFilterCreate(r, f, p)
                                \/ handleUpdateFilter(r, f, p) \/ handleFilterUpdate(r, f, p)
       \/ handleDeleteFilter(r, f) \/ handleFilterDelete(r, f)
  \/ \E r \in Reqs : InvalidateFilterCache(r)
  \/ \E t \in mix.labels : handleLabelDelete(t) \/ \E u \in Users : handleLabelCreate(t, u)
  \/ \E a \in mix.polls :
       \/ \E p \in mix.procs, mode \in mix.modes, want \in mix.wants : PollStart(a, p, mode, want)
       \/ listEnabledFiltersCached(a) \/ loadFilterScopeAndActions(a) \/ ListLoaded(a) \/ ListFails(a)
       \/ Sift(a) \/ StoreFilteredPoll(a) \/ applySubscriberFilters(a) \/ afterStore(a) \/ PollEnd(a)
  \/ \E t \in mix.tests : getFilterRules(t) \/ handleTestFilter(t) \/ \E f \in mix.filters : GetFilter(t, f)

Spec == Init /\ [][Next]_vars
\* Time passes, and a poll that has begun goes on.
Fairness ==
  /\ WF_vars(Tick)
  /\ \A a \in Polls : WF_vars(listEnabledFiltersCached(a) \/ loadFilterScopeAndActions(a) \/ ListLoaded(a) \/ Sift(a)
                               \/ StoreFilteredPoll(a) \/ applySubscriberFilters(a) \/ afterStore(a) \/ PollEnd(a))
FairSpec == Spec /\ Fairness

-----------------------------------------------------------------------------
(* Properties                                                              *)

Entries == [f : Ids, key : Versions, rules : Versions, n : 0..MaxRules, items : Versions, act : Acts, cut : BOOLEAN]
PollStates == [at : {"idle", "ask", "read", "sift", "store", "asked", "reread", "match", "done"}, proc : Procs, mode : Modes,
               view : SUBSET Entries, want : SUBSET Nat, hit : BOOLEAN, todo : SUBSET Entries, failed : BOOLEAN, stale : BOOLEAN]

\* Every variable has its type.
TypeOK ==
  /\ row \in [Ids -> [key : Versions, parts : Versions, n : 0..MaxRules, act : Acts, enabled : BOOLEAN]]
  /\ cache \in [Procs -> [age : 0..TTL, view : SUBSET Entries, old : BOOLEAN]]
  /\ comp \in [Ids -> {Gone} \cup [key : Versions, rules : Versions, items : Versions, cut : BOOLEAN]]
  /\ poll \in [Polls -> PollStates]
  /\ test \in [Tests -> {NoTest} \cup [at : {"header", "rules"}, f : Ids, key : Versions, rules : Versions, n : 0..MaxRules]]
  /\ label \in [Labels -> Users \cup {Gone, Unused}] /\ faults \in 0..Faults

\* getCompiled finds a filter by id and updated_at: what it holds for the
\* present updated_at are the present rules and scope, although a list or a
\* test may read the header before an edit and the rest after it, and
\* although polls, tests and edits fill and evict the same map.  Only a
\* list that ran into its limit may leave a filter with part of its rules.
CompiledIsCurrent ==
  \A f \in Ids : Exists(f) /\ comp[f] # Gone =>
    (comp[f].key = row[f].key => comp[f].rules = row[f].parts /\ comp[f].items = row[f].parts /\ (comp[f].cut => over))

\* A filtered poll keeps an entry because a filter matched, and looks the
\* filters up again after the store: without an edit meanwhile, a stale list
\* or a failed or cut list of its own, a kept entry gets its filter's actions
\* (errors of other polls are never cached).
KeptEntryMatched ==
  \A a \in Polls : poll[a].at = "done" /\ poll[a].mode # "full" /\ ~poll[a].failed /\ ~poll[a].stale /\ ~over => poll[a].hit

\* applyFilterAction puts only labels of the filter's owner on an entry,
\* also when the label is deleted or reassigned while filters are cached.
LabelsOwn == \A t \in tags \cap Labels : label[t] = Me

\* A list that an edit, a new filter or a deletion has outdated is dropped:
\* enabledFilterCacheTTL counts from the load, and using the list does not
\* prolong it, however often the polls ask.
EditTakesEffect == \A p \in Procs : cache[p].old ~> ~cache[p].old

\* A matched entry gets the actions of its filter, with labels of its owner.
ActionsRight == TypeOK /\ KeptEntryMatched /\ LabelsOwn
=============================================================================
