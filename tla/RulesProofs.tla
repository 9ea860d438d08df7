---------------------------- MODULE RulesProofs ----------------------------
(***************************************************************************)
(* Proofs about Rules, for any filters, polls, tests, labels and limits:   *)
(* the compiled filter of the present updated_at has the present rules and *)
(* scope, and an entry that a filtered poll keeps gets its filter's        *)
(* actions, with labels of the filter's owner only.                        *)
(***************************************************************************)
EXTENDS Rules, WellFoundedInduction, SequenceTheorems, TLAPS

\* The header carries the version of its parts.
Headed == \A f \in Ids : Exists(f) => row[f].key = row[f].parts

\* What was read of a filter: the rules not before the header, nothing newer
\* than the row; and its scope and actions if they have been read too.
ReadOK(e) == 0 < e.key /\ e.key <= e.rules /\ e.rules <= row[e.f].parts /\ (e.cut => over)
LoadedOK(e) == ReadOK(e) /\ e.key <= e.items /\ e.items <= row[e.f].parts

InStep(f, c) ==
  /\ c.key <= c.rules /\ c.rules <= row[f].parts
  /\ c.key <= c.items /\ c.items <= row[f].parts
  /\ c.cut => over
CompOK(f, c) == c # Gone => InStep(f, c)
TestOK(q) ==
  /\ q.at # "idle" => 0 < q.key /\ q.key <= row[q.f].parts
  /\ q.at = "rules" => q.key <= q.rules /\ q.rules <= row[q.f].parts

\* A list that no write has outdated has the filters as they are, all of them.
Current(e) == Live(e.f) /\ e.key = row[e.f].key /\ e.n = row[e.f].n
AllOf(S) == \A f \in Ids : Live(f) => \E e \in S : e.f = f
Wanted(f, want) == Live(f) /\ row[f].n > 0 /\ row[f].parts \in want

Reading(q) == q.at \in {"read", "reread"}
CacheTrue(c) == c.age < TTL /\ ~c.old => AllOf(c.view) /\ \A e \in c.view : Current(e)
\* What a poll that no write has outdated knows: the list it reads or sifts;
\* before the second list, that a filter wants the entry; and until the
\* match, that such a filter is still to come.
PollTrue(q) ==
  ~q.stale =>
    /\ Reading(q) => AllOf(q.view \cup q.todo)
    /\ Reading(q) \/ q.at = "sift" => \A e \in q.view \cup q.todo : Current(e)
    /\ q.at \in {"store", "asked", "reread"} /\ q.mode # "full" => \E f \in Ids : Wanted(f, q.want)
    /\ q.at = "match" /\ q.mode # "full" /\ ~q.failed =>
         q.hit \/ \E e \in q.todo : Current(e) /\ Wanted(e.f, q.want)
    /\ q.at = "done" /\ q.mode # "full" /\ ~q.failed => q.hit

CacheOK(c) == (\A e \in c.view : LoadedOK(e)) /\ (~over => CacheTrue(c))
PollOK(q) ==
  /\ \A e \in q.view : LoadedOK(e)
  /\ \A e \in q.todo : ReadOK(e) /\ (~Reading(q) => LoadedOK(e))
  /\ ~Reading(q) => q.view = {}
  /\ ~over => PollTrue(q)

RInv ==
  /\ TypeOK /\ mix \in Mixes /\ Headed /\ LabelsOwn
  /\ over \in BOOLEAN /\ (Overfull => over)
  /\ \A p \in Procs : CacheOK(cache[p])
  /\ \A a \in Polls : PollOK(poll[a])
  /\ \A f \in Ids : CompOK(f, comp[f])
  /\ \A t \in Tests : TestOK(test[t])

(***************************************************************************)
(* The rows before a filter.  Induction over the natural numbers as sets:  *)
(* a set that has 0 and every successor is all of them.                    *)
(***************************************************************************)
LEMMA LeastNat ==
  ASSUME NEW T, T \subseteq Nat, T # {}
  PROVE  \E n \in T : \A m \in T : n <= m
<1>1. PICK n \in T : \A m \in T : ~(<<m, n>> \in OpToRel(<, Nat))
  BY NatLessThanWellFounded, WFMin, Zenon
<1>2. \A m \in T : m \in Nat /\ n \in Nat /\ ~(m < n)
  BY <1>1 DEF OpToRel
<1> QED BY <1>2

LEMMA SetInduction ==
  ASSUME NEW P \in SUBSET Nat, 0 \in P, \A n \in P : n + 1 \in P
  PROVE  P = Nat
<1>1. SUFFICES ASSUME Nat \ P # {} PROVE FALSE
  OBVIOUS
<1>2. PICK n \in Nat \ P : \A m \in Nat \ P : n <= m
  BY <1>1, LeastNat
<1>3. n # 0 /\ n - 1 \in Nat /\ n - 1 \in P
  BY <1>2
<1> QED BY <1>2, <1>3

\* The partial sums of a sequence of numbers exist.
Sums(S, w, N) == S \in [0..N -> Nat] /\ S[0] = 0 /\ \A i \in 1..N : S[i] = S[i - 1] + w[i]
Summed(N) == \A w \in [1..N -> Nat] : \E S : Sums(S, w, N)

LEMMA SumsExist == \A N \in Nat : Summed(N)
<1> DEFINE P == {N \in Nat : Summed(N)}
<1>1. 0 \in P
  <2>1. \A w : Sums([i \in 0..0 |-> 0], w, 0)
    BY DEF Sums
  <2> QED BY <2>1 DEF Summed
<1>2. ASSUME NEW N \in P PROVE N + 1 \in P
  <2>1. SUFFICES ASSUME NEW w \in [1..(N + 1) -> Nat] PROVE \E S : Sums(S, w, N + 1)
    BY DEF Summed
  <2> DEFINE v == [i \in 1..N |-> w[i]]
  <2>2. N \in Nat /\ v \in [1..N -> Nat] /\ \A i \in 1..N : v[i] = w[i]
    OBVIOUS
  <2>3. PICK T : Sums(T, v, N)
    BY <2>2 DEF Summed
  <2> DEFINE S == [i \in 0..(N + 1) |-> IF i = N + 1 THEN T[N] + w[N + 1] ELSE T[i]]
  <2>4. \A i \in 0..N : S[i] = T[i] /\ T[i] \in Nat
    BY <2>2, <2>3 DEF Sums
  <2>5. S[N + 1] = T[N] + w[N + 1] /\ w[N + 1] \in Nat /\ T[N] \in Nat
    BY <2>2, <2>4
  <2>6. S = [i \in 0..(N + 1) |-> S[i]]
    OBVIOUS
  <2> HIDE DEF S
  <2>7. \A i \in 0..(N + 1) : i \in 0..N \/ i = N + 1
    BY <2>2
  <2>8. \A i \in 0..(N + 1) : S[i] \in Nat
    BY <2>4, <2>5, <2>7, <2>2
  <2>9. S \in [0..(N + 1) -> Nat]
    BY <2>6, <2>8
  <2>10. ASSUME NEW i \in 1..(N + 1) PROVE S[i] = S[i - 1] + w[i]
    <3>1. CASE i \in 1..N
      <4>1. i \in 0..N /\ i - 1 \in 0..N
        BY <2>2, <3>1
      <4> QED BY <3>1, <4>1, <2>2, <2>3, <2>4 DEF Sums
    <3>2. CASE i = N + 1
      <4>1. i - 1 = N /\ N \in 0..N
        BY <2>2, <3>2
      <4> QED BY <4>1, <3>2, <2>4, <2>5
    <3>3. i \in 1..N \/ i = N + 1
      BY <2>2
    <3> QED BY <3>1, <3>2, <3>3
  <2>11. 0 \in 0..N /\ S[0] = 0
    BY <2>2, <2>3, <2>4 DEF Sums
  <2>12. Sums(S, w, N + 1)
    BY <2>9, <2>10, <2>11 DEF Sums
  <2> QED BY <2>12
<1>3. P = Nat
  <2> HIDE DEF P
  <2> QED BY <1>1, <1>2, SetInduction DEF P
<1> QED BY <1>3

Weight(i) == IF Live(Filters[i]) THEN RowsOf(Filters[i]) ELSE 0

LEMMA FilterIds ==
  /\ Len(Filters) \in Nat /\ \A i \in 1..Len(Filters) : Filters[i] \in Ids
  /\ \A f \in Ids : Pos(f) \in 1..Len(Filters) /\ Filters[Pos(f)] = f
<1>1. Len(Filters) \in Nat
  BY RulesAssumption, LenProperties
<1>2. \A f \in Ids : \E i \in 1..Len(Filters) : Filters[i] = f
  BY DEF Ids
<1> QED BY <1>1, <1>2, Zenon DEF Ids, Pos

LEMMA WeightType == ASSUME TypeOK, NEW i \in 1..Len(Filters) PROVE Weight(i) \in Nat
<1>1. Filters[i] \in Ids /\ MaxRules \in Nat
  BY FilterIds, RulesAssumption
<1>2. row[Filters[i]].n \in 0..MaxRules
  BY <1>1 DEF TypeOK
<1> QED BY <1>1, <1>2 DEF Weight, RowsOf

LEMMA BeforeSums ==
  ASSUME TypeOK
  PROVE  /\ \A i \in 0..Len(Filters) : Before[i] \in Nat
         /\ Before[0] = 0
         /\ \A i \in 1..Len(Filters) : Before[i] = Before[i - 1] + Weight(i)
<1> DEFINE N == Len(Filters)
           w == [i \in 1..N |-> Weight(i)]
           Def(g) == [i \in 0..N |-> IF i = 0 THEN 0 ELSE g[i - 1] + (IF Live(Filters[i]) THEN RowsOf(Filters[i]) ELSE 0)]
<1>1. N \in Nat /\ w \in [1..N -> Nat]
  BY FilterIds, WeightType
<1>2. PICK S : Sums(S, w, N)
  BY <1>1, SumsExist DEF Summed
<1>3. S = Def(S)
  <2>1. ASSUME NEW i \in 0..N PROVE S[i] = Def(S)[i]
    <3>1. CASE i = 0
      BY <1>2, <3>1 DEF Sums
    <3>2. CASE i # 0
      <4>1. i \in 1..N /\ w[i] = Weight(i)
        BY <1>1, <3>2
      <4> QED BY <1>2, <4>1, <3>2 DEF Sums, Weight
    <3> QED BY <3>1, <3>2
  <2>2. DOMAIN S = 0..N /\ S = [i \in 0..N |-> S[i]]
    BY <1>2 DEF Sums
  <2> QED BY <2>1, <2>2
<1>4. Before = CHOOSE g : g = Def(g)
  BY DEF Before
<1>5. Before = Def(Before)
  BY <1>3, <1>4, Zenon
<1> HIDE DEF w
<1>6. ASSUME NEW i \in 1..N PROVE Before[i] = Before[i - 1] + Weight(i)
  <2>1. i \in 0..N /\ i # 0
    BY <1>1
  <2>2. Def(Before)[i] = Before[i - 1] + Weight(i)
    BY <2>1 DEF Weight
  <2> QED BY <1>5, <2>2
<1>7. Before[0] = 0
  <2>1. 0 \in 0..N
    BY <1>1
  <2>2. Def(Before)[0] = 0
    BY <2>1
  <2> QED BY <1>5, <2>2
<1> HIDE DEF N
<1> DEFINE P == {k \in Nat : k \in 0..N => Before[k] \in Nat}
<1>8. P = Nat
  <2>1. 0 \in P
    BY <1>7
  <2>2. ASSUME NEW k \in P PROVE k + 1 \in P
    <3>1. SUFFICES ASSUME k + 1 \in 0..N PROVE Before[k + 1] \in Nat
      OBVIOUS
    <3>2. k \in Nat /\ k \in 0..N /\ k + 1 \in 1..N /\ (k + 1) - 1 = k
      BY <1>1, <3>1
    <3>3. Before[k] \in Nat /\ Weight(k + 1) \in Nat
      BY <3>2, WeightType DEF N
    <3>4. Before[k + 1] = Before[k] + Weight(k + 1)
      BY <1>6, <3>2
    <3> QED BY <3>3, <3>4
  <2> HIDE DEF P
  <2>3. P \in SUBSET Nat
    BY DEF P
  <2> QED BY <2>1, <2>2, <2>3, SetInduction
<1>9. \A i \in 0..N : Before[i] \in Nat
  BY <1>1, <1>8
<1> QED BY <1>6, <1>7, <1>9 DEF N

\* The further down the list, the more rows come before.
LEMMA BeforeGrows ==
  ASSUME TypeOK, NEW i \in 0..Len(Filters), NEW j \in i..Len(Filters)
  PROVE  Before[i] <= Before[j]
<1> DEFINE N == Len(Filters)
           P == {k \in Nat : i + k \in 0..N => Before[i] <= Before[i + k]}
<1>0. N \in Nat /\ i \in Nat /\ j \in Nat /\ j - i \in Nat /\ i + (j - i) = j /\ j \in 0..N
  BY FilterIds
<1> HIDE DEF N
<1>b. \A k \in 0..N : Before[k] \in Nat
  BY BeforeSums DEF N
<1>1. 0 \in P
  BY <1>0, <1>b DEF N
<1>2. ASSUME NEW k \in P PROVE k + 1 \in P
  <2>1. SUFFICES ASSUME i + (k + 1) \in 0..N PROVE Before[i] <= Before[i + (k + 1)]
    OBVIOUS
  <2>2. k \in Nat /\ i + k \in 0..N /\ i + (k + 1) \in 1..N /\ (i + (k + 1)) - 1 = i + k
    BY <1>0, <2>1
  <2>3. Before[i] <= Before[i + k]
    BY <2>2
  <2>4. Before[i + (k + 1)] = Before[i + k] + Weight(i + (k + 1)) /\ Weight(i + (k + 1)) \in Nat
    BY <2>2, BeforeSums, WeightType DEF N
  <2>5. Before[i] \in Nat /\ Before[i + k] \in Nat
    BY <1>b, <2>2 DEF N
  <2> QED BY <2>3, <2>4, <2>5
<1>3. P = Nat
  <2> HIDE DEF P
  <2>3. P \in SUBSET Nat
    BY DEF P
  <2> QED BY <1>1, <1>2, <2>3, SetInduction
<1> QED BY <1>0, <1>3

\* A list within the limit is neither cut nor short of an enabled filter.
LEMMA WholeList ==
  ASSUME TypeOK, NEW f \in Ids
  PROVE  /\ Cut(f) => Overfull
         /\ Live(f) /\ ~Overfull => Listed(f)
<1> DEFINE N == Len(Filters)
           i == Pos(f)
<1>1. N \in Nat /\ i \in 1..N /\ i \in 0..N /\ i - 1 \in 0..N /\ Filters[i] = f /\ N \in 0..N /\ N \in i..N
  BY FilterIds
<1>2. Before[i] <= Before[N]
  BY <1>1, BeforeGrows
<1>3. Before[i] = Before[i - 1] + Weight(i) /\ Before[i] \in Nat /\ Before[i - 1] \in Nat /\ Before[N] \in Nat
  BY <1>1, BeforeSums
<1>4. Live(f) => Weight(i) \in Nat /\ Weight(i) > 0
  BY <1>1, RulesAssumption DEF Weight, RowsOf, TypeOK
<1>5. RowLimit \in Nat
  BY RulesAssumption
<1> HIDE DEF N, i
<1>6. Cut(f) => Overfull
  BY <1>2, <1>3, <1>5 DEF Cut, Overfull, N, i
<1>7. ASSUME Live(f), ~Overfull PROVE Listed(f)
  <2>1. Before[N] <= RowLimit
    BY <1>3, <1>5, <1>7 DEF Overfull, N
  <2>2. Before[i - 1] < RowLimit
    BY <2>1, <1>2, <1>3, <1>4, <1>5, <1>7
  <2> QED BY <2>2, <1>7 DEF Listed, i
<1> QED BY <1>6, <1>7

\* Without filters the list is empty.
LEMMA EmptyList ==
  ASSUME TypeOK, \A f \in Ids : ~Live(f)
  PROVE  ~Overfull
<1> DEFINE N == Len(Filters)
           P == {k \in Nat : k \in 0..N => Before[k] = 0}
<1>0. N \in Nat
  BY FilterIds
<1>1. 0 \in P
  BY BeforeSums
<1>2. ASSUME NEW k \in P PROVE k + 1 \in P
  <2>1. SUFFICES ASSUME k + 1 \in 0..N PROVE Before[k + 1] = 0
    OBVIOUS
  <2>2. k \in Nat /\ k \in 0..N /\ k + 1 \in 1..N /\ (k + 1) - 1 = k
    BY <1>0, <2>1
  <2>3. Before[k] = 0 /\ Weight(k + 1) = 0
    BY <2>2, FilterIds DEF Weight
  <2>4. Before[k + 1] = Before[k] + Weight(k + 1)
    BY <2>2, BeforeSums
  <2> QED BY <2>3, <2>4
<1>3. P = Nat
  <2> HIDE DEF P
  <2>3. P \in SUBSET Nat
    BY DEF P
  <2> QED BY <1>1, <1>2, <2>3, SetInduction
<1> QED BY <1>0, <1>3, RulesAssumption DEF Overfull


LEMMA SameRows == ASSUME row' = row PROVE Overfull' = Overfull
<1>1. Before' = Before
  BY Zenon DEF Before, Live, Exists, RowsOf
<1> QED BY <1>1 DEF Overfull

(***************************************************************************)
(* The engine's map.                                                       *)
(***************************************************************************)
Comps == [key : Versions, rules : Versions, items : Versions, cut : BOOLEAN]

\* What getCompiled returns has the key asked for, and lies between it and
\* the present version.
LEMMA CompiledOK ==
  ASSUME RInv, NEW e \in Entries, LoadedOK(e)
  PROVE  getCompiled(e) \in Comps /\ getCompiled(e).key = e.key /\ InStep(e.f, getCompiled(e))
<1>1. e.f \in Ids /\ comp[e.f] \in {Gone} \cup Comps /\ CompOK(e.f, comp[e.f])
  BY DEF RInv, TypeOK, Entries, Comps
<1>2. Compiled(e) \in Comps /\ Compiled(e).key = e.key /\ InStep(e.f, Compiled(e))
  BY DEF Compiled, Comps, Entries, LoadedOK, ReadOK, InStep
<1>3. getCompiled(e) = Compiled(e) \/ (getCompiled(e) = comp[e.f] /\ comp[e.f] # Gone /\ comp[e.f].key = e.key)
  BY DEF getCompiled
<1> QED BY <1>1, <1>2, <1>3 DEF CompOK

LEMMA RememberKeeps ==
  ASSUME RInv, NEW e \in Entries, LoadedOK(e), Remember(e), row' = row, over' = over
  PROVE  /\ comp' \in [Ids -> {Gone} \cup Comps]
         /\ \A f \in Ids : CompOK(f, comp[f])'
<1>1. e.f \in Ids /\ comp \in [Ids -> {Gone} \cup Comps]
  BY DEF RInv, TypeOK, Entries, Comps
<1>2. CASE e.n = 0
  <2>1. comp' = comp
    BY <1>2 DEF Remember
  <2> QED BY <1>1, <2>1 DEF RInv, CompOK, InStep
<1>3. CASE e.n # 0
  <2>1. comp' = [comp EXCEPT ![e.f] = getCompiled(e)]
    BY <1>3 DEF Remember
  <2>2. getCompiled(e) \in Comps /\ InStep(e.f, getCompiled(e))
    BY CompiledOK
  <2>3. comp' \in [Ids -> {Gone} \cup Comps]
    BY <1>1, <2>1, <2>2
  <2>4. ASSUME NEW f \in Ids PROVE CompOK(f, comp[f])'
    <3>1. CompOK(f, comp'[f])
      BY <1>1, <2>1, <2>2 DEF RInv, CompOK
    <3> QED BY <3>1 DEF CompOK, InStep
  <2> QED BY <2>3, <2>4
<1> QED BY <1>2, <1>3

\* A current filter's rules and scope are the present ones: within the limit
\* it matches the entries that want its version, and no others.
LEMMA VerdictTrue ==
  ASSUME RInv, ~over, NEW e \in Entries, LoadedOK(e), Current(e), NEW want, NEW hit \in Verdicts(e, want)
  PROVE  hit \in BOOLEAN /\ (hit <=> Wanted(e.f, want))
<1> DEFINE c == getCompiled(e)
<1>1. c \in Comps /\ c.key = e.key /\ InStep(e.f, c)
  BY CompiledOK
<1> HIDE DEF c
<1>2. e.f \in Ids /\ e.n \in Nat /\ row[e.f].parts \in Nat /\ row[e.f].key = row[e.f].parts /\ Live(e.f) /\ e.n = row[e.f].n /\ e.key = row[e.f].key
  <2>1. e.f \in Ids /\ e.n \in 0..MaxRules /\ row[e.f].parts \in 0..MaxVer
    BY DEF RInv, TypeOK, Entries, Versions
  <2> QED BY <2>1, RulesAssumption DEF RInv, Headed, Current, Live
<1>3. c.rules \in Nat /\ c.items \in Nat /\ c.cut = FALSE /\ c.rules = row[e.f].parts /\ c.items = row[e.f].parts
  <2>1. c.rules \in 0..MaxVer /\ c.items \in 0..MaxVer /\ c.cut \in BOOLEAN /\ MaxVer \in Nat
    BY <1>1, RulesAssumption DEF Comps, Versions
  <2> QED BY <1>1, <1>2, <2>1 DEF InStep
<1>4. Verdicts(e, want) = IF e.n = 0 THEN {FALSE} ELSE {{c.rules, c.items} \subseteq want}
  BY <1>3 DEF Verdicts, c
<1>5. CASE e.n = 0
  BY <1>2, <1>4, <1>5 DEF Wanted
<1>6. CASE e.n # 0
  <2>1. hit = ({c.rules, c.items} \subseteq want)
    BY <1>4, <1>6
  <2>2. ({c.rules, c.items} \subseteq want) <=> row[e.f].parts \in want
    BY <1>3
  <2>3. row[e.f].n > 0
    BY <1>2, <1>6
  <2> QED BY <1>2, <2>1, <2>2, <2>3 DEF Wanted
<1> QED BY <1>5, <1>6

(***************************************************************************)
(* Steps that leave the tables alone.                                      *)
(***************************************************************************)
Caches == [age : 0..TTL, view : SUBSET Entries, old : BOOLEAN]
CachesOK == cache \in [Procs -> Caches] /\ \A p \in Procs : CacheOK(cache[p])
PollsOK == poll \in [Polls -> PollStates] /\ \A a \in Polls : PollOK(poll[a])
CompsOK == comp \in [Ids -> {Gone} \cup Comps] /\ \A f \in Ids : CompOK(f, comp[f])
TestStates == {NoTest} \cup [at : {"header", "rules"}, f : Ids, key : Versions, rules : Versions, n : 0..MaxRules]
TestsOK == test \in [Tests -> TestStates] /\ \A t \in Tests : TestOK(test[t])

LEMMA Parts == RInv => CachesOK /\ PollsOK /\ CompsOK /\ TestsOK
BY DEF RInv, TypeOK, CachesOK, Caches, PollsOK, CompsOK, Comps, TestsOK, TestStates

LEMMA Assemble ==
  ASSUME RInv, row' = row, over' = over, mix' = mix,
         CachesOK', PollsOK', CompsOK', TestsOK', LabelsOwn',
         label' \in [Labels -> Users \cup {Gone, Unused}], faults' \in 0..Faults
  PROVE  RInv'
<1>1. TypeOK'
  BY DEF RInv, TypeOK, CachesOK, Caches, PollsOK, CompsOK, Comps, TestsOK, TestStates, Entries, PollStates, Versions, Acts, Modes
<1>2. Headed' /\ over' \in BOOLEAN /\ mix' \in Mixes
  BY DEF RInv, Headed, Exists
<1>3. Overfull' => over'
  BY SameRows DEF RInv
<1> QED BY <1>1, <1>2, <1>3 DEF RInv, CachesOK, PollsOK, CompsOK, TestsOK

LEMMA Kept ==
  ASSUME RInv, row' = row, over' = over
  PROVE  /\ cache' = cache => CachesOK'
         /\ poll' = poll => PollsOK'
         /\ comp' = comp => CompsOK'
         /\ test' = test => TestsOK'
<1>1. ASSUME cache' = cache PROVE CachesOK'
  BY <1>1, Parts DEF CachesOK, Caches, CacheOK, CacheTrue, AllOf, Current, Live, Exists, LoadedOK, ReadOK
<1>2. ASSUME poll' = poll PROVE PollsOK'
  BY <1>2, Parts DEF PollsOK, PollOK, PollTrue, Reading, AllOf, Current, Wanted, Live, Exists, LoadedOK, ReadOK
<1>3. ASSUME comp' = comp PROVE CompsOK'
  BY <1>3, Parts DEF CompsOK, CompOK, InStep
<1>4. ASSUME test' = test PROVE TestsOK'
  BY <1>4, Parts DEF TestsOK, TestOK, TestStates
<1> QED BY <1>1, <1>2, <1>3, <1>4

LEMMA PollStep ==
  ASSUME RInv, row' = row, over' = over, NEW a \in Polls, NEW q \in PollStates, PollOK(q), Step(a, q)
  PROVE  PollsOK'
<1>1. poll \in [Polls -> PollStates] /\ poll' = [poll EXCEPT ![a] = q]
  BY DEF RInv, TypeOK, Step
<1>2. poll' \in [Polls -> PollStates]
  BY <1>1
<1>3. \A b \in Polls : PollOK(poll'[b])
  BY <1>1 DEF RInv
<1>4. ASSUME NEW b \in Polls PROVE PollOK(poll[b])'
  <2>1. PollOK(poll'[b])
    BY <1>3
  <2> QED BY <2>1 DEF PollOK, PollTrue, Reading, AllOf, Current, Wanted, Live, Exists, LoadedOK, ReadOK
<1> QED BY <1>2, <1>4 DEF PollsOK

LEMMA CacheStep ==
  ASSUME RInv, row' = row, over' = over, NEW p \in Procs, NEW c \in Caches, CacheOK(c), cache' = [cache EXCEPT ![p] = c]
  PROVE  CachesOK'
<1>1. cache \in [Procs -> Caches]
  BY DEF RInv, TypeOK, Caches
<1>2. cache' \in [Procs -> Caches]
  BY <1>1
<1>3. \A r \in Procs : CacheOK(cache'[r])
  BY <1>1 DEF RInv
<1>4. ASSUME NEW r \in Procs PROVE CacheOK(cache[r])'
  <2>1. CacheOK(cache'[r])
    BY <1>3
  <2> QED BY <2>1 DEF CacheOK, CacheTrue, AllOf, Current, Live, Exists, LoadedOK, ReadOK
<1> QED BY <1>2, <1>4 DEF CachesOK

LEMMA SameLabels ==
  ASSUME RInv, label' = label, tags' = tags
  PROVE  LabelsOwn' /\ label' \in [Labels -> Users \cup {Gone, Unused}]
BY DEF RInv, TypeOK, LabelsOwn

\* A step of one poll alone.
LEMMA PollOnly ==
  ASSUME RInv, NEW a \in Polls, NEW q \in PollStates, PollOK(q), Step(a, q), UNCHANGED <<cache, comp, test, req, faults, other>>
  PROVE  RInv'
<1>1. /\ row' = row /\ over' = over /\ mix' = mix /\ cache' = cache /\ comp' = comp /\ test' = test
      /\ label' = label /\ tags' = tags /\ faults' = faults
  BY DEF other
<1>2. CachesOK' /\ CompsOK' /\ TestsOK'
  BY <1>1, Kept
<1>3. PollsOK'
  BY <1>1, PollStep
<1>4. LabelsOwn' /\ label' \in [Labels -> Users \cup {Gone, Unused}] /\ faults' \in 0..Faults
  BY <1>1, SameLabels DEF RInv, TypeOK
<1> QED BY <1>1, <1>2, <1>3, <1>4, Assemble

LEMMA NoListOK == NoList \in Caches /\ CacheOK(NoList)
BY RulesAssumption DEF NoList, Caches, CacheOK, CacheTrue

LEMMA NoPollOK == NoPoll \in PollStates /\ PollOK(NoPoll)
BY RulesAssumption DEF NoPoll, PollStates, Modes, PollOK, PollTrue, Reading

LEMMA InitOK == Init => RInv
<1> SUFFICES ASSUME Init PROVE RInv
  OBVIOUS
<1> USE DEF Init
<1>1. TypeOK
  BY NoListOK, NoPollOK, RulesAssumption DEF TypeOK, NoRow, Versions, Acts, Caches
<1>2. \A f \in Ids : ~Exists(f) /\ ~Live(f)
  BY DEF Exists, Live, NoRow
<1>3. ~Overfull
  BY <1>1, <1>2, EmptyList
<1>4. (\A p \in Procs : CacheOK(cache[p])) /\ (\A a \in Polls : PollOK(poll[a])) /\ \A f \in Ids : CompOK(f, comp[f])
  BY NoListOK, NoPollOK DEF CompOK
<1>5. \A t \in Tests : TestOK(test[t])
  BY DEF TestOK, NoTest
<1> QED BY <1>1, <1>2, <1>3, <1>4, <1>5 DEF RInv, Headed, LabelsOwn

(***************************************************************************)
(* Writes.  They only add versions, and mark what they outdate.            *)
(***************************************************************************)
Rows == [key : Versions, parts : Versions, n : 0..MaxRules, act : Acts, enabled : BOOLEAN]

LEMMA WriteOK ==
  ASSUME RInv, NEW r \in Reqs, NEW f \in Ids, NEW new \in Rows, row[f].parts <= new.parts,
         new.key > 0 => new.key = new.parts, Write(r, f, new)
  PROVE  RInv'
<1>1. /\ row \in [Ids -> Rows] /\ row' = [row EXCEPT ![f] = new] /\ over' = (over \/ Overfull')
      /\ poll' = [a \in Polls |-> [poll[a] EXCEPT !.stale = poll[a].at # "idle"]]
      /\ cache' = [p \in Procs |-> [cache[p] EXCEPT !.old = cache[p].age < TTL]]
      /\ comp' = comp /\ test' = test /\ label' = label /\ tags' = tags /\ faults' = faults /\ mix' = mix
  BY DEF Write, RInv, TypeOK, Rows
<1>2. over' \in BOOLEAN /\ (over => over') /\ (Overfull' => over')
  BY <1>1
<1>3. row' \in [Ids -> Rows] /\ \A g \in Ids : row[g].parts \in Nat /\ row'[g].parts \in Nat /\ row[g].parts <= row'[g].parts
  <2>1. row' \in [Ids -> Rows]
    BY <1>1
  <2>2. \A x \in Rows : x.parts \in Nat
    BY RulesAssumption DEF Rows, Versions
  <2> QED BY <1>1, <2>1, <2>2
<1>4. Headed'
  BY <1>1 DEF RInv, Headed, Exists
<1>5. ASSUME NEW e \in Entries PROVE (ReadOK(e) => ReadOK(e)') /\ (LoadedOK(e) => LoadedOK(e)')
  <2>1. e.f \in Ids /\ e.rules \in Nat /\ e.items \in Nat
    BY RulesAssumption DEF Entries, Versions
  <2> QED BY <1>2, <1>3, <2>1 DEF ReadOK, LoadedOK
<1>6. cache' \in [Procs -> Caches] /\ \A p \in Procs : CacheOK(cache[p])'
  <2>1. ASSUME NEW p \in Procs PROVE cache'[p] \in Caches /\ CacheOK(cache[p])'
    <3>1. cache[p] \in Caches /\ CacheOK(cache[p]) /\ cache'[p] = [cache[p] EXCEPT !.old = cache[p].age < TTL]
      BY <1>1, Parts DEF CachesOK
    <3>2. cache'[p] \in Caches /\ cache'[p].view = cache[p].view /\ cache'[p].age = cache[p].age /\ (cache[p].age < TTL => cache'[p].old)
      <4> DEFINE b == cache[p].age < TTL
      <4>1. b \in BOOLEAN /\ (cache[p].age < TTL <=> b) /\ cache'[p] = [cache[p] EXCEPT !.old = b]
        BY <3>1
      <4> HIDE DEF b
      <4> QED BY <3>1, <4>1 DEF Caches
    <3>3. \A e \in cache'[p].view : LoadedOK(e)'
      BY <1>5, <3>1, <3>2 DEF CacheOK, Caches
    <3>4. CacheTrue(cache[p])'
      BY <3>2 DEF CacheTrue
    <3> QED BY <3>2, <3>3, <3>4 DEF CacheOK
  <2> QED BY <1>1, <2>1
<1>7. poll' \in [Polls -> PollStates] /\ \A a \in Polls : PollOK(poll[a])'
  <2>1. ASSUME NEW a \in Polls PROVE poll'[a] \in PollStates /\ PollOK(poll[a])'
    <3>1. poll[a] \in PollStates /\ PollOK(poll[a]) /\ poll'[a] = [poll[a] EXCEPT !.stale = poll[a].at # "idle"]
      BY <1>1, Parts DEF PollsOK
    <3>2. /\ poll'[a] \in PollStates /\ poll'[a].view = poll[a].view /\ poll'[a].todo = poll[a].todo
          /\ poll'[a].at = poll[a].at /\ poll'[a].stale = (poll[a].at # "idle")
      BY <3>1 DEF PollStates
    <3>3. /\ \A e \in poll'[a].view : LoadedOK(e)'
          /\ \A e \in poll'[a].todo : ReadOK(e)' /\ (~Reading(poll[a]) => LoadedOK(e)')
      BY <1>5, <3>1, <3>2 DEF PollOK, PollStates
    <3>4. PollTrue(poll[a])'
      BY <3>2 DEF PollTrue, Reading
    <3> QED BY <3>1, <3>2, <3>3, <3>4 DEF PollOK, Reading
  <2> QED BY <1>1, <2>1
<1>8. \A g \in Ids : CompOK(g, comp[g])'
  <2>1. ASSUME NEW g \in Ids, comp[g] # Gone PROVE InStep(g, comp[g])'
    <3>1. InStep(g, comp[g]) /\ comp[g].rules \in Nat /\ comp[g].items \in Nat
      BY <2>1, Parts, RulesAssumption DEF CompsOK, CompOK, Comps, Versions
    <3> QED BY <1>1, <1>2, <1>3, <3>1 DEF InStep
  <2> QED BY <1>1, <2>1 DEF CompOK
<1>9. \A t \in Tests : TestOK(test[t])'
  <2>1. ASSUME NEW t \in Tests, test[t].at # "idle" PROVE test[t].f \in Ids /\ test[t].key \in Nat /\ test[t].rules \in Nat
    BY <2>1, Parts, RulesAssumption DEF TestsOK, TestStates, NoTest, Versions
  <2>2. \A t \in Tests : TestOK(test[t])
    BY DEF RInv
  <2> QED BY <1>1, <1>3, <2>1, <2>2 DEF TestOK
<1>10. TypeOK'
  BY <1>1, <1>3, <1>6, <1>7 DEF RInv, TypeOK, Rows, Caches, Entries, PollStates, Versions, Acts, Modes
<1> QED BY <1>1, <1>2, <1>4, <1>6, <1>7, <1>8, <1>9, <1>10, SameLabels DEF RInv

LEMMA RowType == ASSUME RInv, NEW f \in Ids PROVE row[f] \in Rows /\ row[f].parts \in Nat /\ row[f].key \in Nat /\ row[f].parts <= MaxVer
<1>1. row[f] \in Rows
  BY DEF RInv, TypeOK, Rows
<1> QED BY <1>1, RulesAssumption DEF Rows, Versions

LEMMA MixType ==
  ASSUME RInv
  PROVE  /\ mix.filters \subseteq Ids /\ mix.params \subseteq [n : Nat, act : Acts, enabled : BOOLEAN] /\ mix.labels \subseteq Labels
         /\ mix.polls \subseteq Polls /\ mix.procs \subseteq Procs /\ mix.modes \subseteq Modes
         /\ mix.wants \subseteq SUBSET Nat /\ mix.tests \subseteq Tests
BY RulesAssumption DEF RInv

LEMMA CreateOK ==
  ASSUME RInv, NEW r \in Reqs, NEW f \in Ids, NEW p \in [n : Nat, act : Acts, enabled : BOOLEAN], CreateFilter(r, f, p)
  PROVE  RInv'
<1> DEFINE new == [key |-> 1, parts |-> 1, n |-> p.n, act |-> p.act, enabled |-> p.enabled]
<1>1. new \in Rows
  BY RulesAssumption DEF CreateFilter, ValidateRules, Rows, Versions
<1>2. row[f].parts <= new.parts /\ new.key = new.parts /\ Write(r, f, new)
  BY DEF CreateFilter
<1> HIDE DEF new
<1> QED BY <1>1, <1>2, WriteOK

LEMMA UpdateOK ==
  ASSUME RInv, NEW r \in Reqs, NEW f \in Ids, NEW p \in [n : Nat, act : Acts, enabled : BOOLEAN], UpdateFilter(r, f, p)
  PROVE  RInv'
<1> DEFINE new == [key |-> row[f].parts + 1, parts |-> row[f].parts + 1, n |-> p.n, act |-> p.act, enabled |-> p.enabled]
<1>0. row[f].parts + 1 \in Versions /\ row[f].parts <= row[f].parts + 1
  BY RowType, RulesAssumption DEF UpdateFilter, Versions
<1>1. new \in Rows
  BY <1>0, RulesAssumption DEF UpdateFilter, ValidateRules, Rows
<1>2. row[f].parts <= new.parts /\ new.key = new.parts /\ Write(r, f, new)
  BY <1>0 DEF UpdateFilter
<1> HIDE DEF new
<1> QED BY <1>1, <1>2, WriteOK

LEMMA DeleteOK ==
  ASSUME RInv, NEW r \in Reqs, NEW f \in Ids, DeleteFilter(r, f)
  PROVE  RInv'
<1> DEFINE new == [NoRow EXCEPT !.parts = row[f].parts]
<1>1. new \in Rows /\ new.parts = row[f].parts /\ new.key = 0
  <2>1. row[f].parts \in Versions /\ 0 \in Versions /\ 0 \in 0..MaxRules /\ "none" \in Acts
    BY RowType, RulesAssumption DEF Versions, Acts
  <2> QED BY <2>1 DEF NoRow, Rows
<1>2. Write(r, f, new)
  BY DEF DeleteFilter
<1> HIDE DEF new
<1>3. row[f].parts <= new.parts
  BY <1>1, RowType
<1> QED BY <1>1, <1>2, <1>3, WriteOK

(***************************************************************************)
(* The caches, the labels and the tests.                                   *)
(***************************************************************************)
LEMMA CacheOnly ==
  ASSUME RInv, CachesOK', UNCHANGED <<comp, poll, test, faults, other>>
  PROVE  RInv'
<1>1. /\ row' = row /\ over' = over /\ mix' = mix /\ poll' = poll /\ comp' = comp /\ test' = test
      /\ label' = label /\ tags' = tags /\ faults' = faults
  BY DEF other
<1>2. PollsOK' /\ CompsOK' /\ TestsOK'
  BY <1>1, Kept
<1>3. LabelsOwn' /\ label' \in [Labels -> Users \cup {Gone, Unused}] /\ faults' \in 0..Faults
  BY <1>1, SameLabels DEF RInv, TypeOK
<1> QED BY <1>1, <1>2, <1>3, Assemble

LEMMA TickOK == ASSUME RInv, Tick PROVE RInv'
<1>1. row' = row /\ over' = over /\ cache' = [p \in Procs |-> Older(cache[p])]
  BY DEF Tick, other
<1>2. ASSUME NEW p \in Procs PROVE Older(cache[p]) \in Caches /\ CacheOK(Older(cache[p]))
  <2> DEFINE c == cache[p]
  <2>1. c \in Caches /\ CacheOK(c) /\ TTL \in Nat
    BY Parts, RulesAssumption DEF CachesOK
  <2> HIDE DEF c
  <2>2. CASE c.age + 1 < TTL
    <3>1. Older(c) = [c EXCEPT !.age = c.age + 1]
      BY <2>2 DEF Older
    <3>2. c.age \in Nat /\ c.age < TTL /\ c.age + 1 \in 0..TTL
      BY <2>1, <2>2 DEF Caches
    <3>3. Older(c) \in Caches /\ Older(c).view = c.view /\ Older(c).old = c.old
      BY <2>1, <3>1, <3>2 DEF Caches
    <3> QED BY <2>1, <3>2, <3>3 DEF CacheOK, CacheTrue, c
  <2>3. CASE ~(c.age + 1 < TTL)
    BY <2>3, NoListOK DEF Older, c
  <2> QED BY <2>2, <2>3
<1>3. CachesOK'
  <2>1. \A p \in Procs : CacheOK(cache'[p])
    BY <1>1, <1>2
  <2>2. ASSUME NEW p \in Procs PROVE CacheOK(cache[p])'
    BY <1>1, <2>1 DEF CacheOK, CacheTrue, AllOf, Current, Live, Exists, LoadedOK, ReadOK
  <2> QED BY <1>1, <1>2, <2>2 DEF CachesOK, Caches, Entries, Versions, Acts
<1> QED BY <1>3, CacheOnly DEF Tick

LEMMA InvalidateOK == ASSUME RInv, NEW r \in Reqs, InvalidateFilterCache(r) PROVE RInv'
<1>1. row' = row /\ over' = over /\ cache' = [cache EXCEPT ![Server] = NoList] /\ Server \in Procs
  BY RulesAssumption DEF InvalidateFilterCache, other
<1>2. CachesOK'
  BY <1>1, NoListOK, CacheStep
<1> QED BY <1>2, CacheOnly DEF InvalidateFilterCache

LEMMA LabelOnly ==
  ASSUME RInv, LabelsOwn', label' \in [Labels -> Users \cup {Gone, Unused}], UNCHANGED <<row, cache, comp, poll, test, over, faults, mix>>
  PROVE  RInv'
<1>1. faults' \in 0..Faults
  BY DEF RInv, TypeOK
<1> QED BY <1>1, Kept, Assemble

LEMMA LabelCreateOK == ASSUME RInv, NEW t \in Labels, NEW u \in Users, handleLabelCreate(t, u) PROVE RInv'
<1>1. LabelsOwn' /\ label' \in [Labels -> Users \cup {Gone, Unused}]
  <2>1. label \in [Labels -> Users \cup {Gone, Unused}] /\ label' = [label EXCEPT ![t] = u] /\ tags' = tags /\ label[t] = Unused
    BY DEF RInv, TypeOK, handleLabelCreate
  <2>2. label[t] # Me
    BY <2>1, RulesAssumption
  <2> QED BY <2>1, <2>2 DEF RInv, LabelsOwn
<1> QED BY <1>1, LabelOnly DEF handleLabelCreate

LEMMA LabelDeleteOK == ASSUME RInv, NEW t \in Labels, handleLabelDelete(t) PROVE RInv'
<1>1. LabelsOwn' /\ label' \in [Labels -> Users \cup {Gone, Unused}]
  <2>1. label \in [Labels -> Users \cup {Gone, Unused}] /\ label' = [label EXCEPT ![t] = Gone] /\ tags' = tags \ {t}
    BY DEF RInv, TypeOK, handleLabelDelete
  <2> QED BY <2>1 DEF RInv, LabelsOwn
<1> QED BY <1>1, LabelOnly DEF handleLabelDelete

LEMMA TestStep ==
  ASSUME RInv, row' = row, NEW t \in Tests, NEW q \in TestStates, TestOK(q), test' = [test EXCEPT ![t] = q]
  PROVE  TestsOK'
<1>1. test' \in [Tests -> TestStates] /\ \A u \in Tests : TestOK(test'[u])
  BY Parts DEF TestsOK
<1> QED BY <1>1 DEF TestsOK, TestOK, TestStates

LEMMA TestOnly ==
  ASSUME RInv, TestsOK', CompsOK', UNCHANGED <<cache, poll, faults, other>>
  PROVE  RInv'
<1>1. /\ row' = row /\ over' = over /\ mix' = mix /\ poll' = poll /\ cache' = cache
      /\ label' = label /\ tags' = tags /\ faults' = faults
  BY DEF other
<1>2. LabelsOwn' /\ label' \in [Labels -> Users \cup {Gone, Unused}] /\ faults' \in 0..Faults
  BY <1>1, SameLabels DEF RInv, TypeOK
<1> QED BY <1>1, <1>2, Kept, Assemble

LEMMA GetFilterOK == ASSUME RInv, NEW t \in Tests, NEW f \in Ids, GetFilter(t, f) PROVE RInv'
<1> DEFINE q == [at |-> "header", f |-> f, key |-> row[f].key, rules |-> 0, n |-> 0]
<1>1. row' = row /\ over' = over /\ comp' = comp /\ test' = [test EXCEPT ![t] = q]
  BY DEF GetFilter, other
<1>2. row[f].key \in Versions /\ 0 \in Versions /\ 0 \in 0..MaxRules /\ 0 < row[f].key /\ row[f].key = row[f].parts /\ row[f].key \in Nat
  BY RowType, RulesAssumption DEF GetFilter, Exists, Rows, Versions, RInv, Headed
<1>3. q \in TestStates /\ TestOK(q)
  BY <1>2 DEF TestStates, TestOK
<1> HIDE DEF q
<1>4. TestsOK' /\ CompsOK'
  BY <1>1, <1>3, TestStep, Kept
<1> QED BY <1>4, TestOnly DEF GetFilter

LEMMA TestTypes ==
  ASSUME RInv, NEW t \in Tests, test[t].at # "idle"
  PROVE  /\ test[t] \in [at : {"header", "rules"}, f : Ids, key : Versions, rules : Versions, n : 0..MaxRules]
         /\ TestOK(test[t])
BY Parts DEF TestsOK, TestStates, NoTest

LEMMA GetRulesOK == ASSUME RInv, NEW t \in Tests, getFilterRules(t) PROVE RInv'
<1> DEFINE o == test[t]
           q == [o EXCEPT !.at = "rules", !.rules = row[o.f].parts, !.n = row[o.f].n]
<1>1. row' = row /\ over' = over /\ comp' = comp /\ o.at = "header" /\ test \in [Tests -> TestStates]
  BY Parts DEF getFilterRules, other, TestsOK
<1>2. o \in [at : {"header", "rules"}, f : Ids, key : Versions, rules : Versions, n : 0..MaxRules] /\ TestOK(o)
  BY <1>1, TestTypes
<1>3. test' = [test EXCEPT ![t] = q]
  BY <1>1 DEF getFilterRules
<1>4. row[o.f].parts \in Versions /\ row[o.f].n \in 0..MaxRules /\ row[o.f].parts \in Nat
  BY <1>2, RowType DEF Rows
<1> HIDE DEF o
<1>5. q \in TestStates /\ q.at = "rules" /\ q.rules = row[o.f].parts /\ q.key = o.key /\ q.f = o.f
  BY <1>2, <1>4 DEF TestStates
<1>6. TestOK(q)
  BY <1>1, <1>2, <1>4, <1>5 DEF TestOK
<1> HIDE DEF q
<1>7. TestsOK' /\ CompsOK'
  BY <1>1, <1>3, <1>5, <1>6, TestStep, Kept
<1> QED BY <1>7, TestOnly DEF getFilterRules

LEMMA HandleTestOK == ASSUME RInv, NEW t \in Tests, handleTestFilter(t) PROVE RInv'
<1> DEFINE q == test[t]
           e == [f |-> q.f, key |-> q.key, rules |-> q.rules, n |-> q.n, items |-> row[q.f].parts, act |-> "none", cut |-> FALSE]
<1>1. row' = row /\ over' = over /\ q.at = "rules" /\ Remember(e) /\ test' = [test EXCEPT ![t] = NoTest]
  BY DEF handleTestFilter, other
<1>2. q \in [at : {"header", "rules"}, f : Ids, key : Versions, rules : Versions, n : 0..MaxRules] /\ TestOK(q)
  BY <1>1, TestTypes
<1>3. row[q.f].parts \in Versions /\ row[q.f].parts \in Nat /\ "none" \in Acts
  BY <1>2, RowType DEF Rows, Acts
<1> HIDE DEF q
<1>4. e \in Entries
  BY <1>2, <1>3 DEF Entries
<1>5. LoadedOK(e)
  BY <1>1, <1>2, <1>3 DEF LoadedOK, ReadOK, TestOK
<1> HIDE DEF e
<1>6. CompsOK'
  BY <1>1, <1>4, <1>5, RememberKeeps DEF CompsOK, Comps, Versions
<1>7. NoTest \in TestStates /\ TestOK(NoTest)
  BY DEF TestStates, TestOK, NoTest
<1>8. TestsOK'
  BY <1>1, <1>7, TestStep
<1> QED BY <1>6, <1>8, TestOnly DEF handleTestFilter

(***************************************************************************)
(* The polls.                                                              *)
(***************************************************************************)
LEMMA PollType ==
  ASSUME RInv, NEW a \in Polls
  PROVE  poll[a] \in PollStates /\ PollOK(poll[a]) /\ poll[a].view \subseteq Entries /\ poll[a].todo \subseteq Entries /\ poll[a].proc \in Procs
<1>1. poll[a] \in PollStates /\ PollOK(poll[a])
  BY Parts DEF PollsOK
<1> QED BY <1>1 DEF PollStates

LEMMA PollStartOK ==
  ASSUME RInv, NEW a \in Polls, NEW p \in Procs, NEW mode \in Modes, NEW want \in SUBSET Nat, PollStart(a, p, mode, want)
  PROVE  RInv'
<1> DEFINE q == [NoPoll EXCEPT !.at = IF mode = "full" THEN "asked" ELSE "ask", !.proc = p, !.mode = mode, !.want = want]
<1>1. q \in PollStates /\ q.view = {} /\ q.todo = {} /\ q.mode = mode /\ q.at = IF mode = "full" THEN "asked" ELSE "ask"
  BY DEF NoPoll, PollStates
<1>2. Step(a, q) /\ UNCHANGED <<cache, comp, test, req, faults, other>>
  BY DEF PollStart
<1> HIDE DEF q
<1>3. PollOK(q)
  BY <1>1 DEF PollOK, PollTrue, Reading
<1> QED BY <1>1, <1>2, <1>3, PollOnly

\* The headers of a list: those of all enabled filters if nothing is cut.
LEMMA HeadsOK ==
  ASSUME RInv
  PROVE  /\ Heads \subseteq Entries
         /\ \A e \in Heads : ReadOK(e) /\ Current(e)
         /\ ~over => AllOf(Heads)
<1> DEFINE h(f) == [f |-> f, key |-> row[f].key, rules |-> row[f].parts, n |-> row[f].n, items |-> 0, act |-> "none", cut |-> Cut(f)]
<1>1. Heads = {h(f) : f \in {g \in Ids : Listed(g)}}
  BY DEF Heads
<1>2. ASSUME NEW f \in Ids, Listed(f) PROVE h(f) \in Entries /\ ReadOK(h(f)) /\ Current(h(f)) /\ h(f).f = f
  <2>1. row[f] \in Rows /\ Live(f) /\ Exists(f) /\ row[f].key = row[f].parts /\ row[f].key > 0 /\ row[f].parts \in Nat
    BY <1>2, RowType DEF Listed, Live, Exists, RInv, Headed
  <2> DEFINE cut == Cut(f)
  <2>2. cut \in BOOLEAN /\ (cut => over)
    BY WholeList DEF Cut, RInv
  <2>3. 0 \in Versions /\ "none" \in Acts
    BY RulesAssumption DEF Versions, Acts
  <2> HIDE DEF cut
  <2> DEFINE e == [f |-> f, key |-> row[f].key, rules |-> row[f].parts, n |-> row[f].n, items |-> 0, act |-> "none", cut |-> cut]
  <2>4. e \in Entries
    BY <2>1, <2>2, <2>3 DEF Entries, Rows
  <2>5. ReadOK(e) /\ Current(e) /\ e.f = f
    BY <2>1, <2>2 DEF ReadOK, Current
  <2>6. e = h(f)
    BY DEF cut
  <2> QED BY <2>4, <2>5, <2>6
<1> HIDE DEF h
<1>3. ASSUME ~over PROVE AllOf(Heads)
  <2>1. ASSUME NEW f \in Ids, Live(f) PROVE \E e \in Heads : e.f = f
    <3>1. Listed(f)
      BY <1>3, <2>1, WholeList DEF RInv
    <3> QED BY <1>1, <1>2, <3>1
  <2> QED BY <2>1 DEF AllOf
<1> QED BY <1>1, <1>2, <1>3

LEMMA ListOK == ASSUME RInv, NEW a \in Polls, listEnabledFiltersCached(a) PROVE RInv'
<1> DEFINE q == poll[a]
           c == cache[q.proc]
<1>1. /\ q \in PollStates /\ PollOK(q) /\ q.proc \in Procs /\ q.at \in {"ask", "asked"}
      /\ c \in Caches /\ CacheOK(c) /\ cache \in [Procs -> Caches]
  BY PollType, Parts DEF listEnabledFiltersCached, CachesOK
<1>2. /\ row' = row /\ over' = over /\ mix' = mix /\ comp' = comp /\ test' = test
      /\ label' = label /\ tags' = tags /\ faults' = faults
  BY DEF listEnabledFiltersCached, other
<1>3. CASE Fresh(q.proc)
  <2> DEFINE n == [q EXCEPT !.at = After(q.at), !.todo = c.view, !.stale = q.stale \/ c.old]
  <2>1. Step(a, n) /\ cache' = cache
    <3>1. cache' = [cache EXCEPT ![q.proc] = cache[q.proc]]
      BY <1>3 DEF listEnabledFiltersCached, Get
    <3> QED BY <1>1, <1>3, <3>1 DEF listEnabledFiltersCached
  <2>2. c.view \subseteq Entries /\ c.old \in BOOLEAN /\ c.age < TTL /\ q.stale \in BOOLEAN
    BY <1>1, <1>3 DEF Caches, Fresh, PollStates
  <2> HIDE DEF c, q
  <2>3. /\ n \in PollStates /\ n.view = q.view /\ n.todo = c.view /\ n.stale = (q.stale \/ c.old) /\ n.mode = q.mode /\ n.want = q.want
        /\ n.at = IF q.at = "ask" THEN "sift" ELSE "match"
    BY <1>1, <2>2 DEF After, PollStates
  <2> HIDE DEF n
  <2>4. q.view = {}
    BY <1>1 DEF PollOK, Reading
  <2>5. \A e \in c.view : LoadedOK(e) /\ ReadOK(e)
    BY <1>1 DEF CacheOK, LoadedOK
  <2>6. ASSUME ~over, ~n.stale PROVE AllOf(c.view) /\ \A e \in c.view : Current(e)
    BY <1>1, <2>2, <2>3, <2>6 DEF CacheOK, CacheTrue
  <2>7. ASSUME ~over, ~n.stale, n.at = "match", n.mode # "full" PROVE \E e \in n.todo : Current(e) /\ Wanted(e.f, n.want)
    <3>1. PICK f \in Ids : Wanted(f, q.want)
      BY <1>1, <2>3, <2>7 DEF PollOK, PollTrue
    <3> QED BY <2>3, <2>6, <2>7, <3>1 DEF AllOf, Wanted
  <2>8. PollOK(n)
    BY <2>3, <2>4, <2>5, <2>6, <2>7 DEF PollOK, PollTrue, Reading
  <2>9. PollsOK'
    BY <1>2, <2>1, <2>3, <2>8, PollStep
  <2> QED BY <1>2, <2>1, <2>9, Kept, SameLabels, Assemble DEF RInv, TypeOK
<1>4. CASE ~Fresh(q.proc)
  <2> DEFINE n == [q EXCEPT !.at = Loading(q.at), !.todo = Heads]
  <2>1. Step(a, n) /\ cache' = [cache EXCEPT ![q.proc] = NoList]
    BY <1>4 DEF listEnabledFiltersCached, Get
  <2>2. CachesOK'
    BY <1>1, <1>2, <2>1, NoListOK, CacheStep
  <2> HIDE DEF c, q
  <2>3. /\ n \in PollStates /\ n.view = q.view /\ n.todo = Heads /\ n.stale = q.stale /\ n.mode = q.mode /\ n.want = q.want
        /\ n.at = IF q.at = "ask" THEN "read" ELSE "reread"
    BY <1>1, HeadsOK DEF Loading, PollStates
  <2> HIDE DEF n
  <2>4. q.view = {} /\ n.view \cup n.todo = Heads
    BY <1>1, <2>3 DEF PollOK, Reading
  <2>5. n.at = "reread" /\ ~over /\ ~n.stale /\ n.mode # "full" => \E f \in Ids : Wanted(f, n.want)
    BY <1>1, <2>3 DEF PollOK, PollTrue
  <2>6. PollOK(n)
    BY <2>3, <2>4, <2>5, HeadsOK DEF PollOK, PollTrue, Reading
  <2>7. PollsOK'
    BY <1>2, <2>1, <2>3, <2>6, PollStep
  <2> QED BY <1>2, <2>2, <2>7, Kept, SameLabels, Assemble DEF RInv, TypeOK
<1> QED BY <1>3, <1>4

LEMMA LoadOK == ASSUME RInv, NEW a \in Polls, loadFilterScopeAndActions(a) PROVE RInv'
<1> DEFINE q == poll[a]
<1>1. q \in PollStates /\ PollOK(q) /\ Reading(q) /\ q.todo \subseteq Entries /\ q.view \subseteq Entries
  BY PollType DEF loadFilterScopeAndActions, Reading
<1>2. PICK e \in q.todo :
        Step(a, [q EXCEPT !.todo = @ \ {e}, !.view = @ \cup {[e EXCEPT !.items = row[e.f].parts, !.act = row[e.f].act]}])
  BY DEF loadFilterScopeAndActions
<1> DEFINE x == [e EXCEPT !.items = row[e.f].parts, !.act = row[e.f].act]
           n == [q EXCEPT !.todo = q.todo \ {e}, !.view = q.view \cup {x}]
<1>3. Step(a, n)
  BY <1>2
<1> HIDE DEF q
<1>4. e \in Entries /\ e.f \in Ids /\ row[e.f] \in Rows /\ row[e.f].parts \in Nat /\ ReadOK(e)
  <2>1. e \in Entries /\ e.f \in Ids
    BY <1>1 DEF Entries
  <2> QED BY <1>1, <2>1, RowType DEF PollOK
<1>5. x \in Entries /\ x.f = e.f /\ x.key = e.key /\ x.rules = e.rules /\ x.n = e.n /\ x.cut = e.cut /\ x.items = row[e.f].parts
  BY <1>4 DEF Entries, Rows
<1> HIDE DEF x
<1>6. LoadedOK(x)
  <2>1. e.key \in Nat /\ e.rules \in Nat
    BY <1>4, RulesAssumption DEF Entries, Versions
  <2> QED BY <1>4, <1>5, <2>1 DEF LoadedOK, ReadOK
<1>7. Current(e) => Current(x)
  BY <1>5 DEF Current
<1>8. /\ n \in PollStates /\ n.todo = q.todo \ {e} /\ n.view = q.view \cup {x}
      /\ n.at = q.at /\ n.stale = q.stale /\ n.mode = q.mode /\ n.want = q.want
  BY <1>1, <1>5 DEF PollStates
<1> HIDE DEF n
<1>9. PollOK(n)
  <2>1. ASSUME ~over, ~q.stale PROVE AllOf(n.view \cup n.todo) /\ \A y \in n.view \cup n.todo : Current(y)
    <3>1. AllOf(q.view \cup q.todo) /\ \A y \in q.view \cup q.todo : Current(y)
      BY <1>1, <2>1 DEF PollOK, PollTrue
    <3>2. ASSUME NEW f \in Ids, Live(f) PROVE \E y \in n.view \cup n.todo : y.f = f
      <4>1. PICK y \in q.view \cup q.todo : y.f = f
        BY <3>1, <3>2 DEF AllOf
      <4> QED BY <1>5, <1>8, <4>1
    <3> QED BY <3>1, <3>2, <1>7, <1>8 DEF AllOf
  <2>2. n.at = "reread" /\ ~over /\ ~n.stale /\ n.mode # "full" => \E f \in Ids : Wanted(f, n.want)
    BY <1>1, <1>8 DEF PollOK, PollTrue
  <2> QED BY <1>1, <1>6, <1>8, <2>1, <2>2 DEF PollOK, PollTrue, Reading
<1> QED BY <1>3, <1>8, <1>9, PollOnly DEF loadFilterScopeAndActions

LEMMA ListLoadedOK == ASSUME RInv, NEW a \in Polls, ListLoaded(a) PROVE RInv'
<1> DEFINE q == poll[a]
           c == [age |-> 0, view |-> q.view, old |-> q.stale]
           n == [q EXCEPT !.at = After(q.at), !.todo = q.view, !.view = {}]
<1>1. q \in PollStates /\ PollOK(q) /\ q.at \in {"read", "reread"} /\ q.todo = {} /\ q.view \subseteq Entries /\ q.proc \in Procs /\ q.stale \in BOOLEAN
  BY PollType DEF ListLoaded, PollStates
<1>2. /\ row' = row /\ over' = over /\ mix' = mix /\ comp' = comp /\ test' = test
      /\ label' = label /\ tags' = tags /\ faults' = faults
  BY DEF ListLoaded, other
<1>3. cache' = [cache EXCEPT ![q.proc] = c] /\ Step(a, n)
  BY DEF ListLoaded, Put
<1> HIDE DEF q
<1>4. c \in Caches /\ c.view = q.view /\ c.old = q.stale
  BY <1>1, RulesAssumption DEF Caches
<1> HIDE DEF c
<1>5. ASSUME ~over, ~q.stale PROVE AllOf(q.view) /\ \A e \in q.view : Current(e)
  <2>1. q.view \cup q.todo = q.view
    BY <1>1
  <2>2. AllOf(q.view \cup q.todo) /\ \A e \in q.view \cup q.todo : Current(e)
    BY <1>1, <1>5 DEF PollOK, PollTrue, Reading
  <2> QED BY <2>1, <2>2
<1>6. CacheOK(c)
  BY <1>1, <1>4, <1>5 DEF CacheOK, CacheTrue, PollOK
<1>7. CachesOK'
  BY <1>1, <1>2, <1>3, <1>4, <1>6, CacheStep
<1>8. /\ n \in PollStates /\ n.view = {} /\ n.todo = q.view /\ n.stale = q.stale /\ n.mode = q.mode /\ n.want = q.want
      /\ n.at = IF q.at = "read" THEN "sift" ELSE "match"
  BY <1>1 DEF PollStates, After
<1> HIDE DEF n
<1>9. ASSUME ~over, ~n.stale, n.at = "match", n.mode # "full" PROVE \E e \in n.todo : Current(e) /\ Wanted(e.f, n.want)
  <2>1. PICK f \in Ids : Wanted(f, q.want)
    BY <1>1, <1>8, <1>9 DEF PollOK, PollTrue
  <2> QED BY <1>5, <1>8, <1>9, <2>1 DEF AllOf, Wanted
<1>10. PollOK(n)
  BY <1>1, <1>5, <1>8, <1>9 DEF PollOK, PollTrue, Reading, LoadedOK
<1>11. PollsOK'
  BY <1>2, <1>3, <1>8, <1>10, PollStep
<1> QED BY <1>2, <1>7, <1>11, Kept, SameLabels, Assemble DEF RInv, TypeOK

LEMMA ListFailsOK == ASSUME RInv, NEW a \in Polls, ListFails(a) PROVE RInv'
<1> DEFINE q == poll[a]
           n == IF q.at = "read" THEN NoPoll ELSE [q EXCEPT !.at = "match", !.view = {}, !.todo = {}, !.failed = TRUE]
<1>1. q \in PollStates /\ Step(a, n)
  BY PollType DEF ListFails
<1>2. /\ row' = row /\ over' = over /\ mix' = mix /\ cache' = cache /\ comp' = comp /\ test' = test
      /\ label' = label /\ tags' = tags /\ faults' \in 0..Faults
  BY RulesAssumption DEF ListFails, other, RInv, TypeOK
<1> HIDE DEF q
<1>3. n \in PollStates /\ PollOK(n)
  <2>1. CASE q.at = "read"
    BY <2>1, NoPollOK
  <2>2. CASE q.at # "read"
    <3>1. n \in PollStates /\ n.at = "match" /\ n.view = {} /\ n.todo = {} /\ n.failed = TRUE
      BY <1>1, <2>2 DEF PollStates
    <3> HIDE DEF n
    <3> QED BY <3>1 DEF PollOK, PollTrue, Reading
  <2> QED BY <2>1, <2>2
<1> HIDE DEF n
<1>4. PollsOK'
  BY <1>1, <1>2, <1>3, PollStep
<1> QED BY <1>2, <1>4, Kept, SameLabels, Assemble DEF RInv, TypeOK

\* A filter is compiled, and the poll goes on.
LEMMA MatchStep ==
  ASSUME RInv, NEW a \in Polls, NEW e \in Entries, LoadedOK(e), Remember(e), NEW q \in PollStates, PollOK(q), Step(a, q),
         LabelsOwn', UNCHANGED <<row, cache, test, label, over, faults, mix>>
  PROVE  RInv'
<1>1. CompsOK'
  BY RememberKeeps DEF CompsOK, Comps, Versions
<1>2. PollsOK'
  BY PollStep
<1> QED BY <1>1, <1>2, Kept, Assemble DEF RInv, TypeOK

LEMMA SiftOK == ASSUME RInv, NEW a \in Polls, Sift(a) PROVE RInv'
<1> DEFINE q == poll[a]
<1>1. q \in PollStates /\ PollOK(q) /\ q.at = "sift" /\ q.todo \subseteq Entries /\ q.view = {}
  BY PollType DEF Sift, PollOK, Reading
<1>p. PICK e \in q.todo : /\ Remember(e)
                          /\ \E hit \in Verdicts(e, q.want) :
                               Step(a, IF hit THEN [q EXCEPT !.at = "store", !.todo = {}] ELSE [q EXCEPT !.todo = @ \ {e}])
  BY DEF Sift
<1>2. PICK hit \in Verdicts(e, q.want) :
        Remember(e) /\ Step(a, IF hit THEN [q EXCEPT !.at = "store", !.todo = {}] ELSE [q EXCEPT !.todo = @ \ {e}])
  BY <1>p
<1>3. e \in Entries /\ LoadedOK(e)
  BY <1>1 DEF PollOK, Reading
<1> DEFINE y == [q EXCEPT !.at = "store", !.todo = {}]
           z == [q EXCEPT !.todo = q.todo \ {e}]
<1>4. UNCHANGED <<row, cache, test, label, over, faults, mix>> /\ LabelsOwn'
  BY SameLabels DEF Sift, other
<1>5. (hit /\ Step(a, y)) \/ (~hit /\ Step(a, z))
  BY <1>2
<1> HIDE DEF q
<1>6. /\ y \in PollStates /\ y.at = "store" /\ y.todo = {} /\ y.view = {} /\ y.stale = q.stale /\ y.mode = q.mode /\ y.want = q.want
      /\ z \in PollStates /\ z.at = "sift" /\ z.todo = q.todo \ {e} /\ z.view = {} /\ z.stale = q.stale
  BY <1>1 DEF PollStates
<1> HIDE DEF y, z
<1>7. hit => PollOK(y)
  <2>1. ASSUME hit, ~over, ~q.stale PROVE \E f \in Ids : Wanted(f, q.want)
    <3>1. Current(e) /\ e.f \in Ids
      BY <1>1, <1>3, <2>1 DEF PollOK, PollTrue, Entries
    <3> QED BY <1>2, <1>3, <2>1, <3>1, VerdictTrue
  <2> QED BY <1>6, <2>1 DEF PollOK, PollTrue, Reading
<1>8. PollOK(z)
  BY <1>1, <1>6 DEF PollOK, PollTrue, Reading
<1> QED BY <1>2, <1>3, <1>4, <1>5, <1>6, <1>7, <1>8, MatchStep

LEMMA StoreOK == ASSUME RInv, NEW a \in Polls, StoreFilteredPoll(a) PROVE RInv'
<1> DEFINE q == poll[a]
           n == [q EXCEPT !.at = "asked"]
<1>1. q \in PollStates /\ PollOK(q)
  BY PollType
<1>2. \/ q.at = "store" /\ Step(a, n)
      \/ Step(a, NoPoll)
  BY DEF StoreFilteredPoll
<1>3. UNCHANGED <<cache, comp, test, req, faults, other>>
  BY DEF StoreFilteredPoll
<1> HIDE DEF q
<1>4. n \in PollStates /\ n.at = "asked" /\ n.view = q.view /\ n.todo = q.todo /\ n.stale = q.stale /\ n.mode = q.mode /\ n.want = q.want
  BY <1>1 DEF PollStates
<1> HIDE DEF n
<1>5. q.at = "store" => PollOK(n)
  BY <1>1, <1>4 DEF PollOK, PollTrue, Reading
<1> QED BY <1>2, <1>3, <1>4, <1>5, NoPollOK, PollOnly

\* Only a label of the owner is added.
LEMMA ApplyLabels ==
  ASSUME RInv, NEW e, NEW mode, label' = label, tags' = applyFilterActions(e, mode) \/ tags' = tags
  PROVE  LabelsOwn'
<1>1. tags' \subseteq tags \cup {"webhook", "delete"} \cup {t \in Labels : label[t] = Me}
  BY DEF applyFilterActions, applyFilterAction
<1>2. Labels \cap {"webhook", "delete"} = {}
  BY RulesAssumption
<1> QED BY <1>1, <1>2 DEF RInv, LabelsOwn

LEMMA ApplyOK == ASSUME RInv, NEW a \in Polls, applySubscriberFilters(a) PROVE RInv'
<1> DEFINE q == poll[a]
<1>1. q \in PollStates /\ PollOK(q) /\ q.at = "match" /\ q.todo \subseteq Entries /\ q.view = {}
  BY PollType DEF applySubscriberFilters, PollOK, Reading
<1>p. PICK e \in q.todo : /\ Remember(e)
                          /\ \E hit \in Verdicts(e, q.want) :
                               /\ Step(a, [q EXCEPT !.todo = @ \ {e}, !.hit = @ \/ hit])
                               /\ tags' = IF hit THEN applyFilterActions(e, q.mode) ELSE tags
  BY DEF applySubscriberFilters
<1>2. PICK hit \in Verdicts(e, q.want) :
        /\ Remember(e) /\ Step(a, [q EXCEPT !.todo = @ \ {e}, !.hit = @ \/ hit])
        /\ tags' = IF hit THEN applyFilterActions(e, q.mode) ELSE tags
  BY <1>p
<1>3. e \in Entries /\ LoadedOK(e)
  BY <1>1 DEF PollOK, Reading
<1>4. UNCHANGED <<row, cache, test, label, over, faults, mix>>
  BY DEF applySubscriberFilters
<1>5. LabelsOwn'
  BY <1>2, <1>4, ApplyLabels
<1> DEFINE n == [q EXCEPT !.todo = q.todo \ {e}, !.hit = q.hit \/ hit]
<1>6. Step(a, n)
  BY <1>2
<1> HIDE DEF q
<1>7. q.hit \in BOOLEAN /\ (q.hit \/ hit) \in BOOLEAN
  BY <1>1 DEF PollStates
<1>8. /\ n \in PollStates /\ n.at = "match" /\ n.view = {} /\ n.todo = q.todo \ {e} /\ n.stale = q.stale
      /\ n.mode = q.mode /\ n.want = q.want /\ n.failed = q.failed /\ (n.hit <=> q.hit \/ hit)
  <2> DEFINE b == q.hit \/ hit
  <2>1. b \in BOOLEAN /\ n = [q EXCEPT !.todo = q.todo \ {e}, !.hit = b]
    BY <1>7
  <2> HIDE DEF b, n
  <2>2. /\ n \in PollStates /\ n.at = "match" /\ n.view = {} /\ n.todo = q.todo \ {e} /\ n.stale = q.stale
        /\ n.mode = q.mode /\ n.want = q.want /\ n.failed = q.failed /\ n.hit = b
    BY <1>1, <2>1 DEF PollStates
  <2> QED BY <2>2 DEF b
<1> HIDE DEF n
<1>9. ASSUME ~over, ~n.stale, n.mode # "full", ~n.failed PROVE n.hit \/ \E x \in n.todo : Current(x) /\ Wanted(x.f, n.want)
  <2>1. q.hit \/ \E x \in q.todo : Current(x) /\ Wanted(x.f, q.want)
    BY <1>1, <1>8, <1>9 DEF PollOK, PollTrue
  <2>2. CASE Current(e) /\ Wanted(e.f, q.want)
    <3>1. hit
      BY <1>2, <1>3, <1>9, <2>2, VerdictTrue
    <3> QED BY <1>8, <3>1
  <2>3. CASE ~(Current(e) /\ Wanted(e.f, q.want))
    BY <1>8, <2>1, <2>3
  <2> QED BY <2>2, <2>3
<1>10. PollOK(n)
  BY <1>1, <1>8, <1>9 DEF PollOK, PollTrue, Reading
<1> QED BY <1>2, <1>3, <1>4, <1>5, <1>6, <1>8, <1>10, MatchStep

LEMMA AfterStoreOK == ASSUME RInv, NEW a \in Polls, afterStore(a) PROVE RInv'
<1> DEFINE q == poll[a]
           n == [q EXCEPT !.at = "done"]
<1>1. q \in PollStates /\ PollOK(q) /\ q.at = "match" /\ q.todo = {} /\ Step(a, n) /\ UNCHANGED <<cache, comp, test, req, faults, other>>
  BY PollType DEF afterStore
<1> HIDE DEF q
<1>2. /\ n \in PollStates /\ n.at = "done" /\ n.view = q.view /\ n.todo = {} /\ n.stale = q.stale /\ n.mode = q.mode
      /\ n.failed = q.failed /\ n.hit = q.hit
  BY <1>1 DEF PollStates
<1> HIDE DEF n
<1>3. PollOK(n)
  BY <1>1, <1>2 DEF PollOK, PollTrue, Reading
<1> QED BY <1>1, <1>2, <1>3, PollOnly

LEMMA PollEndOK == ASSUME RInv, NEW a \in Polls, PollEnd(a) PROVE RInv'
<1>1. PollsOK'
  BY NoPollOK, PollStep DEF PollEnd
<1>2. LabelsOwn'
  BY DEF PollEnd, LabelsOwn
<1> QED BY <1>1, <1>2, Kept, Assemble DEF PollEnd, RInv, TypeOK

-----------------------------------------------------------------------------
LEMMA NextOK == ASSUME RInv, Next PROVE RInv'
<1>1. CASE Tick
  BY <1>1, TickOK
<1>2. ASSUME NEW r \in Reqs, NEW f \in mix.filters, NEW p \in mix.params,
             \/ handleCreateFilter(r, f, p) \/ handleFilterCreate(r, f, p)
             \/ handleUpdateFilter(r, f, p) \/ handleFilterUpdate(r, f, p)
      PROVE  RInv'
  <2>1. f \in Ids /\ p \in [n : Nat, act : Acts, enabled : BOOLEAN]
    BY MixType
  <2>2. CreateFilter(r, f, p) \/ UpdateFilter(r, f, p)
    BY <1>2 DEF handleCreateFilter, handleFilterCreate, handleUpdateFilter, handleFilterUpdate
  <2> QED BY <2>1, <2>2, CreateOK, UpdateOK
<1>3. ASSUME NEW r \in Reqs, NEW f \in mix.filters, handleDeleteFilter(r, f) \/ handleFilterDelete(r, f) PROVE RInv'
  BY <1>3, MixType, DeleteOK DEF handleDeleteFilter, handleFilterDelete
<1>4. ASSUME NEW r \in Reqs, InvalidateFilterCache(r) PROVE RInv'
  BY <1>4, InvalidateOK
<1>5. ASSUME NEW t \in mix.labels, handleLabelDelete(t) \/ \E u \in Users : handleLabelCreate(t, u) PROVE RInv'
  BY <1>5, MixType, LabelDeleteOK, LabelCreateOK
<1>6. ASSUME NEW a \in mix.polls, NEW p \in mix.procs, NEW mode \in mix.modes, NEW want \in mix.wants, PollStart(a, p, mode, want)
      PROVE  RInv'
  BY <1>6, MixType, PollStartOK
<1>7. ASSUME NEW a \in mix.polls,
             \/ listEnabledFiltersCached(a) \/ loadFilterScopeAndActions(a) \/ ListLoaded(a) \/ ListFails(a)
             \/ Sift(a) \/ StoreFilteredPoll(a) \/ applySubscriberFilters(a) \/ afterStore(a) \/ PollEnd(a)
      PROVE  RInv'
  <2>1. a \in Polls
    BY MixType
  <2> QED BY <1>7, <2>1, ListOK, LoadOK, ListLoadedOK, ListFailsOK, SiftOK, StoreOK, ApplyOK, AfterStoreOK, PollEndOK
<1>8. ASSUME NEW t \in mix.tests, getFilterRules(t) \/ handleTestFilter(t) \/ \E f \in mix.filters : GetFilter(t, f) PROVE RInv'
  BY <1>8, MixType, GetRulesOK, HandleTestOK, GetFilterOK
<1> QED BY <1>1, <1>2, <1>3, <1>4, <1>5, <1>6, <1>7, <1>8 DEF Next

LEMMA StutterOK == ASSUME RInv, UNCHANGED vars PROVE RInv'
<1>1. UNCHANGED <<row, cache, comp, poll, test, label, tags, over, faults, mix>>
  BY DEF vars
<1> QED BY <1>1, Kept, SameLabels, Assemble DEF RInv, TypeOK

LEMMA Inductive == Spec => []RInv
<1>1. RInv /\ [Next]_vars => RInv'
  BY NextOK, StutterOK
<1> QED BY InitOK, <1>1, PTL DEF Spec

\* For any filters, lists, polls, tests and limits, what the engine holds for
\* the present updated_at are the present rules and scope.
THEOREM CompiledIsCurrentHolds == Spec => []CompiledIsCurrent
<1>1. RInv => CompiledIsCurrent
  <2>1. SUFFICES ASSUME RInv, NEW f \in Ids, Exists(f), comp[f] # Gone, comp[f].key = row[f].key
                 PROVE  comp[f].rules = row[f].parts /\ comp[f].items = row[f].parts /\ (comp[f].cut => over)
    BY DEF CompiledIsCurrent
  <2>2. InStep(f, comp[f]) /\ comp[f].rules \in Nat /\ comp[f].items \in Nat
    BY <2>1, Parts, RulesAssumption DEF CompsOK, CompOK, Comps, Versions
  <2>3. row[f].key = row[f].parts /\ row[f].parts \in Nat
    BY <2>1, RowType DEF RInv, Headed
  <2> QED BY <2>1, <2>2, <2>3 DEF InStep
<1> QED BY <1>1, Inductive, PTL

\* Without an edit meanwhile, a failed or a cut list, an entry that a filtered
\* poll keeps is matched again after the store, and filters put only labels
\* of their owner on an entry.
THEOREM ActionsRightHolds == Spec => []ActionsRight
<1>1. RInv => ActionsRight
  <2>1. ASSUME RInv PROVE KeptEntryMatched
    BY <2>1 DEF RInv, PollOK, PollTrue, KeptEntryMatched
  <2> QED BY <2>1 DEF ActionsRight, RInv
<1> QED BY <1>1, Inductive, PTL
=============================================================================
