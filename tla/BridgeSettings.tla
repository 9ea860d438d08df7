--------------------------- MODULE BridgeSettings ---------------------------
(* The bridge settings: a row of app_settings merged over the environment     *)
(* into each process's Runtime, and from there into the bridge handlers.  An  *)
(* administrator's form reads the runtime, changes one bridge and saves all   *)
(* of them; requests of one or several processes may overlap.                 *)
EXTENDS Integers, Sequences

CONSTANTS
  BProcs,      \* processes
  Saves,       \* form requests
  Forms,       \* submitted forms: [bridge, values]
  Env,         \* the environment's settings
  Rejected,    \* values of Max's API base that validateAPIBase refuses
  MaxSaves,    \* bound: saves per behaviour
  Null

\* One field for each way a setting is merged: 0 is the empty string or an
\* unset number, and -1 a duration left blank or unparsable.
Bridges == {"telegram", "max", "vk", "rutube"}
Fields == [telegram |-> {"service", "useProxy", "timeout", "retry", "pages"}, max |-> {"base", "limit", "private"},
           vk |-> {"token"}, rutube |-> {"url"}]
AllFields == UNION {Fields[b] : b \in Bridges}

ASSUME BridgeAssumption ==
  /\ MaxSaves \in Nat /\ Null \notin [AllFields -> Int]
  /\ Env \in [AllFields -> Nat]
  /\ \A f \in Forms : f.bridge \in Bridges /\ f.values \in [Fields[f.bridge] -> Int]

VARIABLES
  row,      \* app_settings.bridges, or Null
  rt,       \* process -> Manager.runtime
  hd,       \* process -> what its bridge handlers run with
  sv,       \* request -> its progress
  stale,    \* processes another save may have overtaken
  saves
bridgeVars == <<row, rt, hd, sv, stale, saves>>

(* -------------------------------- merging -------------------------------- *)

Stored0 == [f \in AllFields |-> IF f = "timeout" THEN -1 ELSE 0]
Over(f, cond, s, e) == IF cond THEN s[f] ELSE e[f]

applyTelegramStored(e, s) ==
  [service |-> Over("service", s["service"] # 0, s, e),
   useProxy |-> IF s["useProxy"] # 0 \/ s["service"] # 0 THEN 1 ELSE IF e["service"] # 0 THEN 1 ELSE 0,
   timeout |-> Over("timeout", s["timeout"] >= 0, s, e),
   retry |-> Over("retry", s["retry"] >= 0, s, e),
   pages |-> Over("pages", s["pages"] > 0, s, e)]
applyMaxStored(e, s) ==
  [base |-> Over("base", s["base"] # 0, s, e),
   limit |-> Over("limit", s["limit"] > 0, s, e),
   private |-> s["private"]]
applyVKStored(e, s) == [token |-> Over("token", s["token"] # 0, s, e)]
applyRutubeStored(e, s) == [url |-> Over("url", s["url"] # 0, s, e)]

MergeEnv(e, s) ==
  LET tg == applyTelegramStored(e, s)
      mx == applyMaxStored(e, s)
      vk == applyVKStored(e, s)
      ru == applyRutubeStored(e, s)
  IN [f \in AllFields |-> CASE f \in Fields["telegram"] -> tg[f] [] f \in Fields["max"] -> mx[f]
                            [] f \in Fields["vk"] -> vk[f] [] f \in Fields["rutube"] -> ru[f]]

\* The form's starting point: the runtime, durations as text that parses again.
MutRuntimeToStored(r) == [f \in AllFields |-> IF f = "private" THEN 0 ELSE r[f]]
RuntimeToStored(r) == [f \in AllFields |-> r[f]]
ParseStored(raw) == IF raw = Null THEN Stored0 ELSE raw

\* What a form leaves blank: numbers and tokens keep the current value, texts
\* and durations become empty, and a switch is off.
Filled(form, cur) ==
  [f \in AllFields |->
     IF f \notin Fields[form.bridge] THEN cur[f]
     ELSE LET v == form.values[f] IN
          IF f \in {"retry", "pages", "limit"} THEN (IF v = -1 THEN cur[f] ELSE v)
          ELSE IF f = "token" THEN (IF v = 0 THEN cur[f] ELSE v)
          ELSE v]

(* --------------------------------- state --------------------------------- *)

NoSave == [pc |-> "idle", p |-> Null, bridge |-> Null, stored |-> Null, snap |-> Null, todo |-> <<>>]

BridgeInit ==
  /\ row = Null
  /\ rt = [p \in BProcs |-> MergeEnv(Env, Stored0)]
  /\ hd = [p \in BProcs |-> Env]
  /\ sv = [s \in Saves |-> NoSave]
  /\ stale = {} /\ saves = 0

Active == {s \in Saves : sv[s].pc # "idle"}
\* Max refuses a new configuration whose API base does not validate, and the
\* manager ignores its error.
Takes(b, r) == ~(b = "max" /\ r["base"] \in Rejected)
Adopt(old, b, r) == [f \in AllFields |-> IF f \in Fields[b] /\ Takes(b, r) THEN r[f] ELSE old[f]]
ApplyAll(old, r) == [f \in AllFields |-> LET b == CHOOSE x \in Bridges : f \in Fields[x] IN IF Takes(b, r) THEN r[f] ELSE old[f]]

\* Manager.Load while the process starts: nothing else uses its handlers yet.
LoadBridges(p) ==
  LET r == MergeEnv(Env, ParseStored(row)) IN
  /\ rt' = [rt EXCEPT ![p] = r]
  /\ hd' = [hd EXCEPT ![p] = ApplyAll(Env, r)]
  /\ stale' = IF Active = {} THEN stale \ {p} ELSE stale \cup {p}
  /\ UNCHANGED <<row, sv, saves>>

\* A save handler takes the stored form of the runtime and fills in its form.
BeginSave(s, p, form) ==
  /\ sv[s].pc = "idle" /\ saves < MaxSaves
  /\ saves' = saves + 1
  /\ sv' = [sv EXCEPT ![s] = [NoSave EXCEPT !.pc = "row", !.p = p, !.bridge = form.bridge,
                                            !.stored = Filled(form, RuntimeToStored(rt[p]))]]
  /\ stale' = IF Active = {} THEN stale ELSE stale \cup {p} \cup {sv[o].p : o \in Active}
  /\ UNCHANGED <<row, rt, hd>>

\* SetAppSetting, before anything in memory changes; an error ends the save.
\* Other processes learn of the row when they start.
SaveRow(s) ==
  /\ sv[s].pc = "row"
  /\ row' = sv[s].stored
  /\ sv' = [sv EXCEPT ![s].pc = "runtime"]
  /\ stale' = stale \cup (BProcs \ {sv[s].p})
  /\ UNCHANGED <<rt, hd, saves>>
\* The runtime was replaced before the row.
MutSaveFails(s) ==
  /\ sv[s].pc = "row"
  /\ rt' = [rt EXCEPT ![sv[s].p] = MergeEnv(Env, sv[s].stored)]
  /\ sv' = [sv EXCEPT ![s] = NoSave]
  /\ UNCHANGED <<row, hd, stale, saves>>
SaveFails(s) ==
  /\ sv[s].pc = "row"
  /\ sv' = [sv EXCEPT ![s] = NoSave]
  /\ UNCHANGED <<row, rt, hd, stale, saves>>

SaveRuntime(s) ==
  /\ sv[s].pc = "runtime"
  /\ rt' = [rt EXCEPT ![sv[s].p] = MergeEnv(Env, sv[s].stored)]
  /\ sv' = [sv EXCEPT ![s].pc = "snap"]
  /\ UNCHANGED <<row, hd, stale, saves>>

\* apply copies the runtime under the lock and hands it to the handlers one
\* after the other without it.
ApplySnap(s) ==
  /\ sv[s].pc = "snap"
  /\ sv' = [sv EXCEPT ![s].pc = "apply", ![s].snap = rt[sv[s].p], ![s].todo = <<"telegram", "max", "vk", "rutube">>]
  /\ UNCHANGED <<row, rt, hd, stale, saves>>
ApplyTo(s) ==
  /\ sv[s].pc = "apply"
  /\ hd' = [hd EXCEPT ![sv[s].p] = Adopt(@, Head(sv[s].todo), sv[s].snap)]
  /\ sv' = [sv EXCEPT ![s] = IF Len(@.todo) = 1 THEN NoSave ELSE [sv[s] EXCEPT !.todo = Tail(@)]]
  /\ UNCHANGED <<row, rt, stale, saves>>

\* The process of a request is gone.
SavesGone(p) ==
  /\ sv' = [s \in Saves |-> IF sv[s].p = p THEN NoSave ELSE sv[s]]
  /\ stale' = stale \cup {p}
  /\ UNCHANGED <<row, rt, hd, saves>>

BridgeSteps(s) == SaveRow(s) \/ SaveFails(s) \/ SaveRuntime(s) \/ ApplySnap(s) \/ ApplyTo(s)

(* ------------------------------- properties ------------------------------ *)

BridgeTypeOK ==
  /\ row = Null \/ row \in [AllFields -> Int]
  /\ rt \in [BProcs -> [AllFields -> Int]] /\ hd \in [BProcs -> [AllFields -> Int]]
  /\ stale \subseteq BProcs /\ saves \in 0..MaxSaves
  /\ \A s \in Saves : sv[s].pc \in {"idle", "row", "runtime", "snap", "apply"}

\* The row, the runtime and the handlers of a process tell the same story once
\* its saves are done, unless two saves overlapped or another process saved
\* since it started; Max keeps its last accepted settings when it refuses new ones.
SettingsAgree(up) ==
  \A p \in up \ stale : Active = {} =>
     /\ rt[p] = MergeEnv(Env, ParseStored(row))
     /\ \A b \in Bridges : Takes(b, rt[p]) => \A f \in Fields[b] : hd[p][f] = rt[p][f]

\* Saving one bridge's form changes nothing of the others, although all of
\* them are written out and merged again.
OthersKept ==
  [][\A s \in Saves : sv[s].pc = "runtime" /\ sv'[s].pc = "snap" /\ sv[s].p \notin stale =>
       \A f \in AllFields \ Fields[sv[s].bridge] : rt'[sv[s].p][f] = rt[sv[s].p][f]]_bridgeVars
=============================================================================
