---------------------------- MODULE WebhookAdmin ----------------------------
(* One webhook as its editors see it: pages and API requests that read its    *)
(* settings and write them back in a transaction of two statements, the check *)
(* of what is written, the requests built from the row, the verdict on a      *)
(* provider's reply and the counters the panel shows.  An attempt here is the *)
(* load of the row and the mark of its outcome; claims, retries and digests   *)
(* are modelled in WebhookDelivery.                                           *)
EXTENDS Integers, FiniteSetsExt

CONSTANTS
  Editors, Logs,   \* open pages or API clients; rows of webhook_logs
  Views,           \* what a behaviour is about: [via, editors, changes, replies, logs]
  MaxSaves,        \* bound: saves, pauses and removals
  MaxAttempts      \* WEBHOOK_MAX_ATTEMPTS

\* What an editor may type: fields of the form.
FormChange(c) ==
  /\ DOMAIN c \subseteq {"kind", "url", "secret", "headers", "tmpl", "enabled", "success", "digest",
                       "base", "token", "chat", "target", "id"}
  /\ "enabled" \in DOMAIN c => c.enabled \in BOOLEAN

ASSUME WebhookAdminAssumption ==
  /\ MaxAttempts \in Nat \ {0} /\ MaxSaves \in Nat /\ IsFiniteSet(Logs)
  /\ \A v \in Views : /\ v.via \subseteq {"page", "api"} /\ v.editors \subseteq Editors
                      /\ \A c \in v.changes : FormChange(c)

\* Texts are what is left after trimming and lower-casing.
Empty == "empty"               \* a blank text
Kinds == {"http", "telegram", "max"}
Targets == {"chat_id", "channel", "user"}
Mask == "mask"                 \* the bullets shown in place of a token
NoCfg == [base |-> Empty, token |-> Empty, chat |-> Empty, target |-> Empty, id |-> Empty]
NoHook == [kind |-> "none"]

\* view; hook: the row; edit: where each editor is; log, flight: the delivery
\* rows and the webhook as an attempt loaded it; stats: the counters of the
\* row; final, taken: ghosts, the last final outcome since the counters were
\* reset and whether a provider took the row's message.
VARIABLES view, hook, edit, log, flight, stats, final, taken, saves
adminVars == <<view, hook, edit, log, flight, stats, final, taken, saves>>

(* ------------------------------ configuration ---------------------------- *)

NormalizeWebhookKind(k) == IF k = Empty THEN "http" ELSE k
NormalizeWebhookOnSuccess(s) == IF s = Empty THEN "none" ELSE s
TelegramAPIBase(b) == IF b = Empty THEN "api.telegram.org" ELSE b

\* Each parser: what it accepts and what it makes of it.
ParseTelegramProviderConfig(c) == c.token # Empty /\ c.chat # Empty
TelegramCfg(c) == [base |-> c.base, token |-> c.token, chat |-> c.chat, target |-> Empty, id |-> Empty]
ParseMaxProviderConfig(c) == c.base # Empty /\ c.target \in Targets \cup {Empty} /\ c.id # Empty
MaxCfg(c) == [base |-> c.base, token |-> Empty, chat |-> Empty, target |-> IF c.target = Empty THEN "chat_id" ELSE c.target, id |-> c.id]

TelegramDisplayURL(c) == <<"telegram", TelegramAPIBase(c.base)>>
TelegramSendURL(c) == <<"telegram", TelegramAPIBase(c.base), c.token>>
maxMessagesPath(c) == <<"max", c.base, c.target, c.id>>

MaskTelegramConfig(c) == IF ParseTelegramProviderConfig(c) THEN [TelegramCfg(c) EXCEPT !.token = Mask] ELSE NoCfg
\* "leave blank to keep it": a blank token is taken from the row.
MergeTelegramToken(new, old) == IF new.token # Empty THEN new ELSE [new EXCEPT !.token = old.token]

\* Whether a write is accepted, and the kind, url and provider_config it stores.
MutAccepts(kind, url, c) ==
  \/ kind = "telegram" /\ c.chat # Empty
  \/ kind = "max" /\ ParseMaxProviderConfig(c)
  \/ kind = "http" /\ url \notin {<<"http", Empty>>, <<"http", "noscheme">>}
Accepts(kind, url, c) ==
  \/ kind = "telegram" /\ ParseTelegramProviderConfig(c)
  \/ kind = "max" /\ ParseMaxProviderConfig(c)
  \/ kind = "http" /\ url \notin {<<"http", Empty>>, <<"http", "noscheme">>}
ResolveWebhookWrite(kind, url, c) ==
  CASE kind = "telegram" -> [kind |-> kind, url |-> TelegramDisplayURL(c), cfg |-> TelegramCfg(c)]
    [] kind = "max" -> [kind |-> kind, url |-> maxMessagesPath(MaxCfg(c)), cfg |-> MaxCfg(c)]
    [] OTHER -> [kind |-> kind, url |-> url, cfg |-> NoCfg]

\* The row CreateWebhook inserts and UpdateWebhook writes.
WriteOf(f, c, secret) ==
  LET w == ResolveWebhookWrite(f.kind, f.url, c) IN
  [kind |-> w.kind, url |-> w.url, cfg |-> w.cfg, secret |-> IF w.kind = "http" THEN secret ELSE Empty,
   headers |-> f.headers, tmpl |-> f.tmpl, enabled |-> f.enabled,
   success |-> NormalizeWebhookOnSuccess(f.success), digest |-> f.digest]
WriteAllowed(f) ==
  /\ f.kind \in Kinds /\ f.headers # "broken"
  /\ NormalizeWebhookOnSuccess(f.success) \in {"none", "hash", "delete", "mark_read"}
  /\ f.digest \in 0..1440

(* --------------------------------- editors ------------------------------- *)

Idle == [at |-> "idle", typed |-> {}, fresh |-> FALSE]
CfgOf(f) == [base |-> f.base, token |-> f.token, chat |-> f.chat, target |-> f.target, id |-> f.id]
Form(c, w, secret, headers) ==
  [kind |-> w.kind, url |-> w.url, secret |-> secret, headers |-> headers, tmpl |-> w.tmpl, enabled |-> w.enabled,
   success |-> w.success, digest |-> w.digest,
   base |-> c.base, token |-> c.token, chat |-> c.chat, target |-> c.target, id |-> c.id]
\* The page shows the secret of an HTTP webhook, no headers and no token.
MutFill(w) == Form([w.cfg EXCEPT !.token = Empty], w, Empty, Empty)
fillWebhookProviderFields(w) == Form([w.cfg EXCEPT !.token = Empty], w, w.secret, Empty)
\* The API shows the headers, a masked token and no secret: none keeps it.
toWebhookDTO(w) ==
  Form(IF w.kind = "telegram" THEN MaskTelegramConfig(w.cfg) ELSE w.cfg, w, "keep", w.headers)

Blank == [kind |-> "http", url |-> <<"http", Empty>>, secret |-> Empty, headers |-> Empty, tmpl |-> Empty, enabled |-> TRUE,
          success |-> Empty, digest |-> 0, base |-> Empty, token |-> Empty, chat |-> Empty, target |-> Empty, id |-> Empty]
Changed(f, c) == [x \in DOMAIN f |-> IF x \in DOMAIN c THEN c[x] ELSE f[x]]

\* Any other write of the row makes what an editor holds stale.
Stale(ed, e) == [x \in Editors |-> IF x = e THEN Idle ELSE [ed[x] EXCEPT !.fresh = FALSE]]
Save == saves < MaxSaves /\ saves' = saves + 1
AttemptsRest == UNCHANGED <<log, flight, stats, final, taken>>

AdminInit ==
  /\ view \in Views
  /\ hook = NoHook /\ edit = [e \in Editors |-> Idle]
  /\ log = [l \in Logs |-> [status |-> "none", attempt |-> 0, due |-> TRUE]] /\ flight = [l \in Logs |-> NoHook]
  /\ stats = [sent |-> 0, failed |-> 0, lastSent |-> 0, lastFailed |-> 0, error |-> FALSE]
  /\ final = "none" /\ taken = [l \in Logs |-> FALSE] /\ saves = 0

\* providerConfigFromWrite and webhookParamsFromForm: an API request names an
\* address the guard lets through, a form only some address.
webhookParamsFromForm(via, f) ==
  f.kind = "http" => (f.url # <<"http", Empty>> /\ (via = "api" => f.url # <<"http", "private">>))
CreateWebhook(via, c) ==
  LET f == [Changed(Blank, c) EXCEPT !.kind = NormalizeWebhookKind(@)] IN
  /\ Save /\ hook = NoHook /\ webhookParamsFromForm(via, f) /\ WriteAllowed(f) /\ Accepts(f.kind, f.url, CfgOf(f))
  /\ hook' = WriteOf(f, CfgOf(f), f.secret)
  /\ stats' = [sent |-> 0, failed |-> 0, lastSent |-> 0, lastFailed |-> 0, error |-> FALSE] /\ final' = "none"
  /\ UNCHANGED <<view, edit, log, flight, taken>>

\* A page is opened, or an API client reads the webhook.
handleWebhookEdit(e, via) ==
  /\ edit[e].at = "idle" /\ hook # NoHook /\ saves < MaxSaves
  /\ edit' = [edit EXCEPT ![e] =
       [at |-> "open", via |-> via, typed |-> {}, fresh |-> TRUE,
        form |-> IF via = "page" THEN fillWebhookProviderFields(hook) ELSE toWebhookDTO(hook)]]
  /\ UNCHANGED <<view, hook, saves>> /\ AttemptsRest

\* The request is checked and the transaction of UpdateWebhook has read the row.
handleWebhookUpdate(e, c) ==
  LET f == [Changed(edit[e].form, c) EXCEPT !.kind = NormalizeWebhookKind(@)]
      cfg == IF f.kind = "telegram" THEN MergeTelegramToken(CfgOf(f), hook.cfg) ELSE CfgOf(f)
      ok == webhookParamsFromForm(edit[e].via, f) /\ WriteAllowed(f) /\ hook # NoHook /\ Accepts(f.kind, f.url, cfg)
      typed == {x \in DOMAIN c : edit[e].form[x] # c[x]}
  IN /\ edit[e].at = "open"
     /\ edit' = [edit EXCEPT ![e] =
          IF ok THEN [at |-> "write", via |-> edit[e].via, typed |-> typed, fresh |-> edit[e].fresh,
                      row |-> WriteOf(f, cfg, IF f.secret = "keep" THEN hook.secret ELSE f.secret)]
          ELSE [at |-> "refused", typed |-> typed, fresh |-> edit[e].fresh]]
     /\ UNCHANGED <<view, hook, saves>> /\ AttemptsRest

\* The second statement; the row may have gone in between.
UpdateWebhook(e) ==
  /\ edit[e].at = "write" /\ Save
  /\ hook' = IF hook = NoHook THEN NoHook ELSE edit[e].row
  /\ edit' = IF hook = NoHook THEN [edit EXCEPT ![e] = Idle] ELSE Stale(edit, e)
  /\ UNCHANGED view /\ AttemptsRest
EditEnds(e) ==
  /\ edit[e].at = "refused" /\ edit' = [edit EXCEPT ![e] = Idle]
  /\ UNCHANGED <<view, hook, saves>> /\ AttemptsRest

setWebhookEnabled(on) ==
  /\ hook # NoHook /\ hook.enabled # on /\ Save
  /\ hook' = [hook EXCEPT !.enabled = on] /\ edit' = [x \in Editors |-> [edit[x] EXCEPT !.fresh = FALSE]]
  /\ UNCHANGED view /\ AttemptsRest
\* The delivery rows go with the webhook; a flying attempt marks nothing.
DeleteWebhook ==
  /\ hook # NoHook /\ Save
  /\ hook' = NoHook /\ log' = [l \in Logs |-> [status |-> "none", attempt |-> 0, due |-> TRUE]]
  /\ edit' = [x \in Editors |-> [edit[x] EXCEPT !.fresh = FALSE]]
  /\ taken' = [l \in Logs |-> FALSE] /\ flight' = [l \in Logs |-> NoHook]
  /\ UNCHANGED <<view, stats, final>>

(* -------------------------------- attempts ------------------------------- *)

\* A request can be built: the configuration parses and the template renders.
BuildWebhookOutbound(w) ==
  /\ w.kind = "telegram" => ParseTelegramProviderConfig(w.cfg)
  /\ w.kind = "max" => ParseMaxProviderConfig(w.cfg)
  /\ w.tmpl # "broken"
RequestURL(w) ==
  CASE w.kind = "telegram" -> TelegramSendURL(w.cfg)
    [] w.kind = "max" -> maxMessagesPath(w.cfg)
    [] OTHER -> w.url
Guarded(w) == RequestURL(w) # <<"http", "private">>

\* A reply [code, says, long]: code 0 stands for none; says is what the whole
\* body means to the provider's client.  Only the head of a body is read.
readSnippet(r) == IF r.long THEN "other" ELSE r.says
Is2xx(r) == r.code \in 200..299
ProviderDeliveryOK(kind, r) == Is2xx(r) /\ (kind = "http" \/ readSnippet(r) = "yes")
webhookHTTPRetryable(r) == r.code \in {0, 408, 429} \/ r.code >= 500
\* What the provider did, whatever was read of its reply.
Took(kind, r) == Is2xx(r) /\ (kind = "http" \/ r.says = "yes")

Enqueue(l) ==
  /\ hook # NoHook /\ log[l].status = "none" /\ l \in view.logs
  /\ log' = [log EXCEPT ![l] = [status |-> "pending", attempt |-> 0, due |-> TRUE]]
  /\ taken' = [taken EXCEPT ![l] = FALSE]
  /\ UNCHANGED <<view, hook, edit, flight, stats, final, saves>>
LoadWebhookDeliveryContext(l) ==
  /\ log[l].status \in {"pending", "failed"} /\ log[l].due /\ flight[l] = NoHook
  /\ flight' = [flight EXCEPT ![l] = hook]
  /\ UNCHANGED <<view, hook, edit, log, stats, final, taken, saves>>

More(n) == Min({n + 1, 2})     \* bound: totals are told apart from zero
\* The ranks 1 and 2 stand for an earlier and a later time.
Earlier(t) == Min({t, 1})
MarkWebhookLogSent ==
  [stats EXCEPT !.sent = More(@), !.lastSent = 2, !.lastFailed = Earlier(@)]
MarkWebhookLogFailed(dead) ==
  IF dead THEN [stats EXCEPT !.failed = More(@), !.lastFailed = 2, !.lastSent = Earlier(@), !.error = TRUE]
  ELSE IF hook.enabled THEN [stats EXCEPT !.error = TRUE]
  ELSE stats

\* deliverWebhookLog from the loaded context to the mark; a row that is gone
\* is not marked and counts for nothing.
Mark(l, status, n) ==
  /\ log' = IF log[l].status = "none" THEN log
            ELSE [log EXCEPT ![l] = [status |-> status, attempt |-> Min({n, MaxAttempts}), due |-> status # "failed"]]
  /\ IF log[l].status = "none" THEN UNCHANGED <<stats, final>>
     ELSE /\ stats' = IF status = "sent" THEN MarkWebhookLogSent ELSE MarkWebhookLogFailed(status = "dead")
          /\ final' = IF status = "failed" THEN final ELSE status
deliverWebhookLog(l, r) ==
  LET w == flight[l]
      n == log[l].attempt + 1
  IN /\ w # NoHook
     /\ IF ~w.enabled THEN Mark(l, "failed", n - 1) /\ UNCHANGED taken
        ELSE IF ~(BuildWebhookOutbound(w) /\ Guarded(w)) THEN Mark(l, "dead", n) /\ UNCHANGED taken
        ELSE /\ taken' = [taken EXCEPT ![l] = @ \/ Took(w.kind, r)]
             /\ IF ProviderDeliveryOK(w.kind, r) THEN Mark(l, "sent", n)
                ELSE IF r.code = 429 THEN Mark(l, "failed", n - 1)
                ELSE Mark(l, IF webhookHTTPRetryable(r) /\ n < MaxAttempts THEN "failed" ELSE "dead", n)
     /\ flight' = [flight EXCEPT ![l] = NoHook]
     /\ UNCHANGED <<view, hook, edit, saves>>

RetryDue(l) ==
  /\ log[l].status = "failed" /\ ~log[l].due /\ log' = [log EXCEPT ![l].due = TRUE]
  /\ UNCHANGED <<view, hook, edit, flight, stats, final, taken, saves>>
RetryAllWebhookLogs ==
  /\ \E l \in Logs : log[l].status \in {"failed", "dead"}
  /\ log' = [l \in Logs |-> IF log[l].status \in {"failed", "dead"} THEN [log[l] EXCEPT !.status = "pending", !.due = TRUE] ELSE log[l]]
  /\ UNCHANGED <<view, hook, edit, flight, stats, final, taken, saves>>
ResetWebhookStats ==
  /\ hook # NoHook /\ final # "none"
  /\ stats' = [sent |-> 0, failed |-> 0, lastSent |-> 0, lastFailed |-> 0, error |-> FALSE] /\ final' = "none"
  /\ UNCHANGED <<view, hook, edit, log, flight, taken, saves>>
PurgeLogs(l) ==
  /\ log[l].status # "none"
  /\ log' = [log EXCEPT ![l] = [status |-> "none", attempt |-> 0, due |-> TRUE]] /\ taken' = [taken EXCEPT ![l] = FALSE]
  /\ UNCHANGED <<view, hook, edit, flight, stats, final, saves>>

(* -------------------------------- the panel ------------------------------ *)

queueDue == Cardinality({l \in Logs : log[l].status = "pending" \/ (log[l].status = "failed" /\ log[l].due)})
retrying == Cardinality({l \in Logs : log[l].status = "failed" /\ ~log[l].due})
webhookLastOutcomeFailed == stats.lastFailed # 0 /\ (stats.lastSent = 0 \/ stats.lastFailed > stats.lastSent)
classifyAdminWebhookStatus ==
  IF ~hook.enabled THEN "disabled"
  ELSE IF webhookLastOutcomeFailed THEN "error"
  ELSE IF queueDue > 0 THEN "queue"
  ELSE IF retrying > 0 THEN "retrying"
  ELSE IF stats.sent = 0 THEN "idle" ELSE "ok"
ListFailingWebhooks == hook.enabled /\ stats.lastFailed # 0 /\ (stats.lastSent = 0 \/ stats.lastFailed > stats.lastSent)

AdminNext ==
  \/ \E via \in view.via, c \in view.changes : CreateWebhook(via, c)
  \/ \E e \in view.editors :
       \/ \E via \in view.via : handleWebhookEdit(e, via)
       \/ \E c \in view.changes : handleWebhookUpdate(e, c)
       \/ UpdateWebhook(e) \/ EditEnds(e)
  \/ \E on \in BOOLEAN : setWebhookEnabled(on)
  \/ DeleteWebhook
  \/ \E l \in Logs :
       \/ Enqueue(l) \/ LoadWebhookDeliveryContext(l) \/ RetryDue(l) \/ PurgeLogs(l)
       \/ \E r \in view.replies : deliverWebhookLog(l, r)
  \/ RetryAllWebhookLogs \/ ResetWebhookStats
AdminSpec == AdminInit /\ [][AdminNext]_adminVars

(* ------------------------------- properties ------------------------------ *)

AdminTypeOK ==
  /\ view \in Views /\ saves \in 0..MaxSaves
  /\ hook = NoHook \/ (hook.kind \in Kinds /\ hook.enabled \in BOOLEAN /\ DOMAIN hook.cfg = DOMAIN NoCfg)
  /\ \A e \in Editors : edit[e].at \in {"idle", "open", "write", "refused"}
  /\ \A l \in Logs : log[l].status \in {"none", "pending", "failed", "sent", "dead"} /\ log[l].attempt \in 0..MaxAttempts
  /\ stats \in [sent : 0..2, failed : 0..2, lastSent : 0..2, lastFailed : 0..2, error : BOOLEAN]
  /\ final \in {"none", "sent", "dead"}

\* Whatever editors saved over each other, a request can be built from the
\* row as far as its settings go, and a provider's row keeps no HMAC secret.
HookBuilds ==
  hook # NoHook => (BuildWebhookOutbound([hook EXCEPT !.tmpl = Empty]) /\ (hook.kind # "http" => hook.secret = Empty))

Commits(e) == edit[e].at = "write" /\ edit'[e].at = "idle" /\ hook # NoHook /\ edit[e].fresh
\* A save changes what was typed and nothing else, as long as nobody else
\* wrote since the page was opened: a blank token keeps the token, an API
\* request without a secret keeps the secret, and what was not touched is
\* accepted again.  Two exceptions: the page has no custom headers, and the
\* API hands out a masked token.
OnlyTypedChanges ==
  [][\A e \in Editors :
       /\ (Commits(e) /\ hook'.kind = hook.kind) =>
            /\ \A x \in DOMAIN NoCfg \ edit[e].typed : hook'.cfg[x] = hook.cfg[x] \/ (x = "token" /\ edit[e].via = "api")
            /\ \A x \in {"secret", "tmpl", "enabled", "success", "digest"} \ edit[e].typed : hook'[x] = hook[x]
            /\ edit[e].via = "page" \/ "headers" \in edit[e].typed \/ hook'.headers = hook.headers
       /\ (edit'[e].at = "refused" /\ edit'[e].typed = {} /\ edit'[e].fresh) => ~Guarded(hook)]_adminVars

\* The panel and the system alert say what happened last: an error only after
\* a delivery that gave up, through requeues, purged logs and a pause, and no
\* open delivery is hidden behind "ok" or "idle".
PanelTruthful ==
  hook # NoHook =>
    LET s == classifyAdminWebhookStatus IN
    /\ (s = "error") = (hook.enabled /\ final = "dead")
    /\ ListFailingWebhooks = (s = "error")
    /\ s = "ok" => final = "sent"
    /\ s = "idle" => final = "none"
    /\ s \in {"ok", "idle"} => \A l \in Logs : log[l].status \notin {"pending", "failed"}

\* A delivery is recorded as sent only if the provider took the message.
SentMeansTaken == \A l \in Logs : log[l].status = "sent" => taken[l]

\* A webhook works as it was saved and the panel tells how it went.
HookSound == AdminTypeOK /\ HookBuilds /\ PanelTruthful /\ SentMeansTaken
=============================================================================
