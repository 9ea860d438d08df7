------------------------------ MODULE ProxyPool ------------------------------
(***************************************************************************)
(* The proxy-service client the Telegram fetches share (proxy/client.go):  *)
(* one working SOCKS endpoint and one HTTP client built for it, both under *)
(* one mutex, dropped when a fetch reports the endpoint bad, and the       *)
(* streak of failures the proxy_down alert looks at (proxy/health.go).     *)
(*                                                                         *)
(* The mutex is held during GET /proxy, so an allocation is one step.  A   *)
(* fetch keeps the endpoint it was given while others replace it.          *)
(***************************************************************************)
EXTENDS Naturals

CONSTANTS Proxies,      \* the endpoints the service may hand out
          Borrowers,    \* the fetches that go through them
          FailureCap    \* bound of the failure streak (20 make an outage)

ASSUME ProxyAssumption == FailureCap \in Nat \ {0} /\ "none" \notin Proxies

VARIABLES cached,    \* Client.cached
          socks,     \* the endpoint Client.socks was built for
          given,     \* the endpoint WorkingProxy gave to a fetch
          via,       \* the endpoint a fetch's request goes through
          streak     \* Health.failures

proxyVars == <<cached, socks, given, via, streak>>

Endpoint == Proxies \cup {"none"}

ProxyInit ==
  /\ cached = "none" /\ socks = "none"
  /\ given = [b \in Borrowers |-> "none"] /\ via = [b \in Borrowers |-> "none"]
  /\ streak = 0

HealthFailure == streak' = IF streak < FailureCap THEN streak + 1 ELSE streak
HealthSuccess == streak' = 0

\* WorkingProxy: the cached endpoint, or the one GET /proxy answers with.
WorkingProxy(b) ==
  /\ \E x \in IF cached # "none" THEN {cached} ELSE Proxies :
       /\ cached' = x
       /\ given' = [given EXCEPT ![b] = x]
  /\ UNCHANGED <<socks, via, streak>>

\* GET /proxy fails: nothing is cached, the fetch ends as Unavailable.
WorkingProxyFails(b) ==
  /\ cached = "none"
  /\ HealthFailure
  /\ UNCHANGED <<cached, socks, given, via>>

\* socksClient: the shared client when the cached endpoint is still the given
\* one, otherwise a new client for the given endpoint, kept only if it is the
\* cached one.
SocksClient(b) ==
  LET x == given[b]
  IN /\ via' = [via EXCEPT ![b] = IF socks # "none" /\ cached = x THEN socks ELSE x]
     /\ socks' = IF cached = x /\ socks = "none" THEN x ELSE socks
     /\ UNCHANGED <<cached, given, streak>>

\* The request succeeded.
ProxyFetched(b) ==
  /\ HealthSuccess
  /\ given' = [given EXCEPT ![b] = "none"] /\ via' = [via EXCEPT ![b] = "none"]
  /\ UNCHANGED <<cached, socks>>

MutDropWorking(x) ==      \* the client outlives the endpoint
  /\ cached' = IF cached = x THEN "none" ELSE cached
  /\ UNCHANGED socks

MutDropAny(x) ==          \* whoever complains, the cached endpoint goes
  /\ cached' = "none" /\ socks' = "none"

\* dropWorkingLocked: the cached endpoint goes only if it is the reported one;
\* the shared client goes in any case.
DropWorking(x) ==
  /\ cached' = IF cached = x THEN "none" ELSE cached
  /\ socks' = "none"

\* ReportBadProxy after a failed request; last: it was the last try.  The POST
\* to the service, and the cooldown that spares it, change nothing here.
ReportBadProxy(b, last) ==
  LET x == given[b]
  IN /\ DropWorking(x)
     /\ given' = [given EXCEPT ![b] = "none"] /\ via' = [via EXCEPT ![b] = "none"]
     /\ IF last THEN HealthFailure ELSE UNCHANGED streak

\* A fetch takes an endpoint, then a client, then asks and reports.
ProxyNext == \E b \in Borrowers :
  \/ given[b] = "none" /\ (WorkingProxy(b) \/ WorkingProxyFails(b))
  \/ given[b] # "none" /\ via[b] = "none" /\ SocksClient(b)
  \/ via[b] # "none" /\ (ProxyFetched(b) \/ \E last \in BOOLEAN : ReportBadProxy(b, last))

ProxySpec == ProxyInit /\ [][ProxyNext]_proxyVars

(***************************************************************************)
(* Properties                                                              *)
(***************************************************************************)
ProxyTypeOK ==
  /\ cached \in Endpoint /\ socks \in Endpoint
  /\ given \in [Borrowers -> Endpoint] /\ via \in [Borrowers -> Endpoint]
  /\ streak \in 0..FailureCap

\* A request goes through the endpoint it was given, and the shared client
\* belongs to the cached endpoint, although another fetch may have replaced
\* both meanwhile: a failure is reported about the endpoint that failed.
ViaOwnProxy ==
  /\ socks # "none" => socks = cached
  /\ \A b \in Borrowers : via[b] # "none" => via[b] = given[b]

\* The endpoint, its client and the requests under way fit together.
ProxyInv == ProxyTypeOK /\ ViaOwnProxy

\* "A successful endpoint is reused until ReportBadProxy for that id": a late
\* report about an older endpoint does not drop the one that replaced it.
DroppedOnlyIfReported ==
  [][cached # "none" /\ cached' # cached =>
       \E b \in Borrowers : given[b] = cached /\ given'[b] = "none"]_proxyVars

=============================================================================
