------------------------------ MODULE Service -------------------------------
(* The processes of the service with what lives in them: a start loads the    *)
(* bridge settings before it serves, the process that gets the worker lock    *)
(* runs the alerter, and a process that ends takes its hub, its alerter and   *)
(* its requests with it.                                                      *)
EXTENDS Boot, Alerts, Realtime, BridgeSettings

CONSTANTS
  Scenes,      \* what a behaviour is about: [parts, procs, starts, max, schema, forms]
  HubOf        \* the process whose hub is watched

VARIABLE scene
svcVars == <<bootVars, alertVars, hubVars, bridgeVars, scene>>

Parts == {"boot", "alerts", "hub", "bridges"}
ASSUME ServiceAssumption ==
  /\ HubOf \in Procs /\ AProcs = Procs /\ BProcs = Procs
  /\ \A s \in Scenes : s.parts \subseteq Parts /\ s.procs \subseteq Procs /\ s.starts \subseteq Starts /\ s.schema \subseteq 0..Files
                      /\ s.forms \subseteq Forms

Init ==
  /\ BootInit /\ AlertsInit /\ HubInit /\ BridgeInit
  /\ scene \in Scenes
  /\ Cardinality(recorded) \in scene.schema
  /\ "alerts" \notin scene.parts => hooks = {}

In(part) == part \in scene.parts
Up == {p \in Procs : pc[p] = "up"}
\* Requests are looked at once the worker goroutine has asked for its lock.
Ready(p) == pc[p] = "up" /\ wk[p] # "starting"

\* Steps that stay within the start of a process.
Booting(p) ==
  /\ \/ starts < scene.max /\ \E s \in scene.starts : StartProcess(p, s)
     \/ BootSteps(p)
     \/ In("boot") /\ (StartFails(p) \/ LockLost(p))
  /\ UNCHANGED <<alertVars, hubVars, bridgeVars, scene>>

\* main loads the bridge settings and starts to serve.
GoUp(p) == Serve(p) /\ LoadBridges(p) /\ UNCHANGED <<alertVars, hubVars, scene>>

\* The worker goroutine: the process that gets the lock starts the alerter.
RunWorkers(p) ==
  /\ TryWorkerLock(p)
  /\ IF workLock = Free /\ In("alerts") THEN load(p) ELSE UNCHANGED alertVars
  /\ UNCHANGED <<hubVars, bridgeVars, scene>>

\* SIGTERM cancels the context the alerter works with.
GoDown(p) == (In("boot") \/ In("alerts")) /\ Shutdown(p) /\ AlerterGone(p) /\ UNCHANGED <<hubVars, bridgeVars, scene>>

\* Where the start itself is not looked at, only serving processes crash.
Gone(p) ==
  /\ In("boot") \/ pc[p] \in {"up", "exit", "stopping"}
  /\ ProcessGone(p) /\ AlerterGone(p) /\ SavesGone(p)
  /\ IF p = HubOf THEN HubGone ELSE UNCHANGED hubVars
  /\ UNCHANGED scene

Alerting(p) ==
  /\ wk[p] = "running" /\ pc[p] = "up" /\ In("alerts") /\ AlertSteps(p)
  /\ UNCHANGED <<bootVars, hubVars, bridgeVars, scene>>
Around == In("alerts") /\ Surroundings /\ UNCHANGED <<bootVars, hubVars, bridgeVars, scene>>

Publishing ==
  /\ Ready(HubOf) /\ In("hub") /\ (HubInput \/ HubSteps)
  /\ UNCHANGED <<bootVars, alertVars, bridgeVars, scene>>

Configuring(s) ==
  /\ In("bridges")
  /\ \/ \E p \in {q \in Procs : Ready(q)}, form \in scene.forms : BeginSave(s, p, form)
     \/ BridgeSteps(s)
  /\ UNCHANGED <<bootVars, alertVars, hubVars, scene>>

Next ==
  \/ \E p \in scene.procs : Booting(p) \/ GoUp(p) \/ RunWorkers(p) \/ GoDown(p) \/ Gone(p) \/ Alerting(p)
  \/ Around \/ Publishing
  \/ \E s \in Saves : Configuring(s)

Spec == Init /\ [][Next]_svcVars

\* A process that is starting or ending goes on, and so do the goroutines of
\* the hub and of the alerter; nothing makes a process start, stop or crash.
\* This is weaker than fairness for each goroutine, which the Go scheduler gives.
Onward(p) ==
  \/ BootSteps(p) /\ UNCHANGED <<alertVars, hubVars, bridgeVars, scene>>
  \/ GoUp(p) \/ RunWorkers(p)
  \/ pc[p] \in {"exit", "conflict", "stopping"} /\ Gone(p)
HubOnward == Ready(HubOf) /\ In("hub") /\ HubSteps /\ UNCHANGED <<bootVars, alertVars, bridgeVars, scene>>
Fairness ==
  /\ WF_svcVars((\E p \in Procs : Onward(p)) \/ HubOnward)
  /\ WF_svcVars(\E p \in Procs : Alerting(p))
FairSpec == Spec /\ Fairness

(* ------------------------------- properties ------------------------------ *)

\* The row, the runtime and the handlers of every serving process agree.
BridgesAgree == BridgeTypeOK /\ SettingsAgree(Up)

\* Starts end, closed connections are cleaned up, lasting problems noticed.
ServiceProgress == StartEnds /\ PumpsEnd /\ AlertNoticed
=============================================================================
