------------------------------- MODULE Console ------------------------------
(* What an administrator and the editors work with, in one specification:     *)
(* the schedule of a feed with the panel that shows it, the advice on the     *)
(* worker pool, the settings and the panel of a webhook and OPML files.  The  *)
(* parts meet in the database only and are looked at one per scene.           *)
EXTENDS FeedPanel, WebhookAdmin, Opml

CONSTANT Topics      \* the parts that are looked at
VARIABLE topic
consoleVars == <<topic, schedVars, panelVars, adminVars, opmlVars>>

\* What the parts a scene is not about start from.
CONSTANTS RestPlan, RestLoad, RestView, RestShelf
Init ==
  /\ topic \in Topics
  /\ SchedInit /\ (plan = RestPlan) = (topic # "schedule")
  /\ PanelInit /\ (load = RestLoad) = (topic # "advice") /\ (topic # "advice" => pool = 10)
  /\ AdminInit /\ (view = RestView) = (topic # "webhook")
  /\ OpmlInit /\ (shelf = RestShelf) = (topic # "opml")

Next ==
  \/ topic = "schedule" /\ SchedNext /\ UNCHANGED <<topic, panelVars, adminVars, opmlVars>>
  \/ topic = "advice" /\ FollowAdvice /\ UNCHANGED <<topic, schedVars, adminVars, opmlVars>>
  \/ topic = "webhook" /\ AdminNext /\ UNCHANGED <<topic, schedVars, panelVars, opmlVars>>
  \/ topic = "opml" /\ OpmlNext /\ UNCHANGED <<topic, schedVars, panelVars, adminVars>>
Spec == Init /\ [][Next]_consoleVars

\* The administrator keeps following the advice; nothing else is assumed.
FairSpec == Spec /\ WF_consoleVars(topic = "advice" /\ FollowAdvice /\ UNCHANGED <<topic, schedVars, adminVars, opmlVars>>)
=============================================================================
