------------------------- MODULE MCWebhookDelivery -------------------------
(* Instances of WebhookDelivery for TLC. *)
EXTENDS WebhookDelivery, TLC

CONSTANTS w1, w2, e1, e2, u1, u2, k1, k2

OwnerEach  == [w \in Webhooks |-> IF w = w1 THEN u1 ELSE u2]
HashRead   == [w \in Webhooks |-> IF w = w1 THEN "hash" ELSE "mark_read"]
DeleteNone == [w \in Webhooks |-> IF w = w1 THEN "delete" ELSE "none"]

\* Every entry to every webhook.
AllFeed    == [e \in Entries |-> Webhooks \X {"feed"}]
\* w1 is named twice, by a filter and by the subscription.
Twice      == [e \in Entries |-> (Webhooks \X {"feed"}) \cup {<<w1, "filter">>}]
\* The second entry goes to one webhook only.
Uneven     == [e \in Entries |-> IF e = e1 THEN Webhooks \X {"feed"} ELSE {<<w1, "feed">>}]
WorkerSymmetry == Permutations(Workers)
=============================================================================
