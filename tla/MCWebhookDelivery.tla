------------------------- MODULE MCWebhookDelivery -------------------------
(***************************************************************************)
(* A small instance of WebhookDelivery.                                    *)
(***************************************************************************)
EXTENDS WebhookDelivery

\* Fresh ids are as good as each other: a certain one is always drawn first.
DrawnInOrder ==
  LET first == CHOOSE e \in Events : TRUE
  IN  origin'[first] = "unused" => \A e \in Events : origin'[e] = "unused"
OrderedNext == Next /\ DrawnInOrder
\* What is fair draws no ids.
OrderedSpec == Init /\ [][OrderedNext]_vars /\ Fairness
============================================================================
