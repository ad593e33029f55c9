--------------------------- MODULE MCSnsWebhook ---------------------------
(***************************************************************************)
(* A small instance of SnsWebhook: a subscription, a notification, and two *)
(* messages that are rejected or ignored.                                  *)
(***************************************************************************)
EXTENDS SnsWebhook

CONSTANTS sub, note, other, stranger, w1, w2

MCKind ==
    [m \in Messages |-> CASE m = sub -> "SubscriptionConfirmation"
                          [] m = other -> "UnsubscribeConfirmation"
                          [] OTHER -> "Notification"]

MCAccepted == Messages \ {stranger}
===========================================================================
