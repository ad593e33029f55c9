------------------------ MODULE MCAlertSuppression ------------------------
(***************************************************************************)
(* A small instance of AlertSuppression: two threads raise alerts of one   *)
(* exception type, as the stopped and the new follower of a rotated log    *)
(* do, and one of them those of a key that it alone uses.  A second is of  *)
(* three units, so that a reading is rounded down, up or not at all.       *)
(***************************************************************************)
EXTENDS AlertSuppression, TLC

CONSTANTS f1, f2, exc, own

MCUsers  == exc :> {f1, f2} @@ own :> {f1}
MCWindow == exc :> Second @@ own :> 0

\* Bound: one suppressed occurrence.  It changes nothing for those after it.
OneSuppressed == Cardinality(suppressed) <= 1
===========================================================================
