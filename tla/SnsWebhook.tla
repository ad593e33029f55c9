---------------------------- MODULE SnsWebhook ----------------------------
(***************************************************************************)
(* The SNS webhook: SNS posts each message until it is acknowledged, also  *)
(* while an earlier copy is still being handled; workers of several        *)
(* processes handle the copies at the same time:                           *)
(*                                                                         *)
(*     check the key and the topic            Reject, or go on             *)
(*     urlopen(SubscribeURL)                  Confirm*                     *)
(*     query.filter_by(message_id).first()    Known, or Unknown            *)
(*     session.add(SnsNotification); commit   Insert, InsertFails          *)
(*     answer 200; an exception answers 500   Acknowledge, Refuse          *)
(*                                                                         *)
(* SNS gives every message a MessageId.                                    *)
(***************************************************************************)
EXTENDS Naturals

CONSTANTS
    Messages,
    Workers,      \* requests that are handled at a time
    Kind,         \* Kind[m]: the header x-amz-sns-message-type
    Accepted,     \* the messages whose key and topic are accepted
    MaxFaults     \* bound on lost answers, failing calls and killed workers

Kinds == {"SubscriptionConfirmation", "Notification", "UnsubscribeConfirmation"}

ASSUME WebhookAssumption ==
    /\ Kind \in [Messages -> Kinds] /\ Accepted \subseteq Messages
    /\ MaxFaults \in Nat

VARIABLES
    req,          \* the request that each worker handles
    acked,        \* SNS: the messages that were answered with 200
    refused,      \* SNS: the messages that were answered with 403, not sent again
    confirmed,    \* SNS: the subscriptions whose URL was fetched
    rows,         \* rows[m]: the rows of sns_notification with the MessageId of m
    faults

vars == <<req, acked, refused, confirmed, rows, faults>>

Idle == [pc |-> "idle"]
Requests == [pc : {"received", "query", "insert", "200", "403", "500"}, msg : Messages]

TypeOK ==
    /\ req \in [Workers -> {Idle} \cup Requests]
    /\ acked \subseteq Messages /\ refused \subseteq Messages
    /\ confirmed \subseteq Messages
    /\ rows \in [Messages -> Nat]
    /\ faults \in 0..MaxFaults

Init ==
    /\ req = [w \in Workers |-> Idle]
    /\ acked = {} /\ refused = {} /\ confirmed = {}
    /\ rows = [m \in Messages |-> 0]
    /\ faults = 0
---------------------------------------------------------------------------

At(w, pc) == req[w].pc = pc
Goto(w, pc) == req' = [req EXCEPT ![w].pc = pc]
Fault == faults < MaxFaults /\ faults' = faults + 1

\* SNS posts a message that is not acknowledged, for the first time or again.
Deliver(m) ==
    /\ m \notin acked \cup refused
    /\ \E w \in Workers : /\ At(w, "idle")
                          /\ req' = [req EXCEPT ![w] = [pc |-> "received", msg |-> m]]
    /\ UNCHANGED <<acked, refused, confirmed, rows, faults>>

\* A wrong key or an unknown topic.
Reject(w) ==
    /\ At(w, "received") /\ req[w].msg \notin Accepted
    /\ Goto(w, "403")
    /\ UNCHANGED <<acked, refused, confirmed, rows, faults>>

\* Other types are acknowledged, and not stored.
Ignore(w) ==
    /\ At(w, "received") /\ req[w].msg \in Accepted
    /\ Kind[req[w].msg] \notin {"SubscriptionConfirmation", "Notification"}
    /\ Goto(w, "200")
    /\ UNCHANGED <<acked, refused, confirmed, rows, faults>>

Confirm(w) ==
    /\ At(w, "received") /\ req[w].msg \in Accepted
    /\ Kind[req[w].msg] = "SubscriptionConfirmation"
    /\ confirmed' = confirmed \cup {req[w].msg}
    /\ Goto(w, "query")
    /\ UNCHANGED <<acked, refused, rows, faults>>

\* The exception of urlopen is logged and swallowed.
ConfirmFails(w) ==
    /\ At(w, "received") /\ req[w].msg \in Accepted
    /\ Kind[req[w].msg] = "SubscriptionConfirmation"
    /\ Fault
    /\ Goto(w, "query")
    /\ UNCHANGED <<acked, refused, confirmed, rows>>

Notify(w) ==
    /\ At(w, "received") /\ req[w].msg \in Accepted
    /\ Kind[req[w].msg] = "Notification"
    /\ Goto(w, "query")
    /\ UNCHANGED <<acked, refused, confirmed, rows, faults>>

\* Mutant of Stored: the rows are not asked for the MessageId.
StoredUnasked(m) == FALSE

\* "SnsNotification.query.filter_by(message_id=msg_id).first()"
Stored(m) == rows[m] > 0

Known(w) ==
    /\ At(w, "query") /\ Stored(req[w].msg)
    /\ Goto(w, "200")
    /\ UNCHANGED <<acked, refused, confirmed, rows, faults>>

Unknown(w) ==
    /\ At(w, "query") /\ ~Stored(req[w].msg)
    /\ Goto(w, "insert")
    /\ UNCHANGED <<acked, refused, confirmed, rows, faults>>

\* Mutant of Unique: message_id has no unique key.
NotUnique(m) == TRUE

\* "message_id = db.Column(db.String(256), unique=True)"
Unique(m) == rows[m] = 0

Insert(w) ==
    /\ At(w, "insert") /\ Unique(req[w].msg)
    /\ rows' = [rows EXCEPT ![req[w].msg] = @ + 1]
    /\ Goto(w, "200")
    /\ UNCHANGED <<acked, refused, confirmed, faults>>

\* Mutant of InsertRefused: the IntegrityError of any insert is answered 403.
InsertRefusedForGood(w) ==
    /\ At(w, "insert") /\ ~Unique(req[w].msg)
    /\ Goto(w, "403")
    /\ UNCHANGED <<acked, refused, confirmed, rows, faults>>

\* The unique key refuses the row of a copy that another worker has stored.
InsertRefused(w) ==
    /\ At(w, "insert") /\ ~Unique(req[w].msg)
    /\ Goto(w, "500")
    /\ UNCHANGED <<acked, refused, confirmed, rows, faults>>

\* Mutant of StoreFails: a failing commit is logged and acknowledged.
StoreFailsSwallowed(w) ==
    /\ At(w, "query") \/ At(w, "insert")
    /\ Fault
    /\ Goto(w, "200")
    /\ UNCHANGED <<acked, refused, confirmed, rows>>

\* MySQL raises in the query or the commit.
StoreFails(w) ==
    /\ At(w, "query") \/ At(w, "insert")
    /\ Fault
    /\ Goto(w, "500")
    /\ UNCHANGED <<acked, refused, confirmed, rows>>

Answered(w) == req' = [req EXCEPT ![w] = Idle]

\* SNS gets the answer; a message that is answered with 500 stays to be sent.
Answer(w) ==
    /\ \/ At(w, "200") /\ acked' = acked \cup {req[w].msg} /\ UNCHANGED refused
       \/ At(w, "403") /\ refused' = refused \cup {req[w].msg} /\ UNCHANGED acked
       \/ At(w, "500") /\ UNCHANGED <<acked, refused>>
    /\ Answered(w)
    /\ UNCHANGED <<confirmed, rows, faults>>

\* The answer is lost, or comes after SNS has given up waiting for it, or the
\* worker is killed before it has answered.
Lost(w) ==
    /\ ~At(w, "idle") /\ Fault
    /\ Answered(w)
    /\ UNCHANGED <<acked, refused, confirmed, rows>>

Handle(w) ==
    \/ Reject(w) \/ Ignore(w) \/ Confirm(w) \/ Notify(w)
    \/ Known(w) \/ Unknown(w) \/ Insert(w) \/ InsertRefused(w)
    \/ Answer(w)

Failure(w) == ConfirmFails(w) \/ StoreFails(w) \/ Lost(w)

Next ==
    \/ \E m \in Messages : Deliver(m)
    \/ \E w \in Workers : Handle(w) \/ Failure(w)

Spec == Init /\ [][Next]_vars

\* A worker that has a request goes on with it, and SNS sends a message again
\* as long as it has no answer.  A worker may be busy with other messages
\* whenever SNS tries, hence strong fairness.
FairSpec ==
    /\ Spec
    /\ \A w \in Workers : WF_vars(Handle(w))
    /\ \A m \in Messages : SF_vars(Deliver(m))
---------------------------------------------------------------------------

\* A message is stored once, however many copies of it are handled at a time:
\* all of them may have found it absent.
StoredOnce == \A m \in Messages : rows[m] <= 1

\* SNS does not send again what it has an answer for, so that nothing is lost
\* only if what is acknowledged was stored.
AckedStored ==
    \A m \in acked : /\ m \in Accepted
                     /\ Kind[m] # "UnsubscribeConfirmation" => Stored(m)

\* A message with a valid key and topic is acknowledged in the end, also when
\* it was stored and the answer was lost, or when its copies have raced: the
\* loser is answered 500, and its next copy finds the row.
AckedInTheEnd == \A m \in Accepted : <>(m \in acked)
===========================================================================
