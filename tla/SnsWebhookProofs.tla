------------------------- MODULE SnsWebhookProofs -------------------------
(***************************************************************************)
(* Theorems about SnsWebhook, for every set of messages and workers: each  *)
(* message is stored once, and what is acknowledged was stored.            *)
(***************************************************************************)
EXTENDS SnsWebhook, TLAPS

\* What an answer that is on its way says of its message.
AnswersSound ==
    \A w \in Workers : At(w, "200") =>
        /\ req[w].msg \in Accepted
        /\ Kind[req[w].msg] # "UnsubscribeConfirmation" => Stored(req[w].msg)

\* Only accepted messages get as far as the store.
StoringAccepted ==
    \A w \in Workers : At(w, "query") \/ At(w, "insert") =>
        /\ req[w].msg \in Accepted
        /\ Kind[req[w].msg] # "UnsubscribeConfirmation"

IInv == TypeOK /\ StoredOnce /\ AckedStored /\ AnswersSound /\ StoringAccepted
---------------------------------------------------------------------------

\* A worker that is not idle has a message.
LEMMA BusyHasMessage ==
  ASSUME TypeOK, NEW w \in Workers, ~At(w, "idle")
  PROVE  req[w] \in Requests
  BY DEF TypeOK, At, Idle

\* Moving a busy worker on keeps the type of the requests.
LEMMA GotoTyped ==
  ASSUME TypeOK, NEW w \in Workers, ~At(w, "idle"),
         NEW pc \in {"received", "query", "insert", "200", "403", "500"},
         Goto(w, pc)
  PROVE  /\ req' \in [Workers -> {Idle} \cup Requests]
         /\ req'[w] = [pc |-> pc, msg |-> req[w].msg]
         /\ \A v \in Workers \ {w} : req'[v] = req[v]
  BY BusyHasMessage DEF TypeOK, Goto, Requests

\* The steps that move one worker and leave the table and the answers alone
\* keep the invariant, if what the worker may do next is justified.
LEMMA WorkerMoves ==
  ASSUME IInv, NEW w \in Workers, ~At(w, "idle"),
         NEW pc \in {"received", "query", "insert", "200", "403", "500"},
         Goto(w, pc), UNCHANGED <<acked, refused, rows>>,
         faults' \in 0..MaxFaults, confirmed' \subseteq Messages,
         pc \in {"200", "query", "insert"} => req[w].msg \in Accepted,
         pc \in {"query", "insert"} => Kind[req[w].msg] # "UnsubscribeConfirmation",
         pc = "200" /\ Kind[req[w].msg] # "UnsubscribeConfirmation" => Stored(req[w].msg)
  PROVE  IInv'
  <1>1. TypeOK
    BY DEF IInv
  <1>2. /\ req' \in [Workers -> {Idle} \cup Requests]
        /\ req'[w] = [pc |-> pc, msg |-> req[w].msg]
        /\ \A v \in Workers \ {w} : req'[v] = req[v]
    BY <1>1, GotoTyped
  <1>3. TypeOK'
    BY <1>1, <1>2 DEF TypeOK
  <1>4. StoredOnce' /\ AckedStored'
    BY DEF IInv, StoredOnce, AckedStored, Stored
  <1>5. AnswersSound'
    <2> SUFFICES ASSUME NEW v \in Workers, At(v, "200")'
                 PROVE  /\ (req[v].msg \in Accepted)'
                        /\ Kind[req'[v].msg] # "UnsubscribeConfirmation" => Stored(req[v].msg)'
      BY DEF AnswersSound
    <2>1. CASE v = w
      BY <2>1, <1>2 DEF At, Stored
    <2>2. CASE v # w
      BY <2>2, <1>2 DEF IInv, AnswersSound, At, Stored
    <2> QED
      BY <2>1, <2>2
  <1>6. StoringAccepted'
    <2> SUFFICES ASSUME NEW v \in Workers, (At(v, "query") \/ At(v, "insert"))'
                 PROVE  /\ req'[v].msg \in Accepted
                        /\ Kind[req'[v].msg] # "UnsubscribeConfirmation"
      BY DEF StoringAccepted
    <2>1. CASE v = w
      BY <2>1, <1>2 DEF At
    <2>2. CASE v # w
      BY <2>2, <1>2 DEF IInv, StoringAccepted, At
    <2> QED
      BY <2>1, <2>2
  <1> QED
    BY <1>3, <1>4, <1>5, <1>6 DEF IInv

\* The unique key lets in the first row of a message, and no other row.
LEMMA InsertKeeps ==
  ASSUME IInv, NEW w \in Workers, Insert(w)
  PROVE  IInv'
  <1> DEFINE m == req[w].msg
  <1>0. TypeOK /\ ~At(w, "idle") /\ At(w, "insert")
    BY DEF IInv, Insert, At
  <1>1. m \in Messages
    BY <1>0, BusyHasMessage DEF Requests
  <1>2. rows' = [rows EXCEPT ![m] = 1] /\ rows'[m] = 1
    BY <1>0, <1>1 DEF Insert, Unique, TypeOK
  <1>3. /\ req' \in [Workers -> {Idle} \cup Requests]
        /\ req'[w] = [pc |-> "200", msg |-> m]
        /\ \A v \in Workers \ {w} : req'[v] = req[v]
    BY <1>0, GotoTyped DEF Insert
  <1>4. \A n \in Messages : Stored(n) => Stored(n)'
    BY <1>0, <1>1, <1>2 DEF Stored, TypeOK
  <1>5. TypeOK'
    BY <1>0, <1>1, <1>2, <1>3 DEF TypeOK, Insert
  <1>6. StoredOnce'
    BY <1>0, <1>1, <1>2 DEF IInv, StoredOnce, TypeOK
  <1>7. AckedStored'
    <2>1. acked' = acked /\ acked \subseteq Messages
      BY <1>0 DEF Insert, TypeOK
    <2> QED
      BY <2>1, <1>4 DEF IInv, AckedStored
  <1>8. AnswersSound'
    <2> SUFFICES ASSUME NEW v \in Workers, At(v, "200")'
                 PROVE  /\ req'[v].msg \in Accepted
                        /\ Kind[req'[v].msg] # "UnsubscribeConfirmation" => Stored(req[v].msg)'
      BY DEF AnswersSound
    <2>1. CASE v = w
      <3>1. m \in Accepted
        BY <1>0 DEF IInv, StoringAccepted
      <3>2. rows'[req'[v].msg] = 1
        BY <2>1, <1>2, <1>3
      <3> QED
        BY <2>1, <3>1, <3>2, <1>3 DEF Stored
    <2>2. CASE v # w
      <3>1. req'[v] = req[v] /\ At(v, "200")
        BY <2>2, <1>3 DEF At
      <3>2. req[v].msg \in Messages
        BY <3>1, <1>0, BusyHasMessage DEF Requests, At
      <3>3. req[v].msg \in Accepted
            /\ (Kind[req[v].msg] # "UnsubscribeConfirmation" => Stored(req[v].msg))
        BY <3>1 DEF IInv, AnswersSound
      <3>4. Stored(req[v].msg) => rows'[req[v].msg] > 0
        BY <3>2, <1>4 DEF Stored
      <3> QED
        BY <3>1, <3>3, <3>4 DEF Stored
    <2> QED
      BY <2>1, <2>2
  <1>9. StoringAccepted'
    BY <1>3 DEF IInv, StoringAccepted, At
  <1> QED
    BY <1>5, <1>6, <1>7, <1>8, <1>9 DEF IInv

\* An answer that arrives, or is lost, makes its worker idle.
LEMMA AnswerKeeps ==
  ASSUME IInv, NEW w \in Workers, Answer(w) \/ Lost(w)
  PROVE  IInv'
  <1>0. TypeOK /\ ~At(w, "idle")
    BY DEF IInv, Answer, Lost, At
  <1>1. req[w].msg \in Messages
    BY <1>0, BusyHasMessage DEF Requests
  <1>2. /\ req' \in [Workers -> {Idle} \cup Requests]
        /\ req'[w] = Idle
        /\ \A v \in Workers \ {w} : req'[v] = req[v]
    BY <1>0 DEF Answer, Lost, Answered, TypeOK
  <1>3. rows' = rows /\ confirmed' = confirmed
    BY DEF Answer, Lost
  <1>4. faults' \in 0..MaxFaults
    BY <1>0, WebhookAssumption DEF Answer, Lost, Fault, TypeOK
  <1>5. refused' \subseteq Messages
    BY <1>0, <1>1 DEF Answer, Lost, TypeOK
  <1>6. acked' = acked \/ (At(w, "200") /\ acked' = acked \cup {req[w].msg})
    BY DEF Answer, Lost
  <1>7. TypeOK'
    BY <1>0, <1>1, <1>2, <1>3, <1>4, <1>5, <1>6 DEF TypeOK
  <1>8. StoredOnce'
    BY <1>3 DEF IInv, StoredOnce
  <1>9. AckedStored'
    BY <1>3, <1>6 DEF IInv, AckedStored, AnswersSound, Stored
  <1>10. AnswersSound'
    BY <1>2, <1>3 DEF IInv, AnswersSound, At, Stored, Idle
  <1>11. StoringAccepted'
    BY <1>2 DEF IInv, StoringAccepted, At, Idle
  <1> QED
    BY <1>7, <1>8, <1>9, <1>10, <1>11 DEF IInv

\* SNS hands a message to an idle worker.
LEMMA DeliverKeeps ==
  ASSUME IInv, NEW m \in Messages, Deliver(m)
  PROVE  IInv'
  <1>1. PICK w \in Workers : /\ At(w, "idle")
                             /\ req' = [req EXCEPT ![w] = [pc |-> "received", msg |-> m]]
    BY DEF Deliver
  <1>2. /\ req' \in [Workers -> {Idle} \cup Requests]
        /\ req'[w] = [pc |-> "received", msg |-> m]
        /\ \A v \in Workers \ {w} : req'[v] = req[v]
    BY <1>1 DEF IInv, TypeOK, Requests
  <1>3. UNCHANGED <<acked, refused, confirmed, rows, faults>>
    BY DEF Deliver
  <1>4. TypeOK'
    BY <1>2, <1>3 DEF IInv, TypeOK
  <1>5. StoredOnce' /\ AckedStored'
    BY <1>3 DEF IInv, StoredOnce, AckedStored, Stored
  <1>6. AnswersSound' /\ StoringAccepted'
    BY <1>2, <1>3 DEF IInv, AnswersSound, StoringAccepted, At, Stored
  <1> QED
    BY <1>4, <1>5, <1>6 DEF IInv

\* The inductive invariant holds at the start and is kept by every step.
THEOREM Invariance == Spec => []IInv
  <1>1. Init => IInv
    BY WebhookAssumption
    DEF Init, IInv, TypeOK, StoredOnce, AckedStored, AnswersSound, StoringAccepted,
        At, Idle
  <1>2. IInv /\ [Next]_vars => IInv'
    <2> SUFFICES ASSUME IInv, [Next]_vars PROVE IInv'
      OBVIOUS
    <2> USE DEF Handle, Failure
    <2>1. ASSUME NEW m \in Messages, Deliver(m) PROVE IInv'
      BY <2>1, DeliverKeeps
    <2>2. ASSUME NEW w \in Workers, Handle(w) \/ Failure(w) PROVE IInv'
      <3>0. TypeOK /\ faults \in 0..MaxFaults /\ confirmed \subseteq Messages
        BY DEF IInv, TypeOK
      <3>1. CASE Reject(w)
        BY <3>0, <3>1, WorkerMoves DEF Reject, At
      <3>2. CASE Ignore(w)
        <4>1. req[w].msg \in Messages /\ Kind[req[w].msg] \in Kinds
          BY <3>0, <3>2, BusyHasMessage, WebhookAssumption DEF Ignore, At, Requests
        <4> QED
          BY <3>0, <3>2, <4>1, WorkerMoves DEF Ignore, At, Kinds
      <3>3. CASE Confirm(w)
        <4>1. req[w].msg \in Messages
          BY <3>0, <3>3, BusyHasMessage DEF Confirm, At, Requests
        <4> QED
          BY <3>0, <3>3, <4>1, WorkerMoves DEF Confirm, At
      <3>4. CASE ConfirmFails(w)
        <4>1. faults' \in 0..MaxFaults
          BY <3>0, <3>4, WebhookAssumption DEF ConfirmFails, Fault
        <4> QED
          BY <3>0, <3>4, <4>1, WorkerMoves DEF ConfirmFails, At
      <3>5. CASE Notify(w)
        BY <3>0, <3>5, WorkerMoves DEF Notify, At
      <3>6. CASE Known(w)
        BY <3>0, <3>6, WorkerMoves DEF Known, At, IInv, StoringAccepted
      <3>7. CASE Unknown(w)
        BY <3>0, <3>7, WorkerMoves DEF Unknown, At, IInv, StoringAccepted
      <3>8. CASE Insert(w)
        BY <3>8, InsertKeeps
      <3>9. CASE InsertRefused(w)
        BY <3>0, <3>9, WorkerMoves DEF InsertRefused, At
      <3>10. CASE StoreFails(w)
        <4>1. faults' \in 0..MaxFaults
          BY <3>0, <3>10, WebhookAssumption DEF StoreFails, Fault
        <4> QED
          BY <3>0, <3>10, <4>1, WorkerMoves DEF StoreFails, At
      <3>11. CASE Answer(w) \/ Lost(w)
        BY <3>11, AnswerKeeps
      <3> QED
        BY <2>2, <3>1, <3>2, <3>3, <3>4, <3>5, <3>6, <3>7, <3>8, <3>9, <3>10, <3>11
    <2>3. CASE UNCHANGED vars
      BY <2>3 DEF vars, IInv, TypeOK, StoredOnce, AckedStored, AnswersSound,
                  StoringAccepted, At, Stored
    <2> QED
      BY <2>1, <2>2, <2>3 DEF Next
  <1> QED
    BY <1>1, <1>2, PTL DEF Spec

\* However many copies of a message are handled at a time, and whichever of
\* them fail, sns_notification has at most one row of it.
THEOREM MessagesStoredOnce == Spec => []StoredOnce
  <1>1. IInv => StoredOnce
    BY DEF IInv
  <1> QED
    BY <1>1, Invariance, PTL

\* A message that SNS will not send again, because the webhook answered 200,
\* had a valid key and topic and, but for the ignored type, is in the table.
THEOREM NothingAckedUnstored == Spec => []AckedStored
  <1>1. IInv => AckedStored
    BY DEF IInv
  <1> QED
    BY <1>1, Invariance, PTL
===========================================================================
