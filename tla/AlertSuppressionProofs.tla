---------------------- MODULE AlertSuppressionProofs ----------------------
(***************************************************************************)
(* Theorems about AlertSuppression, for every set of threads and keys,     *)
(* every assignment of keys to threads and every window.  The inductive    *)
(* invariant IInv says where each row of the table comes from, what a call *)
(* in flight knows of its row, and how the alerts of an exclusive key are  *)
(* ordered.                                                                *)
(***************************************************************************)
EXTENDS AlertSuppression, TLAPS

\* A row holds the time of a recorded alert of its key, to the second.
RowRecorded ==
    \A k \in Keys : table[k] # NoRow =>
        \E i \in DOMAIN alerts :
            /\ alerts[i].key = k /\ alerts[i].recorded
            /\ Stored(alerts[i].at) = table[k]

\* A call is made by a user of its key, and goes on only when expired.
CallsConsistent ==
    \A t \in Threads : call[t] # NoCall =>
        /\ t \in Users[call[t].key]
        /\ call[t].pc \in {"send", "commit"} =>
               Expired(call[t].key, call[t].now, call[t].row)

\* A call that has sent its alert points at it.
CommitPointsAtAlert ==
    \A t \in Threads : At(t, "commit") =>
        /\ call[t].alert \in DOMAIN alerts
        /\ alerts[call[t].alert].key = call[t].key
        /\ alerts[call[t].alert].at = call[t].now

\* The row of an exclusive key is still what the call in flight has read.
RowIsCurrent ==
    \A t \in Threads :
        (call[t].pc \in {"send", "commit"} /\ Exclusive(call[t].key))
        => table[call[t].key] = call[t].row

\* The recorded alerts of an exclusive key are not newer than its row.
RecordedNotNewer ==
    \A i \in DOMAIN alerts :
        (alerts[i].recorded /\ Exclusive(alerts[i].key))
        => /\ table[alerts[i].key] # NoRow
           /\ Stored(alerts[i].at) <= table[alerts[i].key]

\* No alert of an exclusive key follows the one that waits for its commit.
CommitIsLast ==
    \A t \in Threads : \A j \in DOMAIN alerts :
        (At(t, "commit") /\ Exclusive(call[t].key) /\ j > call[t].alert)
        => alerts[j].key # call[t].key

IInv ==
    /\ TypeOK
    /\ RowRecorded /\ CallsConsistent /\ CommitPointsAtAlert
    /\ RowIsCurrent /\ RecordedNotNewer /\ CommitIsLast
    /\ RecordedAlertsSpaced /\ SuppressionJustified
---------------------------------------------------------------------------

\* A time is stored as the second nearest to it.
LEMMA StoredNear ==
  ASSUME NEW now \in Int
  PROVE  /\ Stored(now) \in Int
         /\ 2 * now - Second < 2 * Stored(now)
         /\ 2 * Stored(now) <= 2 * now + Second
<1> DEFINE n == 2 * now + Second
           d == 2 * Second
           q == n \div d
<1>1. n \in Int /\ d \in Nat \ {0} /\ Second \in Nat \ {0}
  BY SuppressionAssumption
<1>2. q \in Int /\ d * q <= n /\ n < d * q + d
  <2> HIDE DEF n, d
  <2> QED BY <1>1, Z3
<1>3. Second * q \in Int /\ d * q = 2 * (Second * q)
  <2> HIDE DEF q
  <2> QED BY <1>1, <1>2, Z3
<1>4. Stored(now) = Second * q
  BY DEF Stored
<1> DEFINE p == Second * q
<1>5. p \in Int /\ 2 * p <= n /\ n < 2 * p + d
  BY <1>2, <1>3
<1> HIDE DEF q, p
<1>6. Stored(now) = p
  BY <1>4 DEF p
<1> QED BY <1>1, <1>5, <1>6

\* What is stored of a time after a stored one is not before that one.
LEMMA StoredOrder ==
  ASSUME NEW now \in Int, NEW before \in Int, now > Stored(before)
  PROVE  Stored(before) <= Stored(now)
<1> DEFINE d == 2 * Second
           n == (2 * now + Second) \div d
           b == (2 * before + Second) \div d
<1>1. Second \in Nat \ {0} /\ d \in Nat \ {0}
  BY SuppressionAssumption
<1>2. Stored(now) = Second * n /\ Stored(before) = Second * b
  BY DEF Stored
<1>3. n \in Int /\ b \in Int /\ 2 * now + Second < d * n + d
  <2> DEFINE m == 2 * now + Second
             k == 2 * before + Second
  <2>1. m \in Int /\ k \in Int BY <1>1
  <2> HIDE DEF m, k, d
  <2>2. m \div d \in Int /\ k \div d \in Int /\ m < d * (m \div d) + d
    BY <1>1, <2>1, Z3
  <2> QED BY <2>2 DEF m, k
<1> HIDE DEF n, b
<1>4. b <= n
  <2> SUFFICES ASSUME n + 1 <= b PROVE FALSE
    BY <1>3
  <2>1. Second * (n + 1) <= Second * b
    BY <1>1, <1>3, Z3
  <2>2. Second * (n + 1) = Second * n + Second /\ d * n = 2 * (Second * n)
    BY <1>1, <1>3, Z3
  <2> DEFINE sn == Second * n
             sb == Second * b
  <2>3. sn \in Int /\ sb \in Int /\ sn + Second <= sb /\ now > sb
        /\ 2 * now + Second < 2 * sn + 2 * Second
    BY <1>1, <1>2, <1>3, <2>1, <2>2
  <2> HIDE DEF sn, sb
  <2> QED BY <1>1, <2>3
<1> QED BY <1>1, <1>2, <1>3, <1>4, Z3

\* The initial state satisfies the inductive invariant: nothing was raised.
LEMMA InitIInv == Init => IInv
  BY SuppressionAssumption
  DEF Init, IInv, TypeOK, RowRecorded, CallsConsistent, CommitPointsAtAlert,
      RowIsCurrent, RecordedNotNewer, CommitIsLast, RecordedAlertsSpaced,
      SuppressionJustified, NoCall, At, Alerts

\* The type of one alert of the history.
LEMMA AlertType ==
  ASSUME TypeOK, NEW i \in DOMAIN alerts
  PROVE  /\ alerts[i] \in Alerts /\ alerts[i].key \in Keys
         /\ alerts[i].at \in Int /\ alerts[i].recorded \in BOOLEAN
<1>1. alerts[i] \in Alerts BY DEF TypeOK
<1> QED BY <1>1 DEF Alerts

\* An alert whose row is committed changes in its mark only.
LEMMA RecordAlert ==
  ASSUME NEW a \in Alerts
  PROVE  LET r == [a EXCEPT !.recorded = TRUE]
         IN  r \in Alerts /\ r.key = a.key /\ r.at = a.at /\ r.recorded
  BY DEF Alerts

\* The conjuncts over the table and the alerts alone do not see a step that
\* leaves both as they are.
LEMMA TableAndAlertsKept ==
  ASSUME IInv, UNCHANGED <<table, alerts>>
  PROVE  RowRecorded' /\ RecordedNotNewer' /\ RecordedAlertsSpaced'
  BY DEF IInv, RowRecorded, RecordedNotNewer, RecordedAlertsSpaced, Exclusive

\* A step that only ends calls, or none, keeps the invariant.
LEMMA EndingCallsKeepsIInv ==
  ASSUME IInv, UNCHANGED <<table, alerts, suppressed>>,
         elapsed' \in Nat, setback' \in Int,
         call' \in [Threads -> {NoCall} \cup Calls],
         \A t \in Threads : call'[t] = call[t] \/ call'[t] = NoCall
  PROVE  IInv'
<1>1. TypeOK' BY DEF IInv, TypeOK
<1>2. RowRecorded' /\ RecordedNotNewer' /\ RecordedAlertsSpaced'
  BY TableAndAlertsKept
<1>3. CallsConsistent'
  BY DEF IInv, CallsConsistent, Expired
<1>4. CommitPointsAtAlert'
  BY DEF IInv, CommitPointsAtAlert, NoCall, At
<1>5. RowIsCurrent'
  BY DEF IInv, RowIsCurrent, NoCall, Exclusive
<1>6. CommitIsLast'
  BY DEF IInv, CommitIsLast, NoCall, At, Exclusive
<1>7. SuppressionJustified'
  BY DEF IInv, SuppressionJustified
<1> QED BY <1>1, <1>2, <1>3, <1>4, <1>5, <1>6, <1>7 DEF IInv

\* A call that begins knows nothing of the table yet.
LEMMA BeginIInv ==
  ASSUME IInv, NEW t \in Threads, NEW k \in Keys, Begin(t, k)
  PROVE  IInv'
<1> DEFINE c == [pc |-> "query", key |-> k, now |-> wall, real |-> elapsed,
                 row |-> NoRow, alert |-> 0]
<1>1. /\ call' = [call EXCEPT ![t] = c] /\ c \in Calls
      /\ t \in Users[k] /\ UNCHANGED <<elapsed, setback, table, alerts, suppressed>>
  BY DEF Begin, IInv, TypeOK, Calls, wall
<1>2. TypeOK' BY <1>1 DEF IInv, TypeOK
<1>3. RowRecorded' /\ RecordedNotNewer' /\ RecordedAlertsSpaced'
  BY <1>1, TableAndAlertsKept
<1>4. \A u \in Threads \ {t} : call'[u] = call[u]
  BY <1>1 DEF IInv, TypeOK
<1>5. call'[t] = c BY <1>1 DEF IInv, TypeOK
<1>6. CallsConsistent'
  BY <1>1, <1>4, <1>5 DEF IInv, CallsConsistent, Expired
<1>7. CommitPointsAtAlert'
  BY <1>1, <1>4, <1>5 DEF IInv, CommitPointsAtAlert, At
<1>8. RowIsCurrent'
  BY <1>1, <1>4, <1>5 DEF IInv, RowIsCurrent, Exclusive
<1>9. CommitIsLast'
  BY <1>1, <1>4, <1>5 DEF IInv, CommitIsLast, At, Exclusive
<1>10. SuppressionJustified'
  BY <1>1 DEF IInv, SuppressionJustified
<1> QED BY <1>2, <1>3, <1>6, <1>7, <1>8, <1>9, <1>10 DEF IInv

\* A suppressed occurrence is justified by the alert its row records.
LEMMA QuerySuppressedIInv ==
  ASSUME IInv, NEW t \in Threads, QuerySuppressed(t)
  PROVE  IInv'
<1> DEFINE k == call[t].key
           s == [key |-> k, at |-> call[t].now, real |-> call[t].real]
<1>1. /\ call[t] \in Calls /\ k \in Keys /\ call[t].now \in Int
      /\ ~Expired(k, call[t].now, table[k])
      /\ suppressed' = suppressed \cup {s}
      /\ call' = [call EXCEPT ![t] = NoCall]
      /\ UNCHANGED <<elapsed, setback, table, alerts>>
  BY DEF QuerySuppressed, At, IInv, TypeOK, NoCall, Calls
<1>2. s \in Occurrences BY <1>1 DEF Calls, Occurrences
<1>3. TypeOK' BY <1>1, <1>2 DEF IInv, TypeOK
<1>4. RowRecorded' /\ RecordedNotNewer' /\ RecordedAlertsSpaced'
  BY <1>1, TableAndAlertsKept
<1>5. \A u \in Threads : call'[u] = call[u] \/ call'[u] = NoCall
  BY <1>1 DEF IInv, TypeOK
<1>6. CallsConsistent'
  BY <1>1, <1>5 DEF IInv, CallsConsistent, Expired
<1>7. CommitPointsAtAlert'
  BY <1>1, <1>5 DEF IInv, CommitPointsAtAlert, NoCall, At
<1>8. RowIsCurrent'
  BY <1>1, <1>5 DEF IInv, RowIsCurrent, NoCall, Exclusive
<1>9. CommitIsLast'
  BY <1>1, <1>5 DEF IInv, CommitIsLast, NoCall, At, Exclusive
<1>10. SuppressionJustified'
  <2>1. table[k] # NoRow /\ table[k] \in Int /\ Window[k] \in Nat
        /\ call[t].now - table[k] <= Window[k]
    BY <1>1, SuppressionAssumption DEF Expired, IInv, TypeOK
  <2>2. PICK i \in DOMAIN alerts : /\ alerts[i].key = k /\ alerts[i].recorded
                                   /\ Stored(alerts[i].at) = table[k]
    BY <1>1, <2>1 DEF IInv, RowRecorded
  <2> QED BY <1>1, <2>1, <2>2 DEF IInv, SuppressionJustified
<1> QED BY <1>3, <1>4, <1>6, <1>7, <1>8, <1>9, <1>10 DEF IInv

\* A call that goes on has just read its row.
LEMMA QueryExpiredIInv ==
  ASSUME IInv, NEW t \in Threads, QueryExpired(t)
  PROVE  IInv'
<1> DEFINE k == call[t].key
           c == [pc |-> "send", key |-> k, now |-> call[t].now,
                 real |-> call[t].real, row |-> table[k], alert |-> 0]
<1>1. /\ call[t] \in Calls /\ call[t] # NoCall /\ k \in Keys /\ c \in Calls
      /\ Expired(k, call[t].now, table[k])
      /\ call' = [call EXCEPT ![t] = c]
      /\ UNCHANGED <<elapsed, setback, table, alerts, suppressed>>
  BY DEF QueryExpired, At, IInv, TypeOK, NoCall, Calls
<1>2. TypeOK' BY <1>1 DEF IInv, TypeOK
<1>3. RowRecorded' /\ RecordedNotNewer' /\ RecordedAlertsSpaced'
  BY <1>1, TableAndAlertsKept
<1>4. \A u \in Threads \ {t} : call'[u] = call[u]
  BY <1>1 DEF IInv, TypeOK
<1>5. call'[t] = c BY <1>1 DEF IInv, TypeOK
<1>6. CallsConsistent'
  BY <1>1, <1>4, <1>5 DEF IInv, CallsConsistent, Expired
<1>7. CommitPointsAtAlert'
  BY <1>1, <1>4, <1>5 DEF IInv, CommitPointsAtAlert, At
<1>8. RowIsCurrent'
  BY <1>1, <1>4, <1>5 DEF IInv, RowIsCurrent, Exclusive
<1>9. CommitIsLast'
  BY <1>1, <1>4, <1>5 DEF IInv, CommitIsLast, At, Exclusive
<1>10. SuppressionJustified'
  BY <1>1 DEF IInv, SuppressionJustified
<1> QED BY <1>2, <1>3, <1>6, <1>7, <1>8, <1>9, <1>10 DEF IInv

\* The alert that is sent comes more than a window after every recorded one.
LEMMA SendIInv ==
  ASSUME IInv, NEW t \in Threads, Send(t)
  PROVE  IInv'
<1> DEFINE k == call[t].key
           n == Len(alerts) + 1
           c == [pc |-> "commit", key |-> k, now |-> call[t].now,
                 real |-> call[t].real, row |-> call[t].row, alert |-> n]
<1>1. PICK o \in {"mailed", "lost", "skipped"} :
        alerts' = Append(alerts, [key |-> k, at |-> call[t].now,
                      real |-> call[t].real, outcome |-> o, recorded |-> FALSE])
  BY DEF Send, Outcomes
<1> DEFINE a == [key |-> k, at |-> call[t].now, real |-> call[t].real,
                 outcome |-> o, recorded |-> FALSE]
<1>2. /\ call[t] \in Calls /\ call[t] # NoCall /\ call[t].pc = "send"
      /\ k \in Keys /\ call[t].now \in Int /\ c \in Calls /\ a \in Alerts
      /\ call' = [call EXCEPT ![t] = c]
      /\ UNCHANGED <<elapsed, setback, table, suppressed>>
  BY DEF Send, At, IInv, TypeOK, NoCall, Calls, Alerts
<1>3. alerts \in Seq(Alerts) /\ Len(alerts) \in Nat BY DEF IInv, TypeOK
<1>4. /\ alerts' \in Seq(Alerts)
      /\ DOMAIN alerts' = 1..n /\ DOMAIN alerts = 1..Len(alerts)
      /\ \A i \in DOMAIN alerts : i \in DOMAIN alerts' /\ alerts'[i] = alerts[i]
      /\ alerts'[n] = a
  BY <1>1, <1>2, <1>3
<1>5. \A i \in DOMAIN alerts' : i \in DOMAIN alerts \/ i = n
  BY <1>3, <1>4
<1>6. TypeOK' BY <1>2, <1>4 DEF IInv, TypeOK
<1>7. \A u \in Threads \ {t} : call'[u] = call[u]
  BY <1>2 DEF IInv, TypeOK
<1>8. call'[t] = c BY <1>2 DEF IInv, TypeOK
<1>9. RowRecorded'
  BY <1>2, <1>4 DEF IInv, RowRecorded
<1>10. CallsConsistent'
  BY <1>2, <1>7, <1>8 DEF IInv, CallsConsistent, Expired
<1>11. CommitPointsAtAlert'
  BY <1>2, <1>3, <1>4, <1>7, <1>8 DEF IInv, CommitPointsAtAlert, At
<1>12. RowIsCurrent'
  BY <1>2, <1>7, <1>8 DEF IInv, RowIsCurrent, Exclusive
<1>13. RecordedNotNewer'
  BY <1>2, <1>4, <1>5 DEF IInv, RecordedNotNewer, Exclusive
<1>14. CommitIsLast'
  <2> SUFFICES ASSUME NEW u \in Threads, NEW j \in DOMAIN alerts',
                      call'[u].pc = "commit", Exclusive(call'[u].key),
                      j > call'[u].alert
               PROVE  alerts'[j].key # call'[u].key
    BY DEF CommitIsLast, At, Exclusive
  <2>1. CASE u = t
    BY <2>1, <1>3, <1>4, <1>8
  <2>2. CASE u # t /\ j = n
    <3>1. /\ call[u] = call'[u] /\ call[u] # NoCall
          /\ u \in Users[call[u].key] /\ t \in Users[k]
      BY <2>2, <1>2, <1>7 DEF IInv, CallsConsistent, NoCall
    <3> QED BY <3>1, <2>2, <1>4 DEF Exclusive
  <2>3. CASE u # t /\ j \in DOMAIN alerts
    BY <2>3, <1>4, <1>7 DEF IInv, CommitIsLast, At, Exclusive
  <2> QED BY <2>1, <2>2, <2>3, <1>5
<1>15. RecordedAlertsSpaced'
  <2> SUFFICES ASSUME NEW i \in DOMAIN alerts', NEW j \in DOMAIN alerts', i < j,
                      alerts'[i].recorded, alerts'[i].key = alerts'[j].key,
                      Exclusive(alerts'[i].key)
               PROVE  alerts'[j].at - Stored(alerts'[i].at) > Window[alerts'[i].key]
    BY DEF RecordedAlertsSpaced, Exclusive
  <2>1. i \in DOMAIN alerts /\ alerts'[i] = alerts[i]
    BY <1>4, <1>5
  <2>2. CASE j \in DOMAIN alerts
    BY <2>1, <2>2, <1>4 DEF IInv, RecordedAlertsSpaced
  <2>3. CASE j = n
    <3>1. alerts[i].key = k /\ alerts'[j].at = call[t].now
      BY <2>1, <2>3, <1>4
    <3>2. /\ table[k] = call[t].row /\ table[k] # NoRow
          /\ Stored(alerts[i].at) <= table[k]
      BY <2>1, <3>1, <1>2 DEF IInv, RowIsCurrent, RecordedNotNewer
    <3>3. call[t].now - call[t].row > Window[k]
      BY <3>2, <1>2 DEF IInv, CallsConsistent, Expired
    <3>4. table[k] \in Int /\ Stored(alerts[i].at) \in Int /\ Window[k] \in Nat
      BY <1>2, <2>1, <3>2, AlertType, StoredNear, SuppressionAssumption DEF IInv, TypeOK
    <3> QED BY <1>2, <2>1, <3>1, <3>2, <3>3, <3>4
  <2> QED BY <2>2, <2>3, <1>5
<1>16. SuppressionJustified'
  BY <1>2, <1>4 DEF IInv, SuppressionJustified
<1> QED BY <1>6, <1>9, <1>10, <1>11, <1>12, <1>13, <1>14, <1>15, <1>16 DEF IInv

\* The row that is committed is newer than all recorded alerts of its key.
LEMMA CommitIInv ==
  ASSUME IInv, NEW t \in Threads, Commit(t)
  PROVE  IInv'
<1> DEFINE k == call[t].key
           m == call[t].alert
           now == call[t].now
<1>1. /\ call[t] \in Calls /\ call[t] # NoCall /\ call[t].pc = "commit"
      /\ k \in Keys /\ now \in Int
      /\ table' = [table EXCEPT ![k] = Stored(now)] /\ Stored(now) \in Int
      /\ alerts' = [alerts EXCEPT ![m].recorded = TRUE]
      /\ call' = [call EXCEPT ![t] = NoCall]
      /\ UNCHANGED <<elapsed, setback, suppressed>>
  BY StoredNear DEF Commit, At, IInv, TypeOK, NoCall, Calls
<1>2. m \in DOMAIN alerts /\ alerts[m].key = k /\ alerts[m].at = now
  BY <1>1 DEF IInv, CommitPointsAtAlert, At
<1>3. alerts \in Seq(Alerts) /\ DOMAIN alerts = 1..Len(alerts)
  BY DEF IInv, TypeOK
<1>4. /\ alerts' \in Seq(Alerts) /\ DOMAIN alerts' = DOMAIN alerts
      /\ \A i \in DOMAIN alerts : /\ alerts'[i].key = alerts[i].key
                                  /\ alerts'[i].at = alerts[i].at
                                  /\ alerts'[i].recorded <=> (alerts[i].recorded \/ i = m)
  <2> DEFINE r == [alerts[m] EXCEPT !.recorded = TRUE]
  <2>1. r \in Alerts /\ r.key = alerts[m].key /\ r.at = alerts[m].at /\ r.recorded
    BY <1>2, AlertType, RecordAlert DEF IInv
  <2>2. alerts' = [alerts EXCEPT ![m] = r]
    BY <1>1
  <2> HIDE DEF r
  <2>3. alerts' \in Seq(Alerts) /\ DOMAIN alerts' = DOMAIN alerts
    BY <1>2, <1>3, <2>1, <2>2
  <2>4. \A i \in DOMAIN alerts : alerts'[i] = IF i = m THEN r ELSE alerts[i]
    BY <1>3, <2>2
  <2>5. \A i \in DOMAIN alerts : alerts[i].recorded \in BOOLEAN
    BY AlertType DEF IInv
  <2> QED BY <2>1, <2>3, <2>4, <2>5, <1>2
<1>5. /\ table'[k] = Stored(now)
      /\ \A l \in Keys \ {k} : table'[l] = table[l]
      /\ table' \in [Keys -> Int \cup {NoRow}]
  BY <1>1 DEF IInv, TypeOK
<1>6. \A u \in Threads : (u # t /\ call'[u] = call[u]) \/ call'[u] = NoCall
  BY <1>1 DEF IInv, TypeOK
<1>7. TypeOK' BY <1>1, <1>4, <1>5 DEF IInv, TypeOK
<1>8. Stored(now) # NoRow BY <1>1, SuppressionAssumption
<1>9. RowRecorded'
  BY <1>2, <1>4, <1>5 DEF IInv, RowRecorded
<1>10. CallsConsistent'
  BY <1>1, <1>6 DEF IInv, CallsConsistent, Expired
<1>11. CommitPointsAtAlert'
  BY <1>4, <1>6 DEF IInv, CommitPointsAtAlert, NoCall, At
<1>12. RowIsCurrent'
  <2> SUFFICES ASSUME NEW u \in Threads, call'[u].pc \in {"send", "commit"},
                      Exclusive(call'[u].key)
               PROVE  table'[call'[u].key] = call'[u].row
    BY DEF RowIsCurrent, Exclusive
  <2>1. u # t /\ call'[u] = call[u] /\ call[u] # NoCall
    BY <1>6 DEF NoCall
  <2>2. call[u].key # k
    BY <2>1, <1>1 DEF IInv, CallsConsistent, Exclusive
  <2>3. call[u].key \in Keys
    BY <2>1 DEF IInv, TypeOK, Calls
  <2> QED BY <2>1, <2>2, <2>3, <1>5 DEF IInv, RowIsCurrent
<1>13. RecordedNotNewer'
  <2> SUFFICES ASSUME NEW i \in DOMAIN alerts, alerts'[i].recorded,
                      Exclusive(alerts[i].key)
               PROVE  /\ table'[alerts[i].key] # NoRow
                      /\ Stored(alerts[i].at) <= table'[alerts[i].key]
    BY <1>4 DEF RecordedNotNewer, Exclusive
  <2>1. alerts[i].key \in Keys /\ alerts[i].at \in Int /\ Stored(alerts[i].at) \in Int
    BY AlertType, StoredNear DEF IInv
  <2>2. CASE alerts[i].key # k
    BY <2>1, <2>2, <1>2, <1>4, <1>5 DEF IInv, RecordedNotNewer
  <2>3. CASE i = m
    BY <2>3, <1>1, <1>2, <1>5, <1>8
  <2>4. CASE alerts[i].key = k /\ i # m
    <3>1. alerts[i].recorded BY <2>4, <1>4
    <3>2. /\ table[k] = call[t].row /\ table[k] # NoRow
          /\ Stored(alerts[i].at) <= table[k]
      BY <2>4, <3>1, <1>1 DEF IInv, RowIsCurrent, RecordedNotNewer
    <3>3. now - call[t].row > Window[k]
      BY <3>2, <1>1 DEF IInv, CallsConsistent, Expired
    <3>4. table[k] \in Int /\ Window[k] \in Nat
      BY <1>1, <3>2, SuppressionAssumption DEF IInv, TypeOK
    <3>5. PICK h \in DOMAIN alerts : Stored(alerts[h].at) = table[k] /\ alerts[h].at \in Int
      BY <1>1, <3>2, AlertType DEF IInv, RowRecorded
    <3>6. table[k] <= Stored(now)
      BY <1>1, <3>2, <3>3, <3>4, <3>5, StoredOrder
    <3> QED BY <1>1, <1>5, <1>8, <2>1, <2>4, <3>2, <3>4, <3>6
  <2> QED BY <2>2, <2>3, <2>4
<1>14. CommitIsLast'
  BY <1>4, <1>6 DEF IInv, CommitIsLast, NoCall, At, Exclusive
<1>15. RecordedAlertsSpaced'
  <2> SUFFICES ASSUME NEW i \in DOMAIN alerts, NEW j \in DOMAIN alerts, i < j,
                      alerts'[i].recorded, alerts[i].key = alerts[j].key,
                      Exclusive(alerts[i].key)
               PROVE  alerts[j].at - Stored(alerts[i].at) > Window[alerts[i].key]
    BY <1>4 DEF RecordedAlertsSpaced, Exclusive
  <2>1. CASE i = m
    BY <2>1, <1>1, <1>2, <1>3 DEF IInv, CommitIsLast, At
  <2>2. CASE i # m
    BY <2>2, <1>4 DEF IInv, RecordedAlertsSpaced
  <2> QED BY <2>1, <2>2
<1>16. SuppressionJustified'
  BY <1>1, <1>4 DEF IInv, SuppressionJustified
<1> QED BY <1>7, <1>9, <1>10, <1>11, <1>12, <1>13, <1>14, <1>15, <1>16 DEF IInv

\* Every step of the protocol keeps the inductive invariant.
LEMMA NextIInv == IInv /\ [Next]_vars => IInv'
<1> SUFFICES ASSUME IInv, [Next]_vars PROVE IInv'
  OBVIOUS
<1> USE SuppressionAssumption
<1>0. TypeOK BY DEF IInv
<1>1. CASE Tick
  BY <1>0, <1>1, EndingCallsKeepsIInv DEF Tick, TypeOK
<1>2. CASE SetBack
  BY <1>0, <1>2, EndingCallsKeepsIInv DEF SetBack, TypeOK
<1>3. CASE SetForward
  BY <1>0, <1>3, EndingCallsKeepsIInv DEF SetForward, TypeOK
<1>4. CASE Restart
  BY <1>0, <1>4, EndingCallsKeepsIInv DEF Restart, TypeOK
<1>5. ASSUME NEW t \in Threads, Call(t) PROVE IInv'
  <2>1. CASE \E k \in Keys : Begin(t, k)
    BY <2>1, BeginIInv
  <2>2. CASE QuerySuppressed(t)
    BY <2>2, QuerySuppressedIInv
  <2>3. CASE QueryExpired(t)
    BY <2>3, QueryExpiredIInv
  <2>4. CASE Send(t)
    BY <2>4, SendIInv
  <2>5. CASE Commit(t)
    BY <2>5, CommitIInv
  <2>6. CASE DatabaseError(t)
    BY <1>0, <2>6, EndingCallsKeepsIInv DEF DatabaseError, TypeOK
  <2> QED BY <1>5, <2>1, <2>2, <2>3, <2>4, <2>5, <2>6 DEF Call
<1>6. CASE UNCHANGED vars
  BY <1>0, <1>6, EndingCallsKeepsIInv DEF vars, TypeOK
<1> QED BY <1>1, <1>2, <1>3, <1>4, <1>5, <1>6 DEF Next

\* The inductive invariant holds in every reachable state.
THEOREM Invariance == Spec => []IInv
  BY InitIInv, NextIInv, PTL DEF Spec

\* Type correctness: the table, the calls and the histories keep their types.
THEOREM TypeCorrect == Spec => []TypeOK
<1>1. IInv => TypeOK BY DEF IInv
<1> QED BY <1>1, Invariance, PTL

\* _maybe_alert never repeats a recorded alert of a key of its own inside the
\* window, whatever fails in between.
THEOREM AlertsSpaced == Spec => []RecordedAlertsSpaced
<1>1. IInv => RecordedAlertsSpaced BY DEF IInv
<1> QED BY <1>1, Invariance, PTL

\* _maybe_alert suppresses nothing without a recorded alert of the same key
\* whose window still runs, however many threads share the key.
THEOREM SuppressionsJustified == Spec => []SuppressionJustified
<1>1. IInv => SuppressionJustified BY DEF IInv
<1> QED BY <1>1, Invariance, PTL

\* By the readings of the clock, two alerts are less than half a second short
\* of a window apart: the row is rounded, and may be older than its alert.
AlertsApart ==
    \A i, j \in DOMAIN alerts :
        (/\ i < j /\ alerts[i].recorded
         /\ alerts[i].key = alerts[j].key /\ Exclusive(alerts[i].key))
        => 2 * (alerts[j].at - alerts[i].at) > 2 * Window[alerts[i].key] - Second

\* What the rounding of last_alerted_at costs: an alert of a key of one thread
\* comes at most half a second before its window is over.
THEOREM AlertsKeepApart == Spec => []AlertsApart
<1>1. IInv => AlertsApart
  <2> SUFFICES ASSUME IInv, NEW i \in DOMAIN alerts, NEW j \in DOMAIN alerts,
                      i < j, alerts[i].recorded, alerts[i].key = alerts[j].key,
                      Exclusive(alerts[i].key)
               PROVE  2 * (alerts[j].at - alerts[i].at) > 2 * Window[alerts[i].key] - Second
    BY DEF AlertsApart
  <2> DEFINE a == alerts[i].at
             b == alerts[j].at
             w == Window[alerts[i].key]
             s == Stored(a)
  <2>1. a \in Int /\ b \in Int /\ w \in Nat /\ Second \in Nat
    BY AlertType, SuppressionAssumption DEF IInv
  <2>2. s \in Int /\ 2 * a - Second < 2 * s
    BY <2>1, StoredNear
  <2>3. b - s > w
    BY DEF IInv, RecordedAlertsSpaced
  <2> HIDE DEF a, b, w, s
  <2>4. 2 * (b - a) > 2 * w - Second
    BY <2>1, <2>2, <2>3
  <2> QED BY <2>4 DEF a, b, w
<1> QED BY <1>1, Invariance, PTL
===========================================================================
