-------------------------- MODULE MonitorsProofs --------------------------
(***************************************************************************)
(* Theorems about the monitors: for any number of monitors, mounts and     *)
(* snapshots, about Monitors and the history page, and, for whatever the   *)
(* system says, about what the collections make of it.                     *)
(***************************************************************************)
EXTENDS MonitorReports, SequenceLemmas

AlertingProofs == INSTANCE AlertSuppressionProofs WITH
    Threads <- Mons, Users <- [k \in Keys |-> {Owner[k]}], Recipients <- TRUE

\* The constants of the alerting satisfy its assumption.
LEMMA AlertingConstants ==
  Alerting!SuppressionAssumption /\ AlertingProofs!SuppressionAssumption
  BY MonitorsAssumption
     DEF Alerting!SuppressionAssumption, AlertingProofs!SuppressionAssumption

\* AlertSuppressionProofs has instances of the definitions of AlertSuppression
\* of its own: they are the same.
LEMMA SameAlerting ==
  /\ \A now : Alerting!Stored(now) = AlertingProofs!Stored(now)
  /\ Alerting!vars = AlertingProofs!vars
  /\ Alerting!TypeOK <=> AlertingProofs!TypeOK
  /\ Alerting!Init <=> AlertingProofs!Init
  /\ Alerting!Next <=> AlertingProofs!Next
<1>0. \A now : Alerting!Stored(now) = AlertingProofs!Stored(now)
  BY Zenon DEF Alerting!Stored, AlertingProofs!Stored
<1>1. Alerting!vars = AlertingProofs!vars
  BY DEF Alerting!vars, AlertingProofs!vars
<1>2. Alerting!TypeOK <=> AlertingProofs!TypeOK
  BY DEF Alerting!TypeOK, AlertingProofs!TypeOK, Alerting!NoCall,
          AlertingProofs!NoCall, Alerting!Calls, AlertingProofs!Calls,
          Alerting!Alerts, AlertingProofs!Alerts, Alerting!Occurrences,
          AlertingProofs!Occurrences
<1>3. Alerting!Init <=> AlertingProofs!Init
  BY DEF Alerting!Init, AlertingProofs!Init, Alerting!NoCall,
          AlertingProofs!NoCall
<1>4. Alerting!Next <=> AlertingProofs!Next
  BY Zenon
  DEF Alerting!Next, AlertingProofs!Next, Alerting!wall,
          AlertingProofs!wall, Alerting!NoCall, AlertingProofs!NoCall,
          Alerting!Tick, AlertingProofs!Tick, Alerting!SetBack,
          AlertingProofs!SetBack, Alerting!SetForward,
          AlertingProofs!SetForward, Alerting!Stored, AlertingProofs!Stored,
          Alerting!Touches, AlertingProofs!Touches,
          Alerting!At, AlertingProofs!At,
          Alerting!Expired, AlertingProofs!Expired, Alerting!Begin,
          AlertingProofs!Begin, Alerting!QuerySuppressed,
          AlertingProofs!QuerySuppressed, Alerting!QueryExpired,
          AlertingProofs!QueryExpired, Alerting!Outcomes,
          AlertingProofs!Outcomes, Alerting!Send, AlertingProofs!Send,
          Alerting!Committable, AlertingProofs!Committable, Alerting!Commit,
          AlertingProofs!Commit, Alerting!DatabaseError,
          AlertingProofs!DatabaseError, Alerting!Restart,
          AlertingProofs!Restart, Alerting!Call, AlertingProofs!Call
<1> QED BY <1>0, <1>1, <1>2, <1>3, <1>4

\* What the cycles keep by themselves, the alerting left aside.
CycleTypeOK ==
    /\ mpc \in [Mons -> {"sleep", "store", "persist", "check", "alert"}]
    /\ wake \in [Mons -> Nat]
    /\ snap \in [Mons -> Snapshots]
    /\ next \in [Mons -> Nat \ {0}]
    /\ redis \in [Mons -> Seq(Snapshots)]
    /\ \A m \in Mons : Len(redis[m]) <= History
    /\ rows \subseteq [mon : Mons, name : Keys, snap : Snapshots]
    /\ cut \in [Mons -> BOOLEAN]

IInv == CycleTypeOK /\ AlertingProofs!IInv
---------------------------------------------------------------------------

\* A snapshot in the making is well typed.
LEMMA SnapType ==
  ASSUME CycleTypeOK, NEW m \in Mons
  PROVE  /\ snap[m] \in Snapshots /\ snap[m].report \in Seq(Entries)
         /\ snap[m].run \in Nat /\ snap[m].at \in Int /\ snap[m].real \in Nat
         /\ snap[m].behind \in Int
  BY DEF CycleTypeOK, Snapshots

\* Every step of the monitors is a step of the alerting, or none.
LEMMA AlertingPart ==
  ASSUME CycleTypeOK, AlertingProofs!IInv, [Next]_vars
  PROVE  [AlertingProofs!Next]_(AlertingProofs!vars)
<1>1. [Alerting!Next]_(Alerting!vars)
  <2> USE DEF Alerting!vars, alertVars
  <2>1. CASE \E m \in Mons : CheckNext(m)
    <3>1. PICK m \in Mons :
              \E i \in Pending(m) : Alerting!Begin(m, snap[m].report[i].name)
      BY <2>1 DEF CheckNext
    <3>0. PICK i \in Pending(m) : Alerting!Begin(m, snap[m].report[i].name)
      BY <3>1
    <3>2. snap[m].report[i] \in Entries
      <4>1. snap[m].report \in Seq(Entries) /\ next[m] \in Nat \ {0}
        BY SnapType DEF CycleTypeOK
      <4>2. i \in DOMAIN snap[m].report
        BY <4>1 DEF Pending
      <4> QED BY <4>1, <4>2
    <3>3. snap[m].report[i].name \in Keys
      BY <3>2 DEF Entries
    <3> QED BY <3>0, <3>3 DEF Alerting!Next, Alerting!Call
  <2>2. CASE \E m \in Mons : InAlert(m) \/ AlertReturns(m) \/ AlertRaises(m)
    BY <2>2 DEF InAlert, AlertReturns, AlertRaises, Alerting!Next, Alerting!Call
  <2>3. CASE \E m \in Mons : \/ Collect(m) \/ CollectRaises(m)
                             \/ Store(m) \/ StoreFails(m) \/ Persist(m)
                             \/ PersistFails(m) \/ CheckDone(m)
    BY <2>3 DEF Collect, CollectRaises, Store, StoreFails, Persist, PersistFails, CheckDone
  <2>4. CASE Killed
    <3>1. CASE \E m \in Mons : ~Alerting!At(m, "idle")
      BY <2>4, <3>1 DEF Killed, Alerting!Next, Alerting!Restart
    <3>2. CASE \A m \in Mons : Alerting!At(m, "idle")
      <4>1. Alerting!TypeOK
        BY SameAlerting DEF AlertingProofs!IInv
      <4>2. \A m \in Mons : call[m] = Alerting!NoCall
        BY <3>2, <4>1 DEF Alerting!TypeOK, Alerting!Calls, Alerting!At
      <4>3. call' = call
        BY <2>4, <4>1, <4>2 DEF Killed, Alerting!TypeOK
      <4> QED BY <2>4, <4>3 DEF Killed
    <3> QED BY <3>1, <3>2
  <2>5. CASE RedisRestart \/ Clock \/ UNCHANGED vars
    BY <2>5 DEF RedisRestart, Clock, Alerting!Next, vars
  <2> QED BY <2>1, <2>2, <2>3, <2>4, <2>5 DEF Next, Cycle
<1> QED BY <1>1, SameAlerting DEF Alerting!vars, AlertingProofs!vars

\* The first states are well typed.
LEMMA InitType == Init => CycleTypeOK
<1> SUFFICES ASSUME Init PROVE CycleTypeOK
  OBVIOUS
<1> DEFINE none == [run |-> 0, at |-> 0, report |-> <<>>, real |-> 0, behind |-> 0]
<1>1. none \in Snapshots
  BY DEF Snapshots
<1>2. /\ \A m \in Mons : redis[m] = <<>> /\ Len(redis[m]) <= History
      /\ redis \in [Mons -> Seq(Snapshots)]
  BY MonitorsAssumption DEF Init
<1> QED BY <1>1, <1>2, MonitorsAssumption DEF Init, CycleTypeOK

\* What Pushed returns is a list of snapshots within the cap.
LEMMA PushedType ==
  ASSUME CycleTypeOK, NEW m \in Mons
  PROVE  Pushed(m) \in Seq(Snapshots) /\ Len(Pushed(m)) <= History
<1> DEFINE list == <<snap[m]>> \o redis[m]
<1> DEFINE n == IF Len(list) < History THEN Len(list) ELSE History
<1>1. redis[m] \in Seq(Snapshots) /\ snap[m] \in Snapshots /\ History \in Nat
  BY MonitorsAssumption DEF CycleTypeOK
<1>2. list \in Seq(Snapshots) /\ Len(list) \in Nat
  BY <1>1
<1>3. n \in 0..Len(list) /\ n <= History
  BY <1>1, <1>2
<1> HIDE DEF list, n
<1>4. SubSeq(list, 1, n) \in Seq(Snapshots) /\ Len(SubSeq(list, 1, n)) = n
  BY <1>2, <1>3
<1> QED BY <1>3, <1>4 DEF Pushed, list, n

\* The time of a snapshot is the second in which it is collected.
LEMMA TruncatedNear ==
  ASSUME NEW now \in Int
  PROVE  Truncated(now) \in Int /\ Truncated(now) <= now /\ now < Truncated(now) + Second
<1>1. Second \in Nat \ {0}
  BY MonitorsAssumption
<1> DEFINE q == now \div Second
<1>2. q \in Int /\ Second * q <= now /\ now < Second * q + Second
  BY <1>1, Z3
<1>3. Second * q \in Int
  <2> HIDE DEF q
  <2> QED BY <1>1, <1>2, Z3
<1> DEFINE p == Second * q
<1>4. p \in Int /\ p <= now /\ now < p + Second
  BY <1>2, <1>3
<1>5. Truncated(now) = p
  BY DEF Truncated
<1> HIDE DEF p
<1> QED BY <1>1, <1>4, <1>5

\* Every step keeps the types, and the cap of the lists.
LEMMA StepType ==
  ASSUME CycleTypeOK, AlertingProofs!IInv, [Next]_vars
  PROVE  CycleTypeOK'
<1>0. /\ elapsed \in Nat /\ setback \in Int /\ Alerting!wall \in Int
      /\ elapsed + Interval \in Nat
  BY SameAlerting, MonitorsAssumption
  DEF AlertingProofs!IInv, Alerting!TypeOK, Alerting!wall
<1>1. ASSUME NEW m \in Mons, Collect(m) PROVE CycleTypeOK'
  <2>1. PICK r \in Reports[m] :
            snap' = [snap EXCEPT ![m] = [run |-> snap[m].run + 1,
                     at |-> Truncated(Alerting!wall), report |-> r,
                     real |-> elapsed, behind |-> setback]]
    BY <1>1 DEF Collect
  <2>2. r \in Seq(Entries)
    BY MonitorsAssumption
  <2>3. [run |-> snap[m].run + 1, at |-> Truncated(Alerting!wall), report |-> r,
         real |-> elapsed, behind |-> setback] \in Snapshots
    <3>1. Truncated(Alerting!wall) \in Int
      BY <1>0, TruncatedNear
    <3>2. snap[m].run + 1 \in Nat
      BY SnapType
    <3> QED BY <1>0, <2>2, <3>1, <3>2 DEF Snapshots
  <2>4. snap' \in [Mons -> Snapshots]
    BY <2>1, <2>3 DEF CycleTypeOK
  <2> QED BY <1>1, <2>4 DEF Collect, Goto, CycleTypeOK
<1>2. ASSUME NEW m \in Mons, Store(m) PROVE CycleTypeOK'
  BY <1>2, PushedType DEF Store, Goto, CycleTypeOK
<1>3. ASSUME NEW m \in Mons, EndCycle(m, TRUE) \/ EndCycle(m, FALSE)
      PROVE  /\ mpc' \in [Mons -> {"sleep", "store", "persist", "check", "alert"}]
             /\ wake' \in [Mons -> Nat] /\ cut' \in [Mons -> BOOLEAN]
  <2>1. /\ mpc' = [mpc EXCEPT ![m] = "sleep"]
        /\ wake' = [wake EXCEPT ![m] = elapsed + Interval]
        /\ cut' = [cut EXCEPT ![m] = TRUE] \/ cut' = [cut EXCEPT ![m] = FALSE]
    BY <1>3 DEF EndCycle, Goto
  <2> QED BY <1>0, <2>1 DEF CycleTypeOK
<1>4. ASSUME NEW m \in Mons, StoreFails(m) PROVE CycleTypeOK'
  <2>1. redis' \in [Mons -> Seq(Snapshots)] /\ \A n \in Mons : Len(redis'[n]) <= History
    BY <1>4, PushedType DEF StoreFails, CycleTypeOK
  <2> QED BY <1>3, <1>4, <2>1 DEF StoreFails, CycleTypeOK
<1>5. ASSUME NEW m \in Mons, Persist(m) PROVE CycleTypeOK'
  <2>1. Batch(m) \subseteq [mon : Mons, name : Keys, snap : Snapshots]
    <3>1. \A i \in DOMAIN snap[m].report : snap[m].report[i] \in Entries
      BY SnapType
    <3>2. \A i \in DOMAIN snap[m].report : snap[m].report[i].name \in Keys
      BY <3>1 DEF Entries
    <3> QED BY <3>2, SnapType DEF Batch
  <2>2. rows' \subseteq [mon : Mons, name : Keys, snap : Snapshots]
    BY <1>5, <2>1 DEF Persist, CycleTypeOK
  <2> QED BY <1>5, <2>2 DEF Persist, Goto, CycleTypeOK
<1>6. ASSUME NEW m \in Mons, PersistFails(m) PROVE CycleTypeOK'
  BY <1>6 DEF PersistFails, Goto, CycleTypeOK
<1>7. ASSUME NEW m \in Mons, CheckNext(m) PROVE CycleTypeOK'
  <2>1. PICK i \in Pending(m) : next' = [next EXCEPT ![m] = i + 1]
    BY <1>7 DEF CheckNext
  <2>2. i + 1 \in Nat \ {0}
    BY SnapType DEF Pending, CycleTypeOK
  <2> QED BY <1>7, <2>1, <2>2 DEF CheckNext, Goto, CycleTypeOK
<1>8. ASSUME NEW m \in Mons, CollectRaises(m) \/ CheckDone(m) \/ AlertRaises(m)
      PROVE  CycleTypeOK'
  BY <1>3, <1>8 DEF CollectRaises, CheckDone, AlertRaises, CycleTypeOK
<1>9. ASSUME NEW m \in Mons, InAlert(m) \/ AlertReturns(m) PROVE CycleTypeOK'
  BY <1>9 DEF InAlert, AlertReturns, cycleVars, Goto, CycleTypeOK
<1>10. CASE Killed
  <2>1. \A m \in Mons : [snap[m] EXCEPT !.report = <<>>] \in Snapshots
    <3> TAKE m \in Mons
    <3>1. snap[m] \in [run : Nat, at : Int, report : Seq(Entries), real : Nat, behind : Int]
      BY SnapType DEF Snapshots
    <3>2. <<>> \in Seq(Entries)
      OBVIOUS
    <3> DEFINE S == Seq(Entries)
    <3> HIDE DEF S
    <3>3. [snap[m] EXCEPT !.report = <<>>] \in [run : Nat, at : Int, report : S, real : Nat, behind : Int]
      BY <3>1, <3>2 DEF S
    <3> QED BY <3>3 DEF Snapshots, S
  <2>2. snap' \in [Mons -> Snapshots]
    BY <1>10, <2>1 DEF Killed
  <2> QED BY <1>0, <1>10, <2>2 DEF Killed, CycleTypeOK
<1>11. CASE RedisRestart
  <2>1. redis' \in [Mons -> Seq(Snapshots)] /\ \A n \in Mons : Len(redis'[n]) <= History
    BY <1>11, MonitorsAssumption DEF RedisRestart
  <2> QED BY <1>11, <2>1 DEF RedisRestart, CycleTypeOK
<1>12. CASE Clock \/ UNCHANGED vars
  BY <1>12 DEF Clock, vars, cycleVars, CycleTypeOK
<1> QED BY <1>1, <1>2, <1>4, <1>5, <1>6, <1>7, <1>8, <1>9, <1>10, <1>11, <1>12 DEF Next, Cycle

\* The types and the invariant of the alerting are kept.
THEOREM Invariance == Spec => []IInv
<1>1. Init => IInv
  BY InitType, AlertingConstants, SameAlerting, AlertingProofs!InitIInv DEF Init, IInv
<1>2. IInv /\ [Next]_vars => IInv'
  BY StepType, AlertingPart, AlertingConstants, AlertingProofs!NextIInv DEF IInv
<1> QED BY <1>1, <1>2, PTL DEF Spec

\* Type correctness: the cycles, the lists and the tables keep their types.
THEOREM TypeCorrect == Spec => []TypeOK
<1>1. IInv => TypeOK
  BY SameAlerting DEF IInv, CycleTypeOK, TypeOK, AlertingProofs!IInv
<1> QED BY <1>1, Invariance, PTL

\* For every set of monitors and mounts: recorded alerts about a mount, or the
\* swap, are more than its window apart.
THEOREM AlertsStaySpaced == Spec => []AlertsSpaced
<1>1. IInv => AlertsSpaced
  BY SameAlerting
     DEF IInv, AlertingProofs!IInv, AlertsSpaced, Alerting!RecordedAlertsSpaced,
         AlertingProofs!RecordedAlertsSpaced, Alerting!Exclusive, AlertingProofs!Exclusive
<1> QED BY <1>1, Invariance, PTL

---------------------------------------------------------------------------

\* A collection is persisted wholly or not at all.
THEOREM BatchesStayWhole == Spec => []BatchesWhole
<1>1. Init => BatchesWhole
  BY DEF Init, BatchesWhole
<1>2. BatchesWhole /\ [Next]_vars => BatchesWhole'
  <2> SUFFICES ASSUME BatchesWhole, [Next]_vars PROVE BatchesWhole'
    OBVIOUS
  <2>1. ASSUME NEW m \in Mons, Persist(m) PROVE BatchesWhole'
    <3>1. \A r \in Batch(m) : \A i \in DOMAIN r.snap.report :
              [r EXCEPT !.name = r.snap.report[i].name] \in Batch(m)
      BY DEF Batch
    <3> QED BY <2>1, <3>1 DEF Persist, BatchesWhole
  <2>2. CASE rows' = rows
    BY <2>2 DEF BatchesWhole
  <2> QED BY <2>1, <2>2 DEF Next, Cycle, Collect, CollectRaises, Store, StoreFails, PersistFails,
          CheckNext, CheckDone, InAlert, AlertReturns, AlertRaises, Killed,
          RedisRestart, Clock, vars, cycleVars
<1> QED BY <1>1, <1>2, PTL DEF Spec

\* The numbers of the snapshots in hand, in Redis and in the rows: what is
\* being persisted is at the head of the list, unless the list was lost.
Numbered ==
    /\ \A r \in rows : r.snap.run <= snap[r.mon].run
    /\ \A m \in Mons : redis[m] # <<>> =>
          /\ redis[m][1].run <= snap[m].run
          /\ mpc[m] = "persist" => redis[m][1].run = snap[m].run
    /\ DashboardNotBehind

\* The first of the snapshots that Pushed returns is the one in hand.
LEMMA PushedHead ==
  ASSUME CycleTypeOK, NEW m \in Mons
  PROVE  Pushed(m) # <<>> /\ Pushed(m)[1] = snap[m]
<1> DEFINE list == <<snap[m]>> \o redis[m]
<1> DEFINE n == IF Len(list) < History THEN Len(list) ELSE History
<1>1. redis[m] \in Seq(Snapshots) /\ snap[m] \in Snapshots /\ History \in Nat \ {0}
  BY MonitorsAssumption DEF CycleTypeOK
<1>2. list \in Seq(Snapshots) /\ Len(list) \in Nat \ {0} /\ list[1] = snap[m]
  BY <1>1
<1>3. n \in 1..Len(list)
  BY <1>1, <1>2
<1> HIDE DEF list, n
<1>4. SubSeq(list, 1, n)[1] = list[1] /\ Len(SubSeq(list, 1, n)) = n
  BY <1>2, <1>3
<1> QED BY <1>2, <1>3, <1>4 DEF Pushed, list, n

\* Each step keeps the numbers in order.
LEMMA StepNumbered ==
  ASSUME CycleTypeOK, CycleTypeOK', Numbered, [Next]_vars
  PROVE  Numbered'
<1> USE DEF Numbered, DashboardNotBehind, Goto
<1>1. /\ \A m \in Mons : snap[m].run \in Nat
      /\ \A m \in Mons : redis[m] # <<>> => redis[m][1].run \in Nat
      /\ \A r \in rows : r.mon \in Mons /\ r.snap.run \in Nat
  <2>1. \A m \in Mons : redis[m] # <<>> => redis[m][1] \in Snapshots
    BY DEF CycleTypeOK
  <2>2. \A r \in rows : r.mon \in Mons /\ r.snap \in Snapshots
    BY DEF CycleTypeOK
  <2> QED BY <2>1, <2>2, SnapType DEF Snapshots
<1>2. ASSUME NEW m \in Mons, Collect(m) PROVE Numbered'
  <2>1. /\ snap'[m].run = snap[m].run + 1
        /\ \A n \in Mons \ {m} : snap'[n] = snap[n]
    BY <1>2 DEF Collect, CycleTypeOK
  <2>2. mpc'[m] = "store" /\ \A n \in Mons \ {m} : mpc'[n] = mpc[n]
    BY <1>2 DEF Collect, CycleTypeOK
  <2> QED BY <1>1, <1>2, <2>1, <2>2 DEF Collect
<1>3. ASSUME NEW m \in Mons,
             redis' = [redis EXCEPT ![m] = Pushed(m)],
             mpc' \in {[mpc EXCEPT ![m] = "persist"], [mpc EXCEPT ![m] = "sleep"]},
             UNCHANGED <<snap, rows>>
      PROVE  Numbered'
  <2>1. redis'[m][1] = snap[m] /\ \A n \in Mons \ {m} : redis'[n] = redis[n]
    BY <1>3, PushedHead DEF CycleTypeOK
  <2>2. \A n \in Mons \ {m} : mpc'[n] = mpc[n]
    BY <1>3 DEF CycleTypeOK
  <2> QED BY <1>1, <1>3, <2>1, <2>2
<1>4. ASSUME NEW m \in Mons, NEW s \in {"check", "sleep", "alert"},
             Goto(m, s), UNCHANGED <<snap, redis, rows>>
      PROVE  Numbered'
  BY <1>4 DEF CycleTypeOK
<1>5. ASSUME NEW m \in Mons, Store(m) \/ StoreFails(m) PROVE Numbered'
  <2>1. CASE redis' = redis
    BY <1>4, <1>3, <1>5, <2>1 DEF Store, StoreFails, EndCycle
  <2>2. CASE redis' = [redis EXCEPT ![m] = Pushed(m)]
    BY <1>3, <1>5, <2>2 DEF Store, StoreFails, EndCycle
  <2> QED BY <1>5, <2>1, <2>2 DEF Store, StoreFails
<1>6. ASSUME NEW m \in Mons, Persist(m) PROVE Numbered'
  <2>1. \A r \in Batch(m) : r.mon = m /\ r.snap = snap[m]
    BY DEF Batch
  <2>2. \A r \in rows' : r \in rows \/ (r.mon = m /\ r.snap = snap[m])
    BY <1>6, <2>1 DEF Persist
  <2>3. mpc[m] = "persist" /\ mpc'[m] = "check" /\ \A n \in Mons \ {m} : mpc'[n] = mpc[n]
    BY <1>6 DEF Persist, CycleTypeOK
  <2> QED BY <1>1, <1>6, <2>2, <2>3 DEF Persist
<1>7. ASSUME NEW m \in Mons, \/ CollectRaises(m) \/ PersistFails(m)
                             \/ CheckNext(m) \/ CheckDone(m)
                             \/ AlertReturns(m) \/ AlertRaises(m)
      PROVE  Numbered'
  BY <1>4, <1>7 DEF CollectRaises, PersistFails, CheckNext, CheckDone, AlertReturns, AlertRaises, EndCycle
<1>8. CASE Killed
  <2>1. \A m \in Mons : snap'[m].run = snap[m].run /\ mpc'[m] = "sleep"
    <3> TAKE m \in Mons
    <3>1. snap[m] \in [run : Nat, at : Int, report : Seq(Entries), real : Nat, behind : Int]
      BY SnapType DEF Snapshots
    <3> QED BY <1>8, <3>1 DEF Killed
  <2> QED BY <1>1, <1>8, <2>1 DEF Killed
<1>9. CASE RedisRestart
  BY <1>1, <1>9 DEF RedisRestart
<1>10. CASE Clock \/ UNCHANGED vars \/ \E m \in Mons : InAlert(m)
  BY <1>10 DEF Clock, InAlert, vars, cycleVars
<1> QED BY <1>2, <1>5, <1>6, <1>7, <1>8, <1>9, <1>10 DEF Next, Cycle

\* The dashboard is never behind the history page.
THEOREM DashboardUpToDate == Spec => []DashboardNotBehind
<1>1. Init => Numbered
  BY DEF Init, Numbered, DashboardNotBehind
<1>2. IInv /\ IInv' /\ Numbered /\ [Next]_vars => Numbered'
  BY StepNumbered DEF IInv
<1>3. Numbered => DashboardNotBehind
  BY DEF Numbered
<1> QED BY <1>1, <1>2, <1>3, Invariance, PTL DEF Spec

---------------------------------------------------------------------------

\* The call of _maybe_alert about k that will be an occurrence when it ends.
Underway(m, k) ==
    /\ mpc[m] = "alert" /\ call[m].pc \in {"query", "send"}
    /\ call[m].key = k /\ call[m].real >= snap[m].real

\* What a cycle has considered at each of its points.
Considering(m) ==
    /\ snap[m].real <= elapsed
    /\ mpc[m] \in {"store", "persist"} => next[m] = 1
    /\ \A i \in DOMAIN snap[m].report : LET k == snap[m].report[i].name IN
          snap[m].report[i].over =>
              /\ (mpc[m] \in {"check", "alert"} /\ i < next[m])
                 => Considered(m, k) \/ Underway(m, k)
              /\ (mpc[m] = "sleep" /\ ~cut[m]) => Considered(m, k)

\* Occurrences are never forgotten.
LEMMA AlertsGrow ==
  ASSUME AlertingProofs!IInv, [Alerting!Next]_(Alerting!vars)
  PROVE  /\ elapsed \in Nat /\ elapsed' \in Nat /\ elapsed <= elapsed'
         /\ suppressed \subseteq suppressed'
         /\ \A i \in DOMAIN alerts : /\ i \in DOMAIN alerts'
                                     /\ alerts'[i].key = alerts[i].key
                                     /\ alerts'[i].real = alerts[i].real
<1>1. Alerting!TypeOK
  BY SameAlerting DEF AlertingProofs!IInv
<1>2. elapsed \in Nat /\ alerts \in Seq(Alerting!Alerts)
  BY <1>1 DEF Alerting!TypeOK
<1>3. ASSUME NEW m \in Mons, Alerting!Send(m) PROVE
          \A i \in DOMAIN alerts : i \in DOMAIN alerts' /\ alerts'[i] = alerts[i]
  BY <1>2, <1>3 DEF Alerting!Send
<1>4. ASSUME NEW m \in Mons, Alerting!Commit(m)
      PROVE  \A i \in DOMAIN alerts : /\ i \in DOMAIN alerts'
                                      /\ alerts'[i].key = alerts[i].key
                                      /\ alerts'[i].real = alerts[i].real
  <2>1. \A i \in DOMAIN alerts : alerts[i] \in Alerting!Alerts
    BY <1>2
  <2>2. \A i \in DOMAIN alerts :
            /\ [alerts[i] EXCEPT !.recorded = TRUE].key = alerts[i].key
            /\ [alerts[i] EXCEPT !.recorded = TRUE].real = alerts[i].real
    BY <2>1 DEF Alerting!Alerts
  <2> QED BY <1>2, <1>4, <2>2 DEF Alerting!Commit
<1>5. alerts' = alerts \/ \E m \in Mons : Alerting!Send(m) \/ Alerting!Commit(m)
  BY DEF Alerting!Next, Alerting!Call, Alerting!vars, Alerting!Tick, Alerting!SetBack,
         Alerting!SetForward, Alerting!Restart, Alerting!Begin, Alerting!QuerySuppressed,
         Alerting!QueryExpired, Alerting!DatabaseError
<1>6. elapsed' = elapsed \/ elapsed' = elapsed + 1
  BY DEF Alerting!Next, Alerting!Call, Alerting!vars, Alerting!Tick, Alerting!SetBack,
         Alerting!SetForward, Alerting!Restart, Alerting!Begin, Alerting!QuerySuppressed,
         Alerting!QueryExpired, Alerting!Send, Alerting!Commit, Alerting!DatabaseError
<1>7. suppressed \subseteq suppressed'
  BY DEF Alerting!Next, Alerting!Call, Alerting!vars, Alerting!Tick, Alerting!SetBack,
         Alerting!SetForward, Alerting!Restart, Alerting!Begin, Alerting!QuerySuppressed,
         Alerting!QueryExpired, Alerting!Send, Alerting!Commit, Alerting!DatabaseError
<1>8. elapsed' \in Nat /\ elapsed <= elapsed'
  BY <1>2, <1>6
<1> QED BY <1>2, <1>3, <1>4, <1>5, <1>7, <1>8

\* Hence what was considered in a cycle stays so until the next.
LEMMA ConsideredStays ==
  ASSUME AlertingProofs!IInv, [Alerting!Next]_(Alerting!vars), NEW m \in Mons,
         snap'[m].real = snap[m].real, NEW k, Considered(m, k)
  PROVE  Considered(m, k)'
  BY AlertsGrow DEF Considered

\* A step that leaves a monitor alone keeps what it has considered.
SameCycle(n) ==
    /\ snap'[n] = snap[n] /\ next'[n] = next[n] /\ mpc'[n] = mpc[n]
    /\ cut'[n] = cut[n] /\ call'[n] = call[n]

LEMMA OthersKeepConsidering ==
  ASSUME CycleTypeOK, AlertingProofs!IInv, [Alerting!Next]_(Alerting!vars),
         NEW n \in Mons, Considering(n), SameCycle(n)
  PROVE  Considering(n)'
<1>1. elapsed <= elapsed' /\ elapsed \in Nat /\ elapsed' \in Nat /\ snap[n].real \in Nat
  BY AlertsGrow, SnapType
<1>2. snap'[n].real <= elapsed'
  BY <1>1 DEF SameCycle, Considering
<1>3. ASSUME NEW k PROVE /\ Considered(n, k) => Considered(n, k)'
                         /\ Underway(n, k) => Underway(n, k)'
  BY ConsideredStays DEF SameCycle, Underway
<1> QED BY <1>2, <1>3 DEF SameCycle, Considering

\* Each step of a monitor keeps it for that monitor.
LEMMA CycleKeepsConsidering ==
  ASSUME CycleTypeOK, AlertingProofs!IInv, [Alerting!Next]_(Alerting!vars),
         NEW m \in Mons, Considering(m), Cycle(m)
  PROVE  Considering(m)'
<1> USE DEF Goto
<1>0. /\ elapsed \in Nat /\ call \in [Mons -> {Alerting!NoCall} \cup Alerting!Calls]
      /\ alerts \in Seq(Alerting!Alerts)
      /\ snap[m].real \in Nat /\ snap[m].report \in Seq(Entries)
      /\ next[m] \in Nat \ {0}
  BY SnapType, SameAlerting DEF AlertingProofs!IInv, Alerting!TypeOK, CycleTypeOK
<1>1. CASE Collect(m)
  <2>1. snap'[m].real = elapsed /\ next'[m] = 1 /\ mpc'[m] = "store" /\ elapsed' = elapsed
    BY <1>1 DEF Collect, CycleTypeOK, alertVars
  <2> QED BY <1>0, <2>1 DEF Considering
<1>2. CASE Store(m) \/ Persist(m) \/ PersistFails(m)
  <2>1. /\ snap' = snap /\ next' = next /\ elapsed' = elapsed
        /\ mpc'[m] \in {"persist", "check"} /\ mpc[m] \in {"store", "persist"}
    BY <1>2 DEF Store, Persist, PersistFails, CycleTypeOK, alertVars
  <2>2. \A i \in DOMAIN snap[m].report : ~(i < 1)
    BY <1>0
  <2> QED BY <1>0, <2>1, <2>2 DEF Considering
<1>3. CASE CollectRaises(m) \/ StoreFails(m) \/ AlertRaises(m)
  <2>1. /\ snap' = snap /\ mpc'[m] = "sleep" /\ cut'[m] = TRUE /\ elapsed' = elapsed
    BY <1>3 DEF CollectRaises, StoreFails, AlertRaises, EndCycle, CycleTypeOK, alertVars,
                Alerting!DatabaseError
  <2> QED BY <1>0, <2>1 DEF Considering
<1>4. CASE CheckNext(m)
  <2>1. PICK i \in Pending(m) :
            /\ \A j \in Pending(m) : i <= j
            /\ Alerting!Begin(m, snap[m].report[i].name)
            /\ next' = [next EXCEPT ![m] = i + 1]
    BY <1>4 DEF CheckNext
  <2>2. /\ snap' = snap /\ mpc[m] = "check" /\ mpc'[m] = "alert" /\ next'[m] = i + 1
        /\ elapsed' = elapsed
    BY <1>4, <2>1 DEF CheckNext, CycleTypeOK, Alerting!Begin
  <2>3. Underway(m, snap[m].report[i].name)'
    BY <1>0, <2>1, <2>2 DEF Underway, Considering, Alerting!Begin
  <2>4. ASSUME NEW j \in DOMAIN snap[m].report, snap[m].report[j].over, j < i + 1
        PROVE  \/ Considered(m, snap[m].report[j].name)'
               \/ Underway(m, snap[m].report[j].name)'
    <3>1. CASE j < next[m]
      <4>1. Considered(m, snap[m].report[j].name)
        BY <2>2, <2>4, <3>1 DEF Considering, Underway
      <4> QED BY <2>2, <4>1, ConsideredStays
    <3>2. CASE ~(j < next[m])
      <4>1. j \in Pending(m)
        BY <1>0, <2>4, <3>2 DEF Pending
      <4>2. i <= j
        BY <2>1, <4>1
      <4>3. j = i
        BY <1>0, <2>4, <4>2 DEF Pending
      <4> QED BY <2>3, <4>3
    <3> QED BY <3>1, <3>2
  <2> QED BY <1>0, <2>2, <2>4 DEF Considering
<1>5. CASE CheckDone(m)
  <2>1. /\ snap' = snap /\ mpc[m] = "check" /\ mpc'[m] = "sleep" /\ elapsed' = elapsed
    BY <1>5 DEF CheckDone, EndCycle, CycleTypeOK, alertVars
  <2>2. ASSUME NEW i \in DOMAIN snap[m].report, snap[m].report[i].over
        PROVE  Considered(m, snap[m].report[i].name)'
    <3>1. i < next[m]
      <4>1. i \notin Pending(m)
        BY <1>5 DEF CheckDone
      <4> QED BY <1>0, <2>2, <4>1 DEF Pending
    <3>2. Considered(m, snap[m].report[i].name)
      BY <2>1, <2>2, <3>1 DEF Considering, Underway
    <3> QED BY <2>1, <3>2, ConsideredStays
  <2> QED BY <1>0, <2>1, <2>2 DEF Considering
<1>6. CASE InAlert(m) \/ AlertReturns(m)
  <2>1. /\ snap' = snap /\ next' = next /\ cut' = cut /\ elapsed' = elapsed
        /\ mpc[m] = "alert" /\ mpc'[m] \in {"alert", "check"}
    BY <1>6 DEF InAlert, AlertReturns, cycleVars, CycleTypeOK, Alerting!QueryExpired,
                Alerting!Send, Alerting!QuerySuppressed, Alerting!Commit
  <2>2. ASSUME NEW k, Underway(m, k) PROVE Considered(m, k)' \/ Underway(m, k)'
    <3>1. call[m] \in Alerting!Calls /\ call[m].real \in Nat
      BY <1>0, <2>2 DEF Underway, Alerting!NoCall, Alerting!Calls
    <3>2. CASE Alerting!QueryExpired(m) /\ InAlert(m)
      <4>1. call'[m].pc = "send" /\ call'[m].key = k /\ call'[m].real = call[m].real
        BY <1>0, <2>2, <3>2 DEF Underway, Alerting!QueryExpired
      <4>2. mpc'[m] = "alert"
        BY <2>1, <3>2 DEF InAlert, cycleVars
      <4> QED BY <2>1, <2>2, <4>1, <4>2 DEF Underway
    <3>3. CASE Alerting!Send(m)
      <4>1. PICK o \in Alerting!Outcomes :
                alerts' = Append(alerts, [key |-> call[m].key, at |-> call[m].now,
                              real |-> call[m].real, outcome |-> o, recorded |-> FALSE])
        BY <3>3 DEF Alerting!Send
      <4>2. Len(alerts) + 1 \in DOMAIN alerts' /\ Len(alerts) \in Nat
        BY <1>0, <4>1
      <4>3. /\ alerts'[Len(alerts) + 1].key = k
            /\ alerts'[Len(alerts) + 1].real >= snap'[m].real
        BY <1>0, <2>1, <2>2, <4>1 DEF Underway
      <4> QED BY <4>2, <4>3 DEF Considered
    <3>4. CASE Alerting!QuerySuppressed(m)
      <4>1. [key |-> k, at |-> call[m].now, real |-> call[m].real] \in suppressed'
        BY <2>2, <3>4 DEF Alerting!QuerySuppressed, Underway
      <4> QED BY <2>1, <2>2, <4>1 DEF Considered, Underway
    <3>5. CASE Alerting!Commit(m)
      BY <2>2, <3>5 DEF Alerting!Commit, Alerting!At, Underway
    <3> QED BY <1>6, <3>2, <3>3, <3>4, <3>5 DEF InAlert, AlertReturns
  <2>3. ASSUME NEW k, Considered(m, k) PROVE Considered(m, k)'
    BY <2>1, <2>3, ConsideredStays
  <2> QED BY <1>0, <2>1, <2>2, <2>3 DEF Considering
<1> QED BY <1>1, <1>2, <1>3, <1>4, <1>5, <1>6 DEF Cycle

\* The part of a monitor that another monitor's step leaves alone.
LEMMA CycleFrame ==
  ASSUME CycleTypeOK, AlertingProofs!IInv, NEW m \in Mons, NEW n \in Mons \ {m}, Cycle(m)
  PROVE  SameCycle(n)
<1>1. call \in [Mons -> {Alerting!NoCall} \cup Alerting!Calls]
  BY SameAlerting DEF AlertingProofs!IInv, Alerting!TypeOK
<1> USE DEF SameCycle, CycleTypeOK, Goto
<1>2. CASE Collect(m) \/ Store(m) \/ Persist(m) \/ PersistFails(m)
  BY <1>2 DEF Collect, Store, Persist, PersistFails, alertVars
<1>3. CASE CollectRaises(m) \/ StoreFails(m) \/ CheckDone(m)
  BY <1>3 DEF CollectRaises, StoreFails, CheckDone, EndCycle, alertVars
<1>4. CASE CheckNext(m)
  <2>1. PICK i \in Pending(m) : /\ Alerting!Begin(m, snap[m].report[i].name)
                                 /\ next' = [next EXCEPT ![m] = i + 1]
    BY <1>4 DEF CheckNext
  <2> QED BY <1>1, <1>4, <2>1 DEF CheckNext, Alerting!Begin
<1>5. CASE AlertRaises(m)
  BY <1>1, <1>5 DEF AlertRaises, EndCycle, Alerting!DatabaseError
<1>6. CASE InAlert(m) \/ AlertReturns(m)
  BY <1>1, <1>6 DEF InAlert, AlertReturns, cycleVars, Alerting!QueryExpired, Alerting!Send,
                    Alerting!QuerySuppressed, Alerting!Commit
<1> QED BY <1>2, <1>3, <1>4, <1>5, <1>6 DEF Cycle

\* Every cycle that no exception ends has mailed or suppressed an alert about
\* all it found over the threshold.
THEOREM AllConsidered == Spec => []OverConsidered
<1>1. Init => \A m \in Mons : Considering(m)
  BY DEF Init, Considering, Alerting!Init
<1>2. IInv /\ (\A m \in Mons : Considering(m)) /\ [Next]_vars
      => (\A m \in Mons : Considering(m))'
  <2> SUFFICES ASSUME IInv, \A m \in Mons : Considering(m), [Next]_vars, NEW n \in Mons
               PROVE  Considering(n)'
    OBVIOUS
  <2>1. CycleTypeOK /\ AlertingProofs!IInv
    BY DEF IInv
  <2>2. [Alerting!Next]_(Alerting!vars)
    BY <2>1, AlertingPart, SameAlerting DEF Alerting!vars, AlertingProofs!vars
  <2>3. CASE Cycle(n)
    BY <2>1, <2>2, <2>3, CycleKeepsConsidering
  <2>4. ASSUME NEW m \in Mons, Cycle(m), m # n PROVE Considering(n)'
    <3>1. SameCycle(n)
      BY <2>1, <2>4, CycleFrame
    <3> QED BY <2>1, <2>2, <3>1, OthersKeepConsidering
  <2>5. CASE Killed
    <3>1. snap[n] \in [run : Nat, at : Int, report : Seq(Entries), real : Nat, behind : Int]
      BY <2>1, SnapType DEF Snapshots
    <3>2. /\ snap'[n].real = snap[n].real /\ snap'[n].report = <<>>
          /\ mpc'[n] = "sleep" /\ elapsed' = elapsed
      BY <2>5, <3>1 DEF Killed
    <3> QED BY <3>2 DEF Considering
  <2>6. CASE RedisRestart \/ Clock \/ UNCHANGED vars
    <3>1. SameCycle(n)
      BY <2>6 DEF RedisRestart, Clock, vars, cycleVars, alertVars, SameCycle,
                  Alerting!Tick, Alerting!SetBack, Alerting!SetForward
    <3> QED BY <2>1, <2>2, <3>1, OthersKeepConsidering
  <2> QED BY <2>3, <2>4, <2>5, <2>6 DEF Next
<1>3. (\A m \in Mons : Considering(m)) => OverConsidered
  BY DEF Considering, OverConsidered, OverIn
<1> QED BY <1>1, <1>2, <1>3, Invariance, PTL DEF Spec

---------------------------------------------------------------------------

\* A snapshot has the time that the clock showed when it was collected, but
\* for the fraction of its second.
Dated(t) == t.real - t.behind < t.at + Second

\* The rows are finitely many; the unique key tells them apart; each is about
\* an entry of its collection, and dated by the clock.
Paged ==
    /\ IsFiniteSet(rows)
    /\ \A r, s \in rows :
          (r.mon = s.mon /\ r.name = s.name /\ r.snap.at = s.snap.at) => r = s
    /\ \A r \in rows : \E i \in DOMAIN r.snap.report : r.snap.report[i].name = r.name
    /\ \A r \in rows : Dated(r.snap)
    /\ \A m \in Mons : Dated(snap[m])

\* The rows are typed.
LEMMA RowType ==
  ASSUME CycleTypeOK, NEW r \in rows
  PROVE  /\ r \in [mon : Mons, name : Keys, snap : Snapshots]
         /\ r.mon \in Mons /\ r.name \in Keys
         /\ r.snap.at \in Int /\ r.snap.real \in Nat /\ r.snap.behind \in Int
         /\ r.snap.report \in Seq(Entries)
  BY DEF CycleTypeOK, Snapshots

\* The rows of a batch are as many as the entries, at most, and about them.
LEMMA BatchIs ==
  ASSUME CycleTypeOK, NEW m \in Mons
  PROVE  /\ IsFiniteSet(Batch(m))
         /\ \A b \in Batch(m) :
               /\ b.mon = m /\ b.snap = snap[m]
               /\ \E i \in DOMAIN b.snap.report : b.snap.report[i].name = b.name
         /\ \A b, c \in Batch(m) : b.name = c.name => b = c
<1> DEFINE row == [i \in DOMAIN snap[m].report |->
                      [mon |-> m, name |-> snap[m].report[i].name, snap |-> snap[m]]]
<1>1. snap[m].report \in Seq(Entries) /\ DOMAIN snap[m].report = 1..Len(snap[m].report)
      /\ Len(snap[m].report) \in Nat
  BY SnapType
<1>2. IsFiniteSet(DOMAIN snap[m].report)
  BY <1>1, FS_Interval
<1>3. row \in Surjection(DOMAIN snap[m].report, Batch(m))
  BY DEF Surjection, Batch
<1>4. IsFiniteSet(Batch(m))
  BY <1>2, <1>3, FS_Surjection
<1> QED BY <1>4 DEF Batch

\* Each step keeps what is said of the rows.
LEMMA StepPaged ==
  ASSUME IInv, Paged, [Next]_vars
  PROVE  Paged'
<1>1. CycleTypeOK /\ AlertingProofs!IInv /\ [Alerting!Next]_(Alerting!vars)
  <2>1. CycleTypeOK /\ AlertingProofs!IInv
    BY DEF IInv
  <2> QED BY <2>1, AlertingPart, SameAlerting DEF Alerting!vars, AlertingProofs!vars
<1>2. elapsed \in Nat /\ setback \in Int /\ Alerting!wall = elapsed - setback
  BY <1>1, SameAlerting DEF AlertingProofs!IInv, Alerting!TypeOK, Alerting!wall
<1>3. \A m \in Mons : Dated(snap[m])
  BY DEF Paged
<1>4. \A m \in Mons : Dated(snap'[m])
  <2>1. ASSUME NEW m \in Mons, Collect(m), NEW n \in Mons PROVE Dated(snap'[n])
    <3>1. CASE m = n
      <4>1. /\ snap'[m].real = elapsed /\ snap'[m].behind = setback
            /\ snap'[m].at = Truncated(Alerting!wall)
        BY <1>1, <2>1 DEF Collect, CycleTypeOK
      <4>2. Alerting!wall < Truncated(Alerting!wall) + Second
        BY <1>2, TruncatedNear
      <4> QED BY <1>2, <3>1, <4>1, <4>2 DEF Dated
    <3>2. CASE m # n
      <4>1. snap'[n] = snap[n]
        BY <1>1, <2>1, <3>2 DEF Collect, CycleTypeOK
      <4> QED BY <1>3, <4>1
    <3> QED BY <3>1, <3>2
  <2>2. ASSUME Killed, NEW m \in Mons PROVE Dated(snap'[m])
    <3>1. snap[m] \in [run : Nat, at : Int, report : Seq(Entries), real : Nat, behind : Int]
      BY <1>1, SnapType DEF Snapshots
    <3>2. /\ snap'[m].real = snap[m].real /\ snap'[m].at = snap[m].at
          /\ snap'[m].behind = snap[m].behind
      BY <2>2, <3>1 DEF Killed
    <3> QED BY <1>3, <3>2 DEF Dated
  <2>3. CASE snap' = snap
    BY <1>3, <2>3
  <2> QED BY <2>1, <2>2, <2>3
      DEF Next, Cycle, CollectRaises, Store, StoreFails, Persist, PersistFails, CheckNext,
          CheckDone, InAlert, AlertReturns, AlertRaises, RedisRestart, Clock, vars, cycleVars
<1>5. CASE rows' = rows
  BY <1>4, <1>5 DEF Paged, Dated
<1>6. ASSUME NEW m \in Mons, Persist(m), Accepted(m) PROVE Paged'
  <2>1. rows' = rows \cup Batch(m) /\ snap' = snap
    BY <1>6 DEF Persist
  <2>2. IsFiniteSet(rows')
    BY <1>1, <2>1, BatchIs, FS_Union DEF Paged
  <2>3. \A r \in rows' : \E i \in DOMAIN r.snap.report : r.snap.report[i].name = r.name
    BY <1>1, <2>1, BatchIs DEF Paged
  <2>4. \A r \in rows' : Dated(r.snap)
    BY <1>1, <2>1, BatchIs DEF Paged
  <2>5. ASSUME NEW b \in Batch(m), NEW r \in rows, r.mon = m, r.name = b.name PROVE r.snap.at # b.snap.at
    BY <1>6, <2>5 DEF Accepted, Refused
  <2>6. \A r, s \in rows' :
            (r.mon = s.mon /\ r.name = s.name /\ r.snap.at = s.snap.at) => r = s
    BY <1>1, <2>1, <2>5, BatchIs DEF Paged
  <2> QED BY <1>4, <2>2, <2>3, <2>4, <2>6 DEF Paged, Dated
<1> QED BY <1>5, <1>6
    DEF Next, Cycle, Collect, CollectRaises, Store, StoreFails, Persist, PersistFails,
        CheckNext, CheckDone, InAlert, AlertReturns, AlertRaises, Killed, RedisRestart,
        Clock, vars, cycleVars

\* The rows of a chart.
Charted(m, names, hours) == {r \in Since(hours) : r.mon = m /\ r.name \in names}

\* The points are these rows, each once, in the order of their times.
LEMMA PointsAre ==
  ASSUME CycleTypeOK, IsFiniteSet(rows), NEW m, NEW names, NEW hours
  PROVE  LET s == Points(m, names, hours)
             n == Cardinality(Charted(m, names, hours))
         IN  /\ n \in Nat /\ s \in Bijection(1..n, Charted(m, names, hours))
             /\ \A i, j \in 1..n : i < j => s[i].snap.at <= s[j].snap.at
<1> DEFINE S   == Charted(m, names, hours)
           key == [r \in S |-> r.snap.at]
<1>1. S \subseteq rows /\ IsFiniteSet(S)
  <2>1. S \subseteq rows
    BY DEF Charted, Since
  <2> QED BY <2>1, FS_Subset
<1>2. key \in [S -> Int]
  BY <1>1, RowType
<1>3. PICK s \in Bijection(1..Cardinality(S), S) : SortedBy(s, key)
  BY <1>1, <1>2, SortedNumbering
<1>4. s \in [1..Cardinality(S) -> S]
  BY <1>3 DEF Bijection, Injection
<1>5. \A i, j \in DOMAIN s : i < j => s[i].snap.at <= s[j].snap.at
  BY <1>3, <1>4 DEF SortedBy
<1>6. Points(m, names, hours) =
          CHOOSE t \in Bijection(1..Cardinality(S), S) :
              \A i, j \in DOMAIN t : i < j => t[i].snap.at <= t[j].snap.at
  BY DEF Points, Charted
<1> HIDE DEF S, key
<1> DEFINE t == Points(m, names, hours)
<1>7. /\ t \in Bijection(1..Cardinality(S), S)
      /\ \A i, j \in DOMAIN t : i < j => t[i].snap.at <= t[j].snap.at
  BY <1>3, <1>5, <1>6
<1>8. DOMAIN t = 1..Cardinality(S)
  BY <1>7 DEF Bijection, Injection
<1>9. Cardinality(S) \in Nat
  BY <1>1, FS_CardinalityType
<1> QED BY <1>7, <1>8, <1>9 DEF S

\* The same, of one series of the disk page.
IsSeries(s, n, hours) ==
    /\ Len(s) \in Nat /\ s \in [1..Len(s) -> Charted(Disk, {n}, hours)]
    /\ \A r \in Charted(Disk, {n}, hours) : \E i \in 1..Len(s) : s[i] = r
    /\ \A i, j \in 1..Len(s) : s[i] = s[j] => i = j
    /\ \A i, j \in 1..Len(s) : i < j => s[i].snap.at < s[j].snap.at

LEMMA SeriesAre ==
  ASSUME CycleTypeOK, Paged, NEW hours, NEW n
  PROVE  IsSeries(Points(Disk, {n}, hours), n, hours)
<1> DEFINE s == Points(Disk, {n}, hours)
           S == Charted(Disk, {n}, hours)
<1>2. /\ Cardinality(S) \in Nat /\ s \in Bijection(1..Cardinality(S), S)
      /\ \A i, j \in 1..Cardinality(S) : i < j => s[i].snap.at <= s[j].snap.at
  BY PointsAre DEF Paged
<1> HIDE DEF s
<1>3. /\ s \in [1..Cardinality(S) -> S]
      /\ \A r \in S : \E i \in 1..Cardinality(S) : s[i] = r
      /\ \A i, j \in 1..Cardinality(S) : s[i] = s[j] => i = j
  BY <1>2 DEF Bijection, Injection, Surjection, IsInjective
<1>4. \A r \in S : r \in rows /\ r.mon = Disk /\ r.name = n /\ r.snap.at \in Int
  BY RowType DEF Charted, Since
<1> HIDE DEF S
<1>5. Len(s) = Cardinality(S)
  BY <1>2, <1>3
<1>6. ASSUME NEW i \in 1..Len(s), NEW j \in 1..Len(s), i < j
      PROVE  s[i].snap.at < s[j].snap.at
  <2>1. /\ s[i] \in S /\ s[j] \in S /\ s[i] # s[j] /\ s[i].snap.at <= s[j].snap.at
        /\ s[i].snap.at \in Int /\ s[j].snap.at \in Int
    <3>1. s[i] \in S /\ s[j] \in S /\ i # j
      BY <1>2, <1>3, <1>5, <1>6
    <3> QED BY <1>2, <1>3, <1>4, <1>5, <1>6, <3>1
  <2>2. s[i].snap.at # s[j].snap.at
    BY <1>4, <2>1 DEF Paged
  <2> QED BY <2>1, <2>2
<1> QED BY <1>2, <1>3, <1>5, <1>6 DEF S, s, IsSeries

\* Which series the default page has, and the one with Docker's total.
LEMMA SeriesNames ==
  ASSUME NEW hours
  PROVE  /\ DiskHistory(AllMounts, TRUE, hours)
                = [n \in {Sentinel} |-> Points(Disk, {n}, hours)]
         /\ DiskHistory(AllMounts, FALSE, hours)
                = [n \in {r.name : r \in DiskRows(hours)} \ {Sentinel} |->
                      Points(Disk, {n}, hours)]
<1>1. Sentinel # AllMounts
  BY PagesAssumption
<1> QED BY <1>1 DEF DiskHistory, Wanted

\* Everything of the last hours, as the clock counts them, is drawn, once.
LEMMA PagedCharted ==
  ASSUME IInv, Paged PROVE RecentCharted
<1> SUFFICES ASSUME NEW hours \in Lookback, NEW r \in rows,
                    r.mon = Disk, Age(r.snap) <= hours - (Second - 1)
             PROVE  LET series == DiskHistory(AllMounts, r.name = Sentinel, hours)
                    IN  /\ r.name \in DOMAIN series
                        /\ \A n \in DOMAIN series :
                              Cardinality({i \in DOMAIN series[n] : series[n][i] = r})
                              = IF n = r.name THEN 1 ELSE 0
  BY Zenon DEF RecentCharted
<1>1. CycleTypeOK /\ Alerting!TypeOK
  BY SameAlerting DEF IInv, AlertingProofs!IInv
<1>2. r \in DiskRows(hours)
  <2>1. r.snap.real - r.snap.behind < r.snap.at + Second
    BY DEF Paged, Dated
  <2>2. hours \in Nat /\ elapsed \in Nat /\ setback \in Int /\ Second \in Nat
    BY <1>1, MonitorsAssumption, PagesAssumption DEF Alerting!TypeOK
  <2>3. r.snap.at \in Int /\ r.snap.real \in Nat /\ r.snap.behind \in Int
    BY <1>1, RowType
  <2>4. (elapsed - r.snap.real) + (r.snap.behind - setback) <= hours - (Second - 1)
    BY DEF Age
  <2> DEFINE at == r.snap.at
             real == r.snap.real
             behind == r.snap.behind
  <2>5. at >= elapsed - setback - hours
    <3>1. /\ at \in Int /\ real \in Int /\ behind \in Int /\ real - behind < at + Second
          /\ (elapsed - real) + (behind - setback) <= hours - (Second - 1)
      BY <2>1, <2>3, <2>4
    <3> HIDE DEF at, real, behind
    <3> QED BY <2>2, <3>1
  <2> QED BY <2>5 DEF DiskRows, Since, Alerting!wall
<1> DEFINE series == DiskHistory(AllMounts, r.name = Sentinel, hours)
<1>3. r.name \in DOMAIN series /\ \A n \in DOMAIN series : series[n] = Points(Disk, {n}, hours)
  <2>1. CASE r.name = Sentinel
    <3>1. series = DiskHistory(AllMounts, TRUE, hours)
      BY <2>1, Zenon
    <3>2. series = [n \in {Sentinel} |-> Points(Disk, {n}, hours)]
      BY <3>1, SeriesNames
    <3> HIDE DEF series
    <3> QED BY <2>1, <3>2
  <2>2. CASE r.name # Sentinel
    <3>1. series = DiskHistory(AllMounts, FALSE, hours)
      BY <2>2, Zenon
    <3>2. series = [n \in {q.name : q \in DiskRows(hours)} \ {Sentinel} |->
                       Points(Disk, {n}, hours)]
      BY <3>1, SeriesNames
    <3> HIDE DEF series
    <3> QED BY <1>2, <2>2, <3>2
  <2> QED BY <2>1, <2>2
<1> HIDE DEF series
<1>4. ASSUME NEW n \in DOMAIN series
      PROVE  Cardinality({i \in DOMAIN series[n] : series[n][i] = r})
             = IF n = r.name THEN 1 ELSE 0
  <2> DEFINE s == series[n]
             at == {i \in DOMAIN s : s[i] = r}
  <2>1. /\ Len(s) \in Nat /\ s \in [1..Len(s) -> Charted(Disk, {n}, hours)]
        /\ \A q \in Charted(Disk, {n}, hours) : \E i \in 1..Len(s) : s[i] = q
        /\ \A i, j \in 1..Len(s) : s[i] = s[j] => i = j
    <3>1. s = Points(Disk, {n}, hours)
      BY <1>3, <1>4
    <3>2. IsSeries(s, n, hours)
      BY <1>1, <3>1, SeriesAre
    <3> QED BY <3>2 DEF IsSeries
  <2> HIDE DEF s
  <2>2. CASE n = r.name
    <3>1. r \in Charted(Disk, {n}, hours)
      BY <1>2, <2>2 DEF Charted, DiskRows
    <3>2. PICK i \in 1..Len(s) : s[i] = r
      BY <2>1, <3>1
    <3>3. at = {i}
      BY <2>1, <3>2
    <3> QED BY <2>2, <3>3, FS_Singleton DEF s
  <2>3. CASE n # r.name
    <3>1. r \notin Charted(Disk, {n}, hours)
      BY <2>3 DEF Charted
    <3>2. at = {}
      BY <2>1, <3>1
    <3> QED BY <2>3, <3>2, FS_EmptySet DEF s
  <2> QED BY <2>2, <2>3
<1> QED BY <1>3, <1>4 DEF series

\* If collections report the same mounts, each mount has a point at the times
\* of every other.
LEMMA SameTimes ==
  ASSUME CycleTypeOK, Paged, BatchesWhole, NEW hours,
         \A r, s \in DiskRows(hours) : MountsOf(r) = MountsOf(s),
         NEW n \in DOMAIN DiskHistory(AllMounts, FALSE, hours),
         NEW k \in DOMAIN DiskHistory(AllMounts, FALSE, hours),
         NEW r \in Charted(Disk, {n}, hours)
  PROVE  \E q \in Charted(Disk, {k}, hours) : q.snap.at = r.snap.at
<1>1. r \in DiskRows(hours) /\ r \in rows
  BY DEF Charted, DiskRows, Since
<1>2. PICK p \in DiskRows(hours) : p.name = k /\ k # Sentinel
  <2>1. DOMAIN DiskHistory(AllMounts, FALSE, hours)
            = {q.name : q \in DiskRows(hours)} \ {Sentinel}
    BY SeriesNames
  <2> QED BY <2>1
<1>3. k \in MountsOf(p)
  BY <1>2 DEF MountsOf, Paged, DiskRows, Since
<1>4. k \in MountsOf(r)
  BY <1>1, <1>2, <1>3
<1>5. PICK i \in DOMAIN r.snap.report : r.snap.report[i].name = k
  BY <1>4 DEF MountsOf
<1> DEFINE q == [r EXCEPT !.name = r.snap.report[i].name]
<1>6. q \in rows
  BY <1>1, <1>5 DEF BatchesWhole
<1>7. q.mon = r.mon /\ q.name = k /\ q.snap = r.snap
  BY <1>1, <1>5, RowType
<1> HIDE DEF q
<1>8. q \in Charted(Disk, {k}, hours)
  BY <1>1, <1>6, <1>7 DEF Charted, DiskRows, Since
<1> QED BY <1>7, <1>8

\* The points are drawn at their times.
LEMMA PagedDated ==
  ASSUME IInv, Paged, BatchesWhole PROVE PointsDated
<1>0. CycleTypeOK
  BY DEF IInv
<1>1. SeriesTimed
  <2> SUFFICES ASSUME NEW hours \in Lookback, NEW totals \in BOOLEAN,
                      NEW n \in DOMAIN DiskHistory(AllMounts, totals, hours)
               PROVE  LET s == DiskHistory(AllMounts, totals, hours)[n]
                      IN  \A i, j \in DOMAIN s : i < j => s[i].snap.at < s[j].snap.at
    BY DEF SeriesTimed
  <2> DEFINE s == DiskHistory(AllMounts, totals, hours)[n]
  <2>0. s = Points(Disk, {n}, hours)
    BY DEF DiskHistory
  <2> HIDE DEF s
  <2>1. /\ s \in [1..Len(s) -> Charted(Disk, {n}, hours)]
        /\ \A i, j \in 1..Len(s) : i < j => s[i].snap.at < s[j].snap.at
    BY <1>0, <2>0, SeriesAre DEF IsSeries
  <2> QED BY <2>1 DEF s
<1>2. ASSUME NEW hours \in Lookback,
             \A r, s \in DiskRows(hours) : MountsOf(r) = MountsOf(s),
             NEW axis \in Axes(DiskHistory(AllMounts, FALSE, hours)),
             NEW n \in DOMAIN DiskHistory(AllMounts, FALSE, hours),
             NEW i \in DOMAIN DiskHistory(AllMounts, FALSE, hours)[n]
      PROVE  DrawnAt(DiskHistory(AllMounts, FALSE, hours), axis, i)
             = DiskHistory(AllMounts, FALSE, hours)[n][i].snap.at
  <2> DEFINE series == DiskHistory(AllMounts, FALSE, hours)
             s == series[n]
             t == series[axis]
             f == [h \in 1..Len(s) |-> s[h].snap.at]
             g == [h \in 1..Len(t) |-> t[h].snap.at]
  <2>1. axis \in DOMAIN series /\ Len(s) <= Len(t)
    BY DEF Axes
  <2>2. IsSeries(s, n, hours)
    <3>1. s = Points(Disk, {n}, hours)
      BY DEF DiskHistory
    <3> QED BY <1>0, <3>1, SeriesAre
  <2>3. IsSeries(t, axis, hours)
    <3>1. t = Points(Disk, {axis}, hours)
      BY <2>1 DEF DiskHistory
    <3> QED BY <1>0, <3>1, SeriesAre
  <2>4. /\ \A r \in Charted(Disk, {n}, hours) : \E q \in Charted(Disk, {axis}, hours) :
              q.snap.at = r.snap.at
        /\ \A r \in Charted(Disk, {axis}, hours) : \E q \in Charted(Disk, {n}, hours) :
              q.snap.at = r.snap.at
    BY <1>0, <1>2, <2>1, SameTimes
  <2>5. \A m : \A r \in Charted(Disk, {m}, hours) : r.snap.at \in Int
    BY <1>0, RowType DEF Charted, Since
  <2>6. i \in DOMAIN s
    OBVIOUS
  <2> HIDE DEF series, s, t
  <2>7. f \in [1..Len(s) -> Int] /\ g \in [1..Len(t) -> Int]
    BY <2>2, <2>3, <2>5 DEF IsSeries
  <2>8. /\ \A h, j \in 1..Len(s) : h < j => f[h] < f[j]
        /\ \A h, j \in 1..Len(t) : h < j => g[h] < g[j]
    BY <2>2, <2>3 DEF IsSeries
  <2>9. /\ \A h \in 1..Len(s) : \E j \in 1..Len(t) : g[j] = f[h]
        /\ \A j \in 1..Len(t) : \E h \in 1..Len(s) : f[h] = g[j]
    <3>1. ASSUME NEW h \in 1..Len(s) PROVE \E j \in 1..Len(t) : g[j] = f[h]
      <4>1. s[h] \in Charted(Disk, {n}, hours)
        BY <2>2 DEF IsSeries
      <4>2. PICK q \in Charted(Disk, {axis}, hours) : q.snap.at = s[h].snap.at
        BY <2>4, <4>1
      <4>3. PICK j \in 1..Len(t) : t[j] = q
        BY <2>3 DEF IsSeries
      <4> QED BY <4>2, <4>3
    <3>2. ASSUME NEW j \in 1..Len(t) PROVE \E h \in 1..Len(s) : f[h] = g[j]
      <4>1. t[j] \in Charted(Disk, {axis}, hours)
        BY <2>3 DEF IsSeries
      <4>2. PICK q \in Charted(Disk, {n}, hours) : q.snap.at = t[j].snap.at
        BY <2>4, <4>1
      <4>3. PICK h \in 1..Len(s) : s[h] = q
        BY <2>2 DEF IsSeries
      <4> QED BY <4>2, <4>3
    <3> QED BY <3>1, <3>2
  <2>10. i \in 1..Len(s) /\ i \in 1..Len(t)
    BY <2>1, <2>2, <2>3, <2>6 DEF IsSeries
  <2>11. f[i] = s[i].snap.at /\ g[i] = t[i].snap.at
    BY <2>10
  <2> HIDE DEF f, g
  <2>12. f[i] = g[i]
    <3>1. Len(s) \in Nat /\ Len(t) \in Nat
      BY <2>2, <2>3 DEF IsSeries
    <3> DEFINE n1 == Len(s)
               n2 == Len(t)
    <3> HIDE DEF n1, n2
    <3> QED BY <2>7, <2>8, <2>9, <2>10, <3>1, SameIncreasing DEF n1, n2
  <2> QED BY <2>11, <2>12 DEF DrawnAt, series, s, t
<1> QED BY <1>1, <1>2, Zenon DEF PointsDated

\* A unique key never has two rows, and each is dated by the clock as it was.
THEOREM StaysPaged == Spec => []Paged
<1>1. Init => Paged
  BY MonitorsAssumption, FS_EmptySet DEF Init, Paged, Dated
<1> QED BY <1>1, StepPaged, Invariance, PTL DEF Spec

\* For every set of monitors, mounts and reports, and every history of the
\* clock: the history page draws what was collected in the last hours, as the
\* clock then and now counts them, once, in the series of its mount.
THEOREM RecentStaysCharted == Spec => []RecentCharted
  BY PagedCharted, StaysPaged, Invariance, PTL

\* No series has two points of one time; and if the collections of a chart
\* reported the same mounts, each point is drawn at its own.
THEOREM PointsStayDated == Spec => []PointsDated
  BY PagedDated, StaysPaged, BatchesStayWhole, Invariance, PTL

---------------------------------------------------------------------------
\* The figures of the memory sample: what is proved of /proc/meminfo.

\* The quotient of two numbers, rounded down.
LEMMA DivBounds ==
  ASSUME NEW a \in Nat, NEW b \in Nat \ {0}
  PROVE  /\ a \div b \in Nat
         /\ (a \div b) * b <= a /\ a < (a \div b + 1) * b
  BY Z3

\* What is read of /proc/meminfo are numbers.
LEMMA InfoTyped ==
  ASSUME NEW file \in MemFiles, NEW key, NEW default \in Nat
  PROVE  KbOf(MemInfo(file), key, default) \in Nat
<1> DEFINE read == {i \in DOMAIN file : file[i].kb # NoNumber}
           at   == {i \in read : file[i].key = key}
<1>1. CASE key \in DOMAIN MemInfo(file)
  <2>1. MemInfo(file)[key] = file[Max(at)].kb /\ at # {}
    BY <1>1 DEF MemInfo
  <2>2. file \in Seq(MemLines) /\ at \subseteq 1..Len(file) /\ Len(file) \in Nat
    BY MemCollectAssumption
  <2>3. Max(at) \in at
    BY <2>1, <2>2, LastOf
  <2>4. file[Max(at)] \in MemLines /\ file[Max(at)].kb # NoNumber
    BY <2>2, <2>3
  <2> QED BY <1>1, <2>1, <2>4, MemCollectAssumption DEF KbOf
<1> QED BY <1>1 DEF KbOf

\* A percentage is within half a unit of the fraction, and so that it is never
\* a whole unit beside it.
LEMMA PercentageBounds ==
  ASSUME NEW used \in Nat, NEW total \in Nat \ {0}, used <= total,
         NEW q \in Percentages(used, total)
  PROVE  /\ q \in 0..100
         /\ (q - 1) * total < 100 * used /\ 100 * used < (q + 1) * total
<1> DEFINE u == 100 * used
           p == u \div total
<1>1. p \in Nat /\ u \in Nat /\ p * total <= u /\ u < (p + 1) * total
  BY DivBounds
<1>2. /\ q \in {p, p + 1}
      /\ \A r \in {p, p + 1} : Distance(q * total, u) <= Distance(r * total, u)
  BY DEF Percentages
<1> DEFINE lo == p * total
<1>3. (p + 1) * total = lo + total /\ lo \in Nat /\ (p - 1) * total = lo - total
      /\ (p + 2) * total = lo + 2 * total
  BY <1>1
<1>4. p <= 100
  <2>1. p * total <= 100 * total
    BY <1>1
  <2> QED BY <1>1, <2>1
<1> HIDE DEF p, u, lo
<1>5. CASE q = p
  BY <1>1, <1>3, <1>4, <1>5 DEF lo, u
<1>6. CASE q = p + 1
  <2>1. Distance(lo + total, u) <= Distance(lo, u)
    BY <1>2, <1>3, <1>6 DEF lo
  <2>2. lo < u
    BY <1>1, <1>3, <2>1 DEF lo, Distance
  <2>3. p < 100
    <3>1. ASSUME p = 100 PROVE FALSE
      <4>1. lo = 100 * total /\ u <= 100 * total
        BY <1>1, <3>1 DEF lo, u
      <4> QED BY <1>1, <2>2, <4>1
    <3> QED BY <1>1, <1>4, <3>1
  <2>4. q \in 0..100 /\ q - 1 = p /\ q + 1 = p + 2
    BY <1>1, <1>6, <2>3
  <2>5. (q - 1) * total = lo /\ (q + 1) * total = lo + 2 * total
    BY <2>4, <1>3 DEF lo
  <2> QED BY <1>1, <1>3, <2>2, <2>4, <2>5 DEF u
<1> QED BY <1>2, <1>5, <1>6

\* What is used is within the total.
LEMMA UsedWithin ==
  ASSUME NEW total \in Nat, NEW free \in Nat
  PROVE  /\ Used(total, free) \in 0..total
         /\ free <= total => Used(total, free) + free = total
  BY DEF Used

LEMMA FigureWithin ==
  ASSUME NEW total \in Nat, NEW free \in Nat, NEW f \in Figures(total, free)
  PROVE  /\ f.pct \in 0..100 /\ f.used \in 0..f.total
         /\ f.free <= f.total => f.used + f.free = f.total
<1>1. PICK p \in Percentages(Used(total, free), total) :
          f = [total |-> total, free |-> free, used |-> Used(total, free), pct |-> p]
  BY DEF Figures
<1>2. p \in 0..100
  <2>1. CASE total = 0
    BY <1>1, <2>1 DEF Percentages
  <2>2. CASE total # 0
    <3>1. Used(total, free) \in Nat /\ Used(total, free) <= total /\ total \in Nat \ {0}
      BY <2>2, UsedWithin
    <3> QED BY <1>1, <3>1, PercentageBounds
  <2> QED BY <2>1, <2>2
<1> QED BY <1>1, <1>2, UsedWithin

\* The figures of a sample add up, whichever lines /proc/meminfo has.
LEMMA FiguresAdd == FiguresAddUp
<1> SUFFICES ASSUME NEW file \in MemFiles, NEW f \in Mem(MemInfo(file)) \cup Swap(MemInfo(file))
             PROVE  /\ f.pct \in 0..100 /\ f.used \in 0..f.total
                    /\ f.free <= f.total => f.used + f.free = f.total
  BY DEF FiguresAddUp
<1>1. PICK total \in Nat, free \in Nat : f \in Figures(total, free)
  <2>1. CASE f \in Mem(MemInfo(file))
    BY <2>1, InfoTyped DEF Mem
  <2>2. CASE f \in Swap(MemInfo(file))
    BY <2>2, InfoTyped DEF Swap
  <2> QED BY <2>1, <2>2
<1> QED BY <1>1, FigureWithin

\* A swap is over the threshold where it is filled up to it.
LEMMA SwapExact == SwapOverExactly
<1> SUFFICES ASSUME NEW file \in MemFiles, NEW threshold \in Thresholds,
                    NEW swap \in Swap(MemInfo(file))
             PROVE  LET total == KbOf(MemInfo(file), "SwapTotal", 0)
                        inuse == total - KbOf(MemInfo(file), "SwapFree", 0)
                    IN  /\ (total > 0 /\ 100 * inuse >= threshold * total)
                              => SwapOver(swap, threshold)
                        /\ SwapOver(swap, threshold) =>
                              total > 0 /\ (threshold > 0 => 100 * inuse > (threshold - 1) * total)
  BY DEF SwapOverExactly
<1> DEFINE total == KbOf(MemInfo(file), "SwapTotal", 0)
           free  == KbOf(MemInfo(file), "SwapFree", 0)
           used  == Used(total, free)
<1>1. total \in Nat /\ free \in Nat /\ threshold \in Nat
  BY InfoTyped, MemCollectAssumption
<1>2. PICK p \in Percentages(used, total) : swap.pct = p /\ swap.total = total
  BY DEF Swap, Figures
<1> HIDE DEF total, free
<1>3. used \in 0..total /\ (free <= total => used = total - free) /\ (~(free <= total) => used = 0)
  BY <1>1, UsedWithin DEF Used
<1>4. SwapOver(swap, threshold) <=> total > 0 /\ p >= threshold
  BY <1>2 DEF SwapOver
<1> HIDE DEF used
<1>5. CASE total = 0
  BY <1>4, <1>5 DEF total, free
<1>6. CASE total # 0
  <2>1. p \in 0..100 /\ (p - 1) * total < 100 * used /\ 100 * used < (p + 1) * total
    BY <1>1, <1>2, <1>3, <1>6, PercentageBounds
  <2>2. ASSUME 100 * (total - free) >= threshold * total PROVE p >= threshold
    <3>1. CASE free <= total
      <4>1. threshold * total < (p + 1) * total
        BY <1>1, <1>3, <2>1, <2>2, <3>1
      <4>2. threshold < p + 1
        BY <1>1, <1>6, <2>1, <4>1
      <4> QED BY <1>1, <2>1, <4>2
    <3>2. CASE ~(free <= total)
      <4>1. threshold * total >= 0
        BY <1>1
      <4> QED BY <1>1, <2>2, <3>2, <4>1
    <3> QED BY <3>1, <3>2
  <2>3. ASSUME p >= threshold, threshold > 0
        PROVE  100 * (total - free) > (threshold - 1) * total
    <3>1. (threshold - 1) * total <= (p - 1) * total
      BY <1>1, <2>1, <2>3
    <3>2. (threshold - 1) * total >= 0
      BY <1>1, <2>3
    <3>3. 100 * used > (threshold - 1) * total /\ used > 0
      BY <1>1, <1>3, <2>1, <3>1, <3>2
    <3> QED BY <1>1, <1>3, <3>3
  <2> QED BY <1>1, <1>4, <1>6, <2>2, <2>3 DEF total, free
<1> QED BY <1>5, <1>6

\* The sample of MemMonitor is one of percentages, and an alert is raised about
\* a swap that has reached the threshold, whatever /proc/meminfo says and
\* whatever SWAP_ALERT_THRESHOLD_PCT is (_build_mem, _build_swap, _check_alerts).
THEOREM MemRightlyReported == Spec => []MemReported
<1>1. MemReported
  BY FiguresAdd, SwapExact DEF MemReported
<1> QED BY <1>1, PTL

---------------------------------------------------------------------------
(* The filesystems of DiskMonitor.  Of the lines of df, R are reported; each *)
(* has a device, the length of its path as it is displayed, and a row.     *)

\* Of the first i lines, h has the shortest path of its device; h is its first.
Shortest(R, dev, key, i, h) ==
    /\ h \in 1..i /\ h \in R
    /\ \A k \in 1..i : (k \in R /\ dev[k] = dev[h] /\ k # h) =>
         key[h] < key[k] \/ (key[h] = key[k] /\ h < k)

Earliest(R, dev, i, h) ==
    /\ h \in 1..i /\ h \in R
    /\ \A k \in 1..i : (k \in R /\ dev[k] = dev[h]) => h <= k

\* Row a of the listing is of line at[a], whose device line fst[a] lists first.
Shows(listing, W, R, dev, key, i, m, at, fst) ==
    /\ m \in Nat /\ listing = [a \in 1..m |-> W[at[a]]]
    /\ at \in [1..m -> 1..i] /\ fst \in [1..m -> 1..i]
    /\ \A a \in 1..m : /\ Shortest(R, dev, key, i, at[a])
                       /\ Earliest(R, dev, i, fst[a]) /\ dev[fst[a]] = dev[at[a]]
    /\ \A h \in 1..i : h \in R => \E a \in 1..m : dev[at[a]] = dev[h]
    /\ \A a, b \in 1..m : a < b => fst[a] < fst[b]

\* The rows with line i.
NextRows(listing, W, R, dev, key, i, m, at) ==
    LET same == {a \in 1..m : dev[at[a]] = dev[i]}
    IN  IF i \notin R \/ \E a \in same : key[at[a]] <= key[i] THEN listing
        ELSE [a \in 1..(IF same = {} THEN m + 1 ELSE m) |->
                 IF a = m + 1 \/ a \in same THEN W[i] ELSE listing[a]]

\* A device has one row.
LEMMA OneRowEach ==
  ASSUME NEW listing, NEW W, NEW R, NEW dev, NEW key, NEW i \in Nat, NEW m, NEW at, NEW fst,
         Shows(listing, W, R, dev, key, i, m, at, fst),
         NEW a \in 1..m, NEW b \in 1..m, dev[at[a]] = dev[at[b]]
  PROVE  a = b
<1>1. /\ m \in Nat /\ fst[a] \in 1..i /\ fst[b] \in 1..i
      /\ fst[a] \in R /\ fst[b] \in R /\ dev[fst[a]] = dev[fst[b]]
  BY DEF Shows, Earliest
<1>2. fst[a] <= fst[b] /\ fst[b] <= fst[a]
  BY <1>1 DEF Shows, Earliest
<1>3. ~(a < b) /\ ~(b < a)
  BY <1>1, <1>2 DEF Shows
<1> QED BY <1>1, <1>3

\* The next line keeps it so.
LEMMA LineShown ==
  ASSUME NEW W, NEW R, NEW dev, NEW n \in Nat, NEW key \in [1..n -> Int],
         NEW i \in 1..n, NEW listing, NEW m, NEW at, NEW fst,
         Shows(listing, W, R, dev, key, i - 1, m, at, fst),
         NEW later, later = NextRows(listing, W, R, dev, key, i, m, at)
  PROVE  \E m2, at2, fst2 : Shows(later, W, R, dev, key, i, m2, at2, fst2)
<1> DEFINE same == {a \in 1..m : dev[at[a]] = dev[i]}
<1>1. /\ m \in Nat /\ i \in Nat /\ i - 1 \in Nat
      /\ \A a \in 1..m : at[a] \in 1..i - 1 /\ fst[a] \in 1..i - 1
  BY DEF Shows
<1>a. ASSUME NEW a \in 1..m, NEW b \in 1..m, dev[at[a]] = dev[at[b]] PROVE a = b
  <2> DEFINE j == i - 1
  <2>1. j \in Nat /\ Shows(listing, W, R, dev, key, j, m, at, fst)
    BY <1>1
  <2> HIDE DEF j
  <2> QED BY <1>a, <2>1, OneRowEach
<1>2. \A k \in 1..i : k = i \/ k \in 1..i - 1
  BY <1>1
<1>3. (1..i - 1) \subseteq 1..i /\ (1..i - 1) \subseteq 1..n
  BY <1>1
<1>4. \A k \in 1..n : key[k] \in Int
  OBVIOUS
<1>5. \A a \in 1..m : Earliest(R, dev, i, fst[a])
  <2> SUFFICES ASSUME NEW a \in 1..m PROVE Earliest(R, dev, i, fst[a])
    OBVIOUS
  <2>1. Earliest(R, dev, i - 1, fst[a])
    BY DEF Shows
  <2>2. fst[a] <= i
    BY <1>1
  <2> QED BY <1>1, <1>2, <1>3, <2>1, <2>2 DEF Earliest
<1>6. ASSUME NEW a \in 1..m, i \in R => (dev[at[a]] # dev[i] \/ key[at[a]] <= key[i])
      PROVE  Shortest(R, dev, key, i, at[a])
  <2>1. Shortest(R, dev, key, i - 1, at[a])
    BY DEF Shows
  <2>2. at[a] < i /\ at[a] \in 1..n
    BY <1>1, <1>3
  <2>3. key[at[a]] \in Int /\ key[i] \in Int
    BY <1>4, <2>2
  <2> SUFFICES ASSUME NEW k \in 1..i, k \in R, dev[k] = dev[at[a]], k # at[a]
               PROVE  key[at[a]] < key[k] \/ (key[at[a]] = key[k] /\ at[a] < k)
    BY <1>1, <1>3, <2>1 DEF Shortest
  <2>4. CASE k = i
    BY <1>6, <2>2, <2>3, <2>4
  <2>5. CASE k # i
    BY <1>2, <2>1, <2>5 DEF Shortest
  <2> QED BY <2>4, <2>5
<1>7. CASE i \notin R \/ \E a \in same : key[at[a]] <= key[i]
  <2>1. later = listing
    BY <1>7 DEF NextRows
  <2>2. \A a \in 1..m : i \in R => (dev[at[a]] # dev[i] \/ key[at[a]] <= key[i])
    <3> SUFFICES ASSUME NEW a \in 1..m, i \in R, dev[at[a]] = dev[i]
                 PROVE  key[at[a]] <= key[i]
      OBVIOUS
    <3>1. PICK b \in same : key[at[b]] <= key[i]
      BY <1>7
    <3>2. a = b
      BY <1>a, <3>1
    <3> QED BY <3>1, <3>2
  <2>3. ASSUME NEW h \in 1..i, h \in R PROVE \E a \in 1..m : dev[at[a]] = dev[h]
    <3>1. CASE h = i
      <4>1. PICK b \in same : key[at[b]] <= key[i]
        BY <1>7, <2>3, <3>1
      <4> QED BY <3>1, <4>1
    <3>2. CASE h # i
      <4>1. h \in 1..i - 1
        BY <1>2, <3>2
      <4> QED BY <2>3, <4>1 DEF Shows
    <3> QED BY <3>1, <3>2
  <2>4. at \in [1..m -> 1..i] /\ fst \in [1..m -> 1..i]
    BY <1>1, <1>3 DEF Shows
  <2>5. Shows(later, W, R, dev, key, i, m, at, fst)
    BY <1>5, <1>6, <2>1, <2>2, <2>3, <2>4 DEF Shows
  <2> QED BY <2>5
<1>8. CASE ~(i \notin R \/ \E a \in same : key[at[a]] <= key[i])
  <2>1. /\ i \in R
        /\ later = [a \in 1..(IF same = {} THEN m + 1 ELSE m) |->
                       IF a = m + 1 \/ a \in same THEN W[i] ELSE listing[a]]
    BY <1>8 DEF NextRows
  <2>2. CASE same = {}
    <3> DEFINE at2  == [a \in 1..m + 1 |-> IF a = m + 1 THEN i ELSE at[a]]
               fst2 == [a \in 1..m + 1 |-> IF a = m + 1 THEN i ELSE fst[a]]
    <3>1. \A a \in 1..m + 1 : a = m + 1 \/ a \in 1..m
      BY <1>1
    <3>2. \A h \in 1..i - 1 : h \in R => dev[h] # dev[i]
      <4> SUFFICES ASSUME NEW h \in 1..i - 1, h \in R, dev[h] = dev[i] PROVE FALSE
        OBVIOUS
      <4>1. PICK a \in 1..m : dev[at[a]] = dev[h]
        BY DEF Shows
      <4> QED BY <2>2, <4>1
    <3>3. /\ at2 \in [1..m + 1 -> 1..i] /\ fst2 \in [1..m + 1 -> 1..i]
          /\ at2[m + 1] = i /\ fst2[m + 1] = i
          /\ \A a \in 1..m : at2[a] = at[a] /\ fst2[a] = fst[a]
      BY <1>1, <1>3, <3>1
    <3>4. later = [a \in 1..m + 1 |-> W[at2[a]]]
      <4>1. later = [a \in 1..m + 1 |-> IF a = m + 1 THEN W[i] ELSE listing[a]]
        BY <1>1, <2>1, <2>2
      <4>2. \A a \in 1..m + 1 : (IF a = m + 1 THEN W[i] ELSE listing[a]) = W[at2[a]]
        BY <3>1, <3>3 DEF Shows
      <4> HIDE DEF at2
      <4> QED BY <4>1, <4>2
    <3>5. Shortest(R, dev, key, i, i) /\ Earliest(R, dev, i, i)
      BY <1>1, <1>2, <2>1, <3>2 DEF Shortest, Earliest
    <3>6. \A a \in 1..m : Shortest(R, dev, key, i, at[a])
      <4>1. \A a \in 1..m : dev[at[a]] # dev[i]
        BY <2>2
      <4> QED BY <1>6, <4>1
    <3> HIDE DEF at2, fst2
    <3>7. \A a \in 1..m + 1 : /\ Shortest(R, dev, key, i, at2[a])
                              /\ Earliest(R, dev, i, fst2[a]) /\ dev[fst2[a]] = dev[at2[a]]
      <4> SUFFICES ASSUME NEW a \in 1..m + 1
                   PROVE  /\ Shortest(R, dev, key, i, at2[a])
                          /\ Earliest(R, dev, i, fst2[a]) /\ dev[fst2[a]] = dev[at2[a]]
        OBVIOUS
      <4>1. CASE a = m + 1
        BY <3>3, <3>5, <4>1
      <4>2. CASE a \in 1..m
        BY <1>5, <3>3, <3>6, <4>2 DEF Shows
      <4> QED BY <3>1, <4>1, <4>2
    <3>8. \A h \in 1..i : h \in R => \E a \in 1..m + 1 : dev[at2[a]] = dev[h]
      <4> SUFFICES ASSUME NEW h \in 1..i, h \in R PROVE \E a \in 1..m + 1 : dev[at2[a]] = dev[h]
        OBVIOUS
      <4>1. m + 1 \in 1..m + 1 /\ (1..m) \subseteq 1..m + 1
        BY <1>1
      <4>2. CASE h = i
        BY <3>3, <4>1, <4>2
      <4>3. CASE h # i
        <5>1. PICK a \in 1..m : dev[at[a]] = dev[h]
          BY <1>2, <4>3 DEF Shows
        <5> QED BY <3>3, <4>1, <5>1
      <4> QED BY <4>2, <4>3
    <3>9. ASSUME NEW a \in 1..m + 1, NEW b \in 1..m + 1, a < b PROVE fst2[a] < fst2[b]
      <4>1. a \in 1..m
        BY <1>1, <3>9
      <4>2. CASE b = m + 1
        BY <1>1, <3>3, <4>1, <4>2
      <4>3. CASE b \in 1..m
        BY <3>3, <3>9, <4>1, <4>3 DEF Shows
      <4> QED BY <3>1, <4>2, <4>3
    <3>10. Shows(later, W, R, dev, key, i, m + 1, at2, fst2)
      <4>1. m + 1 \in Nat
        BY <1>1
      <4>2. \A a, b \in 1..m + 1 : a < b => fst2[a] < fst2[b]
        BY <3>9
      <4> QED BY <3>3, <3>4, <3>7, <3>8, <4>1, <4>2 DEF Shows
    <3> QED BY <3>10
  <2>3. CASE same # {}
    <3>1. PICK z \in same : TRUE
      BY <2>3
    <3>2. z \in 1..m /\ dev[at[z]] = dev[i] /\ at[z] \in 1..n /\ at[z] \in 1..i - 1
      BY <1>1, <1>3, <3>1
    <3>3. \A a \in 1..m : a \in same <=> a = z
      BY <1>a, <3>1, <3>2
    <3>4. key[i] < key[at[z]] /\ key[i] \in Int /\ key[at[z]] \in Int
      BY <1>4, <1>8, <3>1, <3>2
    <3> DEFINE at2 == [a \in 1..m |-> IF a = z THEN i ELSE at[a]]
    <3>5. /\ at2 \in [1..m -> 1..i] /\ at2[z] = i
          /\ \A a \in 1..m : a # z => at2[a] = at[a]
      BY <1>1, <1>3, <3>2
    <3>6. later = [a \in 1..m |-> W[at2[a]]]
      <4>1. later = [a \in 1..m |-> IF a = z THEN W[i] ELSE listing[a]]
        <5> HIDE DEF same
        <5>1. \A a \in 1..m : (a = m + 1 \/ a \in same) <=> a = z
          BY <1>1, <3>3
        <5> QED BY <2>1, <2>3, <5>1
      <4>2. \A a \in 1..m : (IF a = z THEN W[i] ELSE listing[a]) = W[at2[a]]
        BY <3>5 DEF Shows
      <4> HIDE DEF at2
      <4> QED BY <4>1, <4>2
    <3>7. Shortest(R, dev, key, i, i)
      <4>1. Shortest(R, dev, key, i - 1, at[z])
        BY <3>2 DEF Shows
      <4> SUFFICES ASSUME NEW k \in 1..i, k \in R, dev[k] = dev[i], k # i
                   PROVE  key[i] < key[k]
        BY <1>1, <2>1 DEF Shortest
      <4>2. k \in 1..i - 1 /\ k \in 1..n /\ key[k] \in Int
        BY <1>2, <1>3, <1>4
      <4>3. k = at[z] \/ key[at[z]] < key[k] \/ key[at[z]] = key[k]
        BY <3>2, <4>1, <4>2 DEF Shortest
      <4> QED BY <3>4, <4>2, <4>3
    <3> HIDE DEF at2
    <3>8. ASSUME NEW a \in 1..m
          PROVE  /\ Shortest(R, dev, key, i, at2[a])
                 /\ Earliest(R, dev, i, fst[a]) /\ dev[fst[a]] = dev[at2[a]]
      <4>1. CASE a = z
        BY <1>5, <3>2, <3>5, <3>7, <4>1 DEF Shows
      <4>2. CASE a # z
        <5>1. dev[at[a]] # dev[i]
          BY <3>3, <4>2
        <5>2. Shortest(R, dev, key, i, at[a])
          BY <1>6, <5>1
        <5> QED BY <1>5, <3>5, <4>2, <5>2 DEF Shows
      <4> QED BY <4>1, <4>2
    <3>9. ASSUME NEW h \in 1..i, h \in R PROVE \E a \in 1..m : dev[at2[a]] = dev[h]
      <4>1. CASE h = i
        BY <3>2, <3>5, <4>1
      <4>2. CASE h # i
        <5>1. PICK a \in 1..m : dev[at[a]] = dev[h]
          BY <1>2, <3>9, <4>2 DEF Shows
        <5>2. dev[at2[a]] = dev[at[a]]
          BY <3>2, <3>5
        <5> QED BY <5>1, <5>2
      <4> QED BY <4>1, <4>2
    <3>10. fst \in [1..m -> 1..i] /\ \A a, b \in 1..m : a < b => fst[a] < fst[b]
      BY <1>1, <1>3 DEF Shows
    <3>11. Shows(later, W, R, dev, key, i, m, at2, fst)
      BY <1>1, <3>5, <3>6, <3>8, <3>9, <3>10 DEF Shows
    <3> QED BY <3>11
  <2> QED BY <2>2, <2>3
<1> QED BY <1>7, <1>8

\* A line that is reported has a path that is displayed, of some length.
LEMMA DisplayTyped ==
  ASSUME NEW l \in DfLines, NEW hostMode, Real(l, hostMode)
  PROVE  Display(l, hostMode) \in Mounts /\ Chars(Display(l, hostMode)) \in Int
<1> DEFINE C == Components
           path == Display(l, hostMode)
<1>1. l.mount \in Seq(C)
  BY DEF DfLines, Mounts
<1>2. path \in Seq(C)
  <2>1. CASE hostMode
    <3>1. l.mount # <<>>
      BY <2>1 DEF Real
    <3>2. path = Stripped(l.mount)
      BY <2>1 DEF Display
    <3> DEFINE t == Tail(l.mount)
    <3> HIDE DEF C, path
    <3>3. t \in Seq(C)
      BY <1>1, <3>1
    <3>4. t # <<>> => Tail(t) \in Seq(C)
      BY <3>3
    <3> HIDE DEF t
    <3>5. path = IF t # <<>> /\ Head(t) = "root" THEN Tail(t) ELSE t
      BY <3>2 DEF Stripped, t
    <3> QED BY <3>3, <3>4, <3>5
  <2>2. CASE ~hostMode
    BY <1>1, <2>2 DEF Display
  <2> QED BY <2>1, <2>2
<1> HIDE DEF path
<1>3. Chars(path) \in Int
  <2> DEFINE s == [i \in DOMAIN path |-> 1 + Width[path[i]]]
  <2>1. s \in Seq(Int)
    <3>1. \A i \in DOMAIN path : path[i] \in C
      BY <1>2
    <3>2. \A i \in DOMAIN path : 1 + Width[path[i]] \in Int
      BY <3>1, CollectAssumption
    <3>3. Len(path) \in Nat /\ DOMAIN path = 1..Len(path)
      BY <1>2
    <3>4. s \in [1..Len(path) -> Int]
      BY <3>2, <3>3
    <3> HIDE DEF s
    <3> QED BY <3>3, <3>4, MadeSeq
  <2> HIDE DEF s
  <2>2. PICK f : Sums(f, s) /\ Total(s) = f[Len(s)]
    BY <2>1, TotalIs
  <2>3. Len(s) \in 0..Len(s)
    BY <2>1
  <2>4. Total(s) \in Int
    BY <2>2, <2>3 DEF Sums
  <2> QED BY <2>4 DEF Chars, s
<1> QED BY <1>2, <1>3 DEF path, Mounts

DfRows == [device : Devices, mount : Mounts, full : BOOLEAN]

LEMMA RowTyped ==
  ASSUME NEW l \in DfLines, NEW hostMode, Real(l, hostMode)
  PROVE  Row(l, hostMode) \in DfRows
<1>1. Display(l, hostMode) \in Mounts
  BY DisplayTyped
<1>2. l.device \in Devices /\ l.full \in BOOLEAN
  BY DEF DfLines
<1> HIDE DEF DfLines
<1> QED BY <1>1, <1>2 DEF Row, DfRows

LEMMA CollectedTyped ==
  ASSUME NEW listing \in Seq(DfRows), NEW l \in DfLines, NEW hostMode
  PROVE  Collected(listing, l, hostMode) \in Seq(DfRows)
<1> DEFINE S == DfRows
           w == Row(l, hostMode)
           same == {i \in DOMAIN listing : listing[i].device = l.device}
           more == [i \in DOMAIN listing |-> IF i \in same THEN w ELSE listing[i]]
<1>1. Real(l, hostMode) => w \in S
  BY RowTyped
<1>2. listing \in Seq(S)
  OBVIOUS
<1> HIDE DEF S, w, same
<1>3. ASSUME w \in S PROVE Append(listing, w) \in Seq(S) /\ more \in Seq(S)
  <2>1. Len(listing) \in Nat /\ DOMAIN listing = 1..Len(listing) /\ \A i \in DOMAIN listing : listing[i] \in S
    BY <1>2
  <2>2. more \in [1..Len(listing) -> S]
    BY <1>3, <2>1
  <2> HIDE DEF more
  <2> QED BY <1>2, <1>3, <2>1, <2>2, MadeSeq
<1>4. Collected(listing, l, hostMode)
      = IF ~Real(l, hostMode) \/ \E i \in same : ~Shorter(l, listing[i], hostMode) THEN listing
        ELSE IF same = {} THEN Append(listing, w) ELSE more
  BY DEF Collected, w, same
<1> HIDE DEF more
<1> QED BY <1>1, <1>2, <1>3, <1>4 DEF S

\* f has the rows after each of the lines.
Collects(f, output, hostMode) ==
    /\ f \in [0..Len(output) -> Seq(DfRows)] /\ f[0] = <<>>
    /\ \A i \in 1..Len(output) : f[i] = Collected(f[i - 1], output[i], hostMode)

LEMMA CollectRuns ==
  ASSUME NEW output \in Seq(DfLines), NEW hostMode
  PROVE  \E f : Collects(f, output, hostMode) /\ CollectDf(output, hostMode) = f[Len(output)]
<1> DEFINE n == Len(output)
           L == DfLines
           X == Seq(DfRows)
           Read(f) == f = [i \in 0..n |-> IF i = 0 THEN <<>>
                                          ELSE Collected(f[i - 1], output[i], hostMode)]
           g == CHOOSE g : Read(g)
<1>1. n \in Nat /\ \A i \in 1..n : output[i] \in L
  <2> HIDE DEF L
  <2>1. output \in Seq(L)
    BY DEF L
  <2> QED BY <2>1
<1>2. PICK f \in [0..n -> X] :
        f[0] = <<>> /\ \A i \in 1..n : f[i] = Collected(f[i - 1], output[i], hostMode)
  <2> DEFINE turn == [xi \in X \X (1..n) |-> Collected(xi[1], output[xi[2]], hostMode)]
  <2>1. turn \in [X \X (1..n) -> X]
    BY <1>1, CollectedTyped
  <2>b. <<>> \in X
    OBVIOUS
  <2> HIDE DEF X
  <2>2. PICK f : IsLoop(f, X, <<>>, n, turn)
    <3> HIDE DEF turn, n
    <3> QED BY <1>1, <2>1, <2>b, LoopExists
  <2>3. f \in [0..n -> X] /\ f[0] = <<>> /\ \A i \in 1..n : f[i] = turn[<<f[i - 1], i>>]
    BY <2>2 DEF IsLoop
  <2>4. ASSUME NEW i \in 1..n PROVE f[i] = Collected(f[i - 1], output[i], hostMode)
    <3>1. f[i - 1] \in X
      BY <1>1, <2>3
    <3>2. <<f[i - 1], i>> \in X \X (1..n)
      BY <3>1
    <3> QED BY <2>3, <3>2
  <2> QED BY <2>3, <2>4
<1> HIDE DEF n, L, X
<1>3. Read(f)
  <2>1. \A i \in 0..n : f[i] = IF i = 0 THEN <<>> ELSE Collected(f[i - 1], output[i], hostMode)
    BY <1>1, <1>2
  <2>2. f = [i \in 0..n |-> f[i]]
    BY <1>2
  <2> QED BY <2>1, <2>2
<1>4. Read(g)
  <2> HIDE DEF Read
  <2> QED BY <1>3
<1> HIDE DEF g
<1>5. CollectDf(output, hostMode) = g[n]
  BY DEF CollectDf, g, n
<1>6. \A i \in 0..n : g[i] = IF i = 0 THEN <<>> ELSE Collected(g[i - 1], output[i], hostMode)
  BY <1>4
<1> HIDE DEF Read
<1>7. \A i \in 0..n : g[i] = f[i]
  <2> DEFINE Bad == {i \in Nat : i <= n /\ g[i] # f[i]}
  <2> SUFFICES ASSUME Bad # {} PROVE FALSE
    BY <1>1
  <2>1. PICK i \in Bad : \A h \in Bad : i <= h
    BY LeastOf
  <2>2. i \in 0..n /\ g[i] # f[i] /\ i # 0
    BY <1>1, <1>2, <1>6, <2>1
  <2>3. i - 1 \in Nat /\ i - 1 <= n /\ i - 1 \notin Bad /\ i \in 1..n
    BY <1>1, <2>1, <2>2
  <2>4. g[i - 1] = f[i - 1]
    BY <2>3
  <2> QED BY <1>2, <1>6, <2>2, <2>3, <2>4
<1>8. n \in 0..n
  BY <1>1
<1> QED BY <1>2, <1>5, <1>7, <1>8 DEF Collects, n, X

\* What is known of the rows when df is read.
LEMMA RowsShown ==
  ASSUME NEW output \in Seq(DfLines), NEW hostMode
  PROVE  LET n   == Len(output)
             R   == Reported(output, hostMode)
             dev == [h \in 1..n |-> output[h].device]
             key == [h \in 1..n |-> IF h \in R THEN Chars(Display(output[h], hostMode)) ELSE 0]
             W   == [h \in 1..n |-> Row(output[h], hostMode)]
         IN  \E m, at, fst : Shows(CollectDf(output, hostMode), W, R, dev, key, n, m, at, fst)
<1> DEFINE n   == Len(output)
           L   == DfLines
           R   == Reported(output, hostMode)
           dev == [h \in 1..n |-> output[h].device]
           key == [h \in 1..n |-> IF h \in R THEN Chars(Display(output[h], hostMode)) ELSE 0]
           W   == [h \in 1..n |-> Row(output[h], hostMode)]
<1>1. n \in Nat /\ DOMAIN output = 1..n /\ \A i \in 1..n : output[i] \in L
  <2> HIDE DEF L
  <2>1. output \in Seq(L)
    BY DEF L
  <2> QED BY <2>1
<1>2. PICK f : Collects(f, output, hostMode) /\ CollectDf(output, hostMode) = f[n]
  BY CollectRuns
<1>3. \A h \in 1..n : h \in R <=> Real(output[h], hostMode)
  BY <1>1 DEF Reported
<1> HIDE DEF R, L
<1>4. key \in [1..n -> Int]
  <2>1. \A h \in 1..n : h \in R => Chars(Display(output[h], hostMode)) \in Int
    BY <1>1, <1>3, DisplayTyped DEF L
  <2> QED BY <2>1
<1>5. \A h \in 1..n : /\ dev[h] = output[h].device /\ W[h] = Row(output[h], hostMode)
                      /\ h \in R => key[h] = Chars(Display(output[h], hostMode))
  OBVIOUS
<1> HIDE DEF dev, key, W, n
<1>6. \A h \in 1..n : W[h].device = dev[h] /\ (h \in R => Chars(W[h].mount) = key[h])
  <2> SUFFICES ASSUME NEW h \in 1..n
               PROVE  W[h].device = dev[h] /\ (h \in R => Chars(W[h].mount) = key[h])
    OBVIOUS
  <2>1. W[h] = [device |-> output[h].device, mount |-> Display(output[h], hostMode),
                full |-> output[h].full]
    BY <1>5 DEF Row
  <2>2. W[h].device = output[h].device /\ W[h].mount = Display(output[h], hostMode)
    BY <2>1
  <2> QED BY <1>5, <2>2
<1> DEFINE Good(i) == \E m, at, fst : Shows(f[i], W, R, dev, key, i, m, at, fst)
<1>7. Good(0)
  <2> DEFINE none == [a \in 1..0 |-> 1]
  <2>1. f[0] = <<>>
    BY <1>2 DEF Collects
  <2>2. f[0] = [a \in 1..0 |-> W[none[a]]]
    BY <2>1
  <2>3. none \in [1..0 -> 1..0] /\ 1..0 = {}
    OBVIOUS
  <2> HIDE DEF none
  <2>4. Shows(f[0], W, R, dev, key, 0, 0, none, none)
    BY <2>2, <2>3 DEF Shows
  <2> QED BY <2>4
<1>8. ASSUME NEW i \in 1..n, Good(i - 1) PROVE Good(i)
  <2>1. PICK m, at, fst : Shows(f[i - 1], W, R, dev, key, i - 1, m, at, fst)
    BY <1>8
  <2> DEFINE listing == f[i - 1]
             l == output[i]
             same == {a \in 1..m : dev[at[a]] = dev[i]}
  <2>2. f[i] = Collected(listing, l, hostMode)
    BY <1>2 DEF Collects, n
  <2>3. m \in Nat /\ listing = [a \in 1..m |-> W[at[a]]] /\ DOMAIN listing = 1..m /\ Len(listing) = m
    <3>1. m \in Nat /\ listing = [a \in 1..m |-> W[at[a]]]
      BY <2>1 DEF Shows
    <3> HIDE DEF listing
    <3>2. DOMAIN listing = 1..m
      BY <3>1
    <3>3. Len(listing) = m
      BY <3>1, <3>2
    <3> QED BY <3>1, <3>2, <3>3
  <2>4. ASSUME NEW a \in 1..m PROVE /\ at[a] \in 1..n /\ at[a] \in R
                                    /\ listing[a].device = dev[at[a]] /\ Chars(listing[a].mount) = key[at[a]]
    <3>1. at[a] \in 1..i - 1 /\ at[a] \in R
      BY <2>1 DEF Shows, Shortest
    <3>2. at[a] \in 1..n /\ listing[a] = W[at[a]]
      BY <1>1, <2>3, <3>1
    <3> QED BY <1>6, <3>1, <3>2
  <2>5. {a \in DOMAIN listing : listing[a].device = l.device} = same
    BY <1>5, <2>3, <2>4
  <2>6. i \in R => \A a \in same : ~Shorter(l, listing[a], hostMode) <=> key[at[a]] <= key[i]
    <3> SUFFICES ASSUME i \in R, NEW a \in same
                 PROVE  ~Shorter(l, listing[a], hostMode) <=> key[at[a]] <= key[i]
      OBVIOUS
    <3>1. key[at[a]] \in Int /\ key[i] \in Int /\ Chars(listing[a].mount) = key[at[a]]
          /\ Chars(Display(l, hostMode)) = key[i]
      BY <1>4, <1>5, <2>4
    <3> QED BY <3>1 DEF Shorter
  <2> DEFINE later == IF i \notin R \/ \E a \in same : key[at[a]] <= key[i] THEN listing
                     ELSE [a \in 1..(IF same = {} THEN m + 1 ELSE m) |->
                              IF a = m + 1 \/ a \in same THEN W[i] ELSE listing[a]]
  <2>7. f[i] = later
    <3> HIDE DEF listing, same, l
    <3>1. Collected(listing, l, hostMode)
          = IF i \notin R \/ \E a \in same : ~Shorter(l, listing[a], hostMode) THEN listing
            ELSE IF same = {} THEN Append(listing, W[i])
            ELSE [a \in DOMAIN listing |-> IF a \in same THEN W[i] ELSE listing[a]]
      BY <1>3, <1>5, <2>5 DEF Collected, l
    <3>2. Append(listing, W[i]) = [a \in 1..m + 1 |-> IF a = m + 1 THEN W[i] ELSE listing[a]]
      BY <2>3
    <3>3. \A a \in 1..m : a # m + 1
      BY <2>3
    <3>4. CASE i \notin R \/ \E a \in same : ~Shorter(l, listing[a], hostMode)
      BY <2>2, <2>6, <3>1, <3>4
    <3>5. CASE ~(i \notin R \/ \E a \in same : ~Shorter(l, listing[a], hostMode)) /\ same = {}
      BY <2>2, <2>6, <3>1, <3>2, <3>5
    <3>6. CASE ~(i \notin R \/ \E a \in same : ~Shorter(l, listing[a], hostMode)) /\ same # {}
      <4>1. later = [a \in 1..m |-> IF a \in same THEN W[i] ELSE listing[a]]
        BY <2>6, <3>3, <3>6
      <4> QED BY <2>2, <2>3, <3>1, <3>6, <4>1
    <3> QED BY <3>4, <3>5, <3>6
  <2>8. f[i] = NextRows(f[i - 1], W, R, dev, key, i, m, at)
    BY <2>7 DEF NextRows
  <2> HIDE DEF listing, later
  <2>9. \E m2, at2, fst2 : Shows(f[i], W, R, dev, key, i, m2, at2, fst2)
    BY <1>1, <1>4, <2>1, <2>8, LineShown
  <2> QED BY <2>9
<1>9. \A i \in 0..n : Good(i)
  <2> DEFINE Bad == {i \in Nat : i <= n /\ ~Good(i)}
  <2> SUFFICES ASSUME Bad # {} PROVE FALSE
    BY <1>1
  <2> HIDE DEF Good
  <2>1. PICK i \in Bad : \A h \in Bad : i <= h
    BY LeastOf
  <2>2. i # 0 /\ i \in 1..n /\ i - 1 \in Nat /\ i - 1 <= n /\ i - 1 \notin Bad
    BY <1>1, <1>7, <2>1
  <2> QED BY <1>8, <2>1, <2>2
<1>10. Good(n)
  BY <1>1, <1>9
<1> QED BY <1>2, <1>10 DEF n, R, dev, key, W

\* A device is shown once, at the shortest of its paths, in the order of df.
LEMMA DevicesShown ==
  ASSUME NEW output \in Seq(DfLines), NEW hostMode
  PROVE  LET listing == CollectDf(output, hostMode)
             best == Best(output, hostMode)
         IN  /\ Len(listing) = Cardinality(best)
             /\ ToSet(listing) = {Row(output[i], hostMode) : i \in best}
             /\ \A i, j \in DOMAIN listing, k, l \in DOMAIN output :
                  (/\ FirstOf(output, hostMode, k, listing[i].device)
                   /\ FirstOf(output, hostMode, l, listing[j].device)
                   /\ i < j) => k < l
<1> DEFINE listing == CollectDf(output, hostMode)
           best == Best(output, hostMode)
           n    == Len(output)
           R    == Reported(output, hostMode)
           dev  == [h \in 1..n |-> output[h].device]
           key  == [h \in 1..n |-> IF h \in R THEN Chars(Display(output[h], hostMode)) ELSE 0]
           W    == [h \in 1..n |-> Row(output[h], hostMode)]
<1>1. PICK m, at, fst : Shows(listing, W, R, dev, key, n, m, at, fst)
  BY RowsShown
<1>2. n \in Nat /\ DOMAIN output = 1..n
  <2> DEFINE L == DfLines
  <2>1. output \in Seq(L)
    OBVIOUS
  <2> HIDE DEF L
  <2> QED BY <2>1
<1>3. R \subseteq 1..n
  BY <1>2 DEF Reported
<1>4. /\ \A h \in 1..n : dev[h] = output[h].device /\ W[h] = Row(output[h], hostMode)
      /\ \A h \in R : key[h] = Chars(Display(output[h], hostMode))
  BY <1>3
<1> HIDE DEF R, dev, key, W, listing
<1>5. \A h : h \in best <=> Shortest(R, dev, key, n, h)
  <2>1. best = {i \in R : \A k \in R :
            (output[k].device = output[i].device /\ k # i) =>
                Chars(Display(output[i], hostMode)) < Chars(Display(output[k], hostMode))
                \/ (Chars(Display(output[i], hostMode)) = Chars(Display(output[k], hostMode)) /\ i < k)}
    BY DEF Best, R
  <2> HIDE DEF best
  <2>2. best = {i \in R : \A k \in R : (dev[k] = dev[i] /\ k # i) =>
                              key[i] < key[k] \/ (key[i] = key[k] /\ i < k)}
    <3>1. \A i \in R : /\ output[i].device = dev[i]
                        /\ Chars(Display(output[i], hostMode)) = key[i]
      BY <1>3, <1>4
    <3> QED BY <2>1, <3>1
  <2> QED BY <1>3, <2>2 DEF Shortest
<1>6. /\ m \in Nat /\ DOMAIN listing = 1..m /\ Len(listing) = m
      /\ \A a \in 1..m : at[a] \in 1..n /\ fst[a] \in 1..n /\ listing[a] = W[at[a]]
  <2>1. m \in Nat /\ listing = [a \in 1..m |-> W[at[a]]]
    BY <1>1 DEF Shows
  <2>2. DOMAIN listing = 1..m
    BY <2>1
  <2>3. Len(listing) = m
    BY <2>1, <2>2
  <2> QED BY <1>1, <2>1, <2>2, <2>3 DEF Shows
<1> HIDE DEF best, n
<1>7. \A a \in 1..m : at[a] \in best
  BY <1>1, <1>5 DEF Shows
<1>8. \A h \in best : \E a \in 1..m : at[a] = h
  <2> SUFFICES ASSUME NEW h \in best PROVE \E a \in 1..m : at[a] = h
    OBVIOUS
  <2>1. Shortest(R, dev, key, n, h) /\ h \in 1..n /\ h \in R
    BY <1>5 DEF Shortest
  <2>2. PICK a \in 1..m : dev[at[a]] = dev[h]
    BY <1>1, <2>1 DEF Shows
  <2>3. Shortest(R, dev, key, n, at[a])
    BY <1>1 DEF Shows
  <2>4. key[h] \in Int /\ key[at[a]] \in Int
    <3>1. \A g \in R : key[g] \in Int
      <4> SUFFICES ASSUME NEW g \in R PROVE key[g] \in Int
        OBVIOUS
      <4>1. Real(output[g], hostMode) /\ g \in 1..n
        BY <1>3 DEF R, Reported
      <4> DEFINE L == DfLines
      <4>2. output \in Seq(L)
        OBVIOUS
      <4> HIDE DEF L
      <4>3. output[g] \in L
        BY <1>2, <4>1, <4>2
      <4> QED BY <1>4, <4>1, <4>3, DisplayTyped DEF L
    <3> QED BY <2>1, <2>3, <3>1 DEF Shortest
  <2>5. at[a] = h
    BY <1>2, <2>1, <2>2, <2>3, <2>4 DEF Shortest
  <2> QED BY <2>5
<1>9. \A a, b \in 1..m : at[a] = at[b] => a = b
  <2>1. n \in Nat
    BY <1>2
  <2>2. ASSUME NEW a \in 1..m, NEW b \in 1..m, dev[at[a]] = dev[at[b]] PROVE a = b
    <3>1. fst[a] \in 1..n /\ fst[b] \in 1..n /\ dev[fst[a]] = dev[fst[b]]
          /\ fst[a] \in R /\ fst[b] \in R
      BY <1>1, <2>2 DEF Shows, Earliest
    <3>2. fst[a] <= fst[b] /\ fst[b] <= fst[a]
      BY <1>1, <3>1 DEF Shows, Earliest
    <3>3. ~(a < b) /\ ~(b < a)
      BY <1>1, <2>1, <3>1, <3>2 DEF Shows
    <3> QED BY <1>6, <3>3
  <2> QED BY <2>2
<1>10. Len(listing) = Cardinality(best)
  <2> DEFINE f == [a \in 1..m |-> at[a]]
  <2>1. f \in Bijection(1..m, best)
    BY <1>7, <1>8, <1>9 DEF Bijection, Injection, Surjection, IsInjective
  <2>2. ExistsBijection(1..m, best)
    BY <2>1 DEF ExistsBijection
  <2>3. Cardinality(best) = m
    BY <1>6, <2>2, FS_CountingElements
  <2> QED BY <1>6, <2>3
<1>11. ToSet(listing) = {Row(output[i], hostMode) : i \in best}
  <2>1. \A a \in 1..m : listing[a] = Row(output[at[a]], hostMode)
    BY <1>4, <1>6
  <2>2. ToSet(listing) = {listing[a] : a \in 1..m}
    BY <1>6 DEF ToSet
  <2> QED BY <1>7, <1>8, <2>1, <2>2
<1>12. ASSUME NEW i \in 1..m, NEW k \in 1..n, FirstOf(output, hostMode, k, listing[i].device)
       PROVE  k = fst[i]
  <2>1. /\ k \in R /\ output[k].device = listing[i].device
        /\ \A g \in R : output[g].device = listing[i].device => k <= g
    BY <1>12 DEF FirstOf, R
  <2>2. listing[i].device = dev[at[i]]
    <3>1. listing[i] = Row(output[at[i]], hostMode) /\ dev[at[i]] = output[at[i]].device
      BY <1>4, <1>6
    <3> QED BY <3>1 DEF Row
  <2>3. Earliest(R, dev, n, fst[i]) /\ dev[fst[i]] = dev[at[i]] /\ fst[i] \in 1..n
    BY <1>1, <1>6 DEF Shows
  <2>4. fst[i] <= k
    BY <1>4, <2>1, <2>2, <2>3 DEF Earliest
  <2>5. k <= fst[i]
    BY <1>4, <2>1, <2>2, <2>3 DEF Earliest
  <2> QED BY <1>2, <2>3, <2>4, <2>5
<1>13. \A i, j \in DOMAIN listing, k, l \in DOMAIN output :
         (/\ FirstOf(output, hostMode, k, listing[i].device)
          /\ FirstOf(output, hostMode, l, listing[j].device)
          /\ i < j) => k < l
  <2> SUFFICES ASSUME NEW i \in 1..m, NEW j \in 1..m, NEW k \in 1..n, NEW l \in 1..n,
                      FirstOf(output, hostMode, k, listing[i].device),
                      FirstOf(output, hostMode, l, listing[j].device), i < j
               PROVE  k < l
    BY <1>2, <1>6
  <2>1. k = fst[i] /\ l = fst[j]
    BY <1>12
  <2> QED BY <1>1, <2>1 DEF Shows
<1> QED BY <1>10, <1>11, <1>13 DEF listing, best

LEMMA DfRight == ShortestKept /\ OrderKept
<1>1. \A o \in Collectable : o[1] \in Seq(DfLines)
  BY CollectAssumption DEF Collectable
<1>2. ShortestKept
  BY <1>1, DevicesShown DEF ShortestKept
<1>3. OrderKept
  BY <1>1, DevicesShown DEF OrderKept
<1> QED BY <1>2, <1>3

---------------------------------------------------------------------------
(* The tables and sizes of docker system df.                               *)

\* A word ends with itself.
LEMMA SuffixOfItself == ASSUME NEW X, NEW u \in Seq(X) PROVE IsSuffix(u, u)
<1> DEFINE r == Reverse(u)
<1>1. r \in [1..Len(u) -> X] /\ Len(u) \in Nat
  BY DEF Reverse
<1> HIDE DEF r
<1>2. Len(r) \in Nat
  BY <1>1, MadeSeq
<1>3. IsPrefix(r, r)
  BY <1>2 DEF IsPrefix
<1> QED BY <1>3 DEF IsSuffix, r

\* _parse_size returns a number, for a suffix that is known the right one, or
\* one less.
LEMMA SizeRead ==
  ASSUME NEW size \in Sizes
  PROVE  /\ ParseSize(size) \in Nat
         /\ InBytes(size) \in Int \/ ~Known(size)
         /\ Known(size) => ParseSize(size) \in {InBytes(size), InBytes(size) - 1}
<1> DEFINE s == Amount[size]
           n == Len(Multipliers)
           M == [unit : Seq(STRING), bytes : Nat]
           bytes(i) == (s.tenths * Multipliers[i].bytes) \div 10
           same == {i \in DOMAIN Multipliers : Multipliers[i].unit = s.unit}
           first == CHOOSE i \in Matching(s.unit) : TRUE
           known == CHOOSE k \in DOMAIN Multipliers : Multipliers[k].unit = s.unit
<1>1. s.tenths \in Nat /\ s.unit \in Seq(STRING)
  <2>1. s \in Amounts
    BY DockerAssumption
  <2> QED BY <2>1 DEF Amounts
<1>2. n \in Nat /\ DOMAIN Multipliers = 1..n /\ \A i \in 1..n : Multipliers[i] \in M
  <2>1. Multipliers \in Seq(M)
    BY DockerAssumption
  <2> HIDE DEF M
  <2> QED BY <2>1
<1>3. \A i \in 1..n : Multipliers[i].bytes \in Nat
  BY <1>2
<1>4. \A i \in 1..n : bytes(i) \in Nat
  <2> SUFFICES ASSUME NEW i \in 1..n PROVE bytes(i) \in Nat
    OBVIOUS
  <2> DEFINE p == s.tenths * Multipliers[i].bytes
  <2>1. p \in Nat
    <3>1. s.tenths \in Nat /\ Multipliers[i].bytes \in Nat
      BY <1>1, <1>3
    <3> QED BY <3>1
  <2> HIDE DEF p
  <2>2. p \div 10 \in Nat
    BY <2>1, DivBounds
  <2> QED BY <2>2 DEF p
<1>5. s.tenths * 1 = s.tenths /\ s.tenths \div 10 \in Nat
  BY <1>1, DivBounds
<1> DEFINE less(x) == IF size \in Short /\ x > 0 THEN x - 1 ELSE x
<1>12. \A x \in Nat : less(x) \in Nat /\ less(x) \in {x, x - 1}
  OBVIOUS
<1>13. \A mult : Multiplied(size, mult) = less((s.tenths * mult) \div 10)
  BY DEF Multiplied
<1> HIDE DEF s, n, M, less
<1>6. \A i \in same : i \in Matching(s.unit)
  <2> SUFFICES ASSUME NEW i \in same PROVE i \in Matching(s.unit)
    OBVIOUS
  <2>1. i \in DOMAIN Multipliers /\ Multipliers[i].unit = s.unit
    OBVIOUS
  <2>2. IsSuffix(Multipliers[i].unit, s.unit)
    BY <1>1, <2>1, SuffixOfItself
  <2>3. \A j \in DOMAIN Multipliers : IsSuffix(Multipliers[j].unit, s.unit) => i <= j
    BY <2>1, DockerAssumption
  <2> QED BY <2>1, <2>2, <2>3 DEF Matching
<1>7. \A i, j \in Matching(s.unit) : i = j
  BY <1>2 DEF Matching
<1>8. Matching(s.unit) \subseteq 1..n
  BY <1>2 DEF Matching
<1> HIDE DEF first, known, bytes
<1>9. ParseSize(size) =
         CASE \E i \in Matching(s.unit) : Multipliers[i].unit = s.unit ->
                 Multiplied(size, Multipliers[first].bytes)
           [] s.unit = <<>> -> Multiplied(size, 1)
           [] OTHER -> 0
  BY DEF ParseSize, s, first
<1>10. CASE same # {}
  <2>1. PICK i \in same : TRUE
    BY <1>10
  <2>2. i \in Matching(s.unit) /\ i \in 1..n /\ Multipliers[i].unit = s.unit
    BY <1>2, <1>6, <2>1
  <2>3. first = i
    <3>1. first \in Matching(s.unit)
      BY <2>2 DEF first
    <3> QED BY <1>7, <2>2, <3>1
  <2>4. known = i
    <3>1. known \in same
      BY <2>1 DEF known
    <3> QED BY <1>6, <1>7, <2>2, <3>1
  <2>5. ParseSize(size) = less(bytes(i))
    <3> DEFINE exact == \E k \in Matching(s.unit) : Multipliers[k].unit = s.unit
               none == s.unit = <<>>
               whole == Multiplied(size, 1)
               found == Multiplied(size, Multipliers[first].bytes)
    <3>1. exact
      BY <2>2
    <3>3. found = less(bytes(i))
      BY <1>13, <2>3 DEF bytes
    <3>2. ParseSize(size) = CASE exact -> found [] ~exact /\ none -> whole [] OTHER -> 0
      BY <1>9, <3>1
    <3> HIDE DEF exact, none, whole, found
    <3> QED BY <3>1, <3>2, <3>3
  <2>6. InBytes(size) = bytes(i)
    BY <2>4 DEF InBytes, known, bytes, s
  <2>7. bytes(i) \in Nat
    BY <1>4, <2>2
  <2> QED BY <1>12, <2>5, <2>6, <2>7
<1>11. CASE same = {}
  <2>1. ~Known(size)
    BY <1>11 DEF Known, s
  <2>2. ~\E i \in Matching(s.unit) : Multipliers[i].unit = s.unit
    BY <1>2, <1>8, <1>11
  <2>3. ParseSize(size) = IF s.unit = <<>> THEN Multiplied(size, 1) ELSE 0
    BY <1>9, <2>2
  <2>4. Multiplied(size, 1) \in Nat
    BY <1>5, <1>12, <1>13
  <2> QED BY <2>1, <2>3, <2>4
<1> QED BY <1>10, <1>11

\* The figures of the summary.
LEMMA TotalsRead ==
  ASSUME NEW output \in Seq(SummaryLines), NEW t \in Types
  PROVE  LET lines == {i \in DOMAIN output : output[i] # NoJson /\ output[i].type = t}
             told  == SizeOf(Summary(output), t)
         IN  (\A i \in lines : Known(output[i].size)) =>
             \/ lines = {} /\ told = 0
             \/ \E i \in lines : LET exact == InBytes(output[i].size)
                                 IN  told \in {exact, exact - 1}
<1> DEFINE lines == {i \in DOMAIN output : output[i] # NoJson /\ output[i].type = t}
           L == SummaryLines
<1> SUFFICES ASSUME \A i \in lines : Known(output[i].size)
             PROVE  \/ lines = {} /\ SizeOf(Summary(output), t) = 0
                    \/ \E i \in lines :
                          SizeOf(Summary(output), t)
                          \in {InBytes(output[i].size), InBytes(output[i].size) - 1}
  OBVIOUS
<1>1. Len(output) \in Nat /\ DOMAIN output = 1..Len(output) /\ \A i \in DOMAIN output : output[i] \in L
  <2> HIDE DEF L
  <2>1. output \in Seq(L)
    BY DEF L
  <2> QED BY <2>1
<1>2. \A i \in lines : output[i].size \in Sizes
  BY <1>1 DEF SummaryLines
<1>3. t \in DOMAIN Summary(output) <=> lines # {}
  BY DEF Summary
<1>4. CASE lines = {}
  BY <1>3, <1>4 DEF SizeOf
<1>5. CASE lines # {}
  <2>1. Summary(output)[t] = output[Max(lines)].size
    BY <1>5 DEF Summary
  <2>2. Max(lines) \in lines
    <3>1. lines \in SUBSET (1..Len(output))
      BY <1>1
    <3> HIDE DEF lines
    <3> QED BY <1>1, <1>5, <3>1, LastOf
  <2> HIDE DEF lines
  <2>3. ParseSize(output[Max(lines)].size)
        \in {InBytes(output[Max(lines)].size), InBytes(output[Max(lines)].size) - 1}
    BY <1>2, <2>2, SizeRead
  <2>4. SizeOf(Summary(output), t)
        \in {InBytes(output[Max(lines)].size), InBytes(output[Max(lines)].size) - 1}
    BY <1>3, <1>5, <2>1, <2>3 DEF SizeOf
  <2> QED BY <1>5, <2>2, <2>4
<1> QED BY <1>4, <1>5

\* t is a table with a title and rows.
IsTable(t, title, listing) ==
    /\ t \in Seq(TableLines) /\ Len(listing) \in Nat /\ Len(t) = Len(listing) + 2
    /\ title \in Titles /\ t[1].starts = title
    /\ \A i \in 2..Len(t) : t[i].starts \notin Titles
    /\ t[2].starts # "text"
    /\ \A i \in 1..Len(listing) : t[i + 2] = RowLine(listing[i])

LEMMA TableIs ==
  ASSUME NEW title \in Titles, NEW listing \in Rows
  PROVE  IsTable(Table(title, listing), title, listing)
<1> DEFINE L == TableLines
           R == Seq(Words) \ {<<>>}
           k == Len(listing)
           head == << [starts |-> title, parts |-> <<>>], [starts |-> "columns", parts |-> <<>>] >>
           body == [i \in DOMAIN listing |-> RowLine(listing[i])]
           t == Table(title, listing)
<1>1. k \in Nat /\ DOMAIN listing = 1..k /\ \A i \in 1..k : listing[i] \in R
  <2>1. listing \in Seq(R)
    BY DEF Rows
  <2> HIDE DEF R
  <2> QED BY <2>1
<1>2. \A i \in 1..k : RowLine(listing[i]) \in L /\ RowLine(listing[i]).starts \in {"columns", "text"}
  BY <1>1 DEF RowLine, TableLines
<1>3. [starts |-> title, parts |-> <<>>] \in L /\ [starts |-> "columns", parts |-> <<>>] \in L
  <2>1. <<>> \in Seq(Words)
    OBVIOUS
  <2> QED BY <2>1 DEF TableLines
<1>4. /\ head \in Seq(L) /\ Len(head) = 2
      /\ head[1].starts = title /\ head[2].starts = "columns"
  <2> DEFINE x == [starts |-> title, parts |-> <<>>]
             y == [starts |-> "columns", parts |-> <<>>]
  <2>0. x.starts = title /\ y.starts = "columns"
    OBVIOUS
  <2> HIDE DEF L, x, y
  <2>1. <<x, y>> \in Seq(L) /\ Len(<<x, y>>) = 2 /\ <<x, y>>[1] = x /\ <<x, y>>[2] = y
    BY <1>3 DEF x, y
  <2> QED BY <2>0, <2>1 DEF x, y
<1> HIDE DEF L, head
<1>5. body \in Seq(L) /\ Len(body) = k /\ \A i \in 1..k : body[i] = RowLine(listing[i])
  <2>1. body \in [1..k -> L] /\ \A i \in 1..k : body[i] = RowLine(listing[i])
    BY <1>1, <1>2
  <2> HIDE DEF body, k
  <2> QED BY <1>1, <2>1, MadeSeq
<1>6. t = head \o body
  BY DEF Table, head
<1> HIDE DEF body, t, k
<1>7. /\ t \in Seq(L) /\ Len(t) = 2 + k
      /\ \A i \in 1..2 + k : t[i] = IF i <= 2 THEN head[i] ELSE body[i - 2]
  <2>1. head \in Seq(L) /\ body \in Seq(L)
    BY <1>4, <1>5
  <2>2. /\ head \o body \in Seq(L) /\ Len(head \o body) = Len(head) + Len(body)
        /\ \A i \in 1..Len(head) + Len(body) :
              (head \o body)[i] = IF i <= Len(head) THEN head[i] ELSE body[i - Len(head)]
    BY <2>1, ConcatProperties
  <2>3. Len(head) = 2 /\ Len(body) = k
    BY <1>4, <1>5
  <2> QED BY <1>6, <2>2, <2>3
<1>8. t[1].starts = title /\ t[2].starts = "columns"
  BY <1>1, <1>4, <1>7
<1>9. \A i \in 1..k : t[i + 2] = RowLine(listing[i])
  <2> SUFFICES ASSUME NEW i \in 1..k PROVE t[i + 2] = RowLine(listing[i])
    OBVIOUS
  <2>1. i + 2 \in 1..2 + k /\ ~(i + 2 <= 2) /\ (i + 2) - 2 = i
    BY <1>1
  <2> QED BY <1>5, <1>7, <2>1
<1>10. ASSUME NEW i \in 2..Len(t) PROVE t[i].starts \notin Titles
  <2>1. CASE i = 2
    BY <1>8, <2>1 DEF Titles
  <2>2. CASE i # 2
    <3>1. i - 2 \in 1..k /\ (i - 2) + 2 = i
      BY <1>1, <1>7, <2>2
    <3>2. t[i] = RowLine(listing[i - 2])
      BY <1>9, <3>1
    <3>3. RowLine(listing[i - 2]).starts \in {"columns", "text"}
      BY <1>2, <3>1
    <3> QED BY <3>2, <3>3 DEF Titles
  <2> QED BY <2>1, <2>2
<1> QED BY <1>1, <1>7, <1>8, <1>9, <1>10 DEF IsTable, t, k, L

\* Table t is in the text after o lines.
At(text, o, t) == o \in Nat /\ \A i \in 1..Len(t) : text[o + i] = t[i]

\* All lines of a table have its title for their section.
LEMMA SectionIs ==
  ASSUME NEW text, NEW o, NEW t, NEW title, NEW listing, At(text, o, t), IsTable(t, title, listing),
         NEW i \in 1..Len(t)
  PROVE  SectionAt(text, o + i) = title
<1> DEFINE titles == {q \in 1..o + i : text[q].starts \in Titles}
           n == Len(t)
<1>1. o \in Nat /\ n \in Nat /\ n >= 2 /\ i \in Nat /\ 1 \in 1..n
  BY DEF At, IsTable
<1>2. o + 1 \in titles
  <2>1. text[o + 1] = t[1] /\ t[1].starts \in Titles
    BY <1>1 DEF At, IsTable
  <2> QED BY <1>1, <2>1
<1>3. \A q \in titles : q <= o + 1
  <2> SUFFICES ASSUME NEW q \in 1..o + i, q > o + 1 PROVE text[q].starts \notin Titles
    BY <1>1
  <2> DEFINE j == q - o
  <2>1. j \in 2..n /\ j \in 1..n /\ o + j = q
    BY <1>1
  <2> HIDE DEF j
  <2>2. text[q] = t[j]
    BY <2>1 DEF At
  <2> QED BY <2>1, <2>2 DEF IsTable
<1>4. Max(titles) = o + 1
  <2>1. titles \in SUBSET (1..o + i) /\ titles # {} /\ o + i \in Nat
    BY <1>1, <1>2
  <2>2. Max(titles) \in titles /\ \A q \in titles : q <= Max(titles)
    <3> HIDE DEF titles
    <3> DEFINE m == o + i
    <3> HIDE DEF m
    <3>1. titles \in SUBSET (1..m) /\ titles # {} /\ m \in Nat
      BY <2>1 DEF m
    <3> QED BY <3>1, LastOf
  <2> DEFINE x == Max(titles)
  <2>3. x \in Int
    BY <2>1, <2>2
  <2> HIDE DEF x, titles
  <2>4. x <= o + 1 /\ o + 1 <= x
    BY <1>2, <1>3, <2>2 DEF x
  <2> QED BY <1>1, <2>3, <2>4 DEF x
<1>5. SectionAt(text, o + i) = text[o + 1].starts
  BY <1>2, <1>4 DEF SectionAt
<1>6. text[o + 1] = t[1] /\ t[1].starts = title
  BY <1>1 DEF At, IsTable
<1> QED BY <1>5, <1>6

\* The rows of a table that RowsOf takes: those with enough columns that do
\* not start like the names of columns.
Taken(listing, columns) ==
    {i \in 1..Len(listing) : listing[i][1] \notin Capitals /\ Len(listing[i]) >= columns}

\* found has the taken rows, in their order.
RowsRead(found, listing, columns) ==
    /\ Len(found) \in Nat /\ DOMAIN found = 1..Len(found)
    /\ \E at \in [1..Len(found) -> Taken(listing, columns)] :
          /\ \A j \in 1..Len(found) : found[j] = listing[at[j]]
          /\ \A j, k \in 1..Len(found) : j < k => at[j] < at[k]
          /\ \A i \in Taken(listing, columns) : \E j \in 1..Len(found) : at[j] = i

\* The lines of a table are the only ones with its title for their section:
\* what is read of it is its rows.
LEMMA TableRead ==
  ASSUME NEW text \in Seq(TableLines), NEW o, NEW t, NEW title, NEW listing, NEW columns \in Nat,
         At(text, o, t), IsTable(t, title, listing), o + Len(t) <= Len(text),
         \A n \in 1..Len(text) : (n <= o \/ n > o + Len(t)) => SectionAt(text, n) # title
  PROVE  RowsRead(RowsOf(text, title, columns), listing, columns)
<1> DEFINE L == TableLines
           N == Len(text)
           k == Len(listing)
           idx == [n \in DOMAIN text |-> n]
           here == {n \in DOMAIN text : /\ text[n].starts = "text"
                                        /\ Len(text[n].parts) >= columns
                                        /\ SectionAt(text, n) = title}
           r == Sifted(idx, here)
           found == [i \in DOMAIN r |-> text[r[i]].parts]
           T == Taken(listing, columns)
<1>1. N \in Nat /\ DOMAIN text = 1..N
  <2> HIDE DEF L
  <2>1. text \in Seq(L)
    BY DEF L
  <2> QED BY <2>1
<1>2. idx \in Seq(1..N) /\ Len(idx) = N /\ \A n \in 1..N : idx[n] = n
  <2>1. idx \in [1..N -> 1..N] /\ \A n \in 1..N : idx[n] = n
    BY <1>1
  <2> HIDE DEF idx, N
  <2> QED BY <1>1, <2>1, MadeSeq
<1>3. o \in Nat /\ k \in Nat /\ Len(t) = k + 2
  BY DEF At, IsTable
<1>4. ASSUME NEW i \in 1..k
      PROVE  /\ o + 2 + i \in 1..N /\ text[o + 2 + i] = RowLine(listing[i])
             /\ SectionAt(text, o + 2 + i) = title
  <2> DEFINE h == i + 2
  <2>1. h \in 1..Len(t) /\ o + h = o + 2 + i /\ o + 2 + i \in 1..N
    BY <1>1, <1>3
  <2>2. t[h] = RowLine(listing[i])
    BY DEF IsTable
  <2> HIDE DEF h
  <2>3. text[o + h] = t[h]
    BY <2>1 DEF At
  <2>4. SectionAt(text, o + h) = title
    BY <2>1, SectionIs
  <2> QED BY <2>1, <2>2, <2>3, <2>4
<1>5. \A n \in here : \E i \in T : n = o + 2 + i
  <2> SUFFICES ASSUME NEW n \in here PROVE \E i \in T : n = o + 2 + i
    OBVIOUS
  <2>1. n \in 1..N /\ text[n].starts = "text" /\ Len(text[n].parts) >= columns
        /\ SectionAt(text, n) = title
    BY <1>1
  <2>2. n > o /\ n <= o + Len(t)
    BY <1>1, <1>3, <2>1
  <2> DEFINE h == n - o
             i == n - o - 2
  <2>3. h \in 1..Len(t) /\ o + h = n
    BY <1>3, <2>1, <2>2
  <2>4. text[n] = t[h]
    BY <2>3 DEF At
  <2>5. h # 1 /\ h # 2
    <3>1. t[1].starts \in Titles /\ t[2].starts # "text" /\ "text" \notin Titles
      BY DEF IsTable, Titles
    <3> HIDE DEF h
    <3> QED BY <2>1, <2>4, <3>1
  <2>6. i \in 1..k /\ o + 2 + i = n
    <3>1. i = h - 2 /\ o + 2 + i = n /\ h \in Int
      BY <1>1, <1>3, <2>1
    <3> HIDE DEF i, h, k
    <3>2. h \in 1..k + 2 /\ h # 1 /\ h # 2 /\ k \in Nat
      BY <1>3, <2>3, <2>5
    <3> QED BY <3>1, <3>2
  <2> HIDE DEF i, here
  <2>7. text[n] = RowLine(listing[i])
    BY <1>4, <2>6
  <2>8. listing[i][1] \notin Capitals /\ Len(listing[i]) >= columns
    BY <2>1, <2>7 DEF RowLine
  <2> QED BY <2>6, <2>8 DEF Taken
<1>6. \A i \in T : o + 2 + i \in here
  <2> SUFFICES ASSUME NEW i \in T PROVE o + 2 + i \in here
    OBVIOUS
  <2>1. i \in 1..k /\ listing[i][1] \notin Capitals /\ Len(listing[i]) >= columns
    BY DEF Taken
  <2> DEFINE n == o + 2 + i
  <2>2. n \in 1..N /\ text[n] = RowLine(listing[i]) /\ SectionAt(text, n) = title
    BY <1>4, <2>1
  <2>3. RowLine(listing[i]).starts = "text" /\ RowLine(listing[i]).parts = listing[i]
    BY <2>1 DEF RowLine
  <2> HIDE DEF n
  <2> QED BY <1>1, <2>1, <2>2, <2>3 DEF n
<1>7. RowsOf(text, title, columns) = found
  BY DEF RowsOf
<1> HIDE DEF here, found, idx, N, T, k
<1>8. PICK at : /\ r \in Seq(1..N) /\ at \in [DOMAIN r -> 1..N]
                /\ \A j \in DOMAIN r : at[j] \in 1..N /\ r[j] \in here /\ r[j] = idx[at[j]]
                /\ \A j, m \in DOMAIN r : j < m => at[j] < at[m]
                /\ \A h \in 1..N : idx[h] \in here => \E j \in DOMAIN r : at[j] = h
  <2>1. Keeps(r, idx, here, N)
    BY <1>2, SiftedKeeps
  <2>2. r \in Seq(1..N) /\ \A j \in DOMAIN r : r[j] \in here
    BY <1>2, SiftedTyped
  <2> QED BY <2>1, <2>2 DEF Keeps
<1>9. Len(r) \in Nat /\ DOMAIN r = 1..Len(r)
  BY <1>8
<1> HIDE DEF r
<1>10. /\ \A j, m \in 1..Len(r) : j < m => r[j] < r[m]
       /\ \A j \in 1..Len(r) : r[j] \in here /\ r[j] \in 1..N
       /\ \A n \in here : \E j \in 1..Len(r) : r[j] = n
  <2>1. here \subseteq 1..N
    BY <1>1 DEF here
  <2> QED BY <1>2, <1>8, <1>9, <2>1
<1> DEFINE to == [j \in 1..Len(r) |-> r[j] - o - 2]
<1>11. \A j \in 1..Len(r) : to[j] \in T /\ r[j] = o + 2 + to[j]
  <2> SUFFICES ASSUME NEW j \in 1..Len(r) PROVE to[j] \in T /\ r[j] = o + 2 + to[j]
    OBVIOUS
  <2>1. PICK i \in T : r[j] = o + 2 + i
    BY <1>5, <1>10
  <2>2. i \in Int
    BY DEF T, Taken
  <2>3. to[j] = i
    BY <1>3, <2>1, <2>2
  <2> QED BY <2>1, <2>3
<1>12. found = [i \in 1..Len(r) |-> text[r[i]].parts]
  BY <1>9 DEF found
<1>13. Len(found) = Len(r) /\ DOMAIN found = 1..Len(r)
  BY <1>9, <1>12
<1>14. \A j \in 1..Len(r) : found[j] = listing[to[j]]
  <2> SUFFICES ASSUME NEW j \in 1..Len(r) PROVE found[j] = listing[to[j]]
    OBVIOUS
  <2> DEFINE i == to[j]
  <2>1. i \in T /\ r[j] = o + 2 + i
    BY <1>11
  <2> HIDE DEF to, i
  <2>2. i \in 1..k
    BY <2>1 DEF T, Taken, k
  <2>3. text[r[j]] = RowLine(listing[i])
    BY <1>4, <2>1, <2>2
  <2>4. found[j] = text[r[j]].parts
    BY <1>12
  <2> QED BY <2>3, <2>4 DEF RowLine, i
<1>15. \A j, m \in 1..Len(r) : j < m => to[j] < to[m]
  <2>1. \A j \in 1..Len(r) : r[j] \in Int
    BY <1>1, <1>10
  <2> QED BY <1>3, <1>10, <2>1
<1>16. \A i \in T : \E j \in 1..Len(r) : to[j] = i
  <2> SUFFICES ASSUME NEW i \in T PROVE \E j \in 1..Len(r) : to[j] = i
    OBVIOUS
  <2>1. PICK j \in 1..Len(r) : r[j] = o + 2 + i
    BY <1>6, <1>10
  <2>2. i \in Int
    BY DEF T, Taken
  <2>3. to[j] = i
    BY <1>3, <2>1, <2>2
  <2> QED BY <2>3
<1>17. to \in [1..Len(r) -> T]
  BY <1>11
<1> HIDE DEF to
<1> QED BY <1>7, <1>9, <1>13, <1>14, <1>15, <1>16, <1>17 DEF RowsRead, T

\* Sequences joined: where the second starts.
LEMMA Joined ==
  ASSUME NEW X, NEW a \in Seq(X), NEW b \in Seq(X)
  PROVE  /\ a \o b \in Seq(X) /\ Len(a \o b) = Len(a) + Len(b)
         /\ Len(a) \in Nat /\ Len(b) \in Nat
         /\ At(a \o b, 0, a) /\ At(a \o b, Len(a), b)
<1>1. /\ a \o b \in Seq(X) /\ Len(a \o b) = Len(a) + Len(b)
      /\ \A i \in 1..Len(a) + Len(b) : (a \o b)[i] = IF i <= Len(a) THEN a[i] ELSE b[i - Len(a)]
  BY ConcatProperties
<1> DEFINE p == Len(a)
           q == Len(b)
           c == a \o b
<1>2. p \in Nat /\ q \in Nat
  OBVIOUS
<1>3. \A i \in 1..p + q : c[i] = IF i <= p THEN a[i] ELSE b[i - p]
  BY <1>1
<1> HIDE DEF p, q, c
<1>4. \A i \in 1..p : c[0 + i] = a[i]
  <2> SUFFICES ASSUME NEW i \in 1..p PROVE c[0 + i] = a[i]
    OBVIOUS
  <2>1. 0 + i = i /\ i \in 1..p + q /\ i <= p
    BY <1>2
  <2> QED BY <1>3, <2>1
<1>5. \A i \in 1..q : c[p + i] = b[i]
  <2> SUFFICES ASSUME NEW i \in 1..q PROVE c[p + i] = b[i]
    OBVIOUS
  <2> DEFINE h == p + i
  <2>1. h \in 1..p + q /\ ~(h <= p) /\ h - p = i
    BY <1>2
  <2> HIDE DEF h
  <2> QED BY <1>3, <2>1 DEF h
<1> QED BY <1>1, <1>2, <1>4, <1>5 DEF At, p, q, c

\* What is at a place of the first of two is there when they are joined.
LEMMA AtJoined ==
  ASSUME NEW X, NEW a \in Seq(X), NEW b \in Seq(X), NEW o, NEW t,
         At(a, o, t), o + Len(t) <= Len(a), Len(t) \in Nat
  PROVE  At(a \o b, o, t)
<1> DEFINE p == Len(a)
           k == Len(t)
           c == a \o b
<1>1. p \in Nat /\ \A i \in 1..p : c[0 + i] = a[i]
  BY Joined DEF At
<1>2. o \in Nat /\ k \in Nat /\ o + k <= p /\ \A i \in 1..k : a[o + i] = t[i]
  BY DEF At
<1> HIDE DEF p, k, c
<1>3. ASSUME NEW i \in 1..k PROVE c[o + i] = t[i]
  <2> DEFINE h == o + i
  <2>1. h \in 1..p /\ 0 + h = h
    BY <1>1, <1>2
  <2> HIDE DEF h
  <2>2. c[h] = a[h]
    BY <1>1, <2>1
  <2> QED BY <1>2, <2>2 DEF h
<1> QED BY <1>2, <1>3 DEF At, k, c

\* An inventory as docker has it.
LEMMA InventoryTyped ==
  ASSUME NEW inventory \in Inventories
  PROVE  /\ inventory.images \in Seq(DockerImages) /\ inventory.volumes \in Seq(DockerVolumes)
         /\ inventory.containers \in Rows /\ inventory.build_cache \in Rows
<1> DEFINE R == [images : Seq(DockerImages), containers : Rows,
                 volumes : Seq(DockerVolumes), build_cache : Rows]
<1>1. inventory \in R
  BY DockerAssumption
<1> QED BY <1>1

\* The row of an image has its figures at both ends.
LEMMA ImageRowIs ==
  ASSUME NEW i \in DockerImages
  PROVE  LET p == ImageRow(i)
             n == Len(p)
         IN  /\ p \in Seq(Words) \ {<<>>} /\ n \in Nat /\ n >= 8
             /\ p[1] = i.repository /\ p[2] = i.tag /\ p[3] = i.id
             /\ p[n - 3] = i.size /\ p[n - 2] = i.shared /\ p[n - 1] = i.unique
<1> DEFINE a == <<i.repository, i.tag, i.id>>
           b == i.created
           z == <<i.size, i.shared, i.unique, i.containers>>
           k == Len(b)
           p == ImageRow(i)
<1>1. /\ i.repository \in Words /\ i.tag \in Words /\ i.id \in Words /\ i.size \in Words
      /\ i.shared \in Words /\ i.unique \in Words /\ i.containers \in Words
      /\ b \in Seq(Words) /\ b # <<>>
  BY DEF DockerImages
<1>2. a \in Seq(Words) /\ Len(a) = 3 /\ a[1] = i.repository /\ a[2] = i.tag /\ a[3] = i.id
  BY <1>1
<1>3. /\ z \in Seq(Words) /\ Len(z) = 4
      /\ z[1] = i.size /\ z[2] = i.shared /\ z[3] = i.unique
  BY <1>1
<1>4. k \in Nat /\ k >= 1
  <2> HIDE DEF b
  <2>1. k \in Nat /\ k # 0
    BY <1>1
  <2> QED BY <2>1
<1>5. p = (a \o b) \o z
  BY <1>1, <1>2, <1>3 DEF ImageRow
<1> HIDE DEF a, b, z, p, k
<1> DEFINE d == a \o b
<1>6. d \in Seq(Words) /\ Len(d) = 3 + k /\ At(d, 0, a)
  BY <1>1, <1>2, Joined DEF k
<1>7. p \in Seq(Words) /\ Len(p) = Len(d) + Len(z) /\ At(p, Len(d), z) /\ At(p, 0, a)
  <2>1. 0 + Len(a) <= Len(d) /\ Len(a) \in Nat
    BY <1>2, <1>4, <1>6
  <2> HIDE DEF d
  <2>2. d \o z \in Seq(Words) /\ Len(d \o z) = Len(d) + Len(z) /\ At(d \o z, Len(d), z)
    BY <1>3, <1>6, Joined
  <2>3. At(d \o z, 0, a)
    BY <1>3, <1>6, <2>1, AtJoined
  <2> QED BY <1>5, <2>2, <2>3 DEF d
<1> HIDE DEF d
<1>8. Len(p) = k + 7
  BY <1>3, <1>4, <1>6, <1>7
<1>9. p[1] = a[1] /\ p[2] = a[2] /\ p[3] = a[3]
  <2>1. \A j \in 1..3 : p[0 + j] = a[j]
    BY <1>2, <1>7 DEF At
  <2> QED BY <2>1
<1>10. p[k + 4] = z[1] /\ p[k + 5] = z[2] /\ p[k + 6] = z[3]
  <2>1. \A j \in 1..4 : p[(3 + k) + j] = z[j]
    BY <1>3, <1>6, <1>7 DEF At
  <2>2. (3 + k) + 1 = k + 4 /\ (3 + k) + 2 = k + 5 /\ (3 + k) + 3 = k + 6
    BY <1>4
  <2>3. p[(3 + k) + 1] = z[1] /\ p[(3 + k) + 2] = z[2] /\ p[(3 + k) + 3] = z[3]
    BY <2>1
  <2> QED BY <2>2, <2>3
<1>11. Len(p) - 3 = k + 4 /\ Len(p) - 2 = k + 5 /\ Len(p) - 1 = k + 6 /\ Len(p) \in Nat /\ Len(p) >= 8
  BY <1>4, <1>8
<1>12. p # <<>>
  <2>1. Len(<<>>) = 0
    OBVIOUS
  <2> QED BY <1>11, <2>1
<1> QED BY <1>2, <1>3, <1>7, <1>9, <1>10, <1>11, <1>12 DEF p

\* Four sequences joined.
LEMMA FourJoined ==
  ASSUME NEW X, NEW a \in Seq(X), NEW b \in Seq(X), NEW c \in Seq(X), NEW d \in Seq(X)
  PROVE  LET text == a \o b \o c \o d
         IN  /\ text \in Seq(X) /\ Len(text) = Len(a) + Len(b) + Len(c) + Len(d)
             /\ At(text, 0, a) /\ At(text, Len(a), b)
             /\ At(text, Len(a) + Len(b), c) /\ At(text, Len(a) + Len(b) + Len(c), d)
<1> DEFINE ab == a \o b
           abc == ab \o c
           text == abc \o d
<1>1. /\ ab \in Seq(X) /\ Len(ab) = Len(a) + Len(b) /\ Len(a) \in Nat /\ Len(b) \in Nat
      /\ At(ab, 0, a) /\ At(ab, Len(a), b) /\ Len(c) \in Nat /\ Len(d) \in Nat
  BY Joined
<1>2. 0 + Len(a) <= Len(ab) /\ Len(a) + Len(b) <= Len(ab)
  BY <1>1
<1> HIDE DEF ab
<1>3. /\ abc \in Seq(X) /\ Len(abc) = Len(ab) + Len(c)
      /\ At(abc, 0, a) /\ At(abc, Len(a), b) /\ At(abc, Len(ab), c)
  BY <1>1, <1>2, Joined, AtJoined
<1>4. /\ 0 + Len(a) <= Len(abc) /\ Len(a) + Len(b) <= Len(abc)
      /\ Len(ab) + Len(c) <= Len(abc) /\ Len(ab) \in Nat
  BY <1>1, <1>3
<1> HIDE DEF abc
<1>5. /\ text \in Seq(X) /\ Len(text) = Len(abc) + Len(d)
      /\ At(text, 0, a) /\ At(text, Len(a), b) /\ At(text, Len(ab), c) /\ At(text, Len(abc), d)
  BY <1>1, <1>3, <1>4, Joined, AtJoined
<1> HIDE DEF text
<1>6. Len(text) = Len(a) + Len(b) + Len(c) + Len(d) /\ Len(abc) = Len(a) + Len(b) + Len(c)
  BY <1>1, <1>3, <1>5
<1> QED BY <1>1, <1>5, <1>6 DEF text, abc, ab

\* The rows of what docker lists.
ImageRows(inventory) == [i \in DOMAIN inventory.images |-> ImageRow(inventory.images[i])]
VolumeRows(inventory) == [i \in DOMAIN inventory.volumes |-> VolumeRow(inventory.volumes[i])]

LEMMA RowsPrinted ==
  ASSUME NEW inventory \in Inventories
  PROVE  /\ ImageRows(inventory) \in Rows /\ Len(ImageRows(inventory)) = Len(inventory.images)
         /\ VolumeRows(inventory) \in Rows /\ Len(VolumeRows(inventory)) = Len(inventory.volumes)
         /\ Len(inventory.images) \in Nat /\ Len(inventory.volumes) \in Nat
         /\ \A i \in 1..Len(inventory.images) :
               ImageRows(inventory)[i] = ImageRow(inventory.images[i])
               /\ inventory.images[i] \in DockerImages
         /\ \A i \in 1..Len(inventory.volumes) :
               VolumeRows(inventory)[i] = VolumeRow(inventory.volumes[i])
               /\ inventory.volumes[i] \in DockerVolumes
<1> DEFINE R == Seq(Words) \ {<<>>}
           DI == DockerImages
           DV == DockerVolumes
           im == inventory.images
           vo == inventory.volumes
<1>1. \A i \in DI : ImageRow(i) \in R
  BY ImageRowIs
<1>2. \A v \in DV : VolumeRow(v) \in R
  <2> SUFFICES ASSUME NEW v \in DV PROVE VolumeRow(v) \in R
    OBVIOUS
  <2>1. v.name \in Words /\ v.links \in Words /\ v.size \in Words
    BY DockerAssumption DEF DockerVolumes
  <2>2. VolumeRow(v) = <<v.name, v.links, v.size>>
    BY DEF VolumeRow
  <2>3. VolumeRow(v) \in Seq(Words) /\ Len(VolumeRow(v)) = 3
    BY <2>1, <2>2
  <2> DEFINE x == VolumeRow(v)
  <2>4. Len(<<>>) = 0 /\ Len(x) = 3 /\ x \in Seq(Words)
    BY <2>3
  <2> HIDE DEF x
  <2>5. ASSUME x = <<>> PROVE FALSE
    <3>1. Len(x) = 0
      BY <2>4, <2>5
    <3> QED BY <2>4, <3>1
  <2> QED BY <2>4, <2>5 DEF x
<1>3. im \in Seq(DI) /\ vo \in Seq(DV)
  BY InventoryTyped
<1>4. Rows = Seq(R)
  BY DEF Rows
<1> HIDE DEF R, DI, DV, im, vo
<1>5. /\ Len(im) \in Nat /\ DOMAIN im = 1..Len(im) /\ \A i \in 1..Len(im) : im[i] \in DI
      /\ Len(vo) \in Nat /\ DOMAIN vo = 1..Len(vo) /\ \A i \in 1..Len(vo) : vo[i] \in DV
  BY <1>3
<1>6. /\ ImageRows(inventory) = [i \in 1..Len(im) |-> ImageRow(im[i])]
      /\ VolumeRows(inventory) = [i \in 1..Len(vo) |-> VolumeRow(vo[i])]
  BY <1>5 DEF ImageRows, VolumeRows, im, vo
<1>7. ImageRows(inventory) \in [1..Len(im) -> R] /\ VolumeRows(inventory) \in [1..Len(vo) -> R]
  BY <1>1, <1>2, <1>5, <1>6
<1>8. /\ ImageRows(inventory) \in Seq(R) /\ Len(ImageRows(inventory)) = Len(im)
      /\ VolumeRows(inventory) \in Seq(R) /\ Len(VolumeRows(inventory)) = Len(vo)
  BY <1>5, <1>7, MadeSeq
<1> QED BY <1>4, <1>5, <1>6, <1>8 DEF im, vo, DI, DV

\* What is read of the text is the rows of the images and of the volumes, and
\* of no other table.
LEMMA PrintedRead ==
  ASSUME NEW inventory \in Inventories
  PROVE  /\ RowsRead(RowsOf(Printed(inventory), "images", 7), ImageRows(inventory), 7)
         /\ RowsRead(RowsOf(Printed(inventory), "volumes", 3), VolumeRows(inventory), 3)
<1> DEFINE ri == ImageRows(inventory)
           rc == inventory.containers
           rv == VolumeRows(inventory)
           rb == inventory.build_cache
           a == Table("images", ri)
           b == Table("containers", rc)
           c == Table("volumes", rv)
           d == Table("build_cache", rb)
           text == Printed(inventory)
           L == TableLines
           p == Len(a)
           q == Len(b)
           r == Len(c)
           s == Len(d)
<1>1. ri \in Rows /\ rc \in Rows /\ rv \in Rows /\ rb \in Rows
  BY RowsPrinted, InventoryTyped
<1>2. text = a \o b \o c \o d
  BY DEF Printed, ImageRows, VolumeRows
<1> HIDE DEF ri, rc, rv, rb
<1>3. /\ IsTable(a, "images", ri) /\ IsTable(b, "containers", rc)
      /\ IsTable(c, "volumes", rv) /\ IsTable(d, "build_cache", rb)
  BY <1>1, TableIs DEF Titles
<1>4. a \in Seq(L) /\ b \in Seq(L) /\ c \in Seq(L) /\ d \in Seq(L)
  BY <1>3 DEF IsTable
<1> HIDE DEF a, b, c, d, text
<1>5. p \in Nat /\ q \in Nat /\ r \in Nat /\ s \in Nat
  <2> HIDE DEF L
  <2> QED BY <1>4
<1>6. /\ text \in Seq(L) /\ Len(text) = p + q + r + s
      /\ At(text, 0, a) /\ At(text, p, b) /\ At(text, p + q, c) /\ At(text, p + q + r, d)
  <2> HIDE DEF L
  <2> QED BY <1>2, <1>4, FourJoined
<1> HIDE DEF p, q, r, s, L
<1>7. ASSUME NEW o, NEW t, NEW title, NEW listing, NEW k \in Nat, k = Len(t),
             At(text, o, t), IsTable(t, title, listing),
             NEW n \in Int, o < n, n <= o + k
      PROVE  SectionAt(text, n) = title
  <2> DEFINE i == n - o
  <2>1. o \in Nat
    BY <1>7 DEF At
  <2>2. i \in 1..Len(t) /\ o + i = n
    BY <1>7, <2>1
  <2> HIDE DEF i
  <2>3. SectionAt(text, o + i) = title
    BY <1>7, <2>2, SectionIs
  <2> QED BY <2>2, <2>3
<1>8. ASSUME NEW n \in 1..Len(text)
      PROVE  /\ n <= p => SectionAt(text, n) = "images"
             /\ n > p /\ n <= p + q => SectionAt(text, n) = "containers"
             /\ n > p + q /\ n <= p + q + r => SectionAt(text, n) = "volumes"
             /\ n > p + q + r => SectionAt(text, n) = "build_cache"
  <2>0. n \in Int /\ n > 0 /\ n <= p + q + r + s
    BY <1>5, <1>6
  <2>1. ASSUME n <= p PROVE SectionAt(text, n) = "images"
    <3>1. 0 < n /\ n <= 0 + p
      BY <1>5, <2>0, <2>1
    <3> QED BY <1>3, <1>5, <1>6, <1>7, <2>0, <3>1 DEF p
  <2>2. ASSUME n > p, n <= p + q PROVE SectionAt(text, n) = "containers"
    <3>1. p < n
      BY <1>5, <2>0, <2>2
    <3> QED BY <1>3, <1>5, <1>6, <1>7, <2>0, <2>2, <3>1 DEF q
  <2>3. ASSUME n > p + q, n <= p + q + r PROVE SectionAt(text, n) = "volumes"
    <3> DEFINE o == p + q
    <3>1. o < n /\ n <= o + r /\ At(text, o, c)
      BY <1>5, <1>6, <2>0, <2>3
    <3> HIDE DEF o
    <3> QED BY <1>3, <1>5, <1>7, <2>0, <3>1 DEF r
  <2>4. ASSUME n > p + q + r PROVE SectionAt(text, n) = "build_cache"
    <3> DEFINE o == p + q + r
    <3>1. o < n /\ n <= o + s /\ At(text, o, d)
      BY <1>5, <1>6, <2>0, <2>4
    <3> HIDE DEF o
    <3> QED BY <1>3, <1>5, <1>7, <2>0, <3>1 DEF s
  <2> QED BY <2>1, <2>2, <2>3, <2>4
<1>9. RowsRead(RowsOf(text, "images", 7), ri, 7)
  <2>1. 0 + p <= Len(text)
    BY <1>5, <1>6
  <2>2. \A n \in 1..Len(text) : (n <= 0 \/ n > 0 + p) => SectionAt(text, n) # "images"
    <3> SUFFICES ASSUME NEW n \in 1..Len(text), n <= 0 \/ n > 0 + p
                 PROVE  SectionAt(text, n) # "images"
      OBVIOUS
    <3>1. n > p /\ (n <= p + q \/ (n > p + q /\ n <= p + q + r) \/ n > p + q + r)
      BY <1>5, <1>6
    <3>2. SectionAt(text, n) \in {"containers", "volumes", "build_cache"}
      BY <1>8, <3>1
    <3> QED BY <3>2
  <2> DEFINE w == 7
             o == 0
  <2>3. w \in Nat /\ At(text, o, a) /\ o + Len(a) <= Len(text)
        /\ \A n \in 1..Len(text) : (n <= o \/ n > o + Len(a)) => SectionAt(text, n) # "images"
    BY <1>6, <2>1, <2>2 DEF p
  <2>4. text \in Seq(TableLines)
    BY <1>6 DEF L
  <2> HIDE DEF w, o
  <2>5. RowsRead(RowsOf(text, "images", w), ri, w)
    BY <1>3, <2>3, <2>4, TableRead
  <2> QED BY <2>5 DEF w
<1>10. RowsRead(RowsOf(text, "volumes", 3), rv, 3)
  <2> DEFINE w == 3
             o == p + q
  <2>1. w \in Nat /\ At(text, o, c) /\ o + r <= Len(text)
    BY <1>5, <1>6
  <2>2. \A n \in 1..Len(text) : (n <= o \/ n > o + r) => SectionAt(text, n) # "volumes"
    <3> SUFFICES ASSUME NEW n \in 1..Len(text), n <= o \/ n > o + r
                 PROVE  SectionAt(text, n) # "volumes"
      OBVIOUS
    <3>1. n <= p \/ (n > p /\ n <= p + q) \/ n > p + q + r
      BY <1>5, <1>6
    <3>2. SectionAt(text, n) \in {"images", "containers", "build_cache"}
      BY <1>8, <3>1
    <3> QED BY <3>2
  <2>3. text \in Seq(TableLines)
    BY <1>6 DEF L
  <2> HIDE DEF w, o
  <2>4. RowsRead(RowsOf(text, "volumes", w), rv, w)
    BY <1>3, <2>1, <2>2, <2>3, TableRead DEF r
  <2> QED BY <2>4 DEF w
<1> QED BY <1>9, <1>10 DEF text, ri, rv

\* An increasing enumeration of a set of numbers counts it.
LEMMA Counted ==
  ASSUME NEW m \in Nat, NEW T \in SUBSET Int, NEW at \in [1..m -> T],
         \A j, h \in 1..m : j < h => at[j] < at[h],
         \A i \in T : \E j \in 1..m : at[j] = i
  PROVE  at \in Bijection(1..m, T) /\ IsFiniteSet(T) /\ Cardinality(T) = m
<1>1. ASSUME NEW j \in 1..m, NEW h \in 1..m, at[j] = at[h], j # h PROVE FALSE
  <2>1. j < h \/ h < j
    BY <1>1
  <2>2. at[j] < at[h] \/ at[h] < at[j]
    BY <1>1, <2>1
  <2>3. at[j] \in Int /\ at[h] \in Int
    OBVIOUS
  <2> QED BY <1>1, <2>2, <2>3
<1>2. at \in Bijection(1..m, T)
  BY <1>1 DEF Bijection, Injection, Surjection, IsInjective
<1>3. ExistsBijection(1..m, T)
  BY <1>2 DEF ExistsBijection
<1>4. IsFiniteSet(1..m) /\ Cardinality(1..m) = m
  BY FS_Interval
<1> QED BY <1>2, <1>3, <1>4, FS_Bijection

\* The images: all rows are taken, so each image is listed in its place.
LEMMA ImagesRight ==
  ASSUME NEW inventory \in Inventories
  PROVE  Images(Printed(inventory)) =
             [i \in DOMAIN inventory.images |->
                 LET img == inventory.images[i]
                 IN  [repository |-> img.repository, tag |-> img.tag, id |-> img.id,
                      size |-> img.size, shared |-> img.shared, unique |-> img.unique]]
<1> DEFINE im == inventory.images
           k == Len(im)
           listing == ImageRows(inventory)
           found == RowsOf(Printed(inventory), "images", 7)
           T == Taken(listing, 7)
           m == Len(found)
           Read(p) == [repository |-> p[1], tag |-> p[2], id |-> p[3], size |-> p[Len(p) - 3],
                       shared |-> p[Len(p) - 2], unique |-> p[Len(p) - 1]]
           Own(img) == [repository |-> img.repository, tag |-> img.tag, id |-> img.id,
                        size |-> img.size, shared |-> img.shared, unique |-> img.unique]
<1>1. /\ k \in Nat /\ DOMAIN im = 1..k /\ Len(listing) = k
      /\ \A i \in 1..k : listing[i] = ImageRow(im[i]) /\ im[i] \in DockerImages
  <2>1. k \in Nat /\ Len(listing) = k
        /\ \A i \in 1..k : listing[i] = ImageRow(im[i]) /\ im[i] \in DockerImages
    BY RowsPrinted
  <2>2. DOMAIN im = 1..k
    <3> DEFINE DI == DockerImages
    <3> HIDE DEF DI, k
    <3>1. im \in Seq(DI)
      BY InventoryTyped DEF DI
    <3> QED BY <3>1 DEF k
  <2> QED BY <2>1, <2>2
<1>2. \A i \in 1..k : /\ listing[i][1] \notin Capitals /\ Len(listing[i]) >= 7
                      /\ Read(listing[i]) = Own(im[i])
  <2> SUFFICES ASSUME NEW i \in 1..k
               PROVE  /\ listing[i][1] \notin Capitals /\ Len(listing[i]) >= 7
                      /\ Read(listing[i]) = Own(im[i])
    OBVIOUS
  <2> DEFINE img == im[i]
             p == ImageRow(img)
  <2>1. img \in DockerImages /\ listing[i] = p
    BY <1>1
  <2> HIDE DEF img, p, listing
  <2>2. /\ Len(p) \in Nat /\ Len(p) >= 8
        /\ p[1] = img.repository /\ p[2] = img.tag /\ p[3] = img.id
        /\ p[Len(p) - 3] = img.size /\ p[Len(p) - 2] = img.shared /\ p[Len(p) - 1] = img.unique
    BY <2>1, ImageRowIs DEF p
  <2>3. img.repository \notin Capitals
    BY <2>1 DEF DockerImages
  <2>4. Len(p) >= 7
    BY <2>2
  <2> QED BY <2>1, <2>2, <2>3, <2>4 DEF img
<1>3. RowsRead(found, listing, 7)
  BY PrintedRead
<1> HIDE DEF listing, found, im, k
<1>4. T = 1..k
  BY <1>1, <1>2 DEF Taken
<1>5. PICK at \in [1..m -> T] :
          /\ \A j \in 1..m : found[j] = listing[at[j]]
          /\ \A j, h \in 1..m : j < h => at[j] < at[h]
          /\ \A i \in T : \E j \in 1..m : at[j] = i
  BY <1>3 DEF RowsRead
<1>6. m \in Nat /\ DOMAIN found = 1..m
  BY <1>3 DEF RowsRead
<1> HIDE DEF T, m, Read, Own
<1>7. at \in [1..m -> 1..k]
  BY <1>4, <1>5
<1>8. m = k
  <2>1. T \in SUBSET Int
    BY <1>4
  <2>2. Cardinality(T) = m
    BY <1>5, <1>6, <2>1, Counted
  <2>3. Cardinality(1..k) = k
    BY <1>1, FS_Interval
  <2> QED BY <1>4, <2>2, <2>3
<1>9. \A j \in 1..k : at[j] = j
  <2> DEFINE id == [j \in 1..k |-> j]
  <2>1. id \in [1..k -> Int] /\ \A j \in 1..k : id[j] = j
    BY <1>1
  <2>2. at \in [1..k -> Int]
    BY <1>1, <1>7, <1>8
  <2>3. \A i, j \in 1..k : i < j => at[i] < at[j]
    BY <1>5, <1>8
  <2>4. \A i, j \in 1..k : i < j => id[i] < id[j]
    BY <2>1
  <2>5. \A i \in 1..k : \E j \in 1..k : id[j] = at[i]
    BY <1>7, <1>8, <2>1
  <2>6. \A j \in 1..k : \E i \in 1..k : at[i] = id[j]
    BY <1>4, <1>5, <1>8, <2>1
  <2> HIDE DEF id
  <2> SUFFICES ASSUME NEW i \in 1..k PROVE at[i] = i
    OBVIOUS
  <2>7. k \in Nat
    BY <1>1
  <2> DEFINE f == at
             n1 == k
             n2 == k
  <2>8. /\ f \in [1..n1 -> Int] /\ id \in [1..n2 -> Int] /\ n1 \in Nat /\ n2 \in Nat
        /\ i \in 1..n1 /\ i \in 1..n2
    BY <2>1, <2>2, <2>7
  <2>9. /\ \A h, j \in 1..n1 : h < j => f[h] < f[j]
        /\ \A h, j \in 1..n2 : h < j => id[h] < id[j]
        /\ \A h \in 1..n1 : \E j \in 1..n2 : id[j] = f[h]
        /\ \A j \in 1..n2 : \E h \in 1..n1 : f[h] = id[j]
    BY <2>3, <2>4, <2>5, <2>6
  <2> HIDE DEF f, n1, n2
  <2>10. f[i] = id[i]
    BY <2>8, <2>9, SameIncreasing
  <2> QED BY <2>1, <2>10 DEF f
<1>10. Images(Printed(inventory)) = [i \in 1..k |-> Read(found[i])]
  BY <1>6, <1>8 DEF Images, Read, found
<1>11. \A i \in 1..k : Read(found[i]) = Own(im[i])
  BY <1>2, <1>5, <1>8, <1>9
<1>12. Images(Printed(inventory)) = [i \in 1..k |-> Own(im[i])]
  BY <1>10, <1>11
<1> QED BY <1>1, <1>12 DEF Own, im, k

\* The sort of the volumes: numbers weighed by their size, then by their place.
LEMMA WeighedApart ==
  ASSUME NEW w \in Nat, NEW a \in 1..w - 1, NEW b \in 1..w - 1, NEW x \in Nat, NEW y \in Nat,
         a # b, a - w * x <= b - w * y
  PROVE  x > y \/ (x = y /\ a < b)
<1>1. CASE x = y
  BY <1>1
<1>2. CASE x < y
  <2> DEFINE d == y - x - 1
  <2>1. d \in Nat /\ y = x + d + 1
    BY <1>2
  <2> HIDE DEF d
  <2>2. w * y = w * x + w * d + w /\ w * d \in Nat /\ w * x \in Nat
    BY <2>1
  <2> DEFINE p == w * x
             q == w * y
             r == w * d
  <2>3. a - p <= b - q /\ q = p + r + w /\ r \in Nat /\ p \in Nat
    BY <2>2
  <2> HIDE DEF p, q, r
  <2>4. FALSE
    BY <2>3
  <2> QED BY <2>4
<1>3. CASE x > y
  BY <1>3
<1> QED BY <1>1, <1>2, <1>3

LEMMA OrderExists ==
  ASSUME NEW m \in Nat, NEW bytes \in [1..m -> Nat]
  PROVE  \E o \in SetToSeqs(1..m) :
            \A i, j \in 1..m : i < j =>
               \/ bytes[o[i]] > bytes[o[j]]
               \/ bytes[o[i]] = bytes[o[j]] /\ o[i] < o[j]
<1> DEFINE w == m + 1
           S == 1..m
           key == [i \in S |-> i - w * bytes[i]]
<1>1. IsFiniteSet(S) /\ Cardinality(S) = m
  BY FS_Interval
<1>2. key \in [S -> Int]
  <2> SUFFICES ASSUME NEW i \in S PROVE i - w * bytes[i] \in Int
    OBVIOUS
  <2>1. i \in Int /\ bytes[i] \in Nat /\ w \in Nat
    OBVIOUS
  <2> DEFINE z == bytes[i]
  <2> HIDE DEF z, w
  <2>2. w * z \in Nat
    BY <2>1 DEF z
  <2> QED BY <2>1, <2>2 DEF z
<1>3. \A i \in S : key[i] = i - w * bytes[i]
  OBVIOUS
<1> HIDE DEF key
<1>4. PICK o \in Bijection(1..Cardinality(S), S) : SortedBy(o, key)
  <2> HIDE DEF S
  <2> QED BY <1>1, <1>2, SortedNumbering
<1>5. o \in [1..m -> S] /\ \A i, j \in 1..m : i # j => o[i] # o[j]
  BY <1>1, <1>4 DEF Bijection, Injection, IsInjective
<1>6. o \in SetToSeqs(1..m)
  BY <1>1, <1>5 DEF SetToSeqs
<1>7. ASSUME NEW i \in 1..m, NEW j \in 1..m, i < j
      PROVE  \/ bytes[o[i]] > bytes[o[j]]
             \/ bytes[o[i]] = bytes[o[j]] /\ o[i] < o[j]
  <2>1. key[o[i]] <= key[o[j]]
    BY <1>4, <1>5, <1>7 DEF SortedBy
  <2> DEFINE a == o[i]
             b == o[j]
             x == bytes[a]
             y == bytes[b]
  <2>2. a \in 1..w - 1 /\ b \in 1..w - 1 /\ w \in Nat
    BY <1>5
  <2>3. x \in Nat /\ y \in Nat
    BY <1>5
  <2>4. a # b
    BY <1>5, <1>7
  <2>5. a - w * x <= b - w * y
    <3>1. key[a] = a - w * x /\ key[b] = b - w * y
      BY <1>3, <1>5
    <3> QED BY <2>1, <3>1
  <2> HIDE DEF a, b, x, y, w
  <2>6. x > y \/ (x = y /\ a < b)
    BY <2>2, <2>3, <2>4, <2>5, WeighedApart
  <2> QED BY <2>6 DEF a, b, x, y
<1> QED BY <1>6, <1>7

\* The volumes: those whose rows are taken, each with its own figures, by
\* descending size.
LEMMA VolumesRight ==
  ASSUME NEW inventory \in Inventories
  PROVE  LET listed == inventory.volumes
             kept   == {i \in DOMAIN listed : listed[i].name \notin Capitals}
             V      == Volumes(Printed(inventory))
         IN  /\ Len(V) = Cardinality(kept)
             /\ ToSet(V) = {listed[i] : i \in kept}
             /\ \A i \in DOMAIN V : V[i].size \in Sizes
             /\ \A i, j \in DOMAIN V : i < j => ParseSize(V[i].size) >= ParseSize(V[j].size)
<1> DEFINE vo == inventory.volumes
           n == Len(vo)
           listing == VolumeRows(inventory)
           found == RowsOf(Printed(inventory), "volumes", 3)
           m == Len(found)
           kept == {i \in DOMAIN vo : vo[i].name \notin Capitals}
           bytes == [i \in 1..m |-> ParseSize(found[i][3])]
           Before(i, j) == \/ bytes[i] > bytes[j]
                           \/ bytes[i] = bytes[j] /\ i < j
           Read(p) == [name |-> p[1], links |-> p[2], size |-> p[3]]
           V == Volumes(Printed(inventory))
<1>1. /\ n \in Nat /\ DOMAIN vo = 1..n /\ Len(listing) = n
      /\ \A i \in 1..n : listing[i] = VolumeRow(vo[i]) /\ vo[i] \in DockerVolumes
  <2>1. n \in Nat /\ Len(listing) = n
        /\ \A i \in 1..n : listing[i] = VolumeRow(vo[i]) /\ vo[i] \in DockerVolumes
    BY RowsPrinted
  <2>2. DOMAIN vo = 1..n
    <3> DEFINE DV == DockerVolumes
    <3> HIDE DEF DV, n
    <3>1. vo \in Seq(DV)
      BY InventoryTyped DEF DV
    <3> QED BY <3>1 DEF n
  <2> QED BY <2>1, <2>2
<1>2. ASSUME NEW v \in DockerVolumes
      PROVE  /\ VolumeRow(v)[1] = v.name /\ VolumeRow(v)[3] = v.size
             /\ Len(VolumeRow(v)) >= 3 /\ Read(VolumeRow(v)) = v /\ v.size \in Sizes
  <2>1. VolumeRow(v) = <<v.name, v.links, v.size>>
    BY DEF VolumeRow
  <2>2. v = [name |-> v.name, links |-> v.links, size |-> v.size] /\ v.size \in Sizes
    BY DEF DockerVolumes
  <2> QED BY <2>1, <2>2
<1>3. RowsRead(found, listing, 3)
  BY PrintedRead
<1> HIDE DEF listing, found, vo, n
<1>4. kept = Taken(listing, 3) /\ kept \in SUBSET Int
  <2>1. \A i \in 1..n : /\ listing[i][1] = vo[i].name /\ Len(listing[i]) >= 3
    BY <1>1, <1>2
  <2> QED BY <1>1, <2>1 DEF Taken
<1> HIDE DEF kept
<1>5. PICK at \in [1..m -> kept] :
          /\ \A j \in 1..m : found[j] = listing[at[j]]
          /\ \A j, h \in 1..m : j < h => at[j] < at[h]
          /\ \A i \in kept : \E j \in 1..m : at[j] = i
  BY <1>3, <1>4 DEF RowsRead
<1>6. m \in Nat /\ DOMAIN found = 1..m
  BY <1>3 DEF RowsRead
<1> HIDE DEF m, Read, V
<1>7. Cardinality(kept) = m
  BY <1>4, <1>5, <1>6, Counted
<1>8. \A j \in 1..m : /\ at[j] \in 1..n /\ vo[at[j]] \in DockerVolumes
                      /\ Read(found[j]) = vo[at[j]] /\ found[j][3] = vo[at[j]].size
  <2> SUFFICES ASSUME NEW j \in 1..m
               PROVE  /\ at[j] \in 1..n /\ vo[at[j]] \in DockerVolumes
                      /\ Read(found[j]) = vo[at[j]] /\ found[j][3] = vo[at[j]].size
    OBVIOUS
  <2>1. at[j] \in 1..n
    BY <1>1, <1>5 DEF kept
  <2>2. found[j] = VolumeRow(vo[at[j]]) /\ vo[at[j]] \in DockerVolumes
    BY <1>1, <1>5, <2>1
  <2> QED BY <1>2, <2>1, <2>2
<1>9. bytes \in [1..m -> Nat]
  <2>1. \A j \in 1..m : found[j][3] \in Sizes
    BY <1>2, <1>8
  <2> QED BY <2>1, SizeRead
<1> DEFINE order == CHOOSE o \in SetToSeqs(1..m) : \A i, j \in DOMAIN o : i < j => Before(o[i], o[j])
<1>10. \A o \in SetToSeqs(1..m) : /\ o \in [1..m -> 1..m] /\ DOMAIN o = 1..m
                                  /\ \A i, j \in 1..m : i # j => o[i] # o[j]
  <2>1. Cardinality(1..m) = m
    BY <1>6, FS_Interval
  <2> QED BY <2>1 DEF SetToSeqs
<1>11. order \in SetToSeqs(1..m) /\ \A i, j \in 1..m : i < j => Before(order[i], order[j])
  <2>1. \E o \in SetToSeqs(1..m) : \A i, j \in 1..m : i < j => Before(o[i], o[j])
    <3> HIDE DEF bytes
    <3>1. \E o \in SetToSeqs(1..m) :
            \A i, j \in 1..m : i < j =>
               \/ bytes[o[i]] > bytes[o[j]]
               \/ bytes[o[i]] = bytes[o[j]] /\ o[i] < o[j]
      BY <1>6, <1>9, OrderExists
    <3> QED BY <3>1
  <2> HIDE DEF Before
  <2>2. \E o \in SetToSeqs(1..m) : \A i, j \in DOMAIN o : i < j => Before(o[i], o[j])
    BY <1>10, <2>1
  <2>3. order \in SetToSeqs(1..m) /\ \A i, j \in DOMAIN order : i < j => Before(order[i], order[j])
    BY <2>2
  <2> HIDE DEF order
  <2> QED BY <1>10, <2>3
<1>12. \A i, j \in 1..m :
          Before(i, j) <=> \/ ParseSize(found[i][3]) > ParseSize(found[j][3])
                           \/ ParseSize(found[i][3]) = ParseSize(found[j][3]) /\ i < j
  OBVIOUS
<1>13. V = [k \in 1..m |-> Read(found[order[k]])]
  <2> DEFINE B(i, j) == \/ ParseSize(found[i][3]) > ParseSize(found[j][3])
                        \/ ParseSize(found[i][3]) = ParseSize(found[j][3]) /\ i < j
             other == CHOOSE o \in SetToSeqs(1..m) : \A i, j \in DOMAIN o : i < j => B(o[i], o[j])
  <2>1. V = [k \in 1..m |-> Read(found[other[k]])]
    BY <1>6 DEF V, Volumes, Read, found
  <2>2. \A o \in SetToSeqs(1..m) :
           (\A i, j \in DOMAIN o : i < j => B(o[i], o[j]))
           <=> (\A i, j \in DOMAIN o : i < j => Before(o[i], o[j]))
    <3>1. \A i, j \in 1..m : B(i, j) <=> Before(i, j)
      BY <1>12
    <3> HIDE DEF B, Before, other, order
    <3>2. \A o \in SetToSeqs(1..m) : \A i, j \in DOMAIN o : B(o[i], o[j]) <=> Before(o[i], o[j])
      BY <1>10, <3>1
    <3> QED BY <3>2
  <2> HIDE DEF B, Before
  <2>3. other = order
    BY <2>2
  <2> HIDE DEF other, order
  <2> QED BY <2>1, <2>3
<1> HIDE DEF order, bytes
<1> DEFINE to == [k \in 1..m |-> at[order[k]]]
<1>14. order \in [1..m -> 1..m] /\ \A i, j \in 1..m : i # j => order[i] # order[j]
  BY <1>10, <1>11
<1>15. \A k \in 1..m : /\ to[k] \in kept /\ to[k] \in 1..n
                       /\ V[k] = vo[to[k]] /\ vo[to[k]] \in DockerVolumes
                       /\ found[order[k]][3] = V[k].size
  BY <1>5, <1>8, <1>13, <1>14
<1>16. DOMAIN V = 1..m /\ Len(V) = m
  BY <1>6, <1>13
<1>17. \A i \in kept : \E k \in 1..m : to[k] = i
  <2> SUFFICES ASSUME NEW i \in kept PROVE \E k \in 1..m : to[k] = i
    OBVIOUS
  <2>1. PICK j \in 1..m : at[j] = i
    BY <1>5
  <2>2. PICK k \in 1..m : order[k] = j
    <3> HIDE DEF to, Before
    <3>1. order \in Injection(1..m, 1..m)
      BY <1>14 DEF Injection, IsInjective
    <3>2. order \in Surjection(1..m, 1..m)
      BY <1>6, <3>1, FS_Interval, FS_Injection
    <3> QED BY <3>2 DEF Surjection
  <2> QED BY <2>1, <2>2
<1>18. ToSet(V) = {vo[i] : i \in kept}
  <2>1. ToSet(V) = {V[k] : k \in 1..m}
    BY <1>16 DEF ToSet
  <2> QED BY <1>15, <1>17, <2>1
<1>19. \A k \in 1..m : V[k].size \in Sizes
  BY <1>2, <1>15
<1>20. ASSUME NEW i \in 1..m, NEW j \in 1..m, i < j
       PROVE  ParseSize(V[i].size) >= ParseSize(V[j].size)
  <2> DEFINE x == ParseSize(V[i].size)
             y == ParseSize(V[j].size)
  <2>1. x > y \/ x = y
    <3>1. Before(order[i], order[j])
      BY <1>11, <1>20
    <3> HIDE DEF Before
    <3>2. order[i] \in 1..m /\ order[j] \in 1..m
      BY <1>14
    <3>3. \/ ParseSize(found[order[i]][3]) > ParseSize(found[order[j]][3])
          \/ ParseSize(found[order[i]][3]) = ParseSize(found[order[j]][3])
      BY <1>12, <3>1, <3>2
    <3> QED BY <1>15, <3>3
  <2>2. x \in Nat /\ y \in Nat
    BY <1>19, SizeRead
  <2> HIDE DEF x, y
  <2>3. x >= y
    BY <2>1, <2>2
  <2> QED BY <2>3 DEF x, y
<1> QED BY <1>7, <1>16, <1>18, <1>19, <1>20 DEF V, kept, vo

\* The summary of no lines has no types, and _collect_docker puts the parts
\* together.
LEMMA DockerRight == ListsFaithful /\ SizesUnderstood
<1>1. ListsFaithful
  <2> SUFFICES ASSUME NEW inventory \in Inventories
               PROVE  LET lists  == CollectDocker(<<>>, Printed(inventory))
                          listed == inventory.volumes
                          kept   == {i \in DOMAIN listed : listed[i].name \notin Capitals}
                      IN  /\ Len(lists.volumes) = Cardinality(kept)
                          /\ ToSet(lists.volumes) = {listed[i] : i \in kept}
                          /\ lists.images = [i \in DOMAIN inventory.images |->
                                 LET img == inventory.images[i]
                                 IN  [repository |-> img.repository, tag |-> img.tag,
                                      id |-> img.id, size |-> img.size,
                                      shared |-> img.shared, unique |-> img.unique]]
    BY DEF ListsFaithful
  <2> DEFINE lists == CollectDocker(<<>>, Printed(inventory))
  <2>1. lists.volumes = Volumes(Printed(inventory)) /\ lists.images = Images(Printed(inventory))
    BY DEF CollectDocker
  <2> HIDE DEF lists
  <2> QED BY <2>1, ImagesRight, VolumesRight DEF lists
<1>2. \A inventory \in Inventories :
        LET volumes == Volumes(Printed(inventory))
        IN  \A i, j \in DOMAIN volumes :
               (i < j /\ Known(volumes[i].size) /\ Known(volumes[j].size)) =>
                   InBytes(volumes[i].size) >= InBytes(volumes[j].size) - 1
  <2> SUFFICES ASSUME NEW inventory \in Inventories
               PROVE  LET volumes == Volumes(Printed(inventory))
                      IN  \A i, j \in DOMAIN volumes :
                             (i < j /\ Known(volumes[i].size) /\ Known(volumes[j].size)) =>
                                 InBytes(volumes[i].size) >= InBytes(volumes[j].size) - 1
    OBVIOUS
  <2> DEFINE V == Volumes(Printed(inventory))
  <2>1. /\ \A i \in DOMAIN V : V[i].size \in Sizes
        /\ \A i, j \in DOMAIN V : i < j => ParseSize(V[i].size) >= ParseSize(V[j].size)
    BY VolumesRight
  <2> HIDE DEF V
  <2>2. \A i \in DOMAIN V : Known(V[i].size) =>
           /\ InBytes(V[i].size) \in Int
           /\ ParseSize(V[i].size) \in {InBytes(V[i].size), InBytes(V[i].size) - 1}
    BY <2>1, SizeRead
  <2>3. \A i, j \in DOMAIN V : (i < j /\ Known(V[i].size) /\ Known(V[j].size)) =>
                                   InBytes(V[i].size) >= InBytes(V[j].size) - 1
    BY <2>1, <2>2
  <2> QED BY <2>3 DEF V
<1>3. ASSUME NEW output \in Summaries, NEW t \in Types
      PROVE  LET lines == {i \in DOMAIN output : output[i] # NoJson /\ output[i].type = t}
                 told  == CollectDocker(output, <<>>).sizes[t]
             IN  (\A i \in lines : Known(output[i].size)) =>
                 \/ lines = {} /\ told = 0
                 \/ \E i \in lines : LET exact == InBytes(output[i].size)
                                     IN  told \in {exact, exact - 1}
  <2>1. output \in Seq(SummaryLines)
    BY DockerAssumption
  <2>2. CollectDocker(output, <<>>).sizes[t] = SizeOf(Summary(output), t)
    BY DEF CollectDocker
  <2> QED BY <2>1, <2>2, TotalsRead
<1> QED BY <1>1, <1>2, <1>3 DEF SizesUnderstood

\* df keeps one row of each device, of the shortest path shown, in the order of
\* the devices, and the images, volumes and totals of docker are its own, in
\* whatever units it prints them and however its tables look
\* (_collect_df, _run_docker_df, _parse_docker_verbose, _parse_size).
THEOREM DiskRightlyReported == Spec => []DiskReported
<1>1. DiskReported
  BY DfRight, DockerRight DEF DiskReported
<1> QED BY <1>1, PTL
===========================================================================
