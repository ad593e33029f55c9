----------------------- MODULE FollowerAlertsProofs -----------------------
(***************************************************************************)
(* FollowerAlerts implements both of the modules it is composed of, for    *)
(* every value of the constants; what is proved of them holds of it.       *)
(***************************************************************************)
EXTENDS FollowerAlerts, FileFollowerProofs

AlertingProofs == INSTANCE AlertSuppressionProofs WITH
    Threads <- Tids, Keys <- {Exc}, Users <- [k \in {Exc} |-> Tids],
    Window <- [k \in {Exc} |-> Suppress], Recipients <- TRUE

\* The constants of the alerting of one app satisfy its assumption.
LEMMA AlertingConstants ==
  Alerting!SuppressionAssumption /\ AlertingProofs!SuppressionAssumption
  BY FollowerAlertsAssumption
     DEF Alerting!SuppressionAssumption, AlertingProofs!SuppressionAssumption

\* FileFollower sees each step of the composition as a step of its own, or as
\* none.
LEMMA FollowerPart == [AlertsNext]_allVars => [Next]_vars
<1> SUFFICES ASSUME [AlertsNext]_allVars PROVE [Next]_vars
  OBVIOUS
<1>1. CASE \E t \in Tids : FollowerStep(t)
  BY <1>1 DEF FollowerStep, Next
<1>2. CASE \E t \in Tids : EnterAlert(t) \/ InsideAlert(t)
  BY <1>2 DEF EnterAlert, InsideAlert
<1>3. CASE \E t \in Tids : LeaveAlert(t) \/ RefusedInsert(t)
  BY <1>3 DEF LeaveAlert, RefusedInsert, Next, Thread
<1>4. CASE Environment
  BY <1>4 DEF Environment, Next
<1>5. CASE Killed
  BY <1>5 DEF Killed, Next
<1>6. CASE UNCHANGED allVars
  BY <1>6 DEF allVars
<1> QED BY <1>1, <1>2, <1>3, <1>4, <1>5, <1>6 DEF AlertsNext

\* So does AlertSuppression; the end of a process that was inside of no call
\* is no step of it.
LEMMA AlertingPart ==
  Alerting!TypeOK /\ [AlertsNext]_allVars => [Alerting!Next]_(Alerting!vars)
<1> SUFFICES ASSUME Alerting!TypeOK, [AlertsNext]_allVars
             PROVE  [Alerting!Next]_(Alerting!vars)
  OBVIOUS
<1> USE DEF Alerting!vars, alertVars
<1>1. CASE \E t \in Tids : FollowerStep(t)
  BY <1>1 DEF FollowerStep
<1>2. CASE \E t \in Tids : EnterAlert(t) \/ InsideAlert(t)
  BY <1>2 DEF EnterAlert, InsideAlert, Alerting!Next, Alerting!Call
<1>3. CASE \E t \in Tids : LeaveAlert(t) \/ RefusedInsert(t)
  BY <1>3 DEF LeaveAlert, RefusedInsert, Alerting!Next, Alerting!Call
<1>4. CASE Environment
  BY <1>4 DEF Environment, Alerting!Next
<1>5. CASE Killed
  <2>1. CASE \E t \in Tids : ~Alerting!At(t, "idle")
    BY <1>5, <2>1 DEF Killed, Alerting!Next, Alerting!Restart
  <2>2. CASE \A t \in Tids : Alerting!At(t, "idle")
    <3>1. \A t \in Tids : call[t] = Alerting!NoCall
      BY <2>2 DEF Alerting!TypeOK, Alerting!Calls, Alerting!At
    <3>2. call' = call
      BY <1>5, <3>1 DEF Killed, Alerting!TypeOK
    <3> QED BY <1>5, <3>2 DEF Killed
  <2> QED BY <2>1, <2>2
<1>6. CASE UNCHANGED allVars
  BY <1>6 DEF allVars
<1> QED BY <1>1, <1>2, <1>3, <1>4, <1>5, <1>6 DEF AlertsNext

\* The composition follows the log as FileFollower says.
THEOREM FollowerRefined == AlertsSpec => FollowerSpec
<1>1. AlertsInit => Init BY DEF AlertsInit
<1> QED BY <1>1, FollowerPart, PTL DEF AlertsSpec, FollowerSpec, Spec

\* The module of the theorems about AlertSuppression has instances of its
\* definitions of its own: they are the same.
LEMMA SameAlerting ==
  /\ \A now : Alerting!Stored(now) = AlertingProofs!Stored(now)
  /\ Alerting!vars = AlertingProofs!vars
  /\ Alerting!TypeOK <=> AlertingProofs!TypeOK
  /\ Alerting!Init <=> AlertingProofs!Init
  /\ Alerting!Next <=> AlertingProofs!Next
<1>0. \A now : Alerting!Stored(now) = AlertingProofs!Stored(now)
  BY Zenon DEF Alerting!Stored, AlertingProofs!Stored
<1>1. Alerting!vars = AlertingProofs!vars
  BY DEF Alerting!vars, AlertingProofs!vars
<1>2. Alerting!TypeOK <=> AlertingProofs!TypeOK
  BY DEF Alerting!TypeOK, AlertingProofs!TypeOK, Alerting!NoCall,
          AlertingProofs!NoCall, Alerting!Calls, AlertingProofs!Calls,
          Alerting!Alerts, AlertingProofs!Alerts, Alerting!Occurrences,
          AlertingProofs!Occurrences
<1>3. Alerting!Init <=> AlertingProofs!Init
  BY DEF Alerting!Init, AlertingProofs!Init, Alerting!NoCall,
          AlertingProofs!NoCall
<1>4. Alerting!Next <=> AlertingProofs!Next
  BY Zenon
  DEF Alerting!Next, AlertingProofs!Next, Alerting!wall,
          AlertingProofs!wall, Alerting!NoCall, AlertingProofs!NoCall,
          Alerting!Tick, AlertingProofs!Tick, Alerting!SetBack,
          AlertingProofs!SetBack, Alerting!SetForward,
          AlertingProofs!SetForward, Alerting!Stored, AlertingProofs!Stored,
          Alerting!Touches, AlertingProofs!Touches,
          Alerting!At, AlertingProofs!At,
          Alerting!Expired, AlertingProofs!Expired, Alerting!Begin,
          AlertingProofs!Begin, Alerting!QuerySuppressed,
          AlertingProofs!QuerySuppressed, Alerting!QueryExpired,
          AlertingProofs!QueryExpired, Alerting!Outcomes,
          AlertingProofs!Outcomes, Alerting!Send, AlertingProofs!Send,
          Alerting!Committable, AlertingProofs!Committable, Alerting!Commit,
          AlertingProofs!Commit, Alerting!DatabaseError,
          AlertingProofs!DatabaseError, Alerting!Restart,
          AlertingProofs!Restart, Alerting!Call, AlertingProofs!Call
<1> QED BY <1>0, <1>1, <1>2, <1>3, <1>4

\* The composition raises alerts as AlertSuppression says: the invariant of
\* AlertSuppression is one of the composition too.
THEOREM AlertingInvariance == AlertsSpec => []AlertingProofs!IInv
<1>1. AlertsInit => AlertingProofs!IInv
  BY AlertingConstants, SameAlerting, AlertingProofs!InitIInv DEF AlertsInit
<1>2. AlertingProofs!IInv /\ [AlertsNext]_allVars => AlertingProofs!IInv'
  <2>1. AlertingProofs!IInv => Alerting!TypeOK
    BY SameAlerting DEF AlertingProofs!IInv
  <2>2. [Alerting!Next]_(Alerting!vars)
        => [AlertingProofs!Next]_(AlertingProofs!vars)
    BY SameAlerting DEF Alerting!vars, AlertingProofs!vars
  <2> QED BY <2>1, <2>2, AlertingPart, AlertingConstants, AlertingProofs!NextIInv
<1> QED BY <1>1, <1>2, PTL DEF AlertsSpec

\* Its steps are steps of AlertSuppression, since its calls are well formed.
THEOREM AlertingRefined == AlertsSpec => AlertingSpec
<1>1. AlertsInit => Alerting!Init BY DEF AlertsInit
<1>2. AlertingProofs!IInv => Alerting!TypeOK
  BY SameAlerting DEF AlertingProofs!IInv
<1> QED BY <1>1, <1>2, AlertingInvariance, AlertingPart, PTL
        DEF AlertsSpec, AlertingSpec, Alerting!Spec

\* So no occurrence is suppressed in it but on account of an alert that was
\* recorded and whose window still runs, also across a rotation.
THEOREM SuppressionSafe == AlertsSpec => []Alerting!SuppressionJustified
<1>1. AlertingProofs!IInv => Alerting!SuppressionJustified
  BY SameAlerting
     DEF AlertingProofs!IInv, AlertingProofs!SuppressionJustified,
         Alerting!SuppressionJustified
<1> QED BY <1>1, AlertingInvariance, PTL

\* So no file has two readers in it, and no line is persisted twice.
THEOREM FollowerSafe == AlertsSpec => [](OneReaderPerFile /\ EventsInFileOrder)
<1>1. Spec => [](OneReaderPerFile /\ EventsInFileOrder)
  BY OneReader, EventsOrdered, PTL
<1> QED BY <1>1, FollowerRefined, PTL DEF FollowerSpec

---------------------------------------------------------------------------
(* What the calls of _maybe_alert have to do with the followers.           *)

Calling(t) == ~Alerting!At(t, "idle")

CallsInAlert == \A t \in Tids : Calling(t) => pc[t] = "alert"

\* A follower that is at its alert has committed the traceback it holds.
AlertBacked ==
    \A t \in Tids : pc[t] = "alert" =>
        \E j \in DOMAIN events :
            /\ events[j].ino = fd[t] /\ events[j].line = pending[t]
            /\ events[j].tb = tb[t]

\* A step leaves a thread that is at its alert as it is, or lets it go.
LEMMA AlertingThreadStays ==
  ASSUME TypeOK, Next, NEW u \in Tids, pc[u] = "alert"
  PROVE  \/ pc'[u] = "alert" /\ fd'[u] = fd[u] /\ pending'[u] = pending[u]
                             /\ tb'[u] = tb[u]
         \/ Thread(u) \/ Restart
<1>1. CASE \E t \in Tids : Thread(t)
  <2>1. PICK t \in Tids : Thread(t) BY <1>1
  <2>2. CASE u # t BY <2>1, <2>2, ThreadFrame
  <2> QED BY <2>1, <2>2
<1>2. CASE FileStep \/ RedisRestart
  BY <1>2 DEF FileStep, WriteLine, MoveAway, Create, Reopen, RedisRestart, threadVars
<1>3. CASE Manager
  BY <1>3 DEF Manager, ScanExists, ScanLook, ScanRotated, ScanSame, ScanRecheck,
     ScanStart, threadVars, recordVars, Live, TypeOK
<1> QED BY <1>1, <1>2, <1>3 DEF Next

\* Only a commit brings a thread to its alert.
LEMMA AlertIsEntered ==
  ASSUME TypeOK, Next, NEW u \in Tids, pc'[u] = "alert", pc[u] # "alert"
  PROVE  CommitApp(u) /\ UNCHANGED <<fd, pending, tb>>
<1> USE DEF Goto, TypeOK
<1>1. CASE \E t \in Tids : Thread(t)
  <2>1. PICK t \in Tids : Thread(t) BY <1>1
  <2>2. u = t BY <2>1, ThreadFrame
  <2>3. CASE CommitApp(u)
    <3>1. ~Resume(u) BY DEF Resume
    <3> QED BY <2>3, <3>1 DEF CommitApp, recordVars
  <2>4. CASE ~CommitApp(u)
    BY <2>1, <2>2, <2>4 DEF Thread, Open, Seek, CheckStop, ReadNothing,
       ReadBadStamp, ReadContinuation, ReadNextRecord, ReadHeader, ReadSingle,
       ReadSkipped, CommitAppFails, AlertReturns, Persist, PersistFails, Resume
  <2> QED BY <2>3, <2>4
<1>2. CASE FileStep \/ RedisRestart
  BY <1>2 DEF FileStep, WriteLine, MoveAway, Create, Reopen, RedisRestart, threadVars
<1>3. CASE Manager \/ Restart
  BY <1>3 DEF Manager, ScanExists, ScanLook, ScanRotated, ScanSame, ScanRecheck,
     ScanStart, Restart, threadVars
<1> QED BY <1>1, <1>2, <1>3 DEF Next

\* A thread that acts at its alert leaves it.
LEMMA AlertIsLeft ==
  ASSUME TypeOK, NEW u \in Tids, pc[u] = "alert", Thread(u) \/ Restart
  PROVE  pc'[u] # "alert"
  BY DEF Thread, Open, Seek, CheckStop, ReadNothing, ReadBadStamp,
     ReadContinuation, ReadNextRecord, ReadHeader, ReadSingle, ReadSkipped,
     ReadLine, CommitApp, CommitAppFails, AlertReturns, Persist, PersistFails,
     Resume, Goto, Restart, TypeOK

\* The rows so far stay where they are, and the new one is the last.
LEMMA RowAppended ==
  ASSUME TypeOK, NEW e \in [ino : {0} \cup Inodes, line : Nat, tb : Seq(Lines)],
         events' = Append(events, e)
  PROVE  /\ Len(events) + 1 \in DOMAIN events' /\ events'[Len(events) + 1] = e
         /\ \A j \in DOMAIN events : j \in DOMAIN events' /\ events'[j] = events[j]
<1> DEFINE R == [ino : {0} \cup Inodes, line : Nat, tb : Seq(Lines)]
<1>1. Event \subseteq R BY DEF Event, Lines
<1>2. events \in Seq(Event) BY DEF TypeOK
<1> HIDE DEF R
<1>3. events \in Seq(R)
  <2>1. \A j \in 1..Len(events) : events[j] \in R BY <1>1, <1>2, ElementOfSeq
  <2>2. events = [j \in 1..Len(events) |-> events[j]] BY <1>2, LenProperties
  <2>3. Len(events) \in Nat BY <1>2, LenProperties
  <2> QED BY <2>1, <2>2, <2>3, IsASeq
<1>4. e \in R BY DEF R
<1>5. /\ Len(events) \in Nat /\ DOMAIN events = 1..Len(events)
      /\ events' \in Seq(R) /\ Len(events') = Len(events) + 1
      /\ \A j \in 1..Len(events) : events'[j] = events[j]
      /\ events'[Len(events) + 1] = e
  BY <1>3, <1>4, AppendProperties, LenProperties
<1>6. DOMAIN events' = 1..Len(events') BY <1>5, LenProperties
<1> QED BY <1>5, <1>6

LEMMA AlertsStayBacked ==
  ASSUME TypeOK, AlertBacked, Next
  PROVE  AlertBacked'
<1> SUFFICES ASSUME NEW t \in Tids, pc'[t] = "alert"
             PROVE  \E j \in DOMAIN events' :
                        /\ events'[j].ino = fd'[t]
                        /\ events'[j].line = pending'[t]
                        /\ events'[j].tb = tb'[t]
  BY DEF AlertBacked
<1>2. CASE pc[t] = "alert"
  <2>1. fd'[t] = fd[t] /\ pending'[t] = pending[t] /\ tb'[t] = tb[t]
    BY <1>2, AlertingThreadStays, AlertIsLeft
  <2>2. PICK j \in DOMAIN events :
            events[j].ino = fd[t] /\ events[j].line = pending[t] /\ events[j].tb = tb[t]
    BY <1>2 DEF AlertBacked
  <2>3. CASE events' = events BY <2>1, <2>2, <2>3
  <2>4. CASE events' # events
    <3>1. PICK e \in [ino : {0} \cup Inodes, line : Nat, tb : Seq(Lines)] :
              events' = Append(events, e)
      BY <2>4, EventsGrow
    <3> QED BY <2>1, <2>2, <3>1, RowAppended
  <2> QED BY <2>3, <2>4
<1>3. CASE pc[t] # "alert"
  <2> DEFINE e == [ino |-> fd[t], line |-> pending[t], tb |-> tb[t]]
  <2>1. events' = Append(events, e) /\ UNCHANGED <<fd, pending, tb>>
    BY <1>3, AlertIsEntered DEF CommitApp
  <2>2. e \in [ino : {0} \cup Inodes, line : Nat, tb : Seq(Lines)] BY ThreadType
  <2> QED BY <2>1, <2>2, RowAppended
<1> QED BY <1>2, <1>3

\* A thread is in _maybe_alert only while it is at its alert.
LEMMA CallsStayInAlert ==
  ASSUME TypeOK, Alerting!TypeOK, CallsInAlert, AlertsNext, NEW u \in Tids,
         ~Alerting!At(u, "idle")'
  PROVE  pc[u] = "alert" /\ pc'[u] = "alert" /\ fd'[u] = fd[u]
<1> USE DEF Alerting!At
<1>1. call \in [Tids -> {Alerting!NoCall} \cup Alerting!Calls]
  BY DEF Alerting!TypeOK
<1>2. CASE \E t \in Tids : FollowerStep(t)
  <2>1. PICK t \in Tids : FollowerStep(t) BY <1>2
  <2>2. pc[u] = "alert" /\ u # t
    BY <2>1 DEF FollowerStep, alertVars, CallsInAlert, Calling
  <2> QED BY <2>1, <2>2, ThreadFrame DEF FollowerStep
<1>3. CASE \E t \in Tids : EnterAlert(t) \/ InsideAlert(t)
  <2>1. PICK t \in Tids : EnterAlert(t) \/ InsideAlert(t) BY <1>3
  <2>2. UNCHANGED <<pc, fd>>
    BY <2>1 DEF EnterAlert, InsideAlert, vars, threadVars
  <2>3. pc[u] = "alert"
    BY <1>1, <2>1 DEF EnterAlert, InsideAlert, Alerting!Begin,
       Alerting!QueryExpired, Alerting!Send, CallsInAlert, Calling
  <2> QED BY <2>2, <2>3
<1>4. CASE \E t \in Tids : LeaveAlert(t) \/ RefusedInsert(t)
  <2>1. PICK t \in Tids : LeaveAlert(t) \/ RefusedInsert(t) BY <1>4
  <2>2. Thread(t) BY <2>1 DEF LeaveAlert, RefusedInsert, Thread
  <2>3. call' = [call EXCEPT ![t] = Alerting!NoCall]
    BY <2>1 DEF LeaveAlert, RefusedInsert, Alerting!QuerySuppressed,
       Alerting!Commit, Alerting!DatabaseError
  <2>4. u # t BY <1>1, <2>3 DEF Alerting!NoCall
  <2>5. pc[u] = "alert" BY <1>1, <2>3, <2>4 DEF CallsInAlert, Calling
  <2> QED BY <2>2, <2>4, <2>5, ThreadFrame
<1>5. CASE Environment
  <2>1. pc[u] = "alert" /\ (FileStep \/ Manager \/ RedisRestart \/ UNCHANGED vars)
    BY <1>5 DEF Environment, alertVars, Alerting!Tick, Alerting!SetBack,
       Alerting!SetForward, CallsInAlert, Calling
  <2>2. CASE FileStep \/ RedisRestart
    BY <2>1, <2>2 DEF FileStep, WriteLine, MoveAway, Create, Reopen, RedisRestart,
       threadVars
  <2>3. CASE Manager
    BY <2>1, <2>3 DEF Manager, ScanExists, ScanLook, ScanRotated, ScanSame,
       ScanRecheck, ScanStart, threadVars, recordVars, Live, TypeOK
  <2>4. CASE UNCHANGED vars BY <2>1, <2>4 DEF vars, threadVars
  <2> QED BY <2>1, <2>2, <2>3, <2>4
<1>6. CASE Killed BY <1>6 DEF Killed, Alerting!NoCall
<1> QED BY <1>2, <1>3, <1>4, <1>5, <1>6 DEF AlertsNext

\* What the theorems below rest on: both parts keep their invariants, and
\* calls are made at alerts that are backed by a row.
CallsInv ==
    IInv /\ AlertingProofs!IInv /\ Alerting!TypeOK /\ CallsInAlert /\ AlertBacked

LEMMA CallsInvariance == AlertsSpec => []CallsInv
<1>1. Spec => []IInv BY Invariance
<1>2. AlertsSpec => []IInv BY <1>1, FollowerRefined, PTL DEF FollowerSpec
<1>3. AlertingProofs!IInv => Alerting!TypeOK
  BY SameAlerting DEF AlertingProofs!IInv
<1>4. IInv => TypeOK BY DEF IInv
<1>5. AlertsInit => CallsInAlert /\ AlertBacked
  BY DEF AlertsInit, Init, Alerting!Init, Alerting!NoCall, Alerting!At,
     CallsInAlert, Calling, AlertBacked
<1>6. TypeOK /\ Alerting!TypeOK /\ CallsInAlert /\ AlertBacked /\ [AlertsNext]_allVars
      => (CallsInAlert /\ AlertBacked)'
  <2> SUFFICES ASSUME TypeOK, Alerting!TypeOK, CallsInAlert, AlertBacked,
                      [AlertsNext]_allVars
               PROVE  CallsInAlert' /\ AlertBacked'
    OBVIOUS
  <2>1. CallsInAlert'
    <3>1. CASE AlertsNext BY <3>1, CallsStayInAlert DEF CallsInAlert, Calling
    <3>2. CASE UNCHANGED allVars
      BY <3>2 DEF allVars, vars, threadVars, alertVars, CallsInAlert, Calling, Alerting!At
    <3> QED BY <3>1, <3>2
  <2>2. AlertBacked'
    <3>1. CASE Next BY <3>1, AlertsStayBacked
    <3>2. CASE UNCHANGED vars
      BY <3>2 DEF vars, threadVars, AlertBacked
    <3> QED BY <3>1, <3>2, FollowerPart
  <2> QED BY <2>1, <2>2
<1> QED BY <1>2, <1>3, <1>4, <1>5, <1>6, AlertingInvariance, PTL DEF AlertsSpec, CallsInv

\* No alert is raised but on account of a record that is committed, by the
\* follower that committed it, while no other one has its file open.
THEOREM CallsBacked == AlertsSpec => []CallsHaveEvents
<1>1. CallsInv => CallsHaveEvents
  <2> SUFFICES ASSUME CallsInv, NEW t \in Tids, call[t] # Alerting!NoCall
               PROVE  /\ pc[t] = "alert"
                      /\ \A u \in Tids \ {t} : Live(u) => fd[u] # fd[t]
                      /\ \E j \in DOMAIN events :
                            /\ events[j].ino = fd[t] /\ events[j].line = pending[t]
                            /\ events[j].tb = tb[t]
    BY DEF CallsHaveEvents
  <2>1. pc[t] = "alert"
    BY DEF CallsInv, CallsInAlert, Calling, Alerting!At, Alerting!TypeOK,
       Alerting!Calls, Alerting!NoCall
  <2>2. Live(t) /\ fd[t] # 0
    BY <2>1 DEF CallsInv, IInv, Control, FdSet, Live, Inodes
  <2> QED BY <2>1, <2>2 DEF CallsInv, AlertBacked, IInv, Control, OneReaderPerFile
<1> QED BY <1>1, CallsInvariance, PTL

---------------------------------------------------------------------------
(* Repeated alerts.  As long as all alerts are of one file, its follower's *)
(* calls are the only ones to write the row, one after the other.          *)

\* The alerts so far are of files; an alert that waits for its commit is of
\* the file of its thread, and later ones are of other files.
SourcesKnown ==
    /\ source \in Seq(Inodes) /\ Len(source) = Len(alerts)
    /\ \A t \in Tids : Alerting!At(t, "commit") =>
        /\ call[t].alert \in DOMAIN source
        /\ source[call[t].alert] = fd[t]
        /\ alerts[call[t].alert].at = call[t].now
        /\ \A j \in DOMAIN source : j > call[t].alert => source[j] # fd[t]

\* The row a thread has read is still in the table if no other file than its
\* own has raised alerts.
ReadIsCurrent ==
    \A t \in Tids : Alerting!At(t, "send") =>
        /\ Alerting!Expired(Exc, call[t].now, call[t].row)
        /\ (\A j \in DOMAIN source : source[j] = fd[t]) => call[t].row = table[Exc]

OneSource == \A i, j \in DOMAIN source : source[i] = source[j]

\* As long as one file only has raised alerts, no recorded one is newer than
\* the row.
RowNotOlder ==
    OneSource => \A i \in DOMAIN alerts : alerts[i].recorded =>
        table[Exc] # NoRow /\ Alerting!Stored(alerts[i].at) <= table[Exc]

RepeatInv == SourcesKnown /\ ReadIsCurrent /\ RowNotOlder /\ RepeatsNeedTwoFiles

\* The time stored of a reading is a number, and not before that of another
\* which it is after.
LEMMA StoredTimes ==
  ASSUME NEW now \in Int
  PROVE  /\ Alerting!Stored(now) \in Int
         /\ \A before \in Int : now > Alerting!Stored(before)
                => Alerting!Stored(before) <= Alerting!Stored(now)
<1>1. AlertingProofs!Stored(now) \in Int
  BY AlertingConstants, AlertingProofs!StoredNear
<1>2. \A before \in Int : now > AlertingProofs!Stored(before)
                => AlertingProofs!Stored(before) <= AlertingProofs!Stored(now)
  BY AlertingConstants, AlertingProofs!StoredOrder
<1> QED BY <1>1, <1>2, SameAlerting

\* The types of the table, of a call that is under way and of the alerts.
LEMMA AlertingTypes ==
  ASSUME Alerting!TypeOK
  PROVE  /\ table \in [{Exc} -> Int \cup {NoRow}]
         /\ table[Exc] \in Int \cup {NoRow}
         /\ call \in [Tids -> {Alerting!NoCall} \cup Alerting!Calls]
         /\ \A t \in Tids : Calling(t) => /\ call[t] \in Alerting!Calls
                                         /\ call[t].key = Exc
                                         /\ call[t].now \in Int
                                         /\ call[t].row \in Int \cup {NoRow}
         /\ alerts \in Seq(Alerting!Alerts) /\ Len(alerts) \in Nat
         /\ DOMAIN alerts = 1..Len(alerts)
         /\ \A i \in DOMAIN alerts : alerts[i] \in Alerting!Alerts
                                     /\ alerts[i].at \in Int
<1>1. /\ table \in [{Exc} -> Int \cup {NoRow}]
      /\ call \in [Tids -> {Alerting!NoCall} \cup Alerting!Calls]
      /\ alerts \in Seq(Alerting!Alerts)
  BY DEF Alerting!TypeOK
<1>2. Len(alerts) \in Nat /\ DOMAIN alerts = 1..Len(alerts)
  BY <1>1, LenProperties
<1>3. \A i \in DOMAIN alerts : alerts[i] \in Alerting!Alerts
  BY <1>1, <1>2, ElementOfSeq
<1>4. \A i \in DOMAIN alerts : alerts[i].at \in Int
  BY <1>3 DEF Alerting!Alerts
<1>5. \A t \in Tids : Calling(t) => /\ call[t] \in Alerting!Calls
                                   /\ call[t].key = Exc
                                   /\ call[t].now \in Int
                                   /\ call[t].row \in Int \cup {NoRow}
  BY <1>1 DEF Calling, Alerting!At, Alerting!NoCall, Alerting!Calls
<1> QED BY <1>1, <1>2, <1>3, <1>4, <1>5

\* Two threads inside of _maybe_alert are followers of two files.
LEMMA CallersApart ==
  ASSUME CallsInv, NEW t \in Tids, NEW u \in Tids, t # u, Calling(t), Calling(u)
  PROVE  fd[t] # fd[u] /\ fd[t] \in Inodes
<1>1. Live(t) /\ Live(u) /\ pc[t] # "open"
  BY DEF CallsInv, CallsInAlert, Live
<1>2. fd[t] \in Inodes BY <1>1 DEF CallsInv, IInv, Control, FdSet
<1>3. fd[t] # 0 BY <1>2 DEF Inodes
<1> QED BY <1>1, <1>2, <1>3 DEF CallsInv, IInv, Control, OneReaderPerFile

\* A step that sends nothing and writes no row keeps the invariant, since a
\* call that goes on to send has just read the row.
LEMMA QuietStepKeepsRepeats ==
  ASSUME CallsInv, RepeatInv, AlertsNext, UNCHANGED <<table, alerts, source>>,
         \A t \in Tids : \/ call'[t] = call[t]
                         \/ call'[t].pc \in {"idle", "query"}
                         \/ Alerting!QueryExpired(t)
  PROVE  RepeatInv'
<1> USE DEF Alerting!At
<1>1. TypeOK /\ Alerting!TypeOK /\ CallsInAlert BY DEF CallsInv, IInv
<1>2. ASSUME NEW t \in Tids, call'[t].pc # "idle" PROVE fd'[t] = fd[t]
  BY <1>1, <1>2, CallsStayInAlert
<1>3. SourcesKnown'
  <2>1. ASSUME NEW t \in Tids, call'[t].pc = "commit"
        PROVE  call'[t] = call[t] /\ fd'[t] = fd[t]
    <3>1. ~Alerting!QueryExpired(t)
      BY <1>1, <2>1, AlertingTypes DEF Alerting!QueryExpired
    <3> QED BY <1>2, <2>1, <3>1
  <2> QED BY <2>1 DEF RepeatInv, SourcesKnown
<1>4. ReadIsCurrent'
  <2> SUFFICES ASSUME NEW t \in Tids, call'[t].pc = "send"
               PROVE  /\ Alerting!Expired(Exc, call'[t].now, call'[t].row)
                      /\ (\A j \in DOMAIN source : source[j] = fd[t])
                         => call'[t].row = table[Exc]
    BY <1>2 DEF ReadIsCurrent, Alerting!Expired
  <2>1. CASE call'[t] = call[t]
    BY <2>1 DEF RepeatInv, ReadIsCurrent
  <2>2. CASE Alerting!QueryExpired(t)
    <3>1. Calling(t) /\ call[t].key = Exc
      BY <1>1, <2>2, AlertingTypes DEF Alerting!QueryExpired, Calling
    <3> QED BY <1>1, <2>2, <3>1, AlertingTypes DEF Alerting!QueryExpired
  <2> QED BY <2>1, <2>2
<1>5. RowNotOlder' /\ RepeatsNeedTwoFiles'
  BY DEF RepeatInv, RowNotOlder, OneSource, RepeatsNeedTwoFiles
<1> QED BY <1>3, <1>4, <1>5 DEF RepeatInv

\* A follower that sends has read the row after the last alert of its file was
\* recorded, if no other file has raised any.
LEMMA SendKeepsRepeats ==
  ASSUME FollowerAlertsAssumption, CallsInv, RepeatInv, NEW t \in Tids,
         Alerting!Send(t), source' = Append(source, fd[t]), UNCHANGED vars
  PROVE  RepeatInv'
<1> USE DEF Alerting!At
<1> DEFINE n == Len(alerts) + 1
<1>1. /\ Alerting!TypeOK /\ Calling(t) /\ call[t].pc = "send" /\ fd' = fd
      /\ table' = table
  BY DEF CallsInv, Alerting!Send, Calling, vars, threadVars
<1>2. fd[t] \in Inodes
  <2>1. pc[t] = "alert" BY <1>1 DEF CallsInv, CallsInAlert
  <2> QED BY <2>1 DEF CallsInv, IInv, Control, FdSet, Live
<1>3. PICK a \in Alerting!Alerts :
          a.at = call[t].now /\ a.recorded = FALSE /\ alerts' = Append(alerts, a)
  <2>1. PICK o \in Alerting!Outcomes :
            alerts' = Append(alerts, [key |-> call[t].key, at |-> call[t].now,
                real |-> call[t].real, outcome |-> o, recorded |-> FALSE])
    BY DEF Alerting!Send
  <2>2. o \in {"mailed", "lost", "skipped"} BY <2>1 DEF Alerting!Outcomes
  <2> QED BY <1>1, <2>1, <2>2, AlertingTypes DEF Alerting!Alerts, Alerting!Calls
<1>4. /\ alerts' \in Seq(Alerting!Alerts) /\ Len(alerts') = n /\ DOMAIN alerts' = 1..n
      /\ alerts'[n] = a /\ \A i \in DOMAIN alerts : alerts'[i] = alerts[i]
      /\ DOMAIN alerts = 1..Len(alerts) /\ Len(alerts) \in Nat
  BY <1>1, <1>3, AlertingTypes, AppendProperties, LenProperties
<1>5. /\ source' \in Seq(Inodes) /\ Len(source') = n /\ DOMAIN source' = 1..n
      /\ source'[n] = fd[t] /\ \A i \in DOMAIN source : source'[i] = source[i]
      /\ DOMAIN source = 1..Len(alerts)
  BY <1>2, AppendProperties, LenProperties DEF RepeatInv, SourcesKnown
<1>6. /\ call'[t].pc = "commit" /\ call'[t].alert = n /\ call'[t].now = call[t].now
      /\ \A u \in Tids \ {t} : call'[u] = call[u]
  BY <1>1, AlertingTypes DEF Alerting!Send
<1>7. SourcesKnown'
  <2>1. ASSUME NEW u \in Tids, call'[u].pc = "commit"
        PROVE  /\ call'[u].alert \in DOMAIN source'
               /\ source'[call'[u].alert] = fd'[u]
               /\ alerts'[call'[u].alert].at = call'[u].now
               /\ \A j \in DOMAIN source' : j > call'[u].alert => source'[j] # fd'[u]
    <3>1. CASE u = t BY <1>1, <1>3, <1>4, <1>5, <1>6, <3>1
    <3>2. CASE u # t
      <4>1. call'[u] = call[u] /\ Calling(u) BY <1>6, <2>1, <3>2 DEF Calling
      <4>2. fd[u] # fd[t] BY <1>1, <3>2, <4>1, CallersApart
      <4>3. /\ call[u].alert \in DOMAIN source
            /\ source[call[u].alert] = fd[u]
            /\ alerts[call[u].alert].at = call[u].now
            /\ \A j \in DOMAIN source : j > call[u].alert => source[j] # fd[u]
        BY <2>1, <4>1 DEF RepeatInv, SourcesKnown
      <4> QED BY <1>1, <1>4, <1>5, <4>1, <4>2, <4>3
    <3> QED BY <3>1, <3>2
  <2> QED BY <1>4, <1>5, <2>1 DEF SourcesKnown
<1>8. ReadIsCurrent'
  <2> SUFFICES ASSUME NEW u \in Tids, call'[u].pc = "send"
               PROVE  /\ Alerting!Expired(Exc, call[u].now, call[u].row)
                      /\ call'[u] = call[u]
                      /\ \E j \in DOMAIN source' : source'[j] # fd'[u]
    BY <1>1 DEF ReadIsCurrent, Alerting!Expired
  <2>1. u # t /\ call'[u] = call[u] /\ Calling(u) BY <1>6 DEF Calling
  <2>2. fd[u] # fd[t] BY <1>1, <2>1, CallersApart
  <2> QED BY <1>1, <1>4, <1>5, <2>1, <2>2 DEF RepeatInv, ReadIsCurrent
<1>9. RowNotOlder'
  <2> SUFFICES ASSUME OneSource', NEW i \in DOMAIN alerts', alerts'[i].recorded
               PROVE  table[Exc] # NoRow /\ Alerting!Stored(alerts'[i].at) <= table[Exc]
    BY <1>1 DEF RowNotOlder
  <2>1. OneSource BY <1>4, <1>5 DEF OneSource
  <2>2. i \in DOMAIN alerts /\ alerts'[i] = alerts[i] BY <1>3, <1>4
  <2> QED BY <2>1, <2>2 DEF RepeatInv, RowNotOlder
<1>10. RepeatsNeedTwoFiles'
  <2> SUFFICES ASSUME NEW i \in 1..n, NEW j \in 1..n, i < j, alerts'[i].recorded,
                      alerts'[j].at - Alerting!Stored(alerts'[i].at) <= Suppress
               PROVE  \E k \in 1..j : source'[k] # source'[i]
    BY <1>4 DEF RepeatsNeedTwoFiles
  <2>1. i \in DOMAIN alerts /\ alerts'[i] = alerts[i] BY <1>4
  <2>2. CASE j # n
    <3>1. j \in DOMAIN alerts /\ alerts'[j] = alerts[j] BY <1>4, <2>2
    <3>2. \E k \in 1..j : source[k] # source[i]
      BY <2>1, <3>1 DEF RepeatInv, RepeatsNeedTwoFiles
    <3> QED BY <1>4, <1>5, <2>1, <3>1, <3>2
  <2>3. CASE j = n
    <3> SUFFICES ASSUME \A k \in 1..n : source'[k] = source'[i] PROVE FALSE
      BY <2>3
    <3>1. \A k \in DOMAIN source : source[k] = fd[t] BY <1>4, <1>5
    <3>2. /\ Alerting!Expired(Exc, call[t].now, call[t].row)
          /\ call[t].row = table[Exc]
      BY <1>1, <3>1 DEF RepeatInv, ReadIsCurrent
    <3>3. table[Exc] # NoRow /\ Alerting!Stored(alerts[i].at) <= table[Exc]
      BY <2>1, <3>1 DEF RepeatInv, RowNotOlder, OneSource
    <3>4. call[t].now - table[Exc] > Suppress
      BY <3>2, <3>3 DEF Alerting!Expired
    <3> DEFINE s == Alerting!Stored(alerts[i].at)
    <3>5. call[t].now - s <= Suppress BY <1>3, <1>4, <2>1, <2>3
    <3>6. /\ call[t].now \in Int /\ table[Exc] \in Int /\ s \in Int
          /\ Suppress \in Int
      <4>1. alerts[i].at \in Int BY <1>1, <2>1, AlertingTypes
      <4>2. s \in Int BY <4>1, StoredTimes
      <4> QED BY <1>1, <3>3, <4>2, AlertingTypes DEF FollowerAlertsAssumption
    <3>7. s <= table[Exc] BY <3>3
    <3> HIDE DEF s
    <3> QED BY <3>4, <3>5, <3>6, <3>7
  <2> QED BY <2>2, <2>3
<1> QED BY <1>7, <1>8, <1>9, <1>10 DEF RepeatInv

\* An alert whose row is committed changes in its mark only.
LEMMA RecordedAlertType ==
  ASSUME NEW a \in Alerting!Alerts
  PROVE  /\ [a EXCEPT !.recorded = TRUE] \in Alerting!Alerts
         /\ [a EXCEPT !.recorded = TRUE].at = a.at
  BY DEF Alerting!Alerts

\* A follower that commits its row makes it the newest, if no other file has
\* raised alerts.
LEMMA CommitKeepsRepeats ==
  ASSUME FollowerAlertsAssumption, CallsInv, RepeatInv, NEW t \in Tids,
         Alerting!Commit(t), AlertsNext, UNCHANGED source
  PROVE  RepeatInv'
<1> USE DEF Alerting!At
<1> DEFINE n == call[t].alert
           a == [alerts[n] EXCEPT !.recorded = TRUE]
           stored == Alerting!Stored(call[t].now)
<1>1. /\ TypeOK /\ Alerting!TypeOK /\ CallsInAlert
      /\ Calling(t) /\ call[t].pc = "commit" /\ call[t].key = Exc
  BY AlertingTypes DEF CallsInv, IInv, Alerting!Commit, Calling
<1>2. /\ n \in DOMAIN source /\ source[n] = fd[t] /\ alerts[n].at = call[t].now
      /\ \A j \in DOMAIN source : j > n => source[j] # fd[t]
      /\ DOMAIN source = DOMAIN alerts
  BY <1>1, LenProperties, AlertingTypes DEF RepeatInv, SourcesKnown
<1>3. /\ table' = [table EXCEPT ![Exc] = stored] /\ table'[Exc] = stored
      /\ alerts' = [alerts EXCEPT ![n] = a]
      /\ call' = [call EXCEPT ![t] = Alerting!NoCall]
  BY <1>1, AlertingTypes DEF Alerting!Commit
<1>4. a.at = call[t].now /\ a \in Alerting!Alerts
  <2>1. alerts[n] \in Alerting!Alerts BY <1>1, <1>2, AlertingTypes
  <2> QED BY <1>2, <2>1, RecordedAlertType
<1>5. /\ DOMAIN alerts' = DOMAIN alerts /\ Len(alerts') = Len(alerts)
      /\ \A i \in DOMAIN alerts : /\ alerts'[i].at = alerts[i].at
                                  /\ i # n => alerts'[i] = alerts[i]
  BY <1>1, <1>2, <1>3, <1>4, AlertingTypes, ExceptSeq, LenProperties
<1>6. ASSUME NEW u \in Tids, call'[u].pc # "idle"
      PROVE  u # t /\ call'[u] = call[u] /\ fd'[u] = fd[u] /\ fd[u] # fd[t]
  <2>1. u # t /\ call'[u] = call[u] BY <1>1, <1>3, <1>6, AlertingTypes DEF Alerting!NoCall
  <2>2. Calling(u) BY <1>6, <2>1 DEF Calling
  <2>3. fd'[u] = fd[u] BY <1>1, <1>6, CallsStayInAlert
  <2> QED BY <1>1, <2>1, <2>2, <2>3, CallersApart
<1>7. SourcesKnown'
  BY <1>2, <1>5, <1>6 DEF RepeatInv, SourcesKnown
<1>8. ReadIsCurrent'
  <2> SUFFICES ASSUME NEW u \in Tids, call'[u].pc = "send"
               PROVE  /\ Alerting!Expired(Exc, call[u].now, call[u].row)
                      /\ call'[u] = call[u]
                      /\ \E j \in DOMAIN source : source[j] # fd'[u]
    BY DEF ReadIsCurrent, Alerting!Expired
  <2>1. call'[u] = call[u] /\ fd'[u] = fd[u] /\ fd[u] # fd[t] BY <1>6
  <2> QED BY <1>2, <2>1 DEF RepeatInv, ReadIsCurrent
<1>9. RowNotOlder'
  <2> SUFFICES ASSUME OneSource, NEW i \in DOMAIN alerts, alerts'[i].recorded
               PROVE  stored # NoRow /\ Alerting!Stored(alerts[i].at) <= stored
    BY <1>3, <1>5 DEF RowNotOlder, OneSource
  <2>1. /\ call[t].now \in Int /\ alerts[i].at \in Int /\ Suppress \in Nat
        /\ NoRow \notin Int /\ stored \in Int
        /\ Alerting!Stored(alerts[i].at) \in Int
    BY <1>1, AlertingTypes, StoredTimes DEF FollowerAlertsAssumption
  <2>2. CASE i = n BY <1>2, <2>1, <2>2
  <2>3. CASE i # n
    <3>1. alerts[i].recorded /\ i < n
      <4>1. ~(i > n) BY <1>2 DEF OneSource
      <4>2. i \in Nat /\ n \in Nat BY <1>1, <1>2, AlertingTypes
      <4> QED BY <1>5, <2>3, <4>1, <4>2
    <3>2. ~(call[t].now - Alerting!Stored(alerts[i].at) <= Suppress)
      <4>1. SUFFICES ASSUME call[t].now - Alerting!Stored(alerts[i].at) <= Suppress
                     PROVE  FALSE
        OBVIOUS
      <4>2. PICK k \in 1..n : source[k] # source[i]
        BY <1>2, <3>1, <4>1 DEF RepeatInv, RepeatsNeedTwoFiles
      <4>3. k \in DOMAIN source BY <1>1, <1>2, <4>2, AlertingTypes
      <4> QED BY <1>2, <4>2, <4>3 DEF OneSource
    <3>3. call[t].now > Alerting!Stored(alerts[i].at)
      BY <2>1, <3>2
    <3> QED BY <2>1, <3>3, StoredTimes
  <2> QED BY <2>2, <2>3
<1>10. RepeatsNeedTwoFiles'
  <2> SUFFICES ASSUME NEW i \in DOMAIN alerts, NEW j \in DOMAIN alerts, i < j,
                      alerts'[i].recorded,
                      alerts[j].at - Alerting!Stored(alerts[i].at) <= Suppress
               PROVE  \E k \in 1..j : source[k] # source[i]
    BY <1>5 DEF RepeatsNeedTwoFiles
  <2>1. CASE i = n
    <3>1. source[j] # source[i] BY <1>2, <2>1
    <3> QED BY <1>1, <3>1, AlertingTypes
  <2>2. CASE i # n
    BY <1>5, <2>2 DEF RepeatInv, RepeatsNeedTwoFiles
  <2> QED BY <2>1, <2>2
<1> QED BY <1>7, <1>8, <1>9, <1>10 DEF RepeatInv

LEMMA NextKeepsRepeats ==
  ASSUME FollowerAlertsAssumption, CallsInv, RepeatInv, AlertsNext
  PROVE  RepeatInv'
<1> USE DEF Alerting!At
<1>1. call \in [Tids -> {Alerting!NoCall} \cup Alerting!Calls]
  BY AlertingTypes DEF CallsInv
<1>2. CASE \E t \in Tids : FollowerStep(t)
  BY <1>2, QuietStepKeepsRepeats DEF FollowerStep, alertVars
<1>3. CASE \E t \in Tids : EnterAlert(t)
  <2>1. PICK t \in Tids : EnterAlert(t) BY <1>3
  <2>2. \A u \in Tids : call'[u] = call[u] \/ call'[u].pc = "query"
    BY <1>1, <2>1 DEF EnterAlert, Alerting!Begin
  <2>3. UNCHANGED <<table, alerts, source>>
    BY <2>1 DEF EnterAlert, Alerting!Begin
  <2> QED BY <2>2, <2>3, QuietStepKeepsRepeats
<1>4. CASE \E t \in Tids : InsideAlert(t)
  <2>1. PICK t \in Tids : InsideAlert(t) BY <1>4
  <2>2. CASE Alerting!QueryExpired(t) /\ UNCHANGED source
    <3>1. \A u \in Tids : u # t => call'[u] = call[u]
      BY <1>1, <2>2 DEF Alerting!QueryExpired
    <3>2. UNCHANGED <<table, alerts, source>> BY <2>2 DEF Alerting!QueryExpired
    <3> QED BY <2>2, <3>1, <3>2, QuietStepKeepsRepeats
  <2>3. CASE Alerting!Send(t) /\ source' = Append(source, fd[t])
    BY <2>1, <2>3, SendKeepsRepeats DEF InsideAlert
  <2> QED BY <2>1, <2>2, <2>3 DEF InsideAlert
<1>5. CASE \E t \in Tids : LeaveAlert(t) \/ RefusedInsert(t)
  <2>1. PICK t \in Tids : LeaveAlert(t) \/ RefusedInsert(t) BY <1>5
  <2>2. CASE Alerting!Commit(t) /\ UNCHANGED source BY <2>2, CommitKeepsRepeats
  <2>3. CASE Alerting!QuerySuppressed(t) \/ Alerting!DatabaseError(t)
    <3>1. \A u \in Tids : call'[u] = call[u] \/ call'[u].pc = "idle"
      BY <1>1, <2>3 DEF Alerting!QuerySuppressed, Alerting!DatabaseError, Alerting!NoCall
    <3>2. UNCHANGED <<table, alerts, source>>
      BY <2>1, <2>3 DEF LeaveAlert, RefusedInsert, Alerting!QuerySuppressed,
         Alerting!DatabaseError
    <3> QED BY <3>1, <3>2, QuietStepKeepsRepeats
  <2> QED BY <2>1, <2>2, <2>3 DEF LeaveAlert, RefusedInsert
<1>6. CASE Environment
  BY <1>6, QuietStepKeepsRepeats
     DEF Environment, alertVars, Alerting!Tick, Alerting!SetBack,
         Alerting!SetForward
<1>7. CASE Killed
  <2>1. \A u \in Tids : call'[u].pc = "idle"
    BY <1>7 DEF Killed, Alerting!NoCall
  <2>2. UNCHANGED <<table, alerts, source>> BY <1>7 DEF Killed
  <2> QED BY <2>1, <2>2, QuietStepKeepsRepeats
<1> QED BY <1>2, <1>3, <1>4, <1>5, <1>6, <1>7 DEF AlertsNext

\* Followers of one file never repeat an alert that was recorded within its
\* window, for any window, whatever fails and however the clock is set.
THEOREM RepeatsTakeTwoFiles == AlertsSpec => []RepeatsNeedTwoFiles
<1>1. AlertsInit => RepeatInv
  <2> SUFFICES ASSUME AlertsInit PROVE RepeatInv
    OBVIOUS
  <2>1. /\ source = <<>> /\ alerts = <<>> /\ <<>> \in Seq(Inodes) /\ Len(<<>>) = 0
        /\ DOMAIN alerts = {} /\ \A t \in Tids : call[t].pc = "idle"
    BY DEF AlertsInit, Alerting!Init, Alerting!NoCall
  <2> QED BY <2>1 DEF RepeatInv, SourcesKnown, ReadIsCurrent, RowNotOlder,
             RepeatsNeedTwoFiles, Alerting!At
<1>2. CallsInv /\ RepeatInv /\ [AlertsNext]_allVars => RepeatInv'
  <2>1. CallsInv /\ RepeatInv /\ AlertsNext => RepeatInv'
    BY FollowerAlertsAssumption, NextKeepsRepeats
  <2>2. RepeatInv /\ UNCHANGED allVars => RepeatInv'
    BY DEF allVars, vars, threadVars, alertVars, RepeatInv, SourcesKnown,
       ReadIsCurrent, RowNotOlder, OneSource, RepeatsNeedTwoFiles,
       Alerting!At, Alerting!Expired
  <2> QED BY <2>1, <2>2
<1>3. RepeatInv => RepeatsNeedTwoFiles BY DEF RepeatInv
<1> QED BY <1>1, <1>2, <1>3, CallsInvariance, PTL DEF AlertsSpec

---------------------------------------------------------------------------
\* The exception type of a traceback: what is proved of its text.

\* After some line of text, which is the given one, comes what is in after.
EndsWith(text, line, after) ==
    \E p \in DOMAIN text :
        /\ text[p] = line
        /\ \A i \in DOMAIN text : i > p => i - p \in DOMAIN after /\ text[i] = after[i - p]
        /\ \A j \in DOMAIN after : p + j \in DOMAIN text /\ text[p + j] = after[j]

\* Where a line is in what is concatenated of lines before and after it.
LEMMA LineBetween ==
  ASSUME NEW X, NEW front \in Seq(X), NEW before \in Seq(X), NEW line \in X,
         NEW after \in Seq(X)
  PROVE  LET text == front \o (before \o <<line>> \o after)
         IN  text \in Seq(X) /\ EndsWith(text, line, after)
<1> DEFINE text == front \o (before \o <<line>> \o after)
           pre == front \o before
<1>1. pre \in Seq(X) /\ text = (pre \o <<line>>) \o after
  OBVIOUS
<1> HIDE DEF pre, text
<1> DEFINE p == Len(pre) + 1
           t == pre \o <<line>>
<1>2. /\ t \in Seq(X) /\ Len(t) = p /\ t[p] = line /\ p \in Nat /\ p # 0
  BY <1>1
<1> HIDE DEF t, p
<1>3. /\ text = t \o after /\ text \in Seq(X) /\ Len(text) = p + Len(after)
      /\ \A i \in 1..p + Len(after) : text[i] = IF i <= p THEN t[i] ELSE after[i - p]
  <2>1. text = t \o after
    BY <1>1 DEF t
  <2> QED BY <1>2, <2>1, ConcatProperties
<1>4. Len(after) \in Nat /\ DOMAIN after = 1..Len(after) /\ DOMAIN text = 1..Len(text)
  BY <1>3, LenProperties
<1>5. /\ p \in DOMAIN text /\ text[p] = line
      /\ \A i \in DOMAIN text : i > p => i - p \in DOMAIN after /\ text[i] = after[i - p]
      /\ \A j \in DOMAIN after : p + j \in DOMAIN text /\ text[p + j] = after[j]
  BY <1>2, <1>3, <1>4
<1> QED BY <1>3, <1>5 DEF text, EndsWith

\* What Python prints of a chain ends with the line of the last exception and
\* what follows it.
LEMMA PrintedEnds ==
  ASSUME NEW X, NEW chain \in Seq([before : Seq(X), line : X, after : Seq(X)]), chain # <<>>
  PROVE  LET last == chain[Len(chain)]
             text == Printed(chain)
         IN  text \in Seq(X) /\ EndsWith(text, last.line, last.after)
<1> DEFINE n == Len(chain)
           printed(c) == c.before \o <<c.line>> \o c.after
           parts == [i \in DOMAIN chain |-> printed(chain[i])]
           last == chain[n]
           C == [before : Seq(X), line : X, after : Seq(X)]
<1>0. \A c \in C : c.before \in Seq(X) /\ c.line \in X /\ c.after \in Seq(X)
  OBVIOUS
<1>1. /\ n \in Nat /\ n \in DOMAIN chain /\ DOMAIN chain = 1..n
      /\ \A i \in DOMAIN chain : /\ chain[i].before \in Seq(X) /\ chain[i].line \in X
                                 /\ chain[i].after \in Seq(X)
  <2>1. chain \in Seq(C)
    OBVIOUS
  <2> HIDE DEF C
  <2>2. n \in Nat /\ DOMAIN chain = 1..n /\ chain \in [1..n -> C]
    BY <2>1, LenProperties
  <2>3. n # 0
    BY <2>1
  <2> QED BY <1>0, <2>2, <2>3
<1>2. \A i \in DOMAIN chain : printed(chain[i]) \in Seq(X)
  BY <1>1
<1>3. parts \in Seq(Seq(X)) /\ Len(parts) = n /\ parts # <<>> /\ parts[n] = printed(last)
  <2> HIDE DEF n, printed, C
  <2>1. parts \in [1..n -> Seq(X)]
    BY <1>1, <1>2
  <2>2. parts \in Seq(Seq(X)) /\ Len(parts) = n
    BY <1>1, <2>1
  <2>3. parts[n] = printed(last)
    BY <1>1
  <2>4. n # 0
    BY <1>1
  <2> QED BY <2>2, <2>3, <2>4
<1> HIDE DEF parts
<1>4. PICK front \in Seq(X) : FlattenSeq(parts) = front \o parts[Len(parts)]
  BY <1>3, FlattenedEnds
<1> DEFINE text == Printed(chain)
<1>5. text = front \o printed(last)
  BY <1>3, <1>4 DEF Printed, parts
<1> HIDE DEF n, text
<1>6. /\ last.before \in Seq(X) /\ last.line \in X /\ last.after \in Seq(X)
  BY <1>1
<1>7. text = front \o (last.before \o <<last.line>> \o last.after)
  BY <1>5
<1> HIDE DEF C, printed
<1>8. text \in Seq(X) /\ EndsWith(text, last.line, last.after)
  <2> DEFINE before == last.before
             line == last.line
             after == last.after
  <2>1. front \in Seq(X) /\ before \in Seq(X) /\ line \in X /\ after \in Seq(X)
    BY <1>6
  <2>2. text = front \o (before \o <<line>> \o after)
    BY <1>7
  <2> HIDE DEF before, line, after, last
  <2>3. text \in Seq(X) /\ EndsWith(text, line, after)
    BY <2>1, <2>2, LineBetween
  <2> QED BY <2>3 DEF line, after
<1> QED BY <1>8 DEF text, last, n

\* Where a line is found from the last.
LEMMA FoundLast ==
  ASSUME NEW X, NEW text \in Seq(X), NEW p \in DOMAIN text,
         NEW T \in SUBSET DOMAIN text, p \in T,
         \A i \in DOMAIN text : i > p => i \notin T
  PROVE  Max(T) = p
<1>1. Len(text) \in Nat /\ DOMAIN text = 1..Len(text)
  OBVIOUS
<1>2. Max(T) \in T /\ \A i \in T : i <= Max(T)
  BY <1>1, LastOf
<1> QED BY <1>1, <1>2

\* What extract_exception_type finds is the exception that was raised last, or
\* what looks like one after it.
LEMMA LastRaisedFound == LastRaisedCounts
<1> SUFFICES ASSUME NEW chain \in Chains, chain # <<>>
             PROVE  LET text  == Printed(chain)
                        found == ExceptionLine(text)
                        last  == Last(chain)
                        later == Found(last.after)
                    IN  /\ (last.line \in Declared /\ later = {}) => found = last.line
                        /\ later # {} => found = last.after[Max(later)]
                        /\ (Found(text) = {} /\ NonBlank(last.after) = {})
                           => found = last.line
                        /\ found # NoType
  BY DEF LastRaisedCounts
<1> DEFINE All   == Declared \cup Plain \cup {Blank}
           text  == Printed(chain)
           last  == chain[Len(chain)]
           lines == NonBlank(text)
           found == Found(text)
           later == Found(last.after)
<1> DEFINE C == [before : Seq(All), line : Declared \cup Plain, after : Seq(All)]
<1>1. chain \in Seq(C) /\ Last(chain) = last
  BY ExceptionAssumption DEF Last
<1>2. /\ Len(chain) \in Nat /\ DOMAIN chain = 1..Len(chain) /\ chain \in [1..Len(chain) -> C]
      /\ last.line \in Declared \cup Plain /\ last.after \in Seq(All)
  <2>1. \A c \in C : c.line \in Declared \cup Plain /\ c.after \in Seq(All)
    OBVIOUS
  <2>2. chain \in Seq(C)
    BY <1>1
  <2> HIDE DEF C
  <2>3. /\ Len(chain) \in Nat /\ DOMAIN chain = 1..Len(chain) /\ chain \in [1..Len(chain) -> C]
    BY <2>2, LenProperties
  <2>4. Len(chain) # 0
    BY <2>2
  <2> QED BY <2>1, <2>3, <2>4
<1>3. chain \in Seq([before : Seq(All), line : All, after : Seq(All)])
  <2> DEFINE D == [before : Seq(All), line : All, after : Seq(All)]
  <2>1. C \subseteq D
    OBVIOUS
  <2> HIDE DEF C, D
  <2>2. chain \in [1..Len(chain) -> D]
    BY <1>2, <2>1
  <2>3. chain \in Seq(D)
    BY <1>2, <2>2, MadeSeq
  <2> QED BY <2>3 DEF D
<1>4. text \in Seq(All) /\ EndsWith(text, last.line, last.after)
  <2> HIDE DEF All
  <2> QED BY <1>3, PrintedEnds
<1>5. PICK p \in DOMAIN text :
            /\ text[p] = last.line
            /\ \A i \in DOMAIN text : i > p =>
                  i - p \in DOMAIN last.after /\ text[i] = last.after[i - p]
            /\ \A j \in DOMAIN last.after :
                  p + j \in DOMAIN text /\ text[p + j] = last.after[j]
  BY <1>4 DEF EndsWith
<1> HIDE DEF text, last, C
<1>6. /\ Len(text) \in Nat /\ DOMAIN text = 1..Len(text) /\ p \in Nat
      /\ Len(last.after) \in Nat /\ DOMAIN last.after = 1..Len(last.after)
      /\ found \subseteq DOMAIN text /\ lines \subseteq DOMAIN text
      /\ later \subseteq DOMAIN last.after /\ found \subseteq lines
  BY <1>2, <1>4, <1>5, LenProperties DEF Found, NonBlank
<1>7. p \in lines
  BY <1>2, <1>5, ExceptionAssumption DEF NonBlank
<1>8. ASSUME last.line \in Declared, later = {} PROVE ExceptionLine(text) = last.line
  <2>1. p \in found
    BY <1>7, <1>8, <1>5 DEF Found
  <2>2. \A i \in DOMAIN text : i > p => i \notin found
    BY <1>5, <1>8 DEF Found, NonBlank
  <2>3. Max(found) = p
    <3>1. text \in Seq(All) /\ p \in DOMAIN text /\ found \in SUBSET DOMAIN text
      BY <1>4, <1>6, <2>1
    <3> HIDE DEF found, All
    <3> QED BY <2>1, <2>2, <3>1, FoundLast
  <2> QED BY <1>5, <1>7, <2>1, <2>3 DEF ExceptionLine
<1>9. ASSUME later # {} PROVE ExceptionLine(text) = last.after[Max(later)]
  <2> DEFINE m == Max(later)
  <2>1. m \in later /\ \A j \in later : j <= m
    BY <1>6, <1>9, LastOf
  <2> HIDE DEF m
  <2>2. m \in Nat /\ m > 0 /\ m \in DOMAIN last.after
    BY <1>6, <2>1
  <2>3. p + m \in DOMAIN text /\ text[p + m] = last.after[m]
    BY <1>5, <2>2
  <2>4. p + m \in found
    BY <2>1, <2>3 DEF Found, NonBlank
  <2>5. ASSUME NEW i \in DOMAIN text, i > p + m PROVE i \notin found
    <3>1. i \in Nat /\ i > p /\ i - p > m
      BY <1>6, <2>2, <2>5
    <3>2. i - p \in DOMAIN last.after /\ text[i] = last.after[i - p]
      BY <1>5, <3>1
    <3>3. i - p \notin later
      BY <1>6, <2>1, <2>2, <3>1, <3>2
    <3> QED BY <3>2, <3>3 DEF Found, NonBlank
  <2> DEFINE q == p + m
  <2>6. q \in DOMAIN text /\ q \in found /\ \A i \in DOMAIN text : i > q => i \notin found
    BY <2>3, <2>4, <2>5
  <2> HIDE DEF q
  <2>7. Max(found) = q
    <3>1. text \in Seq(All) /\ found \in SUBSET DOMAIN text
      BY <1>4, <1>6
    <3> HIDE DEF found, All
    <3> QED BY <2>6, <3>1, FoundLast
  <2>8. ExceptionLine(text) = text[q]
    BY <1>7, <2>6, <2>7 DEF ExceptionLine
  <2> QED BY <2>3, <2>8 DEF q, m
<1>10. ASSUME found = {}, NonBlank(last.after) = {}
       PROVE  ExceptionLine(text) = last.line
  <2>1. \A i \in DOMAIN text : i > p => i \notin lines
    BY <1>5, <1>10 DEF NonBlank
  <2>2. Max(lines) = p
    BY <1>4, <1>6, <1>7, <2>1, FoundLast
  <2> QED BY <1>5, <1>7, <1>10, <2>2 DEF ExceptionLine
<1>11. ExceptionLine(text) # NoType
  <2>1. Max(lines) \in lines
    BY <1>6, <1>7, LastOf
  <2>2. found # {} => Max(found) \in found
    BY <1>6, LastOf
  <2>3. \A i \in lines : text[i] # NoType
    BY <1>4, ExceptionAssumption DEF NonBlank
  <2> QED BY <1>6, <1>7, <2>1, <2>2, <2>3 DEF ExceptionLine
<1> QED BY <1>1, <1>8, <1>9, <1>10, <1>11 DEF text

\* The row of an alert is that of the exception that ended the traceback, for
\* chains of any length, if it has a message and nothing after it looks like
\* an exception; else it is that of what does (extract_exception_type).
THEOREM LastRaisedTyped == AlertsSpec => []TypeOfLastRaised
<1>1. TypeOfLastRaised
  BY LastRaisedFound DEF TypeOfLastRaised
<1> QED BY <1>1, PTL
===========================================================================
