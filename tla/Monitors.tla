----------------------------- MODULE Monitors -----------------------------
(***************************************************************************)
(* The threads DiskMonitor and MemMonitor.  Each repeats, Interval after   *)
(* its last cycle:                                                         *)
(*                                                                         *)
(*     snapshot = _collect()            Collect                            *)
(*     self._store(snapshot)            Store*: LPUSH and LTRIM in Redis   *)
(*     self._store_db(snapshot)         Persist*: one batch of rows, MySQL *)
(*     self._check_alerts(snapshot)     Check*, and AlertSuppression       *)
(*                                                                         *)
(* inside of one try: an exception of any step but _store_db, which has a  *)
(* try of its own, ends the cycle.                                         *)
(***************************************************************************)
EXTENDS Integers, Sequences, FiniteSets

CONSTANTS
    Mons,         \* the disk monitor and the memory monitor
    Keys,         \* what is alerted about: the mounts, and the swap
    Owner,        \* Owner[k]: the monitor that reports k
    Reports,      \* Reports[m]: the reports that _collect of m can return
    Window,       \* Window[k]: *_ALERT_SUPPRESS_SECONDS
    History,      \* *_SNAPSHOT_HISTORY: the cap of the list in Redis
    Interval,     \* *_CHECK_INTERVAL
    Faults,       \* TRUE iff df, Redis and MySQL calls may raise, and kills happen
    MaxRuns,      \* bound on the collections of a monitor
    NoRow, Second, MaxTime, MaxSetBack, MaxSetForward, MaxAlerts

\* A report is what the rows of a snapshot are made of, in order: the mounts
\* of df and the sentinel "__docker__", or the one sample of /proc/meminfo.
\* over says that an entry reaches the threshold of its monitor.
Entries == [name : Keys, over : BOOLEAN]

ASSUME MonitorsAssumption ==
    /\ Owner \in [Keys -> Mons]
    /\ \A m \in Mons : Reports[m] \subseteq Seq(Entries)
    /\ \A m \in Mons : \A r \in Reports[m] : \A i \in DOMAIN r : Owner[r[i].name] = m
    /\ Window \in [Keys -> Nat]
    /\ History \in Nat \ {0} /\ Interval \in Nat /\ MaxRuns \in Nat
    /\ Faults \in BOOLEAN /\ NoRow \notin Int /\ Second \in Nat \ {0}
    /\ MaxTime \in Nat /\ MaxAlerts \in Nat
    /\ MaxSetBack \in Int /\ MaxSetForward \in Int

VARIABLES
    mpc,          \* the statement a monitor is at
    wake,         \* when the sleep of a monitor ends
    snap,         \* snapshot: the number, the time and the report of a cycle
    next,         \* the entry that _check_alerts looks at next
    redis,        \* the list logmon:*:snapshot of each monitor, newest first
    rows,         \* disk_snapshot and mem_snapshot
    cut,          \* history: an exception has ended the last cycle
    elapsed, setback, table, call, alerts, suppressed

cycleVars == <<mpc, wake, snap, next, redis, rows, cut>>
alertVars == <<elapsed, setback, table, call, alerts, suppressed>>
vars      == <<cycleVars, alertVars>>

Alerting == INSTANCE AlertSuppression WITH
    Threads <- Mons, Users <- [k \in Keys |-> {Owner[k]}], Recipients <- TRUE

\* Of its last two times the code knows nothing: when a snapshot was really
\* collected, and how far the clock was behind then.
Snapshots == [run : Nat, at : Int, report : Seq(Entries), real : Nat, behind : Int]

TypeOK ==
    /\ mpc \in [Mons -> {"sleep", "store", "persist", "check", "alert"}]
    /\ wake \in [Mons -> Nat]
    /\ snap \in [Mons -> Snapshots]
    /\ next \in [Mons -> Nat \ {0}]
    /\ redis \in [Mons -> Seq(Snapshots)]
    /\ \A m \in Mons : Len(redis[m]) <= History
    /\ rows \subseteq [mon : Mons, name : Keys, snap : Snapshots]
    /\ cut \in [Mons -> BOOLEAN]
    /\ Alerting!TypeOK

Init ==
    /\ mpc = [m \in Mons |-> "sleep"] /\ wake = [m \in Mons |-> 0]
    /\ snap = [m \in Mons |-> [run |-> 0, at |-> 0, report |-> <<>>, real |-> 0, behind |-> 0]]
    /\ next = [m \in Mons |-> 1]
    /\ redis = [m \in Mons |-> <<>>]
    /\ rows = {}
    /\ cut = [m \in Mons |-> FALSE]
    /\ Alerting!Init
---------------------------------------------------------------------------

Goto(m, s) == mpc' = [mpc EXCEPT ![m] = s]

\* The cycle ends, with or without an exception, and the monitor sleeps.
EndCycle(m, byException) ==
    /\ Goto(m, "sleep")
    /\ wake' = [wake EXCEPT ![m] = elapsed + Interval]
    /\ cut' = [cut EXCEPT ![m] = byException]

\* datetime.now().isoformat(timespec="seconds") leaves the fraction out.
Truncated(now) == Second * (now \div Second)

Collect(m) ==
    /\ mpc[m] = "sleep" /\ wake[m] <= elapsed
    /\ snap[m].run < MaxRuns
    /\ \E r \in Reports[m] :
         snap' = [snap EXCEPT ![m] = [run |-> snap[m].run + 1,
                     at |-> Truncated(Alerting!wall), report |-> r,
                     real |-> elapsed, behind |-> setback]]
    /\ next' = [next EXCEPT ![m] = 1]
    /\ Goto(m, "store")
    /\ UNCHANGED <<wake, redis, rows, cut, alertVars>>

\* A figure of df is no number.
CollectRaises(m) ==
    /\ Faults /\ mpc[m] = "sleep" /\ wake[m] <= elapsed
    /\ EndCycle(m, TRUE)
    /\ UNCHANGED <<snap, next, redis, rows, alertVars>>

\* Mutant of Pushed: one snapshot too many is kept.
PushedLong(m) ==
    LET list == <<snap[m]>> \o redis[m]
    IN  SubSeq(list, 1, IF Len(list) <= History THEN Len(list) ELSE History + 1)

\* The push and the trim are one transaction.
Pushed(m) ==
    LET list == <<snap[m]>> \o redis[m]
    IN  SubSeq(list, 1, IF Len(list) < History THEN Len(list) ELSE History)

Store(m) ==
    /\ mpc[m] = "store"
    /\ redis' = [redis EXCEPT ![m] = Pushed(m)]
    /\ Goto(m, "persist")
    /\ UNCHANGED <<wake, snap, next, rows, cut, alertVars>>

\* Mutant of StoreFails: the exception is swallowed.
StoreFailsSwallowed(m) ==
    /\ Faults /\ mpc[m] = "store"
    /\ redis' \in {redis, [redis EXCEPT ![m] = Pushed(m)]}
    /\ Goto(m, "persist")
    /\ UNCHANGED <<wake, snap, next, rows, cut, alertVars>>

\* Redis raises, before or after it has executed the transaction.
StoreFails(m) ==
    /\ Faults /\ mpc[m] = "store"
    /\ redis' \in {redis, [redis EXCEPT ![m] = Pushed(m)]}
    /\ EndCycle(m, TRUE)
    /\ UNCHANGED <<snap, next, rows, alertVars>>

\* The rows of the batch.
Batch(m) == {[mon |-> m, name |-> snap[m].report[i].name, snap |-> snap[m]] :
                i \in DOMAIN snap[m].report}

\* Mutant of Refused: there are no unique keys.
RefusedNone(m) == {}

\* Those that uq_disk_mount_ts or uq_mem_ts refuses: a row of the same mount
\* and second is there already.
Refused(m) == {b \in Batch(m) : \E r \in rows :
                  r.mon = m /\ r.name = b.name /\ r.snap.at = b.snap.at}

Accepted(m) == Refused(m) = {} /\ Cardinality(Batch(m)) = Len(snap[m].report)

\* Mutant of Persist: each row is committed on its own.
PersistEach(m) ==
    /\ mpc[m] = "persist"
    /\ rows' = rows \cup (Batch(m) \ Refused(m))
    /\ Goto(m, "check")
    /\ UNCHANGED <<wake, snap, next, redis, cut, alertVars>>

\* The batch is committed, or rolled back as a whole.
Persist(m) ==
    /\ mpc[m] = "persist"
    /\ rows' = IF Accepted(m) THEN rows \cup Batch(m) ELSE rows
    /\ Goto(m, "check")
    /\ UNCHANGED <<wake, snap, next, redis, cut, alertVars>>

\* Mutant of PersistFails: what was merged before the exception is committed.
PersistFailsPartly(m) ==
    /\ Faults /\ mpc[m] = "persist"
    /\ rows' \in {rows, IF Accepted(m) THEN rows \cup {b \in Batch(m) :
                            b.name = snap[m].report[1].name} ELSE rows}
    /\ Goto(m, "check")
    /\ UNCHANGED <<wake, snap, next, redis, cut, alertVars>>

\* MySQL raises: the batch is rolled back, the cycle goes on.  (If MySQL has
\* committed and only its answer is lost, this is Persist.)
PersistFails(m) ==
    /\ Faults /\ mpc[m] = "persist"
    /\ Goto(m, "check")
    /\ UNCHANGED <<wake, snap, next, redis, rows, cut, alertVars>>

\* The entries that _check_alerts has not looked at and will alert about.
Pending(m) == {i \in next[m]..Len(snap[m].report) : snap[m].report[i].over}

\* _maybe_alert is called for the first of them.
CheckNext(m) ==
    /\ mpc[m] = "check"
    /\ \E i \in Pending(m) :
         /\ \A j \in Pending(m) : i <= j
         /\ Alerting!Begin(m, snap[m].report[i].name)
         /\ next' = [next EXCEPT ![m] = i + 1]
    /\ Goto(m, "alert")
    /\ UNCHANGED <<wake, snap, redis, rows, cut>>

CheckDone(m) ==
    /\ mpc[m] = "check" /\ Pending(m) = {}
    /\ EndCycle(m, FALSE)
    /\ UNCHANGED <<snap, next, redis, rows, alertVars>>

InAlert(m) ==
    /\ mpc[m] = "alert"
    /\ Alerting!QueryExpired(m) \/ Alerting!Send(m)
    /\ UNCHANGED cycleVars

\* Mutant of AlertReturns: only the first of the mounts is looked at.
AlertReturnsOnce(m) ==
    /\ mpc[m] = "alert"
    /\ Alerting!QuerySuppressed(m) \/ Alerting!Commit(m)
    /\ EndCycle(m, FALSE)
    /\ UNCHANGED <<snap, next, redis, rows>>

AlertReturns(m) ==
    /\ mpc[m] = "alert"
    /\ Alerting!QuerySuppressed(m) \/ Alerting!Commit(m)
    /\ Goto(m, "check")
    /\ UNCHANGED <<wake, snap, next, redis, rows, cut>>

\* The exception of one call ends the loop over the mounts, and the cycle.
\* (send_disk_alert and send_mem_alert are given figures and read no row.)
AlertRaises(m) ==
    /\ Faults /\ mpc[m] = "alert"
    /\ ~Alerting!At(m, "send") /\ Alerting!DatabaseError(m)
    /\ EndCycle(m, TRUE)
    /\ UNCHANGED <<snap, next, redis, rows>>

Cycle(m) ==
    \/ Collect(m) \/ CollectRaises(m)
    \/ Store(m) \/ StoreFails(m)
    \/ Persist(m) \/ PersistFails(m)
    \/ CheckNext(m) \/ CheckDone(m)
    \/ InAlert(m) \/ AlertReturns(m) \/ AlertRaises(m)

\* The follower container is killed, and the snapshots in hand with it; its
\* monitors start at once again.
Killed ==
    /\ Faults /\ \E m \in Mons : mpc[m] # "sleep"
    /\ mpc' = [m \in Mons |-> "sleep"] /\ wake' = [m \in Mons |-> elapsed]
    /\ snap' = [m \in Mons |-> [snap[m] EXCEPT !.report = <<>>]]
    /\ call' = [m \in Mons |-> Alerting!NoCall]
    /\ UNCHANGED <<next, redis, rows, cut, elapsed, setback, table, alerts, suppressed>>

\* Redis persists nothing.
RedisRestart ==
    /\ Faults
    /\ redis' = [m \in Mons |-> <<>>]
    /\ UNCHANGED <<mpc, wake, snap, next, rows, cut, alertVars>>

Clock ==
    /\ Alerting!Tick \/ Alerting!SetBack \/ Alerting!SetForward
    /\ UNCHANGED cycleVars

Next == (\E m \in Mons : Cycle(m)) \/ Killed \/ RedisRestart \/ Clock

Spec == Init /\ [][Next]_vars
---------------------------------------------------------------------------

\* The history page never shows a part of a collection: when a restart within
\* a second, or a clock that is set back, makes two collections have the same
\* time and a mount in common, the rows of the later are refused together,
\* also those of the mounts that the earlier had not.
BatchesWhole ==
    \A r \in rows : \A i \in DOMAIN r.snap.report :
        [r EXCEPT !.name = r.snap.report[i].name] \in rows

\* The dashboard, which shows the head of the list in Redis, is not behind
\* the history page, which shows the rows, unless Redis has lost its list.
DashboardNotBehind ==
    \A r \in rows : redis[r.mon] # <<>> => r.snap.run <= redis[r.mon][1].run

\* A cycle that no exception has ended has mailed or suppressed an
\* alert about all it found over the threshold, although its snapshot may
\* have been refused by MySQL.
Considered(m, k) ==
    \/ \E i \in DOMAIN alerts : alerts[i].key = k /\ alerts[i].real >= snap[m].real
    \/ \E s \in suppressed : s.key = k /\ s.real >= snap[m].real

OverIn(m) == {snap[m].report[i].name :
                 i \in {j \in DOMAIN snap[m].report : snap[m].report[j].over}}

OverConsidered ==
    \A m \in Mons : (mpc[m] = "sleep" /\ ~cut[m]) => \A k \in OverIn(m) : Considered(m, k)

\* Once an alert about a mount or the swap is recorded, the next is more than
\* its window away: each key is of one monitor, and no other thread, restart,
\* outage or change of the clock brings the alert back earlier.
AlertsSpaced == Alerting!RecordedAlertsSpaced
===========================================================================
