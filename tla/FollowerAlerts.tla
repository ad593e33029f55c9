-------------------------- MODULE FollowerAlerts --------------------------
(***************************************************************************)
(* One app log whose followers raise alerts: FileFollower, with the steps  *)
(* of AlertSuppression in place of its state "alert".  All tracebacks of   *)
(* the log are of one exception type, so that the followers before and     *)
(* after a rotation use the same row of alert_suppression; ExceptionType   *)
(* says what makes it so.                                                  *)
(***************************************************************************)
EXTENDS FileFollower, ExceptionType

CONSTANTS
    Exc,          \* the (app_name, exception_type) pair
    Suppress,     \* alert_suppress_seconds of the app
    NoRow, Second,
    MaxTime, MaxSetBack, MaxSetForward, MaxAlerts

ASSUME FollowerAlertsAssumption ==
    /\ Suppress \in Nat /\ NoRow \notin Int /\ Second \in Nat \ {0}
    /\ MaxTime \in Nat /\ MaxSetBack \in Int /\ MaxSetForward \in Int
    /\ MaxAlerts \in Nat

VARIABLES
    elapsed, setback, table, call, alerts, suppressed,
    source        \* history: source[i] is the file whose traceback alerts[i] is of

alertVars == <<elapsed, setback, table, call, alerts, suppressed>>
allVars   == <<vars, alertVars, source>>

Alerting == INSTANCE AlertSuppression WITH
    Threads <- Tids, Keys <- {Exc}, Users <- [k \in {Exc} |-> Tids],
    Window <- [k \in {Exc} |-> Suppress], Recipients <- TRUE

AlertsInit == Init /\ Alerting!Init /\ source = <<>>

\* Mutant of EnterAlert: the row is not queried.
EnterAlertUnasked(t) ==
    /\ pc[t] = "alert" /\ Alerting!At(t, "idle")
    /\ call' = [call EXCEPT ![t] =
           [pc |-> "send", key |-> Exc, now |-> Alerting!wall, real |-> elapsed,
            row |-> table[Exc], alert |-> 0]]
    /\ UNCHANGED <<vars, elapsed, setback, table, alerts, suppressed, source>>

\* A thread that has committed a traceback enters _maybe_alert.
EnterAlert(t) ==
    /\ pc[t] = "alert"
    /\ Alerting!Begin(t, Exc)
    /\ UNCHANGED <<vars, source>>

\* The statements of _maybe_alert up to its last.
InsideAlert(t) ==
    /\ \/ Alerting!QueryExpired(t) /\ UNCHANGED source
       \/ Alerting!Send(t) /\ source' = Append(source, fd[t])
    /\ UNCHANGED vars

\* Mutant of LeaveAlert: the traceback is not reset after the alert.
LeaveAlertKeeping(t) ==
    /\ \/ Alerting!QuerySuppressed(t) \/ Alerting!Commit(t)
       \/ Faults /\ Alerting!DatabaseError(t)
    /\ Goto(t, "check")
    /\ UNCHANGED <<fileVars, stop, fd, pos, recordVars, managerVars, events, tail, source>>

\* _maybe_alert returns or raises, and the follower goes on with its loop.
LeaveAlert(t) ==
    /\ \/ Alerting!QuerySuppressed(t) \/ Alerting!Commit(t)
       \/ Faults /\ Alerting!DatabaseError(t)
    /\ AlertReturns(t)
    /\ UNCHANGED source

\* What a follower does outside of _maybe_alert.
FollowerStep(t) ==
    /\ Thread(t) /\ pc[t] # "alert"
    /\ UNCHANGED <<alertVars, source>>

\* An INSERT that uq_app_exc refuses raises whatever the faults.
RefusedInsert(t) ==
    /\ ~Faults /\ Alerting!At(t, "commit") /\ ~Alerting!Committable(t)
    /\ Alerting!DatabaseError(t)
    /\ AlertReturns(t)
    /\ UNCHANGED source

Environment ==
    \/ (FileStep \/ Manager \/ RedisRestart) /\ UNCHANGED <<alertVars, source>>
    \/ (Alerting!Tick \/ Alerting!SetBack \/ Alerting!SetForward)
       /\ UNCHANGED <<vars, source>>

\* The process is killed: threads and calls end together.
Killed ==
    /\ Restart
    /\ call' = [t \in Tids |-> Alerting!NoCall]
    /\ UNCHANGED <<elapsed, setback, table, alerts, suppressed, source>>

AlertsNext ==
    \/ \E t \in Tids : \/ FollowerStep(t)
                       \/ EnterAlert(t) \/ InsideAlert(t)
                       \/ LeaveAlert(t) \/ RefusedInsert(t)
    \/ Environment \/ Killed

AlertsSpec == AlertsInit /\ [][AlertsNext]_allVars

---------------------------------------------------------------------------
\* An alert within the window of a recorded one, which begins at the second
\* nearest to it, takes two files, however the clock is set: as long as
\* the followers of one file only have raised alerts, none is repeated, since
\* no two of them ever read it at a time.  With two files, one finds the row as
\* it was before the other wrote it, or sets it back to an earlier reading of
\* the clock; both can repeat an alert.
RepeatsNeedTwoFiles ==
    \A i, j \in DOMAIN alerts :
        (/\ i < j /\ alerts[i].recorded
         /\ alerts[j].at - Alerting!Stored(alerts[i].at) <= Suppress)
        => \E k \in 1..j : source[k] # source[i]

\* What is said of tracebacks speaks of no variable: it is looked at once, in
\* the initial state.  The row of an alert is that of the exception that ended
\* the traceback.
TypeOfLastRaised == AlertsInit => LastRaisedCounts

\* The log is followed as FileFollower says, whatever _maybe_alert does: it
\* can delay its thread and nothing else.
FollowerSpec == Spec

\* Alerts are raised as AlertSuppression says: a thread calls _maybe_alert
\* when it is in no other call of it, and a call ends with its thread.
AlertingSpec == Alerting!Spec

\* Every call of _maybe_alert is made by a thread that has committed the
\* traceback it is about, and no other follower that still runs, stopped or
\* not, has the file of that traceback open meanwhile.
CallsHaveEvents ==
    \A t \in Tids : call[t] # Alerting!NoCall =>
        /\ pc[t] = "alert"
        /\ \A u \in Tids \ {t} : Live(u) => fd[u] # fd[t]
        /\ \E j \in DOMAIN events :
              /\ events[j].ino = fd[t] /\ events[j].line = pending[t]
              /\ events[j].tb = tb[t]

\* README.md:338-340: an exception type seen for the first time is mailed and
\* "further occurrences of the same exception type in the same app are
\* suppressed": two alerts are more than a window apart.
OneMailPerWindow ==
    \A i, j \in DOMAIN alerts :
        i < j => alerts[j].at - alerts[i].at > Suppress
===========================================================================
