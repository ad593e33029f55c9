------------------------- MODULE AlertSuppression -------------------------
(***************************************************************************)
(* The check-then-act protocol by which every thread of the follower       *)
(* process decides whether an occurrence of an alert condition is mailed.  *)
(* FileFollower._maybe_alert, DiskMonitor._maybe_alert and                 *)
(* MemMonitor._maybe_alert are the same four steps:                        *)
(*                                                                         *)
(*     now = datetime.now()                                 Begin          *)
(*     row = AlertSuppression.query...first()               Query*         *)
(*     send_alert / send_disk_alert / send_mem_alert        Send           *)
(*     insert or update row.last_alerted_at; commit         Commit*        *)
(*                                                                         *)
(* Nothing locks the row between the steps, the mail cannot be taken back, *)
(* any step that touches MySQL may raise, and the process may be killed    *)
(* between any two of them.                                                *)
(***************************************************************************)
EXTENDS Integers, Sequences, FiniteSets

CONSTANTS
    Threads,      \* FileFollower, DiskMonitor and MemMonitor threads
    Keys,         \* (app_name, exception_type) pairs
    Users,        \* Users[k]: the threads that raise alerts under k
    Window,       \* Window[k]: the suppress_secs the callers apply to k
    Recipients,   \* TRUE iff ALERT_RECIPIENTS names somebody
    NoRow,        \* "row is None"
    Second,       \* the units of time in a second: datetime.now() has fractions
    MaxTime,      \* bound on the time that passes
    MaxSetBack,   \* the local clock is not set back when it is so far behind
    MaxSetForward,\* nor forward when it is so far ahead
    MaxAlerts     \* no occurrence begins once this many alerts were raised

ASSUME SuppressionAssumption ==
    /\ Users \in [Keys -> SUBSET Threads]
    /\ Window \in [Keys -> Nat]
    /\ Recipients \in BOOLEAN
    /\ NoRow \notin Int /\ Second \in Nat \ {0}
    /\ MaxTime \in Nat /\ MaxAlerts \in Nat
    /\ MaxSetBack \in Int /\ MaxSetForward \in Int

VARIABLES
    elapsed,      \* time that has really passed
    setback,      \* how far the local clock is behind, or, below 0, ahead
    table,        \* alert_suppression: last_alerted_at of each key, or NoRow
    call,         \* the _maybe_alert call of each thread
    alerts,       \* history: every call of send_*alert, in order
    suppressed    \* history: the occurrences that were not mailed

vars == <<elapsed, setback, table, call, alerts, suppressed>>

wall == elapsed - setback              \* datetime.now(): naive local time

NoCall == [pc |-> "idle"]
Calls  == [pc : {"query", "send", "commit"}, key : Keys, now : Int, real : Nat,
           row : Int \cup {NoRow}, alert : Nat]
Alerts == [key : Keys, at : Int, real : Nat,
           outcome : {"mailed", "lost", "skipped"}, recorded : BOOLEAN]
Occurrences == [key : Keys, at : Int, real : Nat]

TypeOK ==
    /\ elapsed \in Nat /\ setback \in Int
    /\ table \in [Keys -> Int \cup {NoRow}]
    /\ call \in [Threads -> {NoCall} \cup Calls]
    /\ alerts \in Seq(Alerts)
    /\ suppressed \subseteq Occurrences

---------------------------------------------------------------------------

Init ==
    /\ elapsed = 0 /\ setback = 0
    /\ table = [k \in Keys |-> NoRow]
    /\ call = [t \in Threads |-> NoCall]
    /\ alerts = <<>>
    /\ suppressed = {}

Tick ==
    /\ elapsed < MaxTime
    /\ elapsed' = elapsed + 1
    /\ UNCHANGED <<setback, table, call, alerts, suppressed>>

\* Local time is set back in autumn and forward in spring, by whole seconds.
SetBack ==
    /\ setback < MaxSetBack
    /\ setback' = setback + Second
    /\ UNCHANGED <<elapsed, table, call, alerts, suppressed>>

SetForward ==
    /\ -setback < MaxSetForward
    /\ setback' = setback - Second
    /\ UNCHANGED <<elapsed, table, call, alerts, suppressed>>

At(t, pc) == call[t].pc = pc

\* Mutants of Expired: the boundary counts as expired; the window is doubled.
ExpiredInclusive(k, now, row) == row # NoRow => now - row >= Window[k]
ExpiredLate(k, now, row) == row # NoRow => now - row > 2 * Window[k]

\* "row is None or (now - row.last_alerted_at).total_seconds() > suppress_secs"
Expired(k, now, row) == row # NoRow => now - row > Window[k]

\* Thread t meets the alert condition of k; the clock is read first.
Begin(t, k) ==
    /\ At(t, "idle") /\ t \in Users[k]
    /\ Len(alerts) < MaxAlerts
    /\ call' = [call EXCEPT ![t] =
           [pc |-> "query", key |-> k, now |-> wall, real |-> elapsed,
            row |-> NoRow, alert |-> 0]]
    /\ UNCHANGED <<elapsed, setback, table, alerts, suppressed>>

\* The row is read and its window still runs: nothing is sent.
QuerySuppressed(t) ==
    /\ At(t, "query")
    /\ LET k == call[t].key IN
         /\ ~Expired(k, call[t].now, table[k])
         /\ suppressed' = suppressed \cup
                {[key |-> k, at |-> call[t].now, real |-> call[t].real]}
    /\ call' = [call EXCEPT ![t] = NoCall]
    /\ UNCHANGED <<elapsed, setback, table, alerts>>

\* The row is absent or its window has passed: the call goes on to send.
QueryExpired(t) ==
    /\ At(t, "query")
    /\ LET k == call[t].key IN
         /\ Expired(k, call[t].now, table[k])
         /\ call' = [call EXCEPT ![t] =
                [pc |-> "send", key |-> k, now |-> call[t].now,
                 real |-> call[t].real, row |-> table[k], alert |-> 0]]
    /\ UNCHANGED <<elapsed, setback, table, alerts, suppressed>>

\* send_*alert returns in every case: without recipients it skips, and an
\* exception of sendmail is logged and swallowed.
Outcomes == IF Recipients THEN {"mailed", "lost"} ELSE {"skipped"}

Send(t) ==
    /\ At(t, "send")
    /\ \E o \in Outcomes :
         alerts' = Append(alerts, [key |-> call[t].key, at |-> call[t].now,
                       real |-> call[t].real, outcome |-> o, recorded |-> FALSE])
    /\ call' = [call EXCEPT ![t] =
           [pc |-> "commit", key |-> call[t].key, now |-> call[t].now,
            real |-> call[t].real, row |-> call[t].row,
            alert |-> Len(alerts) + 1]]
    /\ UNCHANGED <<elapsed, setback, table, suppressed>>

\* The row is inserted, which uq_app_exc refuses if another thread has
\* inserted it meanwhile, or the row that was read is updated.
Committable(t) == call[t].row = NoRow => table[call[t].key] = NoRow

\* last_alerted_at is a DATETIME without fractions, to which MySQL rounds.
Stored(now) == Second * ((2 * now + Second) \div (2 * Second))

\* Mutant of Commit: a new row is not added to the session.
CommitUpdateOnly(t) ==
    /\ At(t, "commit") /\ Committable(t)
    /\ table' = IF call[t].row = NoRow THEN table
                ELSE [table EXCEPT ![call[t].key] = Stored(call[t].now)]
    /\ alerts' = [alerts EXCEPT ![call[t].alert].recorded = TRUE]
    /\ call' = [call EXCEPT ![t] = NoCall]
    /\ UNCHANGED <<elapsed, setback, suppressed>>

Commit(t) ==
    /\ At(t, "commit") /\ Committable(t)
    /\ table' = [table EXCEPT ![call[t].key] = Stored(call[t].now)]
    /\ alerts' = [alerts EXCEPT ![call[t].alert].recorded = TRUE]
    /\ call' = [call EXCEPT ![t] = NoCall]
    /\ UNCHANGED <<elapsed, setback, suppressed>>

\* The steps that touch MySQL: with recipients also send_alert, which reads the
\* event that the commit before it has expired, outside of its try.
Touches(t) == At(t, "query") \/ At(t, "commit") \/ (Recipients /\ At(t, "send"))

\* Mutant of DatabaseError: what the failed call had read is left behind.
DatabaseErrorStale(t) ==
    /\ Touches(t)
    /\ call' = [call EXCEPT ![t].pc = "idle"]
    /\ UNCHANGED <<elapsed, setback, table, alerts, suppressed>>

\* MySQL is away, or refuses the row: the exception leaves _maybe_alert and is
\* logged by the caller.
DatabaseError(t) ==
    /\ Touches(t)
    /\ call' = [call EXCEPT ![t] = NoCall]
    /\ UNCHANGED <<elapsed, setback, table, alerts, suppressed>>

\* The follower container is killed and restarted: calls are forgotten.
Restart ==
    /\ \E t \in Threads : ~At(t, "idle")
    /\ call' = [t \in Threads |-> NoCall]
    /\ UNCHANGED <<elapsed, setback, table, alerts, suppressed>>

Call(t) ==
    \/ \E k \in Keys : Begin(t, k)
    \/ QuerySuppressed(t) \/ QueryExpired(t)
    \/ Send(t)
    \/ Commit(t) \/ DatabaseError(t)

Next ==
    \/ Tick \/ SetBack \/ SetForward \/ Restart
    \/ \E t \in Threads : Call(t)

Spec == Init /\ [][Next]_vars

---------------------------------------------------------------------------

\* A key whose alerts only one thread raises: a mount of the disk monitor,
\* the swap of the memory monitor, an application with one log follower.
Exclusive(k) == \A t, u \in Users[k] : t = u

\* Once an alert of an exclusive key is recorded, no alert of that key is
\* raised within its window, whatever queries and commits fail, whenever the
\* process restarts and however the clock is set: only an alert whose commit
\* failed can be repeated early.  The window is that of the local clock and
\* begins at the second nearest to the alert, up to half a second earlier.
RecordedAlertsSpaced ==
    \A i, j \in DOMAIN alerts :
        (/\ i < j
         /\ alerts[i].recorded
         /\ alerts[i].key = alerts[j].key
         /\ Exclusive(alerts[i].key))
        => alerts[j].at - Stored(alerts[i].at) > Window[alerts[i].key]

\* An occurrence is suppressed only on account of an alert of its key that
\* was raised and recorded, and whose window, which begins at the second
\* nearest to it, had not run out by the clock.
SuppressionJustified ==
    \A s \in suppressed : \E i \in DOMAIN alerts :
        /\ alerts[i].key = s.key /\ alerts[i].recorded
        /\ s.at - Stored(alerts[i].at) <= Window[s.key]
===========================================================================
