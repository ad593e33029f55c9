------------------------- MODULE MCFollowerAlerts -------------------------
(***************************************************************************)
(* Small instances of FollowerAlerts: two followers around one rotation.   *)
(* What ties their alerts to each other is the exception type of the       *)
(* traceback: ExceptionType is evaluated for chains of up to three         *)
(* exceptions, with and without a message, among lines that look like one. *)
(***************************************************************************)
EXTENDS FollowerAlerts, TLC

Lines22 == <<2, 2>>
Lines42 == <<4, 2>>

\* Bound of the larger instance: the program writes tracebacks of a header
\* and one line, so that the first file holds two of them.
TracebacksWritten ==
    \A i \in Inodes : \A n \in DOMAIN content[i] :
        content[i][n] = IF n % 2 = 1 THEN "header" ELSE "text"

\* Bound: the clock moves once, or is set back, or forward, or the process is
\* restarted.  The clock moves when _maybe_alert has read it, as before that
\* nothing depends on it.  Setting it forward is to the alerts what the passing
\* of time is, and is followed up to the first alert only.
OneDisturbance ==
    /\ elapsed + setback * setback + restarts <= 1
    /\ elapsed # setback => alerts # <<>> \/ \E t \in Tids : call[t] # Alerting!NoCall
    /\ setback < 0 => alerts = <<>>

SmallRuns == TracebacksWritten /\ OneDisturbance

MCSymmetry == Permutations(Tids)

MCDeclared == {"ValueError: bad", "KeyError: 1", "DETAIL: y"}
MCPlain    == {"Traceback", "frame", "AssertionError", "[in f:1]"}
MCChains   ==
    UNION {[1..n -> [before : { <<"Traceback", "frame">>, <<"DETAIL: y", "frame">> },
                     line : {"ValueError: bad", "KeyError: 1", "AssertionError"},
                     after : { << >>, <<"">>, <<"[in f:1]">>, <<"DETAIL: y", "">> }]] :
           n \in 0..3}
===========================================================================
