----------------------------- MODULE LiveTail -----------------------------
(***************************************************************************)
(* The live tail page.  The follower pushes lines to a list per kind of    *)
(* log in Redis; the page asks for the head of the list of the kind it     *)
(* shows every two seconds, whether or not earlier requests are answered:  *)
(*                                                                         *)
(*     fetch(url)                    Ask                                   *)
(*     get_tail: LRANGE              Read                                  *)
(*     .then(lines => ...)           Arrive: show the lines that are newer *)
(*                                   than lastTs, the time of the newest   *)
(*     .catch(...)                   PollFails                             *)
(*                                                                         *)
(* Answers may overtake each other, and the user changes the kind of log,  *)
(* clears the page and hides lines while they are on their way.            *)
(***************************************************************************)
EXTENDS Integers, Sequences, SequencesExt, Sifting

CONSTANTS
    Kinds,        \* "app", "access"
    Unstamped,    \* the kinds whose lines may be without a time of their own
    Disordered,   \* the kinds whose stamps may go back
    Errors,       \* the lines with level ERROR; a line is its number in log
    Polls,        \* the requests that may be under way at a time
    PollLimit,    \* n=100
    FirstLines,   \* 30
    TerminalCap,  \* 1000
    TailCap,      \* LOG_TAIL_LINES
    Faults,       \* TRUE iff polls may fail and Redis may restart
    MaxTime, MaxLines

ASSUME TailAssumption ==
    /\ "app" \in Kinds /\ Unstamped \subseteq Kinds /\ Disordered \subseteq Kinds
    /\ Errors \subseteq Nat
    /\ PollLimit \in Nat \ {0} /\ FirstLines \in Nat \ {0}
    /\ TerminalCap \in Nat \ {0} /\ TailCap \in Nat \ {0}
    /\ Faults \in BOOLEAN /\ MaxTime \in Nat \ {0} /\ MaxLines \in Nat

VARIABLES
    now,          \* the clock of the follower and of the program that logs
    log,          \* history: the lines pushed, and whether they had a stamp
    tail,         \* logmon:tail:{app}:{kind}: line numbers, newest first
    poll,         \* what became of each request
    kind, lastTs, errorsOnly, terminal     \* of the page

pageVars == <<kind, lastTs, errorsOnly, terminal>>
vars     == <<now, log, tail, poll, pageVars>>

Null   == 0                                  \* lastTs before the first lines
NoPoll == [at |-> "none"]
Lines  == 1..MaxLines
At(m)  == log[m].occurred_at

TypeOK ==
    /\ now \in 1..MaxTime
    /\ log \in Seq([kind : Kinds, occurred_at : 1..MaxTime, stamped : BOOLEAN])
    /\ Len(log) <= MaxLines
    /\ tail \in [Kinds -> Seq(Lines)] /\ \A k \in Kinds : Len(tail[k]) <= TailCap
    /\ poll \in [Polls -> {NoPoll} \cup [at : {"asked"}, kind : Kinds]
                                  \cup [at : {"answered"}, lines : Seq(Lines)]]
    /\ kind \in Kinds /\ lastTs \in 0..MaxTime /\ errorsOnly \in BOOLEAN
    /\ terminal \in Seq(Lines) /\ Len(terminal) <= TerminalCap

Init ==
    /\ now = 1 /\ log = <<>>
    /\ tail = [k \in Kinds |-> <<>>]
    /\ poll = [p \in Polls |-> NoPoll]
    /\ kind = "app" /\ lastTs = Null /\ errorsOnly = FALSE /\ terminal = <<>>
---------------------------------------------------------------------------

Tick ==
    /\ now < MaxTime /\ now' = now + 1
    /\ UNCHANGED <<log, tail, poll, pageVars>>

\* The next line of k.  A program logs before the follower reads; in the order
\* of its stamps, or not: those of an access log are of the start of requests,
\* and local time goes back an hour in autumn.  A line without a stamp, as those
\* of a traceback, gets the time at which it is read.
NextLines(k) ==
    LET stamps  == {At(m) : m \in {j \in DOMAIN log : log[j].kind = k /\ log[j].stamped}}
        stamped == {t \in 1..now : k \in Disordered \/ \A s \in stamps : s <= t}
    IN  [kind : {k}, occurred_at : stamped, stamped : {TRUE}] \cup
        IF k \in Unstamped THEN [kind : {k}, occurred_at : {now}, stamped : {FALSE}] ELSE {}

FirstOf(s, n) == SubSeq(s, 1, IF Len(s) < n THEN Len(s) ELSE n)

Push(k) ==
    /\ Len(log) < MaxLines
    /\ \E l \in NextLines(k) : log' = Append(log, l)
    /\ tail' = [tail EXCEPT ![k] = FirstOf(<<Len(log) + 1>> \o @, TailCap)]
    /\ UNCHANGED <<now, poll, pageVars>>

RedisRestart ==
    /\ Faults
    /\ tail' = [k \in Kinds |-> <<>>]
    /\ UNCHANGED <<now, log, poll, pageVars>>

Ask(p) ==
    /\ poll[p] = NoPoll
    /\ poll' = [poll EXCEPT ![p] = [at |-> "asked", kind |-> kind]]
    /\ UNCHANGED <<now, log, tail, pageVars>>

Read(p) ==
    /\ poll[p].at = "asked"
    /\ poll' = [poll EXCEPT ![p] = [at |-> "answered",
                                    lines |-> FirstOf(tail[poll[p].kind], PollLimit)]]
    /\ UNCHANGED <<now, log, tail, pageVars>>

\* Mutant of Newer: ">=".
NewerOrSame == {m \in DOMAIN log : At(m) >= lastTs}

\* "l.occurred_at > lastTs"
Newer == {m \in DOMAIN log : At(m) > lastTs}

\* Mutant of Fresh: of every answer only the first lines are shown.
FreshFirst(lines) ==
    LET first == FirstOf(lines, FirstLines)
    IN  IF lastTs = Null THEN Reverse(first) ELSE Reverse(Sifted(first, Newer))

\* The lines of an answer that are shown, in chronological order.
Fresh(lines) ==
    IF lastTs = Null THEN Reverse(FirstOf(lines, FirstLines))
                     ELSE Reverse(Sifted(lines, Newer))

\* addLine hides lines by the kind shown now, and caps the terminal.
Visible == {m \in Lines : errorsOnly /\ kind = "app" => m \in Errors}

\* Mutant of Shown: one line too many is kept.
ShownLong(lines) ==
    LET all == terminal \o Sifted(lines, Visible)
    IN  SubSeq(all, IF Len(all) > TerminalCap + 1 THEN Len(all) - TerminalCap ELSE 1,
               Len(all))

Shown(lines) ==
    LET all == terminal \o Sifted(lines, Visible)
    IN  SubSeq(all, IF Len(all) > TerminalCap THEN Len(all) - TerminalCap + 1 ELSE 1,
               Len(all))

Arrive(p) ==
    /\ poll[p].at = "answered"
    /\ LET lines == poll[p].lines
       IN  /\ terminal' = Shown(Fresh(lines))
           /\ lastTs' = IF Fresh(lines) # <<>> THEN At(lines[1]) ELSE lastTs
    /\ poll' = [poll EXCEPT ![p] = NoPoll]
    /\ UNCHANGED <<now, log, tail, kind, errorsOnly>>

\* The request fails, in Redis, in the app or on the way.
PollFails(p) ==
    /\ Faults /\ poll[p] # NoPoll
    /\ poll' = [poll EXCEPT ![p] = NoPoll]
    /\ UNCHANGED <<now, log, tail, pageVars>>

\* Requests that are under way are not cancelled.
SetKind(k) ==
    /\ kind' = k /\ lastTs' = Null /\ terminal' = <<>>
    /\ UNCHANGED <<now, log, tail, poll, errorsOnly>>

ToggleErrorsOnly ==
    /\ errorsOnly' = ~errorsOnly
    /\ UNCHANGED <<now, log, tail, poll, kind, lastTs, terminal>>

\* Mutant of Clear: lastTs is kept.
ClearKeeping ==
    /\ terminal' = <<>>
    /\ UNCHANGED <<now, log, tail, poll, kind, lastTs, errorsOnly>>

Clear ==
    /\ terminal' = <<>> /\ lastTs' = Null
    /\ UNCHANGED <<now, log, tail, poll, kind, errorsOnly>>

Polling(p) == Ask(p) \/ Read(p) \/ Arrive(p)

Next ==
    \/ Tick \/ RedisRestart \/ \E k \in Kinds : Push(k)
    \/ \E p \in Polls : Polling(p) \/ PollFails(p)
    \/ ToggleErrorsOnly \/ Clear \/ \E k \in Kinds : SetKind(k)

Spec == Init /\ [][Next]_vars

\* The page polls for ever, and requests are answered in the end.
FairSpec == Spec /\ \A p \in Polls : WF_vars(Polling(p))
---------------------------------------------------------------------------

\* No line was pushed after one of its kind that has a later time.
LogOrdered ==
    \A m, n \in DOMAIN log : m < n /\ log[m].kind = log[n].kind => At(m) <= At(n)

\* However answers overtake each other, and whatever the user clicks meanwhile,
\* the lines of a kind are shown in the order of their log, and none twice, as
\* long as their times are in that order too.
ShownInOrder ==
    LogOrdered =>
    \A i, j \in DOMAIN terminal :
        (i < j /\ log[terminal[i]].kind = log[terminal[j]].kind)
        => terminal[i] < terminal[j]

\* No error between two lines that are shown is left out, but one with the
\* time of a line that was shown before it was pushed, or one that is too old
\* for the answer the next PollLimit lines came in; as long as times are in the
\* order of the log.
NoGaps ==
    LogOrdered =>
    \A i \in DOMAIN terminal : i + 1 \in DOMAIN terminal =>
        \A m \in Errors : terminal[i] < m /\ m < terminal[i + 1]
                          => \/ At(m) = At(terminal[i])
                             \/ i + PollLimit \in DOMAIN terminal

\* A line that no other of the log is out of order with.
InPlace(m) ==
    /\ m \in DOMAIN log
    /\ \A n \in DOMAIN log : /\ n < m => At(n) <= At(m)
                             /\ m < n => At(m) <= At(n)

\* The page catches up with the log: such a line is shown, or a later one, or
\* one of the same time; also after it was cleared, and after times have gone
\* back and caught up, until when lines may stay hidden.
LatestShown ==
    \A m \in Lines :
        InPlace(m) ~> \/ \E i \in DOMAIN terminal :
                            terminal[i] >= m \/ (InPlace(m) /\ At(terminal[i]) = At(m))
                      \/ ~InPlace(m)

\* live_tail.jinja2:121, "Only lines newer than what we've already shown".
ShownOnce ==
    \A i, j \in DOMAIN terminal : i # j => terminal[i] # terminal[j]
===========================================================================
