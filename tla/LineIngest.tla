----------------------------- MODULE LineIngest -----------------------------
(***************************************************************************)
(* What the follower of a log promises, whatever threads it takes, dies    *)
(* and restarts with: files only grow, and an event is recorded for ever   *)
(* of lines that are there, are consecutive and are after all lines of     *)
(* their file that an event was recorded of.                               *)
(***************************************************************************)
EXTENDS Integers, Sequences

CONSTANTS Inodes, Kinds

VARIABLES
    content,      \* the kinds of the lines of each file
    events        \* the events that are recorded

vars == <<content, events>>

Event == [ino : Inodes, line : Nat \ {0}, tb : Seq(Nat \ {0})]

\* The last line that an event is of.
LastLine(e) == e.line + Len(e.tb)

\* The event is of a line of its file, and of the text that follows a header.
Found(e) ==
    /\ LastLine(e) <= Len(content[e.ino])
    /\ e.tb # <<>> => content[e.ino][e.line] = "header"
    /\ \A n \in DOMAIN e.tb : e.tb[n] = e.line + n /\ content[e.ino][e.tb[n]] = "text"

\* No line of the event, and no later one, is of an event that is recorded.
New(e) == \A i \in DOMAIN events : events[i].ino = e.ino => LastLine(events[i]) < e.line

Init == content = [i \in Inodes |-> <<>>] /\ events = <<>>

Grow == \E i \in Inodes, k \in Kinds :
    /\ content' = [content EXCEPT ![i] = Append(@, k)]
    /\ UNCHANGED events

\* One event is recorded, as the last.
Record == \E i \in DOMAIN events' :
    LET e == events'[i] IN
    /\ e \in Event /\ Found(e) /\ New(e)
    /\ events' = Append(events, e)
    /\ UNCHANGED content

Spec == Init /\ [][Grow \/ Record]_vars
===========================================================================
