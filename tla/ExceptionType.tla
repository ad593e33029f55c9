--------------------------- MODULE ExceptionType ---------------------------
(***************************************************************************)
(* The exception_type of a traceback, by which alerts are suppressed: what *)
(* extract_exception_type makes of the lines that follow a header.         *)
(*                                                                         *)
(* A line is blank, or a text, and some texts look like the line by which  *)
(* Python ends a traceback, "ValueError: bad".                             *)
(***************************************************************************)
EXTENDS Integers, Sequences, SequencesExt

CONSTANTS
    Declared,     \* the texts that _EXC_LINE_RE matches
    Plain,        \* other texts: frames, "During handling of ...", "[in f:1]"
    Blank,        \* a line of white space
    NoType,       \* None
    Chains        \* exceptions, each raised while the one before is handled

ASSUME ExceptionAssumption ==
    /\ Declared \cap Plain = {} /\ Blank \notin Declared \cup Plain
    /\ NoType \notin Declared \cup Plain
    /\ \A c \in Chains : c \in Seq([before : Seq(Declared \cup Plain \cup {Blank}),
                                    line : Declared \cup Plain,
                                    after : Seq(Declared \cup Plain \cup {Blank})])
---------------------------------------------------------------------------

\* The lines of "l for l in traceback_text.splitlines() if l.strip()"
NonBlank(text) == {i \in DOMAIN text : text[i] # Blank}

\* The lines of them that look like that of an exception.
Found(text) == {i \in NonBlank(text) : text[i] \in Declared}

\* Mutant of ExceptionLine: the lines are not looked at from the last.
ExceptionLineFirst(text) ==
    CASE NonBlank(text) = {} -> NoType
      [] Found(text) # {}    -> text[Min(Found(text))]
      [] OTHER               -> text[Max(NonBlank(text))]

\* extract_exception_type
ExceptionLine(text) ==
    CASE NonBlank(text) = {} -> NoType
      [] Found(text) # {}    -> text[Max(Found(text))]
      [] OTHER               -> text[Max(NonBlank(text))]

\* What Python prints of a chain, with the log's suffix and the lines without
\* a time that come after it, which the follower appends to the traceback.
Printed(chain) ==
    FlattenSeq([i \in DOMAIN chain |->
                   chain[i].before \o <<chain[i].line>> \o chain[i].after])

---------------------------------------------------------------------------
\* An alert is suppressed by the exception that ended the traceback, whatever
\* was raised before it, as far as it has a message and no later line of the
\* traceback looks like an exception: such a line is taken in its place, the
\* last of them.  An exception without a message is hidden behind an earlier
\* one that has one; where nothing looks like one, the last line counts.
LastRaisedCounts ==
    \A chain \in Chains : chain # <<>> =>
        LET text  == Printed(chain)
            found == ExceptionLine(text)
            last  == Last(chain)
            later == Found(last.after)
        IN  /\ (last.line \in Declared /\ later = {}) => found = last.line
            /\ later # {} => found = last.after[Max(later)]
            /\ (Found(text) = {} /\ NonBlank(last.after) = {}) => found = last.line
            /\ found # NoType
===========================================================================
