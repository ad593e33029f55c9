--------------------------- MODULE FileFollower ---------------------------
(***************************************************************************)
(* One configured log path of the follower process: the FollowerManager    *)
(* that keeps a FileFollower thread on it, the threads (the current one    *)
(* and those a rotation has told to stop), the file with its writer and    *)
(* its rotation, the events the threads commit to MySQL and the live tail  *)
(* they push to Redis.                                                     *)
(*                                                                         *)
(* Paths do not interact: the manager's registry is keyed by path, and a   *)
(* scan treats the paths one after the other.  A line is its index in the  *)
(* file (files only grow; copytruncate is not modelled) and has a kind,    *)
(* which is all that the parsers tell apart.                               *)
(***************************************************************************)
EXTENDS Integers, Sequences, FiniteSets

CONSTANTS
    Tids,         \* FileFollower objects; a dead one stands for a new one
    NoFollower,   \* "self._followers.get(filepath) is None"
    Parser,       \* "app" or "access"
    Written,      \* the kinds of line the followed program writes
    MaxInodes,    \* bound: files the log is rotated through
    MaxLines,     \* bound: MaxLines[i] lines in file i
    TailMax,      \* LOG_TAIL_LINES
    Faults,       \* TRUE iff MySQL and Redis calls may raise
    MaxRestarts   \* bound: restarts of the follower process

\* App logs: a line that introduces a traceback, a line of level ERROR, any
\* other line with a timestamp, and a line without one.  Access logs: a line
\* RE_ACCESS matches, and any other.  In both: a line whose timestamp the
\* regular expression accepts and strptime does not.
Kinds == IF Parser = "app"
         THEN {"header", "error", "other", "text", "badstamp"}
         ELSE {"hit", "junk", "badstamp"}

ASSUME FollowerAssumption ==
    /\ NoFollower \notin Tids
    /\ Parser \in {"app", "access"}
    /\ Written \subseteq Kinds
    /\ MaxInodes \in Nat \ {0} /\ MaxLines \in [1..MaxInodes -> Nat]
    /\ TailMax \in Nat \ {0}
    /\ Faults \in BOOLEAN /\ MaxRestarts \in Nat

VARIABLES
    content,      \* content[i]: the kinds of the lines of file (inode) i
    newest,       \* the last inode created; inodes are not reused while open
    path,         \* the inode the log path names, or 0 (missing)
    writer,       \* the inode the followed program writes to
    pc,           \* control state of each thread
    stop,         \* its _stop_event
    fd,           \* the inode its file object has open
    pos,          \* lines of that file it has read or skipped
    pending,      \* the header whose traceback it assembles, or 0 (None)
    tb,           \* tb_lines
    held,         \* a line it has read and not yet acted upon, or 0
    mpc,          \* control state of the manager thread
    follower,     \* self._followers[filepath]
    restarts,     \* restarts of the process so far
    events,       \* log_event or access_event rows, in commit order
    tail          \* the Redis list logmon:tail:<app>:<kind>, newest first

fileVars    == <<content, newest, path, writer>>
recordVars  == <<pending, tb, held>>
threadVars  == <<pc, stop, fd, pos, pending, tb, held>>
managerVars == <<mpc, follower, restarts>>
vars == <<fileVars, threadVars, managerVars, events, tail>>

Inodes == 1..MaxInodes
Lines  == Nat \ {0}
Event  == [ino : Inodes, line : Lines, tb : Seq(Lines)]
Entry  == [ino : Inodes, line : Lines]

Live(t) == pc[t] \notin {"none", "dead"}
\* FileFollower.inode is None until fstat, which run() calls before it seeks.
InodeKnown(t) == pc[t] \notin {"open", "seek"}
AtEOF(t) == pos[t] >= Len(content[fd[t]])
Kind(t, n) == content[fd[t]][n]

TypeOK ==
    /\ content \in [Inodes -> Seq(Kinds)]
    /\ newest \in Inodes /\ path \in {0} \cup Inodes /\ writer \in Inodes
    /\ pc \in [Tids -> {"none", "open", "seek", "check", "read", "commit",
                        "alert", "persist", "dead"}]
    /\ stop \in [Tids -> BOOLEAN]
    /\ fd \in [Tids -> {0} \cup Inodes]
    /\ pos \in [Tids -> Nat]
    /\ pending \in [Tids -> Nat] /\ held \in [Tids -> Nat]
    /\ tb \in [Tids -> Seq(Lines)]
    /\ mpc \in {"idle", "look", "stat", "recheck", "start"}
    /\ follower \in Tids \cup {NoFollower}
    /\ restarts \in Nat
    /\ events \in Seq(Event)
    /\ tail \in Seq(Entry) /\ Len(tail) <= TailMax

Init ==
    /\ content = [i \in Inodes |-> <<>>]
    /\ newest = 1 /\ path = 1 /\ writer = 1
    /\ pc = [t \in Tids |-> "none"]
    /\ stop = [t \in Tids |-> FALSE]
    /\ fd = [t \in Tids |-> 0]
    /\ pos = [t \in Tids |-> 0]
    /\ pending = [t \in Tids |-> 0] /\ held = [t \in Tids |-> 0]
    /\ tb = [t \in Tids |-> <<>>]
    /\ mpc = "idle" /\ follower = NoFollower
    /\ restarts = 0
    /\ events = <<>> /\ tail = <<>>

---------------------------------------------------------------------------
(* The followed program and its log rotation (outside src/).               *)

\* The program flushes one line to the file it has open.
WriteLine(k) ==
    /\ Len(content[writer]) < MaxLines[writer]
    /\ content' = [content EXCEPT ![writer] = Append(@, k)]
    /\ UNCHANGED <<newest, path, writer, threadVars, managerVars, events, tail>>

\* Rotation renames the log away, creates a new file, and has the program
\* reopen the path; until then the program still writes to the old file.
MoveAway ==
    /\ path # 0 /\ newest < MaxInodes
    /\ path' = 0
    /\ UNCHANGED <<content, newest, writer, threadVars, managerVars, events, tail>>

Create ==
    /\ path = 0 /\ newest < MaxInodes
    /\ newest' = newest + 1 /\ path' = newest + 1
    /\ UNCHANGED <<content, writer, threadVars, managerVars, events, tail>>

Reopen ==
    /\ path # 0 /\ writer # path
    /\ writer' = path
    /\ UNCHANGED <<content, newest, path, threadVars, managerVars, events, tail>>

FileStep == (\E k \in Written : WriteLine(k)) \/ MoveAway \/ Create \/ Reopen

---------------------------------------------------------------------------
(* FileFollower                                                            *)

Goto(t, s) == pc' = [pc EXCEPT ![t] = s]

\* open(filepath); the path may have gone since the manager looked.
Open(t) ==
    /\ pc[t] = "open"
    /\ IF path # 0
       THEN fd' = [fd EXCEPT ![t] = path] /\ Goto(t, "seek")
       ELSE fd' = fd /\ Goto(t, "dead")
    /\ UNCHANGED <<fileVars, stop, pos, recordVars, managerVars, events, tail>>

\* Mutant of Seek: the follower starts at the beginning of the file.
SeekStart(t) ==
    /\ pc[t] = "seek"
    /\ pos' = [pos EXCEPT ![t] = 0]
    /\ Goto(t, "check")
    /\ UNCHANGED <<fileVars, stop, fd, recordVars, managerVars, events, tail>>

\* self.inode = fstat(...); fh.seek(0, 2)
Seek(t) ==
    /\ pc[t] = "seek"
    /\ pos' = [pos EXCEPT ![t] = Len(content[fd[t]])]
    /\ Goto(t, "check")
    /\ UNCHANGED <<fileVars, stop, fd, recordVars, managerVars, events, tail>>

\* while not self._stop_event.is_set()
CheckStop(t) ==
    /\ pc[t] = "check"
    /\ Goto(t, IF stop[t] THEN "dead" ELSE "read")
    /\ UNCHANGED <<fileVars, stop, fd, pos, recordVars, managerVars, events, tail>>

\* readline returns "": a traceback with lines is taken to be complete.
ReadNothing(t) ==
    /\ pc[t] = "read" /\ AtEOF(t)
    /\ Goto(t, IF pending[t] # 0 /\ tb[t] # <<>> THEN "commit" ELSE "check")
    /\ UNCHANGED <<fileVars, stop, fd, pos, recordVars, managerVars, events, tail>>

\* Mutant of Trimmed: LTRIM 0 TailMax keeps one entry too many.
TrimmedLate(s) == IF Len(s) > TailMax + 1 THEN SubSeq(s, 1, TailMax + 1) ELSE s

\* LTRIM 0 TailMax-1
Trimmed(s) == IF Len(s) > TailMax THEN SubSeq(s, 1, TailMax) ELSE s

\* Mutant of Pushed: RPUSH for LPUSH.
PushedLast(t, n) == Trimmed(Append(tail, [ino |-> fd[t], line |-> n]))

\* LPUSH then LTRIM, in one transaction.
Pushed(t, n) == Trimmed(<<[ino |-> fd[t], line |-> n]>> \o tail)

\* _push_redis logs and swallows every exception of Redis.
PushRedis(t, n) == tail' = Pushed(t, n) \/ (Faults /\ tail' = tail)

\* readline returns the next line, which is pushed to the tail.
ReadLine(t, kinds) ==
    /\ pc[t] = "read" /\ ~AtEOF(t)
    /\ Kind(t, pos[t] + 1) \in kinds
    /\ pos' = [pos EXCEPT ![t] = @ + 1]
    /\ UNCHANGED <<fileVars, stop, fd, managerVars, events>>

\* parse_app_line and parse_access_line raise in _push_redis, outside of its
\* try: run() ends.
ReadBadStamp(t) ==
    /\ ReadLine(t, {"badstamp"})
    /\ Goto(t, "dead")
    /\ UNCHANGED <<recordVars, tail>>

\* A line without a timestamp continues the pending traceback.
ReadContinuation(t) ==
    /\ ReadLine(t, {"text"}) /\ PushRedis(t, pos[t] + 1)
    /\ pending[t] # 0
    /\ tb' = [tb EXCEPT ![t] = Append(@, pos[t] + 1)]
    /\ Goto(t, "check")
    /\ UNCHANGED <<pending, held>>

\* A line with a timestamp ends the pending traceback, which is committed
\* before the line itself is looked at.
ReadNextRecord(t) ==
    /\ ReadLine(t, {"header", "error", "other"}) /\ PushRedis(t, pos[t] + 1)
    /\ pending[t] # 0
    /\ held' = [held EXCEPT ![t] = pos[t] + 1]
    /\ Goto(t, "commit")
    /\ UNCHANGED <<pending, tb>>

\* With nothing pending: a header becomes pending; an ERROR or an access
\* line is persisted at once; all else is skipped.
ReadHeader(t) ==
    /\ ReadLine(t, {"header"}) /\ PushRedis(t, pos[t] + 1)
    /\ pending[t] = 0
    /\ pending' = [pending EXCEPT ![t] = pos[t] + 1]
    /\ Goto(t, "check")
    /\ UNCHANGED <<tb, held>>

ReadSingle(t) ==
    /\ ReadLine(t, {"error", "hit"}) /\ PushRedis(t, pos[t] + 1)
    /\ pending[t] = 0
    /\ held' = [held EXCEPT ![t] = pos[t] + 1]
    /\ Goto(t, "persist")
    /\ UNCHANGED <<pending, tb>>

ReadSkipped(t) ==
    /\ ReadLine(t, {"other", "text", "junk"}) /\ PushRedis(t, pos[t] + 1)
    /\ pending[t] = 0
    /\ Goto(t, "check")
    /\ UNCHANGED recordVars

\* Mutants of Resume: the line that ended the traceback is forgotten; the
\* traceback lines are kept.
ResumeForgetting(t) ==
    /\ pending' = [pending EXCEPT ![t] = 0]
    /\ tb' = [tb EXCEPT ![t] = <<>>]
    /\ held' = [held EXCEPT ![t] = 0]
    /\ Goto(t, "check")

ResumeKeeping(t) ==
    LET n == held[t] IN
    /\ pending' = [pending EXCEPT ![t] =
           IF n # 0 /\ Kind(t, n) = "header" THEN n ELSE 0]
    /\ UNCHANGED tb
    /\ IF n # 0 /\ Kind(t, n) = "error"
       THEN held' = held /\ Goto(t, "persist")
       ELSE held' = [held EXCEPT ![t] = 0] /\ Goto(t, "check")

\* "pending, tb_lines = None, []", and then the line that ended the
\* traceback, if one did, is parsed as if it had just been read.
Resume(t) ==
    LET n == held[t] IN
    /\ pending' = [pending EXCEPT ![t] =
           IF n # 0 /\ Kind(t, n) = "header" THEN n ELSE 0]
    /\ tb' = [tb EXCEPT ![t] = <<>>]
    /\ IF n # 0 /\ Kind(t, n) = "error"
       THEN held' = held /\ Goto(t, "persist")
       ELSE held' = [held EXCEPT ![t] = 0] /\ Goto(t, "check")

\* Mutant of CommitApp: the alert is considered without the commit.
CommitAppUnsaved(t) ==
    /\ pc[t] = "commit"
    /\ \/ tb[t] # <<>> /\ Goto(t, "alert") /\ UNCHANGED recordVars
       \/ Resume(t)
    /\ UNCHANGED <<fileVars, stop, fd, pos, managerVars, events, tail>>

\* Mutant of CommitApp: the row takes the place of the last one.
CommitAppMerged(t) ==
    /\ pc[t] = "commit"
    /\ events' = Append(SubSeq(events, 1, Len(events) - 1),
                        [ino |-> fd[t], line |-> pending[t], tb |-> tb[t]])
    /\ \/ tb[t] # <<>> /\ Goto(t, "alert") /\ UNCHANGED recordVars
       \/ Resume(t)
    /\ UNCHANGED <<fileVars, stop, fd, pos, managerVars, tail>>

\* _commit_app: the LogEvent is committed; an alert is considered only when
\* the traceback lines name an exception type (blank lines do not).
CommitApp(t) ==
    /\ pc[t] = "commit"
    /\ events' = Append(events, [ino |-> fd[t], line |-> pending[t], tb |-> tb[t]])
    /\ \/ tb[t] # <<>> /\ Goto(t, "alert") /\ UNCHANGED recordVars
       \/ Resume(t)
    /\ UNCHANGED <<fileVars, stop, fd, pos, managerVars, tail>>

\* The commit raises: the record is dropped.
CommitAppFails(t) ==
    /\ Faults /\ pc[t] = "commit"
    /\ Resume(t)
    /\ UNCHANGED <<fileVars, stop, fd, pos, managerVars, events, tail>>

\* _maybe_alert returns or raises (see AlertSuppression).
AlertReturns(t) ==
    /\ pc[t] = "alert"
    /\ Resume(t)
    /\ UNCHANGED <<fileVars, stop, fd, pos, managerVars, events, tail>>

\* _persist_app_event(parsed, "") of a single ERROR line, or
\* _persist_access_event.
Persist(t) ==
    /\ pc[t] = "persist"
    /\ events' = Append(events, [ino |-> fd[t], line |-> held[t], tb |-> <<>>])
    /\ held' = [held EXCEPT ![t] = 0]
    /\ Goto(t, "check")
    /\ UNCHANGED <<fileVars, stop, fd, pos, pending, tb, managerVars, tail>>

\* The app loop swallows the exception; the access loop has no try, and the
\* thread ends.
PersistFails(t) ==
    /\ Faults /\ pc[t] = "persist"
    /\ held' = [held EXCEPT ![t] = 0]
    /\ Goto(t, IF Parser = "app" THEN "check" ELSE "dead")
    /\ UNCHANGED <<fileVars, stop, fd, pos, pending, tb, managerVars, events, tail>>

Thread(t) ==
    \/ Open(t) \/ Seek(t) \/ CheckStop(t) \/ ReadNothing(t)
    \/ ReadBadStamp(t) \/ ReadContinuation(t) \/ ReadNextRecord(t)
    \/ ReadHeader(t) \/ ReadSingle(t) \/ ReadSkipped(t)
    \/ CommitApp(t) \/ CommitAppFails(t) \/ AlertReturns(t)
    \/ Persist(t) \/ PersistFails(t)

---------------------------------------------------------------------------
(* FollowerManager._ensure_follower                                        *)

\* os.path.exists(filepath)
ScanExists ==
    /\ mpc = "idle" /\ path # 0
    /\ mpc' = "look"
    /\ UNCHANGED <<fileVars, threadVars, follower, restarts, events, tail>>

\* "follower is not None and follower.is_alive()"
ScanLook ==
    /\ mpc = "look"
    /\ mpc' = IF follower # NoFollower /\ Live(follower) THEN "stat" ELSE "start"
    /\ UNCHANGED <<fileVars, threadVars, follower, restarts, events, tail>>

\* Mutants of Rotated: "follower.inode is not None" is not asked; the
\* follower is stopped when the file is missing, not when it is another.
RotatedUnguarded == path # 0 /\ (InodeKnown(follower) => path # fd[follower])
RotatedMissing == InodeKnown(follower) /\ path = 0

\* os.stat succeeds and names another inode than the follower has open.
Rotated == InodeKnown(follower) /\ path # 0 /\ path # fd[follower]

\* Mutant of ScanRotated: the old follower is not stopped.
ScanRotatedNoStop ==
    /\ mpc = "stat" /\ Rotated
    /\ mpc' = "start"
    /\ UNCHANGED <<fileVars, threadVars, follower, restarts, events, tail>>

\* The rotated follower is stopped, and a new one is started.
ScanRotated ==
    /\ mpc = "stat" /\ Rotated
    /\ stop' = [stop EXCEPT ![follower] = TRUE]
    /\ mpc' = "start"
    /\ UNCHANGED <<fileVars, pc, fd, pos, recordVars, follower, restarts, events, tail>>

\* The inode is not known yet, os.stat raises, or the file is the same.
ScanSame ==
    /\ mpc = "stat" /\ ~Rotated
    /\ mpc' = "recheck"
    /\ UNCHANGED <<fileVars, threadVars, follower, restarts, events, tail>>

\* "follower is None or not follower.is_alive()"
ScanRecheck ==
    /\ mpc = "recheck"
    /\ mpc' = IF Live(follower) THEN "idle" ELSE "start"
    /\ UNCHANGED <<fileVars, threadVars, follower, restarts, events, tail>>

\* A new FileFollower is created, started and entered in the registry, which
\* nobody else reads.
ScanStart(t) ==
    /\ mpc = "start" /\ ~Live(t)
    /\ pc' = [pc EXCEPT ![t] = "open"]
    /\ stop' = [stop EXCEPT ![t] = FALSE]
    /\ fd' = [fd EXCEPT ![t] = 0] /\ pos' = [pos EXCEPT ![t] = 0]
    /\ pending' = [pending EXCEPT ![t] = 0] /\ held' = [held EXCEPT ![t] = 0]
    /\ tb' = [tb EXCEPT ![t] = <<>>]
    /\ follower' = t
    /\ mpc' = "idle"
    /\ UNCHANGED <<fileVars, restarts, events, tail>>

Manager ==
    \/ ScanExists \/ ScanLook \/ ScanRotated \/ ScanSame \/ ScanRecheck
    \/ \E t \in Tids : ScanStart(t)

\* The follower service is killed and restarted (restart: always); MySQL and
\* Redis keep what they have.
Restart ==
    /\ restarts < MaxRestarts
    /\ restarts' = restarts + 1
    /\ pc' = [t \in Tids |-> "dead"]
    /\ mpc' = "idle" /\ follower' = NoFollower
    /\ UNCHANGED <<fileVars, stop, fd, pos, recordVars, events, tail>>

\* Redis restarts; its data is not kept.
RedisRestart ==
    /\ Faults /\ tail # <<>>
    /\ tail' = <<>>
    /\ UNCHANGED <<fileVars, threadVars, managerVars, events>>

Next ==
    \/ FileStep
    \/ \E t \in Tids : Thread(t)
    \/ Manager
    \/ Restart \/ RedisRestart

Spec == Init /\ [][Next]_vars

\* Threads are scheduled, and the manager scans for ever; nothing is assumed
\* of the writer, of rotations, of faults or of restarts.
Fairness ==
    /\ \A t \in Tids : WF_vars(Thread(t))
    /\ WF_vars(Manager)

FairSpec == Spec /\ Fairness

---------------------------------------------------------------------------
\* The last line that an event accounts for.
LastLine(e) == e.line + Len(e.tb)

\* The events of one file follow each other in the file: no line is part of
\* two events, and none is persisted after a later one, across rotations,
\* deaths of threads, restarts of the process and failed commits.
EventsInFileOrder ==
    \A i, j \in DOMAIN events :
        (i < j /\ events[i].ino = events[j].ino)
        => LastLine(events[i]) < events[j].line

\* A persisted traceback is a run of consecutive lines without a timestamp,
\* right after its header, all of one file.
TracebacksContiguous ==
    \A i \in DOMAIN events : LET e == events[i] IN
        /\ LastLine(e) <= Len(content[e.ino])
        /\ e.tb # <<>> => content[e.ino][e.line] = "header"
        /\ \A n \in DOMAIN e.tb :
              e.tb[n] = e.line + n /\ content[e.ino][e.tb[n]] = "text"

\* All of this keeps the promise of LineIngest, to which the threads and the
\* manager are hidden: what is recorded stays recorded, too.
Ingest     == INSTANCE LineIngest
IngestSpec == Ingest!Spec

\* app.py:47 speaks of one FileFollower thread per log file: no two live
\* threads, stopped or not, have the same file open, so that a line is read
\* by one of them only.
OneReaderPerFile ==
    \A t, u \in Tids :
        (Live(t) /\ Live(u) /\ fd[t] # 0 /\ fd[t] = fd[u]) => t = u

\* Every live follower that was not told to stop is the one the manager has
\* registered: no thread is left behind that nobody can stop.
NoStrayFollower ==
    \A t \in Tids : (Live(t) /\ ~stop[t]) => follower = t

\* The tail of the log is newest first: entries of one file appear in
\* reverse file order and never twice, whatever pushes were lost.
TailNewestFirst ==
    \A i, j \in DOMAIN tail :
        (i < j /\ tail[i].ino = tail[j].ino) => tail[i].line > tail[j].line

Following(i) == \E t \in Tids :
    Live(t) /\ InodeKnown(t) /\ ~stop[t] /\ fd[t] = i

\* Once rotation leaves a file in place, some follower follows it.
CurrentFileFollowed ==
    \A i \in Inodes : path = i ~> (path # i \/ Following(i))

\* A line that asks for an event: an ERROR, an access, or a header that at
\* least one traceback line follows.
WantsEvent(i, n) ==
    /\ n <= Len(content[i])
    /\ \/ content[i][n] \in {"error", "hit"}
       \/ /\ content[i][n] = "header"
          /\ n < Len(content[i]) /\ content[i][n + 1] = "text"

\* Without faults a follower persists every such line it has not yet read,
\* even if nothing more is ever written, unless it is told to stop.
ErrorsPersisted ==
    \A t \in Tids, i \in Inodes : \A n \in 1..MaxLines[i] :
        (Live(t) /\ InodeKnown(t) /\ fd[t] = i /\ pos[t] < n /\ WantsEvent(i, n))
        ~> (stop[t] \/ \E j \in DOMAIN events :
                           events[j].ino = i /\ events[j].line = n)
===========================================================================
