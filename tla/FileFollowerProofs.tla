------------------------ MODULE FileFollowerProofs ------------------------
(***************************************************************************)
(* Theorems about FileFollower, for every set of follower objects, every   *)
(* number and length of files, and whatever faults, rotations and restarts *)
(* happen.                                                                 *)
(***************************************************************************)
EXTENDS FollowedLogs, SequenceLemmas, SequenceTheorems, TLAPS

\* A push keeps the type and the cap of the tail.
LEMMA PushType ==
  ASSUME FollowerAssumption, TypeOK, NEW t \in Tids, NEW n \in Lines,
         fd[t] \in Inodes, PushRedis(t, n)
  PROVE  tail' \in Seq(Entry) /\ Len(tail') <= TailMax
<1> DEFINE e == [ino |-> fd[t], line |-> n]
           s == <<e>> \o tail
<1>1. e \in Entry BY DEF Entry
<1>2. s \in Seq(Entry) /\ Len(s) = 1 + Len(tail)
  BY <1>1, ConcatProperties DEF TypeOK
<1>3. CASE tail' = tail BY <1>3 DEF TypeOK
<1>4. CASE tail' = Pushed(t, n) /\ Len(s) > TailMax
  <2>1. tail' = SubSeq(s, 1, TailMax) BY <1>4 DEF Pushed, Trimmed
  <2> QED BY <2>1, <1>2, <1>4, SubSeqProperties DEF FollowerAssumption
<1>5. CASE tail' = Pushed(t, n) /\ ~(Len(s) > TailMax)
  BY <1>2, <1>5 DEF Pushed, Trimmed, FollowerAssumption
<1> QED BY <1>3, <1>4, <1>5 DEF PushRedis

---------------------------------------------------------------------------
(* Control: which threads are alive, and which file each has open.         *)

ReadStates == {"check", "read", "commit", "alert", "persist"}

\* The path names the newest file or nothing; no thread is ahead of it.
FilesCurrent ==
    /\ path \in {0, newest}
    /\ \A t \in Tids : fd[t] <= newest

\* A live thread has a file open from the moment it has opened it.
FdSet ==
    \A t \in Tids : /\ pc[t] = "open" => fd[t] = 0
                    /\ (Live(t) /\ pc[t] # "open") => fd[t] \in Inodes

\* A thread that was told to stop reads a file that was rotated away.
StoppedBehind ==
    \A t \in Tids : (Live(t) /\ stop[t]) => InodeKnown(t) /\ fd[t] < newest

\* The manager looks at a registered follower, and starts a new one only when
\* every live one was told to stop.
ManagerSound ==
    /\ mpc \in {"stat", "recheck"} => follower \in Tids
    /\ mpc = "start" => \A t \in Tids : Live(t) => stop[t]

Control ==
    /\ FilesCurrent /\ FdSet /\ StoppedBehind /\ ManagerSound
    /\ NoStrayFollower /\ OneReaderPerFile

\* Inodes are numbers.
LEMMA InodesAreNat ==
  ASSUME FollowerAssumption, TypeOK
  PROVE  newest \in Nat /\ \A t \in Tids : fd[t] \in Nat
<1>1. \A i \in Inodes : i \in Nat BY DEF Inodes, FollowerAssumption
<1>2. newest \in Inodes /\ fd \in [Tids -> {0} \cup Inodes] BY DEF TypeOK
<1>3. \A t \in Tids : fd[t] \in {0} \cup Inodes BY <1>2
<1> QED BY <1>1, <1>2, <1>3

\* A step of a thread that has its file open keeps Control.
LEMMA ThreadKeepsControl ==
  ASSUME TypeOK, Control, NEW t \in Tids, NEW s \in ReadStates \cup {"dead"},
         pc[t] \notin {"none", "dead", "open"}, pc' = [pc EXCEPT ![t] = s],
         UNCHANGED <<newest, path, stop, fd, follower, mpc>>
  PROVE  Control'
<1>1. \A u \in Tids : Live(u)' => Live(u) /\ (u # t => pc'[u] = pc[u])
  BY DEF TypeOK, Live, ReadStates
<1>2. \A u \in Tids : InodeKnown(u) => InodeKnown(u)'
  BY DEF TypeOK, InodeKnown, ReadStates
<1>3. FilesCurrent' BY DEF Control, FilesCurrent
<1>4. FdSet' BY <1>1 DEF Control, FdSet, TypeOK, ReadStates
<1>5. StoppedBehind' BY <1>1, <1>2 DEF Control, StoppedBehind
<1>6. ManagerSound' BY <1>1 DEF Control, ManagerSound
<1>7. NoStrayFollower' BY <1>1 DEF Control, NoStrayFollower
<1>8. OneReaderPerFile' BY <1>1 DEF Control, OneReaderPerFile
<1> QED BY <1>3, <1>4, <1>5, <1>6, <1>7, <1>8 DEF Control

\* A thread that opens the path opens the newest file, which no other live
\* thread has open: those that are stopped are behind, and no other is alive.
LEMMA OpenKeepsControl ==
  ASSUME FollowerAssumption, TypeOK, Control, NEW t \in Tids, Open(t)
  PROVE  Control'
<1>1. CASE path = 0
  <2>1. \A u \in Tids : Live(u)' => pc'[u] = pc[u] /\ u # t
    BY <1>1 DEF Open, Goto, TypeOK, Live
  <2>2. UNCHANGED <<newest, path, stop, fd, follower, mpc>>
    BY <1>1 DEF Open, fileVars, managerVars
  <2> QED BY <2>1, <2>2 DEF Control, FilesCurrent, FdSet, StoppedBehind,
             ManagerSound, NoStrayFollower, OneReaderPerFile, Live, InodeKnown
<1>2. CASE path # 0
  <2>1. /\ fd' = [fd EXCEPT ![t] = newest] /\ newest \in Inodes
        /\ pc' = [pc EXCEPT ![t] = "seek"] /\ pc[t] = "open"
        /\ UNCHANGED <<newest, path, stop, follower, mpc>>
    BY <1>2 DEF Open, Goto, fileVars, managerVars, Control, FilesCurrent, TypeOK
  <2>2. /\ \A u \in Tids : Live(u)' => Live(u)
        /\ \A u \in Tids \ {t} : pc'[u] = pc[u] /\ fd'[u] = fd[u]
        /\ pc'[t] = "seek" /\ fd'[t] = newest /\ Live(t) /\ ~InodeKnown(t)
    BY <2>1 DEF TypeOK, Live, InodeKnown
  <2>3. ~stop[t] /\ follower = t
    BY <2>2 DEF Control, StoppedBehind, NoStrayFollower, TypeOK
  <2>4. \A u \in Tids \ {t} : Live(u) => stop[u] /\ fd[u] < newest
    BY <2>3 DEF Control, StoppedBehind, NoStrayFollower, TypeOK
  <2>5. FilesCurrent'
    BY <2>1, <2>2 DEF Control, FilesCurrent, TypeOK, Inodes
  <2>6. FdSet' BY <2>1, <2>2 DEF Control, FdSet, Live
  <2>7. StoppedBehind'
    BY <2>1, <2>2, <2>3 DEF Control, StoppedBehind, InodeKnown
  <2>8. ManagerSound' BY <2>1, <2>2 DEF Control, ManagerSound
  <2>9. NoStrayFollower' BY <2>1, <2>2 DEF Control, NoStrayFollower
  <2>10. OneReaderPerFile'
    <3>1. newest \in Nat /\ \A u \in Tids : fd[u] \in Nat BY InodesAreNat
    <3>2. \A u \in Tids : Live(u)' /\ fd'[u] = newest => u = t
      BY <2>2, <2>4, <3>1
    <3> QED BY <2>2, <3>2 DEF Control, OneReaderPerFile
  <2> QED BY <2>5, <2>6, <2>7, <2>8, <2>9, <2>10 DEF Control
<1> QED BY <1>1, <1>2

\* Rotation moves the path to a newer file, or to nothing.
LEMMA FileStepKeepsControl ==
  ASSUME FollowerAssumption, TypeOK, Control, FileStep
  PROVE  Control'
<1>1. UNCHANGED <<pc, stop, fd, follower, mpc>>
  BY DEF FileStep, WriteLine, MoveAway, Create, Reopen, threadVars, managerVars
<1>2. /\ newest \in Nat /\ newest' \in Nat /\ newest <= newest'
      /\ path' \in {0, newest'}
  <2>1. newest \in Nat /\ path \in {0, newest}
    BY InodesAreNat DEF Control, FilesCurrent
  <2>2. CASE \E k \in Written : WriteLine(k)
    BY <2>1, <2>2 DEF WriteLine
  <2>3. CASE MoveAway BY <2>1, <2>3 DEF MoveAway
  <2>4. CASE Create BY <2>1, <2>4 DEF Create
  <2>5. CASE Reopen BY <2>1, <2>5 DEF Reopen
  <2> QED BY <2>2, <2>3, <2>4, <2>5 DEF FileStep
<1>3. \A u \in Tids : fd[u] \in Nat BY InodesAreNat
<1> QED BY <1>1, <1>2, <1>3
        DEF Control, FilesCurrent, FdSet, StoppedBehind, ManagerSound,
            NoStrayFollower, OneReaderPerFile, Live, InodeKnown

\* The manager stops only a follower that is behind, and starts one only when
\* every live one was stopped.
LEMMA ManagerKeepsControl ==
  ASSUME FollowerAssumption, TypeOK, Control, Manager
  PROVE  Control'
<1>1. CASE ScanExists
  BY <1>1 DEF ScanExists, fileVars, threadVars, Control, FilesCurrent, FdSet,
     StoppedBehind, ManagerSound, NoStrayFollower, OneReaderPerFile, Live, InodeKnown
<1>2. CASE ScanLook
  BY <1>2 DEF ScanLook, fileVars, threadVars, Control, FilesCurrent, FdSet,
     StoppedBehind, ManagerSound, NoStrayFollower, OneReaderPerFile, Live,
     InodeKnown, TypeOK
<1>3. CASE ScanRotated
  <2>1. /\ follower \in Tids /\ InodeKnown(follower)
        /\ path = newest /\ fd[follower] # newest
        /\ stop' = [stop EXCEPT ![follower] = TRUE] /\ mpc' = "start"
        /\ UNCHANGED <<newest, path, pc, fd, follower>>
    BY <1>3 DEF ScanRotated, Rotated, fileVars, Control, ManagerSound, FilesCurrent
  <2>2. fd[follower] < newest
    BY <2>1, InodesAreNat DEF Control, FilesCurrent
  <2>3. stop'[follower] /\ \A u \in Tids \ {follower} : stop'[u] = stop[u]
    BY <2>1 DEF TypeOK
  <2>4. StoppedBehind'
    BY <2>1, <2>2, <2>3 DEF Control, StoppedBehind, Live, InodeKnown
  <2>5. ManagerSound'
    BY <2>1, <2>3 DEF Control, ManagerSound, NoStrayFollower, Live
  <2>6. NoStrayFollower'
    BY <2>1, <2>3 DEF Control, NoStrayFollower, Live
  <2> QED BY <2>1, <2>4, <2>5, <2>6
          DEF Control, FilesCurrent, FdSet, OneReaderPerFile, Live
<1>4. CASE ScanSame
  BY <1>4 DEF ScanSame, fileVars, threadVars, Control, FilesCurrent, FdSet,
     StoppedBehind, ManagerSound, NoStrayFollower, OneReaderPerFile, Live, InodeKnown
<1>5. CASE ScanRecheck
  BY <1>5 DEF ScanRecheck, fileVars, threadVars, Control, FilesCurrent, FdSet,
     StoppedBehind, ManagerSound, NoStrayFollower, OneReaderPerFile, Live,
     InodeKnown, TypeOK
<1>6. ASSUME NEW t \in Tids, ScanStart(t) PROVE Control'
  <2>1. /\ mpc = "start" /\ mpc' = "idle" /\ follower' = t /\ ~Live(t)
        /\ pc' = [pc EXCEPT ![t] = "open"] /\ stop' = [stop EXCEPT ![t] = FALSE]
        /\ fd' = [fd EXCEPT ![t] = 0] /\ UNCHANGED <<newest, path>>
    BY <1>6 DEF ScanStart, fileVars
  <2>2. /\ pc'[t] = "open" /\ ~stop'[t] /\ fd'[t] = 0
        /\ \A u \in Tids \ {t} : pc'[u] = pc[u] /\ stop'[u] = stop[u] /\ fd'[u] = fd[u]
    BY <2>1 DEF TypeOK
  <2>3. newest \in Nat BY DEF TypeOK, Inodes
  <2>4. FilesCurrent' BY <2>1, <2>2, <2>3 DEF Control, FilesCurrent
  <2>5. FdSet' BY <2>1, <2>2 DEF Control, FdSet, Live
  <2>6. StoppedBehind'
    BY <2>1, <2>2 DEF Control, StoppedBehind, Live, InodeKnown
  <2>7. ManagerSound' BY <2>1 DEF ManagerSound
  <2>8. NoStrayFollower'
    BY <2>1, <2>2 DEF Control, ManagerSound, NoStrayFollower, Live
  <2>9. OneReaderPerFile'
    BY <2>1, <2>2 DEF Control, OneReaderPerFile, Live
  <2> QED BY <2>4, <2>5, <2>6, <2>7, <2>8, <2>9 DEF Control
<1> QED BY <1>1, <1>2, <1>3, <1>4, <1>5, <1>6 DEF Manager

---------------------------------------------------------------------------
(* Records: what a thread has assembled, and where it is in its file.      *)

\* The pending header and the traceback lines are consecutive lines of the
\* file, and the thread has read exactly as far as they say.
Assembled(t) ==
    /\ pending[t] = 0 => tb[t] = <<>>
    /\ pending[t] # 0 =>
          /\ pending[t] <= Len(content[fd[t]])
          /\ Kind(t, pending[t]) = "header"
          /\ \A n \in 1..Len(tb[t]) :
                /\ tb[t][n] = pending[t] + n
                /\ pending[t] + n <= Len(content[fd[t]])
                /\ Kind(t, pending[t] + n) = "text"

Position(t) ==
    /\ pos[t] <= Len(content[fd[t]])
    /\ pc[t] \in {"check", "read"} =>
          /\ held[t] = 0
          /\ pending[t] # 0 => pos[t] = pending[t] + Len(tb[t])
    /\ pc[t] \in {"commit", "alert"} =>
          /\ pending[t] # 0
          /\ held[t] = 0 => pos[t] = pending[t] + Len(tb[t])
          /\ held[t] # 0 => /\ held[t] = pos[t]
                            /\ pos[t] = pending[t] + Len(tb[t]) + 1
    /\ pc[t] = "persist" => pending[t] = 0 /\ held[t] # 0 /\ held[t] = pos[t]

RecordOK(t) ==
    /\ pc[t] \in ReadStates => Assembled(t) /\ Position(t)
    /\ pc[t] \in {"open", "seek"} =>
          pending[t] = 0 /\ tb[t] = <<>> /\ held[t] = 0

Records == \A t \in Tids : RecordOK(t)

\* The types of the state of one thread.
LEMMA ThreadType ==
  ASSUME TypeOK, NEW t \in Tids
  PROVE  /\ pos[t] \in Nat /\ pending[t] \in Nat /\ held[t] \in Nat
         /\ tb[t] \in Seq(Lines) /\ Len(tb[t]) \in Nat
         /\ fd[t] \in {0} \cup Inodes /\ stop[t] \in BOOLEAN
         /\ \A i \in Inodes : content[i] \in Seq(Kinds) /\ Len(content[i]) \in Nat
<1>1. /\ pos[t] \in Nat /\ pending[t] \in Nat /\ held[t] \in Nat
      /\ fd[t] \in {0} \cup Inodes /\ stop[t] \in BOOLEAN
  BY DEF TypeOK
<1>2. tb[t] \in Seq(Lines) BY DEF TypeOK
<1>3. \A i \in Inodes : content[i] \in Seq(Kinds) BY DEF TypeOK
<1>4. Len(tb[t]) \in Nat BY <1>2, LenProperties
<1>5. \A i \in Inodes : Len(content[i]) \in Nat BY <1>3, LenProperties
<1> QED BY <1>1, <1>2, <1>3, <1>4, <1>5

\* The parts of the state that a step of a thread changes keep their types.
LEMMA ThreadKeepsTypes ==
  ASSUME FollowerAssumption, TypeOK, Control, Records, NEW t \in Tids, Thread(t)
  PROVE  TypeOK'
<1> USE DEF Goto
<1>0. /\ pos[t] \in Nat /\ pos[t] + 1 \in Nat /\ pos[t] + 1 \in Lines
      /\ pending[t] \in Nat /\ held[t] \in Nat /\ tb[t] \in Seq(Lines)
      /\ <<>> \in Seq(Lines)
  BY ThreadType DEF Lines
<1>1. CASE Open(t)
  BY <1>1 DEF Open, fileVars, recordVars, managerVars, TypeOK
<1>2. CASE Seek(t)
  <2>1. fd[t] \in Inodes BY <1>2 DEF Seek, Control, FdSet, Live
  <2>2. Len(content[fd[t]]) \in Nat BY <2>1, ThreadType
  <2> QED BY <1>2, <2>2 DEF Seek, fileVars, recordVars, managerVars, TypeOK
<1>3. CASE CheckStop(t)
  BY <1>3 DEF CheckStop, fileVars, recordVars, managerVars, TypeOK
<1>4. CASE ReadNothing(t)
  BY <1>4 DEF ReadNothing, fileVars, recordVars, managerVars, TypeOK
<1>5. CASE ReadBadStamp(t)
  BY <1>0, <1>5 DEF ReadBadStamp, ReadLine, fileVars, recordVars, managerVars, TypeOK
<1>6. ASSUME pc[t] = "read", PushRedis(t, pos[t] + 1)
      PROVE  tail' \in Seq(Entry) /\ Len(tail') <= TailMax
  <2>1. fd[t] \in Inodes BY <1>6 DEF Control, FdSet, Live
  <2> QED BY <1>0, <1>6, <2>1, PushType
<1>7. CASE ReadContinuation(t)
  <2>1. Append(tb[t], pos[t] + 1) \in Seq(Lines) BY <1>0
  <2> QED BY <1>0, <1>6, <1>7, <2>1
          DEF ReadContinuation, ReadLine, fileVars, managerVars, TypeOK
<1>8. CASE ReadNextRecord(t)
  BY <1>0, <1>6, <1>8 DEF ReadNextRecord, ReadLine, fileVars, managerVars, TypeOK
<1>9. CASE ReadHeader(t)
  BY <1>0, <1>6, <1>9 DEF ReadHeader, ReadLine, fileVars, managerVars, TypeOK
<1>10. CASE ReadSingle(t)
  BY <1>0, <1>6, <1>10 DEF ReadSingle, ReadLine, fileVars, managerVars, TypeOK
<1>11. CASE ReadSkipped(t)
  BY <1>0, <1>6, <1>11
     DEF ReadSkipped, ReadLine, fileVars, recordVars, managerVars, TypeOK
<1>12. ASSUME Resume(t)
       PROVE  /\ pending' \in [Tids -> Nat] /\ held' \in [Tids -> Nat]
              /\ tb' \in [Tids -> Seq(Lines)]
              /\ \E s \in {"persist", "check"} : pc' = [pc EXCEPT ![t] = s]
  <2>1. \A m \in Nat : [pending EXCEPT ![t] = m] \in [Tids -> Nat] BY DEF TypeOK
  <2>2. pending' \in [Tids -> Nat]
    BY <1>0, <1>12, <2>1 DEF Resume
  <2>3. tb' \in [Tids -> Seq(Lines)] BY <1>0, <1>12 DEF Resume, TypeOK
  <2>4. CASE held[t] # 0 /\ Kind(t, held[t]) = "error"
    BY <1>12, <2>2, <2>3, <2>4 DEF Resume, TypeOK
  <2>5. CASE ~(held[t] # 0 /\ Kind(t, held[t]) = "error")
    <3>1. held' = [held EXCEPT ![t] = 0] /\ pc' = [pc EXCEPT ![t] = "check"]
      BY <1>12, <2>5 DEF Resume
    <3>2. held' \in [Tids -> Nat] BY <3>1 DEF TypeOK
    <3> QED BY <2>2, <2>3, <3>1, <3>2
  <2> QED BY <2>4, <2>5
<1>13. CASE CommitApp(t)
  <2>1. fd[t] \in Inodes /\ pending[t] \in Lines
    BY <1>0, <1>13
       DEF CommitApp, Control, FdSet, Live, Records, RecordOK, Position,
           ReadStates, Lines
  <2>2. [ino |-> fd[t], line |-> pending[t], tb |-> tb[t]] \in Event
    BY <1>0, <2>1 DEF Event
  <2>3. events' \in Seq(Event) BY <1>13, <2>2 DEF CommitApp, TypeOK
  <2> QED BY <1>12, <1>13, <2>3
          DEF CommitApp, fileVars, recordVars, managerVars, TypeOK
<1>14. CASE CommitAppFails(t)
  BY <1>12, <1>14 DEF CommitAppFails, fileVars, managerVars, TypeOK
<1>15. CASE AlertReturns(t)
  BY <1>12, <1>15 DEF AlertReturns, fileVars, managerVars, TypeOK
<1>16. CASE Persist(t)
  <2>1. fd[t] \in Inodes /\ held[t] \in Lines
    BY <1>0, <1>16
       DEF Persist, Control, FdSet, Live, Records, RecordOK, Position,
           ReadStates, Lines
  <2>2. [ino |-> fd[t], line |-> held[t], tb |-> <<>>] \in Event
    BY <1>0, <2>1 DEF Event
  <2>3. events' \in Seq(Event) BY <1>16, <2>2 DEF Persist, TypeOK
  <2> QED BY <1>16, <2>3 DEF Persist, fileVars, managerVars, TypeOK
<1>17. CASE PersistFails(t)
  BY <1>17 DEF PersistFails, fileVars, managerVars, TypeOK
<1> QED BY <1>1, <1>2, <1>3, <1>4, <1>5, <1>7, <1>8, <1>9, <1>10, <1>11, <1>13,
           <1>14, <1>15, <1>16, <1>17 DEF Thread

\* So do the other steps.
LEMMA OthersKeepTypes ==
  ASSUME FollowerAssumption, TypeOK, Control,
         FileStep \/ Manager \/ Restart \/ RedisRestart
  PROVE  TypeOK'
<1>1. ASSUME NEW k \in Written, WriteLine(k) PROVE TypeOK'
  <2>1. k \in Kinds BY DEF FollowerAssumption
  <2>2. content' \in [Inodes -> Seq(Kinds)]
    BY <1>1, <2>1 DEF WriteLine, TypeOK
  <2> QED BY <1>1, <2>2 DEF WriteLine, threadVars, managerVars, TypeOK
<1>2. CASE MoveAway
  BY <1>2 DEF MoveAway, threadVars, managerVars, TypeOK
<1>3. CASE Create
  <2>1. newest + 1 \in Inodes
    BY <1>3 DEF Create, TypeOK, Inodes, FollowerAssumption
  <2> QED BY <1>3, <2>1 DEF Create, threadVars, managerVars, TypeOK
<1>4. CASE Reopen
  BY <1>4 DEF Reopen, threadVars, managerVars, TypeOK
<1>5. CASE ScanExists \/ ScanLook \/ ScanSame \/ ScanRecheck
  BY <1>5 DEF ScanExists, ScanLook, ScanSame, ScanRecheck, fileVars, threadVars, TypeOK
<1>6. CASE ScanRotated
  BY <1>6 DEF ScanRotated, fileVars, recordVars, TypeOK
<1>7. ASSUME NEW t \in Tids, ScanStart(t) PROVE TypeOK'
  <2>1. <<>> \in Seq(Lines) OBVIOUS
  <2> QED BY <1>7, <2>1 DEF ScanStart, fileVars, TypeOK
<1>8. CASE Restart
  BY <1>8 DEF Restart, fileVars, recordVars, TypeOK
<1>9. CASE RedisRestart
  BY <1>9 DEF RedisRestart, fileVars, threadVars, managerVars, TypeOK, FollowerAssumption
<1> QED BY <1>1, <1>2, <1>3, <1>4, <1>5, <1>6, <1>7, <1>8, <1>9 DEF FileStep, Manager

\* A step of a thread leaves the files and the other threads alone.
LEMMA ThreadFrame ==
  ASSUME TypeOK, NEW t \in Tids, Thread(t), NEW u \in Tids, u # t
  PROVE  /\ content' = content
         /\ pc'[u] = pc[u] /\ fd'[u] = fd[u] /\ pos'[u] = pos[u]
         /\ pending'[u] = pending[u] /\ tb'[u] = tb[u] /\ held'[u] = held[u]
<1> USE DEF Goto, fileVars, recordVars, managerVars, TypeOK
<1>1. ASSUME Resume(t)
      PROVE  /\ pc'[u] = pc[u] /\ pending'[u] = pending[u]
             /\ tb'[u] = tb[u] /\ held'[u] = held[u]
  <2>1. pending'[u] = pending[u] /\ tb'[u] = tb[u] BY <1>1 DEF Resume
  <2>2. pc'[u] = pc[u] /\ held'[u] = held[u]
    <3>1. CASE held[t] # 0 /\ Kind(t, held[t]) = "error"
      BY <1>1, <3>1 DEF Resume
    <3>2. CASE ~(held[t] # 0 /\ Kind(t, held[t]) = "error")
      BY <1>1, <3>2 DEF Resume
    <3> QED BY <3>1, <3>2
  <2> QED BY <2>1, <2>2
<1>2. CASE Open(t) BY <1>2 DEF Open
<1>3. CASE Seek(t) BY <1>3 DEF Seek
<1>4. CASE CheckStop(t) BY <1>4 DEF CheckStop
<1>5. CASE ReadNothing(t) BY <1>5 DEF ReadNothing
<1>6. CASE ReadBadStamp(t) \/ ReadSkipped(t)
  BY <1>6 DEF ReadBadStamp, ReadSkipped, ReadLine
<1>7. CASE ReadContinuation(t) BY <1>7 DEF ReadContinuation, ReadLine
<1>8. CASE ReadNextRecord(t) BY <1>8 DEF ReadNextRecord, ReadLine
<1>9. CASE ReadHeader(t) BY <1>9 DEF ReadHeader, ReadLine
<1>10. CASE ReadSingle(t) BY <1>10 DEF ReadSingle, ReadLine
<1>11. CASE CommitApp(t)
  BY <1>1, <1>11 DEF CommitApp
<1>12. CASE CommitAppFails(t) \/ AlertReturns(t)
  BY <1>1, <1>12 DEF CommitAppFails, AlertReturns
<1>13. CASE Persist(t) \/ PersistFails(t) BY <1>13 DEF Persist, PersistFails
<1> QED BY <1>2, <1>3, <1>4, <1>5, <1>6, <1>7, <1>8, <1>9, <1>10, <1>11, <1>12,
           <1>13 DEF Thread

\* What Resume leaves behind, by the line that ended the traceback.
LEMMA ResumeEffect ==
  ASSUME TypeOK, NEW t \in Tids, Resume(t)
  PROVE  /\ tb'[t] = <<>>
         /\ held[t] = 0 => /\ pc'[t] = "check" /\ pending'[t] = 0 /\ held'[t] = 0
         /\ held[t] # 0 =>
              \/ /\ Kind(t, held[t]) = "header"
                 /\ pc'[t] = "check" /\ pending'[t] = held[t] /\ held'[t] = 0
              \/ /\ pc'[t] = "persist" /\ pending'[t] = 0 /\ held'[t] = held[t]
              \/ /\ pc'[t] = "check" /\ pending'[t] = 0 /\ held'[t] = 0
<1>1. tb'[t] = <<>> BY DEF Resume, TypeOK
<1>2. CASE held[t] = 0 BY <1>1, <1>2 DEF Resume, Goto, TypeOK
<1>3. CASE held[t] # 0 /\ Kind(t, held[t]) = "header"
  BY <1>1, <1>3 DEF Resume, Goto, TypeOK
<1>4. CASE held[t] # 0 /\ Kind(t, held[t]) = "error"
  BY <1>1, <1>4 DEF Resume, Goto, TypeOK
<1>5. CASE held[t] # 0 /\ Kind(t, held[t]) \notin {"header", "error"}
  BY <1>1, <1>5 DEF Resume, Goto, TypeOK
<1> QED BY <1>2, <1>3, <1>4, <1>5

\* After Resume the thread has assembled nothing, or just a header.
LEMMA ResumeKeepsRecord ==
  ASSUME FollowerAssumption, TypeOK, Control, Records, NEW t \in Tids,
         pc[t] \in {"commit", "alert"}, Resume(t), UNCHANGED <<content, fd, pos>>
  PROVE  RecordOK(t)'
<1>1. /\ pos[t] \in Nat /\ held[t] \in Nat
      /\ Len(tb'[t]) = 0 /\ tb'[t] = <<>>
  BY ThreadType, ResumeEffect
<1>2. Position(t) BY DEF Records, RecordOK, ReadStates
<1>3. CASE held[t] = 0
  <2>1. pc'[t] = "check" /\ pending'[t] = 0 /\ held'[t] = 0
    BY <1>3, ResumeEffect
  <2> QED BY <1>1, <1>2, <2>1 DEF RecordOK, Assembled, Position
<1>4. CASE held[t] # 0
  <2>1. held[t] = pos[t] /\ pos[t] <= Len(content[fd[t]])
    BY <1>2, <1>4 DEF Position
  <2>2. CASE /\ Kind(t, held[t]) = "header"
             /\ pc'[t] = "check" /\ pending'[t] = held[t] /\ held'[t] = 0
    BY <1>1, <1>4, <2>1, <2>2 DEF RecordOK, Assembled, Position, Kind
  <2>3. CASE pc'[t] = "persist" /\ pending'[t] = 0 /\ held'[t] = held[t]
    BY <1>1, <1>4, <2>1, <2>3 DEF RecordOK, Assembled, Position
  <2>4. CASE pc'[t] = "check" /\ pending'[t] = 0 /\ held'[t] = 0
    BY <1>1, <2>1, <2>4 DEF RecordOK, Assembled, Position
  <2> QED BY <1>4, <2>2, <2>3, <2>4, ResumeEffect
<1> QED BY <1>3, <1>4

\* What a thread that reads a line leaves behind.
LEMMA ReadKeepsRecord ==
  ASSUME FollowerAssumption, TypeOK, Control, Records, NEW t \in Tids,
         \/ ReadBadStamp(t) \/ ReadContinuation(t) \/ ReadNextRecord(t)
         \/ ReadHeader(t) \/ ReadSingle(t) \/ ReadSkipped(t)
  PROVE  RecordOK(t)'
<1> DEFINE n == pos[t] + 1
<1> USE DEF Goto
<1>0. /\ pos[t] \in Nat /\ pending[t] \in Nat /\ held[t] \in Nat
      /\ tb[t] \in Seq(Lines) /\ Len(tb[t]) \in Nat
  BY ThreadType
<1>1. /\ pc[t] = "read" /\ ~AtEOF(t) /\ pos'[t] = n
      /\ UNCHANGED <<content, fd>>
  BY DEF ReadBadStamp, ReadContinuation, ReadNextRecord, ReadHeader, ReadSingle,
         ReadSkipped, ReadLine, fileVars, TypeOK
<1>2. /\ Assembled(t) /\ held[t] = 0
      /\ pending[t] # 0 => pos[t] = pending[t] + Len(tb[t])
  BY <1>1 DEF Records, RecordOK, ReadStates, Position
<1>3. fd[t] \in Inodes BY <1>1 DEF Control, FdSet, Live
<1>4. n <= Len(content[fd[t]])
  BY <1>0, <1>1, <1>3, ThreadType DEF AtEOF
<1>5. CASE ReadBadStamp(t)
  BY <1>5 DEF ReadBadStamp, RecordOK, ReadStates, TypeOK
<1>6. CASE ReadContinuation(t)
  <2>1. /\ pc'[t] = "check" /\ pending[t] # 0 /\ Kind(t, n) = "text"
        /\ pending'[t] = pending[t] /\ held'[t] = held[t]
        /\ tb'[t] = Append(tb[t], n)
    BY <1>6 DEF ReadContinuation, ReadLine, TypeOK
  <2>2. /\ Len(tb'[t]) = Len(tb[t]) + 1
        /\ \A m \in 1..Len(tb'[t]) :
              tb'[t][m] = IF m <= Len(tb[t]) THEN tb[t][m] ELSE n
    BY <1>0, <2>1
  <2>3. n = pending[t] + Len(tb'[t])
    BY <1>0, <1>2, <2>1, <2>2
  <2>4. Assembled(t)'
    <3> SUFFICES ASSUME NEW m \in 1..Len(tb'[t])
                 PROVE  /\ tb'[t][m] = pending[t] + m
                        /\ pending[t] + m <= Len(content[fd[t]])
                        /\ Kind(t, pending[t] + m) = "text"
      BY <1>1, <1>2, <2>1 DEF Assembled, Kind
    <3>1. CASE m <= Len(tb[t])
      BY <3>1, <1>0, <1>2, <2>1, <2>2 DEF Assembled
    <3>2. CASE m = Len(tb'[t])
      BY <3>2, <1>0, <1>4, <2>1, <2>2, <2>3
    <3> QED BY <3>1, <3>2, <1>0, <2>2
  <2>5. Position(t)'
    BY <1>0, <1>1, <1>2, <1>4, <2>1, <2>3 DEF Position
  <2> QED BY <2>1, <2>4, <2>5 DEF RecordOK
<1>7. CASE ReadNextRecord(t)
  <2>1. /\ pc'[t] = "commit" /\ pending[t] # 0 /\ held'[t] = n
        /\ pending'[t] = pending[t] /\ tb'[t] = tb[t]
    BY <1>7 DEF ReadNextRecord, ReadLine, TypeOK
  <2>2. Assembled(t)' BY <1>1, <1>2, <2>1 DEF Assembled, Kind
  <2>3. Position(t)' BY <1>0, <1>1, <1>2, <1>4, <2>1 DEF Position
  <2> QED BY <2>1, <2>2, <2>3 DEF RecordOK
<1>8. CASE ReadHeader(t)
  <2>1. /\ pc'[t] = "check" /\ pending[t] = 0 /\ Kind(t, n) = "header"
        /\ pending'[t] = n /\ tb'[t] = tb[t] /\ held'[t] = 0 /\ tb[t] = <<>>
    BY <1>2, <1>8 DEF ReadHeader, ReadLine, TypeOK, Assembled
  <2>2. Len(tb'[t]) = 0 BY <2>1
  <2>3. Assembled(t)' BY <1>0, <1>1, <1>4, <2>1, <2>2 DEF Assembled, Kind
  <2>4. Position(t)' BY <1>0, <1>1, <1>4, <2>1, <2>2 DEF Position
  <2> QED BY <2>1, <2>3, <2>4 DEF RecordOK
<1>9. CASE ReadSingle(t)
  <2>1. /\ pc'[t] = "persist" /\ pending[t] = 0 /\ held'[t] = n
        /\ pending'[t] = 0 /\ tb'[t] = tb[t] /\ tb[t] = <<>>
    BY <1>2, <1>9 DEF ReadSingle, ReadLine, TypeOK, Assembled
  <2> QED BY <1>0, <1>1, <1>4, <2>1 DEF RecordOK, Assembled, Position
<1>10. CASE ReadSkipped(t)
  <2>1. /\ pc'[t] = "check" /\ pending[t] = 0 /\ held'[t] = 0
        /\ pending'[t] = 0 /\ tb'[t] = tb[t] /\ tb[t] = <<>>
    BY <1>2, <1>10 DEF ReadSkipped, ReadLine, recordVars, TypeOK, Assembled
  <2> QED BY <1>0, <1>1, <1>4, <2>1 DEF RecordOK, Assembled, Position
<1> QED BY <1>5, <1>6, <1>7, <1>8, <1>9, <1>10

\* Every step of a thread keeps what is said of its record.
LEMMA ThreadKeepsRecord ==
  ASSUME FollowerAssumption, TypeOK, Control, Records, NEW t \in Tids, Thread(t)
  PROVE  RecordOK(t)'
<1> USE DEF Goto
<1>0. /\ pos[t] \in Nat /\ pending[t] \in Nat /\ held[t] \in Nat
      /\ tb[t] \in Seq(Lines) /\ Len(tb[t]) \in Nat
  BY ThreadType
<1>1. CASE Open(t)
  <2>1. /\ pc[t] = "open" /\ pc'[t] \in {"seek", "dead"}
        /\ UNCHANGED <<pending, tb, held>>
    BY <1>1 DEF Open, recordVars, TypeOK
  <2> QED BY <2>1 DEF Records, RecordOK, ReadStates
<1>2. CASE Seek(t)
  <2>1. fd[t] \in Inodes /\ pc[t] = "seek" BY <1>2 DEF Seek, Control, FdSet, Live
  <2>2. Len(content[fd[t]]) \in Nat BY <2>1, ThreadType
  <2>3. /\ pc'[t] = "check" /\ pos'[t] = Len(content[fd[t]])
        /\ UNCHANGED <<content, fd, pending, tb, held>>
    BY <1>2 DEF Seek, fileVars, recordVars, TypeOK
  <2>4. pending[t] = 0 /\ tb[t] = <<>> /\ held[t] = 0
    BY <2>1 DEF Records, RecordOK
  <2> QED BY <2>2, <2>3, <2>4 DEF RecordOK, Assembled, Position
<1>3. CASE CheckStop(t)
  <2>1. /\ pc[t] = "check" /\ pc'[t] \in {"read", "dead"}
        /\ UNCHANGED <<content, fd, pos, pending, tb, held>>
    BY <1>3 DEF CheckStop, fileVars, recordVars, TypeOK
  <2> QED BY <2>1 DEF Records, RecordOK, ReadStates, Assembled, Position, Kind
<1>4. CASE ReadNothing(t)
  <2>1. /\ pc[t] = "read" /\ pc'[t] \in {"check", "commit"}
        /\ pc'[t] = "commit" => pending[t] # 0
        /\ UNCHANGED <<content, fd, pos, pending, tb, held>>
    BY <1>4 DEF ReadNothing, fileVars, recordVars, TypeOK
  <2> QED BY <2>1 DEF Records, RecordOK, ReadStates, Assembled, Position, Kind
<1>5. CASE \/ ReadBadStamp(t) \/ ReadContinuation(t) \/ ReadNextRecord(t)
           \/ ReadHeader(t) \/ ReadSingle(t) \/ ReadSkipped(t)
  BY <1>5, ReadKeepsRecord
<1>6. CASE CommitApp(t)
  <2>1. pc[t] = "commit" /\ UNCHANGED <<content, fd, pos>>
    BY <1>6 DEF CommitApp, fileVars
  <2>2. CASE ~Resume(t)
    <3>1. pc'[t] = "alert" /\ UNCHANGED <<pending, tb, held>>
      BY <1>6, <2>2 DEF CommitApp, recordVars, TypeOK
    <3> QED BY <2>1, <3>1 DEF Records, RecordOK, ReadStates, Assembled, Position, Kind
  <2>3. CASE Resume(t)
    BY <1>6, <2>1, <2>3, ResumeKeepsRecord DEF CommitApp
  <2> QED BY <2>2, <2>3
<1>7. CASE CommitAppFails(t) \/ AlertReturns(t)
  BY <1>7, ResumeKeepsRecord DEF CommitAppFails, AlertReturns, fileVars
<1>8. CASE Persist(t) \/ PersistFails(t)
  <2>1. /\ pc[t] = "persist" /\ pc'[t] \in {"check", "dead"} /\ held'[t] = 0
        /\ UNCHANGED <<content, fd, pos, pending, tb>>
    BY <1>8 DEF Persist, PersistFails, fileVars, TypeOK
  <2> QED BY <2>1 DEF Records, RecordOK, ReadStates, Assembled, Position, Kind
<1> QED BY <1>1, <1>2, <1>3, <1>4, <1>5, <1>6, <1>7, <1>8 DEF Thread

\* A thread is not touched by a step that leaves its own state alone, and
\* that at most adds lines to the files.
FilesGrow ==
    \A i \in Inodes :
        /\ Len(content[i]) <= Len(content'[i])
        /\ \A n \in 1..Len(content[i]) : content'[i][n] = content[i][n]

SameThread(u) ==
    /\ pc'[u] = pc[u] /\ fd'[u] = fd[u] /\ pos'[u] = pos[u]
    /\ pending'[u] = pending[u] /\ tb'[u] = tb[u] /\ held'[u] = held[u]

\* Such a step keeps what the thread has assembled.
LEMMA SameThreadKeepsRecord ==
  ASSUME FollowerAssumption, TypeOK, TypeOK', Control, Records, NEW u \in Tids,
         FilesGrow, SameThread(u)
  PROVE  RecordOK(u)'
<1>0. /\ pos[u] \in Nat /\ pending[u] \in Nat /\ held[u] \in Nat
      /\ Len(tb[u]) \in Nat
  BY ThreadType
<1>1. CASE pc[u] \in {"open", "seek"}
  BY <1>1 DEF SameThread, Records, RecordOK, ReadStates
<1>2. CASE pc[u] \in ReadStates
  <2>1. Assembled(u) /\ Position(u) /\ fd[u] \in Inodes
    BY <1>2 DEF Records, RecordOK, Control, FdSet, Live, ReadStates
  <2>2. Len(content[fd[u]]) \in Nat /\ Len(content'[fd[u]]) \in Nat
    <3>1. content'[fd[u]] \in Seq(Kinds) BY <2>1 DEF TypeOK
    <3> QED BY <2>1, <3>1, ThreadType, LenProperties
  <2>3. /\ Len(content[fd[u]]) <= Len(content'[fd[u]])
        /\ \A n \in 1..Len(content[fd[u]]) : content'[fd[u]][n] = content[fd[u]][n]
    BY <2>1 DEF FilesGrow
  <2>4. Assembled(u)'
    <3>1. CASE pending[u] = 0
      BY <2>1, <3>1 DEF SameThread, Assembled
    <3>2. CASE pending[u] # 0
      <4>1. \A n \in 1..Len(tb[u]) : pending[u] + n \in 1..Len(content[fd[u]])
        BY <1>0, <2>1, <2>2, <3>2 DEF Assembled
      <4>2. pending[u] \in 1..Len(content[fd[u]])
        BY <1>0, <2>1, <2>2, <3>2 DEF Assembled
      <4>3. /\ pending[u] <= Len(content'[fd[u]])
            /\ content'[fd[u]][pending[u]] = "header"
        BY <1>0, <2>1, <2>2, <2>3, <3>2, <4>2 DEF Assembled, Kind
      <4>4. ASSUME NEW n \in 1..Len(tb[u])
            PROVE  /\ tb[u][n] = pending[u] + n
                   /\ pending[u] + n <= Len(content'[fd[u]])
                   /\ content'[fd[u]][pending[u] + n] = "text"
        <5>1. /\ tb[u][n] = pending[u] + n
              /\ content[fd[u]][pending[u] + n] = "text"
              /\ pending[u] + n \in 1..Len(content[fd[u]])
          BY <2>1, <3>2, <4>1 DEF Assembled, Kind
        <5> QED BY <2>2, <2>3, <5>1
      <4> QED BY <3>2, <4>3, <4>4 DEF SameThread, Assembled, Kind
    <3> QED BY <3>1, <3>2
  <2>5. Position(u)'
    BY <1>0, <2>1, <2>2, <2>3 DEF SameThread, Position
  <2> QED BY <1>2, <2>4, <2>5 DEF RecordOK, SameThread, ReadStates
<1>3. CASE pc[u] \notin ReadStates \cup {"open", "seek"}
  BY <1>3 DEF SameThread, RecordOK, ReadStates
<1> QED BY <1>1, <1>2, <1>3

\* Writing appends to a file; all other steps leave the files as they are.
LEMMA StepGrowsFiles ==
  ASSUME FollowerAssumption, TypeOK, Next
  PROVE  FilesGrow
<1>1. \A i \in Inodes : content[i] \in Seq(Kinds) /\ Len(content[i]) \in Nat
  <2>1. \A i \in Inodes : content[i] \in Seq(Kinds) BY DEF TypeOK
  <2> QED BY <2>1, LenProperties
<1>2. ASSUME content' = content PROVE FilesGrow
  BY <1>1, <1>2 DEF FilesGrow
<1>3. ASSUME NEW k \in Written, WriteLine(k) PROVE FilesGrow
  <2>1. k \in Kinds /\ writer \in Inodes BY DEF FollowerAssumption, TypeOK
  <2>2. content' = [content EXCEPT ![writer] = Append(content[writer], k)]
    BY <1>3 DEF WriteLine
  <2>3. \A i \in Inodes : content'[i] =
          IF i = writer THEN Append(content[writer], k) ELSE content[i]
    BY <2>2 DEF TypeOK
  <2>4. /\ Len(Append(content[writer], k)) = Len(content[writer]) + 1
        /\ \A n \in 1..Len(content[writer]) :
              Append(content[writer], k)[n] = content[writer][n]
    BY <1>1, <2>1
  <2>5. ASSUME NEW i \in Inodes
        PROVE  /\ Len(content[i]) <= Len(content'[i])
               /\ \A n \in 1..Len(content[i]) : content'[i][n] = content[i][n]
    <3>1. CASE i = writer
      <4>1. content'[i] = Append(content[writer], k) BY <2>3, <3>1
      <4>2. /\ Len(content'[i]) = Len(content[i]) + 1
            /\ \A n \in 1..Len(content[i]) : content'[i][n] = content[i][n]
        BY <2>4, <3>1, <4>1
      <4>3. Len(content[i]) \in Nat BY <1>1
      <4> QED BY <4>2, <4>3
    <3>2. CASE i # writer
      <4>1. content'[i] = content[i] BY <2>3, <3>2
      <4>2. Len(content[i]) \in Nat BY <1>1
      <4> QED BY <4>1, <4>2
    <3> QED BY <3>1, <3>2
  <2> QED BY <2>5 DEF FilesGrow
<1>4. CASE MoveAway \/ Create \/ Reopen
  BY <1>2, <1>4 DEF MoveAway, Create, Reopen
<1>5. CASE \E t \in Tids : Thread(t)
  <2>1. PICK t \in Tids : Thread(t) BY <1>5
  <2>2. content' = content
    BY <2>1 DEF Thread, Open, Seek, CheckStop, ReadNothing, ReadBadStamp,
       ReadContinuation, ReadNextRecord, ReadHeader, ReadSingle, ReadSkipped,
       ReadLine, CommitApp, CommitAppFails, AlertReturns, Persist, PersistFails,
       fileVars
  <2> QED BY <1>2, <2>2
<1>6. CASE Manager \/ Restart \/ RedisRestart
  BY <1>2, <1>6 DEF Manager, ScanExists, ScanLook, ScanRotated, ScanSame,
     ScanRecheck, ScanStart, Restart, RedisRestart, fileVars
<1> QED BY <1>3, <1>4, <1>5, <1>6 DEF Next, FileStep

\* A step that is not of a thread leaves each thread as it is, or ends or
\* starts it.
LEMMA OthersKeepRecords ==
  ASSUME FollowerAssumption, TypeOK, TypeOK', Control, Records,
         FileStep \/ Manager \/ Restart \/ RedisRestart, NEW u \in Tids
  PROVE  /\ RecordOK(u)'
         /\ SameThread(u) \/ pc'[u] \in {"open", "dead"}
         /\ events' = events
<1>1. FilesGrow BY StepGrowsFiles DEF Next
<1>2. events' = events /\ (SameThread(u) \/ Restart \/ \E t \in Tids : ScanStart(t))
  BY DEF FileStep, WriteLine, MoveAway, Create, Reopen, Manager, ScanExists,
     ScanLook, ScanRotated, ScanSame, ScanRecheck, ScanStart, Restart,
     RedisRestart, threadVars, recordVars, SameThread
<1>3. CASE SameThread(u)
  BY <1>1, <1>2, <1>3, SameThreadKeepsRecord
<1>4. CASE Restart
  BY <1>2, <1>4 DEF Restart, RecordOK, ReadStates
<1>5. ASSUME NEW t \in Tids, ScanStart(t)
      PROVE  RecordOK(u)' /\ (SameThread(u) \/ pc'[u] \in {"open", "dead"})
  <2>1. CASE u = t
    BY <1>5, <2>1 DEF ScanStart, RecordOK, ReadStates, TypeOK
  <2>2. CASE u # t
    <3>1. SameThread(u) BY <1>5, <2>2 DEF ScanStart, SameThread, TypeOK
    <3> QED BY <1>1, <3>1, SameThreadKeepsRecord
  <2> QED BY <2>1, <2>2
<1> QED BY <1>2, <1>3, <1>4, <1>5

---------------------------------------------------------------------------
(* Frontier: all that was persisted of a file lies before what its reader  *)
(* may still persist.                                                      *)

\* The first line that thread t may still make part of an event.
Floor(t) ==
    IF pending[t] # 0 /\ pc[t] # "alert" THEN pending[t]
    ELSE IF held[t] # 0 THEN held[t] ELSE pos[t] + 1

Frontier(t) ==
    pc[t] \in ReadStates =>
        \A j \in DOMAIN events :
            events[j].ino = fd[t] => LastLine(events[j]) < Floor(t)

IInv ==
    /\ TypeOK /\ Control /\ Records
    /\ \A t \in Tids : Frontier(t)
    /\ TracebacksContiguous /\ EventsInFileOrder

\* The type of an event.
LEMMA EventType ==
  ASSUME TypeOK, NEW j \in DOMAIN events
  PROVE  /\ events[j].ino \in Inodes /\ events[j].line \in Nat \ {0}
         /\ events[j].tb \in Seq(Lines) /\ Len(events[j].tb) \in Nat
         /\ DOMAIN events[j].tb = 1..Len(events[j].tb)
         /\ LastLine(events[j]) \in Nat
<1>1. events[j] \in Event BY DEF TypeOK
<1>2. /\ events[j].ino \in Inodes /\ events[j].line \in Nat \ {0}
      /\ events[j].tb \in Seq(Lines)
  BY <1>1 DEF Event, Lines
<1>3. /\ Len(events[j].tb) \in Nat
      /\ DOMAIN events[j].tb = 1..Len(events[j].tb)
  BY <1>2, LenProperties
<1> QED BY <1>2, <1>3 DEF LastLine

\* What was persisted of a growing file stays what it was.
LEMMA EventsStayContiguous ==
  ASSUME FollowerAssumption, TypeOK, TypeOK', TracebacksContiguous, FilesGrow,
         NEW j \in DOMAIN events
  PROVE  LET e == events[j] IN
         /\ LastLine(e) <= Len(content'[e.ino])
         /\ e.tb # <<>> => content'[e.ino][e.line] = "header"
         /\ \A n \in DOMAIN e.tb :
               e.tb[n] = e.line + n /\ content'[e.ino][e.tb[n]] = "text"
<1> DEFINE e == events[j]
<1>1. /\ e.ino \in Inodes /\ e.line \in Nat \ {0} /\ Len(e.tb) \in Nat
      /\ DOMAIN e.tb = 1..Len(e.tb) /\ LastLine(e) \in Nat
  BY EventType
<1>2. Len(content[e.ino]) \in Nat /\ Len(content'[e.ino]) \in Nat
  <2>1. content[e.ino] \in Seq(Kinds) /\ content'[e.ino] \in Seq(Kinds)
    BY <1>1 DEF TypeOK
  <2> QED BY <2>1, LenProperties
<1>3. /\ LastLine(e) <= Len(content[e.ino])
      /\ e.tb # <<>> => content[e.ino][e.line] = "header"
      /\ \A n \in DOMAIN e.tb :
            e.tb[n] = e.line + n /\ content[e.ino][e.tb[n]] = "text"
  BY DEF TracebacksContiguous
<1>4. /\ Len(content[e.ino]) <= Len(content'[e.ino])
      /\ \A n \in 1..Len(content[e.ino]) : content'[e.ino][n] = content[e.ino][n]
  BY <1>1 DEF FilesGrow
<1>5. e.line \in 1..Len(content[e.ino]) BY <1>1, <1>2, <1>3 DEF LastLine
<1>6. ASSUME NEW n \in DOMAIN e.tb PROVE e.tb[n] \in 1..Len(content[e.ino])
  <2>1. n \in 1..Len(e.tb) BY <1>1
  <2>2. e.tb[n] = e.line + n BY <1>3
  <2>3. e.line + Len(e.tb) <= Len(content[e.ino]) BY <1>3 DEF LastLine
  <2>4. e.line \in Nat \ {0} /\ Len(e.tb) \in Nat /\ Len(content[e.ino]) \in Nat
    BY <1>1, <1>2
  <2> HIDE DEF e
  <2>5. e.line + n \in 1..Len(content[e.ino]) BY <2>1, <2>3, <2>4
  <2> QED BY <2>2, <2>5
<1> HIDE DEF e
<1>7. LastLine(e) <= Len(content'[e.ino]) BY <1>1, <1>2, <1>3, <1>4
<1> QED BY <1>3, <1>4, <1>5, <1>6, <1>7 DEF e

\* A thread never goes back behind its frontier; one that seeks starts at
\* the end of the file.
LEMMA FloorMovesForward ==
  ASSUME FollowerAssumption, TypeOK, Control, Records, NEW t \in Tids, Thread(t),
         pc'[t] \in ReadStates
  PROVE  /\ fd'[t] = fd[t]
         /\ \/ pc[t] = "seek" /\ Floor(t)' = Len(content[fd[t]]) + 1
            \/ pc[t] \in ReadStates /\ Floor(t) <= Floor(t)'
<1> USE DEF Goto
<1>0. /\ pos[t] \in Nat /\ pending[t] \in Nat /\ held[t] \in Nat
      /\ Len(tb[t]) \in Nat
  BY ThreadType
<1>1. CASE Open(t)
  BY <1>1 DEF Open, ReadStates, TypeOK
<1>2. CASE Seek(t)
  <2>1. /\ pc[t] = "seek" /\ pc'[t] = "check" /\ pos'[t] = Len(content[fd[t]])
        /\ UNCHANGED <<fd, pending, held>>
    BY <1>2 DEF Seek, recordVars, TypeOK
  <2> QED BY <2>1 DEF Floor, Records, RecordOK
<1>3. CASE CheckStop(t) \/ ReadNothing(t)
  BY <1>0, <1>3
     DEF CheckStop, ReadNothing, recordVars, TypeOK, Floor, ReadStates
<1>4. CASE ReadBadStamp(t)
  BY <1>4 DEF ReadBadStamp, ReadStates, TypeOK
<1>5. CASE \/ ReadContinuation(t) \/ ReadNextRecord(t)
           \/ ReadHeader(t) \/ ReadSingle(t) \/ ReadSkipped(t)
  <2>1. /\ pc[t] = "read" /\ pc'[t] # "alert" /\ pos'[t] = pos[t] + 1
        /\ fd' = fd
    BY <1>5 DEF ReadContinuation, ReadNextRecord, ReadHeader, ReadSingle,
       ReadSkipped, ReadLine, TypeOK
  <2>2. held[t] = 0 BY <2>1 DEF Records, RecordOK, Position, ReadStates
  <2>3. \/ pending[t] # 0 /\ pending'[t] = pending[t]
        \/ pending[t] = 0 /\ pending'[t] = pos[t] + 1
        \/ pending[t] = 0 /\ pending'[t] = 0 /\ held'[t] \in {0, pos[t] + 1}
    BY <1>5, <2>2 DEF ReadContinuation, ReadNextRecord, ReadHeader, ReadSingle,
       ReadSkipped, ReadLine, recordVars, TypeOK
  <2> QED BY <1>0, <2>1, <2>2, <2>3 DEF Floor, ReadStates
<1>6. ASSUME pc[t] \in {"commit", "alert"}, Resume(t), pos' = pos
      PROVE  Floor(t) <= Floor(t)'
  <2>1. Position(t) BY <1>6 DEF Records, RecordOK, ReadStates
  <2>2. pc'[t] # "alert" BY <1>6, ResumeEffect
  <2>3. \/ held[t] = 0 /\ pending'[t] = 0 /\ held'[t] = 0
        \/ held[t] # 0 /\ pending'[t] = held[t]
        \/ held[t] # 0 /\ pending'[t] = 0 /\ held'[t] \in {0, held[t]}
    BY <1>6, ResumeEffect
  <2>4. pc[t] = "commit" \/ pc[t] = "alert" BY <1>6
  <2>5. /\ pending[t] # 0 /\ pending[t] <= pos[t]
        /\ held[t] # 0 => held[t] = pos[t] /\ pending[t] < held[t]
    BY <1>0, <2>1, <2>4 DEF Position
  <2>6. Floor(t) = IF pc[t] = "commit" THEN pending[t]
                   ELSE IF held[t] # 0 THEN held[t] ELSE pos[t] + 1
    BY <2>4, <2>5 DEF Floor
  <2>7. Floor(t)' = IF pending'[t] # 0 THEN pending'[t]
                    ELSE IF held'[t] # 0 THEN held'[t] ELSE pos[t] + 1
    BY <1>6, <2>2 DEF Floor
  <2> QED BY <1>0, <2>3, <2>4, <2>5, <2>6, <2>7
<1>7. CASE CommitApp(t)
  <2>1. pc[t] = "commit" /\ UNCHANGED <<fd, pos>> BY <1>7 DEF CommitApp
  <2>2. CASE ~Resume(t)
    <3>1. pc'[t] = "alert" /\ UNCHANGED <<pending, held>>
      BY <1>7, <2>2 DEF CommitApp, recordVars, TypeOK
    <3> QED BY <1>0, <2>1, <3>1
            DEF Floor, Records, RecordOK, Position, ReadStates
  <2>3. CASE Resume(t)
    BY <1>6, <1>7, <2>1, <2>3 DEF CommitApp, ReadStates
  <2> QED BY <2>2, <2>3
<1>8. CASE CommitAppFails(t) \/ AlertReturns(t)
  BY <1>6, <1>8 DEF CommitAppFails, AlertReturns, ReadStates
<1>9. CASE Persist(t) \/ PersistFails(t)
  <2>1. /\ pc[t] = "persist" /\ pc'[t] = "check" /\ held'[t] = 0
        /\ UNCHANGED <<fd, pos, pending>>
    BY <1>9 DEF Persist, PersistFails, TypeOK, ReadStates
  <2> QED BY <1>0, <2>1 DEF Floor, Records, RecordOK, Position, ReadStates
<1> QED BY <1>1, <1>2, <1>3, <1>4, <1>5, <1>7, <1>8, <1>9 DEF Thread

\* What a thread persists starts at its frontier, is a run of lines of its
\* file, and leaves the frontier behind it.
LEMMA PersistedAtFrontier ==
  ASSUME FollowerAssumption, TypeOK, Control, Records, NEW t \in Tids, Thread(t),
         events' # events
  PROVE  \E e \in Event :
           /\ events' = Append(events, e)
           /\ e.ino = fd[t] /\ e.line = Floor(t)
           /\ pc[t] \in ReadStates /\ pc'[t] \in ReadStates
           /\ LastLine(e) < Floor(t)'
           /\ LastLine(e) <= Len(content[e.ino])
           /\ e.tb # <<>> => content[e.ino][e.line] = "header"
           /\ \A n \in DOMAIN e.tb :
                 e.tb[n] = e.line + n /\ content[e.ino][e.tb[n]] = "text"
<1> USE DEF Goto
<1>0. /\ pos[t] \in Nat /\ pending[t] \in Nat /\ held[t] \in Nat
      /\ tb[t] \in Seq(Lines) /\ Len(tb[t]) \in Nat /\ DOMAIN tb[t] = 1..Len(tb[t])
  BY ThreadType, LenProperties
<1>1. CASE CommitApp(t)
  <2> DEFINE e == [ino |-> fd[t], line |-> pending[t], tb |-> tb[t]]
  <2>1. pc[t] = "commit" /\ events' = Append(events, e) /\ pos' = pos
    BY <1>1 DEF CommitApp
  <2>2. Assembled(t) /\ Position(t) /\ fd[t] \in Inodes
    BY <2>1 DEF Records, RecordOK, Control, FdSet, Live, ReadStates
  <2>3. pending[t] # 0 /\ pending[t] \in Lines
    BY <1>0, <2>1, <2>2 DEF Position, Lines
  <2>4. e \in Event BY <1>0, <2>2, <2>3 DEF Event
  <2>5. e.line = Floor(t) BY <2>1, <2>3 DEF Floor
  <2>6. pc'[t] \in ReadStates /\ LastLine(e) < Floor(t)'
    <3>1. CASE ~Resume(t)
      <4>1. pc'[t] = "alert" /\ UNCHANGED <<pending, held>>
        BY <1>1, <3>1 DEF CommitApp, recordVars, TypeOK
      <4> QED BY <1>0, <2>1, <2>2, <4>1 DEF Floor, Position, LastLine, ReadStates
    <3>2. CASE Resume(t)
      <4>2. pc'[t] \in {"check", "persist"} BY <3>2, ResumeEffect
      <4>3. \/ held[t] = 0 /\ pending'[t] = 0 /\ held'[t] = 0
            \/ held[t] # 0 /\ pending'[t] = held[t]
            \/ held[t] # 0 /\ pending'[t] = 0 /\ held'[t] \in {0, held[t]}
        BY <3>2, ResumeEffect
      <4>4. LastLine(e) = pending[t] + Len(tb[t]) BY DEF LastLine
      <4>5. /\ held[t] = 0 => pos[t] = pending[t] + Len(tb[t])
            /\ held[t] # 0 => /\ held[t] = pos[t]
                              /\ pos[t] = pending[t] + Len(tb[t]) + 1
        BY <2>1, <2>2 DEF Position
      <4>6. Floor(t)' = IF pending'[t] # 0 THEN pending'[t]
                        ELSE IF held'[t] # 0 THEN held'[t] ELSE pos[t] + 1
        BY <2>1, <4>2 DEF Floor
      <4>7. pending[t] + Len(tb[t]) < Floor(t)' BY <1>0, <4>3, <4>5, <4>6
      <4> HIDE DEF e
      <4> QED BY <4>2, <4>4, <4>7 DEF ReadStates
    <3> QED BY <3>1, <3>2
  <2>7. LastLine(e) <= Len(content[fd[t]])
    <3>1. Len(content[fd[t]]) \in Nat BY <2>2, ThreadType
    <3> QED BY <1>0, <2>1, <2>2, <3>1 DEF Position, LastLine
  <2>8. content[fd[t]][pending[t]] = "header" BY <2>2, <2>3 DEF Assembled, Kind
  <2>9. \A n \in DOMAIN tb[t] :
          tb[t][n] = pending[t] + n /\ content[fd[t]][tb[t][n]] = "text"
    BY <1>0, <2>2, <2>3 DEF Assembled, Kind
  <2>10. pc[t] \in ReadStates BY <2>1 DEF ReadStates
  <2>11. e.ino = fd[t] /\ e.line = pending[t] /\ e.tb = tb[t] OBVIOUS
  <2> HIDE DEF e
  <2> QED BY <2>1, <2>4, <2>5, <2>6, <2>7, <2>8, <2>9, <2>10, <2>11
<1>2. CASE Persist(t)
  <2> DEFINE e == [ino |-> fd[t], line |-> held[t], tb |-> <<>>]
  <2>1. /\ pc[t] = "persist" /\ events' = Append(events, e) /\ pc'[t] = "check"
        /\ held'[t] = 0 /\ UNCHANGED <<pos, pending>>
    BY <1>2 DEF Persist, TypeOK
  <2>2. Position(t) /\ fd[t] \in Inodes
    BY <2>1 DEF Records, RecordOK, Control, FdSet, Live, ReadStates
  <2>3. pending[t] = 0 /\ held[t] \in Lines /\ held[t] = pos[t]
    BY <1>0, <2>1, <2>2 DEF Position, Lines
  <2>4. e \in Event BY <2>2, <2>3 DEF Event
  <2>5. e.line = Floor(t) /\ Floor(t)' = pos[t] + 1
    BY <2>1, <2>3 DEF Floor, Lines
  <2>6. LastLine(e) = held[t] BY <1>0 DEF LastLine
  <2>7. LastLine(e) <= Len(content[fd[t]]) BY <2>2, <2>3, <2>6 DEF Position
  <2>8. e.ino = fd[t] /\ e.tb = <<>> /\ DOMAIN e.tb = {} OBVIOUS
  <2> HIDE DEF e
  <2> QED BY <1>0, <2>1, <2>3, <2>4, <2>5, <2>6, <2>7, <2>8 DEF ReadStates
<1>3. CASE ~CommitApp(t) /\ ~Persist(t)
  BY <1>3 DEF Thread, Open, Seek, CheckStop, ReadNothing, ReadBadStamp,
     ReadContinuation, ReadNextRecord, ReadHeader, ReadSingle, ReadSkipped,
     ReadLine, CommitAppFails, AlertReturns, PersistFails
<1> QED BY <1>1, <1>2, <1>3

\* A step that persists nothing keeps the events, the frontiers of the
\* threads it leaves alone, and what was persisted contiguous.
LEMMA SameEventsKept ==
  ASSUME FollowerAssumption, TypeOK, TypeOK', TracebacksContiguous,
         EventsInFileOrder, FilesGrow, events' = events
  PROVE  TracebacksContiguous' /\ EventsInFileOrder'
<1>1. \A j \in DOMAIN events : LET e == events[j] IN
        /\ LastLine(e) <= Len(content'[e.ino])
        /\ e.tb # <<>> => content'[e.ino][e.line] = "header"
        /\ \A n \in DOMAIN e.tb :
              e.tb[n] = e.line + n /\ content'[e.ino][e.tb[n]] = "text"
  BY EventsStayContiguous
<1>2. TracebacksContiguous' BY <1>1 DEF TracebacksContiguous, LastLine
<1>3. EventsInFileOrder' BY DEF EventsInFileOrder, LastLine
<1> QED BY <1>2, <1>3

\* A thread that is left alone stays behind its frontier.
LEMMA SameThreadKeepsFrontier ==
  ASSUME NEW u \in Tids, Frontier(u), SameThread(u), events' = events
  PROVE  Frontier(u)'
  BY DEF Frontier, Floor, LastLine, SameThread

\* A frontier is a line number.
LEMMA FloorType ==
  ASSUME TypeOK, NEW t \in Tids
  PROVE  Floor(t) \in Nat
<1>1. pos[t] \in Nat /\ pending[t] \in Nat /\ held[t] \in Nat BY ThreadType
<1> QED BY <1>1 DEF Floor

\* A thread that persists nothing stays behind its frontier.
LEMMA SilentThreadKeepsFrontier ==
  ASSUME FollowerAssumption, TypeOK, TypeOK', Control, Records,
         TracebacksContiguous, NEW t \in Tids, Frontier(t), Thread(t),
         events' = events
  PROVE  Frontier(t)'
<1> SUFFICES ASSUME pc'[t] \in ReadStates, NEW j \in DOMAIN events,
                    events[j].ino = fd'[t]
             PROVE  LastLine(events[j]) < Floor(t)'
  BY DEF Frontier, LastLine
<1>1. /\ fd'[t] = fd[t]
      /\ \/ pc[t] = "seek" /\ Floor(t)' = Len(content[fd[t]]) + 1
         \/ pc[t] \in ReadStates /\ Floor(t) <= Floor(t)'
  BY FloorMovesForward
<1>2. LastLine(events[j]) \in Nat BY EventType
<1>3. Floor(t) \in Nat BY FloorType
<1>4. Floor(t)' \in Nat
  <2>1. pos'[t] \in Nat /\ pending'[t] \in Nat /\ held'[t] \in Nat BY DEF TypeOK
  <2> QED BY <2>1 DEF Floor
<1>5. CASE pc[t] = "seek" /\ Floor(t)' = Len(content[fd[t]]) + 1
  <2>1. LastLine(events[j]) <= Len(content[events[j].ino])
    BY DEF TracebacksContiguous
  <2>2. events[j].ino \in Inodes BY EventType
  <2>3. Len(content[events[j].ino]) \in Nat BY <2>2, ThreadType
  <2> QED BY <1>1, <1>2, <1>5, <2>1, <2>3
<1>6. CASE pc[t] \in ReadStates /\ Floor(t) <= Floor(t)'
  <2>1. LastLine(events[j]) < Floor(t) BY <1>1, <1>6 DEF Frontier
  <2> QED BY <1>2, <1>3, <1>4, <1>6, <2>1
<1> QED BY <1>1, <1>5, <1>6

\* What a thread persists comes after all that was persisted of its file, and
\* no other thread has that file open.
LEMMA PersistingThreadKeepsOrder ==
  ASSUME FollowerAssumption, TypeOK, TypeOK', Control, Records,
         \A u \in Tids : Frontier(u), TracebacksContiguous, EventsInFileOrder,
         NEW t \in Tids, Thread(t), events' # events
  PROVE  /\ \A u \in Tids : Frontier(u)'
         /\ TracebacksContiguous' /\ EventsInFileOrder'
<1>1. PICK e \in Event :
           /\ events' = Append(events, e)
           /\ e.ino = fd[t] /\ e.line = Floor(t)
           /\ pc[t] \in ReadStates /\ pc'[t] \in ReadStates
           /\ LastLine(e) < Floor(t)'
           /\ LastLine(e) <= Len(content[e.ino])
           /\ e.tb # <<>> => content[e.ino][e.line] = "header"
           /\ \A n \in DOMAIN e.tb :
                 e.tb[n] = e.line + n /\ content[e.ino][e.tb[n]] = "text"
  BY PersistedAtFrontier
<1>2. /\ Len(events) \in Nat /\ DOMAIN events = 1..Len(events)
      /\ DOMAIN events' = 1..(Len(events) + 1)
      /\ events'[Len(events) + 1] = e
      /\ \A j \in DOMAIN events : events'[j] = events[j]
  <2>1. events \in Seq(Event) BY DEF TypeOK
  <2> QED BY <1>1, <2>1, AppendProperties, LenProperties
<1>3. \A j \in DOMAIN events' :
         (j \in DOMAIN events /\ events'[j] = events[j])
         \/ (j = Len(events) + 1 /\ events'[j] = e)
  BY <1>2
<1>4. \A j \in DOMAIN events : events[j].ino = fd[t] => LastLine(events[j]) < e.line
  BY <1>1 DEF Frontier
<1>5. content' = content
  BY DEF Thread, Open, Seek, CheckStop, ReadNothing, ReadBadStamp,
     ReadContinuation, ReadNextRecord, ReadHeader, ReadSingle, ReadSkipped,
     ReadLine, CommitApp, CommitAppFails, AlertReturns, Persist, PersistFails,
     fileVars
<1>6. TracebacksContiguous'
  <2> SUFFICES ASSUME NEW j \in DOMAIN events'
               PROVE  LET d == events'[j] IN
                      /\ LastLine(d) <= Len(content[d.ino])
                      /\ d.tb # <<>> => content[d.ino][d.line] = "header"
                      /\ \A n \in DOMAIN d.tb :
                            d.tb[n] = d.line + n /\ content[d.ino][d.tb[n]] = "text"
    BY <1>5 DEF TracebacksContiguous, LastLine
  <2>1. CASE j \in DOMAIN events /\ events'[j] = events[j]
    BY <2>1 DEF TracebacksContiguous
  <2>2. CASE events'[j] = e BY <1>1, <2>2
  <2> QED BY <1>3, <2>1, <2>2
<1>7. EventsInFileOrder'
  <2> SUFFICES ASSUME NEW i \in DOMAIN events', NEW j \in DOMAIN events',
                      i < j, events'[i].ino = events'[j].ino
               PROVE  LastLine(events'[i]) < events'[j].line
    BY DEF EventsInFileOrder, LastLine
  <2>1. i \in DOMAIN events /\ events'[i] = events[i] BY <1>2
  <2>2. CASE j \in DOMAIN events /\ events'[j] = events[j]
    BY <2>1, <2>2 DEF EventsInFileOrder
  <2>3. CASE events'[j] = e BY <1>1, <1>4, <2>1, <2>3
  <2> QED BY <1>3, <2>2, <2>3
<1>8. ASSUME NEW u \in Tids PROVE Frontier(u)'
  <2> SUFFICES ASSUME pc'[u] \in ReadStates, NEW j \in DOMAIN events',
                      events'[j].ino = fd'[u]
               PROVE  LastLine(events'[j]) < Floor(u)'
    BY DEF Frontier, LastLine
  <2>1. CASE u = t
    <3>1. fd'[t] = fd[t] /\ Floor(t) <= Floor(t)'
      BY <1>1, FloorMovesForward DEF ReadStates
    <3>2. Floor(t) \in Nat BY FloorType
    <3>3. Floor(t)' \in Nat
      <4>1. pos'[t] \in Nat /\ pending'[t] \in Nat /\ held'[t] \in Nat BY DEF TypeOK
      <4> QED BY <4>1 DEF Floor
    <3>4. CASE j \in DOMAIN events /\ events'[j] = events[j]
      <4>1. LastLine(events[j]) \in Nat BY <3>4, EventType
      <4> QED BY <1>1, <1>4, <2>1, <3>1, <3>2, <3>3, <3>4, <4>1
    <3>5. CASE events'[j] = e BY <1>1, <2>1, <3>5
    <3> QED BY <1>3, <3>4, <3>5
  <2>2. CASE u # t
    <3>1. /\ pc'[u] = pc[u] /\ fd'[u] = fd[u] /\ Floor(u)' = Floor(u)
      BY <2>2, ThreadFrame DEF Floor
    <3>2. CASE j \in DOMAIN events /\ events'[j] = events[j]
      BY <3>1, <3>2 DEF Frontier
    <3>3. CASE events'[j] = e
      <4>1. fd[u] = fd[t] BY <1>1, <3>1, <3>3
      <4>2. Live(t) /\ Live(u) /\ fd[t] # 0
        <5>1. fd[t] \in Inodes /\ Live(t)
          BY <1>1 DEF Control, FdSet, Live, ReadStates
        <5>2. fd[t] # 0 BY <5>1 DEF Inodes
        <5> QED BY <3>1, <5>1, <5>2 DEF Live, ReadStates
      <4> QED BY <2>2, <4>1, <4>2 DEF Control, OneReaderPerFile
    <3> QED BY <1>3, <3>2, <3>3
  <2> QED BY <2>1, <2>2
<1> QED BY <1>6, <1>7, <1>8

---------------------------------------------------------------------------
(* The invariant, and the theorems.                                        *)

\* Every step of a thread keeps the invariant.
LEMMA ThreadStep ==
  ASSUME FollowerAssumption, IInv, NEW t \in Tids, Thread(t)
  PROVE  IInv'
<1> USE DEF IInv
<1>1. TypeOK' BY ThreadKeepsTypes
<1>2. Control'
  <2>1. CASE Open(t) BY <2>1, OpenKeepsControl
  <2>2. ASSUME ~Open(t)
        PROVE  /\ \E s \in ReadStates \cup {"dead"} : pc' = [pc EXCEPT ![t] = s]
               /\ pc[t] \notin {"none", "dead", "open"}
               /\ UNCHANGED <<newest, path, stop, fd, follower, mpc>>
    <3> USE DEF Goto, fileVars, managerVars, recordVars, ReadStates
    <3>1. CASE Seek(t) \/ CheckStop(t) \/ ReadNothing(t)
      BY <3>1 DEF Seek, CheckStop, ReadNothing
    <3>2. CASE \/ ReadBadStamp(t) \/ ReadContinuation(t) \/ ReadNextRecord(t)
               \/ ReadHeader(t) \/ ReadSingle(t) \/ ReadSkipped(t)
      BY <3>2 DEF ReadBadStamp, ReadContinuation, ReadNextRecord, ReadHeader,
         ReadSingle, ReadSkipped, ReadLine
    <3>3. CASE \/ CommitApp(t) \/ CommitAppFails(t) \/ AlertReturns(t)
               \/ Persist(t) \/ PersistFails(t)
      BY <3>3 DEF CommitApp, CommitAppFails, AlertReturns, Persist, PersistFails,
         Resume
    <3> QED BY <2>2, <3>1, <3>2, <3>3 DEF Thread
  <2>3. CASE ~Open(t)
    <3>1. PICK s \in ReadStates \cup {"dead"} : pc' = [pc EXCEPT ![t] = s]
      BY <2>2, <2>3
    <3> QED BY <2>2, <2>3, <3>1, ThreadKeepsControl
  <2> QED BY <2>1, <2>3
<1>3. ASSUME NEW u \in Tids, u # t PROVE SameThread(u)
  BY <1>3, ThreadFrame DEF SameThread
<1>4. FilesGrow BY StepGrowsFiles DEF Next
<1>5. Records'
  <2>1. RecordOK(t)' BY ThreadKeepsRecord
  <2>2. ASSUME NEW u \in Tids, u # t PROVE RecordOK(u)'
    BY <1>1, <1>3, <1>4, <2>2, SameThreadKeepsRecord
  <2> QED BY <2>1, <2>2 DEF Records
<1>6. CASE events' = events
  <2>1. \A u \in Tids : Frontier(u)'
    BY <1>1, <1>3, <1>6, SilentThreadKeepsFrontier, SameThreadKeepsFrontier
  <2>2. TracebacksContiguous' /\ EventsInFileOrder'
    BY <1>1, <1>4, <1>6, SameEventsKept
  <2> QED BY <1>1, <1>2, <1>5, <2>1, <2>2
<1>7. CASE events' # events
  BY <1>1, <1>2, <1>5, <1>7, PersistingThreadKeepsOrder
<1> QED BY <1>6, <1>7

\* So does every step of the files, the manager, the process and Redis.
LEMMA OtherStep ==
  ASSUME FollowerAssumption, IInv, FileStep \/ Manager \/ Restart \/ RedisRestart
  PROVE  IInv'
<1> USE DEF IInv
<1>1. TypeOK' BY OthersKeepTypes
<1>2. Control'
  <2>1. CASE FileStep BY <2>1, FileStepKeepsControl
  <2>2. CASE Manager BY <2>2, ManagerKeepsControl
  <2>3. CASE Restart
    BY <2>3 DEF Restart, fileVars, Control, FilesCurrent, FdSet, StoppedBehind,
       ManagerSound, NoStrayFollower, OneReaderPerFile, Live
  <2>4. CASE RedisRestart
    BY <2>4 DEF RedisRestart, fileVars, threadVars, managerVars, Control,
       FilesCurrent, FdSet, StoppedBehind, ManagerSound, NoStrayFollower,
       OneReaderPerFile, Live, InodeKnown
  <2> QED BY <2>1, <2>2, <2>3, <2>4
<1>3. FilesGrow BY StepGrowsFiles DEF Next
<1>4. ASSUME NEW u \in Tids
      PROVE  /\ RecordOK(u)' /\ events' = events
             /\ SameThread(u) \/ pc'[u] \in {"open", "dead"}
  BY <1>1, OthersKeepRecords
<1>5. events' = events
  BY DEF FileStep, WriteLine, MoveAway, Create, Reopen, Manager, ScanExists,
     ScanLook, ScanRotated, ScanSame, ScanRecheck, ScanStart, Restart, RedisRestart
<1>6. \A u \in Tids : Frontier(u)'
  <2>1. ASSUME NEW u \in Tids, SameThread(u) PROVE Frontier(u)'
    BY <1>5, <2>1, SameThreadKeepsFrontier
  <2>2. ASSUME NEW u \in Tids, pc'[u] \in {"open", "dead"} PROVE Frontier(u)'
    BY <2>2 DEF Frontier, ReadStates
  <2> QED BY <1>4, <2>1, <2>2
<1>7. TracebacksContiguous' /\ EventsInFileOrder'
  BY <1>1, <1>3, <1>5, SameEventsKept
<1> QED BY <1>1, <1>2, <1>4, <1>6, <1>7 DEF Records

\* The invariant depends on the variables only.
LEMMA StutterStep ==
  ASSUME IInv, UNCHANGED vars
  PROVE  IInv'
<1> USE DEF vars, fileVars, threadVars, managerVars
<1>1. TypeOK' BY DEF IInv, TypeOK
<1>2. Control'
  BY DEF IInv, Control, FilesCurrent, FdSet, StoppedBehind, ManagerSound,
     NoStrayFollower, OneReaderPerFile, Live, InodeKnown
<1>3. Records' BY DEF IInv, Records, RecordOK, Assembled, Position, Kind
<1>4. \A t \in Tids : Frontier(t)' BY DEF IInv, Frontier, Floor, LastLine
<1>5. TracebacksContiguous' /\ EventsInFileOrder'
  BY DEF IInv, TracebacksContiguous, EventsInFileOrder, LastLine
<1> QED BY <1>1, <1>2, <1>3, <1>4, <1>5 DEF IInv

\* The invariant holds before anything has happened.
LEMMA InitIInv ==
  ASSUME FollowerAssumption, Init
  PROVE  IInv
<1> USE DEF Init
<1>1. TypeOK
  <2>1. 1 \in Inodes BY DEF Inodes, FollowerAssumption
  <2>2. /\ <<>> \in Seq(Kinds) /\ <<>> \in Seq(Lines) /\ <<>> \in Seq(Event)
        /\ <<>> \in Seq(Entry) /\ Len(<<>>) <= TailMax
    BY DEF FollowerAssumption
  <2> QED BY <2>1, <2>2 DEF TypeOK
<1>2. Control
  BY DEF Control, FilesCurrent, FdSet, StoppedBehind, ManagerSound,
     NoStrayFollower, OneReaderPerFile, Live
<1>3. Records BY DEF Records, RecordOK, ReadStates
<1>4. \A t \in Tids : Frontier(t) BY DEF Frontier, ReadStates
<1>5. DOMAIN events = {} OBVIOUS
<1>6. TracebacksContiguous /\ EventsInFileOrder
  BY <1>5 DEF TracebacksContiguous, EventsInFileOrder
<1> QED BY <1>1, <1>2, <1>3, <1>4, <1>6 DEF IInv

\* Whatever the files, the threads, the manager, the database and the process
\* do, every reachable state satisfies the inductive invariant.
THEOREM Invariance == Spec => []IInv
<1>1. Init => IInv BY InitIInv, FollowerAssumption
<1>2. IInv /\ [Next]_vars => IInv'
  <2> SUFFICES ASSUME IInv, [Next]_vars PROVE IInv'
    OBVIOUS
  <2>1. CASE \E t \in Tids : Thread(t)
    BY <2>1, ThreadStep, FollowerAssumption
  <2>2. CASE FileStep \/ Manager \/ Restart \/ RedisRestart
    BY <2>2, OtherStep, FollowerAssumption
  <2>3. CASE UNCHANGED vars BY <2>3, StutterStep
  <2> QED BY <2>1, <2>2, <2>3 DEF Next
<1> QED BY <1>1, <1>2, PTL DEF Spec

\* The state of the follower process keeps its types, and the tail its cap.
THEOREM TypeCorrect == Spec => []TypeOK
<1>1. IInv => TypeOK BY DEF IInv
<1> QED BY <1>1, Invariance, PTL

\* No two live followers read the same file, whenever the log is rotated
\* (_ensure_follower stops the old one and starts a new one without waiting).
THEOREM OneReader == Spec => []OneReaderPerFile
<1>1. IInv => OneReaderPerFile BY DEF IInv, Control
<1> QED BY <1>1, Invariance, PTL

\* The manager never loses a follower that it has not stopped.
THEOREM NoStray == Spec => []NoStrayFollower
<1>1. IInv => NoStrayFollower BY DEF IInv, Control
<1> QED BY <1>1, Invariance, PTL

\* No line of a file is persisted twice, or after a later line of it, across
\* rotations, deaths of threads, failed commits and restarts.
THEOREM EventsOrdered == Spec => []EventsInFileOrder
<1>1. IInv => EventsInFileOrder BY DEF IInv
<1> QED BY <1>1, Invariance, PTL

\* A persisted traceback is a run of consecutive lines of one file.
THEOREM TracebacksSound == Spec => []TracebacksContiguous
<1>1. IInv => TracebacksContiguous BY DEF IInv
<1> QED BY <1>1, Invariance, PTL

\* Every step of the follower process leaves the events as they are, or adds
\* one and leaves the files as they are.
LEMMA EventsGrow ==
  ASSUME TypeOK, Next
  PROVE  \/ events' = events
         \/ /\ content' = content
            /\ \E e \in [ino : {0} \cup Inodes, line : Nat, tb : Seq(Lines)] :
                  events' = Append(events, e)
<1>1. CASE \E t \in Tids : Thread(t)
  <2>1. PICK t \in Tids : Thread(t) BY <1>1
  <2>2. /\ fd[t] \in {0} \cup Inodes /\ pending[t] \in Nat /\ held[t] \in Nat
        /\ tb[t] \in Seq(Lines) /\ <<>> \in Seq(Lines)
    BY DEF TypeOK
  <2>3. CASE CommitApp(t) BY <2>2, <2>3 DEF CommitApp, fileVars
  <2>4. CASE Persist(t) BY <2>2, <2>4 DEF Persist, fileVars
  <2>5. CASE ~CommitApp(t) /\ ~Persist(t)
    BY <2>1, <2>5 DEF Thread, Open, Seek, CheckStop, ReadNothing, ReadBadStamp,
       ReadContinuation, ReadNextRecord, ReadHeader, ReadSingle, ReadSkipped,
       ReadLine, CommitAppFails, AlertReturns, PersistFails
  <2> QED BY <2>3, <2>4, <2>5
<1>2. CASE FileStep BY <1>2 DEF FileStep, WriteLine, MoveAway, Create, Reopen
<1>3. CASE Manager \/ Restart \/ RedisRestart
  BY <1>3 DEF Manager, ScanExists, ScanLook, ScanRotated, ScanSame,
     ScanRecheck, ScanStart, Restart, RedisRestart
<1> QED BY <1>1, <1>2, <1>3 DEF Next

\* A step that leaves the events as they are adds a line to a file, or none.
LEMMA FilesGrowByOne ==
  ASSUME FollowerAssumption, TypeOK, Next, events' = events
  PROVE  content' = content \/ Ingest!Grow
<1>1. ASSUME NEW k \in Written, WriteLine(k) PROVE Ingest!Grow
  <2>1. k \in Kinds /\ writer \in Inodes BY DEF FollowerAssumption, TypeOK
  <2>2. content' = [content EXCEPT ![writer] = Append(content[writer], k)]
    BY <1>1 DEF WriteLine
  <2> QED BY <2>1, <2>2 DEF Ingest!Grow
<1>2. CASE MoveAway \/ Create \/ Reopen
  BY <1>2 DEF MoveAway, Create, Reopen
<1>3. CASE \E t \in Tids : Thread(t)
  BY <1>3 DEF Thread, Open, Seek, CheckStop, ReadNothing, ReadBadStamp,
     ReadContinuation, ReadNextRecord, ReadHeader, ReadSingle, ReadSkipped,
     ReadLine, CommitApp, CommitAppFails, AlertReturns, Persist, PersistFails,
     fileVars
<1>4. CASE Manager \/ Restart \/ RedisRestart
  BY <1>4 DEF Manager, ScanExists, ScanLook, ScanRotated, ScanSame,
     ScanRecheck, ScanStart, Restart, RedisRestart, fileVars
<1> QED BY <1>1, <1>2, <1>3, <1>4 DEF Next, FileStep

\* An event that is added keeps the promise: EventsInFileOrder says that it is
\* new, and TracebacksContiguous that it is found in the file.
LEMMA AddedIsRecorded ==
  ASSUME TypeOK, IInv', content' = content,
         NEW e, events' = Append(events, e)
  PROVE  Ingest!Record
<1> DEFINE n == Len(events) + 1
<1>1. /\ events \in Seq(Event) /\ events' \in Seq(Event)
      /\ EventsInFileOrder' /\ TracebacksContiguous'
  BY DEF TypeOK, IInv
<1>2. /\ Len(events) \in Nat /\ DOMAIN events = 1..Len(events)
      /\ DOMAIN events' = 1..n
      /\ events'[n] = e
      /\ \A i \in DOMAIN events : i \in DOMAIN events' /\ events'[i] = events[i] /\ i < n
  BY <1>1
<1>3. n \in DOMAIN events' BY <1>2
<1>4. e \in Event BY <1>1, <1>2, <1>3
<1>5. e \in Ingest!Event BY <1>4 DEF Event, Lines, Ingest!Event
<1>6. Ingest!Found(e)
  BY <1>1, <1>2, <1>3 DEF TracebacksContiguous, LastLine, Ingest!Found, Ingest!LastLine
<1>7. Ingest!New(e)
  BY <1>1, <1>2, <1>3 DEF EventsInFileOrder, LastLine, Ingest!New, Ingest!LastLine
<1> QED BY <1>2, <1>3, <1>5, <1>6, <1>7 DEF Ingest!Record

\* The follower process keeps the promise of LineIngest, for any number of
\* threads, files, faults and restarts.
THEOREM Ingests == Spec => IngestSpec
<1>1. Init => Ingest!Init BY DEF Init, Ingest!Init
<1>2. IInv /\ IInv' /\ [Next]_vars => [Ingest!Grow \/ Ingest!Record]_Ingest!vars
  <2> SUFFICES ASSUME IInv, IInv', [Next]_vars
               PROVE  [Ingest!Grow \/ Ingest!Record]_Ingest!vars
    OBVIOUS
  <2>1. TypeOK BY DEF IInv
  <2>2. CASE UNCHANGED vars BY <2>2 DEF vars, fileVars, Ingest!vars
  <2>3. CASE Next
    <3>1. CASE events' = events
      BY <2>1, <2>3, <3>1, FilesGrowByOne, FollowerAssumption DEF Ingest!vars
    <3>2. CASE events' # events
      <4>1. PICK e \in [ino : {0} \cup Inodes, line : Nat, tb : Seq(Lines)] :
                content' = content /\ events' = Append(events, e)
        BY <2>1, <2>3, <3>2, EventsGrow
      <4> QED BY <2>1, <4>1, AddedIsRecorded
    <3> QED BY <3>1, <3>2
  <2> QED BY <2>2, <2>3
<1> QED BY <1>1, <1>2, Invariance, PTL DEF Spec, IngestSpec, Ingest!Spec

---------------------------------------------------------------------------
(* The tail: its entries are not ahead of the thread that reads their file.*)

TailBehind ==
    \A i \in DOMAIN tail :
        /\ tail[i].line <= Len(content[tail[i].ino])
        /\ \A t \in Tids : (pc[t] \in ReadStates /\ fd[t] = tail[i].ino)
                               => tail[i].line <= pos[t]

TailInv == TailBehind /\ TailNewestFirst

\* The push of line n: the entry is put before those that stay.
PushedBefore(t, n) ==
    /\ DOMAIN tail' = 1..Len(tail') /\ Len(tail') \in Nat
    /\ tail'[1] = [ino |-> fd[t], line |-> n]
    /\ \A i \in 2..Len(tail') : i - 1 \in DOMAIN tail /\ tail'[i] = tail[i - 1]

LEMMA PushShape ==
  ASSUME FollowerAssumption, TypeOK, NEW t \in Tids, NEW n \in Lines,
         fd[t] \in Inodes, tail' = Pushed(t, n)
  PROVE  PushedBefore(t, n)
<1> DEFINE e == [ino |-> fd[t], line |-> n]
           s == <<e>> \o tail
<1>1. e \in Entry /\ tail \in Seq(Entry) BY DEF Entry, TypeOK
<1>2. /\ s \in Seq(Entry) /\ Len(s) = 1 + Len(tail) /\ Len(tail) \in Nat
      /\ DOMAIN tail = 1..Len(tail) /\ DOMAIN s = 1..Len(s)
      /\ s[1] = e /\ \A i \in 2..Len(s) : s[i] = tail[i - 1]
  BY <1>1, ConcatProperties, LenProperties
<1>3. CASE Len(s) > TailMax
  <2>1. tail' = SubSeq(s, 1, TailMax) BY <1>3 DEF Pushed, Trimmed
  <2>2. TailMax \in Nat /\ 1 <= TailMax BY DEF FollowerAssumption
  <2>3. /\ tail' \in Seq(Entry) /\ Len(tail') = TailMax
        /\ \A i \in 1..TailMax : tail'[i] = s[i]
    BY <1>2, <1>3, <2>1, <2>2, SubSeqProperties
  <2>4. DOMAIN tail' = 1..TailMax BY <2>3, LenProperties
  <2> QED BY <1>2, <1>3, <2>2, <2>3, <2>4 DEF PushedBefore
<1>4. CASE ~(Len(s) > TailMax)
  <2>1. tail' = s BY <1>4 DEF Pushed, Trimmed
  <2> QED BY <1>2, <2>1 DEF PushedBefore
<1> QED BY <1>3, <1>4

\* A thread that reads after a step was reading, and is not behind where it
\* was, or has just gone to the end of its file.
LEMMA ReaderAdvances ==
  ASSUME FollowerAssumption, IInv, IInv', Next, NEW u \in Tids, pc'[u] \in ReadStates
  PROVE  /\ fd'[u] = fd[u]
         /\ \/ pc[u] \in ReadStates /\ pos'[u] \in {pos[u], pos[u] + 1}
            \/ pos'[u] = Len(content[fd[u]])
<1> USE DEF IInv
<1>1. TypeOK /\ pos[u] \in Nat BY ThreadType
<1>2. ASSUME NEW t \in Tids, Thread(t), u # t
      PROVE  pc[u] \in ReadStates /\ pos'[u] = pos[u] /\ fd'[u] = fd[u]
  BY <1>1, <1>2, ThreadFrame
<1>3. CASE Thread(u)
  <2> USE DEF Goto, TypeOK, ReadStates
  <2>1. CASE Open(u) BY <1>1, <2>1 DEF Open
  <2>2. CASE Seek(u) BY <1>1, <2>2 DEF Seek
  <2>3. CASE CheckStop(u) BY <2>3 DEF CheckStop
  <2>4. CASE ReadNothing(u) BY <2>4 DEF ReadNothing
  <2>5. CASE ReadBadStamp(u) \/ ReadContinuation(u) \/ ReadNextRecord(u)
                \/ ReadHeader(u) \/ ReadSingle(u) \/ ReadSkipped(u)
    BY <2>5 DEF ReadBadStamp, ReadContinuation, ReadNextRecord, ReadHeader,
       ReadSingle, ReadSkipped, ReadLine
  <2>6. CASE CommitApp(u) \/ CommitAppFails(u) \/ AlertReturns(u)
    BY <2>6 DEF CommitApp, CommitAppFails, AlertReturns
  <2>7. CASE Persist(u) \/ PersistFails(u) BY <2>7 DEF Persist, PersistFails
  <2> QED BY <1>3, <2>1, <2>2, <2>3, <2>4, <2>5, <2>6, <2>7 DEF Thread
<1>4. CASE FileStep \/ Manager \/ Restart \/ RedisRestart
  <2>1. Control /\ Records /\ TypeOK /\ TypeOK' OBVIOUS
  <2>2. SameThread(u) \/ pc'[u] \in {"open", "dead"}
    BY <1>4, <2>1, OthersKeepRecords
  <2> QED BY <2>2 DEF SameThread, ReadStates
<1> QED BY <1>2, <1>3, <1>4 DEF Next

\* What is in the tail stays behind the threads, whatever step is taken.
LEMMA EntryStaysBehind ==
  ASSUME FollowerAssumption, IInv, IInv', Next, TailBehind, NEW i \in DOMAIN tail
  PROVE  /\ tail[i].line <= Len(content'[tail[i].ino])
         /\ \A t \in Tids : (pc'[t] \in ReadStates /\ fd'[t] = tail[i].ino)
                                => tail[i].line <= pos'[t]
<1> DEFINE e == tail[i]
<1>1. TypeOK /\ TypeOK' BY DEF IInv
<1>2. e.ino \in Inodes /\ e.line \in Nat
  <2>1. e \in Entry BY <1>1 DEF TypeOK
  <2> QED BY <2>1 DEF Entry, Lines
<1>3. Len(content[e.ino]) \in Nat /\ Len(content'[e.ino]) \in Nat
  <2>1. content[e.ino] \in Seq(Kinds) /\ content'[e.ino] \in Seq(Kinds)
    BY <1>1, <1>2 DEF TypeOK
  <2> QED BY <2>1, LenProperties
<1>4. e.line <= Len(content[e.ino]) BY DEF TailBehind
<1>5. e.line <= Len(content'[e.ino])
  BY <1>1, <1>2, <1>3, <1>4, StepGrowsFiles DEF FilesGrow
<1>6. ASSUME NEW t \in Tids, pc'[t] \in ReadStates, fd'[t] = e.ino
      PROVE  e.line <= pos'[t]
  <2>1. /\ fd[t] = e.ino /\ pos[t] \in Nat
        /\ \/ pc[t] \in ReadStates /\ pos'[t] \in {pos[t], pos[t] + 1}
           \/ pos'[t] = Len(content[e.ino])
    BY <1>1, <1>6, ReaderAdvances, ThreadType
  <2>2. CASE pc[t] \in ReadStates /\ pos'[t] \in {pos[t], pos[t] + 1}
    <3>1. e.line <= pos[t] BY <2>1, <2>2 DEF TailBehind
    <3> QED BY <1>2, <2>1, <2>2, <3>1
  <2>3. CASE pos'[t] = Len(content[e.ino]) BY <1>4, <2>3
  <2> QED BY <2>1, <2>2, <2>3
<1> QED BY <1>5, <1>6

\* A step that changes the tail empties it, or is of a thread that pushes the
\* line it has just read.
LEMMA TailSteps ==
  ASSUME TypeOK, Next
  PROVE  \/ tail' = tail
         \/ tail' = <<>>
         \/ \E t \in Tids : /\ Thread(t) /\ pc[t] = "read" /\ ~AtEOF(t)
                            /\ tail' = Pushed(t, pos[t] + 1)
                            /\ pos'[t] = pos[t] + 1
                            /\ pc'[t] # "dead"
<1>1. CASE \E t \in Tids : Thread(t)
  <2>1. PICK t \in Tids : Thread(t) BY <1>1
  <2>2. CASE ReadContinuation(t) \/ ReadNextRecord(t) \/ ReadHeader(t)
                \/ ReadSingle(t) \/ ReadSkipped(t)
    BY <2>1, <2>2 DEF ReadContinuation, ReadNextRecord, ReadHeader, ReadSingle,
       ReadSkipped, ReadLine, PushRedis, Goto, TypeOK
  <2>3. CASE ~(ReadContinuation(t) \/ ReadNextRecord(t) \/ ReadHeader(t)
                \/ ReadSingle(t) \/ ReadSkipped(t))
    BY <2>1, <2>3 DEF Thread, Open, Seek, CheckStop, ReadNothing, ReadBadStamp,
       CommitApp, CommitAppFails, AlertReturns, Persist, PersistFails
  <2> QED BY <2>2, <2>3
<1>2. CASE FileStep BY <1>2 DEF FileStep, WriteLine, MoveAway, Create, Reopen
<1>3. CASE Manager \/ Restart \/ RedisRestart
  BY <1>3 DEF Manager, ScanExists, ScanLook, ScanRotated, ScanSame,
     ScanRecheck, ScanStart, Restart, RedisRestart
<1> QED BY <1>1, <1>2, <1>3 DEF Next

\* A push keeps the tail in order: its file has one reader, and no entry of
\* the file is ahead of it.
LEMMA PushKeepsTail ==
  ASSUME FollowerAssumption, IInv, IInv', Next, TailInv,
         NEW t \in Tids, Thread(t), pc[t] = "read", ~AtEOF(t),
         tail' = Pushed(t, pos[t] + 1), pos'[t] = pos[t] + 1
  PROVE  TailInv'
<1> DEFINE n == pos[t] + 1
<1>1. TypeOK /\ TypeOK' /\ tail \in Seq(Entry) BY DEF IInv, TypeOK
<1>2. pc[t] \in ReadStates /\ Live(t) BY DEF ReadStates, Live
<1>3. fd[t] \in Inodes BY <1>2 DEF IInv, Control, FdSet
<1>4. /\ pos[t] \in Nat /\ Len(content[fd[t]]) \in Nat /\ n \in Lines
      /\ n <= Len(content[fd[t]])
  BY <1>1, <1>3, ThreadType DEF AtEOF, Lines
<1>5. PushedBefore(t, n) BY <1>1, <1>3, <1>4, PushShape
<1>6. content' = content /\ \A u \in Tids \ {t} : pc'[u] = pc[u] /\ fd'[u] = fd[u]
  <2>1. content' = content
    BY DEF Thread, Open, Seek, CheckStop, ReadNothing, ReadBadStamp,
       ReadContinuation, ReadNextRecord, ReadHeader, ReadSingle, ReadSkipped,
       ReadLine, CommitApp, CommitAppFails, AlertReturns, Persist, PersistFails,
       fileVars
  <2> QED BY <1>1, <2>1, ThreadFrame
<1>7. ASSUME NEW i \in DOMAIN tail, tail[i].ino = fd[t] PROVE tail[i].line < n
  <2>1. tail[i] \in Entry BY <1>1
  <2>2. tail[i].line <= pos[t] BY <1>2, <1>7 DEF TailInv, TailBehind
  <2> QED BY <1>4, <2>1, <2>2 DEF Entry, Lines
<1>8. TailNewestFirst'
  <2> SUFFICES ASSUME NEW i \in DOMAIN tail', NEW j \in DOMAIN tail', i < j,
                      tail'[i].ino = tail'[j].ino
               PROVE  tail'[i].line > tail'[j].line
    BY DEF TailNewestFirst
  <2>1. j - 1 \in DOMAIN tail /\ tail'[j] = tail[j - 1] BY <1>5 DEF PushedBefore
  <2>2. tail[j - 1].line \in Nat
    <3>1. tail[j - 1] \in Entry BY <1>1, <2>1
    <3> QED BY <3>1 DEF Entry, Lines
  <2>3. CASE i = 1
    <3>1. tail'[i].ino = fd[t] /\ tail'[i].line = n BY <1>5, <2>3 DEF PushedBefore
    <3>2. tail[j - 1].line < n BY <1>7, <2>1, <3>1
    <3> QED BY <1>4, <2>1, <2>2, <3>1, <3>2
  <2>4. CASE i # 1
    <3>1. i - 1 \in DOMAIN tail /\ tail'[i] = tail[i - 1] /\ i - 1 < j - 1
      BY <1>5, <2>4 DEF PushedBefore
    <3> QED BY <2>1, <3>1 DEF TailInv, TailNewestFirst
  <2> QED BY <2>3, <2>4
<1>9. TailBehind'
  <2> SUFFICES ASSUME NEW i \in DOMAIN tail'
               PROVE  /\ tail'[i].line <= Len(content'[tail'[i].ino])
                      /\ \A u \in Tids :
                            (pc'[u] \in ReadStates /\ fd'[u] = tail'[i].ino)
                            => tail'[i].line <= pos'[u]
    BY DEF TailBehind
  <2>1. CASE i = 1
    <3>1. tail'[i].ino = fd[t] /\ tail'[i].line = n BY <1>5, <2>1 DEF PushedBefore
    <3>2. ASSUME NEW u \in Tids, pc'[u] \in ReadStates, fd'[u] = fd[t] PROVE u = t
      <4>1. CASE u # t
        <5>1. pc[u] \in ReadStates /\ fd[u] = fd[t] BY <1>6, <3>2, <4>1
        <5>2. Live(u) BY <5>1 DEF Live, ReadStates
        <5>3. fd[u] # 0 BY <1>3, <5>1 DEF Inodes, FollowerAssumption
        <5> QED BY <1>2, <4>1, <5>1, <5>2, <5>3 DEF IInv, Control, OneReaderPerFile
      <4> QED BY <4>1
    <3> QED BY <1>4, <1>6, <3>1, <3>2
  <2>2. CASE i # 1
    <3>1. i - 1 \in DOMAIN tail /\ tail'[i] = tail[i - 1]
      BY <1>5, <2>2 DEF PushedBefore
    <3> QED BY <3>1, EntryStaysBehind DEF TailInv
  <2> QED BY <2>1, <2>2
<1> QED BY <1>8, <1>9 DEF TailInv

\* The tail is newest first, for all files and whatever followers push to it.
THEOREM TailOrdered == Spec => []TailNewestFirst
<1>1. Init => TailInv
  <2>1. ASSUME Init PROVE DOMAIN tail = {} BY <2>1 DEF Init
  <2> QED BY <2>1 DEF TailInv, TailBehind, TailNewestFirst
<1>2. TailInv /\ IInv /\ IInv' /\ [Next]_vars => TailInv'
  <2> SUFFICES ASSUME TailInv, IInv, IInv', [Next]_vars PROVE TailInv'
    OBVIOUS
  <2>1. CASE UNCHANGED vars
    BY <2>1 DEF vars, threadVars, fileVars, TailInv, TailBehind, TailNewestFirst
  <2>2. CASE Next /\ tail' = tail
    BY <2>2, EntryStaysBehind, FollowerAssumption DEF TailInv, TailBehind, TailNewestFirst
  <2>3. CASE Next /\ tail' = <<>>
    <3>1. DOMAIN tail' = {} BY <2>3
    <3> QED BY <3>1 DEF TailInv, TailBehind, TailNewestFirst
  <2>4. CASE Next /\ tail' # tail /\ tail' # <<>>
    <3>1. TypeOK BY DEF IInv
    <3> QED BY <2>4, <3>1, TailSteps, PushKeepsTail, FollowerAssumption
  <2> QED BY <2>1, <2>2, <2>3, <2>4
<1>3. TailInv => TailNewestFirst BY DEF TailInv
<1> QED BY <1>1, <1>2, <1>3, Invariance, PTL DEF Spec

---------------------------------------------------------------------------
\* Which logs there are: what is proved of the scan of logapps.yml.

\* What is scanned, and which of it is not switched off.
LEMMA ScanTyped ==
  ASSUME NEW config \in Seq(AppEntry)
  PROVE  /\ Scanned(config) \in Seq(ToSet(Scanned(config)))
         /\ Len(config) \in Nat /\ DOMAIN config = 1..Len(config)
         /\ DOMAIN Scanned(config) = 1..2 * Len(config)
         /\ \A k \in DOMAIN Scanned(config) : \E i \in DOMAIN config :
               \/ k = 2 * i - 1 /\ Scanned(config)[k] = FollowApp(config[i])
               \/ k = 2 * i /\ Scanned(config)[k] = FollowAccess(config[i])
<1>1. Len(config) \in Nat /\ DOMAIN config = 1..Len(config)
  OBVIOUS
<1>2. DOMAIN Scanned(config) = 1..2 * Len(config)
  BY DEF Scanned
<1>3. Scanned(config) \in [1..2 * Len(config) -> ToSet(Scanned(config))]
  BY DEF Scanned, ToSet
<1>4. Scanned(config) \in Seq(ToSet(Scanned(config)))
  <2>1. 2 * Len(config) \in Nat
    BY <1>1
  <2> QED BY <1>3, <2>1
<1>5. ASSUME NEW k \in 1..2 * Len(config)
      PROVE  \E i \in DOMAIN config :
               \/ k = 2 * i - 1 /\ Scanned(config)[k] = FollowApp(config[i])
               \/ k = 2 * i /\ Scanned(config)[k] = FollowAccess(config[i])
  <2> DEFINE i == (k + 1) \div 2
  <2>1. /\ i \in 1..Len(config)
        /\ \/ k % 2 = 1 /\ k = 2 * i - 1
           \/ k % 2 # 1 /\ k = 2 * i
    BY <1>1
  <2>2. Scanned(config)[k] = IF k % 2 = 1 THEN FollowApp(config[i]) ELSE FollowAccess(config[i])
    BY DEF Scanned
  <2> HIDE DEF i
  <2> QED BY <1>1, <2>1, <2>2
<1> QED BY <1>1, <1>2, <1>4, <1>5

\* The paths of an entry that names no file but in words.
LEMMA PlainPaths ==
  ASSUME NEW entry \in AppEntry
  PROVE  /\ AppLogOf(entry) = Off => AppLogPath(entry) = NoPath
         /\ AppLogOf(entry) = Unset =>
               AppLogPath(entry) = <<entry.log_dir, AppLog[entry.name]>>
         /\ entry.access_log = Off => AccessLogPath(entry) = NoPath
         /\ entry.access_log = Unset =>
               AccessLogPath(entry) = <<entry.log_dir, AccessLog>>
<1>1. entry.name \in Apps
  BY DEF AppEntry
<1> QED BY <1>1, SettingsAssumption DEF AppLogPath, AccessLogPath, Resolved

\* Calls that are made are of what is scanned, in that order.
LEMMA CallsAre ==
  ASSUME NEW config \in Seq(AppEntry)
  PROVE  /\ Calls(config) \in Seq(ToSet(Scanned(config)))
         /\ \A k \in DOMAIN Calls(config) :
               /\ Calls(config)[k].path # NoPath
               /\ \E h \in DOMAIN Scanned(config) : Calls(config)[k] = Scanned(config)[h]
<1> DEFINE kept == {call \in ToSet(Scanned(config)) : call.path # NoPath}
           s == Scanned(config)
<1>1. s \in Seq(ToSet(s))
  BY ScanTyped
<1>2. Calls(config) = Sifted(s, kept)
  BY DEF Calls
<1>3. /\ Calls(config) \in Seq(ToSet(s))
      /\ \A k \in DOMAIN Calls(config) :
            /\ Calls(config)[k] \in kept
            /\ \E h \in DOMAIN s : Calls(config)[k] = s[h]
  <2> HIDE DEF s, kept
  <2> QED BY <1>1, <1>2, SiftedTyped
<1> QED BY <1>3

\* The calls of a scan differ: they are for different apps or different logs.
LEMMA CallsDiffer ==
  ASSUME NEW config \in Seq(AppEntry),
         \A i, j \in DOMAIN config : config[i].name = config[j].name => i = j
  PROVE  \A k, l \in DOMAIN Calls(config) : Calls(config)[k] = Calls(config)[l] => k = l
<1> DEFINE s == Scanned(config)
           calls == Calls(config)
           R == {r \in ToSet(s) \X ToSet(s) : r[1] # r[2]}
<1>1. /\ s \in Seq(ToSet(s)) /\ DOMAIN config = 1..Len(config) /\ Len(config) \in Nat
      /\ DOMAIN s = 1..2 * Len(config)
      /\ \A k \in DOMAIN s : \E i \in DOMAIN config :
               \/ k = 2 * i - 1 /\ s[k] = FollowApp(config[i])
               \/ k = 2 * i /\ s[k] = FollowAccess(config[i])
  BY ScanTyped
<1>2. calls \in Seq(ToSet(s))
  BY CallsAre
<1>3. ASSUME NEW k \in DOMAIN s, NEW l \in DOMAIN s, k < l
      PROVE  s[k] # s[l]
  <2>1. PICK i \in DOMAIN config :
             \/ k = 2 * i - 1 /\ s[k] = FollowApp(config[i])
             \/ k = 2 * i /\ s[k] = FollowAccess(config[i])
    BY <1>1
  <2>2. PICK j \in DOMAIN config :
             \/ l = 2 * j - 1 /\ s[l] = FollowApp(config[j])
             \/ l = 2 * j /\ s[l] = FollowAccess(config[j])
    BY <1>1
  <2>3. /\ s[k].app = config[i].name /\ s[l].app = config[j].name
        /\ s[k].parser = IF k = 2 * i THEN "access" ELSE "app"
        /\ s[l].parser = IF l = 2 * j THEN "access" ELSE "app"
    <3>1. /\ i \in Int /\ j \in Int /\ 2 * i - 1 # 2 * i /\ 2 * j - 1 # 2 * j
      BY <1>1
    <3>2. /\ s[k].app = config[i].name /\ s[l].app = config[j].name
          /\ k = 2 * i - 1 => s[k].parser = "app"
          /\ k = 2 * i => s[k].parser = "access"
          /\ l = 2 * j - 1 => s[l].parser = "app"
          /\ l = 2 * j => s[l].parser = "access"
      <4>1. \A e : /\ FollowApp(e).app = e.name /\ FollowApp(e).parser = "app"
                   /\ FollowAccess(e).app = e.name /\ FollowAccess(e).parser = "access"
        BY DEF FollowApp, FollowAccess
      <4> HIDE DEF s
      <4> QED BY <2>1, <2>2, <3>1, <4>1
    <3> HIDE DEF s
    <3> QED BY <2>1, <2>2, <3>1, <3>2
  <2>4. CASE i = j
    <3>1. k = 2 * i - 1 /\ l = 2 * i
      BY <1>1, <1>3, <2>1, <2>2, <2>4
    <3> QED BY <1>1, <2>3, <2>4, <3>1
  <2>5. CASE i # j
    BY <2>3, <2>5
  <2> QED BY <2>4, <2>5
<1>4. OrderedBy(s, R)
  <2>1. \A k \in DOMAIN s : s[k] \in ToSet(s)
    BY DEF ToSet
  <2> HIDE DEF s
  <2> QED BY <1>3, <2>1 DEF OrderedBy
<1>5. OrderedBy(calls, R)
  <2> HIDE DEF s, R
  <2> QED BY <1>1, <1>4, SiftedOrdered DEF Calls, s
<1>6. ASSUME NEW k \in DOMAIN calls, NEW l \in DOMAIN calls, k < l
      PROVE  calls[k] # calls[l]
  BY <1>5, <1>6 DEF OrderedBy
<1>7. \A k \in DOMAIN calls : k \in Nat
  BY <1>2
<1> HIDE DEF calls
<1> SUFFICES ASSUME NEW k \in DOMAIN calls, NEW l \in DOMAIN calls,
                    calls[k] = calls[l], k # l
             PROVE  FALSE
  BY DEF calls
<1>8. k < l \/ l < k
  BY <1>7
<1> QED BY <1>6, <1>8

\* A log of an app is followed by one call, unless its path is "".
LEMMA FollowedOnce ==
  ASSUME NEW config \in Seq(AppEntry),
         \A i, j \in DOMAIN config : config[i].name = config[j].name => i = j,
         NEW i \in DOMAIN config, NEW call,
         \/ call = FollowApp(config[i]) \/ call = FollowAccess(config[i])
  PROVE  /\ call.path = NoPath => Followed(config, config[i].name, call.parser) = {}
         /\ call.path # NoPath => \E k \in DOMAIN Calls(config) :
               Followed(config, config[i].name, call.parser) = {k}
<1> DEFINE s == Scanned(config)
           calls == Calls(config)
           kept == {c \in ToSet(s) : c.path # NoPath}
<1>1. /\ s \in Seq(ToSet(s)) /\ DOMAIN config = 1..Len(config) /\ Len(config) \in Nat
      /\ DOMAIN s = 1..2 * Len(config)
      /\ \A k \in DOMAIN s : \E j \in DOMAIN config :
               \/ k = 2 * j - 1 /\ s[k] = FollowApp(config[j])
               \/ k = 2 * j /\ s[k] = FollowAccess(config[j])
  BY ScanTyped
<1>2. \A k \in DOMAIN calls : calls[k].path # NoPath /\ \E h \in DOMAIN s : calls[k] = s[h]
  BY CallsAre
<1>3. call.app = config[i].name
  BY DEF FollowApp, FollowAccess
<1>4. ASSUME NEW k \in Followed(config, config[i].name, call.parser)
      PROVE  k \in DOMAIN calls /\ calls[k] = call
  <2>1. k \in DOMAIN calls /\ calls[k].app = config[i].name /\ calls[k].parser = call.parser
    BY DEF Followed
  <2>2. PICK h \in DOMAIN s : calls[k] = s[h]
    BY <1>2, <2>1
  <2>3. PICK j \in DOMAIN config : s[h] = FollowApp(config[j]) \/ s[h] = FollowAccess(config[j])
    BY <1>1
  <2>4. j = i
    BY <2>1, <2>2, <2>3 DEF FollowApp, FollowAccess
  <2> QED BY <2>1, <2>2, <2>3, <2>4 DEF FollowApp, FollowAccess
<1>5. call.path = NoPath => Followed(config, config[i].name, call.parser) = {}
  BY <1>2, <1>4
<1>6. ASSUME call.path # NoPath
      PROVE  \E k \in DOMAIN calls : Followed(config, config[i].name, call.parser) = {k}
  <2>1. \E h \in DOMAIN s : s[h] = call
    <3>1. CASE call = FollowApp(config[i])
      <4>1. 2 * i - 1 \in DOMAIN s
        BY <1>1
      <4>2. PICK j \in DOMAIN config :
               \/ 2 * i - 1 = 2 * j - 1 /\ s[2 * i - 1] = FollowApp(config[j])
               \/ 2 * i - 1 = 2 * j /\ s[2 * i - 1] = FollowAccess(config[j])
        BY <1>1, <4>1
      <4>3. i = j
        BY <1>1, <4>2
      <4>4. s[2 * i - 1] = FollowApp(config[i])
        BY <1>1, <4>2, <4>3
      <4> QED BY <3>1, <4>1, <4>4
    <3>2. CASE call = FollowAccess(config[i])
      <4>1. 2 * i \in DOMAIN s
        BY <1>1
      <4>2. PICK j \in DOMAIN config :
               \/ 2 * i = 2 * j - 1 /\ s[2 * i] = FollowApp(config[j])
               \/ 2 * i = 2 * j /\ s[2 * i] = FollowAccess(config[j])
        BY <1>1, <4>1
      <4>3. i = j
        BY <1>1, <4>2
      <4>4. s[2 * i] = FollowAccess(config[i])
        BY <1>1, <4>2, <4>3
      <4> QED BY <3>2, <4>1, <4>4
    <3> QED BY <3>1, <3>2
  <2>2. PICK h \in DOMAIN s : s[h] = call
    BY <2>1
  <2>3. s[h] \in kept
    BY <1>6, <2>2 DEF ToSet
  <2>4. \E k \in DOMAIN calls : calls[k] = s[h]
    <3>1. calls = Sifted(s, kept)
      BY DEF Calls
    <3> HIDE DEF s, kept, calls
    <3> QED BY <1>1, <2>3, <3>1, SiftedComplete
  <2>5. PICK k \in DOMAIN calls : calls[k] = call
    BY <2>2, <2>4
  <2>6. k \in Followed(config, config[i].name, call.parser)
    BY <1>3, <2>5 DEF Followed
  <2>7. ASSUME NEW l \in Followed(config, config[i].name, call.parser) PROVE l = k
    <3>1. l \in DOMAIN calls /\ calls[l] = calls[k]
      BY <1>4, <2>5
    <3> QED BY <2>5, <3>1, CallsDiffer
  <2> QED BY <2>5, <2>6, <2>7
<1> QED BY <1>5, <1>6

\* The path is "" of the logs that are switched off, and of no other.
LEMMA PathsOff ==
  ASSUME NEW entry \in AppEntry
  PROVE  /\ AppLogPath(entry) = NoPath <=> entry.app_log \in {Off} \cup FalseTexts
         /\ AccessLogPath(entry) = NoPath <=> entry.access_log = Off
<1>1. /\ entry.name \in Apps /\ entry.log_dir \in Dirs
      /\ entry.app_log \in Texts \cup {Unset, Off} /\ entry.access_log \in Texts \cup {Unset, Off}
  BY DEF AppEntry, Values
<1>2. ASSUME NEW value \in Texts \cup {Unset, Off}, NEW default \in Texts
      PROVE  Resolved(value, entry.log_dir, default) = NoPath <=> value = Off
  <2> DEFINE text == IF value \in Texts THEN value ELSE default
  <2>1. text \in Texts
    OBVIOUS
  <2>2. text \in DOMAIN AbsolutePath => AbsolutePath[text] # NoPath
    BY SettingsAssumption
  <2>3. <<entry.log_dir, text>> # NoPath
    <3>1. <<entry.log_dir, text>> \in Dirs \X Texts
      BY <1>1, <2>1
    <3> QED BY <3>1, SettingsAssumption
  <2>4. CASE value = Off
    BY <2>4 DEF Resolved
  <2>5. CASE value # Off
    <3>1. Resolved(value, entry.log_dir, default) =
            IF text \in DOMAIN AbsolutePath THEN AbsolutePath[text] ELSE <<entry.log_dir, text>>
      BY <2>5 DEF Resolved
    <3> QED BY <2>2, <2>3, <2>5, <3>1
  <2> QED BY <2>4, <2>5
<1>3. /\ AppLogOf(entry) \in Texts \cup {Unset, Off}
      /\ AppLogOf(entry) = Off <=> entry.app_log \in {Off} \cup FalseTexts
  BY <1>1 DEF AppLogOf
<1>4. AppLog[entry.name] \in Texts /\ AccessLog \in Texts
  BY <1>1, SettingsAssumption
<1> QED BY <1>1, <1>2, <1>3, <1>4 DEF AppLogPath, AccessLogPath

\* Each log is followed that is to be, once, and no other (FollowerManager._scan).
LEMMA EachIsFollowed ==
  ASSUME NEW config \in Configs
  PROVE  EachFollowed(config)
<1>1. /\ config \in Seq(AppEntry)
      /\ \A i, j \in DOMAIN config : config[i].name = config[j].name => i = j
  BY SettingsAssumption
<1> SUFFICES ASSUME NEW i \in DOMAIN config
             PROVE  /\ IF config[i].app_log \in {Off} \cup FalseTexts
                       THEN Followed(config, config[i].name, "app") = {}
                       ELSE \E k \in DOMAIN Calls(config) :
                               Followed(config, config[i].name, "app") = {k}
                    /\ IF config[i].access_log = Off
                       THEN Followed(config, config[i].name, "access") = {}
                       ELSE \E k \in DOMAIN Calls(config) :
                               Followed(config, config[i].name, "access") = {k}
  BY DEF EachFollowed
<1>2. config[i] \in AppEntry
  BY <1>1
<1> DEFINE app    == FollowApp(config[i])
           access == FollowAccess(config[i])
<1>3. /\ app.parser = "app" /\ app.path = AppLogPath(config[i])
      /\ access.parser = "access" /\ access.path = AccessLogPath(config[i])
  BY DEF FollowApp, FollowAccess
<1>4. /\ app.path = NoPath => Followed(config, config[i].name, app.parser) = {}
      /\ app.path # NoPath => \E k \in DOMAIN Calls(config) :
               Followed(config, config[i].name, app.parser) = {k}
  BY <1>1, FollowedOnce
<1>5. /\ access.path = NoPath => Followed(config, config[i].name, access.parser) = {}
      /\ access.path # NoPath => \E k \in DOMAIN Calls(config) :
               Followed(config, config[i].name, access.parser) = {k}
  BY <1>1, FollowedOnce
<1> HIDE DEF app, access
<1> QED BY <1>2, <1>3, <1>4, <1>5, PathsOff

\* Apps that have a directory each and name no file but in words share no log.
LEMMA PathsAreApart ==
  ASSUME NEW config \in Configs
  PROVE  PathsApart(config)
<1> DEFINE plain(entry) == /\ AppLogOf(entry) \in {Unset, Off}
                           /\ entry.access_log \in {Unset, Off}
                           /\ AppLog[entry.name] # AccessLog
<1>1. config \in Seq(AppEntry)
  BY SettingsAssumption
<1>2. \A i \in DOMAIN config : config[i] \in AppEntry
  BY <1>1
<1> DEFINE s == Scanned(config)
           calls == Calls(config)
<1>3. /\ s \in Seq(ToSet(s)) /\ DOMAIN config = 1..Len(config) /\ Len(config) \in Nat
      /\ DOMAIN s = 1..2 * Len(config)
      /\ \A k \in DOMAIN s : \E i \in DOMAIN config :
               \/ k = 2 * i - 1 /\ s[k] = FollowApp(config[i])
               \/ k = 2 * i /\ s[k] = FollowAccess(config[i])
  BY <1>1, ScanTyped
<1>4. /\ calls \in Seq(ToSet(s))
      /\ \A k \in DOMAIN calls : calls[k].path # NoPath /\ \E h \in DOMAIN s : calls[k] = s[h]
  BY <1>1, CallsAre
<1>5. ASSUME \A i \in DOMAIN config : plain(config[i]),
             \A i, j \in DOMAIN config : config[i].log_dir = config[j].log_dir => i = j
      PROVE  \A k, l \in DOMAIN calls : calls[k].path = calls[l].path => k = l
  <2> DEFINE R == {r \in ToSet(s) \X ToSet(s) : r[1].path = r[2].path => r[1].path = NoPath}
  <2>1. ASSUME NEW k \in DOMAIN s, NEW l \in DOMAIN s, k < l, s[k].path = s[l].path
        PROVE  s[k].path = NoPath
    <3>1. PICK i \in DOMAIN config :
               \/ k = 2 * i - 1 /\ s[k] = FollowApp(config[i])
               \/ k = 2 * i /\ s[k] = FollowAccess(config[i])
      BY <1>3
    <3>2. PICK j \in DOMAIN config :
               \/ l = 2 * j - 1 /\ s[l] = FollowApp(config[j])
               \/ l = 2 * j /\ s[l] = FollowAccess(config[j])
      BY <1>3
    <3>3. \A e \in {config[i], config[j]} :
             /\ AppLogPath(e) \in {NoPath, <<e.log_dir, AppLog[e.name]>>}
             /\ AccessLogPath(e) \in {NoPath, <<e.log_dir, AccessLog>>}
             /\ AppLog[e.name] # AccessLog
      BY <1>2, <1>5, PlainPaths
    <3>4. /\ s[k].path = AppLogPath(config[i]) \/ s[k].path = AccessLogPath(config[i])
          /\ s[l].path = AppLogPath(config[j]) \/ s[l].path = AccessLogPath(config[j])
      BY <3>1, <3>2 DEF FollowApp, FollowAccess
    <3>5. CASE i = j
      <4>1. k = 2 * i - 1 /\ l = 2 * i
        BY <1>3, <2>1, <3>1, <3>2, <3>5
      <4>2. s[k].path = AppLogPath(config[i]) /\ s[l].path = AccessLogPath(config[i])
        BY <1>3, <3>1, <3>2, <3>5, <4>1 DEF FollowApp, FollowAccess
      <4> DEFINE own == AppLog[config[i].name]
                 dir == config[i].log_dir
      <4>3. /\ s[k].path \in {NoPath, <<dir, own>>} /\ s[l].path \in {NoPath, <<dir, AccessLog>>}
            /\ own # AccessLog
        BY <3>3, <4>2
      <4>4. <<dir, own>> # <<dir, AccessLog>>
        BY <4>3
      <4> HIDE DEF s, own, dir
      <4> QED BY <2>1, <4>3, <4>4
    <3>6. CASE i # j
      <4>1. config[i].log_dir # config[j].log_dir
        BY <1>5, <3>6
      <4>2. /\ \A x, y : <<config[i].log_dir, x>> # <<config[j].log_dir, y>>
            /\ s[k].path \in {NoPath, <<config[i].log_dir, AppLog[config[i].name]>>, <<config[i].log_dir, AccessLog>>}
            /\ s[l].path \in {NoPath, <<config[j].log_dir, AppLog[config[j].name]>>, <<config[j].log_dir, AccessLog>>}
        BY <3>3, <3>4, <4>1
      <4> QED BY <2>1, <4>2
    <3> QED BY <3>5, <3>6
  <2>2. OrderedBy(s, R)
    <3>1. \A k \in DOMAIN s : s[k] \in ToSet(s)
      BY DEF ToSet
    <3> HIDE DEF s
    <3> QED BY <2>1, <3>1 DEF OrderedBy
  <2>3. OrderedBy(calls, R)
    <3> HIDE DEF s, R
    <3> QED BY <1>3, <2>2, SiftedOrdered DEF Calls, s
  <2>4. ASSUME NEW k \in DOMAIN calls, NEW l \in DOMAIN calls, k < l
        PROVE  calls[k].path # calls[l].path
    BY <1>4, <2>3, <2>4 DEF OrderedBy
  <2>5. \A k \in DOMAIN calls : k \in Nat
    BY <1>4
  <2> HIDE DEF calls
  <2> SUFFICES ASSUME NEW k \in DOMAIN calls, NEW l \in DOMAIN calls,
                      calls[k].path = calls[l].path, k # l
               PROVE  FALSE
    OBVIOUS
  <2>6. k < l \/ l < k
    BY <2>5
  <2> QED BY <2>4, <2>6
<1> QED BY <1>5 DEF PathsApart

\* _scan follows each log that is not switched off, once, and none that is, and
\* no file twice of apps that keep to a directory of their own, whatever is in
\* logapps.yml.
THEOREM LogsFollowedApart == Spec => []LogsConfigured
<1>1. LogsApart
  BY EachIsFollowed, PathsAreApart DEF LogsApart
<1>2. LogsConfigured
  BY <1>1 DEF LogsConfigured
<1> QED BY <1>2, PTL
===========================================================================
