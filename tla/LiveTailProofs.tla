-------------------------- MODULE LiveTailProofs --------------------------
(***************************************************************************)
(* Theorems about LiveTail, for any number of requests under way, kinds of *)
(* logs and lines: what the page shows is in the order of the log, and     *)
(* leaves nothing out, as long as the times of the log are in its order.   *)
(***************************************************************************)
EXTENDS LiveTail, SequenceLemmas

\* Every line that is anywhere on its way to the page was pushed; a list in
\* Redis has the lines of its kind.
Known ==
    /\ \A k \in Kinds : \A i \in DOMAIN tail[k] :
            tail[k][i] \in DOMAIN log /\ log[tail[k][i]].kind = k
    /\ \A p \in Polls : poll[p].at = "answered" =>
            \A i \in DOMAIN poll[p].lines : poll[p].lines[i] \in DOMAIN log
    /\ \A i \in DOMAIN terminal : terminal[i] \in DOMAIN log

TInv == TypeOK /\ Known

\* A line with a larger number, and one of the same log.
NewestFirst == {r \in Lines \X Lines : r[1] > r[2]}
OneKind     == {r \in Lines \X Lines : log[r[1]].kind = log[r[2]].kind}

\* Lists and answers are newest first, and an answer has lines of one log.
AnswersOrdered ==
    /\ \A k \in Kinds : OrderedBy(tail[k], NewestFirst)
    /\ \A p \in Polls : poll[p].at = "answered" =>
            OrderedBy(poll[p].lines, NewestFirst \cap OneKind)

\* No line that is shown is newer than the newest the page knows of.
NoneNewer == \A i \in DOMAIN terminal : At(terminal[i]) <= lastTs

\* What holds as long as the times of a log are in order.
IInv == TInv /\ LogOrdered /\ AnswersOrdered /\ NoneNewer /\ ShownInOrder

\* Once they are not, they never are again.
WhileOrdered == TInv /\ (LogOrdered => IInv)
---------------------------------------------------------------------------

\* The head of a sequence.
LEMMA FirstOfTyped ==
  ASSUME NEW X, NEW s \in Seq(X), NEW n \in Nat
  PROVE  /\ FirstOf(s, n) \in Seq(X)
         /\ \A i \in DOMAIN FirstOf(s, n) : i \in DOMAIN s /\ FirstOf(s, n)[i] = s[i]
         /\ Len(FirstOf(s, n)) = IF Len(s) < n THEN Len(s) ELSE n
         /\ DOMAIN FirstOf(s, n) = 1..Len(FirstOf(s, n))
  BY DEF FirstOf

\* The head of a sequence is ordered as the sequence is.
LEMMA FirstOfOrdered ==
  ASSUME NEW X, NEW s \in Seq(X), NEW n \in Nat, NEW R, OrderedBy(s, R)
  PROVE  OrderedBy(FirstOf(s, n), R)
  BY FirstOfTyped DEF OrderedBy

\* What is asked of a poll depends on how far it is.
LEMMA PollTyped ==
  ASSUME TypeOK, NEW p \in Polls
  PROVE  /\ poll[p].at = "asked" => poll[p].kind \in Kinds
         /\ poll[p].at = "answered" => poll[p].lines \in Seq(Lines)
  BY DEF TypeOK, NoPoll

\* The lines of a log are numbered in the order in which they were pushed.
LEMMA LogTyped ==
  ASSUME TypeOK
  PROVE  /\ DOMAIN log \subseteq Lines /\ DOMAIN log = 1..Len(log) /\ Len(log) \in Nat
         /\ \A m \in DOMAIN log : /\ At(m) \in 1..MaxTime /\ log[m].kind \in Kinds
                                 /\ log[m].stamped \in BOOLEAN
  <1>1. DOMAIN log = 1..Len(log) /\ Len(log) \in Nat /\ Len(log) <= MaxLines
    BY DEF TypeOK
  <1>2. ASSUME NEW m \in DOMAIN log
        PROVE  log[m] \in [kind : Kinds, occurred_at : 1..MaxTime, stamped : BOOLEAN]
    <2> DEFINE L == [kind : Kinds, occurred_at : 1..MaxTime, stamped : BOOLEAN]
    <2>1. log \in Seq(L)
      BY DEF TypeOK
    <2> HIDE DEF L
    <2>2. log[m] \in L
      BY <2>1
    <2> QED
      BY <2>2 DEF L
  <1> QED
    BY <1>1, <1>2, TailAssumption DEF Lines, At

\* The fresh lines of an answer are lines of the answer, and newer than what
\* was shown before, if anything was.
LEMMA FreshTyped ==
  ASSUME TypeOK, NEW s \in Seq(Lines)
  PROVE  /\ Fresh(s) \in Seq(Lines)
         /\ \A j \in DOMAIN Fresh(s) : \E i \in DOMAIN s : Fresh(s)[j] = s[i]
         /\ lastTs # Null => \A j \in DOMAIN Fresh(s) : Fresh(s)[j] \in Newer
  <1>1. ASSUME NEW r \in Seq(Lines)
        PROVE  /\ Reverse(r) \in Seq(Lines)
               /\ \A j \in DOMAIN Reverse(r) : \E i \in DOMAIN r : Reverse(r)[j] = r[i]
    <2>1. /\ DOMAIN Reverse(r) = 1..Len(r) /\ DOMAIN r = 1..Len(r) /\ Len(r) \in Nat
          /\ \A j \in 1..Len(r) : Reverse(r)[j] = r[(Len(r) - j) + 1]
      BY DEF Reverse
    <2>2. \A j \in 1..Len(r) : (Len(r) - j) + 1 \in DOMAIN r
      BY <2>1
    <2>3. Reverse(r) \in [1..Len(r) -> Lines]
      BY <2>1, <2>2 DEF Reverse
    <2> QED
      BY <2>1, <2>2, <2>3
  <1>2. CASE lastTs = Null
    <2> DEFINE r == FirstOf(s, FirstLines)
    <2>1. r \in Seq(Lines) /\ \A i \in DOMAIN r : i \in DOMAIN s /\ r[i] = s[i]
      BY FirstOfTyped, TailAssumption
    <2>2. Fresh(s) = Reverse(r)
      BY <1>2 DEF Fresh
    <2> HIDE DEF r
    <2> QED
      BY <1>1, <1>2, <2>1, <2>2
  <1>3. CASE lastTs # Null
    <2> DEFINE r == Sifted(s, Newer)
    <2>1. r \in Seq(Lines) /\ \A i \in DOMAIN r : r[i] \in Newer /\ \E h \in DOMAIN s : r[i] = s[h]
      BY SiftedTyped
    <2>2. Fresh(s) = Reverse(r)
      BY <1>3 DEF Fresh
    <2> HIDE DEF r
    <2> QED
      BY <1>1, <2>1, <2>2
  <1> QED
    BY <1>2, <1>3

\* The terminal shows lines it has shown and fresh ones, and no more than fit.
LEMMA ShownTyped ==
  ASSUME TypeOK, NEW s \in Seq(Lines)
  PROVE  /\ Shown(s) \in Seq(Lines) /\ Len(Shown(s)) <= TerminalCap
         /\ \A j \in DOMAIN Shown(s) :
                \/ \E i \in DOMAIN terminal : Shown(s)[j] = terminal[i]
                \/ \E i \in DOMAIN s : Shown(s)[j] = s[i]
  <1> DEFINE v == Sifted(s, Visible)
             all == terminal \o v
             from == IF Len(all) > TerminalCap THEN Len(all) - TerminalCap + 1 ELSE 1
  <1>1. v \in Seq(Lines) /\ \A j \in DOMAIN v : \E i \in DOMAIN s : v[j] = s[i]
    BY SiftedTyped
  <1> HIDE DEF v
  <1>2. /\ terminal \in Seq(Lines) /\ all \in Seq(Lines)
        /\ Len(all) = Len(terminal) + Len(v) /\ Len(terminal) \in Nat /\ Len(v) \in Nat
        /\ DOMAIN terminal = 1..Len(terminal) /\ DOMAIN v = 1..Len(v)
        /\ \A i \in 1..Len(terminal) : all[i] = terminal[i]
        /\ \A i \in 1..Len(v) : all[Len(terminal) + i] = v[i]
    BY <1>1 DEF TypeOK
  <1>3. ASSUME NEW i \in 1..Len(all)
        PROVE  \/ i \in DOMAIN terminal /\ all[i] = terminal[i]
               \/ i - Len(terminal) \in DOMAIN v /\ all[i] = v[i - Len(terminal)]
    <2>1. CASE i \in 1..Len(terminal)
      BY <1>2, <2>1
    <2>2. CASE i \notin 1..Len(terminal)
      <3>1. i - Len(terminal) \in 1..Len(v) /\ Len(terminal) + (i - Len(terminal)) = i
        BY <1>2, <2>2
      <3> QED
        BY <1>2, <3>1
    <2> QED
      BY <2>1, <2>2
  <1>4. Shown(s) = SubSeq(all, from, Len(all))
    BY DEF Shown, v
  <1> HIDE DEF all
  <1>5. Len(all) \in Nat /\ TerminalCap \in Nat \ {0} /\ from \in Nat \ {0}
    BY <1>2, TailAssumption
  <1>6. /\ Shown(s) \in Seq(Lines) /\ DOMAIN Shown(s) = 1..Len(Shown(s))
        /\ Len(Shown(s)) = IF from <= Len(all) THEN Len(all) - from + 1 ELSE 0
        /\ \A j \in DOMAIN Shown(s) :
              j + from - 1 \in DOMAIN all /\ Shown(s)[j] = all[j + from - 1]
    <2>1. Len(all) \in 0..Len(all) /\ all \in Seq(Lines)
      BY <1>2, <1>5
    <2> HIDE DEF from
    <2> QED
      BY <1>4, <1>5, <2>1, PartTyped
  <1>7. Len(Shown(s)) <= TerminalCap
    BY <1>5, <1>6
  <1>8. \A j \in DOMAIN Shown(s) : j + from - 1 \in 1..Len(all) /\ Shown(s)[j] = all[j + from - 1]
    BY <1>2, <1>6
  <1> HIDE DEF from
  <1>9. ASSUME NEW j \in DOMAIN Shown(s)
        PROVE  \/ \E i \in DOMAIN terminal : Shown(s)[j] = terminal[i]
               \/ \E i \in DOMAIN s : Shown(s)[j] = s[i]
    BY <1>1, <1>3, <1>8
  <1> QED
    BY <1>6, <1>7, <1>9
---------------------------------------------------------------------------

LEMMA TInitially == Init => TInv
  <1> SUFFICES ASSUME Init PROVE TInv
    OBVIOUS
  <1>1. <<>> \in Seq([kind : Kinds, occurred_at : 1..MaxTime, stamped : BOOLEAN])
    OBVIOUS
  <1>2. <<>> \in Seq(Lines) /\ Len(<<>>) = 0 /\ DOMAIN <<>> = {}
    OBVIOUS
  <1>3. TypeOK
    <2> DEFINE L == [kind : Kinds, occurred_at : 1..MaxTime, stamped : BOOLEAN]
               P == [at : {"asked"}, kind : Kinds] \cup [at : {"answered"}, lines : Seq(Lines)]
    <2>1. log \in Seq(L) /\ Len(log) <= MaxLines
      BY <1>1, <1>2, TailAssumption DEF Init
    <2>2. tail \in [Kinds -> Seq(Lines)] /\ \A k \in Kinds : Len(tail[k]) <= TailCap
      BY <1>2, TailAssumption DEF Init
    <2> HIDE DEF L, P
    <2>3. poll \in [Polls -> {NoPoll} \cup P]
      BY DEF Init
    <2>4. now \in 1..MaxTime /\ lastTs \in 0..MaxTime /\ kind \in Kinds /\ errorsOnly \in BOOLEAN
      <3>1. now = 1 /\ lastTs = 0 /\ kind = "app" /\ errorsOnly = FALSE
        BY DEF Init, Null
      <3>2. 1 \in 1..MaxTime /\ 0 \in 0..MaxTime /\ "app" \in Kinds
        BY TailAssumption
      <3> QED
        BY <3>1, <3>2
    <2>5. terminal \in Seq(Lines) /\ Len(terminal) <= TerminalCap
      BY <1>2, TailAssumption DEF Init
    <2> QED
      BY <2>1, <2>2, <2>3, <2>4, <2>5 DEF TypeOK, L, P
  <1>4. Known
    BY <1>2 DEF Init, Known, NoPoll
  <1> QED
    BY <1>3, <1>4 DEF TInv

\* A push adds a line at the end of the log and at the head of its list.
LEMMA PushTyped ==
  ASSUME TInv, NEW k \in Kinds, Push(k)
  PROVE  /\ TInv'
         /\ DOMAIN log' = DOMAIN log \cup {Len(log) + 1} /\ Len(log) + 1 \notin DOMAIN log
         /\ \A m \in DOMAIN log : log'[m] = log[m]
         /\ log'[Len(log) + 1] \in NextLines(k) /\ log'[Len(log) + 1].kind = k
         /\ <<Len(log) + 1>> \o tail[k] \in Seq(Lines)
         /\ tail' = [tail EXCEPT ![k] = FirstOf(<<Len(log) + 1>> \o tail[k], TailCap)]
  <1> DEFINE L == [kind : Kinds, occurred_at : 1..MaxTime, stamped : BOOLEAN]
             new == Len(log) + 1
             all == <<new>> \o tail[k]
  <1>1. PICK l \in NextLines(k) : log' = Append(log, l)
    BY DEF Push
  <1>2. l \in L /\ l.kind = k
    <2>1. now \in 1..MaxTime /\ \A t \in 1..now : t \in 1..MaxTime
      BY TailAssumption DEF TInv, TypeOK
    <2> QED
      BY <2>1 DEF NextLines
  <1>3. log \in Seq(L) /\ Len(log) < MaxLines
    BY DEF TInv, TypeOK, Push
  <1> HIDE DEF L
  <1>4. /\ log' \in Seq(L) /\ Len(log') = new /\ Len(log') <= MaxLines
        /\ DOMAIN log' = 1..new /\ DOMAIN log = 1..Len(log) /\ Len(log) \in Nat
        /\ log'[new] = l /\ \A m \in 1..Len(log) : log'[m] = log[m]
    BY <1>1, <1>2, <1>3, TailAssumption
  <1>5. /\ new \in Lines /\ DOMAIN log' = DOMAIN log \cup {new} /\ new \notin DOMAIN log
        /\ \A m \in DOMAIN log : log'[m] = log[m]
    BY <1>3, <1>4, TailAssumption DEF Lines
  <1> HIDE DEF new
  <1>6. /\ tail[k] \in Seq(Lines) /\ all \in Seq(Lines)
        /\ \A i \in DOMAIN all : all[i] = new \/ \E h \in DOMAIN tail[k] : all[i] = tail[k][h]
    <2>1. tail[k] \in Seq(Lines) /\ <<new>> \in Seq(Lines)
      BY <1>5 DEF TInv, TypeOK
    <2>2. /\ all \in Seq(Lines) /\ DOMAIN all = 1..Len(tail[k]) + 1 /\ Len(tail[k]) \in Nat
          /\ all[1] = new /\ \A i \in 2..Len(tail[k]) + 1 : all[i] = tail[k][i - 1]
      BY <2>1
    <2> HIDE DEF all
    <2>3. ASSUME NEW i \in DOMAIN all, i # 1 PROVE i - 1 \in DOMAIN tail[k] /\ all[i] = tail[k][i - 1]
      <3>1. i \in 2..Len(tail[k]) + 1 /\ i - 1 \in 1..Len(tail[k])
        BY <2>2, <2>3
      <3> QED
        BY <3>1, <2>1, <2>2
    <2> QED
      BY <2>1, <2>2, <2>3
  <1> HIDE DEF all
  <1>7. tail' = [tail EXCEPT ![k] = FirstOf(all, TailCap)]
    BY DEF Push, all, new
  <1>8. /\ FirstOf(all, TailCap) \in Seq(Lines)
        /\ \A i \in DOMAIN FirstOf(all, TailCap) : i \in DOMAIN all /\ FirstOf(all, TailCap)[i] = all[i]
        /\ Len(FirstOf(all, TailCap)) <= TailCap
    BY <1>6, FirstOfTyped, TailAssumption
  <1>9. TypeOK'
    <2>0. tail \in [Kinds -> Seq(Lines)] /\ \A j \in Kinds : Len(tail[j]) <= TailCap
      BY DEF TInv, TypeOK
    <2>1. tail' \in [Kinds -> Seq(Lines)] /\ \A j \in Kinds : Len(tail'[j]) <= TailCap
      <3> DEFINE r == FirstOf(all, TailCap)
      <3>1. r \in Seq(Lines) /\ Len(r) <= TailCap
        BY <1>8
      <3> HIDE DEF r
      <3>2. tail' = [tail EXCEPT ![k] = r]
        BY <1>7 DEF r
      <3> QED
        BY <2>0, <3>1, <3>2
    <2> QED
      BY <2>1, <1>4 DEF TInv, TypeOK, Push, pageVars, L, Lines
  <1>10. Known'
    <2>1. ASSUME NEW j \in Kinds, NEW i \in DOMAIN tail'[j]
          PROVE  tail'[j][i] \in DOMAIN log' /\ log'[tail'[j][i]].kind = j
      <3>1. CASE j = k
        <4>1. tail'[j] = FirstOf(all, TailCap)
          BY <1>7, <3>1 DEF TInv, TypeOK
        <4>2. i \in DOMAIN all /\ tail'[j][i] = all[i]
          BY <4>1, <1>8
        <4>3. CASE all[i] = new
          BY <4>2, <4>3, <1>2, <1>4, <1>5, <3>1
        <4>4. CASE \E h \in DOMAIN tail[k] : all[i] = tail[k][h]
          BY <4>2, <4>4, <1>5, <3>1 DEF TInv, Known
        <4> QED
          BY <4>2, <4>3, <4>4, <1>6
      <3>2. CASE j # k
        <4>1. tail'[j] = tail[j]
          BY <1>7, <3>2 DEF TInv, TypeOK
        <4> QED
          BY <4>1, <1>5 DEF TInv, Known
      <3> QED
        BY <3>1, <3>2
    <2> QED
      BY <2>1, <1>5 DEF TInv, Known, Push, pageVars
  <1> QED
    BY <1>1, <1>2, <1>4, <1>5, <1>6, <1>7, <1>9, <1>10 DEF TInv, all, new

\* An answer that arrives is shown, and was asked for.
LEMMA ArriveTyped ==
  ASSUME TInv, NEW p \in Polls, Arrive(p)
  PROVE  TInv'
  <1> DEFINE lines == poll[p].lines
  <1>1. lines \in Seq(Lines) /\ \A i \in DOMAIN lines : lines[i] \in DOMAIN log
    BY PollTyped DEF TInv, Known, Arrive
  <1>2. /\ terminal' = Shown(Fresh(lines))
        /\ lastTs' = IF Fresh(lines) # <<>> THEN At(lines[1]) ELSE lastTs
        /\ poll' = [poll EXCEPT ![p] = NoPoll]
        /\ UNCHANGED <<now, log, tail, kind, errorsOnly>>
    BY DEF Arrive
  <1> HIDE DEF lines
  <1>3. Fresh(lines) \in Seq(Lines) /\ \A j \in DOMAIN Fresh(lines) : \E i \in DOMAIN lines : Fresh(lines)[j] = lines[i]
    BY <1>1, FreshTyped DEF TInv
  <1>4. /\ terminal' \in Seq(Lines) /\ Len(terminal') <= TerminalCap
        /\ \A j \in DOMAIN terminal' : terminal'[j] \in DOMAIN log
    BY <1>1, <1>2, <1>3, ShownTyped DEF TInv, Known
  <1>5. lastTs' \in 0..MaxTime
    <2>1. CASE Fresh(lines) # <<>>
      <3>1. 1 \in DOMAIN Fresh(lines)
        BY <1>3, <2>1
      <3>2. 1 \in DOMAIN lines
        BY <3>1, <1>1, <1>3
      <3>3. At(lines[1]) \in 1..MaxTime
        BY <3>2, <1>1, LogTyped DEF TInv
      <3> QED
        BY <3>3, <2>1, <1>2
    <2>2. CASE Fresh(lines) = <<>>
      BY <2>2, <1>2 DEF TInv, TypeOK
    <2> QED
      BY <2>1, <2>2
  <1>6. TypeOK'
    BY <1>2, <1>4, <1>5 DEF TInv, TypeOK, Lines
  <1>7. Known'
    BY <1>2, <1>4 DEF TInv, TypeOK, Known, NoPoll
  <1> QED
    BY <1>6, <1>7 DEF TInv

\* The other steps move lines that are there.
LEMMA TStep == TInv /\ [Next]_vars => TInv'
  <1> SUFFICES ASSUME TInv, [Next]_vars PROVE TInv'
    OBVIOUS
  <1>1. ASSUME NEW k \in Kinds, Push(k) PROVE TInv'
    BY <1>1, PushTyped
  <1>2. ASSUME NEW p \in Polls, Arrive(p) PROVE TInv'
    BY <1>2, ArriveTyped
  <1>3. ASSUME NEW p \in Polls, Read(p) PROVE TInv'
    <2> DEFINE k == poll[p].kind
               s == FirstOf(tail[k], PollLimit)
    <2>1. k \in Kinds
      BY <1>3, PollTyped DEF TInv, Read
    <2>2. s \in Seq(Lines) /\ \A i \in DOMAIN s : s[i] \in DOMAIN log
      BY <2>1, FirstOfTyped, TailAssumption DEF TInv, TypeOK, Known
    <2>3. poll' = [poll EXCEPT ![p] = [at |-> "answered", lines |-> s]]
      BY <1>3 DEF Read
    <2> HIDE DEF s, k
    <2>4. TypeOK'
      BY <1>3, <2>2, <2>3 DEF TInv, TypeOK, Read, pageVars, Lines
    <2>5. Known'
      <3>1. ASSUME NEW q \in Polls, poll'[q].at = "answered", NEW i \in DOMAIN poll'[q].lines
            PROVE  poll'[q].lines[i] \in DOMAIN log
        BY <2>2, <2>3, <3>1 DEF TInv, TypeOK, Known
      <3> QED
        BY <1>3, <3>1 DEF TInv, Known, Read, pageVars
    <2> QED
      BY <2>4, <2>5 DEF TInv
  <1>4. ASSUME NEW p \in Polls, Ask(p) \/ PollFails(p) PROVE TInv'
    <2> DEFINE P == {NoPoll} \cup [at : {"asked"}, kind : Kinds]
                             \cup [at : {"answered"}, lines : Seq(Lines)]
    <2>0. PICK r \in P : poll' = [poll EXCEPT ![p] = r] /\ r.at # "answered"
      BY <1>4 DEF Ask, PollFails, TInv, TypeOK, NoPoll
    <2>1. TypeOK'
      <3>1. poll \in [Polls -> P]
        BY DEF TInv, TypeOK
      <3> HIDE DEF P
      <3>2. poll' \in [Polls -> P]
        BY <2>0, <3>1
      <3> USE DEF P
      <3> QED
        BY <1>4, <3>2 DEF TInv, TypeOK, Ask, PollFails, pageVars, Lines
    <2>2. Known'
      <3>1. ASSUME NEW q \in Polls, poll'[q].at = "answered"
            PROVE  poll[q].at = "answered" /\ poll'[q] = poll[q]
        BY <2>0, <3>1 DEF TInv, TypeOK
      <3> QED
        BY <1>4, <3>1 DEF TInv, Known, Ask, PollFails, pageVars
    <2> QED
      BY <2>1, <2>2 DEF TInv
  <1>5. CASE RedisRestart
    <2>1. TypeOK'
      <3>1. tail' \in [Kinds -> Seq(Lines)] /\ \A k \in Kinds : Len(tail'[k]) <= TailCap
        BY <1>5, TailAssumption DEF RedisRestart
      <3> QED
        BY <1>5, <3>1 DEF TInv, TypeOK, RedisRestart, pageVars, Lines
    <2>2. Known'
      BY <1>5 DEF TInv, Known, RedisRestart, pageVars
    <2> QED
      BY <2>1, <2>2 DEF TInv
  <1>6. ASSUME Clear \/ \E k \in Kinds : SetKind(k) PROVE TInv'
    <2>1. terminal' \in Seq(Lines) /\ Len(terminal') = 0 /\ DOMAIN terminal' = {}
          /\ lastTs' \in 0..MaxTime /\ kind' \in Kinds
      <3>1. terminal' = <<>> /\ lastTs' = 0 /\ kind' \in Kinds
        BY <1>6 DEF TInv, TypeOK, Clear, SetKind, Null
      <3>2. <<>> \in Seq(Lines) /\ Len(<<>>) = 0 /\ DOMAIN <<>> = {} /\ 0 \in 0..MaxTime
        BY TailAssumption
      <3> QED
        BY <3>1, <3>2
    <2>2. TypeOK'
      BY <1>6, <2>1, TailAssumption DEF TInv, TypeOK, Clear, SetKind, Lines
    <2>3. Known'
      BY <1>6, <2>1 DEF TInv, Known, Clear, SetKind
    <2> QED
      BY <2>2, <2>3 DEF TInv
  <1>7. CASE ToggleErrorsOnly
    BY <1>7 DEF TInv, TypeOK, Known, ToggleErrorsOnly, Lines
  <1>8. CASE Tick
    <2>1. now' \in 1..MaxTime
      BY <1>8, TailAssumption DEF TInv, TypeOK, Tick
    <2>2. UNCHANGED <<log, tail, poll, kind, lastTs, errorsOnly, terminal>>
      BY <1>8 DEF Tick, pageVars
    <2> QED
      BY <2>1, <2>2 DEF TInv, TypeOK, Known, Lines
  <1>9. CASE UNCHANGED vars
    BY <1>9 DEF TInv, TypeOK, Known, vars, pageVars, Lines
  <1> QED
    BY <1>1, <1>2, <1>3, <1>4, <1>5, <1>6, <1>7, <1>8, <1>9 DEF Next, Polling

\* Type correctness: a time is only taken of lines that were pushed, and the
\* terminal and the lists in Redis keep to their caps.
THEOREM TypeCorrect == Spec => []TypeOK
  <1>1. TInv => TypeOK
    BY DEF TInv
  <1> QED
    BY TInitially, TStep, <1>1, PTL DEF Spec
---------------------------------------------------------------------------

\* An older line, and for the lines of one log an earlier one.
OldestFirst == {r \in Lines \X Lines : r[1] < r[2]}
LogOrder    == {r \in Lines \X Lines : log[r[1]].kind = log[r[2]].kind => r[1] < r[2]}

\* What is shown in order, said of pairs.
LEMMA InOrderIsOrdered ==
  ASSUME TInv, LogOrdered
  PROVE  ShownInOrder <=> OrderedBy(terminal, LogOrder)
  <1>1. \A i \in DOMAIN terminal : terminal[i] \in Lines
    BY DEF TInv, TypeOK
  <1> QED
    BY <1>1 DEF ShownInOrder, OrderedBy, LogOrder

\* Reversing a sequence reverses the order of its pairs.
LEMMA ReverseOrdered ==
  ASSUME NEW s \in Seq(Lines), OrderedBy(s, NewestFirst)
  PROVE  OrderedBy(Reverse(s), OldestFirst)
  <1> DEFINE r == Reverse(s)
  <1>1. /\ DOMAIN r = 1..Len(s) /\ DOMAIN s = 1..Len(s) /\ Len(s) \in Nat
        /\ \A j \in 1..Len(s) : r[j] = s[(Len(s) - j) + 1]
    BY DEF Reverse
  <1> HIDE DEF r
  <1>2. \A j \in DOMAIN r : (Len(s) - j) + 1 \in DOMAIN s /\ r[j] \in Lines
    BY <1>1
  <1>3. ASSUME NEW i \in DOMAIN r, NEW j \in DOMAIN r, i < j
        PROVE  <<r[i], r[j]>> \in OldestFirst
    <2>1. (Len(s) - j) + 1 < (Len(s) - i) + 1
      BY <1>1, <1>3
    <2>2. <<r[j], r[i]>> \in NewestFirst
      BY <1>1, <1>2, <2>1 DEF OrderedBy
    <2> QED
      BY <1>2, <2>2 DEF NewestFirst, OldestFirst
  <1> QED
    BY <1>3 DEF OrderedBy, r

\* Fresh lines are in the order of the log.
LEMMA FreshOrdered ==
  ASSUME TypeOK, NEW s \in Seq(Lines), OrderedBy(s, NewestFirst)
  PROVE  OrderedBy(Fresh(s), OldestFirst)
  <1>1. CASE lastTs = Null
    <2> DEFINE r == FirstOf(s, FirstLines)
    <2>1. r \in Seq(Lines) /\ OrderedBy(r, NewestFirst)
      BY FirstOfTyped, FirstOfOrdered, TailAssumption
    <2>2. Fresh(s) = Reverse(r)
      BY <1>1 DEF Fresh
    <2> HIDE DEF r
    <2> QED
      BY <2>1, <2>2, ReverseOrdered
  <1>2. CASE lastTs # Null
    <2> DEFINE r == Sifted(s, Newer)
    <2>1. r \in Seq(Lines) /\ OrderedBy(r, NewestFirst)
      BY SiftedTyped, SiftedOrdered
    <2>2. Fresh(s) = Reverse(r)
      BY <1>2 DEF Fresh
    <2> HIDE DEF r
    <2> QED
      BY <2>1, <2>2, ReverseOrdered
  <1> QED
    BY <1>1, <1>2

\* What is added to the terminal in order, after all that is there, leaves it
\* in order.
LEMMA ShownOrdered ==
  ASSUME TypeOK, NEW s \in Seq(Lines), OrderedBy(terminal, LogOrder),
         OrderedBy(s, OldestFirst),
         \A i \in DOMAIN terminal, j \in DOMAIN s : <<terminal[i], s[j]>> \in LogOrder
  PROVE  OrderedBy(Shown(s), LogOrder)
  <1> DEFINE v == Sifted(s, Visible)
             all == terminal \o v
             from == IF Len(all) > TerminalCap THEN Len(all) - TerminalCap + 1 ELSE 1
  <1>1. /\ v \in Seq(Lines) /\ OrderedBy(v, OldestFirst)
        /\ \A j \in DOMAIN v : \E i \in DOMAIN s : v[j] = s[i]
    BY SiftedTyped, SiftedOrdered
  <1> HIDE DEF v
  <1>2. OrderedBy(v, LogOrder)
    BY <1>1 DEF OrderedBy, OldestFirst, LogOrder
  <1>3. /\ terminal \in Seq(Lines) /\ all \in Seq(Lines)
        /\ Len(all) = Len(terminal) + Len(v) /\ Len(terminal) \in Nat /\ Len(v) \in Nat
        /\ DOMAIN terminal = 1..Len(terminal) /\ DOMAIN v = 1..Len(v)
        /\ \A i \in 1..Len(terminal) : all[i] = terminal[i]
        /\ \A i \in Len(terminal) + 1..Len(terminal) + Len(v) : all[i] = v[i - Len(terminal)]
    BY <1>1 DEF TypeOK
  <1>4. Shown(s) = SubSeq(all, from, Len(all))
    BY DEF Shown, v
  <1>5. Len(all) \in 0..Len(all) /\ from \in Nat \ {0} /\ all \in Seq(Lines)
    BY <1>3, TailAssumption
  <1> HIDE DEF all, from
  <1>6. ASSUME NEW i \in DOMAIN all, NEW j \in DOMAIN all, i < j
        PROVE  <<all[i], all[j]>> \in LogOrder
    <2>1. i \in Nat /\ j \in Nat /\ i \in 1..Len(all) /\ j \in 1..Len(all)
      BY <1>3
    <2>2. CASE j <= Len(terminal)
      <3>1. i \in DOMAIN terminal /\ j \in DOMAIN terminal
        BY <2>1, <2>2, <1>3, <1>6
      <3>2. all[i] = terminal[i] /\ all[j] = terminal[j]
        BY <3>1, <1>3
      <3> QED
        BY <3>1, <3>2, <1>6 DEF OrderedBy
    <2>3. CASE i > Len(terminal)
      <3>1. /\ i - Len(terminal) \in DOMAIN v /\ j - Len(terminal) \in DOMAIN v
            /\ i - Len(terminal) < j - Len(terminal)
            /\ all[i] = v[i - Len(terminal)] /\ all[j] = v[j - Len(terminal)]
        BY <2>1, <2>3, <1>3, <1>6
      <3> QED
        BY <3>1, <1>2 DEF OrderedBy
    <2>4. CASE i <= Len(terminal) /\ j > Len(terminal)
      <3>1. /\ i \in DOMAIN terminal /\ j - Len(terminal) \in DOMAIN v
            /\ all[i] = terminal[i] /\ all[j] = v[j - Len(terminal)]
        BY <2>1, <2>4, <1>3
      <3> QED
        BY <3>1, <1>1
    <2>5. j <= Len(terminal) \/ i > Len(terminal) \/ (i <= Len(terminal) /\ j > Len(terminal))
      BY <2>1, <1>3
    <2> QED
      BY <2>2, <2>3, <2>4, <2>5
  <1>7. OrderedBy(all, LogOrder)
    BY <1>6 DEF OrderedBy
  <1> QED
    BY <1>4, <1>5, <1>7, PartOrdered

\* The head of a list is older than what is put before it.
LEMMA PushedOrdered ==
  ASSUME NEW s \in Seq(Lines), OrderedBy(s, NewestFirst),
         NEW m \in Lines, \A i \in DOMAIN s : s[i] < m
  PROVE  OrderedBy(<<m>> \o s, NewestFirst)
  <1> DEFINE all == <<m>> \o s
  <1>1. /\ DOMAIN all = 1..Len(s) + 1 /\ DOMAIN s = 1..Len(s) /\ Len(s) \in Nat
        /\ all[1] = m /\ \A i \in 2..Len(s) + 1 : all[i] = s[i - 1]
    OBVIOUS
  <1> HIDE DEF all
  <1>2. \A i \in DOMAIN all : i # 1 => i - 1 \in DOMAIN s /\ all[i] = s[i - 1]
    BY <1>1
  <1>3. ASSUME NEW i \in DOMAIN all, NEW j \in DOMAIN all, i < j
        PROVE  <<all[i], all[j]>> \in NewestFirst
    <2>1. j - 1 \in DOMAIN s /\ all[j] = s[j - 1]
      BY <1>1, <1>2, <1>3
    <2>2. CASE i = 1
      BY <2>1, <2>2, <1>1 DEF NewestFirst
    <2>3. CASE i # 1
      <3>1. i - 1 \in DOMAIN s /\ all[i] = s[i - 1] /\ i - 1 < j - 1
        BY <2>3, <1>1, <1>2, <1>3
      <3> QED
        BY <2>1, <3>1 DEF OrderedBy
    <2> QED
      BY <2>2, <2>3
  <1> QED
    BY <1>3 DEF OrderedBy, all

\* A push leaves in order what was read of the log.
LEMMA PushKeeps ==
  ASSUME IInv, LogOrdered', NEW k \in Kinds, Push(k)
  PROVE  IInv'
  <1> DEFINE new == Len(log) + 1
             all == <<new>> \o tail[k]
  <1>1. /\ TInv /\ TInv'
        /\ DOMAIN log' = DOMAIN log \cup {new} /\ new \notin DOMAIN log
        /\ \A m \in DOMAIN log : log'[m] = log[m]
        /\ log'[new] \in NextLines(k) /\ log'[new].kind = k
        /\ tail' = [tail EXCEPT ![k] = FirstOf(all, TailCap)]
        /\ UNCHANGED <<poll, kind, lastTs, errorsOnly, terminal>>
    BY PushTyped DEF IInv, Push, pageVars
  <1>2. /\ DOMAIN log = 1..Len(log) /\ Len(log) \in Nat /\ DOMAIN log \subseteq Lines
        /\ DOMAIN log' \subseteq Lines
        /\ \A m \in DOMAIN log : m < new
        /\ new \in Nat /\ Lines \subseteq Nat
    <2>1. DOMAIN log = 1..Len(log) /\ Len(log) \in Nat /\ DOMAIN log \subseteq Lines
      BY <1>1, LogTyped DEF TInv
    <2>2. Len(log) + 1 \in Lines
      BY <1>1 DEF TInv, TypeOK, Push, Lines
    <2> QED
      BY <2>1, <2>2, <1>1 DEF Lines
  <1> HIDE DEF new
  <1>5. AnswersOrdered'
    <2>1. ASSUME NEW j \in Kinds PROVE OrderedBy(tail'[j], NewestFirst)
      <3>1. CASE j = k
        <4>1. tail[k] \in Seq(Lines) /\ OrderedBy(tail[k], NewestFirst) /\ new \in Lines
              /\ \A i \in DOMAIN tail[k] : tail[k][i] < new
          BY <1>1, <1>2 DEF IInv, TInv, TypeOK, Known, AnswersOrdered
        <4>2. OrderedBy(all, NewestFirst) /\ all \in Seq(Lines)
          BY <4>1, PushedOrdered
        <4> HIDE DEF all
        <4>3. OrderedBy(FirstOf(all, TailCap), NewestFirst)
          BY <4>2, FirstOfOrdered, TailAssumption
        <4> QED
          BY <4>3, <3>1, <1>1 DEF TInv, TypeOK
      <3>2. CASE j # k
        BY <3>2, <1>1 DEF IInv, TInv, TypeOK, AnswersOrdered
      <3> QED
        BY <3>1, <3>2
    <2>2. ASSUME NEW p \in Polls, poll[p].at = "answered"
          PROVE  OrderedBy(poll[p].lines, NewestFirst \cap OneKind')
      <3>1. /\ OrderedBy(poll[p].lines, NewestFirst \cap OneKind)
            /\ poll[p].lines \in Seq(Lines)
            /\ \A i \in DOMAIN poll[p].lines : poll[p].lines[i] \in DOMAIN log
        BY <2>2, PollTyped DEF IInv, TInv, Known, AnswersOrdered
      <3> QED
        BY <3>1, <1>1 DEF OrderedBy, OneKind, Lines
    <2>3. NewestFirst' = NewestFirst
      BY DEF NewestFirst, Lines
    <2> QED
      BY <2>1, <2>2, <2>3, <1>1 DEF AnswersOrdered
  <1>6. NoneNewer' /\ ShownInOrder'
    BY <1>1 DEF IInv, TInv, Known, NoneNewer, ShownInOrder, At
  <1> QED
    BY <1>1, <1>5, <1>6 DEF IInv

\* Of an answer, only lines are shown that are later in their log than all that
\* is shown of it, and the page remembers the newest.
LEMMA ArriveKeeps ==
  ASSUME IInv, NEW p \in Polls, Arrive(p)
  PROVE  IInv'
  <1> DEFINE lines == poll[p].lines
             fresh == Fresh(lines)
  <1>1. /\ TInv /\ TInv' /\ TypeOK /\ UNCHANGED log
        /\ lines \in Seq(Lines) /\ OrderedBy(lines, NewestFirst \cap OneKind)
        /\ \A i \in DOMAIN lines : lines[i] \in DOMAIN log
    BY ArriveTyped, PollTyped DEF IInv, TInv, Known, AnswersOrdered, Arrive
  <1>2. /\ terminal' = Shown(fresh)
        /\ lastTs' = IF fresh # <<>> THEN At(lines[1]) ELSE lastTs
        /\ poll' = [poll EXCEPT ![p] = NoPoll]
        /\ UNCHANGED <<now, log, tail, kind, errorsOnly>>
    BY DEF Arrive
  <1>3. OrderedBy(lines, NewestFirst)
    BY <1>1 DEF OrderedBy
  <1> HIDE DEF lines
  <1>4. /\ fresh \in Seq(Lines) /\ OrderedBy(fresh, OldestFirst)
        /\ \A j \in DOMAIN fresh : \E i \in DOMAIN lines : fresh[j] = lines[i]
        /\ lastTs # Null => \A j \in DOMAIN fresh : fresh[j] \in Newer
    BY <1>1, <1>3, FreshTyped, FreshOrdered
  <1> HIDE DEF fresh
  <1>5. \A m \in DOMAIN log : At(m) \in 1..MaxTime /\ m \in Lines
    BY <1>1, LogTyped
  \* The first line of an answer is its newest, also by its time.
  <1>6. \A i \in DOMAIN lines : At(lines[i]) <= At(lines[1])
    <2>1. ASSUME NEW i \in DOMAIN lines PROVE At(lines[i]) <= At(lines[1])
      <3>1. 1 \in DOMAIN lines /\ (i = 1 \/ 1 < i)
        BY <1>1
      <3>2. CASE i = 1
        BY <3>1, <3>2, <1>1, <1>5
      <3>3. CASE 1 < i
        <4>1. lines[i] < lines[1] /\ log[lines[i]].kind = log[lines[1]].kind
          BY <3>1, <3>3, <1>1 DEF OrderedBy, NewestFirst, OneKind
        <4> QED
          BY <4>1, <3>1, <1>1 DEF IInv, LogOrdered
      <3> QED
        BY <3>1, <3>2, <3>3
    <2> QED
      BY <2>1
  \* Where something is shown, what is fresh is newer than all of it.
  <1>7. ASSUME NEW i \in DOMAIN terminal, NEW j \in DOMAIN fresh
        PROVE  At(terminal[i]) <= lastTs /\ lastTs < At(fresh[j])
    <2>1. terminal[i] \in DOMAIN log /\ At(terminal[i]) <= lastTs
      BY <1>1 DEF IInv, TInv, Known, NoneNewer
    <2>2. lastTs # Null
      BY <2>1, <1>5 DEF Null
    <2> QED
      BY <2>1, <2>2, <1>4 DEF Newer
  <1>8. ShownInOrder'
    <2>1. ASSUME NEW i \in DOMAIN terminal, NEW j \in DOMAIN fresh
          PROVE  <<terminal[i], fresh[j]>> \in LogOrder
      <3>1. /\ terminal[i] \in DOMAIN log /\ fresh[j] \in DOMAIN log
            /\ terminal[i] \in Lines /\ fresh[j] \in Lines
            /\ terminal[i] \in Nat /\ fresh[j] \in Nat
        BY <1>1, <1>4, <1>5 DEF TInv, Known, Lines
      <3>2. At(terminal[i]) < At(fresh[j]) /\ At(terminal[i]) \in Nat /\ At(fresh[j]) \in Nat
        BY <1>7, <3>1, <1>5, <1>1 DEF TypeOK
      <3>3. CASE terminal[i] < fresh[j]
        BY <3>1, <3>3 DEF LogOrder
      <3>4. CASE terminal[i] = fresh[j]
        BY <3>2, <3>4
      <3>5. CASE fresh[j] < terminal[i]
        <4>1. log[terminal[i]].kind # log[fresh[j]].kind
          BY <3>1, <3>2, <3>5 DEF IInv, LogOrdered
        <4> QED
          BY <3>1, <4>1 DEF LogOrder
      <3> QED
        BY <3>1, <3>3, <3>4, <3>5
    <2>2. OrderedBy(terminal, LogOrder)
      BY <1>1, InOrderIsOrdered DEF IInv
    <2>3. OrderedBy(terminal', LogOrder)
      BY <1>1, <1>2, <1>4, <2>1, <2>2, ShownOrdered
    <2> QED
      BY <2>3, <1>1 DEF ShownInOrder, OrderedBy, LogOrder
  <1>9. NoneNewer'
    <2>1. ASSUME NEW i \in DOMAIN terminal' PROVE At(terminal'[i]) <= lastTs'
      <3>1. \/ \E h \in DOMAIN terminal : terminal'[i] = terminal[h]
            \/ \E j \in DOMAIN fresh : terminal'[i] = fresh[j]
        BY <1>1, <1>2, <1>4, ShownTyped
      <3>2. CASE fresh = <<>>
        BY <3>1, <3>2, <1>2 DEF IInv, NoneNewer
      <3>3. CASE fresh # <<>>
        <4>1. 1 \in DOMAIN fresh /\ lastTs' = At(lines[1])
          BY <3>3, <1>4, <1>2
        <4>2. \A j \in DOMAIN fresh : At(fresh[j]) <= lastTs'
          BY <4>1, <1>4, <1>6
        <4>3. ASSUME NEW h \in DOMAIN terminal PROVE At(terminal[h]) <= lastTs'
          <5>1. /\ terminal[h] \in DOMAIN log /\ fresh[1] \in DOMAIN log /\ lines[1] \in DOMAIN log
                /\ lastTs \in Nat
            <6>1. 1 \in DOMAIN lines /\ fresh[1] \in DOMAIN log /\ lastTs \in Nat
              BY <4>1, <1>1, <1>4 DEF TypeOK
            <6> QED
              BY <6>1, <1>1 DEF TInv, Known
          <5>2. At(terminal[h]) \in Nat /\ At(fresh[1]) \in Nat /\ At(lines[1]) \in Nat
            BY <5>1, <1>5
          <5> QED
            BY <4>1, <4>2, <5>1, <5>2, <1>7
        <4> QED
          BY <3>1, <4>2, <4>3
      <3> QED
        BY <3>2, <3>3
    <2> QED
      BY <2>1, <1>1 DEF NoneNewer, At
  <1>10. LogOrdered' /\ AnswersOrdered'
    <2>1. ASSUME NEW q \in Polls, poll'[q].at = "answered" PROVE poll'[q] = poll[q]
      BY <2>1, <1>2 DEF IInv, TInv, TypeOK, NoPoll
    <2> QED
      BY <2>1, <1>2 DEF IInv, LogOrdered, AnswersOrdered, At, NewestFirst, OneKind, Lines
  <1> QED
    BY <1>1, <1>8, <1>9, <1>10 DEF IInv

\* An answer is the head of a list, which has lines of one log.
LEMMA ReadKeeps ==
  ASSUME IInv, TInv', NEW p \in Polls, Read(p)
  PROVE  IInv'
  <1> DEFINE k == poll[p].kind
             s == FirstOf(tail[k], PollLimit)
  <1>1. k \in Kinds /\ TypeOK /\ UNCHANGED <<now, log, tail, kind, lastTs, errorsOnly, terminal>>
    BY PollTyped DEF IInv, TInv, Read, pageVars
  <1>2. poll' = [poll EXCEPT ![p] = [at |-> "answered", lines |-> s]]
    BY DEF Read
  <1> HIDE DEF k
  <1>3. OrderedBy(s, NewestFirst \cap OneKind)
    <2>1. tail[k] \in Seq(Lines) /\ OrderedBy(tail[k], NewestFirst)
      BY <1>1 DEF IInv, TypeOK, AnswersOrdered
    <2>2. OrderedBy(tail[k], NewestFirst \cap OneKind)
      BY <1>1, <2>1 DEF IInv, TInv, Known, OrderedBy, OneKind
    <2> QED
      BY <2>1, <2>2, FirstOfOrdered, TailAssumption
  <1> HIDE DEF s
  <1>4. ASSUME NEW q \in Polls, poll'[q].at = "answered"
        PROVE  OrderedBy(poll'[q].lines, NewestFirst \cap OneKind)
    <2>1. CASE q = p
      BY <2>1, <1>1, <1>2, <1>3 DEF TypeOK
    <2>2. CASE q # p
      BY <2>2, <1>1, <1>2, <1>4 DEF IInv, TypeOK, AnswersOrdered
    <2> QED
      BY <2>1, <2>2
  <1> QED
    BY <1>1, <1>4 DEF IInv, LogOrdered, AnswersOrdered, NoneNewer, ShownInOrder, At,
                      NewestFirst, OneKind, Lines

LEMMA Initially == Init => IInv
  <1> SUFFICES ASSUME Init PROVE IInv
    OBVIOUS
  <1>1. DOMAIN <<>> = {}
    OBVIOUS
  <1>2. TInv
    BY TInitially
  <1>3. LogOrdered /\ AnswersOrdered /\ NoneNewer /\ ShownInOrder
    BY <1>1 DEF Init, LogOrdered, AnswersOrdered, NoneNewer, ShownInOrder, OrderedBy, NoPoll
  <1> QED
    BY <1>2, <1>3 DEF IInv

LEMMA Step ==
  ASSUME IInv, [Next]_vars, LogOrdered'
  PROVE  IInv'
  <1>0. TInv'
    BY TStep DEF IInv
  <1>1. ASSUME NEW k \in Kinds, Push(k) PROVE IInv'
    BY <1>1, PushKeeps
  <1>2. ASSUME NEW p \in Polls, Arrive(p) PROVE IInv'
    BY <1>2, ArriveKeeps
  <1>3. ASSUME NEW p \in Polls, Read(p) PROVE IInv'
    BY <1>0, <1>3, ReadKeeps
  <1>4. ASSUME NEW p \in Polls, Ask(p) \/ PollFails(p) PROVE IInv'
    <2>1. ASSUME NEW q \in Polls, poll'[q].at = "answered" PROVE poll'[q] = poll[q]
      BY <1>4, <2>1 DEF IInv, TInv, TypeOK, Ask, PollFails, NoPoll
    <2> QED
      BY <1>0, <1>4, <2>1 DEF IInv, LogOrdered, AnswersOrdered, NoneNewer, ShownInOrder, At,
                              NewestFirst, OneKind, Lines, Ask, PollFails, pageVars
  <1>5. CASE RedisRestart
    <2>1. \A k \in Kinds : tail'[k] = <<>> /\ DOMAIN tail'[k] = {}
      BY <1>5 DEF RedisRestart
    <2>2. \A k \in Kinds : OrderedBy(tail'[k], NewestFirst)
      BY <2>1 DEF OrderedBy
    <2> QED
      BY <1>0, <1>5, <2>2 DEF IInv, LogOrdered, AnswersOrdered, NoneNewer, ShownInOrder, At,
                              NewestFirst, OneKind, Lines, RedisRestart, pageVars
  <1>6. ASSUME Clear \/ \E k \in Kinds : SetKind(k) PROVE IInv'
    <2>1. terminal' = <<>> /\ DOMAIN terminal' = {} /\ UNCHANGED <<now, log, tail, poll>>
      BY <1>6 DEF Clear, SetKind
    <2> QED
      BY <1>0, <2>1 DEF IInv, LogOrdered, AnswersOrdered, NoneNewer, ShownInOrder, At,
                        NewestFirst, OneKind, Lines
  <1>7. CASE Tick \/ ToggleErrorsOnly \/ UNCHANGED vars
    <2>1. UNCHANGED <<log, tail, poll, lastTs, terminal>>
      BY <1>7 DEF Tick, ToggleErrorsOnly, vars, pageVars
    <2> QED
      BY <1>0, <2>1 DEF IInv, LogOrdered, AnswersOrdered, NoneNewer, ShownInOrder, At,
                        NewestFirst, OneKind, Lines
  <1> QED
    BY <1>1, <1>2, <1>3, <1>4, <1>5, <1>6, <1>7 DEF Next, Polling

\* The log only grows: its times were in order if they are.
LEMMA WasOrdered ==
  ASSUME TInv, [Next]_vars, LogOrdered'
  PROVE  LogOrdered
  <1>1. ASSUME NEW k \in Kinds, Push(k) PROVE LogOrdered
    <2>1. /\ DOMAIN log \subseteq DOMAIN log'
          /\ \A m \in DOMAIN log : log'[m] = log[m]
      BY <1>1, PushTyped
    <2> QED
      BY <2>1 DEF LogOrdered, At
  <1>2. CASE UNCHANGED log
    BY <1>2 DEF LogOrdered, At
  <1>3. (\E k \in Kinds : Push(k)) \/ UNCHANGED log
    BY DEF Next, vars, pageVars, Tick, RedisRestart, Polling, Ask, Read, Arrive, PollFails,
           ToggleErrorsOnly, Clear, SetKind
  <1> QED
    BY <1>1, <1>2, <1>3

\* However answers overtake each other, and whatever the user clicks meanwhile:
\* as long as the times of the logs are in their order, the lines of a log are
\* shown in that order, and none twice.
THEOREM InOrder == Spec => []ShownInOrder
  <1>1. WhileOrdered => ShownInOrder
    BY DEF WhileOrdered, IInv, ShownInOrder
  <1>2. WhileOrdered /\ [Next]_vars => WhileOrdered'
    BY TStep, Step, WasOrdered DEF WhileOrdered
  <1>3. Init => WhileOrdered
    BY TInitially, Initially DEF WhileOrdered
  <1> QED
    BY <1>1, <1>2, <1>3, PTL DEF Spec
---------------------------------------------------------------------------

\* A page that stays at one kind of log, whose filter hides nothing, and lists
\* that are kept and hold at least as much as a poll asks for.
Steady ==
    /\ Kinds = {"app"} /\ Lines \subseteq Errors
    /\ ~Faults /\ PollLimit <= TailCap

\* Every line between the first and the last.
Contiguous(s) == \A i \in DOMAIN s : s[i] = s[1] - i + 1

\* The list is the end of the log.
ListIsEnd ==
    /\ Contiguous(tail["app"])
    /\ Len(tail["app"]) = IF Len(log) < TailCap THEN Len(log) ELSE TailCap
    /\ log # <<>> => tail["app"][1] = Len(log)

\* An answer leaves nothing out but what is beyond what a poll asks for.
AnswersWhole ==
    \A p \in Polls : poll[p].at = "answered" =>
        LET lines == poll[p].lines
        IN  /\ Contiguous(lines)
            /\ Len(lines) = PollLimit \/ (lines # <<>> => lines[Len(lines)] = 1)

\* The last line that is shown is the newest the page knows of.
NewestShown == terminal # <<>> => At(terminal[Len(terminal)]) = lastTs

GInv == IInv /\ ListIsEnd /\ AnswersWhole /\ NewestShown /\ NoGaps

WholeWhileOrdered == TInv /\ (LogOrdered => GInv)

LEMMA LinesAreNumbers == Lines \subseteq Nat
  BY TailAssumption DEF Lines

\* Of one log, later lines are not older.
LEMMA TimesOrdered ==
  ASSUME TypeOK, LogOrdered, Kinds = {"app"},
         NEW m \in DOMAIN log, NEW n \in DOMAIN log, m <= n
  PROVE  At(m) <= At(n) /\ At(m) \in Nat /\ At(n) \in Nat
  <1>1. log[m].kind = log[n].kind /\ At(m) \in 1..MaxTime /\ At(n) \in 1..MaxTime
        /\ m \in Int /\ n \in Int
    BY LogTyped
  <1>2. CASE m = n
    BY <1>1, <1>2
  <1>3. CASE m < n
    BY <1>1, <1>3 DEF LogOrdered
  <1> QED
    BY <1>1, <1>2, <1>3

\* A contiguous sequence is newest first, and has every line of its range.
LEMMA ContiguousLines ==
  ASSUME NEW s \in Seq(Lines), Contiguous(s)
  PROVE  /\ OrderedBy(s, NewestFirst)
         /\ \A m \in Int : (s # <<>> /\ s[Len(s)] <= m /\ m <= s[1]) => \E i \in DOMAIN s : s[i] = m
         /\ \A i \in DOMAIN s : s[i] <= s[1] /\ s[Len(s)] <= s[i]
  <1>1. DOMAIN s = 1..Len(s) /\ Len(s) \in Nat /\ \A i \in DOMAIN s : s[i] \in Nat /\ s[i] \in Lines
    <2>1. DOMAIN s = 1..Len(s) /\ Len(s) \in Nat
      OBVIOUS
    <2>2. \A i \in DOMAIN s : s[i] \in Lines
      OBVIOUS
    <2> QED
      BY <2>1, <2>2, LinesAreNumbers
  <1>2. OrderedBy(s, NewestFirst)
    <2>1. ASSUME NEW i \in DOMAIN s, NEW j \in DOMAIN s, i < j PROVE s[i] > s[j]
      BY <1>1, <2>1 DEF Contiguous
    <2> QED
      BY <1>1, <2>1 DEF OrderedBy, NewestFirst
  <1>3. ASSUME NEW m \in Int, s # <<>>, s[Len(s)] <= m, m <= s[1]
        PROVE  \E i \in DOMAIN s : s[i] = m
    <2>1. 1 \in DOMAIN s /\ Len(s) \in DOMAIN s
      BY <1>1, <1>3
    <2>2. s[Len(s)] = s[1] - Len(s) + 1 /\ s[1] \in Nat
      BY <2>1, <1>1 DEF Contiguous
    <2>3. s[1] - m + 1 \in DOMAIN s
      BY <2>2, <1>1, <1>3
    <2>4. s[s[1] - m + 1] = s[1] - (s[1] - m + 1) + 1
      BY <2>3 DEF Contiguous
    <2>5. s[s[1] - m + 1] = m
      BY <2>2, <2>4
    <2> QED
      BY <2>3, <2>5
  <1>4. ASSUME NEW i \in DOMAIN s PROVE s[i] <= s[1] /\ s[Len(s)] <= s[i]
    <2>1. 1 \in DOMAIN s /\ Len(s) \in DOMAIN s
      BY <1>1
    <2> QED
      BY <2>1, <1>1 DEF Contiguous
  <1> QED
    BY <1>2, <1>3, <1>4

\* What is fresh of an answer that leaves nothing out leaves nothing out
\* either: it goes up to the newest line, and begins after the lines that were
\* shown, unless the answer is full.
LEMMA FreshWhole ==
  ASSUME TypeOK, LogOrdered, Kinds = {"app"},
         NEW lines \in Seq(Lines), \A i \in DOMAIN lines : lines[i] \in DOMAIN log,
         Contiguous(lines),
         Len(lines) = PollLimit \/ (lines # <<>> => lines[Len(lines)] = 1),
         Fresh(lines) # <<>>
  PROVE  /\ \A j \in DOMAIN Fresh(lines) : j + 1 \in DOMAIN Fresh(lines) =>
                \A m \in Int : ~(Fresh(lines)[j] < m /\ m < Fresh(lines)[j + 1])
         /\ Fresh(lines)[Len(Fresh(lines))] = lines[1]
         /\ \A m \in DOMAIN log : (lastTs # Null /\ m < Fresh(lines)[1] /\ At(m) > lastTs)
                => Len(Fresh(lines)) = PollLimit
  <1> DEFINE fresh == Fresh(lines)
             r == IF lastTs = Null THEN FirstOf(lines, FirstLines) ELSE Sifted(lines, Newer)
  <1>1. /\ fresh = Reverse(r) /\ r \in Seq(Lines)
        /\ \A i \in DOMAIN r : \E h \in DOMAIN lines : r[i] = lines[h]
        /\ lastTs # Null => \A i \in DOMAIN r : r[i] \in Newer
    BY FirstOfTyped, SiftedTyped, TailAssumption DEF Fresh
  <1>2. OrderedBy(lines, NewestFirst) /\ OrderedBy(r, NewestFirst)
    BY ContiguousLines, FirstOfOrdered, SiftedOrdered, TailAssumption
  <1>3. lines # <<>> /\ r # <<>>
    <2>1. CASE r = <<>>
      BY <2>1, <1>1 DEF Reverse
    <2>2. CASE r # <<>>
      BY <2>2, <1>1
    <2> QED
      BY <2>1, <2>2
  <1>4. /\ DOMAIN fresh = 1..Len(r) /\ Len(fresh) = Len(r) /\ DOMAIN r = 1..Len(r) /\ Len(r) \in Nat \ {0}
        /\ \A j \in 1..Len(r) : fresh[j] = r[(Len(r) - j) + 1]
    BY <1>1, <1>3 DEF Reverse
  <1>5. /\ 1 \in DOMAIN lines /\ Len(lines) \in DOMAIN lines /\ 1 \in DOMAIN r
        /\ fresh[Len(r)] = r[1] /\ fresh[1] = r[Len(r)] /\ Len(r) \in DOMAIN r
    BY <1>3, <1>4
  <1>6. \A i \in DOMAIN lines : /\ lines[i] \in Nat /\ At(lines[i]) \in Nat
                                /\ At(lines[i]) <= At(lines[1])
    <2>1. ASSUME NEW i \in DOMAIN lines
          PROVE  /\ lines[i] \in Nat /\ At(lines[i]) \in Nat /\ At(lines[i]) <= At(lines[1])
      <3>1. lines[i] \in DOMAIN log /\ lines[1] \in DOMAIN log /\ lines[i] <= lines[1]
            /\ lines[i] \in Lines
        BY <1>5, ContiguousLines
      <3> QED
        BY <3>1, TimesOrdered, LinesAreNumbers
    <2> QED
      BY <2>1
  <1>7. lastTs \in Nat /\ DOMAIN log \subseteq Nat
    BY LogTyped DEF TypeOK
  <1> HIDE DEF r, fresh
  \* A line of the answer that is not older than one that is fresh is fresh.
  <1>8. ASSUME NEW m \in Int, NEW i \in DOMAIN r, r[i] <= m, m <= lines[1]
        PROVE  \E h \in DOMAIN r : r[h] = m
    <2>1. PICK g \in DOMAIN lines : r[i] = lines[g]
      BY <1>1
    <2>2. lines[Len(lines)] <= m
      BY <2>1, <1>5, <1>6, <1>8, ContiguousLines
    <2>3. PICK h \in DOMAIN lines : lines[h] = m
      BY <2>2, <1>3, <1>8, ContiguousLines
    <2>4. CASE lastTs = Null
      <3>1. /\ r = FirstOf(lines, FirstLines) /\ i \in DOMAIN lines /\ r[i] = lines[i]
            /\ DOMAIN r = 1..Len(r) /\ DOMAIN lines = 1..Len(lines)
        BY <2>4, FirstOfTyped, TailAssumption, <1>4 DEF r
      <3>2. lines[i] = lines[1] - i + 1 /\ lines[h] = lines[1] - h + 1
        BY <3>1 DEF Contiguous
      <3>3. h <= i
        <4>1. lines[1] \in Nat /\ lines[i] <= lines[h] /\ h \in Nat /\ i \in Nat
          BY <3>1, <2>3, <1>8, <1>5, <1>6
        <4> QED
          BY <4>1, <3>2
      <3>4. h \in DOMAIN r
        BY <3>1, <3>3, <1>4
      <3>5. r[h] = lines[h]
        <4>1. FirstLines \in Nat
          BY TailAssumption
        <4>2. \A q \in DOMAIN FirstOf(lines, FirstLines) : FirstOf(lines, FirstLines)[q] = lines[q]
          BY <1>4, <4>1, FirstOfTyped
        <4> QED
          BY <3>1, <3>4, <4>2
      <3> QED
        BY <3>4, <3>5, <2>3
    <2>5. CASE lastTs # Null
      <3>1. At(r[i]) > lastTs /\ r[i] \in DOMAIN log /\ m \in DOMAIN log
        BY <2>1, <2>3, <2>5, <1>1 DEF Newer
      <3>2. At(r[i]) <= At(m) /\ At(m) \in Nat /\ At(r[i]) \in Nat
        BY <3>1, <1>8, TimesOrdered
      <3>3. m \in Newer
        BY <3>1, <3>2, <1>7 DEF Newer
      <3> QED
        BY <3>3, <2>3, <2>5, SiftedComplete DEF r
    <2> QED
      BY <2>4, <2>5
  <1>9. ASSUME NEW j \in DOMAIN fresh, j + 1 \in DOMAIN fresh, NEW m \in Int,
               fresh[j] < m, m < fresh[j + 1]
        PROVE  FALSE
    <2> DEFINE a == (Len(r) - j) + 1
               b == (Len(r) - (j + 1)) + 1
    <2>1. /\ a \in DOMAIN r /\ b \in DOMAIN r /\ a = b + 1
          /\ fresh[j] = r[a] /\ fresh[j + 1] = r[b]
      <3>1. j \in 1..Len(r) /\ j + 1 \in 1..Len(r)
        BY <1>4, <1>9
      <3>2. a \in 1..Len(r) /\ b \in 1..Len(r) /\ a = b + 1
        BY <3>1, <1>4
      <3> QED
        BY <3>1, <3>2, <1>4
    <2> HIDE DEF a, b
    <2>2. r[b] <= lines[1] /\ r[a] \in Nat /\ r[b] \in Nat /\ lines[1] \in Nat
      BY <2>1, <1>1, <1>5, <1>6, ContiguousLines
    <2>3. r[a] <= m /\ m <= lines[1]
      BY <2>1, <2>2, <1>9
    <2>4. PICK h \in DOMAIN r : r[h] = m
      BY <2>1, <2>3, <1>8
    <2>5. ~(h < b) /\ h # b /\ ~(a < h) /\ h # a
      <3>1. r[a] < m /\ m < r[b]
        BY <2>1, <1>9
      <3>2. (h < b => r[h] > r[b]) /\ (a < h => r[a] > r[h])
        BY <2>1, <2>4, <1>2 DEF OrderedBy, NewestFirst
      <3>3. \A x, y, z \in Int : x < y /\ y < z => ~(y > z) /\ ~(x > y) /\ y # z /\ y # x
        OBVIOUS
      <3> QED
        BY <3>1, <3>2, <3>3, <2>2, <2>4
    <2>6. h \in Nat /\ b \in Nat /\ a \in Nat
      <3>1. h \in 1..Len(r) /\ b \in 1..Len(r) /\ a \in 1..Len(r) /\ Len(r) \in Nat
        BY <2>1, <2>4, <1>4
      <3> QED
        BY <3>1
    <2> QED
      BY <2>1, <2>5, <2>6
  <1>10. fresh[Len(fresh)] = lines[1]
    <2>1. PICK h \in DOMAIN r : r[h] = lines[1]
      <3>1. r[1] <= lines[1] /\ lines[1] \in Int
        BY <1>1, <1>5, <1>6, ContiguousLines
      <3> QED
        BY <3>1, <1>5, <1>6, <1>8
    <2>2. CASE h = 1
      BY <2>1, <2>2, <1>4, <1>5
    <2>3. CASE h # 1
      <3>1. 1 < h
        BY <2>3, <1>4
      <3>2. r[1] > lines[1]
        BY <3>1, <2>1, <1>2, <1>5 DEF OrderedBy, NewestFirst
      <3>3. r[1] <= lines[1] /\ r[1] \in Nat /\ lines[1] \in Nat
        BY <1>1, <1>5, <1>6, ContiguousLines
      <3> QED
        BY <3>2, <3>3
    <2> QED
      BY <2>2, <2>3
  <1>11. ASSUME NEW m \in DOMAIN log, lastTs # Null, m < fresh[1], At(m) > lastTs
         PROVE  Len(fresh) = PollLimit
    <2>1. m \in Nat /\ r[Len(r)] \in Nat /\ m < r[Len(r)] /\ r[Len(r)] <= lines[1] /\ lines[1] \in Nat
      BY <1>1, <1>5, <1>6, <1>7, <1>11, ContiguousLines
    <2>2. m \in Newer
      BY <1>11 DEF Newer
    <2>3. ~\E h \in DOMAIN lines : lines[h] = m
      <3>1. SUFFICES ASSUME NEW h \in DOMAIN lines, lines[h] = m PROVE FALSE
        OBVIOUS
      <3>2. PICK g \in DOMAIN r : r[g] = m
        BY <3>1, <2>2, <1>11, SiftedComplete DEF r
      <3>3. CASE g = Len(r)
        BY <3>2, <3>3, <2>1
      <3>4. CASE g < Len(r)
        <4>1. m > r[Len(r)]
          BY <3>2, <3>4, <1>2, <1>5 DEF OrderedBy, NewestFirst
        <4> QED
          BY <4>1, <2>1
      <3> QED
        BY <3>3, <3>4, <1>4
    <2>4. m < lines[Len(lines)] /\ lines[Len(lines)] \in Nat
      <3>1. lines[Len(lines)] \in Nat
        BY <1>5, <1>6
      <3>2. ~(lines[Len(lines)] <= m /\ m <= lines[1])
        BY <2>1, <2>3, <1>3, ContiguousLines
      <3>3. m <= lines[1]
        BY <2>1
      <3> QED
        BY <3>1, <3>2, <3>3, <2>1
    <2>5. Len(lines) = PollLimit
      <3>1. m >= 1
        BY LogTyped
      <3> QED
        BY <3>1, <2>1, <2>4, <1>3
    <2>6. \A i \in DOMAIN lines : lines[i] \in Newer
      <3>1. ASSUME NEW i \in DOMAIN lines PROVE lines[i] \in Newer
        <4>1. m <= lines[i]
          BY <2>1, <2>4, <1>6, ContiguousLines
        <4>2. At(m) <= At(lines[i]) /\ At(m) \in Nat /\ At(lines[i]) \in Nat
          BY <4>1, TimesOrdered
        <4> QED
          BY <4>2, <1>7, <1>11 DEF Newer
      <3> QED
        BY <3>1
    <2>7. r = lines
      BY <2>6, <1>11, SiftedWhole DEF r
    <2> QED
      BY <2>5, <2>7, <1>4
  <1> QED
    BY <1>9, <1>10, <1>11 DEF fresh

\* A terminal that hides nothing is the end of all that was ever shown in it.
LEMMA ShownWhole ==
  ASSUME TypeOK, Lines \subseteq Errors, NEW s \in Seq(Lines)
  PROVE  \E d \in Nat :
            /\ d <= Len(terminal) + Len(s)
            /\ Len(Shown(s)) = Len(terminal) + Len(s) - d
            /\ d < Len(terminal) + Len(s) \/ (terminal = <<>> /\ s = <<>>)
            /\ \A i \in 1..Len(Shown(s)) :
                  Shown(s)[i] = IF i + d <= Len(terminal) THEN terminal[i + d]
                                                          ELSE s[i + d - Len(terminal)]
  <1> DEFINE all == terminal \o s
             from == IF Len(all) > TerminalCap THEN Len(all) - TerminalCap + 1 ELSE 1
  <1>1. Sifted(s, Visible) = s
    <2>1. \A i \in DOMAIN s : s[i] \in Visible
      <3>1. \A i \in DOMAIN s : s[i] \in Lines
        OBVIOUS
      <3> QED
        BY <3>1 DEF Visible
    <2> QED
      BY <2>1, SiftedWhole
  <1>2. Shown(s) = SubSeq(all, from, Len(all))
    BY <1>1 DEF Shown
  <1>3. /\ all \in Seq(Lines) /\ Len(all) = Len(terminal) + Len(s)
        /\ Len(terminal) \in Nat /\ Len(s) \in Nat /\ terminal \in Seq(Lines)
    BY DEF TypeOK
  <1>4. \A i \in 1..Len(all) : all[i] = IF i <= Len(terminal) THEN terminal[i]
                                                               ELSE s[i - Len(terminal)]
    BY DEF TypeOK
  <1>5. Len(terminal) = 0 => terminal = <<>>
    BY DEF TypeOK
  <1>6. Len(s) = 0 => s = <<>>
    OBVIOUS
  <1> HIDE DEF all
  <1>7. /\ Len(all) \in 0..Len(all) /\ from \in Nat \ {0} /\ from - 1 \in Nat
        /\ from - 1 <= Len(all) /\ (from - 1 < Len(all) \/ Len(all) = 0)
    BY <1>3, TailAssumption
  <1> HIDE DEF from
  <1>8. /\ Len(Shown(s)) = Len(all) - (from - 1)
        /\ \A i \in 1..Len(Shown(s)) : i + from - 1 \in 1..Len(all) /\ Shown(s)[i] = all[i + from - 1]
    <2>1. /\ Len(Shown(s)) = IF from <= Len(all) THEN Len(all) - from + 1 ELSE 0
          /\ \A i \in 1..Len(Shown(s)) : i + from - 1 \in DOMAIN all /\ Shown(s)[i] = all[i + from - 1]
      BY <1>2, <1>3, <1>7, PartTyped
    <2>2. DOMAIN all = 1..Len(all)
      BY <1>3
    <2> QED
      BY <2>1, <2>2, <1>7
  <1> DEFINE d == from - 1
  <1>9. ASSUME NEW i \in 1..Len(Shown(s))
        PROVE  Shown(s)[i] = IF i + d <= Len(terminal) THEN terminal[i + d]
                                                       ELSE s[i + d - Len(terminal)]
    <2>1. i + d = i + from - 1
      BY <1>7, <1>8
    <2>2. i + d \in 1..Len(all) /\ Shown(s)[i] = all[i + d] /\ d \in Nat /\ i \in Nat
      BY <2>1, <1>7, <1>8
    <2> HIDE DEF d
    <2> QED
      BY <2>2, <1>4
  <1>10. d \in Nat /\ d <= Len(all) /\ Len(Shown(s)) = Len(all) - d /\ (d < Len(all) \/ Len(all) = 0)
    BY <1>7, <1>8
  <1>11. Len(all) = 0 => terminal = <<>> /\ s = <<>>
    <2>1. Len(all) = 0 => Len(terminal) = 0 /\ Len(s) = 0
      <3>1. \A x, y, z \in Nat : z = x + y /\ z = 0 => x = 0 /\ y = 0
        OBVIOUS
      <3> HIDE DEF d
      <3> QED
        BY <1>3, <1>7, <3>1
    <2> QED
      BY <2>1, <1>5, <1>6
  <1> HIDE DEF d
  <1>12. /\ d <= Len(terminal) + Len(s)
         /\ Len(Shown(s)) = Len(terminal) + Len(s) - d
         /\ d < Len(terminal) + Len(s) \/ (terminal = <<>> /\ s = <<>>)
    BY <1>3, <1>10, <1>11
  <1> QED
    BY <1>9, <1>10, <1>12

\* An answer is shown after what was shown before: between the two only lines
\* are missing that a poll could not reach, or of the time of one shown before.
LEMMA ArriveLeavesNoGap ==
  ASSUME GInv, Steady, NEW p \in Polls, Arrive(p)
  PROVE  NoGaps' /\ NewestShown'
  <1> DEFINE lines == poll[p].lines
             fresh == Fresh(lines)
  <1>1. /\ TypeOK /\ LogOrdered /\ Kinds = {"app"} /\ UNCHANGED log
        /\ lines \in Seq(Lines) /\ \A i \in DOMAIN lines : lines[i] \in DOMAIN log
        /\ Contiguous(lines)
        /\ Len(lines) = PollLimit \/ (lines # <<>> => lines[Len(lines)] = 1)
        /\ Lines \subseteq Errors
    BY PollTyped DEF GInv, IInv, TInv, Known, AnswersWhole, Arrive, Steady
  <1>2. /\ terminal' = Shown(fresh)
        /\ lastTs' = IF fresh # <<>> THEN At(lines[1]) ELSE lastTs
    BY DEF Arrive
  <1>3. \A j \in DOMAIN fresh : \E i \in DOMAIN lines : fresh[j] = lines[i]
    BY <1>1, FreshTyped
  <1>4. fresh \in Seq(Lines) /\ DOMAIN fresh = 1..Len(fresh) /\ Len(fresh) \in Nat
    BY <1>1, FreshTyped
  <1>5. fresh # <<>> =>
           /\ \A j \in DOMAIN fresh : j + 1 \in DOMAIN fresh =>
                \A m \in Int : ~(fresh[j] < m /\ m < fresh[j + 1])
           /\ fresh[Len(fresh)] = lines[1]
           /\ \A m \in DOMAIN log : (lastTs # Null /\ m < fresh[1] /\ At(m) > lastTs)
                => Len(fresh) = PollLimit
    BY <1>1, FreshWhole
  <1> HIDE DEF lines, fresh
  <1>6. PICK d \in Nat :
            /\ d <= Len(terminal) + Len(fresh)
            /\ Len(terminal') = Len(terminal) + Len(fresh) - d
            /\ d < Len(terminal) + Len(fresh) \/ (terminal = <<>> /\ fresh = <<>>)
            /\ \A i \in 1..Len(terminal') :
                  terminal'[i] = IF i + d <= Len(terminal) THEN terminal[i + d]
                                                           ELSE fresh[i + d - Len(terminal)]
    BY <1>1, <1>2, <1>4, ShownWhole
  <1>7. /\ terminal \in Seq(Lines) /\ Len(terminal) \in Nat /\ DOMAIN terminal = 1..Len(terminal)
        /\ terminal' \in Seq(Lines) /\ DOMAIN terminal' = 1..Len(terminal')
        /\ \A i \in DOMAIN terminal : terminal[i] \in DOMAIN log
        /\ \A m \in DOMAIN log : m \in Nat /\ At(m) \in 1..MaxTime
        /\ lastTs \in Nat
    <2>1. terminal' \in Seq(Lines)
      BY <1>1, <1>2, <1>4, ShownTyped
    <2>2. \A m \in DOMAIN log : m \in Nat /\ At(m) \in 1..MaxTime
      BY <1>1, LogTyped, LinesAreNumbers
    <2> QED
      BY <1>1, <2>1, <2>2 DEF TypeOK, GInv, IInv, TInv, Known
  <1>8. NewestShown'
    <2>1. SUFFICES ASSUME terminal' # <<>> PROVE At(terminal'[Len(terminal')]) = lastTs'
      BY <1>1 DEF NewestShown, At
    <2>2. Len(terminal') \in 1..Len(terminal') /\ Len(terminal') + d = Len(terminal) + Len(fresh)
      BY <2>1, <1>4, <1>6, <1>7
    <2>3. CASE fresh = <<>>
      <3>1. Len(fresh) = 0
        BY <2>3
      <3>2. Len(terminal') + d <= Len(terminal) /\ Len(terminal') + d = Len(terminal)
        BY <3>1, <2>2, <1>7
      <3>3. terminal'[Len(terminal')] = terminal[Len(terminal)]
        BY <3>2, <2>2, <1>6
      <3>4. terminal # <<>>
        BY <3>2, <2>2, <1>7
      <3> QED
        BY <3>3, <3>4, <2>3, <1>2 DEF GInv, NewestShown
    <2>4. CASE fresh # <<>>
      <3>1. Len(fresh) >= 1
        BY <2>4, <1>4
      <3>2. ~(Len(terminal') + d <= Len(terminal)) /\ Len(terminal') + d - Len(terminal) = Len(fresh)
        BY <3>1, <2>2, <1>7, <1>4
      <3>3. terminal'[Len(terminal')] = fresh[Len(fresh)]
        BY <3>2, <2>2, <1>6
      <3> QED
        BY <3>3, <2>4, <1>2, <1>5
    <2> QED
      BY <2>3, <2>4
  <1>9. NoGaps'
    <2>1. SUFFICES ASSUME NEW i \in DOMAIN terminal', i + 1 \in DOMAIN terminal',
                          NEW m \in Errors, terminal'[i] < m, m < terminal'[i + 1],
                          At(m) # At(terminal'[i])
                   PROVE  i + PollLimit \in DOMAIN terminal'
      BY <1>1 DEF NoGaps, At
    <2>2. /\ i \in 1..Len(terminal') /\ i + 1 \in 1..Len(terminal') /\ i \in Nat
          /\ (i + 1) + d = (i + d) + 1 /\ m \in Nat
          /\ Len(terminal') + d = Len(terminal) + Len(fresh) /\ Len(terminal') \in Nat
      <3>1. i \in 1..Len(terminal') /\ i + 1 \in 1..Len(terminal')
        BY <2>1, <1>7
      <3>2. Len(terminal') + d = Len(terminal) + Len(fresh) /\ Len(terminal') \in Nat
        BY <1>4, <1>6, <1>7
      <3>3. m \in Nat
        BY TailAssumption
      <3> QED
        BY <3>1, <3>2, <3>3
    <2>3. CASE (i + 1) + d <= Len(terminal)
      <3>1. /\ i + d \in DOMAIN terminal /\ (i + d) + 1 \in DOMAIN terminal
            /\ terminal'[i] = terminal[i + d] /\ terminal'[i + 1] = terminal[(i + d) + 1]
        BY <2>2, <2>3, <1>6, <1>7
      <3>2. (i + d) + PollLimit \in DOMAIN terminal
        BY <3>1, <2>1 DEF GInv, IInv, NoGaps
      <3>3. Len(terminal) \in Nat /\ DOMAIN terminal = 1..Len(terminal) /\ Len(fresh) \in Nat
            /\ DOMAIN terminal' = 1..Len(terminal')
        BY <1>4, <1>7
      <3>4. PollLimit \in Nat \ {0}
        BY TailAssumption
      <3>5. i + PollLimit + d <= Len(terminal)
        BY <3>2, <3>3, <3>4, <2>2
      <3>6. i + PollLimit <= Len(terminal')
        BY <3>5, <3>3, <3>4, <2>2
      <3> QED
        BY <3>6, <3>3, <3>4, <2>2
    <2>4. CASE i + d > Len(terminal)
      <3> DEFINE j == i + d - Len(terminal)
      <3>1. /\ j \in DOMAIN fresh /\ j + 1 \in DOMAIN fresh
            /\ (i + 1) + d - Len(terminal) = j + 1
            /\ ~(i + d <= Len(terminal)) /\ ~((i + 1) + d <= Len(terminal))
        <4>1. i \in Int /\ d \in Int /\ Len(terminal) \in Int /\ Len(fresh) \in Int
          BY <2>2, <1>4, <1>7
        <4>2. j \in Int /\ j >= 1 /\ j + Len(terminal) = i + d
          BY <4>1, <2>4
        <4>3. j + 1 <= Len(fresh)
          <5>1. i + 1 <= Len(terminal') /\ Len(terminal') + d = Len(terminal) + Len(fresh)
                /\ Len(terminal') \in Nat
            BY <2>2
          <5> HIDE DEF j
          <5> QED
            BY <5>1, <4>1, <4>2, <2>2
        <4>4. (i + 1) + d - Len(terminal) = j + 1
              /\ ~(i + d <= Len(terminal)) /\ ~((i + 1) + d <= Len(terminal))
          <5>1. i \in Nat /\ terminal \in Seq(Lines)
            BY <2>2, <1>7
          <5> QED
            BY <5>1, <2>4
        <4> HIDE DEF j
        <4> QED
          BY <4>1, <4>2, <4>3, <4>4, <1>4
      <3>2. terminal'[i] = fresh[j] /\ terminal'[i + 1] = fresh[j + 1]
        BY <3>1, <2>2, <1>6
      <3> HIDE DEF j
      <3>3. fresh # <<>>
        BY <3>1
      <3>4. ~(fresh[j] < m /\ m < fresh[j + 1])
        BY <3>1, <3>3, <2>2, <1>5
      <3> QED
        BY <3>2, <3>4, <2>1
    <2>5. CASE i + d = Len(terminal)
      <3>1. /\ terminal # <<>> /\ fresh # <<>> /\ Len(terminal) \in DOMAIN terminal /\ 1 \in DOMAIN fresh
            /\ i + d <= Len(terminal) /\ ~((i + 1) + d <= Len(terminal))
            /\ (i + 1) + d - Len(terminal) = 1
        <4>1. Len(terminal) >= 1 /\ Len(fresh) >= 1
          BY <2>2, <2>5, <1>4, <1>7
        <4>2. terminal # <<>> /\ fresh # <<>>
          BY <4>1
        <4>3. Len(terminal) \in DOMAIN terminal /\ 1 \in DOMAIN fresh
          BY <4>1, <1>4, <1>7
        <4>4. i + d <= Len(terminal) /\ ~((i + 1) + d <= Len(terminal))
              /\ (i + 1) + d - Len(terminal) = 1
          <5>1. Len(terminal) \in Nat /\ i \in Nat
            BY <2>2, <1>7
          <5> QED
            BY <5>1, <2>5
        <4> QED
          BY <4>2, <4>3, <4>4
      <3>2. terminal'[i] = terminal[Len(terminal)] /\ terminal'[i + 1] = fresh[1]
        BY <3>1, <2>2, <2>5, <1>6
      <3>3. At(terminal[Len(terminal)]) = lastTs /\ terminal[Len(terminal)] \in DOMAIN log
        BY <3>1, <1>7 DEF GInv, NewestShown
      <3>4. lastTs # Null
        BY <3>3, <1>7 DEF Null
      <3>5. m \in DOMAIN log /\ At(m) > lastTs
        <4>1. fresh[1] \in DOMAIN log
          BY <3>1, <1>1, <1>3
        <4>2. m \in DOMAIN log
          <5>1. m > terminal[Len(terminal)] /\ m < fresh[1] /\ m \in Nat
                /\ terminal[Len(terminal)] \in Nat /\ fresh[1] \in 1..Len(log) /\ Len(log) \in Nat
            BY <4>1, <3>2, <3>3, <2>1, <2>2, <1>1, <1>7, LogTyped
          <5>2. m \in 1..Len(log)
            BY <5>1
          <5> QED
            BY <5>2, <1>1, LogTyped
        <4>3. terminal[Len(terminal)] <= m
          BY <3>2, <2>1, <2>2, <3>3, <1>7
        <4>4. At(terminal[Len(terminal)]) <= At(m) /\ At(m) \in Nat
          BY <4>2, <4>3, <3>3, <1>1, TimesOrdered
        <4>5. At(m) # lastTs
          BY <3>2, <3>3, <2>1
        <4> QED
          BY <4>2, <4>4, <4>5, <3>3, <1>7
      <3>6. Len(fresh) = PollLimit
        BY <3>1, <3>2, <3>4, <3>5, <2>1, <1>5
      <3> QED
        BY <3>6, <2>2, <2>5, <1>4, <1>7, TailAssumption
    <2>6. (i + 1) + d <= Len(terminal) \/ i + d > Len(terminal) \/ i + d = Len(terminal)
      BY <2>2, <1>7
    <2> QED
      BY <2>3, <2>4, <2>5, <2>6
  <1> QED
    BY <1>8, <1>9

\* A new line is next to the newest of its list.
LEMMA PushKeepsEnd ==
  ASSUME GInv, Steady, NEW k \in Kinds, Push(k)
  PROVE  ListIsEnd'
  <1> DEFINE s == tail["app"]
             all == <<Len(log) + 1>> \o s
             r == FirstOf(all, TailCap)
  <1>1. k = "app" /\ TInv /\ s \in Seq(Lines) /\ Len(log) \in Nat
    BY LogTyped DEF GInv, IInv, TInv, TypeOK, Steady
  <1>2. tail' = [tail EXCEPT !["app"] = r] /\ Len(log') = Len(log) + 1
        /\ all \in Seq(Lines)
    <2>1. DOMAIN log' = DOMAIN log \cup {Len(log) + 1} /\ TInv'
          /\ tail' = [tail EXCEPT ![k] = FirstOf(<<Len(log) + 1>> \o tail[k], TailCap)]
          /\ <<Len(log) + 1>> \o tail[k] \in Seq(Lines)
      BY <1>1, PushTyped
    <2>2. Len(log') = Len(log) + 1
      <3>1. PICK l : log' = Append(log, l)
        BY DEF Push
      <3> QED
        BY <3>1, <1>1 DEF TInv, TypeOK
    <2> QED
      BY <1>1, <2>1, <2>2
  <1>3. /\ Contiguous(s)
        /\ Len(s) = IF Len(log) < TailCap THEN Len(log) ELSE TailCap
        /\ log # <<>> => s[1] = Len(log)
    BY DEF GInv, ListIsEnd
  <1>4. log = <<>> <=> Len(log) = 0
    BY <1>1 DEF TInv, TypeOK
  <1>5. /\ Len(all) = Len(s) + 1 /\ Len(s) \in Nat /\ DOMAIN all = 1..Len(all) /\ DOMAIN s = 1..Len(s)
        /\ all[1] = Len(log) + 1
        /\ \A i \in DOMAIN all : i # 1 => i - 1 \in DOMAIN s /\ all[i] = s[i - 1]
    BY <1>1
  <1> HIDE DEF s, all
  <1>6. ASSUME NEW i \in DOMAIN all PROVE all[i] = all[1] - i + 1
    <2>1. CASE i = 1
      BY <2>1, <1>1, <1>5
    <2>2. CASE i # 1
      <3>1. i - 1 \in DOMAIN s /\ all[i] = s[i - 1] /\ s[i - 1] = s[1] - (i - 1) + 1
        BY <2>2, <1>3, <1>5 DEF Contiguous
      <3>2. Len(s) # 0 /\ i \in Nat
        BY <3>1, <1>5
      <3>3. s[1] = Len(log)
        BY <3>2, <1>1, <1>3, <1>4, TailAssumption
      <3> QED
        BY <3>1, <3>2, <3>3, <1>1, <1>5
    <2> QED
      BY <2>1, <2>2
  <1>7. /\ r \in Seq(Lines) /\ DOMAIN r = 1..Len(r)
        /\ \A i \in DOMAIN r : i \in DOMAIN all /\ r[i] = all[i]
        /\ Len(r) = IF Len(all) < TailCap THEN Len(all) ELSE TailCap
    BY <1>2, FirstOfTyped, TailAssumption
  <1> HIDE DEF r
  <1>8. 1 \in DOMAIN r /\ r[1] = Len(log) + 1
    BY <1>5, <1>7, TailAssumption
  <1>9. Contiguous(r)
    BY <1>6, <1>7, <1>8 DEF Contiguous
  <1>10. Len(r) = IF Len(log') < TailCap THEN Len(log') ELSE TailCap
    BY <1>1, <1>2, <1>3, <1>5, <1>7, TailAssumption
  <1>11. tail'["app"] = r
    BY <1>1, <1>2 DEF TInv, TypeOK, Steady
  <1> QED
    BY <1>2, <1>8, <1>9, <1>10, <1>11 DEF ListIsEnd, Contiguous

\* What a poll reads reaches back as far as it asks for, or to the first line.
LEMMA ReadIsWhole ==
  ASSUME GInv, Steady, NEW p \in Polls, Read(p)
  PROVE  AnswersWhole'
  <1> DEFINE s == tail["app"]
             r == FirstOf(s, PollLimit)
  <1>1. TypeOK /\ s \in Seq(Lines) /\ poll[p].kind = "app" /\ Len(log) \in Nat
    BY PollTyped, LogTyped DEF GInv, IInv, TInv, TypeOK, Steady, Read
  <1>2. poll' = [poll EXCEPT ![p] = [at |-> "answered", lines |-> r]]
    BY <1>1 DEF Read
  <1>3. /\ Contiguous(s)
        /\ Len(s) = IF Len(log) < TailCap THEN Len(log) ELSE TailCap
        /\ log # <<>> => s[1] = Len(log)
        /\ PollLimit <= TailCap
    BY DEF GInv, ListIsEnd, Steady
  <1>4. log = <<>> <=> Len(log) = 0
    BY <1>1 DEF TypeOK
  <1> HIDE DEF s
  <1>5. /\ r \in Seq(Lines) /\ DOMAIN r = 1..Len(r) /\ Len(s) \in Nat /\ DOMAIN s = 1..Len(s)
        /\ \A i \in DOMAIN r : i \in DOMAIN s /\ r[i] = s[i]
        /\ Len(r) = IF Len(s) < PollLimit THEN Len(s) ELSE PollLimit
    BY <1>1, FirstOfTyped, TailAssumption
  <1> HIDE DEF r
  <1>6. Contiguous(r)
    <2>1. ASSUME NEW i \in DOMAIN r PROVE r[i] = r[1] - i + 1
      <3>1. 1 \in DOMAIN r /\ i \in DOMAIN s /\ r[i] = s[i] /\ r[1] = s[1]
        BY <1>5
      <3> QED
        BY <3>1, <1>3 DEF Contiguous
    <2> QED
      BY <2>1 DEF Contiguous
  <1>7. ASSUME Len(r) # PollLimit, r # <<>> PROVE r[Len(r)] = 1
    <2>1. Len(r) = Len(s) /\ Len(s) # 0
      BY <1>5, <1>7
    <2>2. Len(s) = Len(log)
      BY <2>1, <1>1, <1>3, <1>5, <1>7, TailAssumption
    <2>3. s[1] = Len(log) /\ Len(s) \in DOMAIN s /\ Len(r) \in DOMAIN r
      BY <2>1, <2>2, <1>3, <1>4, <1>5
    <2>4. s[Len(s)] = s[1] - Len(s) + 1
      BY <2>3, <1>3 DEF Contiguous
    <2> QED
      BY <2>1, <2>2, <2>3, <2>4, <1>1, <1>5
  <1>8. ASSUME NEW q \in Polls, poll'[q].at = "answered"
        PROVE  /\ Contiguous(poll'[q].lines)
               /\ \/ Len(poll'[q].lines) = PollLimit
                  \/ poll'[q].lines # <<>> => poll'[q].lines[Len(poll'[q].lines)] = 1
    <2>1. CASE q = p
      BY <2>1, <1>1, <1>2, <1>6, <1>7 DEF TypeOK
    <2>2. CASE q # p
      <3>1. poll'[q] = poll[q]
        BY <2>2, <1>1, <1>2 DEF TypeOK
      <3> QED
        BY <3>1, <1>8 DEF GInv, AnswersWhole
    <2> QED
      BY <2>1, <2>2
  <1> QED
    BY <1>8 DEF AnswersWhole, Contiguous

\* Steps that leave the log alone, and show nothing, open no gap.
LEMMA NothingShown ==
  ASSUME GInv, UNCHANGED log,
         terminal' = <<>> \/ UNCHANGED <<terminal, lastTs>>
  PROVE  NoGaps' /\ NewestShown'
  <1>1. CASE terminal' = <<>>
    <2>1. DOMAIN terminal' = {}
      BY <1>1
    <2> QED
      BY <1>1, <2>1 DEF NoGaps, NewestShown
  <1>2. CASE UNCHANGED <<terminal, lastTs>>
    BY <1>2 DEF GInv, IInv, NoGaps, NewestShown, At
  <1> QED
    BY <1>1, <1>2

LEMMA GStep ==
  ASSUME Steady, GInv, [Next]_vars, LogOrdered'
  PROVE  GInv'
  <1>0. IInv'
    BY Step DEF GInv
  <1>1. ASSUME NEW k \in Kinds, Push(k) PROVE GInv'
    <2>1. /\ \A m \in DOMAIN log : log'[m] = log[m] /\ m \in Int
          /\ \A i \in DOMAIN terminal : terminal[i] \in DOMAIN log
          /\ DOMAIN log = 1..Len(log) /\ Len(log) \in Nat
      BY <1>1, PushTyped, LogTyped DEF GInv, IInv, TInv, Known
    <2>2. UNCHANGED <<poll, lastTs, terminal>>
      BY <1>1 DEF Push, pageVars
    <2>3. NewestShown'
      <3>1. terminal # <<>> => Len(terminal) \in DOMAIN terminal
        BY DEF GInv, IInv, TInv, TypeOK
      <3> QED
        BY <3>1, <2>1, <2>2 DEF GInv, NewestShown, At
    <2>4. NoGaps'
      <3>1. SUFFICES ASSUME NEW i \in DOMAIN terminal, i + 1 \in DOMAIN terminal, NEW m \in Errors,
                            terminal[i] < m, m < terminal[i + 1],
                            ~(i + PollLimit \in DOMAIN terminal)
                     PROVE  log'[m].occurred_at = log'[terminal[i]].occurred_at
        BY <2>2 DEF NoGaps, At
      <3>2. m \in Nat /\ terminal[i] \in DOMAIN log /\ terminal[i + 1] \in DOMAIN log
        BY <2>1, <3>1, TailAssumption
      <3>3. m \in DOMAIN log
        BY <3>1, <3>2, <2>1
      <3>4. At(m) = At(terminal[i])
        BY <3>1 DEF GInv, IInv, NoGaps
      <3> QED
        BY <3>2, <3>3, <3>4, <2>1 DEF At
    <2>5. AnswersWhole'
      BY <2>2 DEF GInv, AnswersWhole, Contiguous
    <2> QED
      BY <1>0, <1>1, <2>3, <2>4, <2>5, PushKeepsEnd DEF GInv
  <1>2. ASSUME NEW p \in Polls, Arrive(p) PROVE GInv'
    <2>1. ListIsEnd'
      BY <1>2 DEF GInv, ListIsEnd, Contiguous, Arrive
    <2>2. ASSUME NEW q \in Polls, poll'[q].at = "answered" PROVE poll'[q] = poll[q]
      BY <1>2, <2>2 DEF GInv, IInv, TInv, TypeOK, Arrive, NoPoll
    <2>3. AnswersWhole'
      BY <2>2 DEF GInv, AnswersWhole, Contiguous
    <2> QED
      BY <1>0, <1>2, <2>1, <2>3, ArriveLeavesNoGap DEF GInv
  <1>3. ASSUME NEW p \in Polls, Read(p) PROVE GInv'
    <2>1. UNCHANGED <<log, tail, lastTs, terminal>>
      BY <1>3 DEF Read, pageVars
    <2>2. ListIsEnd'
      BY <2>1 DEF GInv, ListIsEnd, Contiguous
    <2> QED
      BY <1>0, <1>3, <2>1, <2>2, ReadIsWhole, NothingShown DEF GInv
  <1>4. ASSUME NEW p \in Polls, Ask(p) PROVE GInv'
    <2>1. UNCHANGED <<log, tail, lastTs, terminal>>
      BY <1>4 DEF Ask, pageVars
    <2>2. ListIsEnd'
      BY <2>1 DEF GInv, ListIsEnd, Contiguous
    <2>3. ASSUME NEW q \in Polls, poll'[q].at = "answered" PROVE poll'[q] = poll[q]
      BY <1>4, <2>3 DEF GInv, IInv, TInv, TypeOK, Ask, NoPoll
    <2>4. AnswersWhole'
      BY <2>3 DEF GInv, AnswersWhole, Contiguous
    <2> QED
      BY <1>0, <2>1, <2>2, <2>4, NothingShown DEF GInv
  <1>5. ASSUME Clear \/ (\E k \in Kinds : SetKind(k)) \/ Tick \/ ToggleErrorsOnly \/ UNCHANGED vars
        PROVE  GInv'
    <2>1. /\ UNCHANGED <<log, tail, poll>>
          /\ terminal' = <<>> \/ UNCHANGED <<terminal, lastTs>>
      BY <1>5 DEF Clear, SetKind, Tick, ToggleErrorsOnly, vars, pageVars
    <2>2. ListIsEnd' /\ AnswersWhole'
      BY <2>1 DEF GInv, ListIsEnd, AnswersWhole, Contiguous
    <2> QED
      BY <1>0, <2>1, <2>2, NothingShown DEF GInv
  <1>6. ~RedisRestart /\ \A p \in Polls : ~PollFails(p)
    BY DEF Steady, RedisRestart, PollFails
  <1> QED
    BY <1>1, <1>2, <1>3, <1>4, <1>5, <1>6 DEF Next, Polling

LEMMA GInitially == ASSUME Steady PROVE Init => GInv
  <1> SUFFICES ASSUME Init PROVE GInv
    OBVIOUS
  <1>1. DOMAIN <<>> = {} /\ Len(<<>>) = 0
    OBVIOUS
  <1>2. IInv
    BY Initially
  <1>3. tail["app"] = <<>> /\ log = <<>> /\ terminal = <<>>
    BY DEF Init, Steady
  <1>4. ListIsEnd
    BY <1>1, <1>3, TailAssumption DEF ListIsEnd, Contiguous
  <1>5. AnswersWhole
    BY DEF Init, AnswersWhole, NoPoll
  <1>6. NewestShown /\ NoGaps
    BY <1>1, <1>3 DEF NewestShown, NoGaps
  <1> QED
    BY <1>2, <1>4, <1>5, <1>6 DEF GInv

\* A page that stays at one kind of log leaves out no line between two it
\* shows, but one with the time of a line shown before it was pushed, or one
\* too old for the answer: whatever the order in which polls are answered, and
\* however often the page is cleared, as long as the times of the log are in
\* its order.
THEOREM NoGapsShown ==
  ASSUME Steady
  PROVE  Spec => []NoGaps
  <1>1. WholeWhileOrdered => NoGaps
    BY DEF WholeWhileOrdered, GInv, NoGaps
  <1>2. WholeWhileOrdered /\ [Next]_vars => WholeWhileOrdered'
    BY TStep, GStep, WasOrdered DEF WholeWhileOrdered
  <1>3. Init => WholeWhileOrdered
    BY TInitially, GInitially DEF WholeWhileOrdered
  <1> QED
    BY <1>1, <1>2, <1>3, PTL DEF Spec
===========================================================================
