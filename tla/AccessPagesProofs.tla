------------------------ MODULE AccessPagesProofs ------------------------
(***************************************************************************)
(* Theorems about the access pages.  For every set of threads and every    *)
(* table of networks, the country mapper is created once, and where        *)
(* networks do not overlap, the lookup of two of them finds the right one. *)
(* For every log, window and parameter, the pages show the clients with    *)
(* the most requests; and for all samples of counters that grow, the loads *)
(* add up and the request rate next to them leaves no minute out.          *)
(***************************************************************************)
EXTENDS AccessPages, SequenceLemmas

Holding(t) == pc[t] \in {"recheck", "fetch"}

\* The lock excludes, and the mapper is there from the first assignment on.
Creation ==
    /\ \A t \in Threads : Holding(t) => lock
    /\ \A t, u \in Threads : Holding(t) /\ Holding(u) => t = u
    /\ \A t \in Threads : pc[t] = "fetch" => mapper = None
    /\ \A t \in Threads : pc[t] = "return" => mapper # None
    /\ created = IF mapper = None THEN 0 ELSE 1

IInv == TypeOK /\ Creation /\ AnswersRight
---------------------------------------------------------------------------

\* Every mapper is a sorted sequence of networks, none of them empty.
LEMMA TableTyped ==
  ASSUME NEW m \in {NullMapper} \cup Tables
  PROVE  /\ m \in Seq(Networks) /\ m # None
         /\ \A k \in DOMAIN m : m[k] \in Networks
         /\ Sorted(m) /\ \A k \in DOMAIN m : m[k].first <= m[k].last
  <1>1. CASE m \in Tables
    <2>1. m \in Seq(Networks)
      BY <1>1, MapperAssumption
    <2>2. \A k \in DOMAIN m : m[k] \in Networks
      BY <2>1
    <2> QED
      BY <1>1, <2>1, <2>2, MapperAssumption
  <1>2. CASE m = << >>
    <2>1. m \in Seq(Networks) /\ DOMAIN m = {}
      BY <1>2
    <2> QED
      BY <2>1, MapperAssumption DEF Sorted
  <1> QED
    BY <1>1, <1>2 DEF NullMapper

\* The first attempt is one of the attempts.
LEMMA FirstAttempt == 0 \in 0..Attempts - 1
  BY MapperAssumption

\* Of disjoint networks that are sorted by their start, an address can only be
\* in the one that starts last at or before it.
LEMMA LastStartDecides ==
  ASSUME NEW m \in {NullMapper} \cup Tables, Disjoint(m),
         NEW a \in Int, NEW i \in 0..Len(m), Bisects(m, a, i),
         NEW j \in DOMAIN m, In(a, m[j])
  PROVE  j = i
  <1>1. m \in Seq(Networks) /\ Sorted(m) /\ \A k \in DOMAIN m : m[k].first <= m[k].last
    BY TableTyped
  <1>2. DOMAIN m = 1..Len(m) /\ Len(m) \in Nat
    BY <1>1
  <1>3. \A k \in DOMAIN m : m[k].first \in Int /\ m[k].last \in Int
    BY TableTyped DEF Networks
  <1>4. j <= i
    BY <1>2, <1>3 DEF Bisects, In
  <1>5. ASSUME j < i PROVE FALSE
    <2>1. i \in DOMAIN m /\ m[i].first <= a /\ a <= m[j].last
      BY <1>2, <1>5 DEF Bisects, In
    <2>2. m[j].last < m[i].first \/ m[i].last < m[j].first
      BY <1>5, <2>1 DEF Disjoint
    <2>3. m[j].first <= m[i].first /\ m[i].first <= m[i].last
      BY <1>1, <1>5, <2>1 DEF Sorted
    <2> QED
      BY <1>3, <2>1, <2>2, <2>3
  <1> QED
    BY <1>2, <1>4, <1>5

\* The lookup gives the country of the network that the address is in.
LEMMA CountryRight ==
  ASSUME NEW m \in {NullMapper} \cup Tables, Disjoint(m),
         NEW a \in Int, NEW i \in 0..Len(m), Bisects(m, a, i)
  PROVE  \/ \E j \in DOMAIN m : In(a, m[j]) /\ Country(m, a, i) = m[j].code
         \/ /\ Country(m, a, i) = "UNKNOWN"
            /\ \A j \in DOMAIN m : ~In(a, m[j])
  <1> DEFINE hits == {j \in (i - 1)..i : j \in DOMAIN m /\ In(a, m[j])}
  <1>1. \A j \in DOMAIN m : In(a, m[j]) => j = i
    BY LastStartDecides
  <1>2. i \in Int /\ i \in (i - 1)..i
    OBVIOUS
  <1>3. CASE hits = {}
    <2>1. Country(m, a, i) = "UNKNOWN"
      BY <1>3 DEF Country
    <2>2. \A j \in DOMAIN m : ~In(a, m[j])
      BY <1>1, <1>2, <1>3
    <2> QED
      BY <2>1, <2>2
  <1>4. CASE hits # {}
    <2>1. hits = {i}
      BY <1>1, <1>4
    <2>2. (CHOOSE j \in hits : \A k \in hits : j <= k) = i
      BY <2>1, <1>2
    <2>3. Country(m, a, i) = m[i].code
      BY <1>4, <2>2 DEF Country
    <2>4. i \in DOMAIN m /\ In(a, m[i])
      BY <2>1
    <2> QED
      BY <2>3, <2>4
  <1> QED
    BY <1>3, <1>4

\* What the lookup answers has the type of an answer.
LEMMA CountryTyped ==
  ASSUME NEW m \in {NullMapper} \cup Tables, NEW a \in Int, NEW i \in 0..Len(m)
  PROVE  Country(m, a, i) \in Codes \cup {"UNKNOWN"}
  <1> DEFINE hits == {j \in (i - 1)..i : j \in DOMAIN m /\ In(a, m[j])}
             k == CHOOSE j \in hits : \A l \in hits : j <= l
  <1>1. m \in Seq(Networks)
    BY TableTyped
  <1>2. \A j \in DOMAIN m : m[j].code \in Codes
    BY TableTyped DEF Networks
  <1>3. CASE hits # {}
    <2>1. \E j \in hits : \A l \in hits : j <= l
      <3>1. CASE i - 1 \in hits
        BY <3>1
      <3>2. CASE i - 1 \notin hits
        BY <3>2, <1>3
      <3> QED
        BY <3>1, <3>2
    <2>2. k \in hits
      BY <2>1
    <2> QED
      BY <1>2, <1>3, <2>2 DEF Country
  <1>4. CASE hits = {}
    BY <1>4 DEF Country
  <1> QED
    BY <1>3, <1>4

\* A step of one thread that leaves the mapper and the answers alone.
LEMMA ThreadMoves ==
  ASSUME IInv, NEW t \in Threads,
         NEW l \in {"check", "lock", "recheck", "fetch", "return"},
         Goto(t, l), UNCHANGED <<mapper, created, answer>>,
         ip' \in [Threads -> Addresses], fetched' \in BOOLEAN,
         attempt' \in 0..Attempts - 1, lock' \in BOOLEAN,
         l \in {"recheck", "fetch"} => lock',
         \A u \in Threads : u # t /\ Holding(u) => lock' /\ l \notin {"recheck", "fetch"},
         l = "fetch" => mapper = None,
         l = "return" => mapper # None
  PROVE  IInv'
  <1>1. /\ pc' \in [Threads -> {"idle", "check", "lock", "recheck", "fetch", "return"}]
        /\ pc'[t] = l
        /\ \A u \in Threads \ {t} : pc'[u] = pc[u]
    BY DEF IInv, TypeOK, Goto
  <1>2. TypeOK'
    BY <1>1 DEF IInv, TypeOK
  <1>3. Creation'
    <2>1. \A u \in Threads : Holding(u)' <=> (IF u = t THEN l \in {"recheck", "fetch"} ELSE Holding(u))
      BY <1>1 DEF Holding
    <2>2. \A u \in Threads : Holding(u)' => lock'
      BY <2>1
    <2>3. \A u, v \in Threads : Holding(u)' /\ Holding(v)' => u = v
      BY <2>1 DEF IInv, Creation
    <2>4. \A u \in Threads : (pc'[u] = "fetch" => mapper' = None)
                             /\ (pc'[u] = "return" => mapper' # None)
      BY <1>1 DEF IInv, Creation
    <2>5. created' = IF mapper' = None THEN 0 ELSE 1
      BY DEF IInv, Creation
    <2> QED
      BY <2>2, <2>3, <2>4, <2>5 DEF Creation
  <1>4. AnswersRight'
    BY DEF IInv, AnswersRight, In, Disjoint
  <1> QED
    BY <1>2, <1>3, <1>4 DEF IInv

\* The one thread that holds the lock assigns the mapper, for the first time.
LEMMA CreateKeeps ==
  ASSUME IInv, NEW t \in Threads, pc[t] = "fetch",
         NEW m \in {NullMapper} \cup Tables, Create(t, m), UNCHANGED <<ip, answer>>
  PROVE  IInv'
  <1>1. m # None
    BY TableTyped
  <1>2. mapper = None /\ created = 0 /\ Holding(t)
    BY DEF IInv, Creation, Holding
  <1>3. /\ pc' \in [Threads -> {"idle", "check", "lock", "recheck", "fetch", "return"}]
        /\ pc'[t] = "return"
        /\ \A u \in Threads \ {t} : pc'[u] = pc[u]
    BY DEF IInv, TypeOK, Create, Goto
  <1>4. \A u \in Threads : ~Holding(u)'
    BY <1>2, <1>3 DEF IInv, Creation, Holding
  <1>5. TypeOK'
    <2>1. mapper' \in {None, NullMapper} \cup Tables
      BY DEF Create
    <2>2. lock' \in BOOLEAN /\ fetched' \in BOOLEAN
      BY DEF Create
    <2>3. attempt' \in 0..Attempts - 1 /\ created' \in Nat
      BY <1>2, FirstAttempt DEF Create
    <2> QED
      BY <1>3, <2>1, <2>2, <2>3 DEF IInv, TypeOK
  <1>6. Creation'
    BY <1>1, <1>2, <1>4 DEF Creation, Create, Holding
  <1>7. AnswersRight'
    BY DEF IInv, AnswersRight, In, Disjoint
  <1> QED
    BY <1>5, <1>6, <1>7 DEF IInv

\* A caller gets its answer.
LEMMA ReturnKeeps ==
  ASSUME IInv, NEW t \in Threads, Return(t)
  PROVE  IInv'
  <1>1. mapper # None /\ mapper \in {NullMapper} \cup Tables
    BY DEF IInv, Creation, TypeOK, Return
  <1>2. ip[t] \in Addresses /\ ip[t] \in Int
    BY MapperAssumption DEF IInv, TypeOK
  <1>3. PICK i \in 0..Len(mapper) :
          /\ Bisects(mapper, ip[t], i)
          /\ answer' = [answer EXCEPT ![t] = [ip |-> ip[t], mapper |-> mapper,
                                              country |-> Country(mapper, ip[t], i)]]
    BY DEF Return
  <1>4. Country(mapper, ip[t], i) \in Codes \cup {"UNKNOWN"}
    BY <1>1, <1>2, CountryTyped
  <1>5. /\ pc' \in [Threads -> {"idle", "check", "lock", "recheck", "fetch", "return"}]
        /\ pc'[t] = "idle"
        /\ \A u \in Threads \ {t} : pc'[u] = pc[u]
    BY DEF IInv, TypeOK, Return, Goto
  <1>6. UNCHANGED <<ip, mapper, lock, fetched, attempt, created>>
    BY DEF Return
  <1>7. TypeOK'
    BY <1>1, <1>2, <1>3, <1>4, <1>5, <1>6 DEF IInv, TypeOK
  <1>8. Creation'
    BY <1>5, <1>6 DEF IInv, Creation, Holding
  <1>9. AnswersRight'
    <2> SUFFICES ASSUME NEW u \in Threads, answer'[u] # NoAnswer, Disjoint(answer'[u].mapper)
                 PROVE  \/ \E j \in DOMAIN answer'[u].mapper :
                             /\ In(answer'[u].ip, answer'[u].mapper[j])
                             /\ answer'[u].country = answer'[u].mapper[j].code
                        \/ /\ answer'[u].country = "UNKNOWN"
                           /\ \A j \in DOMAIN answer'[u].mapper :
                                ~In(answer'[u].ip, answer'[u].mapper[j])
      BY DEF AnswersRight, In, Disjoint
    <2>1. CASE u = t
      <3>1. answer'[u] = [ip |-> ip[t], mapper |-> mapper,
                          country |-> Country(mapper, ip[t], i)]
        BY <2>1, <1>3 DEF IInv, TypeOK
      <3>2. Disjoint(mapper)
        BY <3>1
      <3> QED
        BY <3>1, <3>2, <1>1, <1>2, <1>3, CountryRight
    <2>2. CASE u # t
      <3>1. answer'[u] = answer[u]
        BY <2>2, <1>3 DEF IInv, TypeOK
      <3> QED
        BY <3>1 DEF IInv, AnswersRight
    <2> QED
      BY <2>1, <2>2
  <1> QED
    BY <1>7, <1>8, <1>9 DEF IInv

\* The inductive invariant holds at the start and is kept by every step.
THEOREM Invariance == Spec => []IInv
  <1>1. Init => IInv
    <2> SUFFICES ASSUME Init PROVE IInv
      OBVIOUS
    <2>1. TypeOK
      BY FirstAttempt DEF Init, TypeOK
    <2>2. Creation
      BY DEF Init, Creation, Holding
    <2>3. AnswersRight
      BY DEF Init, AnswersRight
    <2> QED
      BY <2>1, <2>2, <2>3 DEF IInv
  <1>2. IInv /\ [Next]_vars => IInv'
    <2> SUFFICES ASSUME IInv, [Next]_vars PROVE IInv'
      OBVIOUS
    <2>0. TypeOK /\ Creation
      BY DEF IInv
    <2>1. ASSUME NEW t \in Threads, Call(t) \/ Step(t) PROVE IInv'
      <3>1. CASE Call(t)
        <4>1. ip' \in [Threads -> Addresses]
          BY <2>0, <3>1 DEF Call, TypeOK
        <4> QED
          BY <2>0, <3>1, <4>1, ThreadMoves DEF Call, TypeOK, Creation
      <3>2. CASE Check(t)
        <4>1. CASE mapper = None
          BY <2>0, <3>2, <4>1, ThreadMoves DEF Check, TypeOK, Creation
        <4>2. CASE mapper # None
          BY <2>0, <3>2, <4>2, ThreadMoves DEF Check, TypeOK, Creation
        <4> QED
          BY <4>1, <4>2
      <3>3. CASE Lock(t)
        BY <2>0, <3>3, ThreadMoves DEF Lock, TypeOK, Creation
      <3>4. CASE Recheck(t)
        <4>1. Holding(t) /\ lock /\ \A u \in Threads : u # t => ~Holding(u)
          BY <2>0, <3>4 DEF Recheck, Creation, Holding
        <4>2. CASE Missing
          BY <2>0, <3>4, <4>1, <4>2, ThreadMoves, FirstAttempt
          DEF Recheck, Missing, TypeOK
        <4>3. CASE ~Missing
          BY <2>0, <3>4, <4>1, <4>3, ThreadMoves DEF Recheck, Missing, TypeOK
        <4> QED
          BY <4>2, <4>3
      <3>5. CASE FetchCodes(t)
        <4>1. TypeOK'
          BY <2>0, <3>5, MapperAssumption DEF FetchCodes, TypeOK
        <4>2. Creation'
          BY <2>0, <3>5 DEF FetchCodes, Creation, Holding
        <4>3. AnswersRight'
          BY <3>5 DEF FetchCodes, IInv, AnswersRight, In, Disjoint
        <4> QED
          BY <4>1, <4>2, <4>3 DEF IInv
      <3>6. CASE FetchZones(t)
        BY <3>6, CreateKeeps DEF FetchZones
      <3>7. CASE FetchFails(t)
        <4>1. TypeOK'
          BY <2>0, <3>7, MapperAssumption DEF FetchFails, TypeOK
        <4>2. Creation'
          BY <2>0, <3>7 DEF FetchFails, Creation, Holding
        <4>3. AnswersRight'
          BY <3>7 DEF FetchFails, IInv, AnswersRight, In, Disjoint
        <4> QED
          BY <4>1, <4>2, <4>3 DEF IInv
      <3>8. CASE FetchGivesUp(t)
        BY <3>8, CreateKeeps DEF FetchGivesUp
      <3>9. CASE Return(t)
        BY <3>9, ReturnKeeps
      <3> QED
        BY <2>1, <3>1, <3>2, <3>3, <3>4, <3>5, <3>6, <3>7, <3>8, <3>9 DEF Step
    <2>2. CASE UNCHANGED vars
      BY <2>2 DEF vars, IInv, TypeOK, Creation, Holding, AnswersRight, In, Disjoint
    <2> QED
      BY <2>1, <2>2 DEF Next
  <1> QED
    BY <1>1, <1>2, PTL DEF Spec

\* However many threads find no mapper at the same time, one creates it.
THEOREM MapperCreatedOnce == Spec => []CreatedOnce
  <1>1. IInv => CreatedOnce
    BY DEF IInv, Creation, CreatedOnce
  <1> QED
    BY <1>1, Invariance, PTL

\* For tables of any length: where no networks overlap, every answer is the
\* country of the network the address is in, or says that there is none.
THEOREM LookupRight == Spec => []AnswersRight
  <1>1. IInv => AnswersRight
    BY DEF IInv
  <1> QED
    BY <1>1, Invariance, PTL

---------------------------------------------------------------------------
(* The clients with the most requests.                                     *)

\* AtMost gives the first n elements, or all.
LEMMA AtMostIs ==
  ASSUME NEW X, NEW s \in Seq(X), NEW n \in Nat
  PROVE  LET k == IF n <= Len(s) THEN n ELSE Len(s)
         IN  AtMost(s, n) = First(s, k) /\ k \in 0..Len(s)
<1> DEFINE k == IF n <= Len(s) THEN n ELSE Len(s)
<1>1. Len(s) \in Nat
  OBVIOUS
<1>2. Min({n, Len(s)}) = k
  <2>1. k \in {n, Len(s)} /\ \A y \in {n, Len(s)} : k <= y
    BY <1>1
  <2>2. \A x \in {n, Len(s)} : (\A y \in {n, Len(s)} : x <= y) => x = k
    BY <1>1
  <2> HIDE DEF k
  <2> QED BY <2>1, <2>2 DEF Min
<1> HIDE DEF k
<1>3. k \in Nat /\ k <= Len(s)
  BY <1>1 DEF k
<1>4. AtMost(s, n) = SubSeq(s, 1, k)
  BY <1>2 DEF AtMost
<1>5. SubSeq(s, 1, k) = First(s, k)
  BY <1>1, <1>3 DEF First
<1> QED BY <1>1, <1>3, <1>4, <1>5 DEF k

\* Rows that are counted.
Counted(rows) == IsFiniteSet(rows) /\ \A r \in rows : r.count \in Nat

\* s has the rows once each, those with the most requests first.
Ranks(s, rows) ==
    /\ s \in Seq(rows)
    /\ \A i, j \in DOMAIN s : s[i] = s[j] => i = j
    /\ \A r \in rows : \E i \in DOMAIN s : s[i] = r
    /\ \A i, j \in DOMAIN s : i < j => s[i].count >= s[j].count

\* The first m rows of s are those that reach the threshold.
Reaches(s, threshold, m) ==
    /\ m \in 0..Len(s)
    /\ \A i \in 1..m : s[i].count >= threshold
    /\ m < Len(s) => s[m + 1].count < threshold

\* ORDER BY gives every order of the rows that ranks them, and no other.
LEMMA RankedAre ==
  ASSUME NEW rows, IsFiniteSet(rows), NEW s
  PROVE  s \in Ranked(rows) <=> Ranks(s, rows)
<1> DEFINE n == Cardinality(rows)
<1>1. n \in Nat /\ IsFiniteSet(1..n) /\ Cardinality(1..n) = n
  <2>1. n \in Nat
    BY FS_CardinalityType
  <2>2. IsFiniteSet(1..n) /\ Cardinality(1..n) = n
    BY <2>1, FS_Interval
  <2> QED BY <2>1, <2>2
<1>2. ASSUME s \in Ranked(rows) PROVE Ranks(s, rows)
  <2>1. /\ s \in [1..n -> rows] /\ \A i, j \in 1..n : i # j => s[i] # s[j]
        /\ \A i, j \in DOMAIN s : i < j => s[i].count >= s[j].count
    BY <1>2 DEF Ranked, SetToSeqs
  <2>2. s \in Injection(1..n, rows)
    BY <2>1 DEF Injection, IsInjective
  <2>3. s \in Surjection(1..n, rows)
    BY <1>1, <2>2, FS_Injection
  <2>4. \A r \in rows : \E i \in 1..n : s[i] = r
    BY <2>3 DEF Surjection
  <2>5. s \in Seq(rows)
    BY <1>1, <2>1
  <2> QED BY <2>1, <2>4, <2>5 DEF Ranks
<1>3. ASSUME Ranks(s, rows) PROVE s \in Ranked(rows)
  <2> DEFINE k == Len(s)
  <2>1. k \in Nat /\ DOMAIN s = 1..k /\ s \in [1..k -> rows]
    BY <1>3 DEF Ranks
  <2>2. s \in Bijection(1..k, rows)
    BY <1>3, <2>1 DEF Ranks, Bijection, Injection, Surjection, IsInjective
  <2>3. k = n
    BY <2>1, <2>2, FS_CountingElements DEF ExistsBijection
  <2> HIDE DEF k, n
  <2>4. s \in [1..n -> rows]
    BY <2>1, <2>3
  <2>5. \A i, j \in 1..n : i # j => s[i] # s[j]
    BY <1>3, <2>1, <2>3 DEF Ranks
  <2>6. s \in SetToSeqs(rows)
    BY <2>4, <2>5 DEF SetToSeqs, n
  <2> QED BY <1>3, <2>6 DEF Ranked, Ranks
<1> QED BY <1>2, <1>3

\* The loop of get_bad_actors ends at the first row below the threshold.
LEMMA ReachingIs ==
  ASSUME NEW rows, Counted(rows), NEW s \in Seq(rows), NEW threshold \in Nat
  PROVE  \E m : Reaches(s, threshold, m) /\ Reaching(s, threshold) = First(s, m)
<1> DEFINE T == {n \in 0..Len(s) : \A i \in 1..n : threshold = 0 \/ s[i].count >= threshold}
           m == Max(T)
<1>1. Len(s) \in Nat /\ \A i \in 1..Len(s) : s[i] \in rows /\ s[i].count \in Nat
  BY DEF Counted
<1>2. 0 \in T
  BY <1>1
<1>3. m \in T /\ \A n \in T : n <= m
  <2>1. IsFiniteSet(T)
    <3>1. IsFiniteSet(0..Len(s))
      BY <1>1, FS_Interval
    <3>2. T \subseteq 0..Len(s)
      OBVIOUS
    <3> QED BY <3>1, <3>2, FS_Subset
  <2>2. [n \in T |-> n] \in [T -> Int]
    BY <1>1
  <2> HIDE DEF T
  <2>3. PICK x \in T : \A n \in T : [h \in T |-> h][n] <= [h \in T |-> h][x]
    BY <1>2, <2>1, <2>2, GreatestOf
  <2>4. \A n \in T : x >= n
    <3>1. T \subseteq Nat
      BY <1>1 DEF T
    <3> QED BY <2>3, <3>1
  <2>5. T \subseteq Nat
    BY <1>1 DEF T
  <2> QED BY <2>4, <2>5 DEF Max
<1> HIDE DEF m
<1>4. m \in 0..Len(s) /\ \A i \in 1..m : threshold = 0 \/ s[i].count >= threshold
  BY <1>3
<1>5. ASSUME m < Len(s) PROVE s[m + 1].count < threshold
  <2>1. m + 1 \in 0..Len(s) /\ m + 1 \notin T /\ m + 1 \in 1..Len(s) /\ m \in Nat
    BY <1>1, <1>3, <1>4, <1>5
  <2>2. PICK i \in 1..m + 1 : ~(threshold = 0 \/ s[i].count >= threshold)
    BY <2>1
  <2>3. i = m + 1
    BY <1>4, <2>1, <2>2
  <2> QED BY <1>1, <2>1, <2>2, <2>3
<1>6. Reaches(s, threshold, m)
  <2>1. \A i \in 1..m : s[i].count >= threshold
    BY <1>1, <1>4
  <2> QED BY <1>4, <1>5, <2>1 DEF Reaches
<1>7. Reaching(s, threshold) = First(s, m)
  <2>1. Reaching(s, threshold) = AtMost(s, m)
    BY DEF Reaching, m
  <2>2. m \in Nat /\ m <= Len(s)
    BY <1>1, <1>4
  <2> QED BY <2>1, <2>2, AtMostIs
<1> QED BY <1>6, <1>7

\* The page: as many of the first rows as reach the threshold, up to the limit.
LEMMA PageIs ==
  ASSUME NEW rows, Counted(rows), NEW s \in Seq(rows), NEW threshold \in Nat,
         NEW limit \in Nat \ {0}, NEW m, Reaches(s, threshold, m)
  PROVE  AtMost(Reaching(AtMost(s, limit * 4), threshold), limit)
         = First(s, IF limit <= m THEN limit ELSE m)
<1> DEFINE four == limit * 4
           t == AtMost(s, four)
           n == IF four <= Len(s) THEN four ELSE Len(s)
<1>1. four \in Nat /\ four >= limit /\ Len(s) \in Nat
  OBVIOUS
<1>2. t = First(s, n) /\ n \in 0..Len(s)
  <2> HIDE DEF four
  <2> QED BY <1>1, AtMostIs
<1>3. /\ t \in Seq(rows) /\ Len(t) = n /\ n \in Nat
      /\ \A i \in 1..n : t[i] = s[i]
      /\ \A j \in 0..n : First(t, j) = First(s, j)
  <2> HIDE DEF n
  <2> QED BY <1>2, FirstIs
<1> HIDE DEF t, four
<1>4. PICK p : Reaches(t, threshold, p) /\ Reaching(t, threshold) = First(t, p)
  <2> HIDE DEF n
  <2> QED BY <1>3, ReachingIs
<1>5. /\ p \in 0..n /\ p \in Nat
      /\ \A i \in 1..p : s[i].count >= threshold
      /\ p < n => s[p + 1].count < threshold
  <2> HIDE DEF n
  <2>1. p \in 0..n /\ p \in Nat
    BY <1>3, <1>4 DEF Reaches
  <2> QED BY <1>3, <1>4, <2>1 DEF Reaches
<1>6. /\ m \in 0..Len(s) /\ m \in Nat
      /\ \A i \in 1..m : s[i].count >= threshold
      /\ m < Len(s) => s[m + 1].count < threshold
      /\ \A i \in 1..Len(s) : s[i].count \in Nat
  BY <1>1 DEF Reaches, Counted
<1> DEFINE r == Reaching(t, threshold)
           k == IF limit <= p THEN limit ELSE p
<1>7. r = First(s, p) /\ p \in 0..Len(s)
  BY <1>1, <1>3, <1>4, <1>5
<1>8. r \in Seq(rows) /\ Len(r) = p /\ \A j \in 0..p : First(r, j) = First(s, j)
  <2> HIDE DEF r
  <2> QED BY <1>7, FirstIs
<1>9. AtMost(r, limit) = First(r, k) /\ k \in 0..p
  <2> HIDE DEF r
  <2> QED BY <1>5, <1>8, AtMostIs
<1>10. k = IF limit <= m THEN limit ELSE m
  <2>1. CASE p = m
    BY <2>1
  <2>2. CASE p < m
    <3>1. ~(p < n)
      BY <1>5, <1>6, <2>2
    <3>2. p = n /\ n # Len(s) /\ n = four
      BY <1>1, <1>5, <1>6, <2>2, <3>1
    <3> QED BY <1>1, <1>5, <1>6, <2>2, <3>2
  <2>3. CASE m < p
    BY <1>2, <1>5, <1>6, <2>3
  <2> QED BY <1>5, <1>6, <2>1, <2>2, <2>3
<1>11. AtMost(r, limit) = First(s, k)
  BY <1>8, <1>9
<1> QED BY <1>10, <1>11 DEF t, four
\* Rows can be ranked.
LEMMA RankingExists ==
  ASSUME NEW rows, Counted(rows)
  PROVE  \E s : Ranks(s, rows)
<1> DEFINE key == [r \in rows |-> 0 - r.count]
           n == Cardinality(rows)
<1>1. IsFiniteSet(rows) /\ \A r \in rows : r.count \in Nat
  BY DEF Counted
<1>2. key \in [rows -> Int] /\ n \in Nat
  BY <1>1, FS_CardinalityType
<1> HIDE DEF key
<1>3. PICK s \in Bijection(1..n, rows) : SortedBy(s, key)
  BY <1>1, <1>2, SortedNumbering
<1>4. s \in [1..n -> rows] /\ (\A i, j \in 1..n : s[i] = s[j] => i = j)
      /\ \A r \in rows : \E i \in 1..n : s[i] = r
  BY DEF Bijection, Injection, Surjection, IsInjective
<1>5. s \in Seq(rows) /\ DOMAIN s = 1..n
  BY <1>2, <1>4
<1>6. ASSUME NEW i \in 1..n, NEW j \in 1..n, i < j PROVE s[i].count >= s[j].count
  <2>1. key[s[i]] <= key[s[j]]
    BY <1>3, <1>5, <1>6 DEF SortedBy
  <2>2. s[i] \in rows /\ s[j] \in rows
    BY <1>4
  <2> QED BY <1>1, <2>1, <2>2 DEF key
<1>7. Ranks(s, rows)
  BY <1>4, <1>5, <1>6 DEF Ranks
<1> QED BY <1>7

\* A threshold that the database applies before it ranks, and one that a loop
\* applies afterwards, leave the same rows, and the same orders of them.
High(rows, threshold) == {r \in rows : r.count >= threshold}

LEMMA HighRanked ==
  ASSUME NEW rows, Counted(rows), NEW threshold \in Nat, NEW s, Ranks(s, rows),
         NEW m, Reaches(s, threshold, m)
  PROVE  Ranks(First(s, m), High(rows, threshold))
<1> DEFINE h == First(s, m)
<1>1. s \in Seq(rows) /\ m \in 0..Len(s) /\ Len(s) \in Nat /\ DOMAIN s = 1..Len(s)
  BY DEF Ranks, Reaches
<1>2. /\ h \in Seq(rows) /\ Len(h) = m /\ DOMAIN h = 1..m /\ m \in Nat
      /\ \A i \in 1..m : h[i] = s[i] /\ s[i] \in rows
  BY <1>1, FirstIs
<1> HIDE DEF h
<1>3. h \in Seq(High(rows, threshold))
  <2>1. \A i \in 1..m : h[i] \in High(rows, threshold)
    BY <1>2 DEF High, Reaches
  <2>2. h \in [1..m -> High(rows, threshold)]
    BY <1>2, <2>1
  <2> QED BY <1>2, <2>2, MadeSeq
<1>4. \A i \in 1..m : i \in DOMAIN s
  BY <1>1
<1>5. ASSUME NEW r \in High(rows, threshold) PROVE \E i \in DOMAIN h : h[i] = r
  <2>1. PICK i \in DOMAIN s : s[i] = r
    BY DEF High, Ranks
  <2>2. i <= m
    <3>1. SUFFICES ASSUME ~(i <= m) PROVE FALSE
      OBVIOUS
    <3>2. m < Len(s) /\ m + 1 \in DOMAIN s /\ m + 1 <= i
      BY <1>1, <1>2, <3>1
    <3>3. s[m + 1].count < threshold /\ r.count >= threshold
      BY <3>2 DEF Reaches, High
    <3>4. s[m + 1] \in rows /\ s[i] \in rows
      BY <1>1, <3>2
    <3>5. s[m + 1].count \in Nat /\ s[i].count \in Nat
      BY <3>4 DEF Counted
    <3>6. s[m + 1].count >= s[i].count
      <4>1. CASE m + 1 = i
        BY <3>5, <4>1
      <4>2. CASE m + 1 < i
        BY <3>2, <4>2 DEF Ranks
      <4> QED BY <3>2, <1>1, <4>1, <4>2
    <3> QED BY <2>1, <3>3, <3>5, <3>6
  <2> QED BY <1>1, <1>2, <2>1, <2>2
<1>6. /\ \A i, j \in DOMAIN h : h[i] = h[j] => i = j
      /\ \A i, j \in DOMAIN h : i < j => h[i].count >= h[j].count
  BY <1>2, <1>4 DEF Ranks
<1> QED BY <1>3, <1>5, <1>6 DEF Ranks, h

\* Any ranking of the rows that reach a threshold begins one of all rows.
LEMMA HighExtended ==
  ASSUME NEW rows, Counted(rows), NEW threshold \in Nat, NEW h,
         Ranks(h, High(rows, threshold))
  PROVE  \E s : /\ Ranks(s, rows) /\ Reaches(s, threshold, Len(h))
                /\ First(s, Len(h)) = h
<1> DEFINE low == rows \ High(rows, threshold)
           high == High(rows, threshold)
<1>1. Counted(low)
  BY FS_Subset DEF Counted
<1>2. PICK g : Ranks(g, low)
  BY <1>1, RankingExists
<1>3. /\ \A r \in high : r \in rows /\ r.count \in Nat /\ r.count >= threshold
      /\ \A r \in low : r \in rows /\ r.count \in Nat /\ r.count < threshold
      /\ \A r \in rows : r \in high \/ r \in low
  BY DEF High, Counted
<1> HIDE DEF low, high
<1>4. h \in Seq(high) /\ g \in Seq(low)
  BY <1>2 DEF Ranks, high
<1> DEFINE n == Len(h)
           k == Len(g)
           s == h \o g
<1>5. /\ n \in Nat /\ k \in Nat /\ DOMAIN h = 1..n /\ DOMAIN g = 1..k
      /\ \A i \in 1..n : h[i] \in high
      /\ \A i \in 1..k : g[i] \in low
  BY <1>4
<1>6. h \in Seq(rows) /\ g \in Seq(rows)
  <2>1. h \in [1..n -> rows] /\ g \in [1..k -> rows]
    BY <1>3, <1>4, <1>5
  <2> HIDE DEF n, k
  <2> QED BY <1>5, <2>1, MadeSeq
<1>7. /\ s \in Seq(rows) /\ Len(s) = n + k /\ DOMAIN s = 1..n + k
      /\ \A i \in 1..n + k : s[i] = IF i <= n THEN h[i] ELSE g[i - n]
  <2>1. /\ s \in Seq(rows) /\ Len(s) = n + k
        /\ \A i \in 1..n + k : s[i] = IF i <= n THEN h[i] ELSE g[i - n]
    BY <1>6, ConcatProperties
  <2> HIDE DEF s, n, k
  <2> QED BY <2>1, LenProperties
<1> HIDE DEF s, n, k
<1>8. \A i \in 1..n + k :
        \/ i \in 1..n /\ s[i] = h[i] /\ s[i] \in high
        \/ i \notin 1..n /\ i - n \in 1..k /\ s[i] = g[i - n] /\ s[i] \in low
  BY <1>5, <1>7
<1>9. ASSUME NEW i \in 1..n + k, NEW j \in 1..n + k, s[i] = s[j] PROVE i = j
  <2>1. CASE i \in 1..n /\ j \in 1..n
    BY <1>5, <1>8, <1>9, <2>1 DEF Ranks
  <2>2. CASE i \notin 1..n /\ j \notin 1..n
    <3>1. i - n \in DOMAIN g /\ j - n \in DOMAIN g /\ g[i - n] = g[j - n]
      BY <1>5, <1>8, <1>9, <2>2
    <3>2. i - n = j - n
      BY <1>2, <3>1 DEF Ranks
    <3> QED BY <1>5, <3>2
  <2>3. \A r \in high : r \notin low
    BY DEF high, low
  <2> QED BY <1>8, <1>9, <2>1, <2>2, <2>3
<1>10. ASSUME NEW i \in 1..n + k, NEW j \in 1..n + k, i < j PROVE s[i].count >= s[j].count
  <2>1. CASE i \in 1..n /\ j \in 1..n
    BY <1>5, <1>8, <1>10, <2>1 DEF Ranks
  <2>2. CASE i \notin 1..n /\ j \notin 1..n
    <3>1. i - n \in DOMAIN g /\ j - n \in DOMAIN g /\ i - n < j - n
      BY <1>5, <1>8, <1>10, <2>2
    <3>2. g[i - n].count >= g[j - n].count
      BY <1>2, <3>1 DEF Ranks
    <3> QED BY <1>8, <2>2, <3>2
  <2>3. CASE i \in 1..n /\ j \notin 1..n
    <3>1. s[i] \in high /\ s[j] \in low
      BY <1>8, <2>3
    <3>2. s[i].count \in Nat /\ s[j].count \in Nat /\ s[i].count >= threshold /\ s[j].count < threshold
      BY <1>3, <3>1
    <3> QED BY <3>2
  <2>4. ~(i \notin 1..n /\ j \in 1..n)
    BY <1>5, <1>10
  <2> QED BY <2>1, <2>2, <2>3, <2>4
<1>11. ASSUME NEW r \in rows PROVE \E i \in 1..n + k : s[i] = r
  <2>1. CASE r \in high
    <3>1. PICK i \in 1..n : h[i] = r
      BY <1>5, <2>1 DEF Ranks, high
    <3>2. i \in 1..n + k /\ s[i] = h[i]
      BY <1>5, <1>7, <3>1
    <3> QED BY <3>1, <3>2
  <2>2. CASE r \in low
    <3>1. PICK i \in 1..k : g[i] = r
      BY <1>2, <1>5, <2>2 DEF Ranks
    <3>2. i + n \in 1..n + k /\ ~(i + n <= n) /\ (i + n) - n = i
      BY <1>5, <3>1
    <3>3. s[i + n] = g[i]
      BY <1>7, <3>2
    <3> QED BY <3>1, <3>2, <3>3
  <2> QED BY <1>3, <2>1, <2>2
<1>12. Ranks(s, rows)
  BY <1>7, <1>9, <1>10, <1>11 DEF Ranks
<1>13. Reaches(s, threshold, n)
  <2>1. n \in 0..Len(s) /\ \A i \in 1..n : i \in 1..n + k
    BY <1>5, <1>7
  <2>2. \A i \in 1..n : s[i].count >= threshold
    BY <1>3, <1>8, <2>1
  <2>3. ASSUME n < Len(s) PROVE s[n + 1].count < threshold
    <3>1. n + 1 \in 1..n + k /\ n + 1 \notin 1..n
      BY <1>5, <1>7, <2>3
    <3> QED BY <1>3, <1>8, <3>1
  <2> QED BY <2>1, <2>2, <2>3 DEF Reaches
<1>14. First(s, n) = h
  <2>1. \A i \in 1..n : s[i] = h[i]
    BY <1>5, <1>7
  <2>2. h = [i \in 1..n |-> h[i]]
    BY <1>4, <1>5
  <2> QED BY <2>1, <2>2 DEF First
<1> QED BY <1>12, <1>13, <1>14 DEF n

Tiles(rows, threshold, limit) ==
    {AtMost(s, limit) : s \in Ranked({r \in rows : r.count >= threshold})}
Pages(rows, threshold, limit) ==
    {AtMost(Reaching(AtMost(s, limit * 4), threshold), limit) : s \in Ranked(rows)}

LEMMA TileCut ==
  ASSUME NEW rows, Counted(rows), NEW threshold \in Nat, NEW limit \in Nat \ {0}
  PROVE  Tiles(rows, threshold, limit) = Pages(rows, threshold, limit)
<1> DEFINE high == High(rows, threshold)
           page(s) == AtMost(Reaching(AtMost(s, limit * 4), threshold), limit)
           cut(s, m) == First(s, IF limit <= m THEN limit ELSE m)
<1>1. Counted(high) /\ IsFiniteSet(high) /\ IsFiniteSet(rows)
  BY FS_Subset DEF Counted, High
<1>2. ASSUME NEW h, Ranks(h, high) PROVE AtMost(h, limit) = cut(h, Len(h))
  BY <1>2, AtMostIs DEF Ranks
<1>3. ASSUME NEW s, Ranks(s, rows), NEW m, Reaches(s, threshold, m)
      PROVE  page(s) = cut(s, m)
  <2>1. s \in Seq(rows)
    BY <1>3 DEF Ranks
  <2> QED BY <1>3, <2>1, PageIs
<1>4. ASSUME NEW s, Ranks(s, rows), NEW m, Reaches(s, threshold, m)
      PROVE  cut(First(s, m), m) = cut(s, m) /\ Len(First(s, m)) = m
  <2>1. s \in Seq(rows) /\ m \in 0..Len(s)
    BY <1>4 DEF Ranks, Reaches
  <2>2. m \in Nat
    BY <2>1
  <2> QED BY <2>1, <2>2, FirstIs
<1> HIDE DEF high, page, cut
<1>5. ASSUME NEW s \in Ranked(rows) PROVE \E h \in Ranked(high) : AtMost(h, limit) = page(s)
  <2>1. Ranks(s, rows)
    BY <1>1, RankedAre
  <2>2. PICK m : Reaches(s, threshold, m)
    BY <2>1, ReachingIs DEF Ranks
  <2>3. Ranks(First(s, m), high)
    BY <2>1, <2>2, HighRanked DEF high
  <2>4. First(s, m) \in Ranked(high)
    BY <1>1, <2>3, RankedAre
  <2>5. AtMost(First(s, m), limit) = cut(s, m)
    BY <1>2, <1>4, <2>1, <2>2, <2>3
  <2> QED BY <1>3, <2>1, <2>2, <2>4, <2>5
<1>6. ASSUME NEW h \in Ranked(high) PROVE \E s \in Ranked(rows) : AtMost(h, limit) = page(s)
  <2>1. Ranks(h, high)
    BY <1>1, RankedAre
  <2>2. PICK s : Ranks(s, rows) /\ Reaches(s, threshold, Len(h)) /\ First(s, Len(h)) = h
    BY <2>1, HighExtended DEF high
  <2>3. s \in Ranked(rows)
    BY <1>1, <2>2, RankedAre
  <2>4. page(s) = cut(h, Len(h))
    BY <1>3, <1>4, <2>2
  <2> QED BY <1>2, <2>1, <2>3, <2>4
<1>7. {AtMost(h, limit) : h \in Ranked(high)} = {page(s) : s \in Ranked(rows)}
  BY <1>5, <1>6
<1> QED BY <1>7 DEF high, High, page, Tiles, Pages
\* The clients of a window are finitely many, and so are their requests.
LEMMA ActorsCounted ==
  ASSUME NEW log \in Seq(Requests), NEW w
  PROVE  Counted(Actors(log, w))
<1>1. Len(log) \in Nat /\ DOMAIN log = 1..Len(log) /\ IsFiniteSet(DOMAIN log)
  <2>1. Len(log) \in Nat /\ DOMAIN log = 1..Len(log)
    OBVIOUS
  <2> QED BY <2>1, FS_Interval
<1>2. ASSUME NEW c PROVE IsFiniteSet(RowsOf(log, w, c)) /\ Actor(log, w, c).count \in Nat
  <2>1. RowsOf(log, w, c) \in SUBSET DOMAIN log
    BY DEF RowsOf
  <2>2. IsFiniteSet(RowsOf(log, w, c))
    BY <1>1, <2>1, FS_Subset
  <2>3. Cardinality(RowsOf(log, w, c)) \in Nat
    BY <2>2, FS_CardinalityType
  <2> QED BY <2>2, <2>3 DEF Actor
<1> DEFINE all == {Actor(log, w, log[i].client) : i \in DOMAIN log}
           f == [i \in DOMAIN log |-> Actor(log, w, log[i].client)]
<1>3. IsFiniteSet(all)
  <2>1. f \in Surjection(DOMAIN log, all)
    BY DEF Surjection
  <2> HIDE DEF f, all
  <2> QED BY <1>1, <2>1, FS_Surjection
<1>4. Actors(log, w) \in SUBSET all
  <2>1. ASSUME NEW c \in Clients, RowsOf(log, w, c) # {} PROVE Actor(log, w, c) \in all
    <3>1. PICK i \in RowsOf(log, w, c) : TRUE
      BY <2>1
    <3>2. i \in DOMAIN log /\ log[i].client = c
      BY <3>1 DEF RowsOf
    <3> QED BY <3>2
  <2> HIDE DEF all
  <2> QED BY <2>1 DEF Actors
<1>5. IsFiniteSet(Actors(log, w))
  <2> HIDE DEF all
  <2> QED BY <1>3, <1>4, FS_Subset
<1>6. \A r \in Actors(log, w) : r.count \in Nat
  BY <1>2 DEF Actors
<1> QED BY <1>5, <1>6 DEF Counted

\* Of all clients that are not excluded the page shows the worst, and leaves
\* out only what is below the threshold or beyond the limit.
LEMMA WorstFirst ==
  ASSUME NEW log \in Seq(Requests), NEW w, NEW threshold \in Nat, NEW limit \in Nat \ {0}
  PROVE  WorstActorsIn(log, w, threshold, limit)
<1> DEFINE rows == Actors(log, w)
<1>1. Counted(rows)
  BY ActorsCounted
<1> SUFFICES ASSUME NEW page \in BadActors(log, w, threshold, limit)
             PROVE  LET shown == ToSet(page)
                    IN  /\ Len(page) = Cardinality(shown) /\ Len(page) <= limit
                        /\ shown \subseteq {r \in rows : r.count >= threshold}
                        /\ \A r \in rows \ shown :
                             \/ r.count < threshold
                             \/ Len(page) = limit /\ \A q \in shown : q.count >= r.count
  BY DEF WorstActorsIn
<1>2. PICK s \in Ranked(rows) :
          page = AtMost(Reaching(AtMost(s, limit * 4), threshold), limit)
  BY DEF BadActors
<1> HIDE DEF rows
<1>3. Ranks(s, rows) /\ s \in Seq(rows)
  BY <1>1, <1>2, RankedAre DEF Counted, Ranks
<1>4. PICK m : Reaches(s, threshold, m)
  BY <1>1, <1>3, ReachingIs
<1> DEFINE k == IF limit <= m THEN limit ELSE m
           shown == ToSet(page)
<1>5. page = First(s, k)
  BY <1>1, <1>2, <1>3, <1>4, PageIs
<1>6. m \in 0..Len(s) /\ Len(s) \in Nat /\ m \in Nat /\ DOMAIN s = 1..Len(s)
  BY <1>3, <1>4 DEF Reaches
<1>7. k \in 0..Len(s) /\ k <= limit /\ k <= m /\ (k = limit \/ k = m) /\ k \in Nat
  BY <1>6
<1> HIDE DEF k
<1>8. /\ page \in Seq(rows) /\ Len(page) = k /\ DOMAIN page = 1..k
      /\ \A i \in 1..k : page[i] = s[i] /\ s[i] \in rows /\ i \in DOMAIN s
  BY <1>3, <1>5, <1>6, <1>7, FirstIs
<1>9. shown = {s[i] : i \in 1..k}
  BY <1>8 DEF ToSet
<1> HIDE DEF shown
<1>10. Cardinality(shown) = k
  <2>1. page \in Bijection(1..k, shown)
    <3>1. page \in [1..k -> shown]
      BY <1>8, <1>9
    <3>2. \A i, j \in 1..k : page[i] = page[j] => i = j
      BY <1>3, <1>8 DEF Ranks
    <3>3. \A q \in shown : \E i \in 1..k : page[i] = q
      BY <1>8, <1>9
    <3> QED BY <3>1, <3>2, <3>3 DEF Bijection, Injection, Surjection, IsInjective
  <2> QED BY <1>7, <2>1, FS_CountingElements DEF ExistsBijection
<1>11. shown \subseteq {r \in rows : r.count >= threshold}
  <2>1. \A i \in 1..k : i \in 1..m
    BY <1>6, <1>7
  <2> QED BY <1>4, <1>8, <1>9, <2>1 DEF Reaches
<1>12. ASSUME NEW r \in rows \ shown
       PROVE  \/ r.count < threshold
              \/ k = limit /\ \A q \in shown : q.count >= r.count
  <2>1. PICK i \in DOMAIN s : s[i] = r
    BY <1>3 DEF Ranks
  <2>2. i \in 1..Len(s) /\ i > k
    BY <1>6, <1>7, <1>9, <2>1
  <2>3. CASE k = limit
    <3>1. \A j \in 1..k : j \in DOMAIN s /\ j < i
      BY <1>6, <1>7, <2>2
    <3>2. \A j \in 1..k : s[j].count >= s[i].count
      BY <1>3, <3>1 DEF Ranks
    <3> QED BY <1>9, <2>1, <2>3, <3>2
  <2>4. CASE k = m
    <3>1. m < Len(s) /\ m + 1 \in DOMAIN s /\ (m + 1 = i \/ m + 1 < i)
      BY <1>6, <2>2, <2>4
    <3>2. s[m + 1].count < threshold
      BY <1>4, <3>1 DEF Reaches
    <3>3. s[m + 1] \in rows /\ s[i] \in rows
      BY <1>3, <1>6, <3>1
    <3>4. s[m + 1].count \in Nat /\ s[i].count \in Nat
      BY <1>1, <3>3 DEF Counted
    <3>5. s[m + 1].count >= s[i].count
      BY <1>3, <3>1, <3>4 DEF Ranks
    <3> QED BY <2>1, <3>2, <3>4, <3>5
  <2> QED BY <1>7, <2>3, <2>4
<1> QED BY <1>7, <1>8, <1>10, <1>11, <1>12 DEF shown, rows

\* The tile is the page of its window.
LEMMA TileIsPage ==
  ASSUME NEW log \in Seq(Requests), NEW now \in Int, NEW hours \in Nat, NEW threshold \in Nat
  PROVE  TileAgreesOn(log, now, hours, threshold)
<1> DEFINE w == [start |-> now - hours, end |-> now]
           rows == Actors(log, w)
<1>1. NoTime \notin Int /\ TileRows \in Nat \ {0}
  BY AnalysisAssumption
<1>2. Summary(log, now, hours, threshold) = BadActors(log, w, threshold, TileRows)
  <2>1. Counted(rows)
    BY ActorsCounted
  <2> HIDE DEF rows
  <2>2. Tiles(rows, threshold, TileRows) = Pages(rows, threshold, TileRows)
    BY <1>1, <2>1, TileCut
  <2> QED BY <2>2 DEF Summary, BadActors, rows, Tiles, Pages
<1>3. now - hours # NoTime /\ now - hours \in Int
  BY <1>1
<1>4. Window(now - hours, NoTime, now) = w
  BY <1>3 DEF Window
<1>5. hours = Day => Window(NoTime, NoTime, now) = w
  BY DEF Window
<1> HIDE DEF w
<1> QED BY <1>2, <1>4, <1>5 DEF TileAgreesOn, Page

\* What came after a window does not change what is found in it.
LEMMA LaterIgnored ==
  ASSUME NEW log \in Seq(Requests), NEW w, w.end \in Int
  PROVE  Actors(Sifted(log, {r \in Requests : r.at <= w.end}), w) = Actors(log, w)
<1> DEFINE S == {r \in Requests : r.at <= w.end}
           known == Sifted(log, S)
<1> SUFFICES ASSUME NEW c \in Clients
             PROVE  /\ Actor(known, w, c) = Actor(log, w, c)
                    /\ RowsOf(known, w, c) = {} <=> RowsOf(log, w, c) = {}
  BY DEF Actors
<1> DEFINE T == {r \in S : r.client = c /\ w.start <= r.at}
           E == {r \in T : r.error}
<1>1. \A U \in {T, E} : /\ ExistsBijection(Having(known, U), Having(log, U))
                        /\ IsFiniteSet(Having(known, U))
  <2> SUFFICES ASSUME NEW U \in {T, E}
               PROVE  /\ ExistsBijection(Having(known, U), Having(log, U))
                      /\ IsFiniteSet(Having(known, U))
    OBVIOUS
  <2> DEFINE R == Requests
  <2>1. U \in SUBSET S /\ log \in Seq(R)
    OBVIOUS
  <2> HIDE DEF T, E, S, R
  <2> QED BY <2>1, SiftedCounts
<1>2. known \in Seq(Requests) /\ (\A i \in DOMAIN known : known[i] \in Requests)
      /\ \A i \in DOMAIN log : log[i] \in Requests
  <2>1. known \in Seq(Requests)
    <3> DEFINE R == Requests
    <3>1. log \in Seq(R)
      OBVIOUS
    <3> HIDE DEF R, S
    <3>2. known \in Seq(R)
      BY <3>1, SiftedTyped
    <3> QED BY <3>2 DEF R
  <2> DEFINE R == Requests
  <2>2. log \in Seq(R) /\ known \in Seq(R)
    BY <2>1
  <2> HIDE DEF R, known
  <2>3. (\A i \in DOMAIN known : known[i] \in R) /\ \A i \in DOMAIN log : log[i] \in R
    BY <2>2
  <2> QED BY <2>2, <2>3 DEF R
<1> HIDE DEF known
<1>3. ASSUME NEW l, \A i \in DOMAIN l : l[i] \in Requests
      PROVE  RowsOf(l, w, c) = Having(l, T) /\ {i \in RowsOf(l, w, c) : l[i].error} = Having(l, E)
  BY <1>3 DEF RowsOf, Having
<1>4. \A U \in {T, E} : /\ Cardinality(Having(known, U)) = Cardinality(Having(log, U))
                        /\ Having(known, U) = {} <=> Having(log, U) = {}
  <2> SUFFICES ASSUME NEW U \in {T, E}
               PROVE  /\ Cardinality(Having(known, U)) = Cardinality(Having(log, U))
                      /\ Having(known, U) = {} <=> Having(log, U) = {}
    OBVIOUS
  <2> DEFINE A == Having(known, U)
             B == Having(log, U)
  <2>1. ExistsBijection(A, B) /\ IsFiniteSet(A)
    BY <1>1
  <2> HIDE DEF A, B
  <2>2. Cardinality(A) = Cardinality(B)
    BY <2>1, FS_Bijection
  <2>3. PICK f : f \in Bijection(A, B)
    BY <2>1 DEF ExistsBijection
  <2>4. f \in [A -> B] /\ \A b \in B : \E a \in A : f[a] = b
    BY <2>3 DEF Bijection, Injection, Surjection
  <2>5. A = {} <=> B = {}
    BY <2>4
  <2> QED BY <2>2, <2>5 DEF A, B
<1>5. /\ RowsOf(known, w, c) = Having(known, T) /\ RowsOf(log, w, c) = Having(log, T)
      /\ {i \in RowsOf(known, w, c) : known[i].error} = Having(known, E)
      /\ {i \in RowsOf(log, w, c) : log[i].error} = Having(log, E)
  <2> HIDE DEF T, E
  <2> QED BY <1>2, <1>3
<1> HIDE DEF T, E
<1> QED BY <1>4, <1>5 DEF Actor

\* The page of an earlier end is the one that was shown then.
LEMMA PastAsShown ==
  ASSUME NEW log \in Seq(Requests), NEW now \in Int, NEW end \in Int,
         NEW threshold \in Nat, NEW limit \in Nat
  PROVE  PastPageOn(log, now, end, threshold, limit)
<1> DEFINE w == [start |-> end - Day, end |-> end]
<1>1. Window(NoTime, end, now) = w /\ Window(NoTime, NoTime, end) = w
  BY AnalysisAssumption DEF Window
<1>2. w.end = end
  OBVIOUS
<1> HIDE DEF w
<1>3. Actors(Sifted(log, {r \in Requests : r.at <= end}), w) = Actors(log, w)
  BY <1>2, LaterIgnored
<1> QED BY <1>1, <1>3 DEF PastPageOn, Page, BadActors

\* The pages of the bad actors show the worst, for all of their parameters.
LEMMA WorstActorsRight == WorstActors
<1> SUFFICES ASSUME NEW log \in Logs, NEW threshold \in Thresholds
             PROVE  /\ \A w \in Windows, limit \in Limits : WorstActorsIn(log, w, threshold, limit)
                    /\ \A now \in Times, hours \in Lookbacks : TileAgreesOn(log, now, hours, threshold)
                    /\ \A now, end \in Times : PastPageOn(log, now, end, threshold, TileRows)
  BY DEF WorstActors
<1>1. /\ log \in Seq(Requests) /\ threshold \in Nat /\ Limits \subseteq Nat \ {0}
      /\ Times \subseteq Int /\ Lookbacks \subseteq Nat /\ TileRows \in Nat
  BY AnalysisAssumption
<1>2. ASSUME NEW w \in Windows, NEW limit \in Limits PROVE WorstActorsIn(log, w, threshold, limit)
  BY <1>1, WorstFirst
<1>3. ASSUME NEW now \in Times, NEW hours \in Lookbacks PROVE TileAgreesOn(log, now, hours, threshold)
  BY <1>1, TileIsPage
<1>4. ASSUME NEW now \in Times, NEW end \in Times PROVE PastPageOn(log, now, end, threshold, TileRows)
  BY <1>1, PastAsShown
<1> QED BY <1>2, <1>3, <1>4

---------------------------------------------------------------------------
(* The request rate.                                                       *)

\* A number is a multiple of another and a rest.
LEMMA DivMod ==
  ASSUME NEW a \in Int, NEW b \in Nat \ {0}
  PROVE  /\ a \div b \in Int /\ a % b \in Int /\ 0 <= a % b /\ a % b < b
         /\ a = b * (a \div b) + (a % b)
<1>1. a \div b \in Int /\ a % b \in Int /\ 0 <= a % b /\ a % b < b
  OBVIOUS
<1>2. b \in Int /\ b > 0
  OBVIOUS
<1>3. a = b * (a \div b) + (a % b)
  BY <1>2, SMT
<1> QED BY <1>1, <1>3

\* Minutes are whole numbers of their length, and a time is in its minute.
LEMMA FloorIs ==
  ASSUME NEW at \in Int
  PROVE  \E a \in Int : /\ Floor(at) = Minute * a
                        /\ Floor(at) <= at /\ at < Floor(at) + Minute
<1>1. Minute \in Nat \ {0}
  BY AnalysisAssumption
<1> DEFINE m == Minute
<1> HIDE DEF m
<1>2. m \in Nat \ {0}
  BY <1>1 DEF m
<1> DEFINE a == at \div m
           b == at % m
<1>3. /\ a \in Int /\ b \in Int /\ 0 <= b /\ b < m /\ at = m * a + b
  BY <1>2, DivMod
<1> HIDE DEF a
<1>4. Floor(at) = at - b
  BY DEF Floor, m
<1> HIDE DEF b
<1>5. m * a \in Int
  BY <1>2, <1>3
<1>6. Floor(at) = m * a /\ Floor(at) <= at /\ at < Floor(at) + m
  BY <1>2, <1>3, <1>4, <1>5
<1> QED BY <1>3, <1>6 DEF m

\* Multiples are ordered as what is multiplied.
LEMMA Multiples ==
  ASSUME NEW m \in Nat \ {0}, NEW a \in Int, NEW b \in Int
  PROVE  /\ m * a \in Int /\ m * (a + 1) = m * a + m /\ m * (a - b) = m * a - m * b
         /\ m * a < m * b <=> a < b
  BY Z3

\* Requests are counted.
LEMMA MinuteCounted ==
  ASSUME NEW log \in Seq(Requests), NEW w, NEW minute
  PROVE  InMinute(log, w, minute) \in Nat
<1> DEFINE R == Requests
           S == {i \in DOMAIN log : /\ w.start <= log[i].at /\ log[i].at < w.end
                                    /\ Floor(log[i].at) = minute}
<1>1. log \in Seq(R)
  OBVIOUS
<1> HIDE DEF R, S
<1>2. Len(log) \in Nat /\ DOMAIN log = 1..Len(log)
  BY <1>1
<1>3. IsFiniteSet(DOMAIN log) /\ S \in SUBSET DOMAIN log
  <2>1. IsFiniteSet(DOMAIN log)
    BY <1>2, FS_Interval
  <2> QED BY <2>1 DEF S
<1>4. Cardinality(S) \in Nat
  <2>1. IsFiniteSet(S)
    BY <1>3, FS_Subset
  <2> QED BY <2>1, FS_CardinalityType
<1> QED BY <1>4 DEF InMinute, S

\* The greatest of finitely many numbers is as great as each.
LEMMA MaxOf ==
  ASSUME NEW n \in Nat, NEW f \in [0..n - 1 -> Nat], NEW k \in 0..n - 1
  PROVE  Max({f[j] : j \in 0..n - 1}) >= f[k]
<1>1. IsFiniteSet(0..n - 1) /\ 0..n - 1 # {}
  <2>1. n - 1 \in Int
    OBVIOUS
  <2>2. IsFiniteSet(0..n - 1)
    BY <2>1, FS_Interval
  <2> QED BY <2>2
<1>2. f \in [0..n - 1 -> Int]
  OBVIOUS
<1>3. PICK x \in 0..n - 1 : \A y \in 0..n - 1 : f[y] <= f[x]
  BY <1>1, <1>2, GreatestOf
<1> DEFINE T == {f[j] : j \in 0..n - 1}
<1>4. f[x] \in T /\ \A y \in T : f[x] >= y
  BY <1>3
<1>5. f[k] \in T
  OBVIOUS
<1> HIDE DEF T
<1> QED BY <1>4, <1>5 DEF Max, T

\* A chart shows at a sample the busiest of the minutes up to the next.
LEMMA RateReaches ==
  ASSUME NEW log \in Seq(Requests), NEW w, NEW stamps \in Seq(Int), NEW i \in DOMAIN stamps,
         WindowMinutes(stamps) \in Nat, NEW k \in 0..WindowMinutes(stamps) - 1
  PROVE  AccessRate(log, w, stamps)[i] >= InMinute(log, w, Floor(stamps[i]) + k * Minute)
<1> DEFINE n == WindowMinutes(stamps)
           f == [j \in 0..n - 1 |-> InMinute(log, w, Floor(stamps[i]) + j * Minute)]
<1>1. f \in [0..n - 1 -> Nat]
  BY MinuteCounted
<1>2. AccessRate(log, w, stamps)[i] = Max({f[j] : j \in 0..n - 1})
  <2>1. {f[j] : j \in 0..n - 1}
        = {InMinute(log, w, Floor(stamps[i]) + j * Minute) : j \in 0..n - 1}
    <3> HIDE DEF n
    <3> QED OBVIOUS
  <2> HIDE DEF f
  <2> QED BY <2>1 DEF AccessRate, n
<1>3. f[k] = InMinute(log, w, Floor(stamps[i]) + k * Minute)
  OBVIOUS
<1> HIDE DEF f
<1>4. n \in Nat /\ k \in 0..n - 1
  OBVIOUS
<1> HIDE DEF n
<1>5. Max({f[j] : j \in 0..n - 1}) >= f[k]
  BY <1>1, <1>4, MaxOf
<1> QED BY <1>2, <1>3, <1>5

\* The greatest of a number and 1.
LEMMA MaxWithOne ==
  ASSUME NEW q \in Int
  PROVE  Max({1, q}) = IF q > 1 THEN q ELSE 1
<1> DEFINE m == IF q > 1 THEN q ELSE 1
<1>1. m \in {1, q} /\ \A y \in {1, q} : m >= y
  OBVIOUS
<1>2. \A x \in {1, q} : (\A y \in {1, q} : x >= y) => x = m
  OBVIOUS
<1> HIDE DEF m
<1> QED BY <1>1, <1>2 DEF Max, m

\* Every minute between the samples is in the chart.
LEMMA BurstsShown ==
  ASSUME NEW log \in Seq(Requests), NEW w \in [start : Int, end : Int],
         NEW stamps \in Seq(Int) \ {<<>>}
  PROVE  BurstsIn(log, w, stamps)
<1> DEFINE d == Interval(stamps)
           n == Len(stamps)
<1>1. Minute \in Nat \ {0} /\ Minute > 0
  BY AnalysisAssumption
<1>2. n \in Nat /\ n >= 1 /\ DOMAIN stamps = 1..n /\ \A i \in 1..n : stamps[i] \in Int
  OBVIOUS
<1>3. d \in Int
  BY <1>1, <1>2 DEF Interval
<1> SUFFICES ASSUME Even(stamps), d <= Minute \/ d % Minute = 0,
                    NEW k \in DOMAIN log,
                    Floor(stamps[1]) <= Floor(log[k].at),
                    Floor(log[k].at) <= Floor(stamps[n])
             PROVE  \E i \in DOMAIN stamps :
                      /\ Floor(stamps[i]) <= Floor(log[k].at)
                      /\ \A j \in DOMAIN stamps : Floor(stamps[j]) <= Floor(log[k].at) => j <= i
                      /\ AccessRate(log, w, stamps)[i] >= InMinute(log, w, Floor(log[k].at))
  BY DEF BurstsIn
<1> DEFINE minute == Floor(log[k].at)
           m == Minute
<1>4. log[k].at \in Int
  <2> DEFINE R == Requests
  <2>1. log \in Seq(R) /\ k \in DOMAIN log
    OBVIOUS
  <2> HIDE DEF R
  <2>2. log[k] \in R
    BY <2>1
  <2> QED BY <2>2 DEF R, Requests
<1>5. \A i \in 1..n : i # n => stamps[i + 1] - stamps[i] = d
  <2>1. \A i \in 1..n - 1 : stamps[i + 1] - stamps[i] = d
    BY DEF Even
  <2> HIDE DEF d, n
  <2>2. \A i \in 1..n : i # n => i \in 1..n - 1
    BY <1>2
  <2> QED BY <2>1, <2>2
<1>0. minute <= Floor(stamps[n])
  OBVIOUS
<1> HIDE DEF d, n, m
<1>6. m \in Nat \ {0}
  BY <1>1 DEF m
<1>7. PICK b \in Int : minute = m * b
  BY <1>4, FloorIs DEF m
<1> DEFINE T == {i \in 1..n : Floor(stamps[i]) <= minute}
           i == Max(T)
<1>8. i \in T /\ \A j \in T : j <= i
  <2>1. 1 \in T
    BY <1>2
  <2>2. T \in SUBSET (1..n) /\ T # {}
    BY <2>1
  <2> HIDE DEF T
  <2> QED BY <1>2, <2>2, LastOf
<1> HIDE DEF i
<1>9. i \in 1..n /\ i \in DOMAIN stamps /\ Floor(stamps[i]) <= minute /\ stamps[i] \in Int
  BY <1>2, <1>8
<1>14. \A j \in DOMAIN stamps : Floor(stamps[j]) <= minute => j <= i
  BY <1>2, <1>8
<1>10. PICK a \in Int : /\ Floor(stamps[i]) = m * a
                        /\ Floor(stamps[i]) <= stamps[i] /\ stamps[i] < Floor(stamps[i]) + m
  BY <1>9, FloorIs DEF m
<1> HIDE DEF minute
<1>11. WindowMinutes(stamps) = (IF d \div m > 1 THEN d \div m ELSE 1) /\ d \div m \in Int
  <2>1. d \div m \in Int
    BY <1>3, <1>6
  <2>2. WindowMinutes(stamps) = Max({1, d \div m})
    BY DEF WindowMinutes, d, m
  <2> QED BY <2>1, <2>2, MaxWithOne
<1>12. CASE a = b
  <2>1. WindowMinutes(stamps) \in Nat /\ 0 \in 0..WindowMinutes(stamps) - 1
    BY <1>11
  <2>2. Floor(stamps[i]) + 0 * Minute = minute
    BY <1>1, <1>6, <1>7, <1>10, <1>12
  <2>3. AccessRate(log, w, stamps)[i] >= InMinute(log, w, Floor(stamps[i]) + 0 * Minute)
    BY <1>2, <1>9, <2>1, RateReaches
  <2> QED BY <1>9, <1>14, <2>2, <2>3 DEF minute
<1>13. CASE a # b
  <2>1. a < b /\ m * a < m * b
    BY <1>6, <1>7, <1>9, <1>10, <1>13, Multiples
  <2>2. i # n
    <3>1. m * a \in Int /\ m * b \in Int
      BY <1>6, Multiples
    <3>2. ASSUME i = n PROVE FALSE
      <4>1. minute <= Floor(stamps[i])
        BY <1>0, <3>2
      <4> QED BY <1>7, <1>10, <2>1, <3>1, <4>1
    <3> QED BY <3>2
  <2>3. i + 1 \in 1..n /\ i + 1 \notin T /\ stamps[i + 1] \in Int
    BY <1>2, <1>8, <1>9, <2>2
  <2>4. stamps[i + 1] - stamps[i] = d
    BY <1>5, <1>9, <2>2
  <2>5. PICK c \in Int : /\ Floor(stamps[i + 1]) = m * c
                         /\ Floor(stamps[i + 1]) <= stamps[i + 1]
                         /\ stamps[i + 1] < Floor(stamps[i + 1]) + m
    BY <2>3, FloorIs DEF m
  <2>6. m * c > m * b
    <3>1. ~(Floor(stamps[i + 1]) <= minute)
      BY <2>3
    <3>2. m * b \in Int /\ m * c \in Int
      BY <1>6, Multiples
    <3> QED BY <1>7, <2>5, <3>1, <3>2
  <2>7. c > b /\ c >= a + 2
    BY <1>6, <2>1, <2>6, Multiples
  <2>8. m * (a + 2) <= m * c /\ m * (a + 2) = m * a + 2 * m
    <3>1. m * (a + 2) = m * a + 2 * m
      <4>1. m * ((a + 1) + 1) = m * (a + 1) + m /\ m * (a + 1) = m * a + m /\ m * a \in Int
        BY <1>6, Multiples
      <4> QED BY <1>6, <4>1
    <3>2. ~(m * c < m * (a + 2))
      BY <1>6, <2>7, Multiples
    <3> QED BY <1>6, <3>1, <3>2
  <2>9. d > m
    <3>1. m * a \in Int /\ m * c \in Int
      BY <1>6, Multiples
    <3>2. m * c <= stamps[i + 1] /\ stamps[i] < m * a + m
      BY <1>10, <2>5
    <3> DEFINE x == stamps[i]
               y == stamps[i + 1]
               u == m * a
               v == m * c
               z == m * (a + 2)
    <3>3. /\ x \in Int /\ y \in Int /\ u \in Int /\ v \in Int /\ v <= y /\ x < u + m
          /\ y - x = d /\ z <= v /\ z = u + 2 * m
      BY <1>9, <2>3, <2>4, <2>8, <3>1, <3>2
    <3> HIDE DEF x, y, u, v, z
    <3> QED BY <1>3, <1>6, <3>3
  <2>10. d % m = 0
    BY <1>3, <1>6, <2>9 DEF m
  <2> DEFINE q == d \div m
  <2>11. q \in Int /\ d = m * q
    BY <1>3, <1>6, <2>10, Z3
  <2> HIDE DEF q
  <2>12. q > 1
    <3>1. m * 1 < m * q
      BY <1>6, <2>9, <2>11
    <3> QED BY <1>6, <2>11, <3>1, Multiples
  <2>13. c = a + q
    <3>1. m * (a + q) = m * a + m * q /\ m * a \in Int /\ m * q \in Int /\ m * c \in Int
      BY <1>6, <2>11, Z3
    <3>2. m * c < m * (a + q) + m /\ m * (a + q) < m * c + m
      <4> DEFINE x == stamps[i]
                 y == stamps[i + 1]
                 u == m * a
                 v == m * c
                 z == m * (a + q)
      <4>1. /\ x \in Int /\ y \in Int /\ u \in Int /\ v \in Int /\ v <= y /\ y < v + m
            /\ u <= x /\ x < u + m /\ y - x = d /\ z = u + d /\ z \in Int
        BY <1>3, <1>9, <1>10, <2>3, <2>4, <2>5, <2>11, <3>1
      <4> HIDE DEF x, y, u, v, z
      <4>2. v < z + m /\ z < v + m
        BY <1>3, <1>6, <4>1
      <4> QED BY <4>2 DEF v, z
    <3>3. m * c < m * (a + q + 1) /\ m * (a + q) < m * (c + 1)
      BY <1>6, <2>11, <3>2, Multiples
    <3>4. c < a + q + 1 /\ a + q < c + 1
      BY <1>6, <2>11, <3>3, Multiples
    <3> QED BY <2>11, <3>4
  <2> DEFINE e == b - a
  <2>14. e \in 0..q - 1 /\ e \in Int
    BY <2>1, <2>7, <2>11, <2>13
  <2>15. Floor(stamps[i]) + e * Minute = minute
    <3>1. m * e = m * b - m * a /\ m * b \in Int /\ m * a \in Int
      BY <1>6, Multiples
    <3>2. e * m = m * e
      BY <1>6, <2>14
    <3> QED BY <1>7, <1>10, <3>1, <3>2 DEF m
  <2> HIDE DEF e
  <2>16. WindowMinutes(stamps) = q /\ q \in Nat
    BY <1>11, <2>11, <2>12 DEF q
  <2>17. AccessRate(log, w, stamps)[i] >= InMinute(log, w, Floor(stamps[i]) + e * Minute)
    <3>1. stamps \in Seq(Int) /\ e \in 0..WindowMinutes(stamps) - 1 /\ WindowMinutes(stamps) \in Nat
      BY <2>14, <2>16
    <3> QED BY <1>9, <3>1, RateReaches
  <2> QED BY <1>9, <1>14, <2>15, <2>17 DEF minute
<1> QED BY <1>12, <1>13

---------------------------------------------------------------------------
(* The loads of the CPU chart.                                             *)

Points == [at : Int, busy : Int, all : Int]
States == [last : Samples, points : Seq(Points)]

\* The times of points.
Busy(points) == [i \in DOMAIN points |-> points[i].busy]
All(points)  == [i \in DOMAIN points |-> points[i].all]

\* A sequence of points and what it adds up to.
AddsTo(points, busy, all) ==
    /\ points \in Seq(Points)
    /\ Total(Busy(points)) = busy /\ Total(All(points)) = all
    /\ \A i \in DOMAIN points : points[i].busy >= 0 /\ points[i].busy <= points[i].all

LEMMA NoneAdd == AddsTo(<<>>, 0, 0)
<1>1. Busy(<<>>) = <<>> /\ All(<<>>) = <<>>
  BY DEF Busy, All
<1>2. <<>> \in Seq(Points) /\ DOMAIN <<>> = {}
  OBVIOUS
<1> QED BY <1>1, <1>2, TotalOfNone DEF AddsTo

LEMMA OneAdds ==
  ASSUME NEW points, NEW busy \in Int, NEW all \in Int, AddsTo(points, busy, all),
         NEW p \in Points, p.busy >= 0, p.busy <= p.all
  PROVE  AddsTo(Append(points, p), busy + p.busy, all + p.all)
<1> DEFINE P == Points
           more == Append(points, p)
           n == Len(points)
<1>1. points \in Seq(P) /\ p \in P /\ p.busy \in Int /\ p.all \in Int
  BY DEF AddsTo, Points
<1> HIDE DEF P
<1>2. /\ more \in Seq(P) /\ n \in Nat /\ DOMAIN points = 1..n /\ DOMAIN more = 1..n + 1
      /\ more[n + 1] = p /\ \A i \in 1..n : more[i] = points[i] /\ points[i] \in P
  BY <1>1
<1> HIDE DEF more, n
<1>3. \A i \in 1..n : points[i].busy \in Int /\ points[i].all \in Int
  BY <1>2 DEF P, Points
<1>4. Busy(points) \in Seq(Int) /\ All(points) \in Seq(Int)
      /\ Len(Busy(points)) = n /\ Len(All(points)) = n
  <2>1. Busy(points) \in [1..n -> Int] /\ All(points) \in [1..n -> Int]
    BY <1>2, <1>3 DEF Busy, All
  <2> QED BY <1>2, <2>1, MadeSeq
<1>5. Busy(more) = Append(Busy(points), p.busy)
  <2>1. \A i \in 1..n + 1 : more[i].busy = IF i = n + 1 THEN p.busy ELSE points[i].busy
    BY <1>2
  <2>2. Busy(more) = [i \in 1..n + 1 |-> IF i = n + 1 THEN p.busy ELSE Busy(points)[i]]
    BY <1>2, <2>1 DEF Busy
  <2> DEFINE s == Busy(points)
             x == p.busy
  <2> HIDE DEF s, x
  <2>3. Append(s, x) = [i \in 1..n + 1 |-> IF i = n + 1 THEN x ELSE s[i]]
    BY <1>1, <1>2, <1>4 DEF s, x
  <2> QED BY <2>2, <2>3 DEF s, x
<1>6. All(more) = Append(All(points), p.all)
  <2>1. \A i \in 1..n + 1 : more[i].all = IF i = n + 1 THEN p.all ELSE points[i].all
    BY <1>2
  <2>2. All(more) = [i \in 1..n + 1 |-> IF i = n + 1 THEN p.all ELSE All(points)[i]]
    BY <1>2, <2>1 DEF All
  <2> DEFINE s == All(points)
             x == p.all
  <2> HIDE DEF s, x
  <2>3. Append(s, x) = [i \in 1..n + 1 |-> IF i = n + 1 THEN x ELSE s[i]]
    BY <1>1, <1>2, <1>4 DEF s, x
  <2> QED BY <2>2, <2>3 DEF s, x
<1>7. Total(Busy(more)) = busy + p.busy
  BY <1>1, <1>4, <1>5, TotalAppended DEF AddsTo
<1>8. Total(All(more)) = all + p.all
  BY <1>1, <1>4, <1>6, TotalAppended DEF AddsTo
<1>9. \A i \in 1..n + 1 : more[i].busy >= 0 /\ more[i].busy <= more[i].all
  <2> SUFFICES ASSUME NEW i \in 1..n + 1
               PROVE  more[i].busy >= 0 /\ more[i].busy <= more[i].all
    OBVIOUS
  <2>1. CASE i = n + 1
    BY <1>2, <2>1
  <2>2. CASE i # n + 1
    BY <1>2, <2>2 DEF AddsTo
  <2> QED BY <2>1, <2>2
<1> QED BY <1>2, <1>7, <1>8, <1>9 DEF AddsTo, P, more

\* f has the state of metrics2csv after each of the samples.
Reads(f, samples) ==
    /\ f \in [0..Len(samples) -> States]
    /\ f[0] = [last |-> NoSample, points |-> <<>>]
    /\ \A i \in 1..Len(samples) : f[i] = CpuStep(f[i - 1], samples[i])

LEMMA StepTyped ==
  ASSUME NEW st \in States, NEW s \in Samples
  PROVE  CpuStep(st, s) \in States
<1> DEFINE P == Points
           p == [at |-> s.at, busy |-> s.used - st.last.used, all |-> s.total - st.last.total]
<1>1. st.last \in Samples /\ st.points \in Seq(P)
  BY DEF States
<1>2. p \in P
  BY <1>1 DEF Samples, Points
<1> HIDE DEF P, p
<1>3. Append(st.points, p) \in Seq(P)
  BY <1>1, <1>2
<1>4. [last |-> s, points |-> Append(st.points, p)] \in States
  BY <1>3 DEF States, P
<1>5. [st EXCEPT !.last = s] \in States
  BY DEF States
<1> QED BY <1>4, <1>5 DEF CpuStep, p

LEMMA ReadExists ==
  ASSUME NEW samples \in Seq(Samples)
  PROVE  \E f : Reads(f, samples) /\ CpuPoints(samples) = f[Len(samples)].points
<1> DEFINE n == Len(samples)
           S == Samples
           base == [last |-> NoSample, points |-> <<>>]
           Read(f) == f = [i \in 0..n |-> IF i = 0 THEN base ELSE CpuStep(f[i - 1], samples[i])]
           g == CHOOSE g : Read(g)
<1>1. n \in Nat /\ \A i \in 1..n : samples[i] \in Samples
  <2>1. samples \in Seq(S)
    OBVIOUS
  <2> HIDE DEF S
  <2>2. n \in Nat /\ \A i \in 1..n : samples[i] \in S
    BY <2>1
  <2> QED BY <2>2 DEF S
<1>b. base \in States
  <2> DEFINE P == Points
  <2>1. <<>> \in Seq(P)
    OBVIOUS
  <2> HIDE DEF P
  <2> QED BY <2>1 DEF States, Samples, NoSample, P
<1> HIDE DEF base
<1>2. PICK f \in [0..n -> States] :
        f[0] = base /\ \A i \in 1..n : f[i] = CpuStep(f[i - 1], samples[i])
  <2> DEFINE X == States
             turn == [xi \in X \X (1..n) |-> CpuStep(xi[1], samples[xi[2]])]
  <2> HIDE DEF X
  <2>1. turn \in [X \X (1..n) -> X]
    BY <1>1, StepTyped DEF X
  <2>2. PICK f : IsLoop(f, X, base, n, turn)
    <3> HIDE DEF turn, n
    <3>1. base \in X
      BY <1>b DEF X
    <3> QED BY <1>1, <2>1, <3>1, LoopExists
  <2>3. f \in [0..n -> X] /\ f[0] = base /\ \A i \in 1..n : f[i] = turn[<<f[i - 1], i>>]
    BY <2>2 DEF IsLoop
  <2>4. ASSUME NEW i \in 1..n PROVE f[i] = CpuStep(f[i - 1], samples[i])
    <3>1. f[i - 1] \in X
      BY <1>1, <2>3
    <3>2. <<f[i - 1], i>> \in X \X (1..n)
      BY <3>1
    <3> QED BY <2>3, <3>2
  <2> QED BY <2>3, <2>4 DEF X
<1> HIDE DEF n
<1>3. Read(f)
  <2>1. \A i \in 0..n : f[i] = IF i = 0 THEN base ELSE CpuStep(f[i - 1], samples[i])
    BY <1>1, <1>2
  <2>2. f = [i \in 0..n |-> f[i]]
    BY <1>2
  <2> QED BY <2>1, <2>2
<1>4. Read(g)
  <2> HIDE DEF Read
  <2> QED BY <1>3
<1> HIDE DEF g
<1>5. CpuPoints(samples) = g[n].points
  BY DEF CpuPoints, g, n, base
<1>6. \A i \in 0..n : g[i] = IF i = 0 THEN base ELSE CpuStep(g[i - 1], samples[i])
  BY <1>4
<1> HIDE DEF Read
<1>7. \A i \in 0..n : g[i] = f[i]
  <2> DEFINE Bad == {i \in Nat : i <= n /\ g[i] # f[i]}
  <2> SUFFICES ASSUME Bad # {} PROVE FALSE
    BY <1>1
  <2>1. PICK i \in Bad : \A h \in Bad : i <= h
    BY LeastOf
  <2>2. i \in 0..n /\ g[i] # f[i] /\ i # 0
    BY <1>1, <1>2, <1>6, <2>1
  <2>3. i - 1 \in Nat /\ i - 1 <= n /\ i - 1 \notin Bad /\ i \in 1..n
    BY <1>1, <2>1, <2>2
  <2>4. g[i - 1] = f[i - 1]
    BY <2>3
  <2> QED BY <1>2, <1>6, <2>2, <2>3, <2>4
<1>8. n \in 0..n
  BY <1>1
<1> QED BY <1>2, <1>5, <1>7, <1>8 DEF Reads, n, base
\* What the points add up to after i of the samples, k being the first busy one.
Since(st, samples, i, k) ==
    /\ samples[k].used > 0 /\ \A h \in 1..k - 1 : samples[h].used = 0
    /\ st.last.used = samples[i].used /\ st.last.total = samples[i].total
    /\ AddsTo(st.points, samples[i].used - samples[k].used, samples[i].total - samples[k].total)

Idle(st, samples, i) ==
    /\ \A h \in 1..i : samples[h].used = 0
    /\ st.last.used = 0 /\ st.points = <<>>

LEMMA StepAdds ==
  ASSUME NEW samples, NEW n \in Nat, NEW i \in 1..n, Monotone(samples),
         DOMAIN samples = 1..n, \A h \in 1..n : samples[h] \in Samples,
         NEW st \in States,
         Idle(st, samples, i - 1) \/ \E k \in 1..i - 1 : Since(st, samples, i - 1, k)
  PROVE  LET to == CpuStep(st, samples[i])
         IN  Idle(to, samples, i) \/ \E k \in 1..i : Since(to, samples, i, k)
<1> DEFINE s == samples[i]
           to == CpuStep(st, s)
<1>1. s \in Samples /\ s.used \in Nat /\ s.total \in Nat /\ s.at \in Int
  BY DEF Samples
<1>2. ASSUME Idle(st, samples, i - 1)
      PROVE  Idle(to, samples, i) \/ \E k \in 1..i : Since(to, samples, i, k)
  <2>1. to = [st EXCEPT !.last = s]
    BY <1>2 DEF CpuStep, Idle
  <2>2. to.last = s /\ to.points = <<>>
    BY <1>2, <2>1 DEF States, Idle
  <2>3. \A h \in 1..i - 1 : samples[h].used = 0
    BY <1>2 DEF Idle
  <2>4. CASE s.used = 0
    <3>1. \A h \in 1..i : samples[h].used = 0
      BY <2>3, <2>4
    <3> QED BY <2>2, <2>4, <3>1 DEF Idle
  <2>5. CASE s.used # 0
    <3>1. s.used > 0 /\ s.used - s.used = 0 /\ s.total - s.total = 0
      BY <1>1, <2>5
    <3>2. Since(to, samples, i, i)
      BY <2>2, <2>3, <3>1, NoneAdd DEF Since
    <3> QED BY <3>2
  <2> QED BY <2>4, <2>5
<1>3. ASSUME NEW k \in 1..i - 1, Since(st, samples, i - 1, k) PROVE Since(to, samples, i, k)
  <2> DEFINE t == samples[i - 1]
             f == samples[k]
  <2>1. i - 1 \in 1..n /\ k \in 1..n /\ t \in Samples /\ f \in Samples
    BY <1>3
  <2>2. /\ t.used \in Nat /\ t.total \in Nat /\ f.used \in Nat /\ f.total \in Nat
        /\ f.used > 0 /\ st.last.used = t.used /\ st.last.total = t.total
        /\ AddsTo(st.points, t.used - f.used, t.total - f.total)
    BY <1>3, <2>1 DEF Since, Samples
  <2>3. t.used <= s.used /\ s.used - t.used <= s.total - t.total
    BY <2>1 DEF Monotone
  <2>4. f.used <= t.used
    <3>1. CASE k = i - 1
      BY <2>2, <3>1
    <3>2. CASE k # i - 1
      BY <2>1, <3>2 DEF Monotone
    <3> QED BY <3>1, <3>2
  <2> HIDE DEF s, t, f
  <2>5. st.last.used # 0
    BY <2>2, <2>4
  <2>6. to.last.used = s.used /\ to.last.total = s.total
        /\ AddsTo(to.points, s.used - f.used, s.total - f.total)
    <3>1. CASE s.total = st.last.total /\ s.used = st.last.used
      <4>1. to = st
        BY <2>5, <3>1 DEF CpuStep
      <4> HIDE DEF to
      <4> QED BY <2>2, <3>1, <4>1
    <3>2. CASE ~(s.total = st.last.total /\ s.used = st.last.used)
      <4> DEFINE p == [at |-> s.at, busy |-> s.used - t.used, all |-> s.total - t.total]
      <4>1. to = [last |-> s, points |-> Append(st.points, p)]
        BY <2>2, <2>5, <3>2 DEF CpuStep
      <4>2. p.at = s.at /\ p.busy = s.used - t.used /\ p.all = s.total - t.total
        OBVIOUS
      <4> DEFINE su == s.used
                 sa == s.total
                 tu == t.used
                 ta == t.total
                 fu == f.used
                 fa == f.total
      <4>3. /\ su \in Nat /\ sa \in Nat /\ tu \in Nat /\ ta \in Nat /\ fu \in Nat /\ fa \in Nat
            /\ p.busy = su - tu /\ p.all = sa - ta /\ tu <= su /\ su - tu <= sa - ta
        BY <1>1, <2>2, <2>3, <4>2
      <4> HIDE DEF p, to, su, sa, tu, ta, fu, fa
      <4>4. p.busy \in Int /\ p.all \in Int /\ p.busy >= 0 /\ p.busy <= p.all
        BY <4>3
      <4>5. p \in Points
        BY <1>1, <4>4 DEF p, Points
      <4>6. /\ tu - fu \in Int /\ ta - fa \in Int
            /\ (tu - fu) + p.busy = su - fu /\ (ta - fa) + p.all = sa - fa
        BY <4>3
      <4>7. AddsTo(Append(st.points, p), (t.used - f.used) + p.busy, (t.total - f.total) + p.all)
        BY <2>2, <4>4, <4>5, <4>6, OneAdds DEF su, sa, tu, ta, fu, fa
      <4> QED BY <4>1, <4>6, <4>7 DEF su, sa, tu, ta, fu, fa
    <3> QED BY <3>1, <3>2
  <2> QED BY <1>3, <2>6 DEF Since, s, t, f
<1>4. (1..i - 1) \subseteq 1..i
  OBVIOUS
<1> HIDE DEF to
<1>5. Idle(to, samples, i) \/ \E k \in 1..i : Since(to, samples, i, k)
  <2>1. CASE Idle(st, samples, i - 1)
    BY <1>2, <2>1
  <2>2. CASE \E k \in 1..i - 1 : Since(st, samples, i - 1, k)
    <3>1. PICK k \in 1..i - 1 : Since(st, samples, i - 1, k)
      BY <2>2
    <3>2. Since(to, samples, i, k) /\ k \in 1..i
      BY <1>3, <1>4, <3>1
    <3> QED BY <3>2
  <2> QED BY <2>1, <2>2
<1> QED BY <1>5 DEF to, s

\* The loads add up.
LEMMA LoadsAdd ==
  ASSUME NEW samples \in Seq(Samples)
  PROVE  LoadAddsUp(samples)
<1> DEFINE n == Len(samples)
           points == CpuPoints(samples)
           busy == {i \in DOMAIN samples : samples[i].used > 0}
           S == Samples
<1>1. n \in Nat /\ DOMAIN samples = 1..n /\ \A i \in 1..n : samples[i] \in Samples
  <2>1. samples \in Seq(S)
    OBVIOUS
  <2> HIDE DEF S
  <2>2. n \in Nat /\ DOMAIN samples = 1..n /\ \A i \in 1..n : samples[i] \in S
    BY <2>1
  <2> QED BY <2>2 DEF S
<1>2. PICK f : Reads(f, samples) /\ points = f[n].points
  BY ReadExists
<1> HIDE DEF points
<1> SUFFICES ASSUME Monotone(samples)
             PROVE  /\ \A i \in DOMAIN points : points[i].busy >= 0 /\ points[i].busy <= points[i].all
                    /\ busy # {} =>
                         /\ Total(Busy(points)) = samples[n].used - samples[Min(busy)].used
                         /\ Total(All(points)) = samples[n].total - samples[Min(busy)].total
  BY DEF LoadAddsUp, points, Busy, All
<1> HIDE DEF n
<1> DEFINE Right(i) == \/ Idle(f[i], samples, i)
                       \/ \E k \in 1..i : Since(f[i], samples, i, k)
<1>3. \A i \in 0..n : Right(i)
  <2> DEFINE Bad == {i \in Nat : i <= n /\ ~Right(i)}
  <2> SUFFICES ASSUME Bad # {} PROVE FALSE
    BY <1>1
  <2> HIDE DEF Right
  <2>1. PICK i \in Bad : \A h \in Bad : i <= h
    BY LeastOf
  <2>2. CASE i = 0
    <3>1. f[0] = [last |-> NoSample, points |-> <<>>]
      BY <1>2 DEF Reads
    <3>2. Idle(f[0], samples, 0)
      BY <3>1 DEF Idle, NoSample
    <3> QED BY <2>1, <2>2, <3>2 DEF Right
  <2>3. CASE i # 0
    <3>1. i - 1 \in Nat /\ i - 1 <= n /\ i - 1 \notin Bad /\ i \in 1..n
      BY <1>1, <2>1, <2>3
    <3>2. Right(i - 1)
      BY <3>1
    <3>3. f[i - 1] \in States /\ f[i] = CpuStep(f[i - 1], samples[i])
      BY <1>1, <1>2, <3>1 DEF Reads, n
    <3>4. Right(i)
      BY <1>1, <3>1, <3>2, <3>3, StepAdds DEF Right
    <3> QED BY <2>1, <3>4
  <2> QED BY <2>2, <2>3
<1>4. Right(n)
  BY <1>1, <1>3
<1>5. CASE Idle(f[n], samples, n)
  <2>1. points = <<>> /\ busy = {}
    BY <1>1, <1>2, <1>5 DEF Idle
  <2> QED BY <2>1
<1>6. ASSUME NEW k \in 1..n, Since(f[n], samples, n, k)
      PROVE  /\ \A i \in DOMAIN points : points[i].busy >= 0 /\ points[i].busy <= points[i].all
             /\ Total(Busy(points)) = samples[n].used - samples[Min(busy)].used
             /\ Total(All(points)) = samples[n].total - samples[Min(busy)].total
  <2>1. AddsTo(points, samples[n].used - samples[k].used, samples[n].total - samples[k].total)
    BY <1>2, <1>6 DEF Since
  <2>2. k \in busy /\ \A h \in busy : k <= h /\ h \in Int
    <3>1. ASSUME NEW h \in busy, h < k PROVE FALSE
      <4>1. h \in 1..k - 1
        BY <1>1, <3>1
      <4> QED BY <1>6, <4>1 DEF Since
    <3>2. k \in busy
      BY <1>1, <1>6 DEF Since
    <3> QED BY <1>1, <3>1, <3>2
  <2>3. Min(busy) = k
    <3>1. \A x \in busy : (\A y \in busy : x <= y) => x = k
      BY <2>2
    <3> HIDE DEF busy
    <3> QED BY <2>2, <3>1 DEF Min
  <2> QED BY <2>1, <2>3 DEF AddsTo
<1> QED BY <1>4, <1>5, <1>6

\* CpuCharted
LEMMA LoadsRight == LoadsCharted
<1>1. \A samples \in Counters : LoadAddsUp(samples)
  BY AnalysisAssumption, LoadsAdd
<1>2. ASSUME NEW log \in Logs, NEW w \in Windows, NEW stamps \in Stamps
      PROVE  BurstsIn(log, w, stamps)
  <2>1. log \in Seq(Requests) /\ w \in [start : Int, end : Int] /\ stamps \in Seq(Int) \ {<<>>}
    BY AnalysisAssumption
  <2> QED BY <2>1, BurstsShown
<1> QED BY <1>1, <1>2 DEF LoadsCharted

---------------------------------------------------------------------------

\* The pages of get_bad_actors and get_bad_actors_summary show, for every log,
\* window, threshold and limit, the clients with the most requests; they agree
\* with each other and with what was shown at an earlier time.
THEOREM BadActorsRight == Spec => []WorstActorsShown
<1>1. WorstActorsShown
  BY WorstActorsRight DEF WorstActorsShown
<1> QED BY <1>1, PTL

\* The loads of metrics2csv add up, for all samples of counters that grow, and
\* get_access_rate leaves out no minute between samples at even distances: it
\* is at the sample that begins its interval.
THEOREM ChartsRight == Spec => []CpuCharted
<1>1. CpuCharted
  BY LoadsRight DEF CpuCharted
<1> QED BY <1>1, PTL
===========================================================================
