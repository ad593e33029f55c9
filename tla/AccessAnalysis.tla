-------------------------- MODULE AccessAnalysis --------------------------
(***************************************************************************)
(* What the access pages compute: the clients with the most requests, for  *)
(* the page and for the dashboard tile; the CPU load between the samples   *)
(* of cumulative counters; and the request rate next to it.                *)
(*                                                                         *)
(* Times are numbers.  A client is a number too, and one of V4 if it is    *)
(* an IPv4 address; others are what INET_ATON maps to NULL.  The paths and *)
(* the country of a client are left out (see CidrMapper).                  *)
(***************************************************************************)
EXTENDS Integers, Sequences, FiniteSets, SequencesExt, Sifting

CONSTANTS
    Clients, V4,
    Private,      \* loopback, RFC 1918 and link-local
    Excluded,     \* EXCLUDED_IPS: networks, and entries that are none
    TileRows,     \* 20, the rows of the tile
    Day,          \* 24 hours
    NoTime,       \* a parameter start or end that is absent, or no ISO time
    Minute,       \* the length of a bucket of requests
    Logs,         \* contents of the table of requests
    Windows,      \* the windows, and
    Thresholds, Limits, Lookbacks, Times, \* the other parameters of the pages
    Counters,     \* samples that DigitalOcean returns
    Stamps        \* times of CPU points

Entries  == [valid : BOOLEAN, first : Clients, last : Clients]
Requests == [client : Clients, at : Int, error : BOOLEAN]
Samples  == [at : Int, used : Nat, total : Nat]

ASSUME AnalysisAssumption ==
    /\ Clients \subseteq Int /\ V4 \subseteq Clients /\ Private \subseteq V4
    /\ Excluded \subseteq Entries
    /\ Day \in Nat /\ NoTime \notin Int
    /\ TileRows \in Nat \ {0} /\ Minute \in Nat \ {0}
    /\ Logs \subseteq Seq(Requests) /\ Windows \subseteq [start : Int, end : Int]
    /\ Thresholds \subseteq Nat /\ Limits \subseteq Nat \ {0}
    /\ Lookbacks \subseteq Nat /\ Times \subseteq Int
    /\ Counters \subseteq Seq(Samples) /\ Stamps \subseteq Seq(Int) \ {<<>>}
---------------------------------------------------------------------------
(* Bad actors                                                              *)

\* _exclude_private_ips: a single address is compared as text; a network by
\* INET_ATON, and a comparison with NULL keeps no row.
Kept(c) ==
    /\ c \notin Private
    /\ \A e \in Excluded : e.valid =>
         IF e.first = e.last THEN c # e.first
                             ELSE c \in V4 /\ (c < e.first \/ c > e.last)

\* The rows of a client in a window; both ends belong to it.
RowsOf(log, w, c) ==
    {i \in DOMAIN log : log[i].client = c /\ w.start <= log[i].at /\ log[i].at <= w.end}

Actor(log, w, c) ==
    [ip |-> c, count |-> Cardinality(RowsOf(log, w, c)),
     errors |-> Cardinality({i \in RowsOf(log, w, c) : log[i].error})]

Actors(log, w) ==
    {Actor(log, w, c) : c \in {d \in Clients : Kept(d) /\ RowsOf(log, w, d) # {}}}

\* ORDER BY count DESC: clients with equal counts come in any order.
Ranked(rows) ==
    {s \in SetToSeqs(rows) : \A i, j \in DOMAIN s : i < j => s[i].count >= s[j].count}

AtMost(s, n) == SubSeq(s, 1, Min({n, Len(s)}))

\* "if threshold and count < threshold: break"
Reaching(s, threshold) ==
    AtMost(s, Max({n \in 0..Len(s) :
                     \A i \in 1..n : threshold = 0 \/ s[i].count >= threshold}))

\* Mutant of BadActors: the rows that are excluded count for the limit.
BadActorsLimitedFirst(log, w, threshold, limit) ==
    LET all == {Actor(log, w, c) : c \in {d \in Clients : RowsOf(log, w, d) # {}}}
    IN  {SelectSeq(AtMost(Reaching(s, threshold), limit), LAMBDA r : Kept(r.ip)) :
            s \in Ranked(all)}

\* get_bad_actors: what the page may be given, limit * 4 rows being fetched.
BadActors(log, w, threshold, limit) ==
    {AtMost(Reaching(AtMost(s, limit * 4), threshold), limit) : s \in Ranked(Actors(log, w))}

\* Mutant of Window: without a start it begins a day ago, whenever it ends.
WindowToday(rawStart, rawEnd, now) ==
    [start |-> IF rawStart = NoTime THEN now - Day ELSE rawStart,
     end   |-> IF rawEnd = NoTime THEN now ELSE rawEnd]

\* _parse_window: without an end it ends now, without a start it is a day.
Window(rawStart, rawEnd, now) ==
    LET end == IF rawEnd = NoTime THEN now ELSE rawEnd
    IN  [start |-> IF rawStart = NoTime THEN end - Day ELSE rawStart, end |-> end]

\* api_bad_actors
Page(log, rawStart, rawEnd, now, threshold, limit) ==
    BadActors(log, Window(rawStart, rawEnd, now), threshold, limit)

\* Mutant of Summary: HAVING count > threshold.
SummaryAbove(log, now, hours, threshold) ==
    LET rows == Actors(log, [start |-> now - hours, end |-> now])
    IN  {AtMost(s, TileRows) : s \in Ranked({r \in rows : r.count > threshold})}

\* get_bad_actors_summary: HAVING count >= threshold, in the last hours.
Summary(log, now, hours, threshold) ==
    LET rows == Actors(log, [start |-> now - hours, end |-> now])
    IN  {AtMost(s, TileRows) : s \in Ranked({r \in rows : r.count >= threshold})}

---------------------------------------------------------------------------
(* CPU load                                                                *)

NoSample == [at |-> 0, used |-> 0, total |-> 0]

\* Mutant of CpuStep: the sample compared with is never replaced.
CpuStepFirst(st, s) ==
    IF st.last.used = 0 THEN [st EXCEPT !.last = s]
    ELSE IF s.total = st.last.total THEN st
    ELSE [st EXCEPT !.points = Append(@, [at |-> s.at,
             busy |-> s.used - st.last.used, all |-> s.total - st.last.total])]

\* metrics2csv, one sample: "if last_used" takes 0 for no sample, whose row
\* has no %CPU and becomes no point; 0/0 is NaN, and skipped.
CpuStep(st, s) ==
    IF st.last.used = 0 THEN [st EXCEPT !.last = s]
    ELSE IF s.total = st.last.total /\ s.used = st.last.used THEN st
    ELSE [last |-> s,
          points |-> Append(st.points, [at |-> s.at,
             busy |-> s.used - st.last.used, all |-> s.total - st.last.total])]

\* get_cpu_metrics: %CPU is 100 * busy / all of each point.
CpuPoints(samples) ==
    LET read[i \in 0..Len(samples)] ==
            IF i = 0 THEN [last |-> NoSample, points |-> <<>>]
            ELSE CpuStep(read[i - 1], samples[i])
    IN  read[Len(samples)].points

---------------------------------------------------------------------------
(* Request rate                                                            *)

Floor(at) == at - (at % Minute)

\* count_by_minute.get(...): requests of a minute, start <= at < end.
InMinute(log, w, minute) ==
    Cardinality({i \in DOMAIN log : /\ w.start <= log[i].at /\ log[i].at < w.end
                                    /\ Floor(log[i].at) = minute})

\* The distance of the first two samples, or a minute.
Interval(stamps) == IF Len(stamps) > 1 THEN stamps[2] - stamps[1] ELSE Minute

\* Mutant of WindowMinutes: the last minute of a window is left out.
WindowMinutesShort(stamps) == Max({1, Interval(stamps) \div Minute - 1})

\* n_minutes
WindowMinutes(stamps) == Max({1, Interval(stamps) \div Minute})

\* get_access_rate, for the times of the CPU points.
AccessRate(log, w, stamps) ==
    [i \in DOMAIN stamps |->
        Max({InMinute(log, w, Floor(stamps[i]) + k * Minute) :
                k \in 0..WindowMinutes(stamps) - 1})]
---------------------------------------------------------------------------

\* get_bad_actors ranks all clients that are not excluded, and those that it
\* leaves out are below the threshold or the limit: no worse actor is missing.
WorstActorsIn(log, w, threshold, limit) ==
    \A page \in BadActors(log, w, threshold, limit) :
        LET shown == ToSet(page)
        IN  /\ Len(page) = Cardinality(shown) /\ Len(page) <= limit
            /\ shown \subseteq {r \in Actors(log, w) : r.count >= threshold}
            /\ \A r \in Actors(log, w) \ shown :
                 \/ r.count < threshold
                 \/ Len(page) = limit /\ \A q \in shown : q.count >= r.count

\* The tile and the page agree on the last hours, although one leaves the
\* threshold to the database and the other to its loop; on the last day also
\* when the page is asked for no window.
TileAgreesOn(log, now, hours, threshold) ==
    LET tile == Summary(log, now, hours, threshold)
    IN  /\ tile = Page(log, now - hours, NoTime, now, threshold, TileRows)
        /\ hours = Day => tile = Page(log, NoTime, NoTime, now, threshold, TileRows)

\* The page of an earlier end is the one that was shown at that time.
PastPageOn(log, now, end, threshold, limit) ==
    LET known == Sifted(log, {r \in Requests : r.at <= end})
    IN  Page(log, NoTime, end, now, threshold, limit)
        = Page(known, NoTime, NoTime, end, threshold, limit)

\* What the pages of the bad actors show, for all of their parameters.
WorstActors ==
    \A log \in Logs, threshold \in Thresholds :
        /\ \A w \in Windows, limit \in Limits : WorstActorsIn(log, w, threshold, limit)
        /\ \A now \in Times, hours \in Lookbacks : TileAgreesOn(log, now, hours, threshold)
        /\ \A now, end \in Times : PastPageOn(log, now, end, threshold, TileRows)

\* Counters only grow, idle as well as used time.
Monotone(samples) ==
    \A i, j \in DOMAIN samples : i < j =>
        /\ samples[i].at < samples[j].at
        /\ samples[i].used <= samples[j].used
        /\ samples[j].used - samples[i].used <= samples[j].total - samples[i].total

\* Of growing counters: no load is beyond 100 %, and the points add up to the
\* time the CPU was busy since the first sample with any: none is counted
\* twice or left out.
LoadAddsUp(samples) ==
    LET points == CpuPoints(samples)
        busy   == {i \in DOMAIN samples : samples[i].used > 0}
    IN  Monotone(samples) =>
        /\ \A i \in DOMAIN points : points[i].busy >= 0 /\ points[i].busy <= points[i].all
        /\ busy # {} =>
             /\ Total([i \in DOMAIN points |-> points[i].busy])
                = samples[Len(samples)].used - samples[Min(busy)].used
             /\ Total([i \in DOMAIN points |-> points[i].all])
                = samples[Len(samples)].total - samples[Min(busy)].total

Even(stamps) ==
    \A i \in 1..Len(stamps) - 1 : stamps[i + 1] - stamps[i] = Interval(stamps)

\* Samples at even distances, within a minute or of full minutes: every minute
\* between them is in the chart, at the last sample that is not after it.  The
\* docstring has it at the sample whose interval it falls within; of distances
\* of full minutes that is the next one, for the load of a point is that of the
\* time before it (CpuStep): a burst is drawn one sample before its load.
BurstsIn(log, w, stamps) ==
    (Even(stamps) /\ (Interval(stamps) <= Minute \/ Interval(stamps) % Minute = 0)) =>
    \A k \in DOMAIN log :
        LET minute == Floor(log[k].at)
        IN  (/\ w.start <= log[k].at /\ log[k].at < w.end
             /\ Floor(stamps[1]) <= minute /\ minute <= Floor(stamps[Len(stamps)]))
            => \E i \in DOMAIN stamps :
                 /\ Floor(stamps[i]) <= minute
                 /\ \A j \in DOMAIN stamps : Floor(stamps[j]) <= minute => j <= i
                 /\ AccessRate(log, w, stamps)[i] >= InMinute(log, w, minute)

\* What the charts of the load and of the request rate show.
LoadsCharted ==
    /\ \A samples \in Counters : LoadAddsUp(samples)
    /\ \A log \in Logs, w \in Windows, stamps \in Stamps : BurstsIn(log, w, stamps)
===========================================================================
