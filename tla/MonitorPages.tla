---------------------------- MODULE MonitorPages ----------------------------
(***************************************************************************)
(* What the web workers show of the monitors: the tile of the dashboard,   *)
(* from the head of the list in Redis, and the history pages, from the     *)
(* rows in MySQL since some hours ago by the local clock.                  *)
(*                                                                         *)
(* The pages change nothing, and each of their requests looks once at what *)
(* the monitors have left: an operator on the state of Monitors.           *)
(***************************************************************************)
EXTENDS Monitors, SequencesExt

CONSTANTS
    Disk,         \* the disk monitor; the other is the memory monitor
    Sentinel,     \* "__docker__", the mount of the row with Docker's totals
    AllMounts,    \* request.args.get("mount") is None
    Lookback      \* the hours that the pages are asked for

ASSUME PagesAssumption ==
    /\ Disk \in Mons /\ Sentinel \in Keys /\ Owner[Sentinel] = Disk
    /\ AllMounts \notin Keys
    /\ Lookback \subseteq Nat
---------------------------------------------------------------------------

\* Mutant of Since: the row of exactly hours ago is left out.
SinceStrictly(hours) == {r \in rows : r.snap.at > Alerting!wall - hours}

\* "collected_at >= since", since being hours before datetime.now().
Since(hours) == {r \in rows : r.snap.at >= Alerting!wall - hours}

\* The points of one chart: the rows ORDER BY collected_at.  The memory page
\* asks for all of its monitor, the disk page for those of some mounts.
Points(m, names, hours) ==
    LET charted == {r \in Since(hours) : r.mon = m /\ r.name \in names}
    IN  CHOOSE s \in Bijection(1..Cardinality(charted), charted) :
            \A i, j \in DOMAIN s : i < j => s[i].snap.at <= s[j].snap.at

DiskRows(hours) == {r \in Since(hours) : r.mon = Disk}

\* mount, or what docker=1 is a shorthand for.
Wanted(mount, useDocker) == IF mount = AllMounts /\ useDocker THEN Sentinel ELSE mount

\* api_disk_history: one series per mount that has rows, Docker's total not
\* among them, or the series of the mount that was asked for.
DiskHistory(mount, useDocker, hours) ==
    LET wanted == Wanted(mount, useDocker)
        names  == IF wanted # AllMounts THEN {wanted}
                  ELSE {r.name : r \in DiskRows(hours)} \ {Sentinel}
    IN  [n \in names |-> Points(Disk, {n}, hours)]

\* The chart of the page has one axis for all series, the dates of a series
\* that is longest; point i of each series is drawn at its date i.
Axes(series) == {n \in DOMAIN series :
                    \A k \in DOMAIN series : Len(series[k]) <= Len(series[n])}
DrawnAt(series, axis, i) == series[axis][i].snap.at

---------------------------------------------------------------------------
\* How long ago a snapshot was collected by the local clock: setting it forward
\* makes what was collected before older.
Age(s) == (elapsed - s.real) + (s.behind - setback)

\* The default page shows everything that was collected in the last hours, of
\* which the clock, when it is set forward meanwhile, takes as much as it is
\* set, and the fraction of a second that the time of a row lacks: each row
\* once, in the series of its mount, Docker's total in none but the one
\* docker=1 asks for.
RecentCharted ==
    \A hours \in Lookback, r \in rows : (r.mon = Disk /\ Age(r.snap) <= hours - (Second - 1)) =>
        LET totals == r.name = Sentinel
            series == DiskHistory(AllMounts, totals, hours)
        IN  /\ r.name \in DOMAIN series
            /\ \A n \in DOMAIN series :
                  Cardinality({i \in DOMAIN series[n] : series[n][i] = r})
                  = IF n = r.name THEN 1 ELSE 0

\* A series has no two points of the same time, although collections can have:
\* the second is refused, as a whole.
SeriesTimed ==
    \A hours \in Lookback, totals \in BOOLEAN :
        LET series == DiskHistory(AllMounts, totals, hours)
        IN  \A n \in DOMAIN series : \A i, j \in DOMAIN series[n] :
               i < j => series[n][i].snap.at < series[n][j].snap.at

MountsOf(r) == {r.snap.report[i].name : i \in DOMAIN r.snap.report} \ {Sentinel}

\* If all collections in the chart reported the same mounts, every point is
\* drawn at its own time, although there is one axis only: no failure leaves a
\* part of a collection behind, which would shift a series, and no two points
\* of a series have one time.
PointsDated ==
    /\ SeriesTimed
    /\ \A hours \in Lookback :
          LET series == DiskHistory(AllMounts, FALSE, hours)
          IN  (\A r, s \in DiskRows(hours) : MountsOf(r) = MountsOf(s)) =>
              \A axis \in Axes(series), n \in DOMAIN series : \A i \in DOMAIN series[n] :
                  DrawnAt(series, axis, i) = series[n][i].snap.at
===========================================================================
