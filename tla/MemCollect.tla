----------------------------- MODULE MemCollect -----------------------------
(***************************************************************************)
(* What MemMonitor makes of /proc/meminfo: the figures of its sample, in   *)
(* kB, and whether the swap is alerted about.                              *)
(***************************************************************************)
EXTENDS Integers, Sequences, SequencesExt

CONSTANTS
    MemLines,     \* the lines of /proc/meminfo
    NoNumber,     \* no second word, or one that is no number
    MemFiles,     \* the contents of /proc/meminfo, <<>> if it cannot be read
    Thresholds    \* values of SWAP_ALERT_THRESHOLD_PCT

ASSUME MemCollectAssumption ==
    /\ NoNumber \notin Nat
    /\ \A l \in MemLines : l.kb \in Nat \cup {NoNumber}
    /\ MemFiles \subseteq Seq(MemLines)
    /\ Thresholds \subseteq Nat
---------------------------------------------------------------------------

\* _read_proc_meminfo: of two lines with the same key the last is kept.
MemInfo(file) ==
    LET read == {i \in DOMAIN file : file[i].kb # NoNumber}
    IN  [k \in {file[i].key : i \in read} |->
            file[Max({i \in read : file[i].key = k})].kb]

KbOf(info, key, default) == IF key \in DOMAIN info THEN info[key] ELSE default

\* Mutant of Used: what is free may exceed the total.
UsedSigned(total, free) == total - free

Used(total, free) == IF free <= total THEN total - free ELSE 0

Distance(a, b) == IF a < b THEN b - a ELSE a - b

\* round(used / total * 100) is a percentage that is nearest.  (Where two are,
\* the error of the division decides which.)
Percentages(used, total) ==
    IF total = 0 THEN {0}
    ELSE LET p == (100 * used) \div total
         IN  {q \in {p, p + 1} : \A r \in {p, p + 1} :
                Distance(q * total, 100 * used) <= Distance(r * total, 100 * used)}

Figures(total, free) ==
    {[total |-> total, free |-> free, used |-> Used(total, free), pct |-> p] :
        p \in Percentages(Used(total, free), total)}

\* _build_mem, _build_swap
Mem(info) ==
    Figures(KbOf(info, "MemTotal", 0),
            KbOf(info, "MemAvailable", KbOf(info, "MemFree", 0)))
Swap(info) == Figures(KbOf(info, "SwapTotal", 0), KbOf(info, "SwapFree", 0))

\* Mutant of SwapOver: a host without swap is not told apart.
SwapOverAny(swap, threshold) == swap.pct >= threshold

\* The condition of _check_alerts.
SwapOver(swap, threshold) == swap.total > 0 /\ swap.pct >= threshold

---------------------------------------------------------------------------
\* The figures of a sample add up, whichever lines /proc/meminfo has: a kernel
\* that has no MemAvailable, or says that more is available than there is, or
\* a file that cannot be read, gives no percentage out of 0..100.
FiguresAddUp ==
    \A file \in MemFiles : \A f \in Mem(MemInfo(file)) \cup Swap(MemInfo(file)) :
        /\ f.pct \in 0..100
        /\ f.used \in 0..f.total
        /\ f.free <= f.total => f.used + f.free = f.total

\* A swap that is filled up to the threshold is alerted about, one that is a
\* percent below is not, and where there is no swap nothing is, whatever the threshold.
SwapOverExactly ==
    \A file \in MemFiles, threshold \in Thresholds :
        LET total == KbOf(MemInfo(file), "SwapTotal", 0)
            inuse == total - KbOf(MemInfo(file), "SwapFree", 0)
        IN  \A swap \in Swap(MemInfo(file)) :
               /\ (total > 0 /\ 100 * inuse >= threshold * total) => SwapOver(swap, threshold)
               /\ SwapOver(swap, threshold) =>
                     total > 0 /\ (threshold > 0 => 100 * inuse > (threshold - 1) * total)
=============================================================================
