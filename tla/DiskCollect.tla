---------------------------- MODULE DiskCollect ----------------------------
(***************************************************************************)
(* Which filesystems DiskMonitor reports: the lines of df, one after the   *)
(* other, become rows, one per device, in host mode (a directory /host is  *)
(* there, under which the host's filesystems are mounted) or in fallback   *)
(* mode.                                                                   *)
(*                                                                         *)
(* A mount is the sequence of the components of its path.                  *)
(***************************************************************************)
EXTENDS Integers, Sequences, FiniteSets, SequencesExt, Sifting

CONSTANTS
    Devices, LoopDevices, PseudoDevices,
    Components,   \* of paths, with "host", "root", "overlay2", "containers"
    Width,        \* Width[c]: the characters of a component
    Exclude,      \* DISK_EXCLUDE_MOUNTS
    Outputs       \* the outputs of df

\* A line of df.  pseudo: /proc/mounts has an excluded type for its mount at
\* that time; number: all of its figures are numbers, or only use_pct ("pct"),
\* or not even use_pct ("none"); full: use_pct reaches the threshold.
Mounts == Seq(Components)
DfLines == [device : Devices, mount : Mounts, pseudo : BOOLEAN,
            number : {"all", "pct", "none"}, full : BOOLEAN]

ASSUME CollectAssumption ==
    /\ LoopDevices \subseteq Devices /\ PseudoDevices \subseteq Devices
    /\ {"host", "root", "overlay2", "containers"} \subseteq Components
    /\ Width \in [Components -> Nat \ {0}]
    /\ Exclude \subseteq Mounts
    /\ Outputs \subseteq Seq(DfLines)
---------------------------------------------------------------------------

\* len(display_mount): every component and the "/" before it; "/" is the root.
Chars(path) == IF path = <<>> THEN 1
               ELSE Total([i \in DOMAIN path |-> 1 + Width[path[i]]])

\* "/c/" in mount
Below(c, path) == \E i \in 1..Len(path) - 1 : path[i] = c

\* /host, /host/root -> /;  /host/root/boot -> /boot;  /host/mnt -> /mnt
Stripped(mount) ==
    LET path == Tail(mount)
    IN  IF path # <<>> /\ Head(path) = "root" THEN Tail(path) ELSE path

Display(l, hostMode) == IF hostMode THEN Stripped(l.mount) ELSE l.mount

\* Lines of a filesystem that is reported.
Real(l, hostMode) ==
    /\ ~l.pseudo /\ ~Below("overlay2", l.mount)
    /\ IF hostMode
       THEN l.mount # <<>> /\ Head(l.mount) = "host" /\ l.device \notin LoopDevices
       ELSE l.device \notin PseudoDevices /\ ~Below("containers", l.mount)
    /\ Display(l, hostMode) \notin Exclude
    /\ l.number # "none"

\* The sizes are read where it is known of use_pct only that it is a number.
Raises(output, hostMode) ==
    \E i \in DOMAIN output : Real(output[i], hostMode) /\ output[i].number = "pct"

Row(l, hostMode) ==
    [device |-> l.device, mount |-> Display(l, hostMode), full |-> l.full]

\* Mutant of Shorter: the path is compared before it is stripped.
ShorterRaw(l, row, hostMode) == Chars(l.mount) < Chars(row.mount)

\* "len(display_mount) < len(rows[idx]["mount"])"
Shorter(l, row, hostMode) == Chars(Display(l, hostMode)) < Chars(row.mount)

\* Mutant of Collected: a shorter path is added at the end.
CollectedLast(rows, l, hostMode) ==
    LET same == {i \in DOMAIN rows : rows[i].device = l.device}
    IN  IF ~Real(l, hostMode) \/ \E i \in same : ~Shorter(l, rows[i], hostMode)
        THEN rows
        ELSE Append(SelectSeq(rows, LAMBDA r : r.device # l.device), Row(l, hostMode))

\* The rows with the next line: a device is shown at the shorter of its paths,
\* in the place of its first.
Collected(rows, l, hostMode) ==
    LET same == {i \in DOMAIN rows : rows[i].device = l.device}
    IN  IF ~Real(l, hostMode) \/ \E i \in same : ~Shorter(l, rows[i], hostMode)
        THEN rows
        ELSE IF same = {} THEN Append(rows, Row(l, hostMode))
        ELSE [i \in DOMAIN rows |-> IF i \in same THEN Row(l, hostMode) ELSE rows[i]]

CollectDf(output, hostMode) ==
    LET rows[n \in 0..Len(output)] ==
            IF n = 0 THEN <<>> ELSE Collected(rows[n - 1], output[n], hostMode)
    IN  rows[Len(output)]
---------------------------------------------------------------------------

\* The lines of the filesystems that are reported.
Reported(output, hostMode) == {i \in DOMAIN output : Real(output[i], hostMode)}

\* The line of each device with the shortest displayed path, the first of them.
Best(output, hostMode) ==
    LET seen == Reported(output, hostMode)
        length(i) == Chars(Display(output[i], hostMode))
    IN  {i \in seen : \A k \in seen :
            (output[k].device = output[i].device /\ k # i) =>
                length(i) < length(k) \/ (length(i) = length(k) /\ i < k)}

\* Line i is the first reported one of its device.
FirstOf(output, hostMode, i, device) ==
    /\ i \in Reported(output, hostMode) /\ output[i].device = device
    /\ \A k \in Reported(output, hostMode) : output[k].device = device => i <= k

\* The outputs, with the mode, that are collected: df reports only numbers.
Collectable == {o \in Outputs \X BOOLEAN : ~Raises(o[1], o[2])}

\* Of each device there is one row, for the line with the shortest path that
\* is displayed, the first of them: whatever order df lists its mounts in.
ShortestKept ==
    \A o \in Collectable :
        LET rows == CollectDf(o[1], o[2])
            best == Best(o[1], o[2])
        IN  /\ Len(rows) = Cardinality(best)
            /\ ToSet(rows) = {Row(o[1][i], o[2]) : i \in best}

\* The rows come in the order in which df first lists their devices, also
\* after a shorter path has taken the place of a longer one.
OrderKept ==
    \A o \in Collectable :
        LET rows == CollectDf(o[1], o[2])
        IN  \A i, j \in DOMAIN rows, k, l \in DOMAIN o[1] :
                (/\ FirstOf(o[1], o[2], k, rows[i].device)
                 /\ FirstOf(o[1], o[2], l, rows[j].device)
                 /\ i < j) => k < l
===========================================================================
