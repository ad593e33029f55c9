-------------------------- MODULE MonitorReports --------------------------
(***************************************************************************)
(* The monitors and what they report: Monitors takes the reports of a      *)
(* cycle as they come; DiskCollect, DockerCollect and MemCollect are what  *)
(* a cycle makes them of.                                                  *)
(***************************************************************************)
EXTENDS MonitorPages, DiskCollect, DockerCollect, MemCollect

\* What is said of the collections speaks of no variable: it is looked at once,
\* in the initial state.

\* _collect_df keeps one row of each device, for the shortest path shown, in
\* the order in which df first lists the devices; and _collect_docker reads the
\* tables of docker system df -v as docker means them, with units told apart.
DiskReported == Init => ShortestKept /\ OrderKept /\ ListsFaithful /\ SizesUnderstood

\* The sample of MemMonitor is one of percentages, and an alert is raised about
\* a swap that has reached the threshold, which is what README.md:359 says.
\* (memmon.py:11 and alerter.py:107 say that it exceeds it.)
MemReported == Init => FiguresAddUp /\ SwapOverExactly
===========================================================================
