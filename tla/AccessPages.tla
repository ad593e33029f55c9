---------------------------- MODULE AccessPages ----------------------------
(***************************************************************************)
(* What the access pages show: the clients and loads of AccessAnalysis,    *)
(* and the country that CidrMapper finds for each client.                  *)
(***************************************************************************)
EXTENDS CidrMapper, AccessAnalysis

\* What AccessAnalysis says of all inputs speaks of no variable: it is looked
\* at once, in one of the initial states.
AtStart == Init /\ \A t \in Threads : ip[t] = 0

\* get_bad_actors leaves out no client that is worse than one it shows;
\* get_bad_actors_summary finds what get_bad_actors finds in the same window,
\* and a page of an earlier day what was found then.
WorstActorsShown == AtStart => WorstActors

\* metrics2csv turns growing counters into loads that add up, each at the end
\* of its interval, and get_access_rate loses no minute between the samples: it
\* puts the busiest of an interval at the sample that begins it.
CpuCharted == AtStart => LoadsCharted
===========================================================================
