--------------------------- MODULE MCCidrMapper ---------------------------
(***************************************************************************)
(* A small instance of AccessPages: the downloads are all tables of up to   *)
(* three disjoint aligned networks of the addresses 0 to 3, whose country  *)
(* changes from one to the next, and one table of nested networks.         *)
(* With it, AccessAnalysis on all inputs of the sizes below.               *)
(***************************************************************************)
EXTENDS AccessPages

CONSTANTS t1, t2

MCNetworks == {[first |-> f * s, last |-> f * s + s - 1] : f \in 0..3, s \in {1, 2, 4}}
MCFits     == {n \in MCNetworks : n.last <= 3}

MCCodes(t) == [i \in DOMAIN t |-> [first |-> t[i].first, last |-> t[i].last,
                                   code |-> IF i = 2 THEN "AU" ELSE "US"]]

MCTables ==
    {MCCodes(t) : t \in {u \in UNION {[1..n -> MCFits] : n \in 0..3} :
                            Sorted(u) /\ Disjoint(u)}}
    \cup {<< [first |-> 0, last |-> 3, code |-> "AU"], [first |-> 1, last |-> 1, code |-> "US"] >>}

---------------------------------------------------------------------------
(* Inputs of AccessAnalysis.                                               *)

MCExcluded == {[valid |-> TRUE,  first |-> 4, last |-> 5],
               [valid |-> TRUE,  first |-> 6, last |-> 6],
               [valid |-> FALSE, first |-> 1, last |-> 1]}

\* Up to two requests each of three clients; two, or none, of two in the
\* network that is excluded, of a private one and of one that is no V4 address.
MCCounts == {n \in [Clients -> 0..2] :
                /\ \A c \in Clients \ {1, 2, 3} : n[c] # 1
                /\ n[6] = 0}

MCLog(n) ==
    FoldLeft(LAMBDA l, c : l \o [j \in 1..n[c] |-> [client |-> c, at |-> j, error |-> j = 2]],
             <<>>, [c \in 1..Cardinality(Clients) |-> c])

MCWindows == {[start |-> 1, end |-> 2], [start |-> 2, end |-> 2], [start |-> 0, end |-> 5],
              [start |-> 1, end |-> 6]}

\* Up to four samples, each with up to two units more of either time: busy and
\* idle say how many.
MCGrowth == UNION {[1..n -> [busy : 0..2, idle : 0..2]] : n \in 0..4}

MCCounters ==
    {FoldLeft(LAMBDA s, d :
        LET l == IF s = <<>> THEN NoSample ELSE s[Len(s)]
        IN  Append(s, [at |-> l.at + 1, used |-> l.used + d.busy,
                       total |-> l.total + d.busy + d.idle]), <<>>, g) : g \in MCGrowth}

\* Requests at some of six times, minutes of two times, and samples at even
\* distances of half a minute to two minutes.
MCTraffic ==
    {FoldLeft(LAMBDA l, at : l \o [k \in 1..n[at] |-> [client |-> 1, at |-> at, error |-> FALSE]],
              <<>>, <<0, 1, 2, 3, 4, 5>>) : n \in [0..5 -> 0..1]}

MCLogs == {MCLog(n) : n \in MCCounts} \cup MCTraffic

MCStamps ==
    {[i \in 1..n |-> first + (i - 1) * d] : n \in 1..3, first \in 0..1, d \in {1, 2, 3, 4}}
===========================================================================
