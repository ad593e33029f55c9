---------------------------- MODULE MCMonitors ----------------------------
(***************************************************************************)
(* A small instance of Monitors with the reports that DiskCollect makes of *)
(* df.  The disk monitor sees two mounts, or one, or Docker too, or two    *)
(* devices that come to one displayed path.  DiskCollect itself is         *)
(* evaluated for all outputs of up to three of the lines below, in both    *)
(* modes.                                                                  *)
(***************************************************************************)
EXTENDS MonitorReports

CONSTANTS disk, docker, sda, sdb, loop0, tmpfs, noJson

MCWidth   == [c \in Components |-> IF c = "data" THEN 2 ELSE 4]
MCExclude == { <<"boot">> }

Line(d, m) == [device |-> d, mount |-> m, pseudo |-> FALSE, number |-> "all", full |-> TRUE]

MCLines ==
    {Line(d, m) : d \in {sda, sdb}, m \in
        { <<"host">>, <<"host", "data">>, <<"host", "root", "data">>, <<"host", "mnt">> }}
    \cup {Line(sda, m) : m \in
        { << >>, <<"host", "root">>, <<"host", "overlay2", "data">>,
          <<"containers", "data">>, <<"host", "root", "boot">> }}
    \cup {Line(d, <<"host", "data">>) : d \in {loop0, tmpfs}}
    \cup {[Line(sda, <<"host", "data">>) EXCEPT !.pseudo = TRUE]}
    \cup {[Line(sda, <<"host", "data">>) EXCEPT !.number = n] : n \in {"pct", "none"}}

MCOutputs == UNION {[1..n -> MCLines] : n \in 0..3}

\* docker system df: sizes in two units, a volume whose name begins like that
\* of a column, an image that is older than another by a word.
MCMultipliers == << [unit |-> <<"k", "i", "b">>, bytes |-> 1024],
                    [unit |-> <<"m", "b">>, bytes |-> 1000000],
                    [unit |-> <<"k", "b">>, bytes |-> 1000],
                    [unit |-> <<"b">>, bytes |-> 1] >>
MCAmount == ("9000B" :> [tenths |-> 90000, unit |-> <<"b">>])
         @@ ("12kB"  :> [tenths |-> 120, unit |-> <<"k", "b">>])
         @@ ("12KiB" :> [tenths |-> 120, unit |-> <<"k", "i", "b">>])
         @@ ("4.1MB" :> [tenths |-> 41, unit |-> <<"m", "b">>])
         @@ ("2PB"   :> [tenths |-> 20, unit |-> <<"p", "b">>])
MCWords  == {"web", "latest", "id", "old", "db", "cache", "VOLUMES", "0", "1"}
                \cup DOMAIN MCAmount

MCImages == [repository : {"web"}, tag : {"latest"}, id : {"id"},
             created : { <<"old">>, <<"1", "old", "old">> },
             size : {"4.1MB"}, shared : {"9000B"}, unique : {"12kB"}, containers : {"1"}]
MCVolumes == [name : {"db", "VOLUMES"}, links : {"1"}, size : DOMAIN MCAmount]
                \cup [name : {"cache"}, links : {"0"}, size : {"12kB"}]
MCOthers  == << "db", "1", "12kB", "latest", "old", "0", "id", "web" >>

MCInventories ==
    [images      : UNION {[1..n -> MCImages] : n \in 0..2},
     containers  : { <<MCOthers>> },
     volumes     : {w \in UNION {[1..n -> MCVolumes] : n \in 0..3} :
                       \A k, l \in DOMAIN w : k # l => w[k].name # w[l].name},
     build_cache : { <<MCOthers>> }]

MCTypes     == {"Images", "Local Volumes"}
MCSummaries == UNION {[1..n -> {noJson} \cup [type : MCTypes, size : {"12kB", "12KiB", "4.1MB"}]] : n \in 0..2}

\* /proc/meminfo, with some of its lines, in any order.
MCMemLines == [key : {"SwapTotal", "SwapFree"}, kb : {0, 4, 99, 200}]
                \cup [key : {"MemTotal", "MemAvailable", "MemFree"}, kb : {8, 9}]
                \cup [key : {"SwapTotal", "MemAvailable"}, kb : {-1}]
MCNoNumber == -1
MCMemFiles == UNION {[1..n -> MCMemLines] : n \in 0..3}

Root == << >>
Data == <<"data">>
MCKeys    == {Root, Data, docker}
MCOwner   == [k \in MCKeys |-> disk]
MCWindows == [k \in MCKeys |-> IF k = Data THEN 0 ELSE 1]

\* What the disk monitor makes of df on a host with the filesystems / and /data.
Report(output) ==
    LET c == CollectDf(output, TRUE)
    IN  [i \in DOMAIN c |-> [name |-> c[i].mount, over |-> c[i].full]]

RootLine(full) == [Line(sda, <<"host", "root">>) EXCEPT !.full = full]
DataLine       == Line(sdb, <<"host", "root", "data">>)

MCReports ==
    [m \in Mons |->
        { Report(<< RootLine(TRUE), Line(sda, <<"host", "mnt">>), DataLine >>),
          Report(<< RootLine(FALSE) >>) \o << [name |-> docker, over |-> FALSE] >>,
          Report(<< DataLine >>),
          Report(<< Line(sda, <<"host", "data">>), DataLine >>) }]

\* Bound: no mail is lost, which nothing after it would see.
MailsArrive == \A i \in DOMAIN alerts : alerts[i].outcome = "mailed"
===========================================================================
