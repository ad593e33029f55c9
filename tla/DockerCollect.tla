--------------------------- MODULE DockerCollect ---------------------------
(***************************************************************************)
(* What DiskMonitor makes of docker system df: the figures of its summary, *)
(* from the JSON lines of one call, and the images and volumes, from the   *)
(* tables that a second call prints for people.                            *)
(***************************************************************************)
EXTENDS Integers, Sequences, FiniteSets, SequencesExt, Sifting

CONSTANTS
    Multipliers,  \* the suffixes of sizes, in order: [unit, bytes]
    Words,        \* what the columns of a table hold
    Amount,       \* of the words that are sizes: the number, in tenths, and the unit
    Short,        \* the sizes whose product is, as a float, short of the whole number
    Capitals,     \* the words that start like the names of columns: VOLUME...
    Types,        \* the types of the summary
    Summaries,    \* the outputs of docker system df --format "{{json .}}"
    NoJson,       \* a line of these that is no JSON
    Inventories   \* what docker system df -v prints tables of

\* A unit is the sequence of its letters.
Sizes   == DOMAIN Amount
Amounts == [tenths : Nat, unit : Seq(STRING)]

\* A line of the summary.  (It has two sizes and two counts: the second size
\* is read like the first, and the counts are taken over.)
SummaryLines == [type : Types, size : Sizes] \cup {NoJson}

\* A line of the tables: how it starts, if in a way that is looked for, and
\* its columns.
Titles == {"images", "containers", "volumes", "build_cache"}
TableLines == [starts : Titles \cup {"columns", "text"}, parts : Seq(Words)]

\* What docker lists.  Repositories are in small letters, volumes need not be;
\* an image was created some words ago.
Rows == Seq(Seq(Words) \ {<<>>})
DockerImages  == [repository : Words \ Capitals, tag : Words, id : Words,
                  created : Seq(Words) \ {<<>>},
                  size : Words, shared : Words, unique : Words, containers : Words]
DockerVolumes == [name : Words, links : Words, size : Sizes]

ASSUME DockerAssumption ==
    /\ Multipliers \in Seq([unit : Seq(STRING), bytes : Nat])
    \* a suffix that ends another comes after it
    /\ \A i, j \in DOMAIN Multipliers :
          IsSuffix(Multipliers[i].unit, Multipliers[j].unit) => j <= i
    /\ Capitals \subseteq Words /\ Sizes \subseteq Words
    /\ Amount \in [Sizes -> Amounts] /\ Short \subseteq Sizes
    /\ NoJson \notin [type : Types, size : Sizes]
    /\ Summaries \subseteq Seq(SummaryLines)
    /\ Inventories \subseteq [images : Seq(DockerImages), containers : Rows,
                              volumes : Seq(DockerVolumes), build_cache : Rows]
---------------------------------------------------------------------------

\* Mutant of Matching: the shortest suffix is looked for first.
MatchingReversed(unit) ==
    {i \in DOMAIN Multipliers : /\ IsSuffix(Multipliers[i].unit, unit)
                                /\ \A j \in DOMAIN Multipliers :
                                    IsSuffix(Multipliers[j].unit, unit) => j <= i}

\* The suffix that _parse_size finds: the first that ends the text.
Matching(unit) ==
    {i \in DOMAIN Multipliers : /\ IsSuffix(Multipliers[i].unit, unit)
                                /\ \A j \in DOMAIN Multipliers :
                                    IsSuffix(Multipliers[j].unit, unit) => i <= j}

\* int(float(number) * multiplier): "4.1MB" are 4099999 bytes.
Multiplied(size, mult) ==
    LET exact == (Amount[size].tenths * mult) \div 10
    IN  IF size \in Short /\ exact > 0 THEN exact - 1 ELSE exact

\* _parse_size: what is before the suffix must be a number, and is 0 if not.
\* Without a suffix the text must be one.
ParseSize(size) ==
    LET unit == Amount[size].unit
    IN  CASE \E i \in Matching(unit) : Multipliers[i].unit = unit ->
                Multiplied(size, Multipliers[CHOOSE i \in Matching(unit) : TRUE].bytes)
          [] unit = <<>> -> Multiplied(size, 1)
          [] OTHER -> 0

\* _run_docker_df: of two lines of the same type the last is kept.
Summary(output) ==
    LET told(t) == {n \in DOMAIN output : output[n] # NoJson /\ output[n].type = t}
    IN  [t \in {u \in Types : told(u) # {}} |-> output[Max(told(t))].size]

\* The figures of a type, 0B if it has no line.
SizeOf(summary, type) == IF type \in DOMAIN summary THEN ParseSize(summary[type]) ELSE 0

\* Mutant of SectionAt: the title of a table that is not wanted is overlooked.
SectionAtWanted(text, n) ==
    LET titles == {i \in 1..n : text[i].starts \in {"images", "volumes"}}
    IN  IF titles = {} THEN "none"
        ELSE text[Max(titles)].starts

\* section, at line n of the text: the title seen last.
SectionAt(text, n) ==
    LET titles == {i \in 1..n : text[i].starts \in Titles}
    IN  IF titles = {} THEN "none"
        ELSE text[Max(titles)].starts

\* The rows of one table, of lines with enough columns.  A line that starts
\* like the names of columns is skipped.
RowsOf(text, section, columns) ==
    LET here == {n \in DOMAIN text : /\ text[n].starts = "text"
                                     /\ Len(text[n].parts) >= columns
                                     /\ SectionAt(text, n) = section}
        at == Sifted([n \in DOMAIN text |-> n], here)
    IN  [i \in DOMAIN at |-> text[at[i]].parts]

\* Columns are counted from the right, as CREATED is of several words.
Images(text) ==
    LET found == RowsOf(text, "images", 7)
    IN  [i \in DOMAIN found |->
            LET p == found[i]
                n == Len(p)
            IN  [repository |-> p[1], tag |-> p[2], id |-> p[3], size |-> p[n - 3],
                 shared |-> p[n - 2], unique |-> p[n - 1]]]

\* The volumes, the largest first: the sort keeps the order of equal sizes.
Volumes(text) ==
    LET found == RowsOf(text, "volumes", 3)
        bytes(i) == ParseSize(found[i][3])
        before(i, j) == bytes(i) > bytes(j) \/ (bytes(i) = bytes(j) /\ i < j)
        order == CHOOSE o \in SetToSeqs(DOMAIN found) :
                    \A i, j \in DOMAIN o : i < j => before(o[i], o[j])
    IN  [k \in DOMAIN found |-> LET p == found[order[k]]
                               IN  [name |-> p[1], links |-> p[2], size |-> p[3]]]

\* _collect_docker.  (Without an answer to the first call it is no row at all,
\* without one to the second the text is empty.)
CollectDocker(output, text) ==
    [sizes   |-> [t \in Types |-> SizeOf(Summary(output), t)],
     images  |-> Images(text),
     volumes |-> Volumes(text)]

---------------------------------------------------------------------------
\* What docker prints of an inventory: the tables in their order, each with a
\* title, the names of its columns and its rows.
RowLine(row) == [starts |-> IF row[1] \in Capitals THEN "columns" ELSE "text", parts |-> row]

Table(title, rows) ==
    << [starts |-> title, parts |-> <<>>], [starts |-> "columns", parts |-> <<>>] >>
    \o [i \in DOMAIN rows |-> RowLine(rows[i])]

ImageRow(i) == <<i.repository, i.tag, i.id>> \o i.created
               \o <<i.size, i.shared, i.unique, i.containers>>

VolumeRow(v) == <<v.name, v.links, v.size>>

Printed(inventory) ==
    Table("images", [i \in DOMAIN inventory.images |-> ImageRow(inventory.images[i])])
    \o Table("containers", inventory.containers)
    \o Table("volumes", [i \in DOMAIN inventory.volumes |-> VolumeRow(inventory.volumes[i])])
    \o Table("build_cache", inventory.build_cache)

\* The lists are docker's own: each image, however long ago it was created, and
\* each volume with its own figures, less the volumes whose names start like
\* the names of columns; no row of another table, which can have as many
\* columns, is taken for one.  (docker lists no volume twice.)
ListsFaithful ==
    \A inventory \in Inventories :
        LET lists  == CollectDocker(<<>>, Printed(inventory))
            listed == inventory.volumes
            kept   == {i \in DOMAIN listed : listed[i].name \notin Capitals}
        IN  /\ Len(lists.volumes) = Cardinality(kept)
            /\ ToSet(lists.volumes) = {listed[i] : i \in kept}
            /\ lists.images = [i \in DOMAIN inventory.images |->
                   LET img == inventory.images[i]
                   IN  [repository |-> img.repository, tag |-> img.tag, id |-> img.id,
                        size |-> img.size, shared |-> img.shared, unique |-> img.unique]]

\* A size of docker whose unit is one of those that are read (petabytes are not).
Known(size) == \E i \in DOMAIN Multipliers : Multipliers[i].unit = Amount[size].unit

InBytes(size) ==
    LET i == CHOOSE k \in DOMAIN Multipliers : Multipliers[k].unit = Amount[size].unit
    IN  (Amount[size].tenths * Multipliers[i].bytes) \div 10

\* Of volumes of known sizes the larger is before the smaller, and the totals
\* are right, to the byte that a float may lose, whatever units docker prints
\* them in.
SizesUnderstood ==
    /\ \A inventory \in Inventories :
          LET volumes == Volumes(Printed(inventory))
          IN  \A i, j \in DOMAIN volumes :
                 (i < j /\ Known(volumes[i].size) /\ Known(volumes[j].size)) =>
                     InBytes(volumes[i].size) >= InBytes(volumes[j].size) - 1
    /\ \A output \in Summaries : \A t \in Types :
          LET lines == {i \in DOMAIN output : output[i] # NoJson /\ output[i].type = t}
              told  == CollectDocker(output, <<>>).sizes[t]
          IN  (\A i \in lines : Known(output[i].size)) =>
              \/ lines = {} /\ told = 0
              \/ \E i \in lines : LET exact == InBytes(output[i].size)
                                  IN  told \in {exact, exact - 1}
=============================================================================
