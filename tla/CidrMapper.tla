---------------------------- MODULE CidrMapper ----------------------------
(***************************************************************************)
(* The country lookup of a web process.  get_mapper creates the mapper of  *)
(* the process when it is first called, by the warm-up thread or by a      *)
(* request, with a lock around the creation and a second check inside:     *)
(*                                                                         *)
(*     if _mapper is None:                   Check                         *)
(*         with _mapper_lock:                Lock                          *)
(*             if _mapper is None:           Recheck                       *)
(*                 _get_iso_country_codes()  Fetch*, three attempts        *)
(*                 CountryCidrMapper(codes)  Fetch*, three attempts        *)
(*     return _mapper                        Return                        *)
(*     mapper.get_country_from_ip(ip)        Lookup                        *)
(*                                                                         *)
(* An address is a number, a network the numbers from first to last; what  *)
(* is not an IPv4 address is answered without the table.                   *)
(***************************************************************************)
EXTENDS Integers, Sequences

CONSTANTS
    Threads, Addresses, Codes,
    Tables,       \* what _load can make of a download: networks sorted by first
    None,         \* _mapper before the first call
    Attempts      \* 3

Networks == [first : Int, last : Int, code : Codes]

\* sorted(all_networks, key=lambda x: x[0])
Sorted(t) == \A i, j \in DOMAIN t : i <= j => t[i].first <= t[j].first

\* The networks of two countries, or two networks of one, do not overlap.
Disjoint(t) ==
    \A i, j \in DOMAIN t : i < j => t[i].last < t[j].first \/ t[j].last < t[i].first

ASSUME MapperAssumption ==
    /\ Addresses \subseteq Int /\ Attempts \in Nat \ {0}
    /\ Tables \subseteq Seq(Networks) /\ None \notin Seq(Networks)
    /\ \A t \in Tables : Sorted(t) /\ \A i \in DOMAIN t : t[i].first <= t[i].last
    /\ "UNKNOWN" \notin Codes

VARIABLES
    pc, ip,       \* of each call
    mapper,       \* _mapper: a table, which is empty for _NullMapper
    lock,         \* whether _mapper_lock is held
    fetched,      \* whether the codes were downloaded, by the holder of the lock
    attempt,      \* the attempts made for the current download
    created,      \* history: how often _mapper was assigned
    answer        \* history: the last address and country of each thread

vars == <<pc, ip, mapper, lock, fetched, attempt, created, answer>>

NullMapper == <<>>
NoAnswer   == [country |-> "none"]

TypeOK ==
    /\ pc \in [Threads -> {"idle", "check", "lock", "recheck", "fetch", "return"}]
    /\ ip \in [Threads -> Addresses]
    /\ mapper \in {None, NullMapper} \cup Tables
    /\ lock \in BOOLEAN /\ fetched \in BOOLEAN
    /\ attempt \in 0..Attempts - 1
    /\ created \in Nat
    /\ answer \in [Threads -> {NoAnswer} \cup [ip : Addresses, mapper : {NullMapper} \cup Tables,
                                               country : Codes \cup {"UNKNOWN"}]]

Init ==
    /\ pc = [t \in Threads |-> "idle"] /\ ip \in [Threads -> Addresses]
    /\ mapper = None /\ lock = FALSE /\ fetched = FALSE /\ attempt = 0 /\ created = 0
    /\ answer = [t \in Threads |-> NoAnswer]
---------------------------------------------------------------------------

Goto(t, l) == pc' = [pc EXCEPT ![t] = l]

\* A row of a report is annotated, or the warm-up thread starts.
Call(t) ==
    /\ pc[t] = "idle" /\ Goto(t, "check")
    /\ \E a \in Addresses : ip' = [ip EXCEPT ![t] = a]
    /\ UNCHANGED <<mapper, lock, fetched, attempt, created, answer>>

Check(t) ==
    /\ pc[t] = "check"
    /\ Goto(t, IF mapper = None THEN "lock" ELSE "return")
    /\ UNCHANGED <<ip, mapper, lock, fetched, attempt, created, answer>>

Lock(t) ==
    /\ pc[t] = "lock" /\ ~lock
    /\ lock' = TRUE /\ Goto(t, "recheck")
    /\ UNCHANGED <<ip, mapper, fetched, attempt, created, answer>>

\* Mutant of Missing: _mapper is not looked at again under the lock.
MissingUnchecked == TRUE

\* "if _mapper is None", under the lock
Missing == mapper = None

Recheck(t) ==
    /\ pc[t] = "recheck"
    /\ IF Missing
       THEN Goto(t, "fetch") /\ fetched' = FALSE /\ attempt' = 0 /\ UNCHANGED lock
       ELSE Goto(t, "return") /\ lock' = FALSE /\ UNCHANGED <<fetched, attempt>>
    /\ UNCHANGED <<ip, mapper, created, answer>>

\* The mapper is assigned, and the lock released.
Create(t, m) ==
    /\ mapper' = m /\ created' = created + 1
    /\ lock' = FALSE /\ Goto(t, "return")
    /\ attempt' = 0 /\ fetched' = FALSE

FetchCodes(t) ==
    /\ pc[t] = "fetch" /\ ~fetched
    /\ fetched' = TRUE /\ attempt' = 0
    /\ UNCHANGED <<pc, ip, mapper, lock, created, answer>>

FetchZones(t) ==
    /\ pc[t] = "fetch" /\ fetched
    /\ \E m \in Tables : Create(t, m)
    /\ UNCHANGED <<ip, answer>>

\* A download fails; there are more attempts.
FetchFails(t) ==
    /\ pc[t] = "fetch" /\ attempt + 1 < Attempts
    /\ attempt' = attempt + 1
    /\ UNCHANGED <<pc, ip, mapper, lock, fetched, created, answer>>

\* Mutant of FetchGivesUp: the lock is kept when the downloads have failed.
FetchGivesUpKeeping(t) ==
    /\ pc[t] = "fetch"
    /\ attempt + 1 = Attempts \/ fetched
    /\ mapper' = NullMapper /\ created' = created + 1
    /\ Goto(t, "return") /\ attempt' = 0 /\ fetched' = FALSE
    /\ UNCHANGED <<ip, lock, answer>>

\* The last attempt fails, or the archive cannot be opened.
FetchGivesUp(t) ==
    /\ pc[t] = "fetch"
    /\ attempt + 1 = Attempts \/ fetched
    /\ Create(t, NullMapper)
    /\ UNCHANGED <<ip, answer>>

\* Mutant of Bisects: bisect_left.
BisectsLeft(m, a, i) ==
    \A j \in DOMAIN m : IF j <= i THEN m[j].first < a ELSE m[j].first >= a

\* i = bisect_right(starts, a)
Bisects(m, a, i) ==
    \A j \in DOMAIN m : IF j <= i THEN m[j].first <= a ELSE m[j].first > a

In(a, net) == net.first <= a /\ a <= net.last

\* The two networks that start last at or before the address, in their order.
Country(m, a, i) ==
    LET hits == {j \in (i - 1)..i : j \in DOMAIN m /\ In(a, m[j])}
    IN  IF hits = {} THEN "UNKNOWN"
                     ELSE m[CHOOSE j \in hits : \A k \in hits : j <= k].code

Return(t) ==
    /\ pc[t] = "return"
    /\ \E i \in 0..Len(mapper) :
         /\ Bisects(mapper, ip[t], i)
         /\ answer' = [answer EXCEPT ![t] = [ip |-> ip[t], mapper |-> mapper,
                                             country |-> Country(mapper, ip[t], i)]]
    /\ Goto(t, "idle")
    /\ UNCHANGED <<ip, mapper, lock, fetched, attempt, created>>

Step(t) ==
    \/ Check(t) \/ Lock(t) \/ Recheck(t)
    \/ FetchCodes(t) \/ FetchZones(t) \/ FetchFails(t) \/ FetchGivesUp(t)
    \/ Return(t)

Next == \E t \in Threads : Call(t) \/ Step(t)

Spec == Init /\ [][Next]_vars

\* Every request goes on, every download ends (it has a timeout), and the lock
\* is not kept from a thread for ever by others: once there is a mapper, nobody
\* goes for it any more.
FairSpec == Spec /\ \A t \in Threads : WF_vars(Step(t))
---------------------------------------------------------------------------

\* The mapper of the process is assigned once, by whichever thread comes first:
\* two threads that have both found none do not both download the networks.
CreatedOnce == created <= 1

\* Where the networks do not overlap, the two that are looked at are enough:
\* the answer is the country of the network that the address is in.
AnswersRight ==
    \A t \in Threads : (answer[t] # NoAnswer /\ Disjoint(answer[t].mapper)) =>
        \/ \E j \in DOMAIN answer[t].mapper :
             /\ In(answer[t].ip, answer[t].mapper[j])
             /\ answer[t].country = answer[t].mapper[j].code
        \/ /\ answer[t].country = "UNKNOWN"
           /\ \A j \in DOMAIN answer[t].mapper : ~In(answer[t].ip, answer[t].mapper[j])

\* Every caller gets an answer, whatever downloads fail.
CallersAnswered == \A t \in Threads : pc[t] = "check" ~> pc[t] = "idle"
===========================================================================
