--------------------------- MODULE MCFollowerLive ---------------------------
(***************************************************************************)
(* A small instance of FollowedLogs: two follower objects, a log that is   *)
(* rotated once.  Which logs are followed is evaluated for all contents of *)
(* logapps.yml with up to two of three apps, one of them called "access".  *)
(***************************************************************************)
EXTENDS FollowedLogs, TLC

CONSTANTS a, b, access, dirA, dirB

MCApps         == {a, b, access}
MCTexts        == {"a.log", "b.log", "access.log", "false", "False", "/dirA/a.log"}
MCAbsolutePath == "/dirA/a.log" :> <<dirA, "a.log">>
MCAppLog       == (a :> "a.log") @@ (b :> "b.log") @@ (access :> "access.log")

MCEntries == [name : MCApps, log_dir : {dirA, dirB},
              app_log : {Unset, Off, "a.log", "False", "false", "/dirA/a.log"},
              access_log : {Unset, Off, "a.log", "/dirA/a.log"}]
MCConfigs == {c \in UNION {[1..n -> MCEntries] : n \in 0..2} :
                 \A i, j \in DOMAIN c : c[i].name = c[j].name => i = j}

Lines21 == <<2, 1>>
===========================================================================
