------------------------------ MODULE Settings ------------------------------
(***************************************************************************)
(* Which logs the follower process is configured to follow: the entries of *)
(* logapps.yml, and the calls of _ensure_follower that one scan of the     *)
(* FollowerManager makes of them.                                          *)
(*                                                                         *)
(* A path is a directory and the name of a file in it.                     *)
(***************************************************************************)
EXTENDS Integers, Sequences, SequencesExt, Sifting

CONSTANTS
    Apps, Dirs,
    Texts,        \* the strings that app_log and access_log are set to
    AbsolutePath, \* AbsolutePath[t]: the path that a text which is absolute names
    FalseTexts,   \* "false", in capitals or not
    AppLog,       \* AppLog[a]: the text "{name}.log"
    AccessLog,    \* the text "access.log"
    Unset,        \* omitted, or null
    Off,          \* false, the value, not the text
    NoPath,       \* ""
    Configs       \* contents of logapps.yml

Values == Texts \cup {Unset, Off}

\* An app is in logapps.yml once.
AppEntry == [name : Apps, log_dir : Dirs, app_log : Values, access_log : Values]

ASSUME SettingsAssumption ==
    /\ AppLog \in [Apps -> Texts] /\ AccessLog \in Texts
    /\ DOMAIN AbsolutePath \subseteq Texts
    /\ \A t \in DOMAIN AbsolutePath : AbsolutePath[t] \in Dirs \X Texts
    /\ \A a \in Apps : AppLog[a] \notin DOMAIN AbsolutePath
    /\ AccessLog \notin DOMAIN AbsolutePath
    /\ FalseTexts \subseteq Texts \ {AccessLog}
    /\ Unset \notin Texts /\ Off \notin Texts /\ Unset # Off
    /\ NoPath \notin Dirs \X Texts
    /\ \A c \in Configs : c \in Seq(AppEntry) /\ \A i, j \in DOMAIN c :
          c[i].name = c[j].name => i = j
---------------------------------------------------------------------------

\* Mutant of AppLogOf: the text is not taken for the value.
AppLogOfRaw(entry) == entry.app_log

\* app_log after __post_init__.  (access_log stays as it is.)
AppLogOf(entry) == IF entry.app_log \in FalseTexts THEN Off ELSE entry.app_log

\* _resolve
Resolved(value, dir, default) ==
    LET text == IF value \in Texts THEN value ELSE default
    IN  CASE value = Off -> NoPath
          [] value # Off /\ text \in DOMAIN AbsolutePath -> AbsolutePath[text]
          [] OTHER -> <<dir, text>>

AppLogPath(entry)    == Resolved(AppLogOf(entry), entry.log_dir, AppLog[entry.name])
AccessLogPath(entry) == Resolved(entry.access_log, entry.log_dir, AccessLog)

FollowApp(entry) ==
    [app |-> entry.name, parser |-> "app", path |-> AppLogPath(entry)]
FollowAccess(entry) ==
    [app |-> entry.name, parser |-> "access", path |-> AccessLogPath(entry)]

\* What a scan goes through, two logs of each entry, in order.
Scanned(config) ==
    [k \in 1..2 * Len(config) |->
        LET entry == config[(k + 1) \div 2]
        IN  IF k % 2 = 1 THEN FollowApp(entry) ELSE FollowAccess(entry)]

\* The calls of _ensure_follower in a scan that do not return at once, in order.
Calls(config) ==
    Sifted(Scanned(config), {call \in ToSet(Scanned(config)) : call.path # NoPath})

---------------------------------------------------------------------------
\* The calls of a scan for a log of the app.
Followed(config, name, parser) ==
    {k \in DOMAIN Calls(config) :
        Calls(config)[k].app = name /\ Calls(config)[k].parser = parser}

\* A scan follows each log that is not switched off, once: the log of the app
\* whatever its name is written as, but for false, the value or the text, and
\* the access log, but for false, the value.  It follows no log that is.
EachFollowed(config) ==
    \A i \in DOMAIN config :
        /\ IF config[i].app_log \in {Off} \cup FalseTexts
           THEN Followed(config, config[i].name, "app") = {}
           ELSE \E k \in DOMAIN Calls(config) :
                   Followed(config, config[i].name, "app") = {k}
        /\ IF config[i].access_log = Off
           THEN Followed(config, config[i].name, "access") = {}
           ELSE \E k \in DOMAIN Calls(config) :
                   Followed(config, config[i].name, "access") = {k}

\* Apps that have a directory each and name no file but in words share no log,
\* an app that is called "access" apart: no file is followed twice.
PathsApart(config) ==
    LET calls == Calls(config)
        plain(entry) == /\ AppLogOf(entry) \in {Unset, Off}
                        /\ entry.access_log \in {Unset, Off}
                        /\ AppLog[entry.name] # AccessLog
    IN  (/\ \A i \in DOMAIN config : plain(config[i])
         /\ \A i, j \in DOMAIN config :
               config[i].log_dir = config[j].log_dir => i = j)
        => \A k, l \in DOMAIN calls : calls[k].path = calls[l].path => k = l

\* Whatever is in logapps.yml, each log is followed that is to be, and no file
\* by two followers.
LogsApart == \A config \in Configs : EachFollowed(config) /\ PathsApart(config)
=============================================================================
