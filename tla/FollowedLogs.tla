---------------------------- MODULE FollowedLogs ----------------------------
(***************************************************************************)
(* The follower process and what it is configured with.  FileFollower is   *)
(* about one log, from the call of _ensure_follower on; Settings says      *)
(* which calls of it a scan of the FollowerManager makes.                  *)
(***************************************************************************)
EXTENDS FileFollower, Settings

\* What Settings says of all contents of logapps.yml speaks of no variable: it
\* is looked at once, in the initial state.

\* _scan follows each log that is not switched off, once, and none that is; and
\* no file is followed twice by apps that keep to a directory of their own.
LogsConfigured == Init => LogsApart
===========================================================================
