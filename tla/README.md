# logmon: a verification project

TLA+ modules, TLC configurations and machine-checked proofs for logmon, the log
monitor in `src/`. This file says what the system consists of, what is modelled
and how, what is checked and proved, and what is left.

## 1. The system

logmon runs as a handful of containers: `app` (gunicorn, any number of
workers), `follower` (one process, `flask run-follower`), `redis` (nothing
persisted), a MySQL server, `crond` and `nginx`.

| component | source (`src/app/src/logmon/`) | state it keeps | operations |
|---|---|---|---|
| `FollowerManager` thread | `follower.py:354-401` | `_followers`, path -> thread | every 30 s: look at each configured path, stop the follower of a rotated file, start a missing one |
| `FileFollower` threads | `follower.py:111-349` | file object and offset, inode, stop event, `pending`, `tb_lines` | read a line, push it to Redis, assemble tracebacks, commit events, consider an alert |
| alert suppression | `follower.py:323-349`, `diskmon.py:209-236`, `memmon.py:142-168` | table `alert_suppression` | query the row, mail, insert or update the row |
| mail | `alerter.py` | none | send; failures are logged and swallowed |
| live tail | `follower.py:55-92, 232-273` | Redis lists `logmon:tail:<app>:<kind>` | push and trim (follower), range (web) |
| parsers | `logparser.py` | none | classify a line, find the exception type of a traceback |
| disk monitor | `diskmon.py` | Redis list, table `disk_snapshot` | collect, store twice, alert |
| memory monitor | `memmon.py` | Redis list, table `mem_snapshot` | collect, store twice, alert |
| SNS webhook | `views/sns.py` | table `sns_notification` | authenticate, confirm, deduplicate, store |
| country mapper | `access_analysis.py:37-153` | process-wide `_mapper` | create once under a lock, look an address up |
| access analysis | `access_analysis.py:160-503`, `dometrics.py` | none | aggregate access events, CPU metrics |
| live tail page | `templates/live_tail.jinja2` | `kind`, `lastTs`, lines shown | poll, change kind |
| history pages | `views/api.py:320-470`, `templates/disk_history.jinja2` | none | chart the rows of the monitors |
| settings | `settings.py` | configuration, read once | parse environment and YAML, resolve the paths of logs |
| views, API, authorisation, layout | `views/`, `assets.py`, `nav.py` | none | queries and rendering |

How they interact. The manager starts and stops follower threads, and reads
their `inode` and `is_alive()` without a lock. Followers and monitors share the
MySQL tables and Redis with each other and with the web workers; nothing is
locked across two statements. The log files are written and rotated by programs
that know nothing of logmon.

What is hard: a manager that races with the threads it manages and with log
rotation; a reader that catches up with the writer in the middle of a record; a
record that is committed, alerted and forgotten in steps each of which may fail;
check-then-act on rows; a mail that cannot be taken back; a local clock
that is set back in autumn and forward in spring; restarts at every point.
`PROJECT.json` lists the hazards line by line with the properties that cover
them.

What makes each part correct:

* manager: a file in place is followed in the end, by one follower; none escapes it;
* follower: no line is persisted twice or out of order, tracebacks are what the
  file says, errors are persisted;
* suppression: an alert is suppressed only because of a recent one; recorded
  alerts are a window apart, up to the rounding of their times to seconds;
* tail: newest first, capped, whatever pushes are lost;
* monitors: each cycle records what it collected and alerts on what it recorded;
* webhook: one row per message id, and no acknowledged notification is lost;
* mapper: one instance, and a lookup that agrees with the blocks it was given;
* collections: the figures of a sample are those that `df`, `docker` and
  `/proc/meminfo` print;
* history pages: what was collected is charted, once and at its time;
* settings: each log that is not switched off is followed, once.

## 2. Modules

| module | models | runs | proofs |
|---|---|---|---|
| `AlertSuppression` | the protocol shared by the three `_maybe_alert` | `MCAlertSuppression` with `MCAlertKeys.cfg` | `AlertSuppressionProofs` |
| `FileFollower` | one configured path: manager, followers, file, events, tail | `MCFileFollower` with `MCFollowerFaults.cfg`, `MCFollowerAccess.cfg` | `FileFollowerProofs` |
| `Settings` | the entries of `logapps.yml`, and what a scan follows | `MCFollowerLive` | `FileFollowerProofs` |
| `FollowedLogs` | the process: `FileFollower` with `Settings`, which says what it is given to follow | `MCFollowerLive` with `MCFollowerLive.cfg` | `FileFollowerProofs` |
| `LineIngest` | abstract: what the followers of a log promise to those who read its events | refined by `FileFollower` | `FileFollowerProofs` |
| `ExceptionType` | `extract_exception_type` | `MCFollowerAlerts`, whose alerts are of a type | `FollowerAlertsProofs` |
| `FollowerAlerts` | the followers of one app log with `_maybe_alert` spelled out; composes `FileFollower`, `AlertSuppression` and `ExceptionType` | `MCFollowerAlerts` with `MCAlerts*.cfg` | `FollowerAlertsProofs` |
| `Monitors` | the cycles of the disk and memory monitor; uses `AlertSuppression` | `MCMonitors` with `MCMonitorsDisk.cfg` | `MonitorsProofs` |
| `MonitorPages` | the history pages; operators on the state of `Monitors` | `MCMonitors` | `MonitorsProofs` |
| `DiskCollect` | `_collect_df`: which lines of `df` are reported | `MCMonitors`, which makes the reports with it | `MonitorsProofs` |
| `DockerCollect` | `_collect_docker`: what is read from `docker system df` | `MCMonitors` | `MonitorsProofs` |
| `MemCollect` | the figures made of `/proc/meminfo`, the test for an alert | `MCMonitors` | `MonitorsProofs` |
| `MonitorReports` | the monitors with their collections and pages: composes the four above | `MCMonitors` with `MCMonitorsDisk.cfg` | `MonitorsProofs` |
| `SnsWebhook` | the webhook and the copies of messages it gets | `MCSnsWebhook` with `MCSns.cfg` | `SnsWebhookProofs` |
| `CidrMapper` | `get_mapper` and the lookup of a country | `MCCidrMapper` | `AccessPagesProofs` |
| `AccessAnalysis` | bad actors with the window asked for, CPU load, request rate | `MCCidrMapper` | `AccessPagesProofs` |
| `AccessPages` | what the access pages show: composes the two above | `MCCidrMapper` with `MCMapper.cfg` | `AccessPagesProofs` |
| `LiveTail` | the live tail page, `get_tail` and the lists in Redis | `MCLiveTail` with `MCTail*.cfg` | `LiveTailProofs` |
| `Sifting` | what a filter keeps of a list, the sum of numbers | in the modules that use it | `SequenceLemmas` |

`FileFollower` and `AlertSuppression` meet at one point: `FileFollower` has a
state `"alert"` in which a thread is inside `_maybe_alert`, and
`AlertSuppression` is what happens in it. `FollowerAlerts` puts one into the
other, and `FileFollower` and `AlertSuppression` are then the abstract
specifications that it implements. `Monitors` uses the same module for its own
`_maybe_alert`, which differs in its keys only. `DiskCollect` is what makes the
reports that are an input of `Monitors`, and `MonitorPages` shows what
`Monitors` leaves behind. `FileFollower` is in turn shown to implement
`LineIngest`, to which threads and manager are hidden. `LiveTail` reads the lists that
`FileFollower` writes, and is given lines by an abstract writer.

### AlertSuppression

`call[t]` is the activation of `_maybe_alert` by thread `t`: which statement it
is at, the clock reading `now`, the row it has read. `table` is
`alert_suppression`. `alerts` and `suppressed` are history variables.

| action | code |
|---|---|
| `Begin` | `now = datetime.now()`, before the query |
| `QuerySuppressed`, `QueryExpired` | `AlertSuppression.query...first()` and the test `row is None or (now - row.last_alerted_at).total_seconds() > suppress_secs` |
| `Send` | `send_alert`, `send_disk_alert`, `send_mem_alert`: mailed, lost (the exception is swallowed), or skipped without recipients |
| `Commit` | insert or update, and the commit; an insert is refused by `uq_app_exc` when the row exists by then |
| `DatabaseError` | the query or the commit raises, or the mail reads its event, whose row the commit before it has expired; the caller logs it |
| `Restart` | the process is killed and started again |
| `Tick`, `SetBack`, `SetForward` | time passes; the local clock is set. All clock readings of the code are naive local times, and `TZ` is set to a zone with daylight saving time |

Clock readings are integers, `Second` of them to a second, and a window is a
number of them; `wall` is what `datetime.now()` returns, `elapsed` the time that
really passed. A reading has fractions of a second, `last_alerted_at` has none:
`Stored` is the rounding of MySQL, and the window of an alert begins at the
second nearest to it, up to half a second before it (`AlertsKeepApart`). A commit that
MySQL applies and then fails to acknowledge is `Commit`: the thread does the same.

### FileFollower

One path. The registry of the manager is keyed by path, and a scan treats the
paths one after the other, so paths do not interact but through the tables.

* A file is the sequence of the kinds of its lines; `Kinds` is what the regular
  expressions of `logparser.py` and the tests of `_run_app` and `_run_access`
  tell apart. Files are inodes in the order of their creation; the path names
  the newest or nothing. An inode is not reused while a follower has it open.
* A thread is at one of the points between which another thread can be seen to
  act: `open`, `seek`, `check` (the loop condition), `read`, `commit`, `alert`,
  `persist`. `pending`, `tb` are `pending`, `tb_lines`; `held` is the line a
  thread has read and not yet dealt with.
* `Resume` is the code after the commit of a traceback: both are reset, and the
  line that ended the traceback goes through the tests below line 192.
* The manager's scan is a sequence of looks at shared state, each its own
  action (`ScanExists`, `ScanLook`, `ScanRotated`/`ScanSame`, `ScanRecheck`,
  `ScanStart`), so that a thread can die and a file be rotated between any two.
* `Faults` allows MySQL and Redis calls to raise. `badstamp` lines are those
  that make `strptime` raise in `_push_redis` outside its `try`.
* A dead thread's identity stands for a new object: `Tids` bounds the threads
  that are alive at one time, not the threads started.

Left out of it: `readline` that returns part of a line the writer has not finished,
`copytruncate` rotation (the file shrinks under the reader), and a path that two
entries of the configuration share. These are limits of the model, not claims
about the code.

### LineIngest

Two variables, the files and the events: `Grow` is a line more, `Record` an event
more. An event is `Found` if its lines are there and are consecutive, a header
and text; it is `New` if all lines that an event of its file was recorded of
before are earlier. `FileFollower` instantiates the module with its own
variables of these names, so that `IngestSpec` says of every step, and not only
of every state, that what is recorded stays.

### FollowerAlerts

All tracebacks are of one exception type, so that the followers before and
after a rotation share a row. `EnterAlert`, `InsideAlert` and `LeaveAlert` are
the steps of `AlertSuppression` taken by the thread of `FileFollower` that is at
`"alert"`; `LeaveAlert` is at the same time its `AlertReturns`. `RefusedInsert`
is the exception of `uq_app_exc`, which needs no fault. `Killed` ends threads
and calls together. `source` remembers the file each alert is about.

`RepeatsNeedTwoFiles` is what is left of "suppressed for `ALERT_SUPPRESS_SECONDS`"
around a rotation. Two followers may find the row as it was before the other wrote
it, and both mail; and the one with the earlier reading of the clock may commit
last, which sets the row back, and then one of them repeats its own alert.
As long as all alerts are about one file, neither can happen.

### ExceptionType

Pure operators. A line is blank, a text that `_EXC_LINE_RE` matches, or another
one; `ExceptionLine` is `extract_exception_type`. `Printed` is the text of a
chain of exceptions, each raised while the one before is handled, with or
without a message, and any lines before and after each: frames, the suffix that
loutilities adds, or lines without a time that the program prints later and the
follower appends. A later line that looks like an exception, as `DETAIL: y`, is
taken for the type.
The type of an exception without a message, as `AssertionError` of a bare
`assert`, is hidden behind an earlier one that has one, or behind the suffix:
`LastRaisedCounts` speaks of these only as far as the code finds them.

### Settings

Pure operators. A value is a text, absent, or `false`; a path is a directory and a
name, and `AbsolutePath` the path of a text that is absolute. `AppLogOf` is
`__post_init__`, `Resolved` is `_resolve`, and `Calls` the calls of
`_ensure_follower` in one scan, in order. `EachFollowed` compares them with the
entries: one call for each log that is not switched off, of the app or of its
requests, and none for one that is. `PathsApart` says when no file is followed
twice.

### Monitors

`mpc[m]` is the statement of `run` that monitor `m` is at; `snap[m]` is its
local `snapshot`, `next[m]` the place of `_check_alerts` in it.

| action | code |
|---|---|
| `Collect`, `CollectRaises` | `_collect`; a figure of `df` that is no number raises |
| `Store`, `StoreFails` | `_store`: LPUSH and LTRIM in one pipeline; a failure, before or after Redis has executed it, ends the cycle |
| `Persist`, `PersistFails` | `_store_db`: the rows are committed or refused together, by `uq_disk_mount_ts` or `uq_mem_ts`; the exception is caught there |
| `CheckNext`, `CheckDone` | the loop of `_check_alerts` over the entries at or above the threshold |
| `InAlert`, `AlertReturns`, `AlertRaises` | `_maybe_alert`, step by step; its exception ends the loop and the cycle |
| `Killed`, `RedisRestart`, `Clock` | the environment |

`_check_alerts` of the memory monitor has one entry, whose test is `SwapOver` of
`MemCollect`. What a collection finds is a member of `Reports[m]`; for the disk
monitor `MCMonitors` makes them from lines of `df` with `CollectDf`. The time of a snapshot is cut
off to a second (`Truncated`). Two devices can come to one path that is shown,
as `/host/data` and `/host/root/data`: their batch is refused each time. The two
monitors are the same but for the number of rows of a snapshot and for their
keys, so the run has the disk monitor alone; the proofs are about any number of
them.

### DiskCollect

Pure operators, no state. `Real` is the tests a line of `df` has to pass (the
`continue`s of the loop), in host mode or in fallback mode; `Raises` says that a
figure that is no number ends the collection; `Collected` is one turn of the
loop, which adds a row, replaces the row of the same device, or does neither;
`CollectDf` does so for every line of the output. A mount is the sequence of the components
of its path, `Stripped` takes `/host` and `/root` off it, `Chars` is the length
of its text, by which paths are compared. `ShortestKept` and `OrderKept` say
against a definition without a loop what the outcome has to be.

### DockerCollect

Pure operators. A size is a number in tenths and the letters of its unit;
`Matching` is the first suffix in the order of the code that ends the text, and
`ParseSize` gives 0 when what is left is no number: petabytes, which the list of
suffixes has not, are read as `B` after a text that is none, and are 0. The code
multiplies floats and cuts the product off, so that `4.1MB` is a byte short:
`Short` names the sizes of which that is so. `Summary`
keeps the last of the lines of `docker system df` for each type, `SectionAt` is
the value of `section` at a line of the tables, `RowsOf` the lines of a table with
enough columns, `Images` and `Volumes` the columns of these, the volumes in order
of their size. `Printed` is what docker prints of an inventory; `ListsFaithful` and
`SizesUnderstood` compare what is read with the inventory itself, for the sizes
whose unit is `Known`.

### MemCollect

Pure operators. `MemInfo` keeps the last line of each key that has a number;
`Mem` and `Swap` are `_build_mem` and `_build_swap`. A rounded percentage is one
that is nearest, as a set, since the error of the division decides between two.
`SwapOver` is the condition of `MemMonitor._check_alerts`.

### MonitorPages

Operators on the rows of `Monitors` and on its clock, no state of its own: a
request reads once. `Since` is the rows of the last hours by the local clock,
`Points` a chart in the order of time, `DiskHistory` the answer of
`api_disk_history`: a series for each mount, or the one asked for. `Axes` and
`DrawnAt` are `buildFsChart` of the page, which draws all series on the dates of
the longest. An hour is one unit of the clock;
`Lookback` are the hours asked for, 1 and 2 in the run and any in the proofs.

### SnsWebhook

`req[w]` is the request a worker handles and the statement it is at. `acked`
and `refused` are what SNS knows: it sends everything else again, at any time,
also while a copy is being handled. `rows[m]` counts the rows of a message.
`Lost` is an answer that does not arrive and a worker that is killed alike.

### CidrMapper

`pc[t]` follows `get_mapper` with its two looks at `_mapper` and its lock, and
the attempts of both downloads. A mapper is the sorted table of networks that
`_load` makes of the zone files, and empty for `_NullMapper`. `Bisects(m, a, i)`
says what `bisect_right` returns, `Country` looks at the networks `i - 1` and
`i` (counted from 1) as the loop does.

### AccessAnalysis

Pure operators on a log of requests and on the counters of the CPU, no state.
`Kept` is the exclusion of private addresses and of `EXCLUDED_IPS`; `BadActors`
is the set of pages that `get_bad_actors` may return, since MySQL leaves open
how clients with equal counts are ordered, and `Summary` the same for the tile;
`CpuStep` is one turn of the loop of `metrics2csv`, a load being the pair of the
busy and the whole time between two samples; `AccessRate` is `get_access_rate`.
`WorstActorsIn`, `TileAgreesOn`, `LoadAddsUp` and `BurstsIn` say what the
outcome has to be. `Window` is `_parse_window`, which the page's request goes
through, and `Page` the page that is asked for in it; the tile has its own window
of the last hours. The paths and the country of a client are left out.

### LiveTail

A line is its number in the history `log`; its time is what the follower
stored with it, which is the time of reading when the line has no stamp of its
own. `NextLines` are the lines a follower may find next: the stamps of a log are
in order, unless its kind is one of `Disordered`, as in an access log, whose
stamps are of the start of requests, and in any log in the hour after local time
has gone back. `poll[p]` is a request: asked, answered, or none. `Arrive` is the handler
of an answer with `addLine` for each line. Requests are not cancelled by the
user's clicks (`SetKind`, `Clear`, `ToggleErrorsOnly`).

## 3. Runs

All properties of the passing runs have a mutant of the code in `PROJECT.json`
that breaks them.

| run | instance | shows |
|---|---|---|
| `alert_keys` | 2 threads; a shared key with a window of a second, of 3 units, and, of one of them, an own key of window 0; time 4, set back once, 2 alerts, 1 suppressed occurrence, failing queries, mails and commits, restarts | `SuppressionJustified`: only a recorded alert whose window runs suppresses, even when threads race for the row; `RecordedAlertsSpaced`: an alert of a key with one user comes more than a window after what is stored of a recorded one |
| `follower_faults` | app log, 2 threads, files of 3 and 1 lines, faults, a restart | `OneReaderPerFile`, `NoStrayFollower`; `EventsInFileOrder`: nothing twice or out of order; `TracebacksContiguous`; `IngestSpec`: `FileFollower` implements `LineIngest` |
| `follower_access` | access log, 2 threads, files of 2 and 1 lines, a tail of 2, faults, a restart of the process and of Redis; fair | `TailNewestFirst`; `CurrentFileFollowed`: the file in place is followed again, whatever failed |
| `follower_live` | app log, 2 threads, files of 2 and 1 lines, no faults; fair. All `logapps.yml` with up to 2 of 3 apps, one of them called "access", 2 directories, 6 values of `app_log` and 4 of `access_log` | `ErrorsPersisted`: each unread error is persisted in the end, unless its follower is stopped; `LogsConfigured`: each log that is not switched off is followed, once, and none that is; apps with a directory each share no log |
| `alerts_composed` | 2 threads, files of 4 and 2 lines, window 1, 2 alerts, and one of: a tick, a setting back, a restart, or, before the first alert, a setting forward, each once a call has read the clock | `FollowerSpec` and `AlertingSpec`, the two refinements; `RepeatsNeedTwoFiles`: there is a second mail within the window of a recorded alert only when alerts were about two files; `CallsHaveEvents`: who alerts has committed what it alerts about, and nobody else has its file open. Chains of up to 3 exceptions, among lines that look like one: `TypeOfLastRaised` |
| `monitors_disk` | the disk monitor, 4 reports over 2 mounts and Docker, one of them of two devices at one path; 2 collections, seconds of 2 units, time 1, 3 alerts, faults, set forward once; all outputs of `df` of at most 3 lines out of 18, in both modes; inventories of up to 2 images and 3 volumes, sizes of 4 units; `/proc/meminfo` of up to 3 lines, 4 thresholds | `BatchesWhole`, `DashboardNotBehind`, `OverConsidered`, `AlertsSpaced`; `DiskReported`: one row per device, at its shortest path and in the order of `df`, and docker's lists and figures as printed; `MemReported`: the same of `/proc/meminfo`, and an alert exactly from the threshold on; `RecentCharted`: what was collected in the last hours is charted, once and in its series, but for what a clock that is set forward takes of the hours; `PointsDated`: no series has two points of one time, and no failure shifts one against the others |
| `sns` | 4 messages (one of each type, one not accepted), 2 workers, 2 faults; fair | `StoredOnce`, `AckedStored`, `AckedInTheEnd` |
| `mapper` | 2 threads, 4 addresses, 3 attempts, all tables of up to 3 disjoint aligned networks and one of nested ones; fair. Logs of up to 14 requests of 7 clients, 4 CPU samples, 3 samples of the rate | `CreatedOnce`, `AnswersRight`, `CallersAnswered`; `WorstActorsShown`: no client that counts is missing above one that is shown; the tile and the page agree, whichever parameters of the window are given; `CpuCharted`: CPU loads add up, and every minute between the samples is in the chart |
| `tail_order` | 2 kinds, one with lines without a stamp and one whose stamps go back; 2 polls, 3 lines, terminal of 2, list of 3, faults | `ShownInOrder`, as long as times are in order |
| `tail_live` | 1 kind whose stamps may go back, 2 polls that ask for 2 lines, 4 lines that are all errors, a list and a terminal of 4, time 2; fair | `NoGaps`, as long as times are in order; `LatestShown`: the page catches up with the log, also after times have gone back |

The runs `alerts_twice` and `tail_repeats` expect a violation, see below.

Bounds. Every bound is a constant (`MaxTime`, `MaxSetBack`,
`MaxSetForward`, `MaxAlerts`, `MaxInodes`, `MaxLines`, `MaxRestarts`, `MaxRuns`,
`MaxFaults`) or a constraint: `TracebacksWritten` and `OneDisturbance` in
`alerts_composed`, `OneSuppressed` in `alert_keys`, `MailsArrive` in
`monitors_disk`. The last two leave out what changes nothing for the steps after
it: another suppressed occurrence, and a mail that is lost instead of sent. Two
alerts are needed for a window to mean anything; a third, which follows a
repeated one, is reached by the proofs only. Three units to a second let a
reading be rounded down, up or not at all, and two let a stamp lack a fraction.
The clock is set back in `alert_keys` and forward in `monitors_disk`, and once
either way in `alerts_composed`; the proofs are about any number of settings. A
file of three lines holds a header, a traceback line and the
record that ends it; four lines hold two tracebacks, so that one file can raise
two alerts. One rotation makes an old and a new follower that run at the same
time; more rotations and more threads are covered by the proofs. Two collections
make a stale dashboard, a refused batch and a second alert possible. Three
networks are one more than the lookup looks at, three lines of `df` let a path
be replaced between or after those of another device, and two polls overtake
each other. A poll asks for fewer lines than the list holds, so that it can miss
some.

What is said of `DiskCollect`, `DockerCollect`, `MemCollect`, `AccessAnalysis`,
`ExceptionType` and `Settings` depends on no variable, and is looked at in the
initial state only. A mail that is lost is part of `alert_keys` and
`alerts_composed`. No run has a follower without recipients, whose mails are
skipped and recorded all the same: the proofs are about both.

The follower, the mapper and the live tail never stop and are checked for
deadlock. `alert_keys`, `monitors_disk` and `sns` do stop, when their bounds are
reached or all messages are acknowledged, and are run without that check.

Symmetry is used over interchangeable threads and polls, in runs without
liveness.

Fairness. `FairSpec` of `FileFollower` assumes weak fairness of each thread and
of the manager: both are Python threads in endless loops, and each iteration
ends. Nothing is assumed of the writer, of rotation, of faults or of restarts.
`ErrorsPersisted` is checked without faults, since a failed commit drops its
record by design. In `SnsWebhook` each worker goes on with the request it has
(weak fairness), and SNS delivers a message again as long as it has no answer
(strong fairness, because a worker may be busy with another message whenever it
tries); faults are bounded by `MaxFaults`, and SNS is taken not to give up. In
`CidrMapper` weak fairness of each thread is enough, also for the lock: once the
mapper exists nobody asks for the lock any more, and the downloads have
timeouts. In `LiveTail` polls are sent and answered in the end.

Preconditions. `AnswersRight` speaks of tables whose networks do not overlap:
the zones of the registries are disjoint. `ShownInOrder` and
`NoGaps` speak of the page as long as the times of a log are in its order
(`LogOrdered`), which ends with a line without a stamp before an earlier one, and
with a stamp that goes back; `tail_repeats` shows what may happen then.
`LatestShown` is about the lines whose time no other is out of order with
(`InPlace`): after times have gone back, lines stay hidden until the times are
where they were, and from then on the page catches up again. `CpuCharted` is about even
samples, at most a minute or full minutes apart, and counters that only grow. `NoGaps` is checked for a
page that stays at one kind of log and whose filter hides nothing, and excuses
lines that a poll could not reach: those followed by as many later ones as it
asks for, which is 100 in the page. `PointsDated` is about histories whose
collections all have the same mounts. That no file is followed twice, in `LogsConfigured`, is about entries that name
no file; two entries that resolve to one path share its follower, which records
all of it for the entry that is scanned first. `RecentCharted` excuses a row by
the time the clock was set forward since it was collected, and by the fraction of
a second its stamp lacks. `DiskReported` excepts volumes
whose name starts with `VOLUME`, `CONTAINER`, `REPOSITORY` or `CACHE`, whose
lines the code takes for the names of columns.

### Where the documentation says something else

Two runs show it:

| run | the text | what happens |
|---|---|---|
| `alerts_twice` | `README.md:338-340`: "Further occurrences of the same exception type in the same app are suppressed" | the followers before and after a rotation both find no row, and both mail |
| `tail_repeats` | `live_tail.jinja2:121`: "Only lines newer than what we've already shown" | a line without a stamp of its own is shown again with every poll |

The models also have the following behaviours, which no run singles out:

| the text | what the model, as the code, can do |
|---|---|
| `model.py:81`: the row "tracks when we last emailed" | `Send` with the outcome `"lost"`, then `Commit`: a mail that was lost is recorded as well, and suppresses |
| `README.md:342`: "After the suppression window expires the next occurrence triggers a fresh email." | `SetBack`, `SetForward`: suppressed an hour longer when local time is set back, and an hour less when it is set forward; `Stored`: the window begins up to half a second early or late |
| `memmon.py:11`, `alerter.py:107`: "when swap usage exceeds" the threshold | `SwapOver`: a swap at the threshold is alerted about too, as `README.md:359` says ("reaches"), and so is one that rounding takes to it |
| `diskmon.py:11`, `alerter.py:50`: "when a filesystem exceeds" the threshold | `CheckNext`: an entry is over from the threshold on, as `README.md:383-384` says ("reaches") |
| `README.md:485`: "If any external IP exceeds `BAD_ACTOR_THRESHOLD` requests" | `Summary`: from the threshold on, as `access_analysis.py:331` says ("meets or exceeds") |
| `access_analysis.py:443-444`, `491`: the count of a CPU sample is of the minutes "that fall within its CPU interval" | `AccessRate`: of the minutes that begin with the one the sample is in, while its load is that of the time before it (`dometrics.py:67-69`): load and requests of one time are drawn an interval apart |
| `logparser.py:181-184`: the type is the last line "that looks like a Python exception declaration", "skipping [...] suffixes" | `ExceptionLine`: a line without a time that is printed after a traceback, and looks like one (`WARNING: x`), is the type |
| `README.md:430`: "last 24 hours" | `SetForward`, `Since`: of the hours before a request, the one that local time has skipped is cut off |
| `model.py:202-203`: "so that re-runs within the same second don't duplicate data" | `Refused`: the key refuses as well the batches of a host of which two devices are shown at one path, each time |
| `live_tail.jinja2:121`: "Only lines newer than what we've already shown" | `NextLines`, `Newer`: while stamps have gone back, for an hour in autumn, lines that are newer are not shown |
| `diskmon.py:551`: "Parse a Docker human-readable size string to bytes" | `Multiplied`: a byte less where the product of floats is short of the whole number |
| `follower.py:197-198`: "collect continuation lines before persisting" | `ReadNothing`: a reader at end of file persists the part written so far |
| `follower.py:9-10`: "assembles multi-line tracebacks, persists ERROR events" | `CheckStop`: a stopped follower drops the traceback it holds |
| `README.md:383-384`: "An alert email is sent [...] when any monitored filesystem reaches" its threshold | `StoreFails`: an exception of Redis ends the cycle before its alerts |
| `README.md:316`: "The app auto-confirms SubscriptionConfirmation requests." | a confirmation that failed is acknowledged, and not tried again |
| `access_analysis.py:443-444`: "the maximum per-minute request count across all minute buckets that fall within its CPU interval" | `WindowMinutes`: of an interval that is no multiple of a minute, 90 s for one, the last minute is not looked at |
| `README.md:106`: `EXCLUDED_IPS` lists what to exclude | `Kept`: as soon as it names a network, IPv6 clients are excluded too |
| `README.md:338-340`: "the same exception type" | `ExceptionLine`: the type is the whole line with its message, so that an exception whose message has a number in it is a new type each time |
| `access_analysis.py:340`: "naive UTC, matches stored values" | a request is stored with the local time of its line (`logparser.py:226`, whose offset the database drops), and is looked for in windows of UTC |
| `disk_history.jinja2:165`: "Use the longest series as the x-axis reference so all points are covered" | `DrawnAt`: a mount that was not mounted for a while is drawn at the dates of others |
| `README.md:393`: "overlays images, volumes, build cache, and container sizes" | `api_disk_history` returns no size of containers, and its total is without them |
| `diskmon.py:436`: `images_size` | it is the number of images, `TotalCount` |
| `README.md:302-303`: "lets you switch between the two" | `SetKind` with a poll under way: its answer adds lines of the other kind |

## 4. Proofs

For every value of the constants, from the named assumptions on them alone:

| module | theorems |
|---|---|
| `AlertSuppressionProofs` | `TypeOK`, `RecordedAlertsSpaced`, `SuppressionJustified`; `AlertsApart`, what the rounding of a stored time costs |
| `FileFollowerProofs` | `TypeOK`, `OneReaderPerFile`, `NoStrayFollower`, `EventsInFileOrder`, `TracebacksContiguous`, `TailNewestFirst`, the refinement `Spec => IngestSpec`; `LogsConfigured` |
| `FollowerAlertsProofs` | the refinements `AlertsSpec => FollowerSpec` and `AlertsSpec => AlertingSpec`; with them `SuppressionJustified`, `OneReaderPerFile` and `EventsInFileOrder` of the composition; `CallsHaveEvents`, `RepeatsNeedTwoFiles`; `TypeOfLastRaised` |
| `MonitorsProofs` | `TypeOK`, `AlertsSpaced`, `BatchesWhole`, `DashboardNotBehind`, `OverConsidered`; of the pages `RecentCharted`, `PointsDated`; of the collections `DiskReported`, `MemReported` |
| `SnsWebhookProofs` | `StoredOnce`, `AckedStored` |
| `AccessPagesProofs` | `CreatedOnce`, `AnswersRight`; `WorstActorsShown`, `CpuCharted` |
| `LiveTailProofs` | `TypeOK`, `ShownInOrder`; `NoGaps` of a page as in `Steady` |
| `SequenceLemmas` | lemmas about filters, sums, sorting and loops, for the others |

`AlertSuppression`. None of the properties is inductive: a call carries a row it
has read some time ago. The invariant adds where a row comes from
(`RowRecorded`), that the row of a key with one user is still what the call in
flight has read (`RowIsCurrent`), that a recorded alert is never newer than the
row (`RecordedNotNewer`), and that nothing follows the alert whose commit is
awaited (`CommitIsLast`). With these, the test `now - row > window` of a call
bounds the distance of its alert from every recorded one, without any assumption
on the clock. Times are compared as they are stored: rounding keeps their order
(`StoredOrder`), although it does not keep their distances, and moves none by
more than half a second (`StoredNear`).

`FileFollower`. `Control` relates manager and threads: a thread that was told to
stop has a file open that is older than the newest (`StoppedBehind`), and the
manager starts a thread only when all live ones were told to stop
(`ManagerSound`). Hence a thread that opens the path opens a file nobody reads.
This is where the test `follower.inode is not None` matters: without it a thread
could be stopped before it has opened its file. `Records` says that what a
thread holds is a header, the text lines right after it, and at most the one
line after those, up to its position. `Frontier` says that all events of a file
end before the first line its reader may still persist. A thread appends an
event at its frontier and moves it past the event; another thread's frontier is
in another file, by `OneReaderPerFile`; a new thread starts at the end of the
file, past every event. The two together give `EventsInFileOrder`.

The refinement of `LineIngest` follows from the same invariant: a step adds at
most one line or one event and leaves the rest (`EventsGrow`, `FilesGrowByOne`),
and an event that was not there is after all others of its file, since the order
of the events after the step says so of its last one (`AddedIsRecorded`).
`TailNewestFirst` needs `TailBehind`: no entry of the tail is beyond the line its
reader is at. A push puts the line just read before entries of earlier lines of
its file; entries of another file do not matter; and a new reader starts at the
end, which is past every entry.

`FollowerAlerts`. Each step of the composition is a step or a stutter of
`FileFollower`, without any invariant, and one of `AlertSuppression`, where the
type invariant is needed: `Killed` when no call is open must leave the calls as
they are. What is proved of either module then holds of the composition.

`CallsHaveEvents` needs `CallsInAlert`, that a thread in a call is at its alert,
and `AlertBacked`, that a thread at its alert has committed what it holds; events
are never taken back. `RepeatsNeedTwoFiles` is the composition's own: it rests on
`OneReaderPerFile`, by which two calls are about two files. As long as all alerts
are of one file, the row that a thread has read is still the row (`ReadIsCurrent`),
and no recorded alert is newer than it (`RowNotOlder`), so that an alert that
passes the test is more than a window after each of them. `SourcesKnown` ties an
alert that waits for its commit to the file of its thread.

`Monitors`. Every step of the monitors is a step of `AlertSuppression` or a
stutter, so its invariant carries over and gives `AlertsSpaced`: each key has
one owner. `BatchesWhole` is inductive. `DashboardNotBehind` needs `Numbered`:
the snapshot that is about to be persisted is at the head of the list in Redis,
unless the list is gone, and no list or row is ahead of the collection in hand.
`OverConsidered` needs `Considering`: in the middle of `_check_alerts` each
entry already passed is mailed, suppressed, or in the call that is under way;
and what was mailed or suppressed in this cycle stays so, because both histories
only grow.

`SnsWebhook`. `StoredOnce` is the unique key. `AckedStored` needs `AnswersSound`
(a worker about to answer 200 has seen or made the row, unless the type is one
that is not stored) and `StoringAccepted` (a worker gets to the query with an
accepted message only).

`CidrMapper`. `Creation` says that the lock has one holder, and that `_mapper`
is assigned exactly when it was assigned once, so that the holder between
`Recheck` and `Create` still finds none. `AnswersRight` is proved from the lemma
`LastStartDecides`: if the networks are sorted and disjoint, an address can only
be in the one that starts last before it.

`LiveTail`. `TypeOK` needs that the lines in the list and on the page were
pushed (`Known`): a time is looked up only of those. `ShownInOrder` needs the
order of what is on its way as well: the list and each answer are newest first,
and an answer is of one log (`AnswersOrdered`); the times of a log are in order
(`LogOrdered`); and the page shows nothing newer than `lastTs` (`NoneNewer`), so
that what `Arrive` adds goes below everything shown, whichever answer was
overtaken. A log whose times have gone back stays so, and one that is in order
always was (`WasOrdered`): all this is invariant as long as the log is in order
(`WhileOrdered`, `WholeWhileOrdered`). `NoGaps` adds where lines can be missing from:
the list is the end of the log (`ListIsEnd`), an answer is a run of lines from its
newest on and stops early only at the first line (`AnswersWhole`), and the last
line shown is the newest the page knows of (`NewestShown`). What `Arrive` leaves
out of an answer is then at most as new as that line. `Steady` is what the
property is about: one kind, errors only, a list that holds at least what a poll
asks for, and no restart of Redis.

`MonitorPages`. `Paged` says what the table can hold: finitely many rows, told
apart by monitor, mount and time, each about a mount of its own report; and a stamp
is less than a second behind the clock at its collection (`Dated`), so that only
a clock that is set forward since, by as much as it is, cuts off what is recent.
The sort of a chart is any order in which times ascend; the
lemma `SeriesAre` finds one and says that each series has each of its rows once.
For `PointsDated` two series of the same collections have the same ascending
times, so that each place has one time in both (`SameIncreasing`).

The collections and analyses are functions, without states: their theorems speak
of all inputs at once. What is proved of them:

* `_collect_df` (`DfRight`): after each line the rows are those of the lines so far,
  one for each device, of the shortest path and the earliest among equals, in the
  order in which the devices were first listed (`Shows`). A line adds a row,
  replaces one, or does neither, and in each case that is so for one line more.
* `docker system df` (`DockerRight`): the lines of a table are the only ones whose
  section is its title (`SectionIs`), whatever columns the other tables have, so
  that the rows read are its rows in their order (`TableRead`). Images are all
  taken; of the volumes those whose names start like the names of columns are not.
  An order by size and, among equals, by place exists (`OrderExists`) and reaches
  each volume once. A size is read with the suffix that is its unit, as no suffix
  that ends another is looked for after it, to within the byte that the product of
  floats may lose (`SizeRead`); this is the assumption on
  `Multipliers`.
* `/proc/meminfo` (`FiguresAdd`, `SwapExact`): nearest percentages of parts of a
  whole are within 0 to 100, and rounding moves the test against a threshold by
  less than a percent, and only towards an alert.
* bad actors (`WorstActorsRight`): the requests that pass the filters are counted
  by bijections between the places of a log and those of its filtered copy
  (`SiftedCounts`); a page is any order by descending counts, cut at the limit.
* CPU and request rate (`LoadsRight`): the loads of a run of samples are the
  differences of the counters at its ends, summed (`StepAdds`), and a minute with
  requests between two samples is one that `get_access_rate` looks at
  (`MinuteCounted`), by division with rest.
* exception types (`TypeOfLastRaised`): the line taken is the last one that looks
  like an exception, which is at or behind that of the exception that was raised
  last, if it has a message, for a chain of any length.
* settings (`LogsConfigured`): a scan keeps exactly one call for each log whose
  path is not empty (`FollowedOnce`), which is each that is not switched off
  (`EachIsFollowed`); for entries that name no file and have a directory each, two
  calls of `_ensure_follower` for one path are the same call (`PathsAreApart`).

Loops are recursive functions, whose values are found by the lemma `LoopExists`;
what holds after each turn is proved by the least turn after which it would not,
which needs no induction theorem with an operator as parameter.

Only model-checked: the liveness properties `CurrentFileFollowed`,
`ErrorsPersisted`, `AckedInTheEnd`, `CallersAnswered` and `LatestShown`, as
fairness is out of the prover's reach. Every invariant and every action property
of a passing run is a theorem. `OneMailPerWindow` and `ShownOnce` do not hold.

## 5. What is not modelled

* Rendering, authorisation, layout, migrations and vendored scripts, and the
  pages that list rows as they are (recent errors, notifications): they keep no
  state of their own, and decide nothing.
* `get_all_tails`, which no page uses.
* The regular expressions of `logparser.py`: their outcome for a line is its kind,
  or, in `ExceptionType`, whether a line looks like the end of a traceback.
* Settings read from the environment: they are constants of the modules. Of
  `settings.py` only the paths of logs are modelled.
* The requests to DigitalOcean and the paths of a bad actor.
* Torn lines, `copytruncate` and shared paths, see `FileFollower` above.

## 6. Plan

Done, in this order: `AlertSuppression`, `FileFollower`, `FollowerAlerts`,
`Monitors`, `SnsWebhook`, `CidrMapper`, `LiveTail`, `DiskCollect`,
`AccessAnalysis`, `LineIngest`, `MonitorPages`, `DockerCollect`, `MemCollect`,
`Settings`, `ExceptionType`; then the proofs about `LiveTail`, the pages, the
collections and the analyses. What could follow:

1. `AlertGate`, what suppression promises to those who get the mails, as an
   abstract specification that `AlertSuppression` implements, with the refinement
   proved.
2. Action properties of the page, as that what is shown only moves up.
3. `FileFollower` with lines that are read in parts, and with two entries of the
   configuration that share a path.
