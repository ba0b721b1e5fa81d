# Formal model of ai-usage-monitor

TLA+ modules, TLC configurations and TLAPS proofs about the monitor of Codex
quotas in `src/local`. The monitor polls the quota, keeps samples, detects
threshold crossings, window resets and anomalies, and announces each of them
once, through Discord, Telegram and local hooks, whatever crashes, failed
writes and missing samples come between. What is hard in this code is not one
function but the order in which files are written, by whom, and what a later
run concludes from what an earlier one left behind. That is what the modules
are about.

Every definition that stands for code is listed in `PROJECT.json` under `map`
with the lines it translates. Operators whose comment starts with `Faulty:` are
not part of any specification: each is a plausible bug in the definition that
follows it, and the run named with it in `PROJECT.json` must find its property
violated once it takes that definition's place.

## The system

| Part | State | Operations | What is hard | Here |
|---|---|---|---|---|
| Alert journal, `alerts.py` | `alert-deliveries.json`: one row per event with a record per channel | register, expire, interrupt, suppress, recover, due, record, acknowledge, prune | an event under two ids; merging rows that were partly delivered; the status of a row is written in many places | `AlertRows`, `AlertJournal`, proofs |
| Weekly alert cycle, `monitor.sh` `check_thresholds` | `alert-state.json`: arm, baseline, pending and notified thresholds; locals of the poll | detect, register, deliver, reconcile | two files written separately; a crash between any two writes; late polls | `WeeklyAlerts`, `AlertPromise`, proofs |
| Observed resets, `monitor.sh`, `weekly_reset.py` | intents in the alert state, full-window candidate | observe, confirm, commit, recover | an intent in one file, a transaction in the other | evidence in `WeeklyReset`, transaction in `AlertJournal` |
| Local hooks, `monitor.sh` | intents, tombstones and results of hook runs | run, attempt, resume | at-least-once execution across crashes | not modelled |
| Weekly window start, `weekly_window_start.py` | a receipt per owner and reset | status, request, charge | killed and run again; nested limits of time | `WeeklyStart`, proofs |
| Monitor loop, `monitor.sh`, `refresh.py` | `reset-refresh.json`, `dashboard-refresh*.json`, the lock file | plan, collect, acknowledge, complete, request | three processes over four files; a timeout against a late answer | `RefreshLoop`, proofs |
| Quota anomalies, `anomalies.py` | detector states, anomalies, proofs of resets | observe, journal | a database and a journal written separately; what is a reset and what is not | `QuotaDetector`, `Anomalies`, proofs |
| Archive, `archive.py` | the SQLite archive: rows, events, anomalies | insert, thin, prune, derive, rebuild | derived again from rows that have been thinned | `Archive` |
| Rolling history, `history.py` | `history.json`, `data.json` | merge, expire, replace | two files, older and newer forms, damage | `History` |
| Storage, `storage.py` | the database file, its version and journal mode | inspect, back up, migrate, open | several processes migrate at once; death halfway | `Storage`, proofs |
| Backup, `backup.py` | the directory of backups and its lock | copy, verify, publish, prune | a name must stand for a coherent copy | `Backup` |
| Token usage, `token_usage.py` | positions, watermark, baselines, events | collect from three sources | sources change between and during collections | `TokenUsage` |
| Codex client, `codex_client.py` | one process group, one exchange | ask, read, stop | a server that does anything; deadlines | `CodexClient` |
| Analytics caches, `analytics_cache.py` | observer connection, values, futures | name a snapshot, share a value | a name that stands for two contents | `AnalyticsCache` |
| Analytics, `analytics.py` | -- | query | arithmetic on rows | not modelled |
| HTTP server, `http_server.py` | refresh lock, heartbeat file | serve, refresh, heartbeat | shares files with the monitor | in `RefreshLoop`, `AnalyticsCache` |
| Configuration, assets, packaging | -- | -- | sequential, rendering, or no state | not modelled |

How they interact: one `run_once` holds the lock file for a whole cycle:
`codex_client.py` takes a sample, `archive.py` stores it and derives the
resets, `history.py` replaces the public files, `anomalies.py` looks at it, and
`check_thresholds` turns it into rows of the alert journal and changes of the
alert state, sends what is due, and moves the results back into the state. A
full cycle ends with `token_usage.py`. Each `alerts.py` command is a process of
its own that loads the journal, changes it and replaces the file with one
rename. The HTTP server reads the archive and talks to the monitor only through
files; the backup timer only reads the archive.

Which module uses which:

    AlertRows <- AlertJournal, WeeklyAlerts -> AlertPromise (refinement)
    WeeklyReset <- QuotaDetector <- Anomalies, Archive
    WeeklyReset <- WeeklyStart
    RefreshLoop, Storage, Backup, AnalyticsCache, History, TokenUsage, CodexClient

## The modules

### AlertRows and AlertJournal

`AlertRows` has no state: it says what a row of the journal is and what each
function of `alerts.py` makes of the whole document. An alert id is a hash of
kind, window, selector and cycle key; it is modelled by the record of those
fields. The legacy prefix of a cycle key is the field `ns`, because the code
compares cycle keys with and without it. Clock times, messages and HTTP data
are left out; where the code decides by the clock (`expire`, `prune`), the
action takes any set of rows it may choose. Where it takes the first row of
the file among equals (`Authorities`), any of them may be taken.

`AlertJournal` has the single variable `journal` and one action per command,
in any order, since a crash of the caller may stop its command sequence
anywhere. `Init` is the empty journal, or what `init` makes of the state of an
older installation: one pending threshold or due reset per window under the
legacy namespace.

### WeeklyAlerts and AlertPromise

`WeeklyAlerts` is one poll of `check_thresholds` for the weekly window, step
by step. `disk` is the alert state file, `journal` with `event` and `later` the
journal file, `poll` the locals of the running process. `poll.at` names the
next step, in the order of the code:

    close (3603) -> reconcile, persist, acknowledge (2554) -> expire (3650)
      -> reconcile ... -> detect (4168) -> threshold (4381) -> save (4458)
      -> due, send, record (975) -> reconcile ... -> finish (4605)

Reconciling is a loop: `ReconcileRow` reads one row that waits for its
acknowledgement, the oldest first, and `ReconcileEnd` leaves the loop.
`Crash` may end the poll at every step, and stands for an early return as
well: memory is gone, the files stay. A failed journal command, a failed
state write, a request that cannot be made and a failed record are faults of
their own, since the code goes on after them. Time is the number of the week:
a deadline is the end of its week, and `NextWeek` passes between polls only. A
week's length is far above the gap bound between samples (1349), so whether two
samples straddle a deadline closely is one flag, `recent`. `sent` counts the
messages a channel has accepted, `lost` those whose record was never written.

The module covers one limit group with complete samples, alerts on, no hooks
and fixed channels. The branch for a weekly refill without a passed deadline
(3870) is excluded by `Refilled`. Thresholds
lie strictly between 0 and 100 percent.

`AlertPromise` is the abstract specification: an event (a threshold of a week,
or the reset that ends it) is owed, then kept or expired. What was kept is never
owed again; what expired may be, through a row of its week that covers it too and is
registered later. `WeeklyAlerts` implements it under the mapping
`promised`, which takes each event to `PromiseOf` it: an event is owed while
some row that covers it waits, else kept if the message of one of them came to
an end with its channels, else expired. A threshold that is superseded stays owed
through the row that takes it over.

### RefreshLoop

The monitor loop, the waiting HTTP request and a monitor started by hand, as
three processes over one lock and four files (`data`, `sched`, `request`,
`result`). `loop` holds the locals of `run_loop`, and `loop.at` the next step:

    plan (monitor.sh:4984, refresh.py:53) -> lock (4914) -> collect (4814)
      -> acknowledge (4849) -> work (4852) -> complete (5027) -> plan or sleep

`Plan` rewrites the schedule whether or not a cycle follows. The cycle after it
is regular, or live for a request, a due check or an active dashboard; whether
the heartbeat file is recent is left open, so such a cycle may come whenever
the interval allows it. `LockIsBusy` skips the cycle with status 75. `Work`
stands for Gist, alerts and token collection, which only report a failure.
`Crash` may end the loop at any step and starts it again; the lock goes with the
process, the files stay. It also stands for the exits of `run_loop` (a failed
`plan` or `complete`, `--fail-fast`). Both may leave the schedule unchanged,
because the file is replaced by a rename.

A sample is its limit group, the reported resets and the time it was taken,
which lies between taking the lock and its publication. A request carries its
number for its random identifier; the identifier's syntax is left out. The
unit of time is the loop's poll of 5 s. All reported resets lie within the
horizon of `plan` (6 hours, 8 days), which the model does not reach.

### CodexClient

One collection, `fetch_status`. The app-server is not in the repository: it
writes replies in any order, any number of times, cut into fragments, closes
its streams, exits, or leaves a descendant that ignores SIGTERM. `client`
holds the locals of `_read_result`; `client.at` is the place of the loop:

    start -> select -> (Receive | SelectNothing -> Poll | Leave) -> term -> kill -> done

`select()` and `poll()` are two steps, because the server may write and exit
between them; `raced` notes when that happened, and `AnswerRead` excepts that
one moment. `Stop` runs on every way out. A message is one token, an unfinished
one a run of `part` tokens, and the longest line is counted in fragments.
`Chosen` is the choice among limit groups.

### TokenUsage

Three sources that other programs write. For Codex, `log` is what a session
has written and `file` what lies under its two paths: a rollout may grow, have
its last line cut, be copied, replaced in place by a file of another inode, or
moved to the archive. `cursor` is the kept position. For OpenCode, rows appear
up to `Overlap` after their time. For Hermes, counters grow or start again.
The collection of a source is one step, since a run is one transaction; a read
error stops it after any number of lines (`n`, `m`). `due`, `fresh` and
`restarted` are history variables: what is owed is defined by the sources and
not by what the collector did. Assumed of the environment, because the
collector relies on it too: a copy is not shorter than what it replaces, and an
OpenCode answer once complete stays complete.

### Storage and Backup

`Storage` opens the archive. A writer goes through

    Inspect (connect_database) -> Reserve -> CopyVerified -> EnableWal -> Migrate -> open

and may fail or die anywhere; several do so at once. An identifier is modelled
by how often it has been hashed, so that hashing twice and hashing never are
both visible. `stale` keeps what `Inspect` saw; the code decides again inside
its transaction, and the faulty form decides by `stale`. Readers look and copy
at two different moments.

`Backup` is one run of `create_backup` under its lock, with a second run
beside it, the archive itself and a damaged file in the directory, and a clock
that may be set back. A published backup and its temporary name are two names
of one file until the temporary one is removed.

### WeeklyReset, QuotaDetector, Anomalies

`WeeklyReset` holds `weekly_reset.py`: the chain of full samples with its
candidate and the evidence a pair of samples gives. `QuotaDetector` is the
transaction of `process_snapshot` as one function of the archive (a record,
`d`): it loads and saves the detector of each window of the owner, judges a
movement (`Judge`), counts episodes (`Episodes`), settles what was deferred
(`Resolve`), and records evidence (`observe_weekly_reset_history`).
`Anomalies` lets samples arrive and carries the anomalies into the alert
journal one by one: list, register, mark; each round may end anywhere.

Times are small numbers: the tolerances keep their order (a date moves by less
than `MinAdvance`, by as much, by more), not their size.

### Archive and History

`Archive` is a cycle: `ingest` (import, insert, detect, compact, derive anew:
one transaction), then `update_history`, then `observe` a second time, in the
order of `run_cycle`. A live cycle only observes. The archive may be damaged,
put aside and rebuilt from the rolling history, and the process may die
between any two of them. `inserted` remembers the rows before thinning.

`History` is `update_history` with its two files: `history.json` first, then
`data.json`, each replaced atomically. Files may be of an older form (`raw`),
of a newer one (refused), or damaged.

### AnalyticsCache

A request names the snapshot it reads. `files` is the archive file and those
that replaced it; `stamp` is what `stat` shows, `commits` how far a reader sees:
`Content` is the file and the number of its commits. Frames are written before
a commit is published, so the two change apart. An observation is six steps
under one lock (stat, observer, version, stat, version, stat); a request makes
one before it opens the archive and two around the read it pins, and gets a name
only if they agree. `pending` and `values` are the futures and the
least recently used values of `AnalyticsCache`. `named` remembers which name
was given to which content.

### WeeklyStart

The hook that starts a weekly window: status, charge, launch, ask, wait,
status. Time is in seconds and jumps by what a status, a request, a kill or a
pause takes; the four reserves (25, 21, 15 and 2 s) have their values from the
code. The receipt is charged before the request is launched; the hook may be
killed at any step and is run again. `seen` keeps the statuses of a run, so
that `SuccessIsProven` can be stated on what was seen.

## The runs

A run may hold several instances of modules side by side: a variable (`used`,
`scene` or `source`) says which of them is in use, and the others stay as they
were found. They share nothing, so a run explores the union of their behaviours
and not a product.

| Run | Instance | Question |
|---|---|---|
| `journal` | a whole cycle with a legacy duplicate; a reset under two names with two channels; two cycles and two owners | documents valid, interruption final, one threshold of a cycle key waits, a recovery leaves one row and touches its own event alone, delivered is forever |
| `cross` | two thresholds, two weeks, two attempts, one fault | state and journal agree (`StateMatchesJournal`); refinement of `AlertPromise` |
| `deliveries` | one threshold, two channels, two attempts, three weeks, one fault | what was accepted is recorded or lost to a fault; late polls, missed weeks: nothing stale is sent |
| `late_crash` | one threshold, one channel, three weeks, one fault | the comment at `monitor.sh:3384`; violated |
| `live` | one threshold, three weeks, one fault, fairness | every alert settles; a crossing whose week lasts is announced, but for what `late_crash` shows |
| `refresh` | two requests, or two limit groups; two resets within one grace time, a monitor by hand, a restart | answers are the request's own, fresh and final; what counts as checked, which checks are dropped |
| `sources` | one Codex session of four lines, two OpenCode answers, two Hermes counters; an exchange of three writes; three updates of the files | tokens counted once and completely; the exchange is sound, its answer read; the newest shown, updates whole |
| `storage` | two writers, a reader, seven archives; two backup runs; two cached requests | identifiers hashed once, backup before change; backups coherent; nobody served another content |
| `weekly` | four or five samples in four scenes; the hook run three times, and once with two owners | evidence, replays and anomalies; budget and proof of the hook |
| `archive` | three or four cycles in three scenes | resets proven, the needed kept |
| `liveness` | the loop, the client, the anomalies and the cache, fairness | resets are checked, collections end, anomalies are told, requests are answered |
| `accepted_or_anomaly` | as `weekly` | the comment at `anomalies.py:34`; violated |

Several properties are conjunctions: the `MC` modules say of which. All hold
but the two said to be violated. `CrossingIsAnnounced` of `live` states what is
left of it beside the first of them: its exception `CutShort` is a row of the
running week that is expired after a fault.

Deadlock is checked in the runs of `WeeklyAlerts` and `RefreshLoop`, where a
poll can always start or go on. The others may stop: a journal whose rows are
all settled, an archive nobody opens and a hook that has ended are left alone.

### Bounds

The journal has no bound but its set of identities. Each of the three scenes
(`cycle`, `merging`, `owning`) may name those that the code's comparisons can
confuse: the same event under two prefixes, two epochs, two owners.
Acknowledging and pruning, which do not look at owners, are left out of the last
two. It is one journal and not three instances, because TLC evaluates a
definition of constants once for a module that is both extended and
instantiated: a second instance would keep the channels of the first.

`WeeklyAlerts`: `MaxWeek` weeks, because what a week leaves behind is used in
the next and a reset expires one week after that, so three weeks show a clean
start, a late start and a missed week; `MaxFaults` = 1, because one fault at
any of the steps leaves every combination of the two files that a single poll
can produce, and faultless polls follow it; `Full` = 4 gives one level above,
at, and below each of two thresholds; `Attempts` = 2 makes a first and a last
attempt. In `deliveries` the third week begins without a fault or a waiting
channel behind it (`LastWeekIsCalm`): a fault then falls into the first two weeks
with one week after them, or into a third week that two quiet ones precede. `live` has no such constraint:
its three weeks, each of which may be missed, come with a fault at any step.

`RefreshLoop`: `MaxTime` polls leave room for a reset, its grace time, a failed
or skipped cycle with its wait, and another cycle. `MaxRequests` = 2 gives an
abandoned request and its successor, `MaxManual` a lock that is busy, and
`MaxCrashes` = 1 a restart at every step. Two limit groups are combined with
no request, as groups matter to the schedule and requests to the answers.
Times beyond `MaxTime` are taken for it (`Horizon`); only waits are cut by
this. The second reset falls into the grace time of the first, which is when an
estimate replaces a check. In `liveness` the interval lies beyond `MaxTime`, so
that the checks cannot rely on a regular cycle.

`CodexClient`: a leader that obeys or ignores SIGTERM, or one with a descendant
that ignores it; three writes make the shortest full exchange with one surplus
or misplaced message; a line of three fragments is longer than `MaxLine` = 2.
`TokenUsage`: four lines hold a total that rises, falls and rises again;
`MaxInode` = 3 a replacement and a copy; `Overlap` = 1 with four moments puts
rows inside, at and beyond it.

`Storage`: two writers suffice for every race (a decision, and a migration in
between), one death for every file left behind; `Originals` has one archive of
each kind the inspection tells apart. `Backup`: `Keep` = 1 with two runs makes
every run prune. `AnalyticsCache`: one commit and one replacement put each
between any two of the looks of a name; `MaxEntries` = 1 makes values leave.

`WeeklyReset` and what uses it: a full cycle needs three samples, so four or
five give it a sample before or after; the steps 1 and 3 lie within and beyond
`GapLimit`. `Archive`: cycles 1, 6 or 10 apart, with spans of 4, 8 and 9, let
a row be thinned, thinned again and pruned within three or four cycles; the scene
of 5-hour rows has full cycles only, as live ones store no rows. `History`: three
updates with a limit of two entries and a retention of two.

`WeeklyStart`: budgets of 160 and 180 s instead of 1795 make the nested reserves
bind after one or two requests of at most 120 s; three runs exhaust three attempts.

### Fairness

`live`: `WF(Progress)` is the loop of the monitor, which polls again whatever a
poll returned. `SF(SomeWaitOver)`: a `next_attempt_at` lies at a fixed time, so
it passes while polls go on. `SF(FinalAnswer)`: as long as channels are asked
again and again, one some day accepts or refuses; as a channel that did so for a
row is not asked for it again, this reaches every one. Without it, a channel
that times out forever keeps a reset waiting until it expires, which also ends
it, but a threshold would not be announced in its week. `WF(UsedAgain)`: the poll
that would see an observed reset is left out (`Refilled`), where the program polls
on; the model goes on as soon as some quota is used, and would otherwise stop
there with what it has. Apart from that nothing obliges the user to consume the
quota. Crashes and faults are bounded and not fair, and no week has to end.

`liveness` asks fairness of the part in use only. The loop: `WF(LoopStep)`, it
never ends; `WF(Tick)` is time; `WF(OtherEnds)`: a cycle started by hand ends;
`SF(Collect)`: a collection tried again and again succeeds some day, as there
is no sample to check if Codex stays unreachable. The client: `WF` on time, on
its own loop and on `stop_process`; none on the server. The anomalies: `WF` on
listing, registering and marking, since every poll goes through the list again
and failures are bounded. The cache: `WF` for every request, a thread.

## Findings

* `late_crash`: `monitor.sh:3384` says "a due same-owner weekly arm must expire
  stale thresholds". The command it leads to (`monitor.sh:3605`) expires every
  pending weekly threshold of the owner, whichever week it belongs to. After a
  missed week a poll retires the old arm in memory, arms the running week and
  registers a threshold of it; if the process dies before the state file is
  written, the next poll loads the old arm and expires the row of the running
  week, which cannot be registered again: the user is not told of it in that
  week. `CrossingIsAnnounced` excepts this as `CutShort`. With two faults the old
  arm can also come back as a straddled deadline and do the same; the run with
  two faults, one attempt and three weeks holds under the same exception.
* `accepted_or_anomaly`: `anomalies.py:34` says "A movement accepted as a reset
  must never become an anomaly as well". The detector compares a sample with
  the last percentage, even one without a date; the history of weekly resets
  compares it with the last complete sample. 60% with a date, 100% without
  one, 100% with a date a week later is a reset to the second and a
  `reset_shift` to the first. `AdjacentAcceptedIsNoAnomaly`, part of
  `EvidenceIsSound`, states what does hold: never when the sample before was
  complete.

Sentences of the docs and comments that say more than the code does:

* `alerts.py:659-661` says a delivered row "must never be resurrected"; the code
  under it adds newly configured channels to such a row and makes it pending
  again, which `tests/test_alerts.py:688` expects. `DeliveredIsForever` states
  what does hold: the delivered channel is never asked again.
* `src/README.md:185` promises retries "without replaying a channel that already
  succeeded". The result is recorded after the request (`monitor.sh:1029`); if
  the record fails or the process dies before it, the message is sent again.
  `DeliveryAccounted` states what does hold: each repetition is paid for by one
  such fault.
* `archive.py:560` excludes a refill between rows of two owners. `compact`
  keeps the last row of each bucket whoever owns it (`archive.py:340`), so a row
  of B between two of A may go and a 5-hour refill appear between those of A.
  `RecentFiveHourOfOneOwner` states it for rows that are not thinned yet.
* `src/README.md:649` caps each reset occurrence at ten attempts. The receipt is
  named after the owner of the run's first status (`weekly_window_start.py:134`),
  so after a change of owner the retry for the same reset has a budget of its
  own. `RequestsAreCharged` and `OneBudgetForAll` state it per owner.
* `monitor.sh:2256-2257` means to let a threshold hook run in a new cycle. The
  key `limit:X|unarmed` is used by every cycle without an arm, so a tombstone
  of an earlier one suppresses it (`monitor.sh:2236`, `2258-2262`).

Noted while modelling, where no text says otherwise:

* Alerts. A row that is reopened after it was acknowledged keeps its
  acknowledgement, so its later outcome is not reported to the detector.
  `prune` forgets an interruption with its row after 30 days. A threshold that
  is crossed while the arm is due is refused as expired, and the poll's
  deliveries are skipped until the next one. A reset is not announced when its
  samples lie too far apart. A threshold registered without an arm and one
  registered once the group is armed may both wait, since `_same_cycle`
  (`alerts.py:757`) does not match their keys: the more critical one does not
  take over from the other (`alerts.py:1133`).
* Hooks. Pending threshold hooks of a cycle are dropped when its reset becomes
  due. While a reset hook keeps failing its arm is not retired, so the next
  deadline is not armed.
* Client. The server may write its answer and exit between `select()` and
  `poll()`; the answer is then not read, and the collection fails although it
  was answered (`raced`).
* Backup. After a death between link and unlink a backup keeps two names, and
  is never pruned.
* Anomalies. A corrupt archive takes the anomalies that are owed with it. An
  observation of another owner that is older than the last one still switches
  the active group.
* Archive. A failed archive update whose history update succeeds leaves a hole:
  the history is imported only into a new archive. 5-hour events may vanish or
  appear when rows are thinned.

## What is proved

`AlertJournal_proofs` holds for every set of identities and channels:

| Theorem | States |
|---|---|
| `TypeCorrect` | `Spec => []TypeOK` |
| `DocumentsAreValid` | `Spec => []RowsValid` |
| `InterruptedEventsStaySilent` | `Spec => []InterruptionIsFinal` |
| `OneThresholdWaits` | `Spec => []OnePendingThreshold` |
| `DeliveriesAreKept` | `Spec => DeliveredIsForever` |
| `RecoveriesKeepOneAuthority` | `Spec => []RecoveryKeepsOneAuthority` |

The assumptions are `KeysAssumption`, `ResetsAssumption` and `ChannelsAssumption`
of `AlertRows`: identities are records of the six fields, a reset has the selector
`reset` (the validator refuses another), and there is a channel.

No single one of these invariants is inductive. The inductive invariant is
`Doc`, the conjunction of `WellFormed` (every row is typed and, if present,
valid), `Final` (interruption) and `OneThreshold`. Whether a row can become
pending depends on the status of its row being right, hence the first part; the
recovery of an observed reset adds channels to a row, and is harmless only
because it looks for interruptions in all equivalent rows first. The argument
has three levels: lemmas about rows (`TerminateIsValid`, `RecomputeIsValid`,
`MergedRowIsValid`), lemmas that each function on documents preserves `Doc`
(`TerminateAllDoc`, `AddRowDoc`, `SuppressResetDoc`, `RegisterOrReuseDoc`,
`RegisterDoc`), and `NextDoc` with one step per action. `Keeps` says that no
delivered channel changes; it is carried beside `Doc` through the same lemmas
and composed by `KeepsIsTransitive`.

`RecoveryKeepsOneAuthority` speaks of every document a recovery could write from
here, and follows from `Doc` without more. Closing the cycle and suppressing the
superseded arm leave the rows of the recovered event alone (`CloseSparesTheEvent`,
`SuppressSparesTheEvent`; the second needs that two modern resets of one owner,
window and epoch are one, hence `ResetsAssumption`); what registering or reusing
then leaves of the event is `RegisterOrReuseOutcome`, one case for each of its
branches. A behaviour of `MCAlertJournal` is one of `AlertJournal` beside its
scene, so the theorems are about just the properties the run checks.

`RefreshLoop_proofs` holds for all windows, limit groups, reset times, waits
and bounds:

| Theorem | States |
|---|---|
| `RefreshTypeCorrect` | `Spec => []TypeOK` |
| `RefreshIsFresh` | `Spec => []FreshAnswer` |
| `ChecksComeAfterGrace` | `Spec => []CheckedAfterGrace` |
| `AnswersAreFinal` | `Spec => AnswerIsFinal` |
| `ChecksAreNotLost` | `Spec => ChecksAreKept` |

They assume `RefreshAssumption`: the waits and bounds are numbers, an interval
is not zero, and reset times lie within the time modelled. The inductive
invariant is `Inv`, which adds four parts to types and properties. `Control`
says who holds the lock in which step. `Timing` orders the request, the plan,
the lock and the sample: the published sample never gets older, because it is
taken under the lock, and a successful cycle's sample is not older than its
plan. `Naming` says that the loop knows a request only after it was made.
`Answers` says that the answer a running cycle has already given agrees with
the status of its collection; it is why the second acknowledgement changes
nothing. The schedule has lemmas of its own: `LatestIsDone` (a set of resets has
a latest one, by well-foundedness), `CompletedSchedule`, `CompletedIsChecked`,
`PlannedSchedule`, `FinishedSchedule`.

`MCStorage_proofs` is about the `storage` run, whose own variables are those of
`Storage`; for them it holds for all sets of writers and readers and every archive
found at first:

| Theorem | States |
|---|---|
| `TypeCorrect` | `Spec => []TypeOK` |
| `HashedExactlyOnce` | `Spec => []HashedOnce` |
| `ReadersShowOpaque` | `Spec => []ShownOpaque` |
| `BackupPrecedesChange` | `Spec => []BackedUp` |
| `FutureIsLeftAlone` | `Spec => FutureUntouched` |

They assume `StorageAssumption`: the bounds are numbers, an archive found is
hashed if and only if it says so, only a current version says so, and one of
the current version has its tables. The inductive invariant is `IInv`:

* `HashInv`: what is hashed and what the marker says agree, and whoever has
  reached `open` did so with the marker set, so storing a hashed identifier
  never meets a legacy archive.
* `FutureInv`: nobody is inside an archive of the future.
* `NamesInv`: a backup being made exists, is incomplete, and belongs to one
  writer; without it a second writer's copy could complete the first one's.
* `SafeInv`: until the original may be changed (it was absent, needs no change,
  or has a complete backup, `Safe`), the archive is the original and nobody is
  past the backup. This is where several writers matter: the second one may
  find an archive that the first has already prepared, and passes without a
  backup of its own.
* `KeptInv`: what needed no change is unchanged but for stored identifiers.

One lemma per action (`InspectInv` to `ViewInv`) carries them through a step,
`StepInv` joins them.

The second part of `MCStorage_proofs` is about the backups, for every set of who
may run one, every number to keep and all finite sets of files found in the
directory, as `BackupAssumption` allows: something is kept, and the files found
have names no run will choose.

| Theorem | States |
|---|---|
| `BackupsSafeInRun` | `MCSpec => []BackupsAreSafe` |
| `BackupsEnoughInRun` | `MCSpec => EnoughBackups` |

`PublishedIsGood` and `ForeignKept` need `RunsOK` beside them: whoever is at work
holds the lock; its temporary file is the only one of its name and, once verified,
good; from its publication until it ends its backup is there; and what it has
still to prune are other good backups, with `Keep` good ones left without them.
That the pruning leaves enough is a matter of counting (`PruningLeavesEnough`): of
the files to be pruned, take one with the fewest younger ones. All of these are
kept, they are `Keep - 1` at least, and the new backup is not among them. The
directory may have changed in no other way since the list was made, because of
the lock.

Its last part is about the requests that read the archive, `ServedCurrentInRun`,
`MCSpec => []ServedIsCurrent`, for every set of requests, size of the cache and
bound on commits, replacements and faults (`CacheAssumption`). That two requests
of one name have pinned the same content is a matter of two looks in the
past, so the inductive invariant `CacheInv` says what each step of a look has
already established:

* `ObserverOK` and `NamedOK`: a name given by the present observer is one of its
  file at the number of commits it had when it was opened and has counted since,
  and stands for just that content. Tokens are never used twice (`GoodName`), so
  a name of an observer that is gone is never given again.
* `ReadOK`: what a request has pinned, or copied when it opened the archive, is
  not older than the observation it expects.
* `LookOK`: what the look after it has seen is not older than what is pinned.
  If the name is the same before and after, the two bounds meet.
* `ShareOK`, `PendingOK`, `ValuesOK`: who looks a value up, waits for it or
  computes it has its own name and content in `named`; whoever computes a key is
  the one registered for it, waits lead to a request of the same name, and a key
  that is cached has no computation under way.

That the six steps of `_observe_locked` run under one lock is used once in each
lemma of a look: only the holder moves it.

`WeeklyAlerts_proofs` holds for every set of thresholds and channels and all
numbers of weeks, attempts and faults. Its assumption is
`WeeklyAssumption`: percentages lie strictly between 0 and `Full` and differ,
there is a channel, the bounds are numbers, and no threshold is called by the
empty string, which stands for none.

| Theorem | States |
|---|---|
| `WeeklyTypeCorrect` | `Spec => []TypeOK` |
| `WeeklyAccounted` | `Spec => []DeliveryAccounted` |
| `WeeklyNeverStale` | `Spec => NothingStaleIsSent` |
| `AgreementInvariant` | `Spec => []Agreement` |
| `WeeklyStateMatches` | `Spec => []StateMatchesJournal` |
| `WeeklyKeepsPromise` | `Spec => KeepsPromise` |

`Sound` is the first inductive invariant: types; every row is one the weekly
cycle can make (`JournalOK`); what the poll is about to send is pending in its row, and
what it is about to acknowledge has ended (`PollOK`); no row whose time is over
waits once the poll is past its expiry (`NoneOver`). `NotAhead` adds that neither copy of the state knows
a week that has not begun.

`StateMatchesJournal` is far from inductive: it says what the file and the
journal have in common, and a crash throws away what the running poll knows. So
`Agreement` states the same relation `Agrees` for the file and for the memory of
a running poll, and says besides how the two copies are related at each point
of a poll (`CopiesOK`, `ThresholdOK`), which rows may still wait there
(`WaitingOK`), and which results are already in which copy (`AppliedOK`). Inside
`Agrees`, `UnsettledArmed` and `LiveCovers` carry the argument: a result that is
not acknowledged belongs to the armed week, so the state that read it has a place
for it; a row that waits covers what it saw crossed. `OneWaits` and `ResetLast`
order the rows among themselves. There is one lemma per part and kind of step.

The refinement follows from it. Its hard case is that nothing told is owed again:
a threshold is registered only below the level of the state, and `AppliedOK` with
`LevelKnown` says that what was told lies at or above that level.

`WeeklyStart_proofs` holds for every budget, number of attempts, set of deadlines
and durations that `WeeklyStartAssumption` allows: one to ten attempts, a budget of
at most 1795 s, and statuses that end within their 15 s. The assumption is a hypothesis of each theorem, because the
module is used by `INSTANCE`; `MCWeekly` takes its two instances of the hook from
this module, so the constants of the run are shown to satisfy the hypothesis.

| Theorem | States |
|---|---|
| `HookTypeCorrect` | `Spec => []TypeOK` |
| `HookChargesRequests` | `Spec => []EveryRequestIsCharged` |
| `HookLooksAfterwards` | `Spec => []LookAfterRequest` |
| `HookKeepsBudget` | `Spec => RequestsEndInBudget` |
| `HookSuccessIsProven` | `Spec => []SuccessIsProven` |

The inductive invariant `Inv` has the parts `Typed`; `Charged` (what was launched
is at most what the receipt says, and one less in the step between); `Timed` (how
much of the run's time is left in each stage, by its reserve); and `Budgeted`
(what a receipt's start means for the deadline of a run that finds it). For the
last theorem `Evidence` is added: the statuses seen are in order, of one owner,
and the deadline that a run holds as a candidate is one of them.

`MCWeekly_proofs` is about the `weekly` run itself. `RequestsChargedInScene`,
`SuccessProvenInScene` and `OneBudgetInScene` carry the theorems of the hook to
its scenes. The anomalies it treats in general, for every alphabet of samples,
under `AnomaliesAssumption` (a sample's owner is a group or unknown, its deadlines
are numbers, and time moves on between samples):

| Theorem | States |
|---|---|
| `AnomaliesAreOwed` | `Spec => []OwedOrTold` |
| `ReplayingIsHarmless` | `Spec => []ReplayIsHarmless` |
| `EvidenceStaysSound` | `Spec => []EvidenceIsSound` |

`AnomalyInv` says that the archive holds one anomaly of a key, that it never
loses the key of one it had (`Grown`, carried through each function of
`QuotaDetector`), that a mark stands only on what was told, and that the list read
earlier names nothing else. `ReplayInv` says that the archive is `Settled` on the
latest sample: no detector is ahead of it (`Timely`), the history of samples has
come to it, its group is the active one, and for each window the detector either
holds this sample or was left alone or broken off by it (`Quiet`). A sample is
later than all detectors before it, which needs that a bounded set of times has a
latest one; this is where well-foundedness comes in.

`EvidenceIsSound` relates what the archive holds to the whole log of samples, and
most of it is forgotten in a detector that keeps only its last one. `EvidenceInv`
therefore says for each field which samples it came from:

* `Watched`: a chain of full samples is the newest sample of its owner, or older
  than a sample that broke it off; a candidate had an earlier deadline before it
  in the log, and until it is settled no anomaly or proof stands at its time.
* `Dated`, `Typed`: proofs and anomalies carry the time of the sample they were
  made by, so a new one never meets an old one (`Settling`: a deferred movement
  waits, was proven, or has become an anomaly, and just one of these).
* `FullIsConfirmed`, `PairIsOfOneOwner`, `AcceptedIsQuiet`: the three parts of the
  property that are about proofs, for which the log is only extended.
* `Follows`, `Based`: what the detector and the weekly baseline compare the next
  sample with; the two agree if the last sample was complete, which is why a
  movement that is accepted is not judged an anomaly then, and only then.

One lemma per function of `QuotaDetector` carries them through `process_snapshot`.
The proof needed a correction of the property: a movement is deferred for the
weekly window, so only an anomaly of the weekly window settles it. Without that,
one of the 5-hour window with the same time would have counted.

`MCSources_proofs` is about the `sources` run, each of whose parts it treats for
all constants, under `TokenAssumption`, `CodexAssumption` and `HistoryAssumption`:

| Theorem | States |
|---|---|
| `HermesCountsExactly` | `MCSpec => HermesExact` |
| `TokensAreCountedOnce` | `MCSpec => []TokensAreCounted` |
| `NewestStaysShown` | `MCSpec => []ShownIsNewest` |
| `UpdatesStayWhole` | `MCSpec => UpdatesAreWhole` |
| `ExchangeStaysSound` | `MCSpec => []ExchangeIsSound` |
| `AnswersAreRead` | `MCSpec => AnswerIsRead` |

`TokenAssumption` says that a counter may rise at all (`MaxCount` is not zero);
with zero, the first reading and the reading before it could not be told apart.

*Tokens.* What was counted and what is owed are sums over finite sets of events.
Neither is computed: `SumAtMost` says that one sum is at most another if its
elements are among the other's and not larger there, by a smallest set for which it fails.
`CodexInv` then compares sets. Every event is one line of the log with that line's
own gain (`EventsAre`), whichever rollout it was read from; hence nothing is
counted twice. Every line before the kept position has been counted
(`PositionIn`), and the position is one in the file that lies there now, or the file
is read from its start; hence nothing is left out, and `due.codex` is the sum of lines
that are counted. `ReadIs` says what one file adds, wherever the reading stops, and
`VisitedIs` what the two paths add in turn. `OpenInv` says that an answer which is
complete, and older than where the next collection starts (`Since`), is counted as it
is. `HermesInv` says that what a counter shows beyond its last reading is what was
used since, or less of it once it has started again.

*Files.* `FilesInv` says that data.json shows nothing older than any reading that was
accepted (`Shown`), that the entry an update is about to show has the time of its own
reading (`JobIs`), and that both files were looked at, and a damaged history copied,
before either is changed (`Looked`). The defensive limit on entries is where it
could go wrong: what it leaves out must be older than as many entries as it
allows (`LimitKeepsNewest`).

*The exchange.* `LimitsInv` ties what the client has written to its flag: a client
that is `ready` has asked, in the handshake's order; one that waits and is not has sent
the first message only; and only a client that is ready has a result (`ClientIs`). A
stream it holds for closed is empty and nobody writes to it any more, which is why
leaving at the end of both loses nothing. What one read makes of its buffer is a
fold over tokens; `ProcessedInTurn` shows that the fold is what processing them one
after the other gives, and `ConsumedAdvances` that this keeps what it must
(`Advanced`), by the first token at which it fails. The group chosen is the one with
the smallest name among those with most windows (`ChosenNames`); a reversed reply
has the same one (`OrderOfGroups`).

`MCArchive_proofs` is about the `archive` run, for every alphabet of readings, every
history found at first, and all spans, buckets and bounds:

| Theorem | States |
|---|---|
| `ResetsProven` | `MCSpec => []ResetsAreProven` |
| `NeededKept` | `MCSpec => NeededIsKept` |

`ArchiveAssumption` says that spans and bounds are numbers, that a bucket is not
empty and the medium span not shorter than the recent one, that readings and rows
have numbers or `None` for each window, that time moves on between cycles, and that
a history has one entry of a time (`deduplicate` of `history.py`). The inductive
invariant `Inv` has five parts besides types:

* `Sound`: a proof by two readings carries the time of an observation that was made, of
  which there is one such proof; the first baseline is not later than what is seen
  next, and the weekly baselines compared with are not older than the first.
* `Agrees`: the weekly resets shown are exactly those the proofs show and, at moments
  without a proof, those the rows before the first baseline give (`Given`). A live
  cycle changes one side by a proof and a reset of the same moment
  (`RecordAgrees`, `RecordFullAgrees`); `rebuild_reset_events` establishes it
  whatever was there (`RebuildAgrees`). Two archives that agree with the same
  evidence show the same resets (`AgreedAreSame`): this is why live and full cycles
  never disagree. Rows before the baseline give no reset after it
  (`RowsBeforeStart`), hence no sparse reset.
* `FiveHour`: 5-hour resets are those of the rows.
* `RowsInv`: rows are of different times, none is later than the last observation, none
  is older than the retention, and of those the archive ever held, all recent ones are
  still there (`RecentSpared`). The last is what excludes that a row of another owner
  has vanished from between the two that show a refill (`RecentOfOneOwner`).
* `CycleInv`: until it is stored, a cycle's sample is later than all that was seen.

`Grown` says what an observation does not take away; it is carried through each
function of `QuotaDetector`, as in `MCWeekly_proofs`, and gives `NeededIsKept` for live
cycles (`GrownKeeps`). For a full cycle `CompactIs`, `CompactSound` and `RebuildAgrees`
say what compaction and derivation leave (`IngestKeeps`). Rows in the order of time
are `InOrder`: the i-th row has i - 1 before it. That this is a sequence of just those
rows, in that order (`InOrderIs`), is proved by counting.

The library's induction theorems cannot be used with the installed provers. Where a
proof is by induction over data nevertheless (sums, folds, sets that have a latest
element), it takes a smallest counterexample, which well-foundedness of `<` on
`Nat` gives (`SmallestExists`).

Checked by TLC only:

* Liveness (`EveryAlertSettles`, `CrossingIsAnnounced`, and all of `liveness`), and
  with it `ENABLED`: out of reach of the prover.
* `OnlyStaleExpires` and `AcceptedIsNoAnomaly` are false, see the findings.

## Not modelled

* Local hooks and the intents of observed resets (`monitor.sh`). Both live in
  the alert state beside what `WeeklyAlerts` models, with its 5-hour window,
  owner changes and disabled alerts; a faithful module needs all of these
  branches of `check_thresholds` at once. What such a hook does is `WeeklyStart`.
* `prune` of the journal, the migrations of the journal and of a detector state
  from before full cycles were observed.
* The statements of each schema migration and the validation of tables in
  `storage.py`: `Migrate` says what they amount to.
* A partial move of a corrupt archive's sidecars is taken for the whole move;
  a damaged `data.json` counts as absent.
* The estimates of `analytics.py`, prices, labels and retention of tokens:
  arithmetic on rows. Request keys other than the snapshot's name, and
  `max_archives`, which the one archive does not reach.
* A wall clock that is set back and damaged receipts in `weekly_window_start.py`.
* Configuration, the HTTP server's other requests, the dashboard, packaging.

## Plan

1. `AlertRows`, `AlertJournal`, `RefreshLoop`, `Storage` and their proofs; all
   modules above and their runs. Done.
2. The weekly cycle with its refinement, the hook, the anomalies, the recovery of
   resets, the backups, the names and values of the cache: proved.
3. What is read from other programs, the files, the evidence of the detector,
   the resets the archive derives, and what it keeps: proved.
4. A module of the hooks with `check_thresholds` in all its branches.
