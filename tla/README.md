# TLA+ models of myusage-archive

This directory specifies myusage-archive: the portal's tables and how they are
read, the SQLite archive and the processes that share it, the export of the
archive into Home Assistant's recorder, the schedule of the integration, the
portal cycle, the account with its dialogs and setup, and backups. TLC checks
every model on small instances; TLAPS proves the main properties for every value
of the constants.

Paths are those of the repository; `library` is `src/myusage_archive`,
`integration` is `custom_components/myusage_archive`. The vendored copy of the
library inside the integration is byte-identical and is not modelled apart.

## 1. Inventory

### Components, state and operations

| Component | State it keeps | Operations that change it | Specified in |
|---|---|---|---|
| Archive (`library/archive.py`) | tables `fetches`, `raw_pages`, `meters`, `interval_readings`, `revisions`, `exporter_state` | `record_fetch` with `_prune_ok_pages`, `store_intervals`, `set_exporter_state` | `Archive`, `AuditedStore` |
| Daily reads (`library/archive.py`, `models.py`, `parser.py`) | table `daily_reads` | `parse_daily_history`, `store_daily`, `daily_buckets`, `daily_change_days_since`, `consistency_report` | `Daily` |
| Schema (`library/archive.py`) | `user_version` | `_ensure_schema`, `_migrate_v2_usage_day` | `Daily` |
| Interval grid and gap report (`library/parser.py`, `archive.py`) | `interval_readings` by instant | `parse_interval_grid`, `store_intervals`, `gaps` | `Grid`, over the page of `PortalGrid` |
| Time (`library/timeutil.py`) | none: pure functions | slots, folds, midnights, usage day, year of a label | `Clock`, `Calendar` |
| Pipeline (`library/service.py`) | none of its own: the order of transactions | `fetch_intervals`, `fetch_daily`, `backfill_needed`, `run_cycle`, `reparse` | `Cycle`, `Archive`, `Exporter` |
| Series planner (`library/series.py`) | none: pure functions | `build_points`, `final_prefix`, `fold`, `merge_stray_rows`, `plan_series` | `Series` |
| Statistics exporter (`integration/exporter.py`) | `_consecutive_full`; a watermark in the archive; rows in the recorder | `async_export` | `Exporter` |
| Coordinator (`integration/coordinator.py`, `__init__.py`, `button.py`) | `_unsub_timer`, `_retry_index`, `_manual`, `data`, issues | `_async_update_data`, `_fetch_cycle`, `_schedule_next`, `async_fetch_now`, setup and unload | `Scheduler`, `Account` |
| Account (`library/client.py`, `integration/config_flow.py`, `__init__.py`) | the config entry, its password, its archive file, open dialogs | `login`, `async_step_user`, `async_step_reauth_confirm`, setup, reload, removal | `Account` |
| Backup platform (`integration/backup.py`, `BackupLock`) | `_backup_lock` per coordinator, an open write transaction per archive | `async_pre_backup`, `async_post_backup`, unload | `Backup` |
| HTML forms, sensors, diagnostics, redaction, command line, probe, anonymizer, vendored copy and install scripts | options; none | views, text, one-off tools | not modelled |

### How they interact

- The coordinator runs a **cycle** in the event loop; every archive call goes to
  an executor thread and opens a connection of its own, so each call is one
  SQLite transaction, and anything may happen between two of them. The same file
  may be written by `myusage fetch` and `myusage reparse` in other processes,
  possibly of another version.
- A **page** is parsed by its headers and archived in two transactions: the fetch
  log first (`record_fetch`, with the raw page), the readings second (`store_*`).
  Freshness at startup, the backfill and the change feed are all decided by the
  log.
- After a cycle the **exporter** reads the archive and the recorder over several
  awaits, queues an import (fire and forget), then records a watermark. Changes
  behind the watermark reach the next export only through the change feed
  (revisions and fetch stamps newer than the watermark) or through the anchor
  check (the sum of the newest exported row).
- One in-memory **timer** leads to the next cycle. The button runs a refresh over
  a scheduled one: the two share `_manual`, `_retry_index` and the timer.
- **Dialogs** and cycles log in to one portal account, which may reject a login
  that follows another too closely. A cycle is not cancelled when its entry is
  unloaded, so it may outlive the password, or the entry, it started with.
- **Backups** hold a write transaction on each loaded entry's archive from
  `async_pre_backup` to `async_post_backup`.

### What is hard here, and what correctness means

- *Archive*: writers of different processes and `reparse`, which stores pages
  out of order under old fetch ids; ids held over a transaction; stamps taken
  before the write lock is granted. Correct: no reading is lost or changed
  without its revision, and the revisions of a cell form one unbroken trail.
- *Grid*: year, stride, metric order and the pass of a repeated hour are inferred
  from one table. Correct: no value lands at another instant or register unless
  the page's signature carries an anomaly; the gap report is exact.
- *Daily*: the day of a read is stored once and computed again; the schema is
  looked at before the lock is waited for; a fetch is logged in one transaction
  and stored in a later one, and an export reads in one and sets its watermark in
  another. Correct: stored and computed day agree, the feed names what changed,
  migration loses nothing, the consistency report is quiet when the portal tells
  the truth.
- *Exporter*: it uses what it read some awaits ago; the recorder lags behind;
  restarts between import and watermark; adjusted and deleted statistics.
  Correct: sums never go down, the statistic is the exact fold of the archive,
  and exporting settles.
- *Scheduler*: overlapping refreshes and a timer that only the end of a refresh
  re-arms. Correct: a loaded entry always has its next fetch armed, the button
  changes nothing, and a served slot is not fetched again that day.
- *Cycle*: crashes and exceptions between the two transactions of a page, and
  cycles that overlap. Correct: the log does not claim what the archive lacks, and
  the history of a span is asked for once.
- *Account*: a rejected login may be a wrong password or a throttle; entries come
  and go under running cycles. Correct: the user is asked for a password only
  for a reason, and an archive goes with its entry and not before.
- *Backup*: awaits between locking and remembering the lock, and between one
  release and the next. Correct: quiet files, and every lock that is taken is given
  back (two corners where it is not are in section 6).

`PROJECT.json` lists each hazard at its line with the properties aimed at it.

## 2. Modules

```
AuditedStore  <-- refined by --  Archive  <- MCArchive
                                    ^------- ArchiveProofs
Clock, Calendar <- PortalGrid <- Grid <- MCGrid, GridProofs
Clock <- Daily <- DailyTruth <- MCDaily, DailyProofs
Series <- Exporter <- MCExporter, ExporterProofs
Scheduler <- MCScheduler, SchedulerProofs
Cycle <- MCCycle, CycleProofs     Account <- AccountProofs     Backup <- BackupProofs
```

### Archive

The tables are functions and sequences: `rows[k].val[f]` a cell of
`interval_readings`, `revisions[k][f]` the audit trail of the cell in insertion
order, `fetches` and `pages` by id. `StoreIntervals` is one call of
`store_intervals`: insert or merge every reading of the page, append one
revision per differing non-empty cell, turn `has_received` on. `RecordOk`,
`RecordTransportError` and `RecordParseError` are the three ways
`record_fetch` is called; the first prunes old content. A writer is a refresh of
Home Assistant (the slot's, or a pressed one that overlaps it) or a command-line
process; they have the same steps, *idle, net, fetched*, which are exactly its
transaction boundaries, and none waits for another. `Crash` may end any writer
between them (SQLite rolls back an open transaction, so never inside one). Of an
export this module has the step that counts here: `SetExporterState` stamps the
watermark, at any time. `StartReparse`, `ReadPage`, `FindFetch` and `StorePage` are
`reparse`: the ids of all pages with content first, then three transactions per
page, during which writers may clear it.

Readings are abstract values, and a page is one of a few `Captures`. One meter,
one fetch kind and one resolution are modelled, since every query names all
three. `Stamps` gives a transaction any second from when it asked for the lock,
as `_connect` takes the timestamp before `BEGIN IMMEDIATE` returns.

`AuditedStore` is the promise of README.md ("What the archive guarantees"): a
cell holds its newest reading and every reading it held before, pages are merged
atomically, an empty cell changes nothing. `Archive` maps `current` to the stored
values and `history` to the values along the trail (the first value, then each
`new`).

### Clock and Calendar

Time is counted in slots, one per interval of the grid. `Offset`, `Instant` and
`Reading` stand for zoneinfo: one day of the instance is an hour short, another an
hour long. The rest of `Clock` is `timeutil.py`: `localize`, `slot_exists` (the
round trip through UTC), `day_slots`, `usage_day`. `Calendar` has `infer_year` over
years of `Labels` days, one label of which exists in leap years only.

### Grid

`PortalGrid` is the portal's page, which is not part of the repository: one table
whose time rows are shared by all its day columns, with a group of metric columns
under every day. Each cell says *which usage it really is* (of an instant, of a
register), so the model can tell a value at the wrong place from the right one.
How a day of another length is rendered has not been observed; `Styles` are the
renderings `tests/test_parser_dst.py` names, with two ways to get it wrong.
`Disturbed` gives the pages that differ from a clean one in one place: header,
rows, or values.

`Grid` reads the page as `parse_interval_grid` does: `Dates`, `Groups`,
`HeaderFits`, `RowsFit`, then every row of every day. A page is refused whole or
yields readings, and in a week with a clock change it may leave an anomaly in
its signature. `FetchClean` and `FetchOdd` store what was read
(`store_intervals` folds `Upsert` over the readings); `DayPasses` rolls the window.
`ReportDays`, `recoverable` and `missing_labels` are the gap report.

### Daily

`Open`, `Create`, `Migrate` and `Close` are the steps of a connection: a call takes its
stamp and looks at the version in no transaction, so what it saw may be outdated
when the write lock is granted. Processes of version 1 and 2 share the file.
`Fetch` parses the table (`parse_daily_history`) and logs it, `Store` runs `store_daily`
in a later call, and `Reread` makes `reparse` store any logged table again under the
fetch that captured it; a process may die in between. The day of a read is stored
on insertion and left alone by updates. An export reads the table with `ReadBuckets`
(`Day` computes the day from the read as it is then) and sets its watermark with
`SetWatermark`, or ends without one (`AbortExport`); anything may be stored between
the two. `daily_change_days_since` answers with the stored day.
`Groups`, `Compared` and `Mismatch` are `consistency_report`; `Groups` is its loop, a fold
over the reads in the order of `from_utc`. Times are finer than the intervals
(`Grain`): a read may begin and end off a slot, and the window is then compared with
`Inside` while its coverage is counted with `Covered`, as in the code. `DailyTruth`
says what it means that the portal's tables tell the truth (`Truthful`). A `Story`
is the set of tables one account may show (a late value, a failed read that is caught
up with, rolls on or is replaced, a read that ends in a repeated hour). `moved`, `late` and `hidden`
are history variables the properties name exceptions with.

### Series and Exporter

`Series` translates the planner for one of the two registers: hour and day
points, the final prefix (everything before the first incomplete recoverable
block), the fold, stray rows, and the decision table of `plan_series`.
`Exporter` surrounds it with the archive as the exporter sees it (an hourly
bucket is blank, partial or full), the recorder, and a queue between the two.
Each awaited read is a step: `ReadHourly`, `ReadDaily`, `ReadFeed` (the watermark
and the interval feed), `ReadDailyFeed`, `ReadAnchor`, `ReadSumBefore` (which also
plans), `ReadExisting`, then `QueueAppend` or `QueueRewrite`, then `SetWatermark`;
`Halt` and `UpToDate` are the other ends. The environment may fetch the grid or
the daily table, keep a page that does not parse and re-ingest it later, let the
window roll, apply or lose queued imports, delete or adjust the statistic, and
restart. `Overlap` says whether that may happen inside an export.

The change feed is a set of hours and days that were stamped after the
watermark; recording a watermark empties it. This is what the stamps provide for
work begun after the watermark (`FeedComplete` of `Archive`) and for rows that are
revised, or fetched and stored, after it (`FeedNamesDays` of `Daily`); what is written
under an earlier stamp, which the two properties except, is not met by the runs that
keep the environment out of an export (`Overlap = FALSE`). In `Exporter_settles` a
fetch may fall inside one: it is then found by the anchor check or not at all.

### Scheduler

Hours of the day, and the timer as hours left. `entry` is the state of the
config entry, `task` the scheduled and the pressed refresh. A refresh is *begin*
(the freshness read), *network* (the cycle), *export*. The slot is drawn anew from
`Slot .. Slot + Jitter` whenever it is armed. `Outcomes` lists how a cycle may end;
`"unexpected"` is any exception `_fetch_cycle` or the freshness read before it does
not map, and sets `raised`. `served` records that the slot has brought new rows
today.

### Cycle

`run_cycle` for a few cycles that may overlap. The fetch log keeps kind, success,
window and page of each fetch; `reads` and `grids` are what the second
transactions stored. `FetchFails` is both failures a handler logs. `Faults` switches
on crashes, exceptions that escape the handlers, a locked archive, and a missing
range form.

### Account

Clients are dialogs and cycles. A login goes *post, landing*, and a cycle before
it *ask* (it reads whether anything was ever fetched) and after it *pages*; each
step is one request, and clients interleave between them. `PostRejected` is a JSON
answer without a redirect, whatever its status: a wrong password, a login soon after
another, or a failing portal that answers so.
`Rejected` is what `_fetch_cycle` makes of it: a retry before the first
successful fetch, a re-authentication after it. `CreateEntry`, `UpdateEntry`,
`Reload`, `RetrySetup` and `Remove` are what Home Assistant does with the entry, and
`Unloaded` marks the cycles that go on without it (*stray*). The portal changes its
password, throttles, and until it is `healthy` may also refuse, reject or misdirect a
login and fail any page.

### Backup

`async_pre_backup` step by step, with the await between taking a lock and
assigning `_backup_lock` (`Acquire`, then `KeepLock`); a failure and `async_post_backup`
release one coordinator after the other (`Abort`, `ReleaseNext`), and entries may be
unloaded and loaded in between. A coordinator is an entry with the number of its
load, so a reload makes a new one. One that is unloaded while the backup has still
to lock it is an *orphan*: it is locked all the same, and nobody is left to release
it; the lock goes when Python collects it (`Collect`, at no particular time).

## 3. Runs

All bounds are constants of the `.cfg` files. Writers of `Archive` and cycles of
`Cycle` are interchangeable and declared symmetric; nothing else is.

| Run | Asks | Bounds, and why they suffice |
|---|---|---|
| `Archive_store` | Two writers, exports and `reparse` on one file: types, audit trail, references, has_received, raw pages, no erasure, no silent change, change feed, refinement of `AuditedStore` | Two starts, two columns, three pages that fill, revise, and leave a cell empty; three fetches: with `KeepOk = 1` there is something to prune while `reparse` holds ids, and one fetch can be exported, one overlap the export, one come after; two seconds, since the feed only asks which of two stamps is later: a watermark at 0, work begun at 0 or 1, and stamps up to one second late |
| `Grid_year` | Pages of a rolling window: nothing moved or lost silently, gap report exact, a clean page fills what is recoverable | Days of eight slots and a window of three days, so that a window holds a clock change and an ordinary day at once; ten days with both changes, a new year, and a leap label; both layouts; two fetches, so that a page meets rows of an earlier one; a disturbance in any column, and in row 4, where the repeated hour ends |
| `Daily_shared` | Stored day, change feed, consistency report, migration | Two processes, Home Assistant and a command line of the old version, either of which may log, store and reparse; a new file or an old one with a closed and an open read; five accounts, both layouts; two logged tables, each stored any number of times, and any number of exports; two seconds; days of eight slots, reads that begin and end in the middle of one, two intervals missing, and the least tolerance that bears both |
| `Exporter_daily` | One export at a time: no rewind, exact fold | Three days of two hours, a one-day window, three writes, one deletion of the statistic, one import still queued when the next export starts, a recorder row older than the archive |
| `Exporter_settles` | Fetch, reparse, adjustment and restart inside exports: no halt; exports settle | One of each disturbance, anywhere among the steps of an export |
| `Scheduler_pressed` | Overlapping refreshes: timer armed, button leaves the schedule alone, slot served once, fetching goes on | The deployed ladder (1 h, 3 h) and a 24-hour day; ages saturate, so the number of days is unbounded; one press an hour; `Jitter = 1`, so a served slot may be drawn again for the same day; `StaleAge = 8` because the properties of this run do not depend on it |
| `Cycle_faults` | Two overlapping cycles with every fault: log and archive in step, history asked for once | Six fetches hold the daily table and the range of three cycles, of which two overlap and one comes later; spans 1 and 3, a shorter and a longer backfill; two days |
| `Account_reauth` | Re-authentication warranted, new entries retried, archives live with their entries, the right password loads | Two entries (an account removed and added again), two dialogs and two cycles (a stray next to a new one), two clients with a request under way, two passwords |
| `Backup_reload` | Backups with writers and reloads between any two awaits: types, no lock untracked, quiet tar, no lock left, locks given back | Two entries, three loads each: one entry can be reloaded twice while the other is locked |
| `Exporter_flip`, `Exporter_overlap`, `Scheduler_stale` | One statement of the repository each, which TLC refutes | See 6 |

Deadlock is checked except where the program or its bounded history really ends:
in `Archive_store`, `Grid_year` and `Daily_shared` when the fetches, days or tables
are used up, in
`Account_reauth` because the account may stay removed.

**Fairness.** `Exporter_settles`: the daily export runs, its steps are taken, the
recorder applies its queue; the archive and the user owe nothing, and their
disturbances are finite by their bounds. `Scheduler`: time passes, a due timer
fires (the event loop), a refresh ends (every request has a total timeout, every
SQLite call a busy timeout); a press is never owed. `Account`: a cycle's requests
end (same timeouts), Home Assistant starts a first refresh, retries a setup that
failed and carries out a reload it has scheduled; strong fairness of
`PostAccepted` says that the portal does not throttle right credentials for ever,
which is an assumption about the portal. Dialogs, removals, password changes and the
portal's recovery are never owed. `Backup`: a backup that started is carried on, and
every transaction ends; `Collect`, `Load` and `Unload` get no fairness. `Archive`,
`Grid`, `Daily` and `Cycle` are only checked for safety: nothing there waits.

Every property of a passing run has a mutant in `PROJECT.json`: a plausible bug
of the translated code (defined next to the original, marked *Mutant*) under which
TLC finds that property violated with the same configuration.

## 4. Theorems

Proved by TLAPS from the named assumptions of each module on its constants, for
any number of starts, columns, pages, writers, entries, cycles, reloads, fetches,
reads, processes, days and queued imports:

| Module | Theorem | States |
|---|---|---|
| `ArchiveProofs` | `TypeCorrect`, `TrailUnbroken`, `ReferencesHold`, `RegisterKnown`, `PagesKept`, `FeedReachesBack` | `Spec => []` of `TypeOK`, `AuditTrail`, `References`, `ReceivedKnown`, `RawPagesKept`, `FeedComplete` |
| | `NullErasesNothing`, `ChangesAudited` | `Spec => NullNeverErases`, `Spec => NothingChangesSilently` |
| | `ArchiveImplementsStore` | `Spec => ImplementsAuditedStore` |
| `GridProofs` | `SlotsExact` | `localize` maps the slots of a local day one to one onto its instants |
| | `InferExact` | a day in the window is resolved from its label to that very day |
| | `GapReportExact`, `CleanIsComplete` | `Spec => []` of `GapsExact`, `CleanFetchFills` |
| | `GoneForGood` | `Spec => GoneIsGone` |
| | `NothingIsMoved`, `NothingIsDropped` | `Spec => []` of `NothingMovedSilently`, `NothingLostSilently`, if `Width >= 3` |
| `DailyProofs` | `DayIsStored`, `FeedNamesThem` | `Spec => []` of `StoredDay`, `FeedNamesDays` |
| | `NothingIsLost` | `Spec => NothingLost` |
| | `TruthStaysQuiet` | `Spec => []TruthIsQuiet`, if `Truthful` and `Tolerance >= 2` |
| `ExporterProofs` | `SumsNeverRewind`, `StatisticIsTheFold` | `Spec => []` of `NoRewind`, `ExactFold`, if `OneAtATime` |
| | `NeverAhead` | there, no plan refuses an export |
| | `HaltsTakeDeletions` | `Spec => []NeverHalts`, if `OneAtATime` and `FewDeletes` |
| `BackupProofs` | `Typed`, `LocksTracked`, `LocksReleased`, `Quiet` | `Spec => []` of `TypeOK`, `Tracked`, `NoLockLeft`, `QuietDuringTar` |
| `CycleProofs` | `Typed`, `BackfillInStep`, `FreshnessInStep`, `AskedOnce` | `Spec => []` of `TypeOK`, `BackfillKept`, `FreshMeansStored`, `BackfillOnce` |
| `SchedulerProofs` | `Typed`, `AlwaysArmed` | `Spec => []` of `TypeOK`, `Armed` |
| | `PressesLeaveSchedule`, `ServedOnce` | `Spec => ButtonLeavesSchedule`, `Spec => OnceADay` |
| `AccountProofs` | `Typed`, `NewEntriesRetry`, `RemovedWithArchive` | `Spec => []` of `TypeOK`, `NewEntryNotBounced`, `ArchiveGone` |
| | `OnlyWarranted`, `ArchivesKept` | `Spec => ReauthWarranted`, `Spec => ArchiveKept` |

**Archive.** The ids a worker or `reparse` holds must exist when they are used
(`References`); that a store keeps the trail unbroken needs its cells and trails
well typed; that a received reading comes with a known register needs the
assumption that only a page with the column carries one. The conjunction `Inv` is
inductive, with one lemma per operation of the tables (`RecordType`, `StoreType`,
`StoreAudited`) and one step per action. The two action properties follow from
`Inv` and the definition of `StoreIntervals`, the only operation that touches rows.
`ReferencesHold` has a consequence for the code: the branch of `reparse` for a page
that no fetch names cannot be taken.

*Raw pages*: `RawPagesKept` does not say why a page that comes late under an old
stamp cannot outlive a newer one that is already cleared. `Full` does: once anything
has been cleared, exactly `KeepOk` pages have content, so a late page competes with
all of them, and with every cleared page through the one it would push out.

*Change feed*: `owed` is the set of starts that work begun after the watermark has
written, and `Ahead` says that each of them is among those the feed reads. It holds
for any lock wait, because a stamp is never older than the work it belongs to: a
writer that began after the watermark logs and stores under later stamps. A later
write of older work keeps a start named when it revises a cell (the revision of the
other work stays), and `Owe` takes off what it writes. What older work writes is not
owed: that is the exception the property states, and section 6 describes.

*Refinement*: `Unseen` (a start without a row shows no reading) makes an insertion
look like the merge into empty cells that `AuditedStore` performs. `CellStep` shows,
cell by cell, that a stored page either leaves cell and history alone or appends
the reading to both; every other action stutters.

**Time and gaps.** `SlotsExact` constructs, for every instant of a day, the label and
pass it has, on days of any length; `GapReportExact` follows for any rows whatever,
by cardinality of a bijection, so it needs no invariant. `InferExact` rests on the
window being shorter than a year: two candidate dates with the same label are
then the same day.

**Pages.** What a fetch reads is a flattening of filtered rows and columns. `KeptIs`
numbers the elements a filter keeps, `Split` and `Place` index a flattening of equal
blocks, and `ParseFacts` states from them, for any page, that the readings of an
accepted page are exactly its existing (column, row) pairs. `StoreFacts` says what a
fold of `Upsert` leaves: the rows that were there and the starts that were read, with
the last non-empty value. `GoneForGood` needs no more than that every date read lies in
the window of the day of the fetch, for the date may turn only *after* the page is
rendered, and that `ReportDays` calls gone only what is older. `CleanIsComplete` reads
the other way: the headers of a clean page give back the days shown and the metrics of
the account (`CleanHeaderFits`), its rows pass every check in plain weeks and in all
faithful renderings of a week with a change (`CleanRowsFit`), and every instant of a
day on the page has a row whose label and pass localize to it (`InstantHasRow`), so
that nothing recoverable is missing. They assume of the portal what
`LayoutAssumption` and `CellAssumption` say: one column per metric, all known, usage
among them; of the calendar and clock only their own assumptions.

*Disturbed pages*: `Odd` sums up what `Disturbed` can do to a page. `AcceptedHeaders` goes
through the headers and shows that an accepted page has all its dates, its groups
and its metrics in the right order. `CountTells` goes through the number of rows: a lost
row shows, and so does a long day with its second passes only. A row that comes
twice passes for the second pass of the long day where an hour has one slot, but is
then a ghost in the columns of ordinary days (`TwiceIsGhost`). Traded labels show in a
label that turns back, except next to the repeated hour, where the row again reads
as a second pass in every column (`SwappedIsEmptied`). Slots counted from midnight
leave a ghost on the short day (`ElapsedTells`). So every column of every row shows the
instant it is read as (`Truthful`), which gives both theorems. Their hypothesis
`Width >= 3` is that of the code, whose window has seven days: with two, a column
without its date leaves the other one with twice the metrics, the page is read, and
TLC finds usage lost in `Grid_year` with `Width = 2`.

**Loops.** The prover cannot instantiate the induction theorems of its library, whose
hypotheses are operators, and `[n \in Nat |-> ...]` by recursion has no value it
can compute with. Both are got round by sets: `Climb` and `Shrink` take a set of
naturals closed under a step, so that the statement to be proved by induction is
membership in a set that the proof defines. `Gather` gives a bounded recursion its
values, one prefix at a time. `StoreLoop` and `GroupLoop` of the daily proof and
`FoldFacts`, `SumFacts` of the exporter's rest on them, and hold for tables and series
of any length.

**Daily.** `store_daily` is proved as the loop it is: by induction over the rows of
the table, a row that was there keeps its day and its values and is stamped if a
value changes (`Kept`), a row that was not is as it was inserted (`Added`). What a
page can hold comes from the layout of the account and one disturbance at most
(`Shape`, `Shown`). `DayInv` carries `StoredDay`: a stored day is never after the one
its read is drawn on, and is that one until the end moves; a process of the old
version, or one that migrates on an outdated look at the version, sets it
otherwise, which `late` records. `FeedInv` carries `FeedNamesDays`. What an export has read
stays a base (`Base`): its reads are still there, and no stored day is after the day
they were drawn on then. A read that has no stamp after the watermark and is not
`hidden` is as it was exported (`Touched`, `Same`); so one that is not has such a stamp,
and its stored day, which the feed names, is no later than both of its days. The
three exceptions are all needed: without any one of them TLC finds the property
violated in `Daily_shared`. `WorkInv` says that what is stored, by a fetch or by a
reparse, is what some page of the account parses to, however long ago it was logged.

`TruthStaysQuiet` is about the report: grouping failed reads with the read that
counted their usage raises no false alarm. Its assumption, `Truthful`, is about the
pages an account may answer with, one by one and in pairs, and never about what the
archive makes of them. A read that closes a window has counted, together with the
failed reads it answers for (those that roll into it, `Rolled`, and those it catches
up with, `Within`), one kWh per interval of the window (`TellsTruth`); two versions of
a read agree wherever both have a cell, or one replaces it whole (`Updates`). TLC
evaluates `Truthful` for all the stories of `Daily_shared` (an `ASSUME` of `MCDaily`), and finds
it false when a table is off by one kWh.

The archive merges versions cell by cell, so a stored row need be no version at all.
`TruthInv` says what it is (`MadeOf`): each of its cells comes from a page, or the old
file, whose version of the read is part of the row and whose own reads are all
archived. A row that can be told by one version can then be told by that one
(`SteadyRow`, `MadePlaceholders`). `GroupsAre` sums up the loop for any number of reads: a
group has the failed reads that still wait when it opens (`Waiting`) and those inside
its window (`Caught`). `GroupAnswers` brings both together: these are the failed reads
the version of the group's read answers for, and its sum is the length of the
window. `Tolerance >= 2` is needed since the report compares a window even when one of
its intervals is missing, and when the window begins off a slot the interval it begins
in makes up for another one (`WindowCount`). Both are then usage the intervals do not
show: up to two intervals, of one kWh each in the model. The code allows 1 kWh, which
is two intervals of half a kWh. Any intervals may be missing, and `Grain` is any
positive number. TLC finds a mismatch in the tables of `Daily_shared` with
`Tolerance = 1`.

**Exporter.** The theorems speak of what the recorder *will* hold, the table `z` after
the queued imports (`Pending`), because the exporter appends to the queue and the
recorder takes from it at any time. `Recorded`: `z` is the fold of the final prefix, on
its base of older rows, up to the first start the change feed names, without holes.
`Complete`: it is all of it. The steps of an export are `PhaseOf`: what it has read is
still true, or the window has rolled on and the final prefix has only grown.
`RecordedGrows` is the heart: a fetch, a daily table or a rolling window changes the
series only at or after a start that it adds to the feed, or behind its end
(`HoursGrow`, `DayGrows`, `WindowGrows`; `Closed` says that an hour which became final
is never written again but through the feed), so the fold below the feed stays what
it was (`TotalStays`). `PlanFacts` then says that every plan of the decision table,
rewrite, append or nothing, leaves `z` complete once its rows are in.
Three lemmas about sums make the fold an order-free object: `SumsExist`, `SumIs` and
`SumsAgree`.

`OneAtATime` has one reason for each of its conjuncts: with `Overlap`, two exports may
append from different anchors (`Exporter_overlap`, section 6); a re-ingested page is
behind the watermark (`Exporter_flip`); an adjusted sum or a lost import is not in the
fold, and the anchor check cannot always see it. The coordinator sees to the first
(one refresh at a time, save for the button). Nothing bounds fetches, days, exports,
deletions of the statistic or the number of queued imports. The invariant was
model-checked on the instance of `Exporter_daily` before it was proved.
`FirstWindow` is a natural number and the recorder's older rows (`PreRows`) are a
finite table of non-decreasing sums; without the latter the sums rewind before the
first export.

`HaltsTakeDeletions` counts: a full rebuild is planned only when the recorder has no
rows, and leaves it with some, so the next one in a row needs a deletion in between
(`Calm`, which also holds for an export that read the empty recorder before the
deletion was made good). `FewDeletes` says what this takes: the recorder commits an import before
the export's next read (`MaxQueue = 0`), every daily read has a value (else a rebuild
may have no rows, section 6), and the user deletes the statistic at most `ThrashLimit - 2` times.
The last bound is exact: with one more deletion TLC finds the halt.

**Backup.** `Past` bounds the loads of everything that is waited for or held, `Asker`
says that only a coordinator without a lock asks for one and has it once granted,
`Remembered` that a remembered lock is held, and `Covered` follows the targets of a
running backup: each that is still loaded waits, asks, or has its lock. `Accounted`
carries `LocksReleased`: whoever waits for a lock, asks for one or remembers one is
loaded or an orphan, so while the releases go on a remembered lock is either still to
be released or an orphan's. The statement is about holders and not about entries:
the entry of an orphan may be loaded again and find its archive locked.

**Cycle.** `Numbered`: a cycle about to store knows the log row it stores for.
`Dated`: a successful range fetch has its window. With these, what a second
transaction stores is what the log row of the first promised, and a cut between
the two is visible in `torn`. `Once` carries `AskedOnce`: the fetches that repeat a
logged one, and the cycles that have decided to, are together fewer than the cycles,
since the cycle that logged it is not among them. `NeededIsNew` is why no cycle joins
them: `backfill_needed` finds the logged span, on the same day and, as its start only
moves on, on every later one.

**Scheduler.** `Armed` depends on who is running: before the first data there is only
the first refresh (`FirstAlone`), a press runs only under its flag (`Flagged`), a timer
is armed or the refresh it started owes the next one (`Owed`), and no timer is
further away than a day and the jitter (`Bounded`). For `ServedOnce`, `Spaced` says that
once the slot is served the timer waits for another day, or for the slot drawn again
within its minutes (`Rests`), and the refresh of the slot is over but for its export;
it must also speak of the time before, since a press may arm the timer while that
refresh is still under way. It holds for any jitter.

**Account.** `Named`: a dialog that has claimed the unique id is the only one, and no
entry exists. `Open`: every other dialog is about an entry that exists. `Kept`: a
cycle is about an entry it may have outlived, and one that looked and found a
successful fetch still has the file, unless the entry was removed. `OnlyWarranted`
adds `Current`, that a cycle which has yet to log in holds its entry's password unless
it is a stray or the entry waits for a reload; a lemma shows that only a rejected
login both ends a cycle and opens a dialog. It says two things: the portal has rejected
the password the entry *now* holds, whatever was changed meanwhile, and that password
is wrong unless the portal was failing or had just answered another login.
`ArchivesKept` needs `Named`: the branch of Home Assistant that replaces an entry
with the same unique id is never taken, because the flow claims the id before it
logs in.

## 5. Only model-checked, not modelled

*Only model-checked*:

- liveness (`Settles`, `KeepsFetching`, `WritersReturn`, `RightPasswordLoads`): the prover
  handles neither ENABLED nor fairness;
- `NeverHalts` beyond `FewDeletes`, in `Exporter_settles`: with restarts, re-ingested
  pages and adjusted sums it depends on the bounds. A user who deletes the statistic
  three days running, or a recorder that takes three exports to commit, does cause
  three full rebuilds in a row.

Every invariant and action property of a passing run is the subject of a theorem of
section 4; those of `NothingMovedSilently`, `NothingLostSilently`, `NoRewind`,
`ExactFold`, `NeverHalts` and `TruthIsQuiet` have the hypotheses named there, and the
exceptions that a property states are part of it.

*Not modelled*:

- the HTML: finding tables, cells and forms, reading decimals and labels as text.
  `PortalGrid` and `Daily` start from cells;
- the second register's statistic in `Exporter`: both are planned alike from the
  same reads, and each has its own recorder rows and thrash counter;
- decimal arithmetic: readings are naturals; that sums are exact is the reason
  the code uses `Decimal`, and sums of naturals are exact too;
- `meter_reading`, `kw` and temperatures, which are stored like the other cells and read
  by nothing that decides; the estimated-day notes of the consistency report;
- the options form, which stores values that are constants here and reloads the
  entry; sensors, diagnostics, redaction and the wording of reports: read-only views;
- repair issues other than the stale archive and the halted export;
- the command line's arguments (its fetch and reparse are the second writer and the
  `reparse` of `Archive`), probe and anonymizer (one-off evidence gathering, no
  part of the running system), the vendored copy and the install scripts;
- several portal accounts in one instance, except in `Backup`: each entry has an
  archive, an exporter and a coordinator of its own.

## 6. Where the code and its documentation disagree

Three runs show a statement of the repository that the program does not keep.
`PROJECT.json` quotes it and describes the trace.

- `Scheduler_stale`: the stale-archive issue is raised at the end of a refresh that
  succeeded or skipped the network, so not while every fetch fails.
- `Exporter_flip`: hours recovered by `reparse` for a day exported as a bucket are
  behind the watermark, and the anchor's sum is unchanged: nothing is re-imported.
- `Exporter_overlap`: two exports over each other may append rows folded from
  different anchors, and the sums go down.

Further disagreements met while modelling, and the reason a property above is
stated as it is:

- *Lost timer*: a total timeout of aiohttp or a locked database ends a refresh with
  an exception no handler maps; the timer has fired, nothing re-arms it, and the
  loaded entry fetches no more until a press, a reload or a restart. `Armed` and
  `KeepsFetching` exclude it (`raised`), and so show it is the only way.
- *Backfill lost*: a crash between the log row of the backfill and its days makes
  every later cycle skip it. `BackfillKept` excludes a cut there (`torn`), and so
  shows it is the only way.
- *Grid logged, store failed*: a locked database after the log row makes the archive
  count as recent without the intervals; `FreshMeansStored` excludes it as well.
- *Failures that are not logged*: the page the range form is read from raises a
  `LayoutError` where only a `TransportError` is handled, and is not kept; an expired
  session and a total timeout leave nothing in the log either. They are faults of
  `Cycle`, and no property is about them.
- *Blank cells*: "An empty cell becomes `None`, recorded as a gap" (`parser.py`), but
  `store_intervals` inserts a row without values, and `gaps` counts rows: a day that
  was published blank is reported as present. `GapsExact` is about rows.
- *Change feed of intervals*: rows whose fetch was begun before a watermark and stored
  after it are not named by `earliest_interval_change_since`, although its docstring
  says it covers rows that arrived late. A command line beside Home Assistant does
  this, a press of Fetch now during the slot's export does, and `reparse` does with
  every row it inserts under its old fetch. So does work begun in the very second of
  the watermark, since stamps are whole seconds and the comparison is strict.
  `FeedComplete` is about work begun after that second, and about what `reparse`
  revises.
- *Change feed of days*: "Covers value revisions and late-arriving rows alike"
  (`archive.py:1070`), but a daily read inserted under a fetch logged before the
  watermark and stored after it, or inserted by `reparse`, is not named, and neither is
  what is written between an export's read of the days and its watermark. It also
  answers with the day stored on insertion, while the buckets have the day of the read
  as it is now: a read whose end moves to an earlier day changes a bucket before the
  first day the feed names. `FeedNamesDays` excludes these (`hidden`, and `moved` back),
  and with `StoredDay` it excludes reads whose stored day was set through an outdated
  look at the version (`late`): inserted by a process of the old version after the
  migration, or set again by a second process that looked before the first one
  migrated, though the read had moved since.
- *Repeated hour*: a read that closed in its second pass is taken to have closed in
  the first, which may add an hour's usage to the wrong window; `TruthIsQuiet`
  excludes such reads.
- *Crash between import and watermark*: `exporter.py` calls the consequence "one
  harmless idempotent re-import". On the first export there is no watermark yet,
  so there is no re-import either, and a correction that keeps the anchor's sum is
  not exported. `ExactFold` is checked without restarts.
- *Rebuilds without rows*: `THRASH_LIMIT` is "the signature of two entries fighting over
  one statistic id" (`exporter.py`), but a full plan is counted before it is looked at
  whether it has rows. A register of which only daily reads without a value are
  exportable (a hole at the start of the window keeps the hours back) is reported as
  such a fight on the third day, with one entry and nothing ever imported. The daily
  reads of the `Exporter` runs have values, so `NeverHalts` does not meet this.
- *Adjusted sums*: a re-import that starts above a user-adjusted row restores the
  anchor's sum, and the following anchor checks pass over the adjusted rows.
- *Jitter*: it is drawn anew when the slot is re-armed. A slot served early in its
  minutes may be drawn for later ones of the same day: it then fetches again, and if
  the portal has nothing new it begins the retry ladder, although README.md:81-82
  says the integration fetches once a day. `OnceADay` excludes the minutes of the jitter
  and begins anew with such a second slot.
- *Retry ladder*: a scheduled refresh that fails while a press is running arms the
  daily slot instead of the ladder, since `_manual` belongs to the coordinator.
- *Delayed startup fetch*: the two-minute timer needs an archive that is both
  younger than six and older than 26 hours; an old archive is fetched inside setup.
- *Rejected logins*: any JSON answer without a redirect counts as rejected credentials,
  an error page included, and so does a throttled login. After the first successful
  fetch such an answer cancels the schedule and asks the user for a password that
  may be right. `ReauthWarranted` says so: the password is wrong only if the portal was
  healthy and no login had come shortly before. It excludes cycles older than the
  stored password. No code raises `MfaRequiredError`.
- *Removal during a cycle*: a cycle in flight opens its archive again and so creates
  the file anew after `async_remove_entry` deleted it. `ArchiveGone` excludes it
  (`late`). Repair issues of a removed entry are not deleted either.
- *Backups and reloads*: an entry loaded after `async_pre_backup` is not locked. A
  coordinator unloaded while the backup has still to lock it is locked all the same,
  and the reloaded entry cannot write until it is collected; "Failures never leave a
  lock behind" (`backup.py`) does not hold of it. `QuietDuringTar` is about entries that
  stay loaded, `NoLockLeft` and `WritersReturn` about every coordinator but these
  (`orphans`).

## 7. What could follow

1. The planner of `Series` against a reference over bounded inputs: re-planning
   after an import gives nothing to do, a re-import equals a rebuild; and a
   property for the rows below an adjusted one.
2. `Cycle` over the tables of `Daily` and `Grid` instead of sets of days, with the
   reports at the end of a cycle.
3. The two change feeds without their exceptions, once the code stamps what it
   stores instead of what it fetched.
4. Both statistics of a meter in one `Exporter`, for the reads they share.
