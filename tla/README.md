# newsServer in TLA+

newsServer collects headlines from RSS feeds, DART and EDGAR disclosures and per-symbol sources,
stores them in SQLite, tags them with stock symbols and topics and serves them over HTTP. It is one
asyncio process: code between two `await`s runs alone, everything else interleaves. All writes go
through one connection behind a FIFO lock (`storage/db.py`), reads use a pool of three read-only
connections in WAL mode. The modules here follow that grain: **one action per stretch of code
between two awaits**, a write transaction takes effect when it commits, and a restart loses
everything that is not in a table.

## 1. Inventory

Paths are relative to `src/newsserver/`.

| Component | State it keeps | Operations | Hard behaviour | What makes it correct |
|---|---|---|---|---|
| Global sources (`scheduler.py` 243-316, `collectors/base.py`, `rss.py`, `api/v1/sources.py`) | `_running`, `state` (validators, streaks, next poll, override), table `sources`, semaphore | tick, manual refresh, run, save, log, enable switch, restart | overlapping runs, saves after the run has left `_running`, crash between ingest and save | never two runs of a source; no validator without its content; memory reaches the table; polled for ever |
| Per-symbol sources (`scheduler.py` 346-475, 632) | `symbol_state`, `_symbol_inflight`, gates, time of last request | round, job, gate with gap, refresh with cooldown and timeout, pruning | jobs shared by loop and refreshes, done callbacks, gate held while waiting for the semaphore | one job per key; the gap; the cooldown; no starvation, every job ends |
| Watchlist targets (`scheduler.py` 319-340, `api/v1/watchlists.py`, `api/v1/symbols.py`) | table `watchlists`, `_targets`, `_targets_dirty` | PUT, DELETE, load, mark | a mark during the SELECT of a load | the cache follows the lists and the directory |
| Ingest and retention (`pipeline.py` 46-193, `scheduler.py` 589-630) | tables `articles`, `article_feeds`, `article_symbols`, `article_topics` | ingest, enrich, purge | the known keys are read before the lock; several feeds list one article; rollback | tags follow the stored text; deleted only when no feed keeps it; nothing half-done |
| Incremental reading (`query.py`, `src/client/newsclient`) | the consumer's cursor | `headlines(since_id)`, `since()`, `latest_id()` | pages while articles are stored and purged | nothing skipped |
| Financials cache (`financials/cache.py`) | `_data`, `_inflight` | `get_or_load` | failing or cancelled leader, eviction, expiry | single flight; fresh; bounded; no caller hangs |
| Symbol directory, tags (`symbols.py`, `pipeline.py` 196-322, `api/v1/symbols.py`) | table `symbols`, in-memory index, dictionary tags | aliases, refresh, load, retag in full and by change, tag at ingest | edits, retags, ingests and purges overlap; crash before a retag; which articles a change concerns | stale tags are on the way to be renewed; the index follows the table; candidates are enough |
| Disclosure collectors (`collectors/dart.py`, `edgar.py`) | `_seen`, `_seen_day` | fetch by pages | marked as seen before they are stored; the list grows between pages; midnight; page limit | what is skipped is stored; the day gets stored |
| Maintenance, backup, health (`scheduler.py` 480-587, 643-664, `alerts.py`) | `maintenance_date`, backup files, `_health_status` | daily jobs, rotation, alerts | restart or failure between the jobs, lost messages | newest backups kept, a missing one has its cause, lasting changes told |
| Poll intervals (`scheduler.py` 48-87, `markets.py`) | none | back-off, session intervals, scan | boundaries of sessions | no session's start slept through |
| Queries (`query.py` 67-386, `matching.py`) | none | search terms, filters, symbol path, statistics | candidate caps with a cursor; search and rules must agree | no match skipped but beyond a cap |
| Financial statements (`financials/dart.py`, `sec.py`, `model.py`, `service.py`) | none | periods, quarters from cumulative amounts, balances | missing, restated or differently based reports, changing tags | quarters are true and add up, each report shown as itself |
| Topic rules, configuration, HTTP layer, client formatting, web console | none of their own | | | not modelled, see 7 |

The scheduler calls collectors and then `Ingestor.ingest`; both scheduler halves share the fetch
semaphore and the write lock. API handlers call the scheduler (refresh, enable switch, dirty mark)
and the query service. Directory changes mark the targets dirty and start a retag. The client polls
with a cursor.

## 2. Plan

In this order, the most important behaviour first:

| | Module | Status |
|---|---|---|
| A | `SourcePolling`, `SourcePollingProofs` | done, all safety properties proved |
| B | `SymbolFetch`, `SymbolFetchProofs` | done, all safety properties proved |
| C | `WatchTargets`, `WatchTargetsProofs` | done, all safety properties proved |
| D | `SingleFlight` (abstract), `MemoryCache` implements it, `MemoryCacheProofs` | done, freshness and the refinement proved |
| E | `ArticleStore`, `CursorFeed` extends it, `CursorFeedProofs` | done, all safety properties proved |
| F | `TagIndex`, `TagIndexProofs` | done, both invariants proved |
| G | `Disclosures`, proved about in `CalculationsProofs` | done, the invariant proved |
| H | `Maintenance`, `MaintenanceProofs` | done, both invariants proved |
| I | `TextTags`, `TextSearch`, `PollInterval`, `CursorQuery`, `DartStatements`, `SecStatements` | pure parts, done |
| J | `Calculations` extends all of I, `CalculationsProofs` | done, every property proved but that a company is found by its name |

The pure parts use folds and recursive functions, never RECURSIVE operators, so that theorems about
them are possible. What is left are the parts listed in 7, of which the mapping of account names in
`financials/` is the largest.

## 3. Modules and the code

**`SourcePolling`.** `run[r]` is a `_run_source` call: `queued` (semaphore) -> `fetching` (HTTP) ->
`prepare` (reading known keys) -> `ingest` -> `save` -> `log`, the last three in the write lock's
queue `writers`. `Finish` is the code between the end of the `try` and `_save_state`: no await, so
leaving `_running` and changing the state are one step, but the save is a later one. `st`/`override`
are memory, `disk`/`diskOverride` the columns, `stored` the committed content. A feed's content is
a version number and its ETag that number. `Crash` drops memory, `init_state` reads it back.

**`SymbolFetch`.** `task[t]` is a `_run_symbol` task, `inflight` the registry. A task ends (`done`)
before its callback removes it (`Reap`). `gate[s]` is the queue of `_paced`, `gapOver` says whether
`request_gap_sec` has passed. `state[k]` is `last_fetch_at` as seen by the cooldown; `lately` is the
truth it is compared with. `dueOrder` is the order by `next_poll_at` of the due symbols, as a relation. `stored` is
the table `symbol_fetch_state`; `Restart` reads it back, `lost` names the requests whose row was not
yet written.

**`WatchTargets`.** A PUT is two steps, commit and mark; a load is three, the call of `targets()`,
the rows, and the merge with the names in memory that also clears the flag. `missed` remembers that
the last mark fell into a load.

**`ArticleStore`, `CursorFeed`.** An ingest is `Begin` (clock, age limit), `ReadKnown` (known keys,
derived tags), `Lock`, `StoreItem` for every item, `Commit` or `Fail`. `db` is committed, `work` is
what the writer's connection sees. The derived tags of an article are represented by the text they
were computed from, so "tags match the text" is comparable. `purge` deletes source by source in
batches. `CursorFeed` adds a consumer: `Connect` with 0 or `latest_id()`, `since`.

**`SingleFlight`, `MemoryCache`.** `SingleFlight` is what callers may rely on: one loader per key,
who shares its outcome, success or not; only values are remembered, and may be forgotten at any
time. `MemoryCache` is `get_or_load` with expiry, LRU order, bound and shield; `Remembered` maps its
entries to what is remembered.

**`TagIndex`.** One action per stretch between awaits of `put_aliases`, `refresh_symbols`, `load`,
`retag`, `retag_changed`, the start of the server, and of an ingest. `table` is the committed
directory, `index` what `SymbolDirectory` tags with, `edit[e]` an edit or refresh on its way from
snapshot over SELECT to the new index, `retag[t]` a task with its candidates or its last id, and the
batch it has read. `queue` is the write lock with its waiters in order. An article has `fixed`
(source, search) and `derived` (dictionary) tags. Known races are remembered in two history
variables, so that the properties say everything else. An article is `spoiled` when
1. it is committed with tags of an index that was replaced while it waited for the lock,
2. its summary is replaced while a retag waits that has read the old text,
3. a name in it changed in a load that overlapped another one, so that no task's changes have it,
4. the retag that should have renewed it broke off because an article of its batch was purged,
5. a restart cut the retag off; the start renews only what its own merge of `aliases.yaml` changes,
   or everything if the rules (stop names) changed.

An article that is written again with the right tags is no longer spoiled, unless another task waits
with a batch that has it wrong.

The index is `behind` when a load was overtaken by another that had selected later, or when
`apply_manual_aliases` failed after the remote lists were committed: then these lists are not
loaded, and what other edits have selected before is older than they are.

**`TextTags`.** What an index holds (`_rebuild`), how names are found in a text (`tag`), and which
articles an incremental retag looks at (`changes_since`, `_candidate_terms`). Tokens are given:
splitting text into words is not modelled; capitals, what stands between words and names of digits
only, which are not indexed, are.

**`TextSearch`.** The other direction, letter by letter: `build_search_terms` for a company (remarks,
Korean legal forms, and `strip_corp_suffixes` with the commas, periods and spaces that go with a legal
form), `_text_clause` (what the database finds) and `is_text_symbol_match` (what counts). Its last
operators say that the two agree, that a company is found by its name without the legal form
(`stems` are these names, given with the company and not computed by the model), and just when a text
with the ticker is the company's. It shares the rule for Korean particles with `TextTags`.

**`Disclosures`.** `run` is one fetch of `DartCollector` and the ingest behind it, `seen`/`seenDay`
the collector's memory. A receipt number is a day and a number 1, 2, 3... of it (`seen` is of one day,
so it holds the second part only), and pages show them newest first.
`lost` and `beyond` are histories: the items of a failed ingest, and what a page limit left out.

**`Maintenance`.** `pc` is the place of `_maintenance_loop`: health, alert, daily check, then each
job, with the backup split into copy, compress, replace, unlink and rotate. Hours are before, at
and after `maintenance_hour`. `done`, `broken`, `checked` and `silenced` are histories: completed
backups, days cut off, days whose hour the loop saw, and alerts that were lost.

**`PollInterval`, `CursorQuery`, `DartStatements`, `SecStatements`.** Operators named after the
functions: the wait of a source in minutes of the week; one page of headlines; the periods and
amounts from DART reports; the periods, filings, amounts and balances from EDGAR facts. Their last
operators state what the result is for, against a direct definition (the sessions themselves, all
matches, the true amounts). Two things of `TextTags` and `SecStatements` are named apart from where
they are used because the proofs speak about them: `FitsAt` and `LongestFirst`, the two halves of
`_tag_ascii`, and `Earned`, what a company earned between two quarters.

**`Calculations`** puts the pure parts together: its constants are the inputs, `input` is one of them,
chosen once by one action per kind, and its properties say what holds for it.

MC modules give constants their values; `*.cfg` files name the specification and properties.

## 4. Runs

| Run | Instance | Shows |
|---|---|---|
| `polling_safety` | one feed, 3 runs (2 manual), 2 versions of which the second is blank, 2 queued PATCHes, 1 crash | `OneRunPerSource`, `EtagCovered` (no 304 for content that was never stored), `DatabaseCatchesUp` (each change of memory is saved or still in the queue), `EtagsAdvance` |
| `polling_fair` | two feeds, one slot, 2 versions | `PolledForever`; `FinalContentStored`: a source whose requests and transactions succeed now and then ends up with what its feed shows, whatever the other one does |
| `symbols_safety` | one source, two symbols, 2 tasks, 1 pruning, 1 restart, switches | `OneJobPerKey`, `PacedRequests`, `CooldownUnlessForgotten` (across restarts too) |
| `symbols_fair` | the same without pruning and restart, one symbol and no source switched, one slot that global sources also take | `WatchedPolledForever`, `JobsEnd` |
| `watch_targets` | 2 clients, 2 symbols, 2 callers, 3 PUTs, 2 directory changes, 1 restart | `NamesCurrent`, `StaleOnlyByOverlap`, `RegisteredInTheEnd` |
| `articles` | 2 feeds that share 2 articles, 2 ingests, 2 ticks, ids up to 3, purge batches of one, a consumer with pages of one | `TagsMatchText`, `NothingPending`, `KeptByAnyFeed`, `ComesBackOnlyLate`, `CursorComplete` |
| `cache` | 2 callers, 2 keys, room for 1, 3 ticks | `AnswersFresh`, `ImplementsSingleFlight`, `EveryCallEnds` |
| `tag_index` | 2 names, 2 texts, 2 ids, 1 alias editor, 2 refreshes, 2 retags in batches of one, 2 edits, 1 restart with other stop names | `StaleIsRenewed`: stale dictionary tags are on the way of a retag or spoiled by one of the five races; `IndexFollowsTable` |
| `tag_index_source_tags` (violation) | an alias editor, a feed and a search | `SourceTagsKept`, see 6 |
| `disclosures` | pages of 2, 2 pages, 5 disclosures a day, 2 days, 2 failures | `SeenIsStored` (with the comment in `fetch` that below a seen page all is seen, but for the page limit), `TodayGetsStored` |
| `maintenance` | 4 days, 2 backups kept, 2 failures, 2 changes of health | `FilesAccountedFor`, `BackupOrCause`, `LastingChangeTold` |
| `calculations` | the inputs below | `CandidatesSuffice`, `NamesDecide`, `NoOpeningSlept`, `PagesComplete`, `DartQuartersTrue`, `DartPeriodsFollow`, `SecStatementsTrue` |

Inputs of `calculations`: pairs of directories of up to three names that overlap, share words, hide
each other, must be written in capitals or are numbers, with titles of up to four words or tokens of
up to six letters; companies whose names begin with their ticker or hide it, with legal forms behind
commas, periods and spaces, one or two of them, remarks and two scripts, in titles of three pieces with
a summary; every seventh minute of a week in summer and winter for three markets (seven has no divisor
in common with the step of the scan); tables of four rows with caps of two; reports on two bases with
any of them missing and amounts of either sign; windows of up to twelve periods on a day of any month,
for fiscal years that end in any month and reports that come up to six months later; dates of any of
the half-year and annual reports (first and third quarters state none, `model.py:50`,
`docs/API.md:194`); companies with eight reports whose tags change up to three times, between any two
of them, with restatements, negative amounts, minority interests and with or without three-month
amounts and totals of liabilities.

### Bounds, and why they are enough

* Identities (`Runs`, `Tasks`, `Jobs`) bound concurrency. Overlap needs two runs of a source, a
  third shows what a queue behind the overlap does. With too few identities a tick could not start
  its runs, so liveness runs give every source one and take no manual refreshes besides.
* Versions: two are needed to see an older validator come back; a blank one is needed because it is
  kept without anything being stored.
* One crash: after it the process starts from the table, so a second begins where the first did.
  `MaxRestarts` also ends the use of `stored` in `SymbolFetch`: no row is read after the last one.
* Streaks are counted to 1: the model only tells zero from not zero; `PollInterval` has the lengths.
* Articles: two keys, one of them undated and one shared with different texts; three ids allow a
  purge and a second life. The clock has one tick for the shorter retention, two for the longer.
* Directory: one name of the users and one of the remote lists, since the two kinds of edits treat
  them differently; two edits, by any two of an alias editor and two refreshes, make overlapping loads;
  two ids make a batch beside the one being written.
* Disclosures: five on pages of two exceed the limit of two pages and let a page shift while it is
  read; the second day shows that another list is asked for then. Two failures: a failed ingest and a
  restart after it.
* Backups: two kept of four days, so a day without one lies between kept ones.
* Texts: terms of at most three letters have to stand apart instead of ten, and names of two letters
  count instead of three, so that short texts have both kinds.
* The clock, the ids, the edits, the days and the filings run out, so runs of the article store, of
  `TagIndex`, `Disclosures` may really stop there, and those of `calculations` stop after one input:
  these (and only these) have `CHECK_DEADLOCK FALSE`. All others are checked for deadlock.
* Symmetry is used in safety runs only, for identities that no definition names.

### Fairness, and why the code justifies it

Weak fairness: loops turn (they catch every exception but cancellation), time passes (a poll comes
due, a gap elapses), HTTP exchanges end (httpx has timeouts), transactions end, tasks that can run
do run. Strong fairness stands for first-come-first-served waiting whose queue is not modelled: the
semaphore (asyncio wakes its waiters in order), and the loop's turn when all task identities are
used. Failures, crashes, refreshes, PATCHes, PUTs and new content are never fair. That a remote and
the database succeed now and then (`RemoteRecovers`) is the hypothesis of `FinalContentStored` and
nothing else. `RegisteredInTheEnd` uses that the directory is refreshed every
`symbol_refresh_days`, which sets the flag. In `MemoryCache` a load ends in whatever way.
`Disclosures` takes from `SourcePolling` that its source is polled for ever; failures are bounded,
so some fetch succeeds. `Maintenance` says that the loop goes on, and its bounded failures that a
message is delivered in the end or given up; time itself is not fair.

## 5. Proofs

Checked by TLAPS for every value of the constants that satisfies the module's `ConstantsAssumption`
(in J `CalculationsAssumption` and those of its parts): any number of sources, runs, versions, clients,
callers, articles, tasks, queue lengths, any texts, directories, tables, amounts and minutes, and any
bound. These assumptions say what the code's configuration or the meaning of the constants gives:
identities differ from the values that stand for none, limits and page sizes that must not be zero are
not, feeds list items of the shape collectors make, and in `SourcePolling` the identity of a run is not
that of a PATCH (`Runs`, `SetEnabled`), since both wait in the same queue. TLC evaluates all of them.

Every invariant and every safety property of steps that the runs check is a theorem, with the one
exception of `NamesDecide`. In A to H each comes from an inductive invariant (`Inductive` or `IInv`),
which TLC checked on the bounds of the run before it was proved; the properties alone are seldom
inductive. In J the invariant `InputInv` only says that the input is one the constants have; the work
is in the lemmas about the functions.

* **`SourcePollingProofs`**: `SpecTypeOK`, `SpecOneRunPerSource`, `SpecEtagCovered`,
  `SpecEtagsAdvance`, `SpecDatabaseCatchesUp`. `EtagCovered` needs that what a run holds is a version
  the source has shown; `EtagsAdvance` needs the order of versions along their way, remote -> run ->
  memory -> table (`VersionsOrdered`), and that order needs `OneRunPerSource`, since only then does
  no other run change the validators between a run's request and its end. `TagsOnlyIfSent` covers
  servers without validators, whose tag would otherwise seem to fall back, and `DownIsEmpty` the
  restart. For `DatabaseCatchesUp`, `Owed` says which save in the queue, or which PATCH behind it,
  brings what the table lacks; `Means` reads the queue as what the override will be in the end.
  Lemmas: `FinishType`, `FinishEffect`, `FinishKeeps` and `FinishCovered` say once what the end of a
  run does, for its five callers.
* **`SymbolFetchProofs`**: `SpecTypeOK`, `SpecOneJobPerKey`, `SpecPacedRequests`,
  `SpecCooldownUnlessForgotten`. A living task is registered under its key (`Registered`), which is
  why no two have the same; who is past a gate is the head of its queue, and the gap before it is
  over (`HoldersFirst`, with `GatesKept`: a gate's queue is just the tasks of its source between
  asking and answering, each once). The cooldown rests on `Remembered`: an entry without a time
  belongs to a task at work, one older than the last request, in memory or as a row, is lost or about
  to be overwritten. Lemmas about queues without repetition and about what a round creates.
* **`WatchTargetsProofs`**: `SpecTypeOK`, `SpecNamesCurrent`, `SpecStaleOnlyByOverlap`. The
  strengthening is `LoadsFresh`: rows a load waits to merge are the watchlists as they are, or a mark
  is still to come, or the last one was missed.
* **`CursorFeedProofs`**: `SpecTypeOK`, `SpecTagsMatchText`, `SpecNothingPending`,
  `SpecKeptByAnyFeed`, `SpecComesBackOnlyLate` of the store, then `FeedImplementsStore` (the store
  with a consumer behaves like the store alone, by a step simulation) and `FeedCursorComplete`. What
  an open transaction has so far is the committed table and more, with larger ids and items young
  enough for their feed (`OnlyAdds`); the tags prepared for an item are those of the last text with
  its key (`TaggedLast`); what was purged was old for every feed that had it (`PurgedWereOld`).
  `CursorComplete` needs besides that the cursor is behind every id not yet handed out. The least and
  greatest elements of a set of numbers, by which pages and ids are chosen, are shown to exist by
  well-foundedness.
* **`MemoryCacheProofs`**: `SpecTypeOK` (bound, one entry per key, a future exactly where a caller
  leads), `SpecAnswersFresh` from `EntriesFresh` (an entry never outlives its last load), and
  `SpecImplementsSingleFlight`: every step of the cache is a step of `SingleFlight` or a stutter under
  `Remembered`. The steps that need it are the hit (the entry moves, the value stays), the load
  (insertion and eviction of others is one loader's answer and then forgetting) and the tick (expiry
  is forgetting). Lemmas say what removing, appending and evicting do to a sequence as a set.
* **`TagIndexProofs`**: `SpecIndexFollowsTable` and `SpecStaleIsRenewed`, the first from
  `DirectoryInv` alone: a snapshot that nothing has overtaken is the index (`SnapshotsCurrent`), and
  rows that are older than the table are known to be, or another load follows (`LoadsCurrent`). The
  second from `TagsSettle`: for every name in an article that is not spoiled, the tag is right or some
  task will look or has the right tag in its batch (`Settles`), and a task whose waiting batch is wrong
  by now has such a task behind it in the queue of the lock (`IsFollowed`): that is where first come,
  first served matters. `QueueSound` says that the waiters are in the queue once.
* **`MaintenanceProofs`**: `SpecFilesAccountedFor`, `SpecBackupOrCause`. `CopiesInWork` ties the
  copies to the place of the loop, `NewestKept` says that the rotation removes none of the newest
  (`FewerNewer` and its relatives are about cardinalities), `DaysSettled` that a day looked at is done,
  broken or at work.
* **`CalculationsProofs`**, one section for each part:
  - `SpecCandidatesSuffice`. Retagging: if no name of an article has another entry in the two snapshots,
    the same names fit at every word of its title and summary and at the beginning of every token
    (`FoundKept`, `HangulTagsKept`), so its tags are the same (`TagsKept`); a text with other tags thus
    mentions a changed name, and with it the longest word, by which it is looked for. That
    the scan itself is a recursive function does no harm: it is the same function of the same fits.
    Searching: whatever the rules accept stands in the text but for capitals (`MatchStands`; for the
    scan that skips overlaps, `NothingFound` argues from the last place where it could find something),
    and what has no line break stands in title or summary alone (`StandsInColumn`).
  - `SpecWordsAreNoTickers`, the first half of `NamesDecide`, for every company and every text in whatever
    capitals: a ticker has no comma, so it is the first of the terms and no other one differs from it in
    capitals only (`SymbolIsFirst`). Whether it has to be written as it is, is thus asked of it alone
    (`TickersAreNoWords`), and companies that are called by their ticker in other capitals are covered.
  - `SpecNoOpeningSlept`. Every session lasts twelve hours (`SessionGoesOn`, `FirstSession`), which is longer
    than a step of the scan, so the first step inside it, which the scan stops at, is less than a step
    behind its start; failures add at most the longest back-off.
  - `SpecPagesComplete`. Rows are in a total order (`RowsAreOrdered`); the first n of a set are n unless
    there are fewer (`FirstOfIsFull`, by choosing the earliest row that is missing), so a match that is
    left out has a full page or a full set of candidates before it (`LeftOutRows`) or the first row of
    its title (`FirstOfTitle`).
  - `SpecDartQuartersTrue`. Amounts of reports are the sums of the true quarters (`Totals`), and each case
    of `_quarter` subtracts the right ones of the same basis (`ValueOfQuarter`).
  - `SpecDartPeriodsFollow`. For every month a fiscal year may end in, a quarter ends when the company's
    does or as many months too early as that year is off the calendar (`EndsIn`, `EndsEarly`), from which
    the months between two quarters follow (`PeriodsFollow`); and of the reports asked for so many are
    filed, whatever the delay (`EnoughQuarters`, `EnoughYears`, both by exhibiting as many keys).
  - `SpecSecStatementsTrue`. `FlowFacts` and `BalanceFacts` say which facts there are when a number of
    reports is in. Of an interval the latest amount under the first tag is picked (`FlowIsPicked`),
    and a difference is of one tag, the first that has both (`DiffIsOfOneTag`). If both amounts are
    restated or neither is, it is what was earned; if one is, the reports filed last with that tag are
    those that `Mixed` names (`DiffShown`, `AllValuesTrue`). `FiscalYearsAre` finds the
    years with their labels and from it every report its quarter (`AllReportsShown`); `BalancesAgree` goes
    through who reports a total of liabilities, minority interests and restatements.
  - `SpecSeenIsStored`, of `Disclosures`: `FoundWithoutGap` says that while the list is read, below a number
    found and above the top of the next page everything is seen or found; new filings only move that top
    up.

The assumption of `Calculations` types the inputs and says, besides, what a company can be: names of
the directory in hangul are spelled in letters and others in words; search terms have no line break;
symbols have no comma; tags stand in one fixed order, in which no two tags have the same place; amounts
are whole numbers. Which tag a report uses is free.

The attempt to prove `IndexFollowsTable` for more than one refresh failed at first, and TLC showed
why with two of them: `POST /symbols/refresh` starts a refresh whether one runs or not
(`api/v1/symbols.py:83`), and when one fails in `apply_manual_aliases` it leaves lists committed that
the rows another has selected already do not have. That other one then loads its rows, and nobody is
left to load the newest. `behind` counts this case, and the run has two refreshes.

Only model-checked:

* Liveness (`PolledForever`, `FinalContentStored`, `WatchedPolledForever`, `JobsEnd`,
  `RegisteredInTheEnd`, `EveryCallEnds`, `TodayGetsStored`, `LastingChangeTold`): fairness and ENABLED
  are out of the prover's reach. `ImplementsSingleFlight` is proved with the whole of `SingleFlight`'s
  `Spec`, which has no fairness; that calls end is `EveryCallEnds`.
* The second half of `NamesDecide`, that a company is found by its name (`FoundByName`): it compares
  what repeated cuts make of the letters of a name (`Without`, `Trimmed`, `strip_corp_suffixes`) with what
  the scan finds, for every name, and that needs induction over data, which the installed provers
  cannot instantiate.

`WatchTargets.TypeOK` is proved and so is not also run; `TagIndex`, `Disclosures` and `Maintenance` state
their types in the proof modules.

## 6. What was found

One statement of the documentation that the code does not keep is a run with `expect: violation`:
`docs/DESIGN.md:134` says that the tag of a source or search is added to an article that is stored
already. `INSERT OR IGNORE` (`pipeline.py:149`) drops it when the dictionary has given the symbol
before; when the name leaves the directory, the retag deletes the only row (`SourceTagsKept`).

Exceptions that a property names, each a place where the code does less than one might expect:

* `CooldownUnlessForgotten`: the nightly pruning of symbols on no watchlist also forgets their
  cooldown (`scheduler.py:635`), and so does a restart before the row is written.
* `TagsMatchText`: a batch that lists one URL twice stores the first title with the tags of the
  second (`pipeline.py:109`).
* `StaleOnlyByOverlap`: a mark of the watchlists that falls into a load is lost until the next one
  (`scheduler.py:339`).
* `StaleIsRenewed`, `IndexFollowsTable`: the seven races listed in 3.
* `SeenIsStored`, `TodayGetsStored`: a failed ingest loses its disclosures until a restart, a page limit
  what lies beyond it, and what is filed after the last fetch of a day is never listed.
* `PagesComplete`: with a text search, matches beyond the cap of candidates may be skipped for good when
  the cursor moves on (`query.py:249`); a repeated title is shown once.
* `NamesDecide`: a name of fewer than three letters is only found with its legal form
  (`MIN_BASE_NAME_LEN`), and one with a comma of its own not at all (`matching.py:69`).
* `CandidatesSuffice`: a name such as 나나 is not found in 나나나, since the rules look at occurrences
  that do not overlap (`matching.py:150`); this limits `NamesDecide` too.
* `FilesAccountedFor`, `BackupOrCause`: a failed job leaves raw or temporary backup files behind; a day
  whose jobs break, or whose hour the loop does not see, has no backup.
* `LastingChangeTold`: a message that is not delivered is not repeated, and a restart forgets that an
  alert is to be taken back.
* `DartQuartersTrue`: the fall of a cumulative outflow is shown as an outflow.
* `DartPeriodsFollow`, dates: first and third quarters state no date (`model.py:50`, `docs/API.md:194`),
  so they keep those of a calendar year. For a company whose fiscal year ends in another month,
  `docs/API.md:221` refers readers to `start` and `end`, and just these are wrong there: the quarter is
  dated up to eleven months too early, so it overlaps the one before, or lies before it, and leaves a gap
  behind it.
* `DartPeriodsFollow`, number: every quarter that the calendar has ended is asked for, at least one more
  than is wanted. Reports that come later than three months after the calendar quarter they are named
  for, as all of a company whose year ends in June do, may cost a period for every three months: in
  January, two quarters are wanted, and if reports take a month besides, only one is built.
* `SecStatementsTrue`: a difference of a restated and an unrestated amount is shown as a quarter
  (`sec.py:233`), for a while after every restatement, and for good when the tag changes in the second
  year so that one of the two amounts is never restated with it;
  years before the first report have a later year's label and filing; a restatement without a total of
  liabilities stands beside the old total.

Seen while modelling, and in no property: search terms of several words or more than ten letters are
found inside longer words too, though `matching.py:7` says that English terms have to stand apart; a
refresh that joins an earlier run may report no cause of its failure (`scheduler.py:303`); an
undated item that was purged is stored and delivered again (`pipeline.py:99`); `latest_id()` is the
id of the newest article by date, not the largest id (`query.py:173`); the closed-market interval of
global sources is not cut short at the start of a session, as that of symbols is; the request gap of
a source does not survive a restart.

## 7. Not modelled

* Failures of the small writes outside ingest (`_save_state`, `_log_fetch`, `symbol_fetch_state`,
  PATCH, PUT): they end the task or the request with an exception; ingest's rollback is modelled.
* The idle streak as state, hit counters, fetch_log's content: no decision that is modelled reads
  them.
* Splitting text into words, topic rules, ticker tags of feeds: regular expressions over Hangul and
  ASCII text, whose results are data for the modules.
* Sources with a fixed schedule (`scheduler.py:66`, `79`), whose wait is a constant and does not look at
  sessions.
* The SQL filters and the statistics of `query.py`; the mapping of account names, parsing, raw rows,
  shares from the cover page and free cash flow in `financials/`.
* The thresholds of `health()`; a change of daylight saving time during a wait.
* EDGAR's and Yahoo's collectors: they keep no state between fetches.
* `refresh_symbol`'s callers and their timeout (a timeout changes nothing but the answer).
* Opening and migrating the database, configuration, HTTP routing and authentication, formatting in
  the client, the web console: no concurrency and no state beyond what the modules hold.
