# ShardLure in TLA+

ShardLure ingests Cowrie (SSH honeypot) and journald logs into one SQLite
database, groups what attackers typed into scripts and campaigns, captures the
files they dropped, re-fetches their URLs, and serves the result over a web UI.
Several processes may share the database: a `live` server, command-line
ingests, an operator's `scripts --rebuild`. This directory specifies the parts
whose correctness rests on the order in which those processes read and write.

* [Inventory](#inventory) - the parts of the program
* [Modules](#modules) - what models what
* [Runs](#runs) - what TLC checks, the bounds, the fairness
* [Proofs](#proofs) - what TLAPS proves
* [Disagreements](#disagreements) - where code and comments differ
* [Not modelled](#not-modelled) and [Plan](#plan)

Paths are relative to `src/`; `store/` stands for `internal/store/`, and so on.

## Inventory

Each part: its state, its operations, who it interacts with, what makes it
hard, and what makes it correct.

**Campaign worker and lease** (`campaign/worker.go`, `store/campaign_lease.go`).
State: one `ingest_state` row (owner, expiry) and, per process, `leaseUntil`,
`versionChecked`, `recordDrained`, `regroupPending`, a wake channel and the last
edit seen. Operations: acquire at the start of a tick, renew at three places,
release on close, a fenced save. `cmd/shardlure/runtime.go` ticks it every five
seconds with a two-minute budget and a backoff after an error. Hard: the row
holds wall-clock times while a process compares monotonic ones; every store
call gets a time read before it waited for the writer lock. Correct: one process
believes it holds the lease; no grouping is saved by a tick that another
process interrupted; a takeover re-reads the normaliser version.

**Evidence recorder** (`store/campaign_evidence.go`). State: a cursor into the
events with an epoch, `session_script_lines`, `session_scripts`,
`campaign_evidence`. `RecordCampaignEvidence` reads a window outside the writer
lock and writes it in a transaction that re-checks cursor and epoch; a replace
(`clearCampaignDerivedTx`) empties the tables, moves the cursor and bumps the
epoch. Hard: the window is stale when written. Correct: behind the cursor each
command has its line exactly once, in the stored normaliser's encoding.

**Version reset and rebuild hold** (`store/script_version.go`). State: the
stored version, the hold's mark and deadline, `script_version_carry`. The reset
deletes session rows and lines in chunks, then stamps version, rewind and hold
in one transaction; the hold keeps regroups off until the recorder has passed
the mark and the sessions below it are settled, or a deadline passes, and then
moves each assignment from the old fingerprint to the new. Hard: many
statements, each its own transaction, with replaces, restarts and takeovers
between them. Correct: an unchanged script keeps its campaign; the hold ends.

**Script settling and families** (`store/scripts.go`, `script/`). A session idle
for ten minutes gets a fingerprint of its lines, in three phases (list, compute,
commit). Then new scripts are filed in batches, each under the closest of the nearest
representatives; the regroup rebuilds the Scripts view, and scripts without sessions are
pruned a chunk at a time. Hard: filing, view and pruning are fenced by nothing but a look
at the lease beforehand. Correct: a settled fingerprint is of all the session's lines;
its script is there; a family's representative leads it and is close; the view is that
of its snapshot.

**Grouping** (`campaign/group.go`, `store/campaigns.go`). `regroup` reads edits,
scripts and identities, `Group` classifies, `SaveGroupingAsLeaseHolder` replaces
the grouping if the lease, the epoch and the edits are still what was read. A
grouping starts from the last one's assignments and aliases: scripts, keys and
payloads that share sessions are united, an operator's removals and attributions
are applied, and each component gets the ID of the lineage that owns it.
Correct: an edit is never overwritten by a grouping that does not know it; every
edit is applied in the end and reaches the campaign it was made about; an ID comes
back with its evidence; who was removed stays out.

**Cowrie ingest** (`ingest/cowrie/`). State: offset, inode, size and head
signature per log, the fingerprint of each session, events and their actors'
totals. A pass opens the log, decides where to resume, reads, moves the rows of a
session whose fingerprint came late, drops lines the table has, folds the rest
into totals read before, commits, and saves the offset: seven steps, four of them
transactions. Hard: a crash between batch and offset, rotation in mid-pass,
copytruncate and regrowth, a torn last line. Correct: each line is stored exactly
once, the totals agree with the rows, nothing before an offset was skipped.

**Journal ingest and summaries** (`ingest/journal/`, `store/journal_summary.go`,
`actor/journal_summary_worker.go`). State: counters and usernames per actor, a
revision that triggers bump, a fold saved page by page. The daemon offers old
lines at its start, follows the journal, and offers recent lines when the follower
dies; a command-line run may offer lines beside it. Hard: four writers whose dedup
reads precede their transactions, usernames added behind the fold's cursor.
Correct: no line is counted twice; a label shown as current is of all usernames.

**Actors** (`actor/`). Pure aggregation of events into actors.

**File capture jobs** (`store/capture_files.go`, `capture_discovery.go`,
`capture/file_worker.go`). State: a discovery cursor, `capture_file_jobs` with
state, attempts and a lease (token, start, expiry, last clock), artifacts. A job
is claimed, archived and completed by its token. Hard: completion after the
lease ended, a clock moving backwards, a crash between copy and row. Correct:
an artifact is recorded once, a stale result never, a job is not lost.

**Retention** (`store/capture_retention.go`, `capture/source_scan.go`,
`capture/runner.go`). Removes sources, artifacts and their files, events and
finished jobs, beside everything above; `captureMu` and `writeMu` order the
goroutines of one process. A one-time backfill queues the uploads that discovery
passed while only downloads were jobs. Correct: nothing is removed that an event still to be
discovered, a queued job or another row needs.

**URL artifacts** (`store/artifacts.go`, `store/harvest.go`, `capture/worker.go`,
`capture/harvest.go`, `capture/hostgate.go`, `capture/space_gate.go`). State: a row
per URL with status, attempt, lease and backoff; a discovery checkpoint; the
harvest's cursor over rows, which reads fetched scripts for further URLs under a
quota per server and day. Hard: a fetch that outlives its lease, a crash in the
last attempt, rows that finish out of order under the cursor, two rows of one
file when retention removes one. Correct: attempts are bounded, a fetched row has
its file, every row settles, no script goes unread, the quota holds.

**Re-fetch schedule** (`store/refetch.go`, `capture/refetch_worker.go`). Hourly,
then six-hourly checks of a URL until the tenth day, daily after failures in a
row, under a lease whose end and check count are the claim's token. Correct: the
last claimant records, nothing is recorded past the age, the schedule ends.

**Fetcher** (`capture/fetch.go`, `urls.go`). HTTP and address policy.

**Sharing ledgers** (`store/bazaar_uploads.go`, `urlhaus_submissions.go`,
`threatfox_submissions.go`, `abuseipdb_reports.go`, `intel/*/share.go`,
`web/api_intel.go`). Read candidates, vet, look up, submit, record. Two buttons
report to AbuseIPDB: one address, or all suggested. Dashboard and command line share
URLs, indicators and samples with abuse.ch. Hard: candidates read before the lock,
another process between look and record, a POST whose answer is lost, a budget that
refused rows could eat. Correct: one report per address and window, nothing posted
twice by a process, our own submission stays marked as ours, the pool drains.

**Geolocation** (`web/geo.go`, `geo_mmdb.go`, `store/enrichment.go`). State: an LRU
cache with lifetimes, the set of addresses being looked up, `ip_enrichment` rows, two
settings. Every poll of a panel starts a prefetch of the page's addresses: claim what
is neither fresh nor in flight, answer from the local database, ask ip-api.com for the
rest under a cap, a number of permits and a time budget. Hard: polls overlap, and a
claim has nine ways out; a row read back must not renew itself. Correct: a mark has
exactly one holder; no location is shown beyond its lifetime.

**Enrichment and intel** (`intel/enrich/`, `intel/vt/`, `web/api_vt.go`). State: a row per
address and provider, a row per hash of a payload, per hash the request under way. An
operator asks for an address at seven providers, or for a payload at VirusTotal: read the
row, check the key, ask, store, or fall back on a row that has expired. Hard: several
lookups of a hash wait for one request, which may fail; keys are saved, and rows trimmed,
in between. Correct: one request per hash, no failure hides what is known, no verdict
gives way to an older one.

**Settings** (`settings/keystore.go`, `store/app_settings.go`, `web/api_settings.go`). A
table and a copy of it in memory. Correct: they agree whenever nobody is writing.

**Schema** (`store/sqlite.go`, `artifacts_v27.go` and the `migrate...` functions). State:
the tables, indexes and columns, the versions stamped. Every `Open` asserts the base
schema, climbs the rungs above the version it read, and heals what was added to rungs
that some databases had passed. Hard: nothing locks the ladder, so a daemon and a command
started by one update climb it together, and either may die on it; one rung drops and
rebuilds a table. Correct: an open store is complete, and no row or id is lost.

**Backup, restore, snapshot** (`backup/`, `store/snapshot.go`), **safefile**. A
staging directory under an incomplete marker is filled, synced, renamed into place
without replacing anything, and unmarked. Hard: a daemon that captures and retires
files meanwhile, a failure or a power loss between any two steps. Correct: an
output without a marker is whole; a reported success survives.

**Web** (`web/`). Handlers behind a drain, caches that refresh in the background,
an edit API that wakes the worker. Correct: the panel of samples to share offers
none that has been shared; the store is closed last.

**Health, metrics, live lifecycle** (`observability/`,
`cmd/shardlure/live_lifecycle.go`, `runtime.go`). Start, bind, seed, workers,
failure, signal, drain, exit status. Correct: a failure is not forgiven, a stop
that was asked for is no failure, and the process ends.

**Netmatch**, **config**: small and pure.

**Hosting scripts** (`scripts/*.py`). Operating-system side effects.

The subsystem that carries the program's own protocol - shared state, several
processes, long multi-statement operations - is the campaign worker with the
store under it. It is modelled first and in most detail; the file jobs with
retention come next, then each part that has several actors of its own.

## Modules

| Module | Models | Kind |
|---|---|---|
| `WorkerLease` | what the lease promises, with no clock | abstract specification |
| `CampaignLease` | the lease row, the two clocks and a tick's lease calls | detailed specification |
| `CampaignLeaseProofs` | theorems about `CampaignLease` | proofs |
| `CampaignPipeline` | what a tick reads and writes, over `WorkerLease` | composition |
| `CampaignPipelineProofs` | theorems about `CampaignPipeline` | proofs |
| `FileCapture` | file jobs, the file worker, the directory sync and retention | component |
| `FileCaptureProofs` | theorems about `FileCapture` | proofs |
| `SessionCaps` | one session's script under its caps, with retention between transactions | component |
| `CowrieIngest` | a pass over the log, rotation, and the other writers of its tables | component |
| `JournalIngest` | journal lines, lifetime counters, the paged derivation | component |
| `UrlCapture` | URL rows, the fetching worker, the harvest and retention | composition |
| `Refetch` | the re-fetch schedule and its workers | component |
| `StoreUpgrade` | opening a database of any age, from several processes | component |
| `RefetchProofs` | theorems about `Refetch` and `StoreUpgrade` | proofs |
| `AbuseReports` | reports from two buttons | component |
| `BackupBundle` | backup and restore beside a daemon | component |
| `ScriptFamilies` | filing scripts, the Scripts view and its pruning | component |
| `ServicesProofs` | theorems about `AbuseReports`, `BackupBundle`, `CowrieIngest` and `ScriptFamilies` | proofs |
| `CampaignGroup` | a grouping from the last one's identities, over evidence that comes and goes | component |
| `ShareLedgers` | what is shared with abuse.ch, from both processes | component |
| `GeoLookup` | the dashboard's geolocation: prefetches, cache, rows, settings | component |
| `IntelLookup` | lookups of addresses and hashes, and the settings they need | component |
| `LookupProofs` | theorems about `GeoLookup` and `IntelLookup` | proofs |
| `LiveProcess` | the live process, the server's drains and the panel's cache | composition |
| `LiveProcessProofs` | theorems about `LiveProcess` and `JournalIngest` | proofs |
| `FiniteOrder` | lemmas on `Min`, `Max` and images of finite sets, for the proofs | proofs |
| `MC...` | instances for TLC | |

`CampaignLease` **implements** `WorkerLease` (checked and proved until the wall
clock is stepped), and `CampaignPipeline` takes its lease from `WorkerLease`,
so the pipeline need not carry clocks.

### CampaignLease

`lease` is the row; `wall` and `mono` the host's clocks; `leaseUntil[w]` is
`Worker.leaseUntil`, on the monotonic clock because Go's `Before` and `Add` use
it; `now[w]` is the time a tick read last. Reading the clock and writing the row
are different steps (`BeginTick`/`Acquire`, `RenewRead`/`RenewWrite`,
`SaveRead`/`SaveWrite`), since a store call may wait for the writer lock between
them. `gen` makes an owner ID new at every start, as `leaseOwnerID` does.
`FailTick` is any store error or the end of the cycle budget, `Crash` the loss of
a process, `Close` its orderly release, `StepWall` a clock set forwards or
backwards. `intruded` and `unseen` are history: did another owner take the row
since this tick passed `holdLease`, or since the last version check.

### CampaignPipeline

One action per statement or transaction of a tick; `pc[w]` says which comes next
and `mem[w]` what the tick remembers from earlier ones. A tick goes

    BeginTick Acquire | CheckVersion ResetCarry ResetRows ResetLines ResetStamp
    | RecordScan RecordWrite | Renew | SettleList SettleCompute SettleCommit
    | ReadEpoch HoldMark HoldMeasure HoldCursor HoldDecide HoldClockStart
      HoldPending HoldRelease | Owe | Renew | RegroupEdits RegroupScripts
      RegroupIDs | Renew | Save | FinishTick

while the environment appends events, replaces them all (`--replace`), edits,
drops the stored version (`scripts --rebuild`), crashes, restarts, stalls a
process past its lease (`Stall`) and fails store calls (`FailTick`).

| State | Code |
|---|---|
| `events`, `lastID` | Cowrie command events; `sqlite_sequence` (ids are not reused) |
| `cursor`, `epoch` | `evidenceCursorState`: the recorder's row |
| `version` | the stored normaliser version |
| `mark`, `deadline` | the hold's `hold_hwm` and its deadline |
| `lines`, `rows` | `session_script_lines`, `session_scripts` (with the recorder stamp a settle compares) |
| `carry` | `script_version_carry` |
| `ids`, `minted` | `campaign_ids` of kind script; IDs issued |
| `edits`, `applied` | `MAX(campaign_edits.id)`; the last one a save applied |
| `checked`, `drained`, `pending`, `wake`, `editsSeen` | `Worker`'s fields |
| `young` | the ticks that were running when a row or clock was stamped |
| `home`, `forced`, `crossed` | history: where each script's campaign was; a hold was released early; lines landed between a reset's last delete and its stamp |

What is abstracted:

* A command is `<<session, n>>`, so two sessions never type the same script and
  an assignment is never claimed twice; `carryScriptAssignments`'s arbitration
  between sessions is therefore not reached.
* The normaliser is one encoding per version; a fingerprint is the set of lines.
* Of `Group`, what it does to script identities: keep, mint, drop. Keys, payload
  evidence, lineages, aliases and the content of an edit are left out.
* Only script lines are recorded, and they have no size; caps and the retention
  purge are in `SessionCaps`; families and pruning are left out.
* `ResetCarry` takes all its windows in one step: its statements are
  `INSERT OR IGNORE`s of fingerprints, and one settled between two of them has
  no assignment to carry.
* `SlowReset = FALSE` keeps a reset within its lease; the run with `TRUE` shows
  what happens otherwise (see Disagreements). `SettledAreWhole` is proved for both.
* `leaseLive` is `holder = w /\ ~lapsed`. With an unstepped wall clock this is
  justified by `RowRemembered` in `CampaignLeaseProofs`: a process that believes
  in its lease is named by the row, with the expiry it remembers. The save is
  fenced on the row itself; its time was read before it waited, so `Save` may
  succeed when `lapsed` is already true, as `Renew` may.
* A retry backoff is a `Stall`, or no step at all.
* After a crash the row names `Dead`, an owner nobody runs as; `DeadLapse` is its
  expiry passing.

### FileCapture

| State | Code |
|---|---|
| `events`, `lastID` | Cowrie file events; `sqlite_sequence` |
| `logged`, `source` | Cowrie's log, not ingested yet; its downloads directory |
| `cursor` | `file-downloads-v1`, the discovery checkpoint |
| `ceiling`, `progress` | `file-uploads-backfill-v1` (inode and offset); `NoRow` before it exists |
| `jobs` | `capture_file_jobs`, by `event_id` |
| `artifacts`, `evidence` | artifact rows (`of` is the event, or `Raw` for the directory sync's); the evidence directory |
| `pc`, `task` | a `FileWorker` and the job it holds in memory |
| `captureMu`, `inHand` | who holds the lock; what that holder works on |
| `streak`, `released` | `uploadBackfillFailures`, `uploadBackfillReleased` |
| `lost`, `claimant` | history: events whose file was gone before they had a job; who claimed a job last |

A tick of the worker goes `BeginTick Claim (Adopt) Copy Publish Complete`, or ends
in `Report` and `Complete` when something failed. The clock of a claim is read
before it waits (`BeginTick`), that of a result before it is written (`Record`,
`Report`). `Publish` to `Complete`, `SyncCopy` to `SyncRecord` and
`PurgeArtifacts` to the last `RemoveEvidence` each hold `captureMu` and are
several steps because a crash may fall between them; `Copy` holds nothing, so
the source may go, or evidence be purged, between it and `Publish`.

What is abstracted:

* Files are content-addressed, in both directories: a file is its content.
* Capture is switched on. Retention starts when the seed has returned
  (`live_lifecycle.go:57-71`, `runtime.go:336`), and the seed's runner passes the first
  discovery, whose transaction writes the backfill's row: `Seeded`.
* No ages. Anything the guards let retention remove may be old enough, so the
  model removes more than the code does.
* `MaxTime` stands for all later times (`Later`): a lease or a retry that would
  reach past it ends there.
* Processes share the database, not `captureMu`, so a run with retention has one
  process (`RetentionAssumption`): the code orders a deletion with a publication
  inside one process only, and one `live` server is what it is deployed as.
* Transcripts, TTY logs, temporary files, the space gate, the command consumer
  of the event ceiling and capture switched off are left out. `malformed` is a
  download whose metadata is refused.
* Where the code claims the oldest due job, ties in time are broken by an order the
  code leaves to the index: `First` is the set of jobs it may take.
* Initially discovery, for downloads only, has passed `OldEvents`: a database
  from before uploads became jobs, the case the backfill exists for.

### SessionCaps

What `CampaignPipeline` leaves out of the recorder: `kept` is the session's rows of
`session_script_lines`, `script` its row of `session_scripts`, `tick` what the
worker is at and what it read. A line is its length. `ScanWindow EncodeLines
FlushWindow` are the two phases of `RecordCampaignEvidence` (`EncodeLines` is the
read of `sessionAtCap` between them), `ListIdle JoinLines SettleRow` a settle,
`ResetScript` a version reset chunk by chunk. One worker runs at a time: two are
`CampaignPipeline`'s subject. `AgeEvents` and `PurgeSession` are retention.

`whole` is false once retention has taken a command the recorder had not read, or
the session's row: the code's comments accept that what is recorded afterwards is
then a suffix. That includes one case the comment at
`store/campaign_evidence.go:143` does not name: a full session purged between the
two phases, whose later lines, already skipped, are not recorded.

### ScriptFamilies

| State | Code |
|---|---|
| `use` | `session_scripts`: which script a session's lines make now, and which it settled to |
| `scripts` | `scripts`: family, distance to its representative, `first_seen` |
| `families` | `script_families`: sessions, capped variants, whether it links |
| `pass` | a worker's tick: its stage, the batch and representatives it read, the rows it will write or drop, its orphans |
| `turn`, `met` | whose lease it is; history: what overlapped another worker's tick |

A tick is `BeginTick`, after an upgrade `ResetRows* ResetScripts* ResetFamilies*`, then
`RecordLines* Settle`, `ListScripts AssignOne* WriteFamilies`, perhaps `SaveRegroup
SnapshotFamilies DropFamilies* UpsertFamilies*`, `Proceed OrphanCandidates PruneChunk*`
and `EndTick`, which may come at any step. Only the steps that look at the lease ask for
`turn`; a worker that stalled goes on with the others. A script stands for its
fingerprint, and distances are numbers; what a script's tokens are is left out, as is the
lease's own row, which `CampaignLease` has.

### CowrieIngest

| State | Code |
|---|---|
| `line`, `inodeOf`, `content`, `torn` | Cowrie's log and its rotated siblings |
| `istate` | `ingest_state`: inode, offset, head signature |
| `bound`, `rows`, `total` | `cowrie_session_hassh`, `events`, `actors.event_count` |
| `stage`, `frame` | the step of a pass and what it has read |
| `outer`, `todo`, `failed`, `seeded` | a pass suspended for the rotated siblings, those left, and the daemon's flags |
| `ingested`, `purged`, `blind` | history |

A pass is `Poll Examine (NextFile ...) Read ReconcileSession* Reconciled Dedup Fold
CommitBatch SaveOffset`, from any of which it may fail (`FailPass`) or the process
die (`Die`). A line is its number, which stands for the identity tuple the dedup
compares; `copy` tells events of the same line apart, as their ids do in the table, where
nothing relies on the order of ids; an actor is an address or the one fingerprint, and of its totals only
`event_count` is kept, as the others are folded in the same place. Left out: the
purge of `cowrie_session_hassh`, campaign rows a reconcile rewrites, notes,
administrators' addresses and the startup repair. `blind` names the inodes
truncated in place where nothing the code saves could tell: before the offset has
passed a whole head signature, or under a pass that has the file open.

### JournalIngest

`journal` is what `sshd` logged and `aged` how much of it retention no longer
keeps; `stored`, `row`, `users`, `summary`, `published` are the tables, with the
triggers of `journal_summaries` in `OutOfDate` and `NewRevision`: a revision per row of
`actor_users` that comes or goes. A transaction is stated per actor, by what it adds
(`Appended`) or leaves (`Rebuilt`), not line by line; of a fold, the set of names
taken in and how many were taken. The daemon goes
seed, follow, gap, follow; `offer` and `offering` are a batch whose dedup read
precedes its page transactions, and a command-line batch may run beside it.
`cursor` and `page` are the derivation's lap; `Advance` is one transaction of it,
a page of usernames or the publication.

Left out: the label itself (`published` is what it would be computed from), the
resident collector, which only caches, and the actors of accepted logins (actor 0).
A line logged between the gap batch's `journalctl` and the follower's start with
`-n 0` is picked up at the next start, as in the code. `Overlap` says whether
retention is shorter than the thirty days the start re-offers (`runtime.go:241`): purged lines
are then offered and counted again, which `README.md:57` (re-running an ingest
dedupes) does not foresee. The run sets it `FALSE`.

### UrlCapture

| State | Code |
|---|---|
| `command`, `discovered` | command events with their URLs; the discovery checkpoint |
| `artifact` | `artifacts`, by id, with status, attempt, what is left of lease and backoff, ages up to the point that matters |
| `disk`, `unlink` | evidence files by content; those of rows just purged |
| `harvest`, `sources` | the harvest's cursor; candidates of the run in progress |
| `job`, `fetching` | the worker's claim; the host the re-fetch worker holds in the gate |
| `guard`, `roomy` | `captureMu`; the space gate |
| `fetches`, `read`, `unread` | history |

A fetch is `Claim Fetched Publish Complete`, or ends in `NotFetched` or `DropFetch`;
a closed space gate means the worker takes no step. `PurgeRows` and each `Unlink`
are separate since a crash may fall between them, and hold the guard throughout.
Left out: rows whose URL names no server (settled at once as failures), manual
re-queueing, and what the harvest's parser accepts as a URL.

### Refetch

`schedule[u]` is the row of `refetch_schedule`, `claim[w]` what a worker holds of
it, `sample` the fetched artifact rows (a rotated body gets the next epoch).
`NextRefetch` is the code's rule with its constants as parameters. The worker goes
`ClaimRefetch`, then `ReleaseRefetch` when the host is busy or `BeginFetch`, then
`PublishBody CompleteRefetch`, or `FailedCheck`; `Abandon` is a death or a failed
publication. `Seed` is a transaction of its own after the first capture's, and the
two parts of a purge use one cutoff. Bodies are compared only, so of those nothing
holds one stands for all.

### StoreUpgrade

`objects` is `sqlite_master` with the columns of its tables, `stamps` the table
`schema_migrations`, and `opener[p]` where in `Open` a process is: the rung and its
statements still to execute. A rung with its own transaction is one step (`Transact`,
`MigrateArtifacts`); the others go statement by statement, and `ReadColumns` and
`AddColumn` are apart, because another process may add the column in between, which ends
the Open. `Leave` is a failure, a busy database or a death at any point. Objects that are
only ever made together have one name. A rung's statements are executed in one order, which adds
columns before it makes indexes and drops last, as the code does.
`Inherited` are the databases that earlier builds left. `artifacts` and `seq` are there
because v27 rebuilds that table; an open store writes first sightings and rotated
payloads to it, and purges. Left out: rungs that only rewrite rows (v3, and the backfills
of v16 and v17), and the tables that are made on first use.

### AbuseReports

`ledgerRow` is `abuseipdb_reports`, `gateHolder` the striped gates, `lane` the flag
that admits one batch, `call` a request's address and step. A target goes
`AcquireTarget CheckTarget SubmitReport RecordReport` with the gate held from the
look to the row; `NextTarget` and `Returns` let it go. The pacing between
submissions is not a step of its own. Command-line reports, which take no gate, are
left out: they may repeat a report.

### BackupBundle

`active` is the directory being made and `at` the step; `holds` and `durable` are
what a name contains and what a crash would leave of it, `place` and `placed`
likewise for the rename. `refs` are the rows of the snapshot, `plan` the inodes
inventoried, `rowed` and `born` the daemon's rows and files meanwhile. Both commands
use the same actions where the code does; `CrashMachine` leaves anything not synced
old, new or, except for a removal, torn. Logs, downloads, TTY logs and configuration
are the entry `other`; contention for names inside the parent directory is left out.

### LiveProcess

`main`, `verdict`, `cause`, `workErr` are `runLiveLifecycle`; `server`, `leaving`,
`stopping` are `RunContext` with the drains of handlers and of background
refreshes; `work` is the seed and then the workers; `cache`, `refresh`, `request`
the panel of samples to share with `swrCache`; `ledger` is `bazaar_uploads`. What the
seed, the workers and a request do otherwise is a step that may fail. A reply that
says a sample was sent while its ledger write failed is not counted as `told`. The
other caches of the web server are not modelled.

### CampaignGroup

`seen` is what each recorded session saw (its actor and its values), `unread` the payload
values whose file cannot be read, `assign` and `aliases` the saved `campaign_ids` and
`campaign_aliases`, `edits` the log of edits, `campaigns` the saved campaigns with their
members, `noted` (history) the last grouping with what it was computed from. `Regroup` is one pass of
`worker.regroup` and `Group`: `Linking` (what links), `SessionUnion` and `Unite` (the
union-find, with the lineages that may stand in one component), `Kept` (removals, to a
fixpoint), `Ranked`, `Reserved`, `Minted` and `Attached` (who owns an ID and which
name goes with it), `Attributed`, `Saved` (what the next pass will start from). The
environment records, purges, loses and finds evidence and edits campaigns through the
checks of `handleCampaignEdit`. Left out: how the classifier makes families of
payloads, and a member's reasons, times and counts.

### GeoLookup

`poll[p]` is a prefetch (`todo`: addresses still to go over; `need`: those it has
claimed), `job` the lookups begun, `inflight` the resolver's map, `cache` its entries
with their order of use, `row` the table, `view` a panel that reads what is known of one
address. A prefetch goes `Begin Claim* Claimed`, with a local database `Sweep*
EndSweep`, then `Launch` and, when its budget is over or its lookups are done,
`BudgetEnds` and `EndPrefetch`. A lookup goes `Enter Ask` and one of `Locate Save`,
`Reject`, `Fail`, `CutOff`; without a permit, or late, `Drop`. A panel goes `Look`, or
`Look ReadRow Remember` where memory knows nothing. The settings are read when a poll
begins, after the sweep, at `Enter` and at `Ask`, and may change between any two.
`answered` is history. Where an address is located does not matter; an hour is the unit
of the lifetimes, whose order (`GeoAssumption`) is all that is kept of them. Left out:
private addresses, which are answered without a lookup, and failures of the database
file.

### IntelLookup

| State | Code |
|---|---|
| `saved`, `memory`, `writeMu`, `save` | `app_settings`; the `Keystore`'s copy; its lock; requests that save a setting |
| `intel` | `ip_enrichment` and `payload_intel`: when a row was fetched, whether what it is about was found, in which layout a verdict was kept |
| `flight` | `vt.Resolver.inflight`: a hash's current `Once`, whether it is still in the map, whether somebody runs it |
| `lookup` | a request under way: its step, the row it began with, what it was answered, and (history) whether it sent a request and whether a row was there that retention has not taken |

A save goes `RequestSave` (or `RotateToken`) `Lock Persist RememberSetting Unlock`. A lookup
goes `Inquire ReadCache` and, for an address, `Fetch`; for a hash `CheckKey Join Lead Fetch`
or `Join FollowLead`; then `Answered Keep`, or `Unanswered GiveUp`, or `Declined`, and
`Respond`. Each of a hash's reads of the cache may fail (`Misread`, `FailsToReadAgain`). `Test` is the button that tries a key, `Glance` and `Decorate` show what is
cached of a hash. An address stands for a public address at one provider, since each
has a row and a request of its own; `Keyless` are those at a provider that needs no key.
The key is read when it is needed, so a save may come between any two steps. `Trim` is a
chunk of retention, `EndAndStart` a restart of the process. One key setting stands for all;
`knob` is any other setting. Left out: what an answer says beyond found and not found,
private addresses, and the validation of what is saved.

`Lookup` of a hash never tells the fallback of a failure from a fresh answer; neither does
the model, but `shown` has the row's date.

### ShareLedgers

A behaviour is one channel's. `fetched` is the fetched rows, `table` the channel's
ledger, `provider` what abuse.ch has, `share[s]` the run of a dashboard request or of
a command, `posted` (history) what each process has recorded. A run goes `Click` or
`RunCommand`, `TakeLock`, then per candidate `Examine` (`Lookup`, `Note` for
URLhaus), `Submit`, `Record`. Any call may fail, be cancelled or have been taken
without an answer (`Mishap`); the process may die. A row's `age` is in days and does
not change during a run; `shape` is what the classifier says of the file. The content
of a submission, dry runs and statistics are left out.

## Runs

Two processes in the campaign runs: every disagreement the lease exists for is between a
holder and one other, and a restarted process is a third owner.

| Run | Asks | Bounds |
|---|---|---|
| `lease` | `OneBeliever`, `FencedSave`, `ImplementsWorkerLease` with the wall clock set once, to any value | times to 4, TTL 2, two starts each |
| `lease_retake` | `FreshCheckSave` - violated | times to 3 |
| `pipeline` | `RecorderExact`, `SettledWhole`, `IdentityKept`, from any of four scenarios | two commands, ids to 4, a stall and a failed tick; two sessions of one command, ids to 3, a stall; two commands, ids to 4, an edit, a crash or restart, a failed tick, a forced rebuild; one command, ids to 2, a stall and a forced rebuild |
| `pipeline_live` | `EditsApplied`, `HoldEnds` under `FairSpec` | one command, ids to 2, one edit, crash and failure |
| `pipeline_slow_reset` | `IdentityKept` when a reset outlasts its lease - violated | one command |
| `file_capture` | `NothingLost`, `BackfillHolds` | one process with retention, two old uploads of one file, a third event, one failure or crash, pages of one row, spans of two |
| `file_claims` | `FencedResult`, `JobsEnd` under `FairSpec` | two processes, one event, two attempts, one clock step, one failure or crash |
| `lookup_overlap` | `OverlapCostsOne` - violated | one hash, two lookups, nothing cached, nothing fails |
| `schedules` | `UrlCapture`, `JournalIngest`, `Refetch`, `LiveProcess`, `ShareLedgers` and `StoreUpgrade` | see below |
| `services` | `CowrieIngest`, `AbuseReports`, `BackupBundle`, `SessionCaps`, `CampaignGroup`, `GeoLookup`, `IntelLookup` and `ScriptFamilies` | see below |
| `share_rotated` | `NewIndicatorOffered` - violated | one URL whose payload changes |
| `live_verdict` | `GenuineFailureReported` - violated | one viewer, one uploader |

`schedules` and `services` each hold components that share no state. Their initial
state picks one (`focus`) and only that one moves, the others resting in one
initial state, so the run is the union of the components' own runs; fairness in
`schedules` is each component's, while it is in focus.

| Component | Bounds |
|---|---|
| `UrlCapture` | three URLs on two servers, one script that names two; three mixes of crash, retention, full disk, read error, busy server |
| `ShareLedgers` | two buttons and a command, one to three URLs on two servers (one private), batches and failure streaks of two; per channel one or two clicks, up to two mishaps, budgets of none or one |
| `CampaignGroup` | sessions, scripts, payloads and edits as the scenarios of `MCServices` say: bridges, purges, unreadable files, removals, attributions, renames to two names |
| `JournalIngest` | two actors, two usernames, pages of one; two or three lines, with a failure or crash, a command-line batch and a replace (one actor annotated), an unreadable row, or an ageing line |
| `Refetch` | one URL; two processes without retention, retention shorter than the schedule, retention longer with a death; phases at ages 2, 3 and 5, clock to 10 |
| `StoreUpgrade` | two processes, one URL, two or three Opens; a new file, a database older than the stamps, v15, v25 whose newest row was purged, v26 with one of that rung's objects, v27 without its last column |
| `LiveProcess` | one viewer, one uploader, one sample, one upload; the context may have ended before the start |
| `CowrieIngest` | two sessions, three or four lines, head signatures of two; a rotation with a mishap, a copytruncate, a purge or a replace beside it |
| `AbuseReports` | two addresses on one gate, two clicks, one batch, two mishaps, window 2, clock to 4 |
| `BackupBundle` | two files, two or three captures; a failure with a crash, a crash with damage, or a failure |
| `GeoLookup` | three addresses, two prefetches, one panel; pages of three and of one, a cache of two entries, one permit, lookups of two per call; mixes of polls, views, a setting saved, a restart and an hour that passes, with and without a local database and HTTP |
| `IntelLookup` | two addresses (one needs no key), one hash, two writers, two lookups at a time, lifetimes and retention of one, dates to two; two saves with a failure and a restart, two or three lookups with a failure, retention, an expiry or a save beside them, a row of an older layout, a key from the environment |
| `ScriptFamilies` | two workers, two sessions, four scripts (1 and 2, 2 and 3 near each other, 4 alone and not distinctive), one nearest representative, batches of two, chunks of one; sessions that change, a takeover, a replacement, an upgrade, an upgrade that a takeover overlaps |
| `SessionCaps` | caps of three lines and five bytes, lengths 0, 1 and 3; an upgrade and a failure, a replace with a retention, an upgrade with two retentions |

The properties:

* `OneBeliever` - until the wall clock is stepped, at most one process believes it
  holds the lease. `PruneOrphanScripts` is fenced by nothing else.
* `FencedSave` - no grouping is saved by a tick during which another process
  owned the lease, whatever the clocks did.
* `ImplementsWorkerLease` - the refinement above.
* `RecorderExact` - behind the cursor every command has its line, once and in the
  stored encoding, and nothing else has one.
* `SettledWhole` - a settled fingerprint is that of all the session's lines.
* `IdentityKept` - a save keeps the campaign of every session whose commands did
  not change, unless a hold ran out its deadline first.
* `EditsApplied` - an operator's edit reaches a saved grouping.
* `HoldEnds` - a rebuild hold ends.
* `NothingLost` - between a file event and its evidence nothing is lost:
  `NothingSkipped`, discovery and backfill together pass no file event without a job;
  `SourceHeld`, an unfinished job's file is still in the downloads directory if
  it was until the job was queued; `EvidenceKept`, every artifact row's file is there.
  `lost` names the events outside `SourceHeld`: Cowrie does not write a file it has
  already, so one delivered again may be removed between its log line and its job.
* `BackfillHolds` - no source goes before the uploads that name it have jobs, unless
  the backfill keeps failing.
* `FencedResult` - a result is recorded only by the process that claimed the job
  last, whatever the clock did.
* `JobsEnd` - every job ends, through a crash on its last attempt.
* `FetchesRationed` - a URL is fetched at most its budget of times while its row
  lives, however often a process dies or a command names it again, and a server's
  harvested URLs of a day stay within the quota.
* `FetchedIsRead` - every fetched row has its file, two rows of one file included, and
  the harvest's cursor passes no script that nobody read.
* `EveryUrlSettles` - no row stays in flight.
* `AttemptsCountedOnce` - a journal line has one row at most, and lifetime totals count
  each line once, those retention took included.
* `CurrentCovers` - a label shown as current was derived from every username behind
  its counters, each once, and from those counters.
* `DerivationSettles` - an actor whose row cannot be read stops no other actor.
* `ProvenanceKept` - a payload only scripts named never passes for a command's.
* `OnlyClaimantMoves` - a row is checked, failed or handed back only by the worker that
  claimed it last, and nothing else moves a row whose lease runs: a worker that was taken
  over neither records nor takes the lease away from its successor.
* `ScheduleEnds` - every schedule ends, and no payload is recorded past the age, beyond
  one lease.
* `StoreOutlives` - the store closes after the last request, refresh and worker.
* `PanelFresh` - the panel offers no sample that a reply had called shared before.
* `Drains` - once its context has ended the process exits; a failure before any signal
  is not forgiven, and a clean stop is no failure. `GenuineFailureReported` asks it of
  any failure.
* `CreditKept` - a URL recorded as our submission is never noted as another's listing.
* `PostsOnce` - no process is about to post what it has recorded.
* `PoolDrains` - once nothing fails, every acceptable candidate is recorded.
* `IdentityReturns`, `EditsKept` - the same rows and edits give the campaigns they gave
  before, whatever was grouped in between: a session that bridged two and was purged, a
  payload that could not be read for a while. An actor
  removed from a campaign stays out of it, and an operator's name is on the campaign
  that carries on what it was given to.
* `LinesCountedOnce` - replays store no Cowrie line twice, and totals lie
  between the rows held and those with what retention took.
* `OffsetEarned` - where the next pass over a file resumes, nothing before was left
  out, and of a session whose key exchange lies before it no row is left with the
  address's actor.
* `MarkHeldOnce` - an address is marked as being looked up while exactly one prefetch or
  lookup answers for it.
* `NothingOutdated` - no location in memory outlives the lookup that gave it by more than
  a row's lifetime.
* `RequestsShared` - a hash is never asked about twice at one moment, and the lookups that
  met in one `Once` send one request between them. Lookups that overlap without meeting in
  one send two: `OverlapCostsOne`, which asks for more, is violated.
* `KnownNotLost` - a failed request, one's own or another's that was waited for, does not
  take away the row a lookup began with, unless retention took it meanwhile. Three answers
  come without the row: the lookup's own last read of the cache failed (every read may),
  no key was set when one was looked for, also one cleared during the lookup, or a provider
  answered an address with an error of its own.
* `FamiliesHold` - a script's family leads itself and is close to it, while one tick runs
  at a time (`FamiliesLed`); a settled session's script is there, however late a prune
  comes (`SettledHasScript`); a rebuild leaves the view of its snapshot (`ViewRebuilt`).
* `UpgradeHolds` - an open store has every object that a rung makes or a heal adds
  (`SchemaComplete`); the rebuild of `artifacts` keeps every row (`ArtifactsKept`), and no
  id is given out again (`IdsAdvance`).
* `OneReportPerWindow` - an address with a fresh row is not reported again.
* `OutputTrusted` - an output without its marker is whole, through failures, crashes
  and, for a restore, a damaged bundle; and a reported success survives a crash.
* `CappedPrefix` - a session's script is the longest prefix of its commands within
  the caps, however windows, replays and resets fell.
  A settled script is all of its session's lines, through retention.

Why the bounds are enough. TTL 2 is the smallest with a half-life of its own, and
times to 4 let a lease be taken, lapse, be taken by the other, and lapse
again. Ids to 4 with two events let one replace happen, or two appends, in any
order with the reset; a window of one event makes the recorder stop between the
two. With one stall a former holder acts under its successor at every step; a
larger run (ids to 5, a stall and a restart, 11 million states) found nothing
new. Each interesting case was seen to happen: a hold released with something to
carry, a hold forced, a hold replaced between decision and release, a save
refused as stale and one refused by the fence. In the other runs a page, a
window or a budget of one or two makes work stop in the middle, two
lines or files are the fewest whose order matters, a head signature of two lines
tells a log too short for one from one that is not, and a cap that is reached by two
lines but not by one, or overshot by a long one, closes a session in both ways.

A forced rebuild and a stall meet in the fourth scenario, where two histories show
what they can do to each other:

* `crossed`: a former holder's window, read before a reset began, is still valid by
  cursor and epoch until the reset's stamp, and can land after the reset's last delete.
  Its lines then stay, in the old encoding. The comments at
  `store/script_version.go:39` and `:79` say the epoch and the lease exclude it; only
  the stamp moves the epoch, and the recorder's write checks no lease.
  `RecorderExact` speaks of the behaviours without it.
* `forced`, which is also set when a hold's deadline passes: a holder that stalled while
  deciding releases the hold of a first rebuild in the middle of its successor's reset.
  The rows are gone, so nothing seems unsettled, and the epoch has not moved, so
  `MarkUnchanged` agrees; the snapshot of assignments is dropped with the hold.
  `IdentityKept` speaks of the behaviours without it.

**Fairness.** `WF_vars(TickStep(w))`: `runOptionalWorker` ticks as long as the
process runs, whatever a tick returned, and a tick's steps are bounded by its
budget. `WF_vars(BecomeIdle(s))`, `WF_vars(DeadlinePasses)`,
`WF_vars(DeadLapse)`: time passes. A crash is followed by a start, since `systemd`
restarts the service. Nothing is assumed of the environment: events need not
arrive and failures are bounded in number, so that each of them is survived but
not an unending series. Ten minutes of idleness and thirty of deadline outlast
any tick in progress (two minutes), which is what `young` records.

In `FileCapture` the worker, discovery, backfill and the holders of `captureMu` are
weakly fair (goroutines of a running process, woken every few seconds) and so is
`Tick`; retention is not, as it sleeps a day between rounds, and failures are
bounded. Two old uploads with pages of one row make the backfill stop inside its
span, two attempts are the fewest with a retry, and one file named by several
events is what lets a purge remove a file another row needs.

In `UrlCapture` time passes, a purge finishes its unlinks, the other worker's fetch
ends and a full disk is emptied in the end (weak fairness); the worker's own steps
are strongly fair, because it polls every few seconds while retention's guard and the
host gate open again and again but not for good. In `Refetch` the clock and each
process's worker are weakly fair. In `JournalIngest` only the derivation is, which
runs every second. In `LiveProcess` the goroutines are, and a request or refresh in
flight ends because its calls carry timeouts and contexts; the 30 seconds of
`Shutdown` are the last disjunct of `ShutdownReturns`. In `ShareLedgers` a run goes on,
and the command is run again while it has candidates: what an operator's timer does,
not the program, so `PoolDrains` says what repeated runs achieve.

`CHECK_DEADLOCK FALSE` is set where clocks, events or troubles are bounded so that
the system comes to rest: the lease runs, `schedules`, `services`, `live_verdict`,
`share_rotated` and `lookup_overlap`.

## Proofs

Every theorem is of the specification the runs check, for every value of its constants
that satisfies the module's assumptions.

| Module | Theorem | Property |
|---|---|---|
| `CampaignLeaseProofs` | `TypeSafe` | `TypeOK` |
| | `SaveIsFenced` | `FencedSave` |
| | `AtMostOneBeliever` | `OneBeliever` |
| | `RowImplementsLease` | `ImplementsWorkerLease` |
| `CampaignPipelineProofs` | `SettledAreWhole` | `SettledWhole` |
| | `RecorderIsExact` | `RecorderExact`, given `~SlowReset` |
| `FileCaptureProofs` | `NothingIsLost` | `NothingLost` |
| | `BackfillIsAwaited` | `BackfillHolds` |
| | `ResultsAreFenced` | `FencedResult` |
| `RefetchProofs` | `TokenFencesRows` | `OnlyClaimantMoves` |
| | `ProvenanceNotPromoted` | `ProvenanceKept` |
| | `NothingRecordedLate` | `RecordedFresh`, a part of `ScheduleEnds` |
| | `UpgradesAreSafe` | `UpgradeHolds` |
| `LiveProcessProofs` | `StoreClosesLast` | `StoreOutlives` |
| | `PanelNeverStale` | `PanelFresh` |
| | `VerdictsAreTrue` | `VerdictTrue`, a part of `Drains` |
| | `EveryAttemptCountedOnce` | `AttemptsCountedOnce` |
| | `CurrentLabelsCover` | `CurrentCovers` |
| `LookupProofs` | `MarksAreHeldOnce` | `MarkHeldOnce` |
| | `LocationsExpire` | `NothingOutdated` |
| | `RequestsAreShared` | `RequestsShared` |
| | `FailuresLoseNothing` | `KnownNotLost` |
| | `VerdictsNeverGoBack` | `VerdictsAdvance` |
| | `MemoryFollowsStore` | `MemoryIsSaved` |
| `ServicesProofs` | `ReportsAreNotRepeated` | `OneReportPerWindow` |
| | `BackupsAreWhole` | `OutputTrusted` |
| | `LinesAreCountedOnce` | `LinesCountedOnce`, given one reader |
| | `OffsetsAreEarned` | `OffsetEarned`, given one reader |
| | `FamiliesStayTrue` | `FamiliesHold` |

None of these properties is inductive; TLC checked each strengthening below on the
component's instance before it was proved.

**CampaignLease.** The properties of believers and of the refinement speak of the time
until the wall clock is first stepped. `TypeOK` is the base of the other three.

*`SaveIsFenced`.* The property says nothing about states. The strengthening,
`IntrudedOut`, says that an intruded tick past `holdLease` cannot find its owner ID in
the row; it survives because a process takes the row only in `Acquire`, which starts a
new tick, and because an owner ID is used by one start of one process. `HeldAtNow` then
refuses the save. No clock appears in the argument: that is why steps of the wall clock
do no harm.

*`AtMostOneBeliever`.* Two invariants: `ClocksAgree` (without steps both clocks, and both
halves of every remembered time, are equal) and `RowRemembered` (a process whose lease has
not ended on its own clock is named by the row, with the same expiry). A row names one
owner, so there is one believer.

*`RowImplementsLease`.* Step simulation from the same two invariants and a bound on
`gen`: `Acquire` maps to `Take`, `RenewWrite` to a stutter or `Revive`, `Close` to
`Release`, `Tick` to `Lapse` or a stutter; the first step of the wall clock ends the
mapping by releasing the abstract lease.

**CampaignPipeline.** *`SettledAreWhole`.* A settle commits a fingerprint computed some
steps before from lines listed some steps before that; what protects it is the stamp
(epoch, id) the row got from the window that last changed it. `SettleInv` says that a
fingerprint is right as long as the row still has the stamp it was listed with
(`TickInv`), because a window that adds lines stamps the row anew, with a position that
is not yet `Past` (`RowInv`). A reset deletes lines too, without stamping: it does so only
after the rows are gone, and a row written during the deletion is `young`, so it is
neither idle nor listed before that tick is over. No lease appears in the argument, so it
holds for resets of any length.

*`RecorderIsExact`.* `ResetInv` says that while a worker resets, the lease is its own,
the stored version is not its own, and before the stamp no line is left. The first part
needs `~SlowReset`, as `pipeline_slow_reset` shows; without it two workers may reset at
once. A window is then written either under the cursor and epoch it was read at, or
refused, and a rewind forgets all lines with the cursor.

**FileCapture.** `FileInv` joins three parts. `DataInv`: ids are handed out once, and an
event without its job is still in front of the cursor or between progress and ceiling of
the backfill, with its file present or known to be `lost`. `ClaimInv`: a task's token
never exceeds its job's, and equals it only for the process that claimed the job last;
the clock does not appear, so leases that run out and clocks set back change nothing.
`LockInv`: what is between publication and row is guarded by `captureMu` of the only
process that purges (`RetentionAssumption`). The two action properties follow from
`FileInv` and a lemma per action on what leaves `jobs` alone. `ClaimsApart` says that
tasks of the same job have different tokens.

**Refetch.** `ClaimInv`: while a claim's lease runs, its row carries the claim's token
(lease end and check count) and the claimant is the last; and the lease was given while
the URL was younger than `MaxAge`. The last part is why a row that lay overdue for weeks
is settled by the claim and not fetched. `OnlyClaimantMoves` needs more, since a token
outlives its lease: `TokenInv` says that a row carries the token of the last claim on it or
of none, because the next claim's lease ends later than any there was. `ProvenanceKept` needs that a row's provenance
is inferred from rows that are there, or is the cautious one.

**StoreUpgrade.** What an opener read says nothing about what is there now, so
`UpgradeInv` speaks of what is behind it (`Behind`): everything the rungs below its own
make is there, as is what the executed statements of its own made, whoever made it.
`LadderInv` says the same of each stamp, which is what entitles an opener to begin above
it. Both survive every step of another process because objects only grow, except for the
three indexes that rungs drop and no rung needs, and for the rebuild, which drops indexes
and makes them again in its transaction (`RebuildMakes`). The amended objects are in
neither: only the heals, after the ladder, answer for them. `RowsInv` says that a table not
yet rebuilt has rows of epoch 0 only, so the copy changes none, and that no id exceeds
`seq`, so the mark carried over is the mark there was. The assumption on `Inherited` is what a
build promises that stamps a version: what the rungs up to it make, but for what was
added to them later, was there when it was stamped.

**LiveProcess.** `ExitInv`: an owner has a result exactly when it ended, a server that
joined is quiet and, no request being left to start one, has no refresh. `PanelInv`: the
pool a reader, a refresh of the current generation or the cache holds contains nothing a
reply had called shared, since the reply comes after the ledger's row and the generation's
increment. `VerdictInv`: what cancelled first is recorded with its reason.

**GeoLookup.** `MarkInv`: the claims of the prefetches and the addresses of the lookups
not yet answered are disjoint, each address has one at most, and together they are the
marks. It rests on `LookInv`, that the addresses a prefetch goes over do not repeat once
claimed, and on lemmas about `SubSeq`, `Append` and `Tail`: of what `Launch` begins and
lets go, nothing is in both and nothing is left out. `AgeInv`: a row, and one a panel has
read, is no younger than its lookup, and an entry's expiry is within a row's lifetime of
it. Of the cache the proof uses only that shortening, sweeping and touching add nothing.

**IntelLookup.** `IntelInv` has two parts. `KeyInv`: a writer holds `writeMu` from before it
persists until after it has remembered, and in between the table is one value ahead of
the memory. `AnswersInv`: who leads holds a flight that is open and led, and no two that
sent a request had the same flight (`Distinct`), so a hash has one leader; the answer in
hand is no older than the row; and what a lookup knew when it began is still in the table
or in its own hand. `VerdictsAdvance` is what the second part says of the step `Keep`: only
a leader stores, and he is alone, so nobody stored a later verdict while his request ran.
`KnownNotLost` needs the followers too: when the flight they wait for is over, what they
knew is in the table, since nothing but retention takes a row away. TLC checked
`VerdictsAdvance` and `MemoryIsSaved` on the component's instance as well; no run lists them.

**AbuseReports.** `OneReportPerWindow` alone does not survive: the report is sent on the
word of a look at the ledger some steps before. `AbuseInv` adds that a request past its
gate holds the gate of its address (`Gated`), and that an address looked up and not yet
sent still has no row within the window (`StillClear`). That survives another request's
`RecordReport` because that request would have to hold the same gate, and a tick of the
clock because rows only grow older. The argument is the same for one gate per address and
for shared ones.

**BackupBundle.** `BackupInv` follows a directory through its run. While it is staged
(`StageInv`, `CopyInv`), neither its place nor its rename is durable as an output, it is
marked, and every entry copied and synced is good on disk and in memory; only the entry in
hand may differ, and the database of a restore until its remap. Once renamed
(`Published`), each entry is settled - a crash has nothing to undo or tear - and the marker
stays, durably, until the rename is durable too. `Lasting` says that a reported output is
durable in place and in its missing marker, and that no restore is begun or published
before its bundle is there to stay. The last part is what keeps a new snapshot, which
changes what "whole" means, from being taken while an output of the old one is judged by it.

**CowrieIngest.** A line is written some steps after the dedup found it missing, and a total
some steps after its seed was read. `BatchInv` says that the batch has a line once, that
past the dedup the table has none of its lines, and that at the commit the seed agrees with
the events that are there *now*. What retention and the purge of orphans do in between
preserves this: the first only takes events, and counts in `purged` what it took; the
second resets a total whose actor has none. A reconcile moves as many events to the
fingerprint as it moves of the count (`MovedRows`). The offset appears nowhere in this
argument: whatever a pass re-reads after a crash, a rotation or a truncation, the dedup
decides, and that is why the theorem needs one reader. A second process - `ingest` on the
command line while the daemon runs - could commit between another's dedup and commit;
the run has one reader too.

*`OffsetEarned`* is about the offset alone, and `EarnedInv` follows it through a pass. A line
is dealt with (`TakenIn`) once its event was ingested or, for a key exchange, its session is
bound and has no event left with its address. `FrameEarned` says how far that goes for what
a reader has in hand: to the start when it reads; to the end, except for the lines of its
batch and the sessions still to be moved, until both are done; and so without exception
when it saves (`StatesEarned`). What was dealt with stays so (`Carries`): after a session is
bound no row gets its address again, because every batch in hand was stamped with the
bindings of that moment - the other reason for one reader - `--replace` stamps its own the
same way, and retention only takes rows. What can go wrong is the file. A rename moves an inode, so the claims are
about inodes, never paths; `Elsewhere` keeps a sibling's state off the inode the log has. A
truncation in place makes a saved offset false, and then `ShowsTruncation` holds: the state
has a signature, its offset is past the head, and the first line of the signature is not in
the file and never will be, since later lines are new. `ResumeEarned` shows that such a
state is never believed, by the size while the file is short and by the head after. A
truncation that no saved state shows, or that a pass with the file open straddles, puts the
inode in `blind`, about which the property is silent.

**JournalIngest.** `JournalInv` is, per actor, two facts and the label. `Totals`: events
are those retained plus those retention took, and the names ever tried are at most
`unique`, at least the rows of `actor_users`, and without an operator's notes exactly
both. The dedup inside the append transaction decides, so nothing is assumed of who
offers what: the read outside it appears nowhere. `FoldKept`: a fold of the present
revision is the set of names up to its cursor, counted once each; `PageCut` shows that a
page extends it to the names up to the new cursor. A name that comes or goes makes the
fold one of an older revision (`RevisionKept`), a line that brings none only outdates the
status. At the publication `Covers` compares the fold's count with `unique`, and since the
rows of `actor_users` lie within the names tried, equal counts make equal sets
(`CoveredNames`): that is what refuses an annotated actor whose names a replacement took.

**ScriptFamilies.** A prune deletes on the word of a list made some steps before, perhaps
under another holder of the lease. `SettledHasScript` survives because the delete looks
at the rows again, in its own transaction; the proof needs no lease for it, and names the
one thing that can break it, a reset that another tick overlaps. `FamiliesLed` does need
a tick of its own (`AloneInv`): a representative in the batch's list must still lead and
be there when the batch is written (`TicksInv`). A prune keeps it because a family whose
representative is unused is dissolved in the transaction that would delete the
representative, and a reset deletes scripts only while `versionDue`. `ViewRebuilt` is the
part of `TicksInv` that says what is left to drop and to write is all that still differs
from the snapshot.

**Assumptions.** Constants are natural numbers, positive where a zero would mean that
nothing is configured; `OwnerIsWorker`, `CallerAssumption`, `ItemAssumption` and the like keep a model value
apart from others; `RetentionAssumption`, `OldEventsAssumption`, `EventsAssumption`,
`ScenarioAssumption`, `GeoAssumption`, `InheritedAssumption` and the last conjuncts of
`JournalAssumption` describe the deployment and the initial data, as the module sections say.
TLC evaluates all of them in the runs.

**Lemmas.** `FiniteOrder` proves that a finite set of integers has a least and a greatest
element and that `Min` and `Max` return them, from the well-foundedness of inclusion; six
of the modules use it for cursors, windows, pages, caps and versions.

**Only model-checked.** Liveness (`EditsApplied`, `HoldEnds`, `JobsEnd`, `EveryUrlSettles`,
`DerivationSettles`, `ScheduleEnds`, `Drains`, `PoolDrains`) is beyond the prover, which
supports neither fairness nor `ENABLED`. So are properties that depend on what a fold or a
recursive function computes for every input: `CappedPrefix` (sums of lengths),
`FetchesRationed` and `FetchedIsRead` as far as they rest on the fold that inserts URLs,
`CampaignGroup`'s two (the union to a fixpoint), `PostsOnce` and `CreditKept` (candidates
filtered and sorted by `SelectSeq` and `SetToSortSeq`). `IdentityKept` spans a whole hold
and needs far more history than the recorder's invariant.

## Disagreements

Five runs exhibit behaviours that a comment of the code excludes.

* `lease_retake`. `holdLease` (`campaign/worker.go:251-257`) decides whether an
  acquire is a takeover from a clock read before `AcquireCampaignLease`, which may
  wait for the writer lock. A lease that ends during the wait, is taken by another
  process and released again, is then re-acquired with `versionChecked` still
  set. The comment at `worker.go:237` says a takeover re-runs the check.
* `pipeline_slow_reset`. `ResetScriptsForVersion` neither renews nor checks the
  lease over its chunks. If it outlasts the lease it deletes rows its successor
  has recorded again; the successor's hold sees nothing pending and is released
  with nothing to carry. `script_version.go:80` says nothing re-adds rows between
  chunks.
* `lookup_overlap`. `Lookup` (`intel/vt/resolver.go:100-119`) reads the cache before it
  joins the hash's `Once` and not again inside it, and the `Once` leaves the map when its
  fetch has ended. A lookup that missed the cache while the first was in flight, and comes to
  `LoadOrStore` after that, sends a second request for a verdict that is in the table. The
  comment at `resolver.go:107` says concurrent lookups of one hash are collapsed into one
  call, and so does the test at `intel/vt/files_test.go:308`, whose lookups start together.
* `live_verdict`. `runLiveLifecycle` keeps the first error an owner returns
  (`live_lifecycle.go:46`). A signal during the seed makes that a cancellation, and
  a genuine failure of the accept loop or of the server's drain after it is
  dropped: the process exits 0. The comment at `live_lifecycle.go:114` says a genuine
  failure, one joined beside a cancellation included, still exits non-zero.
* `share_rotated`. `ThreatFoxCandidates` (`store/threatfox_submissions.go:209`) leaves
  out every row whose URL is in the ledger, so once a URL has been submitted a new
  payload behind it is no candidate and its hash stays unsent, as does an indicator
  whose own POST failed. `intel/threatfox/share.go:17` says a re-fetch that produces
  one new indicator still submits it.

Three of smaller weight. Each step of the ladder runs at most once per database lifetime,
says the comment at `store/sqlite.go:293`; two openers that read the version together run
every rung twice, which the rungs allow (except that v19's plain `INSERT` then fails the
second Open, which may be tried again). And seen while `IntelLookup` was written: a page of payloads shows
verdicts of an older cache layout (`web/api_vt.go:162`), which the comment at
`intel/vt/files.go:51` says are misses (`Decorate` beside `Glance`); and an answer that says
the lookup failed is neither cached nor replaced by the row that has expired
(`intel/enrich/enrich.go:262`), as a failed request is (`Declined` beside `GiveUp`).

One more case was seen with a process on the stored version beside an upgraded one:
the hold is set with a reset's last chunk only, so the older process, taking over an
interrupted reset, finds its version unchanged and regroups over what is left. The
runs start both processes from one binary.

## Not modelled

Listed with reasons under `components` in `PROJECT.json`: remote services
(beyond what their answers do to the caches), pure code without interleaving (netmatch, configuration, the
aggregation of actors beyond its counts, the normaliser), the hosting
scripts. Within modelled parts, each section above says what it leaves out. The web
server's handlers are most of the code by size; nearly all of them read, and the
ones that write are an edit, an upload, a report, and notes and settings of one row
each.

## Plan

In order:

1. A proof of what a run checks and no theorem states yet: `UrlCapture`'s `FetchedIsRead`.
2. An abstract `FileArchive` - a job is finished once, by its last claimant, and
   evidence outlives its rows - that `FileCapture` implements; `ResultsAreFenced` and
   `NothingIsLost` are most of its step simulation.
3. `CarryAssignments` - the pure operator the pipeline abstracts, checked against a
   reference definition over bounded inputs.
4. Families and pruning, which have a module of their own, in one state with the
   grouping that reads them.
