# Verification of the storage comparison and archiving service

This directory holds TLA+ specifications of the program in `src/`: a FastAPI
service that compares database references with the objects of S3-compatible
providers, copies objects between providers, archives and deletes them, and
writes Excel reports. The modules are checked with TLC on small instances, and
the main safety properties of every modelled part are proved with TLAPS for all
constants.

## 1. Inventory of the system

| Part | State it keeps | Operations | Talks to |
|---|---|---|---|
| Archive runs (`services/storage_service.py` 620-621, 716-886) | `_archive_active_keys` under a lock; per run the list of items and their results | `archive_and_delete_objects`: copy all, then verify and delete each | providers (HEAD, GET, upload, signed download, delete), `copy_objects`, `delete_objects` |
| Archive jobs (`services/archive_jobs.py`) | registry of up to eight jobs, each with an event dictionary, a sequence number and a finished flag | `connect`, `_run`/`emit`, `stream` | the route's work function, browser pages over SSE |
| Copy between providers (`storage_service.py` 338-667) | per call: results, counters, the shared `acl_supported` dictionary | `copy_objects`, `_ensure_dest_buckets`, `restore_from_archive` | two providers |
| Batch deletion (`storage_service.py` 247-332) | per call: outcomes by item | `delete_objects`: group, chunk, pool | one provider |
| Migrated files (`routes/storage.py` 376-590, 758-1062, 1299-1392) | copy reports and audit files on disk | validate URLs, delete migrated, re-check excluded rows, list copies | providers, Excel reports |
| Reconciliation scans (`services/reconciliation_service.py`) | references, objects, content keys of one scan | `run_reconciliation`, `run_do_cleanup_scan` | MySQL, providers, checkpoints |
| Checkpoints (`services/checkpoint_service.py`) | one directory per request hash | load, save (temporary file and rename), clear | file system |
| Database access (`services/mysql_service.py`) | none of its own | keyset pagination, column discovery, guarded URL update | MySQL |
| SSE bridge (`services/sse.py`) | a queue per stream, an executor of sixteen threads | `sse_stream` | routes |
| Excel reports (`services/excel_service.py`, `archive_summary.py`) | workbooks on disk | generate and parse | routes |
| Browser page (`public/index.html`) | rows still to delete, the archive job id | run, reconnect, continue | routes |
| Listing, configuration, clients, `tools/` | none that changes | reads and wiring | - |

What is hard, and what makes each part correct:

* **Archive runs** interleave with each other, with tenants that write the same
  buckets, with lost replies and with server stops. A source may go only when
  its bytes are in the archive; archive copies must never be replaced; no two
  runs may work on one object name, whichever providers they use (the archive
  path has no provider in it); the lock must be given back however a run ends;
  the audit log must have the final outcomes; every run must end.
* **Archive jobs** are polled by streams that come and go. An ended stream must
  have shown every outcome; a page attached to a larger report's job must see
  its own objects; overlapping jobs must be refused; a running job must stay
  reachable; a worker that raises must still finish its job.
* **Copy and migration**: a destination shared by two sources, an ACL retry
  raced by other threads, a destination that changed between the report and the
  deletion of the source. With overwrite off nothing that was there may be
  replaced; no copy may write over a source; a public copy must end up public
  wherever ACLs exist; a source may go only while its destination holds an
  object, as far as the code can know it, and no session may empty a destination
  it relies on; a reply that is partial, missing or lost must not pass for
  success.
* **Scans**: database and buckets are read at different moments, page by page,
  while tenants change them; some reads fail and are retried; checkpoints are
  resumed after a stop or shared by two identical scans. The report is the basis
  for deleting orphans: what was referenced all along must never be one, and
  what a scan without errors read must not reach a later scan, unless a file
  could not be removed.
* **Database access**: pagination over a column that is not unique; updates
  guarded by the old value that race with the application and with an earlier
  attempt at the same rows. A resumed update must skip no row.
* **SSE**: work behind a full executor, a terminal event for every stream, and
  an error that does not look like an end.

`PROJECT.json` lists every hazard at its line with the properties that cover
it, or the reason why none does.

How the modules hang together:

```
ArchiveRun  (through ArchiveRunContract)  implements  ArchiveContract, KeyLock
ArchiveJobs, the registry around the runs, implements  KeyLock, EventLog
SseStream -> UrlUpdates                                 (composition)
CopyObjects -> Migration                                (composition)
ReconciliationScan
```

`MC*` modules give the constants small values; `*Proofs` modules hold theorems.

## 2. What is modelled now

### ArchiveRun

One action per call to a provider, as anything may happen between two calls.

| State | Code |
|---|---|
| `store[p][path]` | the objects of each provider: a version is its bytes (`content`, which decides ETag and length) and its time stamp (`modified`, for LastModified and VersionId) |
| `active` | `_archive_active_keys` |
| `phase`, `provider`, `items` | where the run's thread is, `resolved_source`, the report's rows in order |
| `stage[r][i]`, `seen[r][i]` | how far the worker of row *i* is; what it last read of the source (`source_meta`, or the body it is about to upload) |
| `audited` | the runs whose audit log is on disk |

An object is the path `<<bucket, key...>>`, its archive copy the path with the
archive bucket in front, at the archive provider: `_archive_dest_key` is that
concatenation, and archive copies and sources live in one store, so that a
report listing the archive bucket would really delete archive copies.

A run goes through `Begin` (or `Reject`), `Prepare` (the destination bucket; all
rows fail if it cannot be used) or `Abort`, the copy pool (`HeadDestination`,
`FetchSource`, `Upload`, `CopyFails`), the barrier `StartVerification`, the
verification pool (`HeadSource`, `HeadArchive`, `HashSource`, `CompareArchive`,
`RecheckSource`, `DeleteSource`, with `VerifyFails` and `DeleteFails`), `Finish`
(the lock is released), `WriteAudit` and `WriteReport`. An answer that differs
from what the code wants and a call that fails have the same effect on a row,
so both are the `Fails` actions; uploads and deletes may take effect and lose
their reply. `Admitted` is what the two pools allow: rows are taken in order,
at most `Workers` unfinished at a time. Tenants write and remove sources
(`TenantWrite`, `TenantRemove`), never the archive bucket. `Crash` is a server
stop: runs and lock vanish, objects and audit logs stay.

Left out: content types, progress callbacks (in ArchiveJobs), and a provider
carrying out a request after the reply to it was given up. The check of the
configured bucket name and other exceptions at the start are `Abort`.

### ArchiveJobs

| State | Code |
|---|---|
| `registry`, `jobOf` | `self.jobs` in insertion order; each job's provider and keys |
| `events[j]`, `sequence[j]`, `finished` | `job["events"]` as records with their slot, `job["sequence"]`, `job["finished"]` |
| `thread[j]`, `progress[j]`, `holding` | the worker thread, how far it is with each object, the key lock of the archive run inside |
| `stream[c]`, `delivered[c]`, `known[c]` | the connection of a page with its cursor, what it has been sent, the job id the page remembers |

`ConnectById` and `ConnectByReport` are the two halves of `connect`, one
critical section each, with the eviction of the oldest job in `Kept`. The
worker emits the events of `delete_stream`'s work in their order, with `Slot`
giving the key of the dictionary entry an event replaces. `Poll` is one turn of
`stream`. Pages may disconnect, reconnect with or without their id, and forget
it. Byte progress of one upload is one event; copy and item outcomes are one
event each; the delete_progress event, which repeats an item's outcome, is left
out, and so are heartbeats.

### ReconciliationScan

| State | Code |
|---|---|
| `data[i][n]` | row *n* of a file or rich-text column, or the object with the *n*-th key of a bucket; `None` where there is no value |
| `saved[i]` | the checkpoint file of item *i* (column or bucket) in the directory of the request |
| `phase[s]` | where `run_reconciliation` is, from the file columns to the report |
| `stage`, `tries`, `cursor`, `found[s][i]` | the worker of item *i*: its progress, the attempt of `_with_retries`, `last_id` or the continuation token, what it has collected |
| `errors[s]` | the items whose entry in `errors` is not None |
| `removing[s]` | the files that `shutil.rmtree` has still to try to remove |
| `users[i]` | history: the scans that saved or loaded the checkpoint file of item *i*, but for those that failed to remove it |
| `report[s]` | the `ReconciliationResult` in the report |

The three fan-outs `_fetch_mappings`, `_fetch_buckets` and `_fetch_content_keys`
have one shape, `Work`: load the checkpoint (`LoadCheckpoint`) or read page by
page (`BeginRead`, `ReadPage`), start again after a failure (`Retry`) or record
an error and an empty result (`GiveUp`), then save (`SaveCheckpoint`). A save
that fails throws away what was read (`SaveFails`: the save is inside the same
`try`), and a load that fails is outside of it and ends the scan (`LoadFails`,
`ScanFails`). `HasMore` differs between a column (a full page) and a bucket
(`IsTruncated`). `CompareFiles` and `Protect` end a phase and clear the
checkpoints when all items of it went well. A `ClearStep` is one file of the
directory, because another scan may load or save in between: `RemoveFile`, or
`RemovalFails`, since `rmtree` is called with `ignore_errors=True`, so that a
file that cannot be removed stays and nobody is told. `Listed` is the prefix of
the request: a bucket lists only the keys that begin with it (`Prefixed`), while
columns are read in full, so that a referenced file outside the prefix is
reported missing. `Compared` is what the report makes of what was found: keys
decide, whatever the bucket.

All scans are scans for one request, since only those share files. A reference
is a record of the bucket and key that `_split_object_reference` finds and of
whether its host is of the scanned provider; the URL patterns are not
modelled. Left out: counts, progress labels, the file names of
checkpoints (`_safe_name`), temporary files left by a stop (nothing loads
them), a list of buckets that is not given in the request, and the order in
which a pool takes its items (any item, at most `Workers` at a time). Content
keys are kept as references until they are compared; the filter by bucket is the
same for all scans of one request. A do-cleanup scan is such a scan too, its
candidates are the orphans, and with equal parameters it has the same
checkpoints. Tenants write and remove rows and objects
(`Change`), `Stop` is a server stop: scans end, files stay.

### ArchiveContract

What archive-and-delete promises, without runs, threads, locks or calls: a file
goes only after, in one instant, it and the archive held the same bytes, and
nothing replaces those bytes while somebody relies on them. `Change` (a tenant),
`Archive`, `Verify`, `Delete` and `Withdraw` are all it knows. Tenants' changes
are counted (`changes`), and the count is the one the runs' model keeps of its
tenants (`writes`), so that what a run removes cannot pass for a tenant's doing:
a file goes by a `Change`, which moves the count, or by the `Delete` of a verified
version, which does not.
`ArchiveRunContract` maps the runs to it: the sources are the tenants' objects,
the archive is the bytes under each archive path, and verified are the rows of
verifying runs past their last HEAD. The five calls of a verification become one
instant, the last HEAD. `ContractKept` says that every behaviour of the runs is
one of the contract.

### KeyLock

What `_single_archive_run` promises to whoever relies on it: an owner gets all
the keys it asks for, or is refused because somebody has one of them (`Acquire`,
`Refuse`); it has one turn (`past`), and `Release` and `Stop` free its keys.
The code keeps one set of keys for all runs, and the module one per owner, so
that giving back another run's keys, or none, is visible. Two modules implement
it. For `ArchiveRun` the owners are the runs (`HeldByRun`, `PastRuns`,
`RunsLocked`). For `ArchiveJobs` they are the jobs, whose worker threads take
the lock inside their work (`HeldByJob`, `PastJobs`, `WorkersLocked`): the
registry may forget a job whose worker runs, so that its own check for overlaps
is not what keeps workers apart.

### EventLog

What a reconnectable stream promises, without registry, slots, threads or
cursors: a log of numbered entries that only grows, the last of them final; a
reader is shown a growing prefix of it, from the first entry on, and the end
only after all of it. `ArchiveJobs` implements it (`OutcomesReplayed`): the log
of a job are its events except the `Snapshots` (an event whose slot another one
may take, `archive_jobs.py` 47-55), a reader's `shown` is what the stream has
yielded of them. The events of the dictionary that are replaced disappear from
the view; one that is not a snapshot must never be.

### CopyObjects

| State | Code |
|---|---|
| `store[pl]` | the object at a place (provider and path): its bytes and whether everybody may read it |
| `request[j]`, `phase[j]` | the body of the request, and where the route and `copy_objects` are |
| `unready[j]`, `bucketErrors[j]` | `_ensure_dest_buckets`: the destination buckets to look after, and the table of those that cannot be used |
| `noAcl[j]` | the buckets with `acl_supported[bucket] = False` |
| `stage[j][i]`, `body[j][i]` | how far `copy_one` is with row *i*, and what it has fetched for the upload |
| `reported` | the runs whose Excel report is on disk |
| `before[j]` | history: the places that have been full since run *j* began |

`CopyRoute` and `RestoreRoute` are the two routes with their validation; a
restore is a copy whose destination is the archive path without its first
segment. A row goes `HeadDestination` (only without overwrite), then
`ReapplyAcl` or `LeaveAcl` on what is already there, or `Fetch`, `Upload`,
`RejectAcl`, `FetchAgain`; `RowFails` is any error, `Unavailable` a row whose
bucket cannot be used. Every upload may take effect and lose its reply.
`acl_supported` is read at the fetch and written at the rejection, with other
threads in between. `WriteReport` and `WriteAudit` may fail, which ends the run
without the one or the other. Left out: progress events, object metadata, and
streaming of the body in parts.

### Migration

| State | Code |
|---|---|
| `rows[d]`, `link[d]` | the rows of an uploaded copy report (or of an Excluded sheet) under their numbers, and what the page knows of each link |
| `step[d]` | the session of a page: checking, deleting, auditing, reporting, ended |
| `batches[d]`, `outcome[d]` | the DeleteObjects calls still to make, each with its bucket, its number and the places it names, and `outcome_by_item` |
| `stale[d]` | history: the destinations of its rows that somebody else has emptied since their links answered |

`ReadCopyReport` reads the report of a run of CopyObjects as the two parsers
do; `ReadExcluded` the Excluded sheet of another session's deletion report.
`CheckLink` is one link of `validate_public_destination_urls`: it answers only
if something is there, may fail for any reason, and its outcome may be shown
by an attempt that then broke (`lost`). `Confirm` groups the rows with a good
link by bucket and cuts them into batches, one call for each `BatchSize` rows, so
that an object that is listed twice may be in two calls; `DeleteBatch` is one call, of which
any part may take effect and any part of that be confirmed. `Proceed` is the
audit log and the report, `Resend` the page's second attempt with the rows not
reported deleted. A session works at the provider its report was copied from:
the page asks for it by hand, and the report does not record it.

### SseStream and UrlUpdates

| State | Code |
|---|---|
| `line`, `running` | requests waiting for a thread of `_executor`, and those on one |
| `queue[s]`, `conn[s]` | the queue of `sse_stream` with the sentinel `_DONE`, the connection |
| `value[r]`, `touched` | the file column of each table row; the rows the application has changed |
| `items[s]`, `at[s]`, `stage[s]` | a request of update-database-urls: its rows, the row its worker is at, before or after the SELECT |
| `report`, `remaining`, `attempts`, `page` | `dbUpdateState` of the page |

SseStream has the operations (`Open`, `Begin`, `Emit`, `Finish`, `Deliver`,
`End`, `Drop`, `SseStop`), UrlUpdates the work on top: `Resolve`, `Select`, `Update`
(guarded by the old value, one commit per row), `Complete` and `Raise`, and the
page's `Run`, `Receive`, `Retry`, `LoseConnection`. A lost connection stops
neither the worker nor its place in the line, so that a retry can run beside
the first attempt. An exception may come after an UPDATE that was committed.
The application changes rows at any time (`AppChange`), and an id may name
several rows. Left out: heartbeats, the frame format, and the counts of outcomes.

### Runs

| Run | Instance | What it shows |
|---|---|---|
| `ArchiveRunContention` | one object name, two providers, two runs, two contents of equal length, one tenant write, stops | the lock excludes, leaks nothing, refuses only for a reason, and implements `KeyLock`; compared copies stay; only archived bytes are deleted; the archive is never rewritten; retained rows keep their source; the contract is kept |
| `ArchiveRunPools` | one run, up to two rows out of two buckets with one key and the archive bucket itself, two workers, contents of different lengths | both pools and the barrier, completeness of the audit log, the archive-bucket guard; what was verified stays in the archive for good; termination |
| `ArchiveRunWindow` (violation) | one run, one tenant write | a version written between the last HEAD and the delete is lost |
| `ArchiveJobsReplay` | one job of two objects, one page | replay and end of streams; jobs and streams implement `EventLog` |
| `ArchiveJobsOverlap` | two objects, two providers, four jobs, a registry of two | attach, refuse, evict; workers that the registry has forgotten keep their objects (`KeyLock`) |
| `ArchiveJobsForgotten` (violation) | three jobs, a registry of two | a running job is evicted and cannot be reached |
| `ReconciliationScanShared` | two scans, one file column, one rich-text column, one bucket, two rows each, pages of one row, one change, one attempt, stops | references that stay keep their files out of the orphans, and stable files are matched, whatever was read from checkpoints; a scan that read all items of a directory leaves there only what it failed to remove |
| `ReconciliationScanFailures` | one scan with a prefix that one of two files has, two buckets of which one is in another region, all kinds of references, two workers, two attempts | stable files are matched or protected, every started scan ends |
| `ReconciliationScanIncomplete` (violation) | one scan, nothing changes | a column that cannot be read makes the files it refers to orphans |
| `MigrationShared` | one of seven copies or restores (within a provider and across, two rows of two buckets or of one, one object listed twice, a destination that a tenant empties, with and without overwrite and ACLs, buckets that reject them, a destination that is already full, a request that is refused), two sessions, one tenant change, stops | the promises of the copies and of the deletion listed in section 1 |
| `MigrationBackup` (violation) | two objects of one key and different bytes go into one bucket | a source is deleted whose bytes are nowhere else |
| `UrlUpdatesResume` | a page with three attempts at a report, two threads, two table rows with one id and one the application changes, errors, stops | no row is skipped, changed rows stay, success is reported only when nothing remains, at most the executor's threads work, streams end |

Bounds. Two runs are enough for exclusion, which is about pairs; two rows for
the barrier and for pools; one tenant write is the least that can spoil a
comparison, and runs with two rows have it at any point. The contents have
equal length where a length check alone must not be enough. One page is enough
for streams, because streams only read; pages that start other jobs are the
same page after it has disconnected. The registry size of eight is a constant,
two in the runs: what matters is that it is smaller than the number of
running jobs. `ArchiveJobsOverlap` has four jobs, because a worker is refused
the lock only by one that the registry has forgotten: two others must be started
to push that one out, and then one for its object. It is cut off (`NoItems`) where a job
starts its first item: a job then either keeps its lock or fails before it,
which is all that connecting depends on. Runs are
symmetric in run and content names, and in `ArchiveJobsOverlap` in job, provider
and bucket names, only where no liveness is checked.
Deadlock is not checked: the system rests when all runs have ended.

The scans have two rows in each column, so that there is a row beside the one
that stays (`Pinned`), and pages of one row, so that every row is at a page
boundary. One change is enough to shift a page or to make two checkpoints
disagree; the proofs have any number. Two scans with one attempt cover sharing,
one scan with two attempts covers retries. Of two keys one has the prefix of the
request in that scan, and both in the other run.

`MigrationShared` has one copy, because copies meet only at objects, and the
tenant stands for any other writer of a source; two workers, so that
`acl_supported` is raced; batches of one row, so that a session has several
calls; two sessions, so that the Excluded sheet of one can be uploaded in the
other, and one can delete what the other has. The tenant owns one place, which
is a source of some requests and the destination of another, so that a
destination can go between the check of its link and the deletion (`stale`).
TLC evaluates `DistinctRows` as an assumption of `MCArchiveRun`, so that its runs
are instances of the theorems with this hypothesis.
In `UrlUpdatesResume` three attempts are one more than there are threads, so
that a retry waits behind two attempts whose page has gone.

Fairness. `FairSpec` of ArchiveRun assumes that a thread with a step to take
takes one: every provider call has a time limit (boto3's default, and 60
seconds for the signed download). Nothing is assumed of
requests, tenants or stops. `FairSpec` of ArchiveJobs assumes the same of the
workers, and that the server goes on polling for a stream that stays open.
`FairSpec` of ReconciliationScan assumes that a scan that was started goes on as
long as it has a step to take; nobody has to start one, and no read has to
succeed. For buckets this is boto3's read timeout; for columns it is an
assumption that the database answers or drops the connection, because the pool
of `mysql_service.py` (20-33) sets no read timeout: a database that falls silent
would hold the scan for ever. `FairSpec` of UrlUpdates assumes that the first in
the executor's line takes a thread that is free, that a thread with a
statement to execute executes it (the same assumption about the database), and
that the event loop serves the connections that stay. A page need not retry,
and a connection may be lost at any time. Migration has no liveness property.

### Disagreements with what the repository says

Shown by a run:

* The delete is unconditional after the last HEAD (`ArchiveRunWindow`).
* The registry evicts running jobs (`ArchiveJobsForgotten`); the lock inside
  the run still keeps two workers off one object (`WorkersLocked`).
* A column that cannot be read turns files into orphans
  (`ReconciliationScanIncomplete`), and the report does not say so; a file
  column has the same effect.
* A migrated row need not have its bytes at the destination
  (`MigrationBackup`): Skipped means that something has the key there, and equal keys
  of several buckets meet in one `dest_bucket`. A retry of the Excluded sheet
  makes rows eligible that failed to copy, because the failed ones have a link
  too (`generate_copy_report`) and only the link is checked again.

Met while modelling, left without a run:

* A report that lists an object twice has one row deleted and the other
  "retained" with its source gone (`storage_service.py` 720): the lock works on
  a set of keys, the pools on the list. `RetainedStays`, `ArchiveNeverRewritten`
  and `VerifiedStaysArchived` hold of reports without repeated rows: the theorems
  have that as a hypothesis (`DistinctRows`), and the runs have such reports.
* Between the check of a link and the deletion, nothing guards the destination:
  its tenant may remove it, and of two migrations in opposite directions each may
  delete what is the destination of the other. `DeletesOnlyMigrated` allows a
  source to go whose destination is gone in this way (`stale`), and in no other.
* `reconciliation_service.py` 346-347 says that the checkpoint "is deleted once a
  run finishes with no errors at all", but `clear_checkpoint` passes over every
  failure (`checkpoint_service.py` 105-106), and the next identical scan loads
  what is left. `LeftoversExplained` allows it.
* A stop after the deletions and before the audit log leaves them in no log
  (`routes/storage.py` 656).
* Byte progress is kept by key without the bucket: with equal keys in two
  buckets, one object's progress replaces the other's. The second
  `archive_phase` event replaces the first, although the comment in `emit` says
  that they remain for replay. The page keeps a job id after a 409.
* The README's last paragraphs say that concurrent archive attempts are
  rejected, while disjoint ones run together.
* A bucket in another region gives neither objects nor an error: its files are
  missing in a scan that counts as clean, so `StableFilesMatched` leaves such
  buckets out.
* Of two identical scans, one may remove the directory the other saves to; the
  other then counts the item as failed although it was read.
* The copy result's link is a presigned one with a limited life, so a check of
  it says nothing about anonymous access (`storage_service.py` 180), rows put
  into the database with it expire, and the README's `build_object_url` is not
  what is used.
* Result lists are handed to the event loop by reference and cleared by the
  worker (`routes/storage.py` 467), although the comment at 435-438 counts on
  each batch to be sent; and the page loses the results of an attempt that broke
  (`index.html` 1868), which end in no list.
* The copy page trims what it has confirmed by key alone (`index.html` 1241),
  and its report covers the last attempt only. The name of a copy report has
  only a date, so that a second copy of one day replaces the first report.
* `setdefault` over database files keeps one row for each key; other rows that
  name the same file keep their old URL.
* An attempt that resends a row which an earlier attempt updates meanwhile may
  count it as a conflict; an id that names two rows with the old value is
  updated (both) and counted as a conflict; rows of one id with different
  values may stay as they are, because SELECT looks at one of them
  (`SharedIdsAssumption` leaves these out).
* A restore of rows of several buckets may write over an archive copy that is
  another row's source (`routes/storage.py` 1065-1083 looks at each key alone).
* The README has destination buckets checked with HeadBucket; the code calls
  CreateBucket first. `ensure_public_read_bucket_policy` has no caller.

### Not modelled

* Listing, searching and summary routes, and configuration: they read or wire,
  and keep nothing.
* What leads up to a scan and follows it: the discovery of columns (a read of
  the schema), a list of buckets that the provider gives, and
  `GET /reports/{filename}`. `run_do_cleanup_scan` and the manual scan routes
  have no module of their own: each is `run_reconciliation`, with the columns it
  discovers or is given (none without a database), and another workbook.
* The layout of workbooks, audit lines, labels and counts: no decision
  depends on them, except through the parsers, which Migration and UrlUpdates have.
* The copy page's resumption by key, and what pages display.
* Heartbeats and SSE frames. The limits of `PooledDB` (ten connections, a
  request waits for one): every worker takes one connection at a time and gives
  it back, so that waiting ends under the fairness assumed of the database.
* `tools/`: a text filter run by hand.

## 3. What is proved

`ArchiveRunProofs` proves for all constants (any number of runs, rows, workers,
providers, paths and tenant writes):

* `TypesHold`, `LockHolds`, `ComparedCopyHolds`: `TypeOK`, `LockExact` and
  `ComparedCopyStays` are invariants;
* `DeletionsAreSafe`: `DeletesOnlyArchived` holds of every step.

The inductive invariant `IInv` adds to these properties that rows are worked on
only in the phase for it, after the archive bucket has been excluded
(`PhaseOfWork`), that a worker past its first read remembers a version
(`SourceRead`), and that the provider of an active run is known
(`ProviderKnown`). The heart is `ComparedCopyUnmoved`: while a run verifies, no
step changes the archive copies of its rows. An upload by another run is to
another archive path, because the lock keeps the reports apart and
`ArchivePathInjective` the paths; an upload by the same run is over; a deletion
is outside the archive bucket (`TenantPathApart`); tenants do not write there.
This is why the lock must ignore the provider, why the barrier between the
pools matters, and why the guard of the archive bucket is needed: without any
one of the three the invariant is not inductive, and TLC has a counterexample.

The assumptions of these are the named ones of ArchiveRun: paths are non-empty sequences
of segments, reports are non-empty sequences of objects, the archive provider
is a provider.

`AuditLogIsFinal` (`AuditIsFinal`) needs beside `IInv` that a run whose lock is
released knows the outcome of every row (`OutcomesLogged`), and that nothing
happens to the rows of such a run (`RecordsKept`). Three theorems have the
hypothesis `DistinctRows`, no report lists an object twice:

* `RetainedSourcesStay` (`RetainedStays`): by the lock and the hypothesis, an
  object has at most one row in all the runs that hold the lock (`OneWorker`), so
  that nobody else deletes what a row has retained;
* `ArchiveIsWriteOnce` (`ArchiveNeverRewritten`): between the HEAD that finds no
  archive copy and the upload, other runs and tenants come and go; the
  invariant `DestinationStillFree` says that the destination of such a row is
  still empty, because only the row itself could fill it. An upload therefore
  goes to an empty place, and a deletion or a tenant never to the archive bucket
  (`ArchiveCopyKept`);
* `VerifiedStays` (`VerifiedStaysArchived`): what was compared is in the archive
  (`ComparedCopyStays`), and stays there by the previous theorem, past the end
  of the run and a stop.

Without the hypothesis all three are false of the code (see above). Termination
is model-checked only.

`ArchiveContractProofs` proves `ContractHolds`: `Spec => ContractKept`, that the
runs implement `ArchiveContract`. The refinement mapping forgets the lock, the
pools, what was read and how far each row is. The argument rests on the invariants above: an
upload never goes to a name somebody relies on (`ComparedCopyUnmoved`), the last
HEAD happens while the archive holds the compared bytes (`ComparedCopyStays`),
and what is deleted was verified. A step of a run leaves the count of the tenants'
changes alone, so that each removal by a run must be, and is, the `Delete` of a
verified version (the mutant `DeleteUnchecked` is caught by that). Every other
step is a stutter or withdraws verified rows.

It also proves `RunsAreLocked`: `Spec => RunsLocked`, that the runs implement
`KeyLock`. A step that moves the phase of one run and nothing else of the lock is
`Acquire`, `Refuse`, `Release` or a stutter (`OneRunMoves`); that the code's one
set has a key exactly if an owner has it is `LockExact`, and gives
`OverlapIsTaken`: `Begin` and `Reject` decide as the abstract lock does. The
strengthening `HoldersHaveKeys`, that no holder is without keys, is where
non-empty reports matter: a run without items would hold nothing and could not
be told from one that has not begun.

`ArchiveJobsProofs` proves for all constants (any number of jobs, pages,
objects and providers, any reports, any size of the registry):

* `TypesHold`, `ActiveJobsAreDisjoint`, `EndedStreamsAreComplete` and
  `DoneCoversTheReport`: the invariants of the same names in ArchiveJobs;
* `ActiveReportsAttach`: the action property `ActiveReportAttaches`;
* `WorkersAreLocked` and `OutcomesAreReplayed`: `Spec => WorkersLocked` and
  `Spec => OutcomesReplayed`, the refinements of `KeyLock` and `EventLog`;
* `WorkersStayApart`: no two workers hold one object, which follows from the
  refinement and one invariant of the abstract lock.

The invariant adds that a slot and a number name one event each and that the
latest event is always kept (`EventsKept`), that what the worker has
settled is among the events and that a finished job has a last event
(`WorkerTold`), and that a stream has yielded what its job holds up to the
cursor (`StreamCurrent`). The step that moves a cursor needs the latest event
to be there, or the largest number of an empty set would be taken. The one
assumption about reports is that none is empty, which the routes' validation
refuses.

For the lock the invariant is extended by `HoldersArchive`: who holds is in its
archive run, and every job that was started has keys. For the log, an emitted
event either is a snapshot and leaves the log alone, or has a slot of its own and
is appended (`EmitAppends`): `WorkerTold` says that nothing is emitted after
"done" or "error", and that a thread at its end has emitted one of them
(`FinishCloses`). A poll shows a longer prefix because `StreamCurrent` makes what
was shown exactly what the log has up to the cursor; it ends a stream only when
the flag and the events were read together (`PollLogs`).

`UrlUpdatesProofs` proves for all constants (any number of pages, attempts,
threads, reports and table rows):

* `TypesHold`, `ExecutorHolds`, `NothingIsSkipped`, `CompletedHolds`: the
  invariants `TypeOK`, `ExecutorExact`, `NothingSkipped`, `CompletedIsComplete`;
* `ChangedRowsAreKept`: the action property `ChangedRowsKept`.

The invariant says that the rows a worker has passed are settled
(`WorkerSettles`), that each progress event in a queue counts only settled rows
(`CountsSettled`), that what a page still has to send, and what it has sent, is
the end of its report behind settled rows (`PageKnows`, `RestOf`), and that the
last count on its way to a page is as far as the worker got, unless an error is on its
way too (`WorkCounted`, `LastCount`): so a stream that ends well leaves nothing
to send. That a settled
row stays settled is where the assumptions come in: no destination URL is the
source path of a row with the same id (`NewUrlsAssumption`), and rows of one id
begin with one value (`SharedIdsAssumption`). What `SelectSeq` selects is a
sequence by `ReportsAssumption`, because it is recursive in the library.

`ReconciliationScanProofs` proves for all constants (any number of scans,
columns, buckets, rows and changes, any page size, retries and concurrency):

* `TypesHold`: `TypeOK` is an invariant;
* `OrphansAreUnreferenced`: `StableReferencesKept` is an invariant;
* `StableFilesAreMatched`: `StableFilesMatched` is an invariant;
* `LeftoversAreExplained`: `LeftoversExplained` is an invariant.

The first properties speak of the report, so the inductive invariant follows the rows
nobody touches (`Pinned`) on their way there: they are present
(`PinnedPresent`), collected as soon as the cursor is past them (`PagesKept`),
in every result without an error (`ResultsWhole`) and in every checkpoint
(`CheckpointsWhole`, without which a loaded item could be short); a phase
begins only when the one before is over (`PhasesInOrder`), and the report is
made of what was found (`ReportsCompared`). `BucketsListed` says that what
buckets yield are objects, of which `OneIsCompared` finds one for each key. The
lemmas on pages are the core: a page has no holes (`PageClosed`), a page with
fewer rows than the limit is the last (`ShortPageIsLast`), so that neither
moving the cursor to the last row of a page nor stopping after a short one skips
a row (`PageComplete`), whatever was added or removed since the last page. With
an offset instead of the id, TLC finds a lost row (the mutant `PageByOffset`).
That the conclusion needs a scan without errors is shown by
`ReconciliationScanIncomplete`.

`LeftoversExplained` is not inductive, because it says of a directory what is
true of a file: while one scan removes the directory file by file, another may
add a file that the first does not see. `UsersAnswer` asks more of every scan
that saved or loaded a file and did not fail to remove it: it did not end well,
or has still to come to the end of the directory's phases, or has this very file
on its list (`removing`). A worker that saves or loads is in such a phase
(`WorkAnswers`), the list holds every file there was when the phase ended, and
an item leaves it only with the file, or with the failure to remove it.
`ScansEnd` is model-checked only.

`MigrationProofs` proves for all constants (any number of copies, rows,
workers, sessions and batches, any writes of tenants):

* `TypesHold` and `ReportedDeletedHolds`: `TypeOK` and `ReportedDeletedIsGone`
  are invariants of Migration;
* `KeptDestinationHolds`, `SourcesUntouchedHolds`, `PublicHolds`:
  `KeptDestination`, `SourcesUntouched` and `PublicUnlessNoAcls` hold of every step;
* `OnlyMigratedDeleted`: `DeletesOnlyMigrated` holds of every step.

`Effect` says once what a call of a row does to the objects and what the row
then knows, and has a lemma for each call. The invariant keeps what a row
has learned (`RowKept`): a destination found missing was not there all the time
since the run began, so that no upload replaces what was there before; a body fetched
without an ACL, and a refused upload, belong to a bucket without ACLs, because
`noAcl` has only such buckets, however late a thread reads it. `SourceApart` is
what the two validations are for: no destination is a source of the same
request. For a deletion, `SessionOK` says that a place with the outcome
`deleted` is empty unless a tenant or a copy may have written it
(`WrittenByOthers`, which only grows); it rests on `ReplyMeans`. The assumptions
are that stores, requests and tenants' places are well-formed and that `Paths`
has the destinations of valid requests (`DestinationsAssumption`).

For `OnlyMigratedDeleted` the invariant `Migrated` follows the rows of a session:
they are rows of one valid copy, its batches have only sources of rows whose
link answered, and the destination of such a row is full or stale. Three things
happen to a destination: a copy only fills it (`DestinationStays`); a tenant or
another session that empties it makes it stale; and the session itself cannot,
because no row's destination is a source of the same request (`RowsApart`, from
`SourceApart`), and the rows of a session never come from two requests, whichever
of the two sheets they were read from. That a session's list of rows is filtered
and sent again without a new check is covered by the same invariant.

Only model-checked: that runs, scans and streams end (`RunsEnd`, `ScansEnd`, and
`StreamsEnd` of ArchiveJobs and of UrlUpdates), which is liveness under fairness
and outside the prover. Every other property of a passing run is stated by a
theorem.

## 4. What could follow

1. An abstract scan (one read of each item at some moment between its start and
   its end), refined by `ReconciliationScan`.
2. The copy page's resumption, when it can tell rows of two buckets apart.
