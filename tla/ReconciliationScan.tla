------------------------- MODULE ReconciliationScan -------------------------
(***************************************************************************)
(* Reconciliation scans: run_reconciliation of                             *)
(* app/services/reconciliation_service.py with the checkpoint files of     *)
(* app/services/checkpoint_service.py and the paginated reads of           *)
(* mysql_service.fetch_file_references and                                 *)
(* storage_service.iterate_bucket_objects.                                 *)
(*                                                                         *)
(* A scan reads the file columns, then the buckets, then the rich-text     *)
(* columns, one page at a time, while tenants change all of them.  Every   *)
(* item read to its end is saved in a checkpoint file, which an identical  *)
(* scan, later or at the same time, loads instead of reading the item.     *)
(* All scans here are scans for one request: they share the checkpoints,   *)
(* which is how different scans can affect one another.                    *)
(***************************************************************************)
EXTENDS Integers, Sequences, FiniteSets

CONSTANTS
  Scans,          \* the runs of run_reconciliation for one request
  Mappings,       \* file columns
  Columns,        \* rich-text columns (content_mappings)
  BucketOrder,    \* the buckets of the request, in its order
  KeyOrder,       \* object keys, in the order in which they are listed
  References,     \* References[i]: what the values of column i may refer to
  Prefixed,       \* the keys that begin with the prefix of the request
  Foreign,        \* the buckets of another region
  Pinned,         \* pairs <<item, row>> that no tenant touches
  Batch,          \* rows or objects of one page
  Workers,        \* items of one phase that are read at a time
  Attempts,       \* RETRY_ATTEMPTS
  MaxChanges,     \* bound: how often tenants change something
  None            \* no value, no checkpoint file, no bucket in a reference

Buckets == {BucketOrder[n] : n \in 1..Len(BucketOrder)}
Rows    == 1..Len(KeyOrder)          \* row ids; for a bucket, keys in order
Keys    == {KeyOrder[n] : n \in Rows}
Items   == Mappings \cup Buckets \cup Columns
Objects == [bucket : Buckets, key : Keys]
Entries == Objects \cup UNION {References[i] : i \in Mappings \cup Columns}

ASSUME ItemsAssumption ==
  /\ Mappings \cap Buckets = {} /\ Mappings \cap Columns = {} /\ Buckets \cap Columns = {}
  /\ Foreign \subseteq Buckets /\ Prefixed \subseteq Keys
  /\ Pinned \subseteq Items \X Rows
ASSUME OrderAssumption == Len(KeyOrder) \in Nat /\ Len(BucketOrder) \in Nat
ASSUME NumbersAssumption ==
  Batch \in Nat \ {0} /\ Workers \in Nat \ {0} /\ Attempts \in Nat \ {0} /\ MaxChanges \in Nat
\* A reference names a key, perhaps a bucket, and is local unless its host is
\* that of another provider than the one scanned (_split_object_reference).
ASSUME ReferencesAssumption ==
  \A i \in Mappings \cup Columns : \A v \in References[i] :
    DOMAIN v = {"bucket", "key", "local"} /\ v.local \in BOOLEAN
ASSUME NoneAssumption ==
  None \notin Entries \cup Buckets /\ \A I \in SUBSET Entries : I # None

VARIABLES
  data,      \* data[i][n]: row n of column i, or object n of bucket i
  changes,   \* how often tenants have changed data
  saved,     \* saved[i]: the contents of the checkpoint file of item i
  phase,     \* phase[s]: where run_reconciliation is
  stage,     \* stage[s][i]: how far the worker of item i is
  tries,     \* tries[s][i]: failed attempts of _with_retries
  cursor,    \* cursor[s][i]: the last row or key of the pages read
  found,     \* found[s][i]: refs, objs or keys
  errors,    \* errors[s]: the items with an error
  removing,  \* removing[s]: the checkpoint files rmtree has still to try to remove
  report,    \* report[s]: what the report lists
  users      \* history: users[i], the scans that saved or loaded the checkpoint
             \* file of item i, but for those whose attempt to remove it failed

scanVars == <<stage, tries, cursor, found, errors>>
vars     == <<data, changes, saved, phase, scanVars, removing, report, users>>

Reading  == {"database", "storage", "content"}
Ended    == {"done", "failed", "stopped"}
NoReport == [matched |-> {}, missing |-> {}, orphan |-> {}, protected |-> {}]
Reports  == [matched : SUBSET Entries, missing : SUBSET {e.key : e \in Entries},
             orphan : SUBSET Entries, protected : SUBSET Entries]

\* What row n of item i may hold: a bucket has one object for each key.
RowValues(i, n) ==
  IF i \in Buckets THEN {[bucket |-> i, key |-> KeyOrder[n]]} ELSE References[i]
Contents(i) ==
  {f \in [Rows -> Entries \cup {None}] :
     \A n \in Rows : /\ f[n] \in RowValues(i, n) \cup {None}
                     /\ <<i, n>> \in Pinned => f[n] # None}

Init ==
  /\ data \in {d \in [Items -> UNION {Contents(i) : i \in Items}] : \A i \in Items : d[i] \in Contents(i)}
  /\ changes = 0
  /\ saved = [i \in Items |-> None]
  /\ phase = [s \in Scans |-> "idle"]
  /\ stage = [s \in Scans |-> [i \in Items |-> "waiting"]]
  /\ tries = [s \in Scans |-> [i \in Items |-> 0]]
  /\ cursor = [s \in Scans |-> [i \in Items |-> 0]]
  /\ found = [s \in Scans |-> [i \in Items |-> {}]]
  /\ errors = [s \in Scans |-> {}]
  /\ removing = [s \in Scans |-> {}]
  /\ report = [s \in Scans |-> NoReport]
  /\ users = [i \in Items |-> {}]

-----------------------------------------------------------------------------
(* One item of a phase: a worker of _fetch_mappings, _fetch_buckets or      *)
(* _fetch_content_keys, which differ in what a page is.                     *)

PhaseItems(ph) ==
  CASE ph = "database" -> Mappings [] ph = "storage" -> Buckets [] ph = "content" -> Columns

\* The worker of item i, which has reached stage st.
At(s, i, st) ==
  phase[s] \in Reading /\ i \in PhaseItems(phase[s]) /\ stage[s][i] = st

Busy(s) == {i \in Items : stage[s][i] \in {"reading", "read"}}

Advance(s, i, st, cur, refs) ==
  /\ stage' = [stage EXCEPT ![s][i] = st]
  /\ cursor' = [cursor EXCEPT ![s][i] = cur]
  /\ found' = [found EXCEPT ![s][i] = refs]

\* load_*_checkpoint finds the file: the item is not read again.
LoadCheckpoint(s, i) ==
  /\ At(s, i, "waiting") /\ Cardinality(Busy(s)) < Workers
  /\ saved[i] # None
  /\ Advance(s, i, "done", 0, saved[i])
  /\ users' = [users EXCEPT ![i] = @ \cup {s}]
  /\ UNCHANGED <<data, changes, saved, phase, tries, errors, removing, report>>

\* It raises, which is not caught: the file vanished between os.path.exists
\* and open, or cannot be read.
LoadFails(s, i) ==
  /\ At(s, i, "waiting") /\ Cardinality(Busy(s)) < Workers
  /\ Advance(s, i, "died", 0, {})
  /\ UNCHANGED <<data, changes, saved, phase, tries, errors, removing, report, users>>

BeginRead(s, i) ==
  /\ At(s, i, "waiting") /\ Cardinality(Busy(s)) < Workers
  /\ saved[i] = None
  /\ Advance(s, i, "reading", 0, {})
  /\ UNCHANGED <<data, changes, saved, phase, tries, errors, removing, report, users>>

\* A bucket is listed with the prefix of the request.
Listed(i, n) == i \in Buckets => KeyOrder[n] \in Prefixed

\* Rows with a value; objects that are there and have the prefix.
Present(i) == {n \in Rows : data[i][n] # None /\ Listed(i, n)}
After(i, last) == {n \in Present(i) : n > last}

\* Faulty: LIMIT ... OFFSET instead of a condition on the id.
PageByOffset(i, last) ==
  {n \in Present(i) : Cardinality({m \in Present(i) : m < n}) \in last..(last + Batch - 1)}

\* id > last ORDER BY id LIMIT Batch; the objects after the continuation token.
Page(i, last) ==
  {n \in After(i, last) : Cardinality({m \in After(i, last) : m < n}) < Batch}

\* Faulty: one page of each bucket.
FullPage(i, last) == i \notin Buckets /\ Cardinality(Page(i, last)) = Batch

\* len(rows) == batch_size for a column, IsTruncated for a bucket.
HasMore(i, last) ==
  IF i \in Buckets THEN Page(i, last) # After(i, last)
                   ELSE Cardinality(Page(i, last)) = Batch

\* Faulty: the cursor counts rows.
RowsRead(page, last) == last + Batch

LastOf(page, last) ==
  IF page = {} THEN last ELSE CHOOSE n \in page : \A m \in page : m <= n

ReadPage(s, i) ==
  /\ At(s, i, "reading")
  /\ i \notin Foreign
  /\ LET last == cursor[s][i]
         page == Page(i, last)
     IN  Advance(s, i, IF HasMore(i, last) THEN "reading" ELSE "read", LastOf(page, last),
                 found[s][i] \cup {data[i][n] : n \in page})
  /\ UNCHANGED <<data, changes, saved, phase, tries, errors, removing, report, users>>

\* Faulty: the failed attempt is not counted.
RetryForEver(s, i) ==
  /\ At(s, i, "reading")
  /\ Advance(s, i, "reading", 0, {})
  /\ UNCHANGED <<data, changes, saved, phase, tries, errors, removing, report, users>>

\* _with_retries: a failed attempt reads the item from its beginning.
Retry(s, i) ==
  /\ At(s, i, "reading")
  /\ tries[s][i] + 1 < Attempts
  /\ Advance(s, i, "reading", 0, {})
  /\ tries' = [tries EXCEPT ![s][i] = @ + 1]
  /\ UNCHANGED <<data, changes, saved, phase, errors, removing, report, users>>

\* Nothing is found, and that is an error, unless it is that the bucket is in
\* another region (is_region_mismatch_error).
Fail(s, i) ==
  /\ Advance(s, i, "done", 0, {})
  /\ tries' = [tries EXCEPT ![s][i] = 0]
  /\ \/ errors' = [errors EXCEPT ![s] = @ \cup {i}]
     \/ i \in Foreign /\ UNCHANGED errors
  /\ UNCHANGED <<data, changes, saved, phase, removing, report, users>>

GiveUp(s, i) ==
  /\ At(s, i, "reading")
  /\ tries[s][i] + 1 = Attempts
  /\ Fail(s, i)

\* Temporary file and rename: a checkpoint is a whole item.
SaveCheckpoint(s, i) ==
  /\ At(s, i, "read")
  /\ saved' = [saved EXCEPT ![i] = found[s][i]]
  /\ users' = [users EXCEPT ![i] = {s}]
  /\ Advance(s, i, "done", 0, found[s][i])
  /\ tries' = [tries EXCEPT ![s][i] = 0]
  /\ UNCHANGED <<data, changes, phase, errors, removing, report>>

\* The directory was removed by another scan, or the disk is full: the item
\* that was read is thrown away.
SaveFails(s, i) ==
  /\ At(s, i, "read")
  /\ Fail(s, i)

Work(s, i) ==
  \/ LoadCheckpoint(s, i) \/ LoadFails(s, i) \/ BeginRead(s, i) \/ ReadPage(s, i)
  \/ Retry(s, i) \/ GiveUp(s, i) \/ SaveCheckpoint(s, i) \/ SaveFails(s, i)

-----------------------------------------------------------------------------
(* What the scan makes of what was found.  All files are told apart by     *)
(* their keys alone.                                                       *)

InScope(v) == v.bucket \in Buckets \cup {None}

\* db_files: references to another provider or to other buckets are left out.
DbKeys(s) ==
  {v.key : v \in {w \in UNION {found[s][i] : i \in Mappings} : w.local /\ InScope(w)}}

\* storage_objects: of several objects with one key, that of the last bucket.
StorageObjects(s) ==
  LET all == UNION {found[s][i] : i \in Buckets}
      Place(o) == CHOOSE n \in 1..Len(BucketOrder) : BucketOrder[n] = o.bucket
  IN  {o \in all : \A q \in all : q.key = o.key => Place(q) <= Place(o)}

\* Faulty: the test of the provider repeated for rich texts.
LocalContentKeys(s) ==
  {v.key : v \in {w \in UNION {found[s][i] : i \in Columns} : w.local /\ InScope(w)}}

\* _extract_embedded_keys: a rich text protects keys whatever the provider.
ContentKeys(s) == {v.key : v \in {w \in UNION {found[s][i] : i \in Columns} : InScope(w)}}

Compared(s) ==
  LET there == StorageObjects(s)
      raw   == {o \in there : o.key \notin DbKeys(s)}
  IN  [matched   |-> there \ raw,
       missing   |-> DbKeys(s) \ {o.key : o \in there},
       orphan    |-> {o \in raw : o.key \notin ContentKeys(s)},
       protected |-> {o \in raw : o.key \in ContentKeys(s)}]

-----------------------------------------------------------------------------
(* The phases of one scan.                                                 *)

Goto(s, ph) == phase' = [phase EXCEPT ![s] = ph]

Start(s) ==
  /\ phase[s] = "idle"
  /\ Goto(s, "database")
  /\ UNCHANGED <<data, changes, saved, scanVars, removing, report, users>>

PhaseOver(s, ph) ==
  /\ phase[s] = ph
  /\ \A i \in PhaseItems(ph) : stage[s][i] = "done"

ListBuckets(s) ==
  /\ PhaseOver(s, "database")
  /\ Goto(s, "storage")
  /\ UNCHANGED <<data, changes, saved, scanVars, removing, report, users>>

\* Faulty: the files of the buckets are left.
SavedMappings(I) == {i \in I \cap Mappings : saved[i] # None}

\* The files in the directory of the items I.
SavedOf(I) == {i \in I : saved[i] # None}

\* A phase whose items I all went well ends with clear_checkpoint.
ClearOrGoOn(s, I, clearing, next) ==
  /\ IF errors[s] \cap I = {}
       THEN Goto(s, clearing) /\ removing' = [removing EXCEPT ![s] = SavedOf(I)]
       ELSE Goto(s, next) /\ UNCHANGED removing
  /\ UNCHANGED <<data, changes, saved, scanVars, report, users>>

CompareFiles(s) ==
  /\ PhaseOver(s, "storage")
  /\ ClearOrGoOn(s, Mappings \cup Buckets, "clearing", "content")

Protect(s) ==
  /\ PhaseOver(s, "content")
  /\ ClearOrGoOn(s, Columns, "clearingContent", "reporting")

\* rmtree lists the directory and removes one file after the other; a file
\* that is already gone is no error.
RemoveFile(s, i) ==
  /\ saved' = [saved EXCEPT ![i] = None]
  /\ users' = [users EXCEPT ![i] = {}]

\* ignore_errors=True: a file that cannot be removed is left, and nobody told.
RemovalFails(s, i) ==
  /\ users' = [users EXCEPT ![i] = @ \ {s}]
  /\ UNCHANGED saved

ClearStep(s) ==
  /\ \E i \in removing[s] :
       /\ RemoveFile(s, i) \/ RemovalFails(s, i)
       /\ removing' = [removing EXCEPT ![s] = @ \ {i}]
  /\ UNCHANGED <<data, changes, phase, scanVars, report>>

Cleared(s) ==
  /\ removing[s] = {}
  /\ \/ phase[s] = "clearing" /\ Goto(s, "content")
     \/ phase[s] = "clearingContent" /\ Goto(s, "reporting")
  /\ UNCHANGED <<data, changes, saved, scanVars, removing, report, users>>

\* The report is written and the done event sent.
Finish(s) ==
  /\ phase[s] = "reporting"
  /\ Goto(s, "done")
  /\ report' = [report EXCEPT ![s] = Compared(s)]
  /\ UNCHANGED <<data, changes, saved, scanVars, removing, users>>

\* The workbook cannot be written.
ReportFails(s) ==
  /\ phase[s] = "reporting"
  /\ Goto(s, "failed")
  /\ UNCHANGED <<data, changes, saved, scanVars, removing, report, users>>

\* A worker has raised: the others that run come to their end, those that
\* wait may not be started any more, and the scan ends with an error event.
ScanFails(s) ==
  /\ \E i \in Items : stage[s][i] = "died"
  /\ phase[s] \in Reading /\ Busy(s) = {}
  /\ Goto(s, "failed")
  /\ UNCHANGED <<data, changes, saved, scanVars, removing, report, users>>

PhaseStep(s) ==
  \/ Start(s) \/ ListBuckets(s) \/ CompareFiles(s) \/ Protect(s)
  \/ ClearStep(s) \/ Cleared(s) \/ Finish(s) \/ ReportFails(s) \/ ScanFails(s)

-----------------------------------------------------------------------------
(* What happens outside the scans.                                         *)

\* A tenant's program writes or removes a row or an object.
Change(i, n) ==
  /\ changes < MaxChanges
  /\ <<i, n>> \notin Pinned
  /\ \E v \in (RowValues(i, n) \cup {None}) \ {data[i][n]} : data' = [data EXCEPT ![i][n] = v]
  /\ changes' = changes + 1
  /\ UNCHANGED <<saved, phase, scanVars, removing, report, users>>

\* The server stops: the scans are gone, the checkpoint files stay.
Stop ==
  /\ \E s \in Scans : phase[s] \notin Ended \cup {"idle"}
  /\ phase' = [s \in Scans |-> IF phase[s] \in Ended \cup {"idle"} THEN phase[s] ELSE "stopped"]
  /\ removing' = [s \in Scans |-> {}]
  /\ UNCHANGED <<data, changes, saved, scanVars, report, users>>

ScanStep(s) == PhaseStep(s) \/ \E i \in Items : Work(s, i)
Tenants     == \E i \in Items : \E n \in Rows : Change(i, n)
Next        == (\E s \in Scans : ScanStep(s)) \/ Tenants \/ Stop

Spec == Init /\ [][Next]_vars

\* A scan that has been started goes on as long as it can: storage reads have
\* a time limit, and the database is taken to answer or to drop the
\* connection.  Nobody has to start one.
Started(s) == phase[s] # "idle" /\ ScanStep(s)
FairSpec   == Spec /\ \A s \in Scans : WF_vars(Started(s))

-----------------------------------------------------------------------------
(* Properties.                                                             *)

TypeOK ==
  /\ data \in [Items -> [Rows -> Entries \cup {None}]]
  /\ changes \in 0..MaxChanges
  /\ saved \in [Items -> {None} \cup SUBSET Entries]
  /\ phase \in [Scans -> {"idle", "clearing", "clearingContent", "reporting"} \cup Reading \cup Ended]
  /\ stage \in [Scans -> [Items -> {"waiting", "reading", "read", "done", "died"}]]
  /\ tries \in [Scans -> [Items -> 0..(Attempts - 1)]]
  /\ cursor \in [Scans -> [Items -> Rows \cup {0}]]
  /\ found \in [Scans -> [Items -> SUBSET Entries]]
  /\ errors \in [Scans -> SUBSET Items]
  /\ removing \in [Scans -> SUBSET Items]
  /\ report \in [Scans -> Reports]
  /\ users \in [Items -> SUBSET Scans]

\* A scan that reports no error at all.
Clean(s) == phase[s] = "done" /\ errors[s] = {}

\* A reference that was there all along keeps its file out of the orphans of
\* every scan without errors: no page boundary, retry, checkpoint of another
\* scan, or stop loses it, whatever tenants do to the rows around it.
StableReferencesKept ==
  \A s \in Scans : Clean(s) =>
    \A q \in Pinned :
      LET v == data[q[1]][q[2]]
      IN  /\ \/ q[1] \in Columns /\ InScope(v)
             \/ q[1] \in Mappings /\ InScope(v) /\ v.local
          => \A o \in report[s].orphan : o.key # v.key

\* What app/routes/reconciliation.py says of every report: a file that a rich
\* text refers to, and did all along, is never an orphan.
EmbeddedNeverOrphan ==
  \A s \in Scans : phase[s] = "done" =>
    \A q \in Pinned : q[1] \in Columns /\ InScope(data[q[1]][q[2]]) =>
      \A o \in report[s].orphan : o.key # data[q[1]][q[2]].key

\* A file with the prefix of the request that was there all along, with a
\* reference in a file column that was, is matched by every scan without errors,
\* and so not missing, unless its bucket is in another region.
StableFilesMatched ==
  \A s \in Scans : Clean(s) =>
    \A q \in Pinned, b \in Pinned :
      LET v == data[q[1]][q[2]]
          o == data[b[1]][b[2]]
      IN  /\ q[1] \in Mappings /\ InScope(v) /\ v.local
          /\ b[1] \in Buckets \ Foreign /\ Listed(b[1], b[2]) /\ o.key = v.key
          => (\E m \in report[s].matched : m.key = v.key) /\ v.key \notin report[s].missing

\* The scan s has ended, or goes on to its end, without clearing the directory
\* of the items I, or has not come to the end of that directory's phases.
MayLeave(s, I) ==
  \/ phase[s] \in {"failed", "stopped"}
  \/ errors[s] \cap I # {}
  \/ phase[s] \in IF I = Columns
                    THEN {"content", "clearingContent"}
                    ELSE {"database", "storage", "clearing"}

\* A scan that read all items of a directory leaves no checkpoint there that it
\* saved or loaded, but for one whose removal fails: other scans of the request
\* may save, load and remove the same files at any time, and fail or stop.
LeftoversExplained ==
  \A I \in {Mappings \cup Buckets, Columns} :
    \A i \in I : saved[i] # None => \A s \in users[i] : MayLeave(s, I)

\* Every scan that is started ends, however often its reads fail.
ScansEnd == \A s \in Scans : phase[s] # "idle" ~> phase[s] \in Ended
=============================================================================
