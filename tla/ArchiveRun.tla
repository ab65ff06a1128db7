----------------------------- MODULE ArchiveRun -----------------------------
(***************************************************************************)
(* The archive-and-delete runs of app/services/storage_service.py.         *)
(*                                                                         *)
(* A run copies every object of a report to the archive bucket, waits for  *)
(* all the copies (two thread pools, one after the other), then verifies   *)
(* each archived object against its source and deletes the source.         *)
(* Runs for disjoint reports proceed together; a run whose report overlaps *)
(* one that is still active is refused.  Meanwhile the tenants' programs   *)
(* go on writing the source buckets, any call to a provider may fail or    *)
(* lose its reply, and the server may stop and start again.                *)
(*                                                                         *)
(* An object is named by the path <<bucket, key...>>.  One action stands   *)
(* for one call to a provider, because between two calls anything may      *)
(* happen; what a worker does between two calls touches nothing shared.    *)
(***************************************************************************)
EXTENDS Integers, Sequences, FiniteSets

CONSTANTS
  Providers,        \* the configured storage providers
  ArchiveProvider,  \* env.archive_provider
  Segments,         \* path segments: bucket names and pieces of keys
  ArchiveBucket,    \* "scola-school-archives"
  Objects,          \* the source objects a report may list, as paths
  Contents,         \* what an object's bytes may be
  SizeOf,           \* the length of each content
  Runs,             \* identities of archive runs, one per request
  Requests,         \* the reports: sequences of objects
  Workers,          \* _COPY_CONCURRENCY, the size of both thread pools
  MaxWrites,        \* bound: writes and removals by the tenants
  Absent,           \* no object at a path
  None              \* a request field that is not set yet

\* _archive_dest_key: "<bucket>/<key>", inside the archive bucket.
ArchivePath(o) == <<ArchiveBucket>> \o o

Locations == Objects \cup {ArchivePath(o) : o \in Objects}

\* What HEAD reports: the ETag and ContentLength depend on the bytes alone,
\* LastModified (and VersionId) on the write.
Versions == [content : Contents, modified : 0..MaxWrites]

ASSUME ProvidersAssumption == ArchiveProvider \in Providers
ASSUME PathsAssumption ==
  /\ ArchiveBucket \in Segments
  /\ Objects \subseteq Seq(Segments) \ {<<>>}
ASSUME ContentsAssumption == SizeOf \in [Contents -> Nat]
ASSUME RequestsAssumption == Requests \subseteq Seq(Objects) \ {<<>>}
ASSUME NumbersAssumption == Workers \in Nat \ {0} /\ MaxWrites \in Nat
ASSUME AbsentAssumption == Absent \notin Versions /\ None \notin Providers

VARIABLES
  store,      \* store[p][l]: the version of the object l at provider p, or Absent
  writes,     \* how many times the tenants wrote
  active,     \* _archive_active_keys
  phase,      \* phase[r]: where the thread of run r is
  provider,   \* provider[r]: resolved_source
  items,      \* items[r]: the objects of the report, in its order
  stage,      \* stage[r][i]: how far the i-th item of run r is
  seen,       \* seen[r][i]: what its worker read of the source last
  audited     \* the runs whose audit log is on disk

vars == <<store, writes, active, phase, provider, items, stage, seen, audited>>
reports == <<provider, items>>

\* The stages of an item, each named for what has been done:
\*   queued -> missing -> fetched -> copied               (copy_one)
\*   copied -> headed -> sized -> hashed -> matched -> verified
\*          -> deleted | deleteFailed                     (verify_and_delete_one)
Unfinished     == {"queued", "missing", "fetched"}
Verifying      == {"headed", "sized", "hashed", "matched", "verified"}
Outcomes       == {"copyFailed", "retained", "deleted", "deleteFailed"}
Stages         == Unfinished \cup {"copied"} \cup Verifying \cup Outcomes

Holding        == {"preparing", "copying", "verifying"}
Ended          == {"done", "failed", "rejected", "crashed"}
Phases         == {"idle"} \cup Holding \cup {"auditing", "reporting"} \cup Ended

Keys(s)        == {s[i] : i \in 1..Len(s)}
Items(r)       == 1..Len(items[r])
TenantObjects  == {o \in Objects : Head(o) # ArchiveBucket}

Init ==
  /\ store \in [Providers -> [Locations -> [content : Contents, modified : {0}] \cup {Absent}]]
  /\ writes = 0
  /\ active = {}
  /\ phase = [r \in Runs |-> "idle"]
  /\ provider = [r \in Runs |-> None]
  /\ items = [r \in Runs |-> <<>>]
  /\ stage = [r \in Runs |-> <<>>]
  /\ seen = [r \in Runs |-> <<>>]
  /\ audited = {}

-----------------------------------------------------------------------------
(* The run itself: _single_archive_run and archive_and_delete_objects.     *)

\* Faulty: the lock refuses nobody.
AlwaysFree(s) == TRUE

\* _single_archive_run: the keys of the report, without the provider.
NoOverlap(s) == Keys(s) \cap active = {}

\* Faulty: the records of the items are not laid out when the run begins.
NothingQueued(s) == <<>>

\* results = [None] * total: one record per row of the report.
Queued(s) == [i \in 1..Len(s) |-> "queued"]

Begin(r, p, s) ==
  /\ phase[r] = "idle"
  /\ NoOverlap(s)
  /\ active' = active \cup Keys(s)
  /\ phase' = [phase EXCEPT ![r] = "preparing"]
  /\ provider' = [provider EXCEPT ![r] = p]
  /\ items' = [items EXCEPT ![r] = s]
  /\ stage' = [stage EXCEPT ![r] = Queued(s)]
  /\ seen' = [seen EXCEPT ![r] = [i \in 1..Len(s) |-> Absent]]
  /\ UNCHANGED <<store, writes, audited>>

\* RuntimeError: an overlapping run is still active.
Reject(r, p, s) ==
  /\ phase[r] = "idle"
  /\ ~NoOverlap(s)
  /\ phase' = [phase EXCEPT ![r] = "rejected"]
  /\ UNCHANGED <<store, writes, active, provider, items, stage, seen, audited>>

\* Faulty: a run that fails keeps its keys.
ReleaseOnSuccess(r, ph) ==
  /\ active' = IF ph = "failed" THEN active ELSE active \ Keys(items[r])
  /\ phase' = [phase EXCEPT ![r] = ph]
  /\ UNCHANGED <<store, writes, reports, stage, seen, audited>>

\* The finally clause of _single_archive_run, when the run ends in phase ph.
Release(r, ph) ==
  /\ active' = active \ Keys(items[r])
  /\ phase' = [phase EXCEPT ![r] = ph]
  /\ UNCHANGED <<store, writes, reports, stage, seen, audited>>

\* Faulty: the archive bucket may be a deletion source.
AnySource(s) == TRUE

\* No item of the report may lie in the archive bucket.
SourcesAllowed(s) == \A o \in Keys(s) : Head(o) # ArchiveBucket

\* A ValueError, a client that cannot be built, or an error of CreateBucket
\* that is not a ClientError: the exception leaves the whole run.
Abort(r) ==
  /\ phase[r] = "preparing"
  /\ Release(r, "failed")

\* The archive bucket exists, or CreateBucket says it cannot be used and every
\* item fails without a call ("Destination bucket unavailable").
Prepare(r) ==
  /\ phase[r] = "preparing"
  /\ SourcesAllowed(items[r])
  /\ phase' = [phase EXCEPT ![r] = "copying"]
  /\ \/ UNCHANGED stage
     \/ stage' = [stage EXCEPT ![r] = [i \in Items(r) |-> "copyFailed"]]
  /\ UNCHANGED <<store, writes, active, reports, seen, audited>>

\* pool.map hands the items to the workers in order: item i can be under way
\* once fewer than Workers of the items before it are unfinished.
Admitted(r, i, pending) ==
  Cardinality({j \in 1..(i - 1) : stage[r][j] \in pending}) < Workers

\* Faulty: the verification waits for copies that succeeded.
AllCopied(r) == \A i \in Items(r) : stage[r][i] = "copied"

\* copy_objects returns when its pool has finished every item.
CopiesFinished(r) == \A i \in Items(r) : stage[r][i] \notin Unfinished

StartVerification(r) ==
  /\ phase[r] = "copying"
  /\ CopiesFinished(r)
  /\ phase' = [phase EXCEPT ![r] = "verifying"]
  /\ UNCHANGED <<store, writes, active, reports, stage, seen, audited>>

\* Faulty: the run returns with the first outcome.
SomeOutcomeKnown(r) == \E i \in Items(r) : stage[r][i] \in Outcomes

\* archive_and_delete_objects returns when the second pool has.
OutcomesKnown(r) == \A i \in Items(r) : stage[r][i] \in Outcomes

Finish(r) ==
  /\ phase[r] = "verifying"
  /\ OutcomesKnown(r)
  /\ Release(r, "auditing")

\* _write_deletion_audit_log, after the lock is released.
WriteAudit(r) ==
  /\ phase[r] = "auditing"
  /\ \/ /\ audited' = audited \cup {r}
        /\ phase' = [phase EXCEPT ![r] = "reporting"]
     \/ /\ phase' = [phase EXCEPT ![r] = "failed"]
        /\ UNCHANGED audited
  /\ UNCHANGED <<store, writes, active, reports, stage, seen>>

\* generate_archive_deletion_report; the response or the "done" event follows.
WriteReport(r) ==
  /\ phase[r] = "reporting"
  /\ \E ph \in {"done", "failed"} : phase' = [phase EXCEPT ![r] = ph]
  /\ UNCHANGED <<store, writes, active, reports, stage, seen, audited>>

-----------------------------------------------------------------------------
(* The items.  A call that fails, whatever the failure, ends its item: the *)
(* Fails actions are those, and the answers that end it are their cases.   *)

Advance(r, i, st, v) ==
  /\ stage' = [stage EXCEPT ![r][i] = st]
  /\ seen' = [seen EXCEPT ![r][i] = v]
  /\ UNCHANGED <<writes, active, phase, reports, audited>>

Source(r, i)  == store[provider[r]][items[r][i]]
Archive(r, i) == store[ArchiveProvider][ArchivePath(items[r][i])]

\* Worker of the copy pool at item i, which has reached stage st.
Copying(r, i, st) ==
  phase[r] = "copying" /\ stage[r][i] = st /\ Admitted(r, i, Unfinished)

\* Faulty: overwrite=True.
AlwaysUpload(r, i) == TRUE

\* overwrite=False: an object already at the destination is not uploaded again.
NeedsUpload(r, i) == Archive(r, i) = Absent

HeadDestination(r, i) ==
  /\ Copying(r, i, "queued")
  /\ Advance(r, i, IF NeedsUpload(r, i) THEN "missing" ELSE "copied", Absent)
  /\ UNCHANGED store

FetchSource(r, i) ==
  /\ Copying(r, i, "missing")
  /\ Source(r, i) # Absent
  /\ Advance(r, i, "fetched", Source(r, i))
  /\ UNCHANGED store

Uploaded(v) == [content |-> v.content, modified |-> 0]

\* The upload takes place; its reply may be lost.
Upload(r, i) ==
  /\ Copying(r, i, "fetched")
  /\ store' = [store EXCEPT ![ArchiveProvider][ArchivePath(items[r][i])] = Uploaded(seen[r][i])]
  /\ \E st \in {"copied", "copyFailed"} : Advance(r, i, st, Absent)

CopyFails(r, i) ==
  /\ \E st \in Unfinished : Copying(r, i, st)
  /\ Advance(r, i, "copyFailed", Absent)
  /\ UNCHANGED store

\* Worker of the verification pool at item i, which has reached stage st.
VerifyingAt(r, i, st) ==
  phase[r] = "verifying" /\ stage[r][i] = st /\ Admitted(r, i, {"copied"} \cup Verifying)

HeadSource(r, i) ==
  /\ VerifyingAt(r, i, "copied")
  /\ Source(r, i) # Absent
  /\ Advance(r, i, "headed", Source(r, i))
  /\ UNCHANGED store

HeadArchive(r, i) ==
  /\ VerifyingAt(r, i, "headed")
  /\ Archive(r, i) # Absent
  /\ SizeOf[Archive(r, i).content] = SizeOf[seen[r][i].content]
  /\ Advance(r, i, "sized", seen[r][i])
  /\ UNCHANGED store

\* IfMatch: the bytes hashed are those of the ETag that HEAD reported.
HashSource(r, i) ==
  /\ VerifyingAt(r, i, "sized")
  /\ Source(r, i) # Absent
  /\ Source(r, i).content = seen[r][i].content
  /\ Advance(r, i, "hashed", seen[r][i])
  /\ UNCHANGED store

\* Faulty: the archive is not downloaded, its size is taken for its contents.
SameLength(archived, source) ==
  archived # Absent /\ SizeOf[archived.content] = SizeOf[source.content]

\* The signed download of the archive has the digest and size of the source.
SameDigest(archived, source) == archived # Absent /\ archived.content = source.content

CompareArchive(r, i) ==
  /\ VerifyingAt(r, i, "hashed")
  /\ SameDigest(Archive(r, i), seen[r][i])
  /\ Advance(r, i, "matched", seen[r][i])
  /\ UNCHANGED store

\* ETag, ContentLength, LastModified and VersionId are as before.
SameVersion(r, i) == Source(r, i) = seen[r][i]

\* The last HEAD.
RecheckSource(r, i) ==
  /\ VerifyingAt(r, i, "matched")
  /\ SameVersion(r, i)
  /\ Advance(r, i, "verified", seen[r][i])
  /\ UNCHANGED store

\* Faulty: the copy of an item that is retained is taken out of the archive again.
VerifyFailsAndCleans(r, i) ==
  /\ \E st \in {"copied"} \cup (Verifying \ {"verified"}) : VerifyingAt(r, i, st)
  /\ Advance(r, i, "retained", Absent)
  /\ store' = [store EXCEPT ![ArchiveProvider][ArchivePath(items[r][i])] = Absent]

\* An error, or an answer that differs: "... source retained".
VerifyFails(r, i) ==
  /\ \E st \in {"copied"} \cup (Verifying \ {"verified"}) : VerifyingAt(r, i, st)
  /\ Advance(r, i, "retained", Absent)
  /\ UNCHANGED store

\* Faulty: the source is deleted once the archive matches, without the last HEAD.
DeleteUnchecked(r, i) ==
  /\ VerifyingAt(r, i, "matched")
  /\ store' = [store EXCEPT ![provider[r]][items[r][i]] = Absent]
  /\ \E st \in {"deleted", "deleteFailed"} : Advance(r, i, st, Absent)

\* delete_objects of one key, unconditional.  The provider reports a key that
\* is not there as deleted; the reply may be lost.
DeleteSource(r, i) ==
  /\ VerifyingAt(r, i, "verified")
  /\ store' = [store EXCEPT ![provider[r]][items[r][i]] = Absent]
  /\ \E st \in {"deleted", "deleteFailed"} : Advance(r, i, st, Absent)

DeleteFails(r, i) ==
  /\ VerifyingAt(r, i, "verified")
  /\ Advance(r, i, "deleteFailed", Absent)
  /\ UNCHANGED store

-----------------------------------------------------------------------------
(* What happens outside the runs.                                          *)

\* A tenant's program writes or removes a source object.  LastModified has a
\* resolution of one second: a write may leave it as it was.
TenantWrite(p, o) ==
  /\ writes < MaxWrites
  /\ writes' = writes + 1
  /\ \E c \in Contents, m \in writes..(writes + 1) :
       store' = [store EXCEPT ![p][o] = [content |-> c, modified |-> m]]
  /\ UNCHANGED <<active, phase, reports, stage, seen, audited>>

TenantRemove(p, o) ==
  /\ writes < MaxWrites
  /\ store[p][o] # Absent
  /\ writes' = writes + 1
  /\ store' = [store EXCEPT ![p][o] = Absent]
  /\ UNCHANGED <<active, phase, reports, stage, seen, audited>>

\* The server process stops: the lock and the threads are gone, the objects
\* and the audit logs stay.  The runs not begun yet are those of the next one.
Crash ==
  /\ \E r \in Runs : phase[r] \notin Ended \cup {"idle"}
  /\ active' = {}
  /\ phase' = [r \in Runs |-> IF phase[r] \in Ended \cup {"idle"} THEN phase[r] ELSE "crashed"]
  /\ UNCHANGED <<store, writes, reports, stage, seen, audited>>

-----------------------------------------------------------------------------
CopyStep(r) == \E i \in Items(r) :
  HeadDestination(r, i) \/ FetchSource(r, i) \/ Upload(r, i) \/ CopyFails(r, i)

VerifyStep(r) == \E i \in Items(r) :
  \/ HeadSource(r, i) \/ HeadArchive(r, i) \/ HashSource(r, i) \/ CompareArchive(r, i)
  \/ RecheckSource(r, i) \/ VerifyFails(r, i) \/ DeleteSource(r, i) \/ DeleteFails(r, i)

RunStep(r) ==
  \/ Abort(r) \/ Prepare(r) \/ CopyStep(r) \/ StartVerification(r)
  \/ VerifyStep(r) \/ Finish(r) \/ WriteAudit(r) \/ WriteReport(r)

Request(r) == \E p \in Providers, s \in Requests : Begin(r, p, s) \/ Reject(r, p, s)

Tenants == \E p \in Providers, o \in TenantObjects : TenantWrite(p, o) \/ TenantRemove(p, o)

Next == (\E r \in Runs : Request(r) \/ RunStep(r)) \/ Tenants \/ Crash

Spec == Init /\ [][Next]_vars

\* Every call has a time limit (urlopen's 60 seconds, the client's own), so a
\* thread that runs goes on; nothing makes requests, tenants or crashes happen.
FairSpec == Spec /\ \A r \in Runs : WF_vars(RunStep(r))

-----------------------------------------------------------------------------
(* Correctness.                                                            *)

\* Every variable has its type; the two records of a run have one entry per
\* item of its report.
TypeOK ==
  /\ store \in [Providers -> [Locations -> Versions \cup {Absent}]]
  /\ writes \in 0..MaxWrites
  /\ active \subseteq Objects
  /\ phase \in [Runs -> Phases]
  /\ provider \in [Runs -> Providers \cup {None}]
  /\ items \in [Runs -> Seq(Objects)]
  /\ stage \in [Runs -> Seq(Stages)]
  /\ seen \in [Runs -> Seq(Versions \cup {Absent})]
  /\ audited \subseteq Runs
  /\ \A r \in Runs : Len(stage[r]) = Len(items[r]) /\ Len(seen[r]) = Len(items[r])

\* The lock is exactly the keys of the runs that are between acquiring and
\* releasing it (no key leaks after a failure or a crash, none is given up
\* early), and no two of those runs share a key, whatever their providers.
LockExact ==
  /\ active = UNION {Keys(items[r]) : r \in {q \in Runs : phase[q] \in Holding}}
  /\ \A q, r \in Runs :
       q # r /\ phase[q] \in Holding /\ phase[r] \in Holding
         => Keys(items[q]) \cap Keys(items[r]) = {}

\* The object a of the archive has the bytes of the version v.
CopyOf(a, v) == a \in Versions /\ a.content = v.content

\* An archive copy that was compared with its source stays what it was until
\* the item has its outcome: no other worker, run or request replaces or
\* removes it between the comparison and the deletion it justifies.
ComparedCopyStays ==
  \A r \in Runs : \A i \in Items(r) :
    phase[r] = "verifying" /\ stage[r][i] \in {"matched", "verified"}
      => CopyOf(Archive(r, i), seen[r][i])

\* Item i of run r removes a version of its source that was there.
Removes(r, i) ==
  /\ phase[r] = "verifying" /\ stage[r][i] = "verified"
  /\ Source(r, i) # Absent /\ Source(r, i)' = Absent

\* A run deletes a source only when the archive holds the same bytes, unless a
\* tenant wrote the object after the last HEAD of the verification.
DeletesOnlyArchived ==
  [][\A r \in Runs : \A i \in Items(r) :
       Removes(r, i) /\ Source(r, i) = seen[r][i] => CopyOf(Archive(r, i)', Source(r, i))]_vars

\* The reports list an object once, as the comparison of two providers does.
\* (Of two rows for one object, two workers may both find no archive copy, and
\* one row may be deleted while the other is retained.)
DistinctRows == \A s \in Requests : \A i, j \in 1..Len(s) : s[i] = s[j] => i = j

\* What is in the archive is never replaced and never removed, by any run: a
\* second report, a retry or another provider's object of the same name finds
\* the first copy (given DistinctRows).
ArchiveNeverRewritten ==
  [][\A o \in TenantObjects :
       LET l == ArchivePath(o) IN
       store[ArchiveProvider][l] # Absent
         => store'[ArchiveProvider][l] = store[ArchiveProvider][l]]_vars

\* The archive has the object o with the bytes c, and an item of it found so.
ArchivedAs(o, c) ==
  LET a == store[ArchiveProvider][ArchivePath(o)] IN a \in Versions /\ a.content = c
VerifiedAs(o, c) ==
  \E r \in Runs : \E i \in Items(r) :
    /\ phase[r] = "verifying" /\ stage[r][i] \in {"matched", "verified"}
    /\ items[r][i] = o /\ seen[r][i].content = c

\* Bytes that once justified a deletion are in the archive for good: through
\* the end of their run, the runs after it, failures and restarts.
VerifiedStaysArchived ==
  \A o \in TenantObjects, c \in Contents : [](VerifiedAs(o, c) => []ArchivedAs(o, c))

\* A source that a run has reported "retained" (or not copied) is not removed
\* by any run, this one or another, for as long as the first one lasts.
RetainedStays ==
  [][\A r \in Runs : \A i \in Items(r) :
       /\ phase[r] \in {"copying", "verifying"}
       /\ stage[r][i] \in {"copyFailed", "retained"}
       => ~ \E q \in Runs : \E j \in Items(q) :
              /\ provider[q] = provider[r] /\ items[q][j] = items[r][i]
              /\ Removes(q, j)]_vars

\* Once the audit log of a run is written, nothing more happens to its items:
\* the log has the final outcome of every one of them.
AuditIsFinal ==
  [][\A r \in audited : stage'[r] = stage[r] /\ \A i \in Items(r) : stage[r][i] \in Outcomes]_vars

\* Every run that begins ends, however its calls fail: no worker, barrier or
\* audit step waits for something that will not come.
RunsEnd == \A r \in Runs : phase[r] \in Holding ~> phase[r] \in Ended

\* README.md:41-44: sources are deleted after the archive download matches
\* "the complete" contents: no version is deleted that is not in the archive.
EveryDeletedVersionArchived ==
  [][\A r \in Runs : \A i \in Items(r) :
       Removes(r, i) => CopyOf(Archive(r, i)', Source(r, i))]_vars
=============================================================================
