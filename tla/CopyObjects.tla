----------------------------- MODULE CopyObjects -----------------------------
(***************************************************************************)
(* Copies between providers: copy_objects of app/services/                 *)
(* storage_service.py, run by POST /storage/copy(/stream), and its inverse *)
(* of the archive layout, restore_from_archive.                            *)
(*                                                                         *)
(* The threads of a run share the dictionary acl_supported without a lock. *)
(* Several runs may be under way, tenants write their objects meanwhile,   *)
(* any call may fail or lose its reply, and the server may stop.           *)
(*                                                                         *)
(* An object is named by the path <<bucket, key...>>, and a place is the   *)
(* path at a provider.  One action stands for one call to a provider.      *)
(***************************************************************************)
EXTENDS Integers, Sequences, FiniteSets

CONSTANTS
  Providers,      \* the configured storage providers
  Segments,       \* path segments: bucket names and pieces of keys
  Paths,          \* the paths objects may have
  Contents,       \* what an object's bytes may be
  Foreign,        \* <<provider, bucket>>: bucket names other accounts own
  NoAcls,         \* <<provider, bucket>>: buckets that reject every ACL
  InitialStores,  \* what the providers may hold at first
  TenantPlaces,   \* the places the tenants' programs write
  Copies,         \* identities of runs, one per request
  Requests,       \* the requests: CopyBody and RestoreFromArchiveBody
  Workers,        \* STORAGE_COPY_CONCURRENCY
  Absent,         \* no object at a place
  None            \* a field of a request that is not set

Places  == Providers \X Paths
Objects == [content : Contents, public : BOOLEAN]

ASSUME PathsAssumption == Paths \subseteq Seq(Segments) \ {<<>>}
ASSUME StoresAssumption == InitialStores \subseteq [Places -> Objects \cup {Absent}]
ASSUME PlacesAssumption ==
  /\ TenantPlaces \subseteq Places
  /\ Foreign \cup NoAcls \subseteq Providers \X Segments
ASSUME WorkersAssumption == Workers \in Nat \ {0}
ASSUME AbsentAssumption == Absent \notin Objects

BucketOf(pl) == <<pl[1], Head(pl[2])>>

\* The destination of a copy is the bucket destBucket or the source's own, with
\* the same key; of a restore, the path without the archive bucket:
\* restore_dest_bucket and restore_dest_key split the key at its first slash.
DestPath(q, o) ==
  CASE q.kind = "restore"                     -> Tail(o)
    [] q.kind = "copy" /\ q.destBucket = None -> o
    [] OTHER                                  -> <<q.destBucket>> \o Tail(o)

Source(q, i)  == <<q.from, q.items[i]>>
Dest(q, i)    == <<q.to, DestPath(q, q.items[i])>>
Rows(q)       == 1..Len(q.items)
Targets(q)    == {BucketOf(Dest(q, i)) : i \in Rows(q)}

\* CopyBody and RestoreFromArchiveBody; the latter has no bucket.
Bodies ==
  {q \in [kind : {"copy", "restore"}, from : Providers, to : Providers, items : Seq(Paths),
          destBucket : Segments \cup {None}, overwrite : BOOLEAN, public : BOOLEAN] :
     q.kind = "restore" => q.destBucket = None}

ASSUME RequestsAssumption == Requests \subseteq Bodies

VARIABLES
  store,        \* store[pl]: the object at the place pl, or Absent
  rewritten,    \* the places the tenants have written or emptied
  request,      \* request[j]: the request of run j
  phase,        \* phase[j]: where the thread of run j is
  unready,      \* unready[j]: the target buckets not yet looked after
  bucketErrors, \* bucketErrors[j]: the target buckets that cannot be used
  noAcl,        \* noAcl[j]: the buckets with acl_supported[bucket] = False
  stage,        \* stage[j][i]: how far row i is
  body,         \* body[j][i]: what its thread is about to upload
  reported,     \* the runs whose report is on disk
  before        \* before[j]: places full since run j was submitted (history)

requestState == <<request, reported>>
copyVars == <<store, rewritten, request, phase, unready, bucketErrors, noAcl, stage, body,
              reported, before>>

\* queued -> present -> skipped | failed
\* queued -> missing -> fetched (-> refused -> fetched) -> copied | failed
Unfinished == {"queued", "present", "missing", "fetched", "refused"}
Successful == {"copied", "skipped"}
Stages     == Unfinished \cup Successful \cup {"failed"}

Active     == {"preparing", "copying", "reporting", "auditing"}
Ended      == {"done", "failed", "invalid", "crashed"}
Phases     == {"idle"} \cup Active \cup Ended

Full(s)    == {pl \in Places : s[pl] # Absent}

CopyInit ==
  /\ store \in InitialStores
  /\ rewritten = {}
  /\ request = [j \in Copies |-> None]
  /\ phase = [j \in Copies |-> "idle"]
  /\ unready = [j \in Copies |-> {}]
  /\ bucketErrors = [j \in Copies |-> {}]
  /\ noAcl = [j \in Copies |-> {}]
  /\ stage = [j \in Copies |-> <<>>]
  /\ body = [j \in Copies |-> <<>>]
  /\ reported = {}
  /\ before = [j \in Copies |-> {}]

-----------------------------------------------------------------------------
(* The run: the routes and copy_objects.                                   *)

\* _validate_copy_body: within one provider the destination is another bucket
\* than any source.
ValidCopy(q) ==
  /\ q.items # <<>>
  /\ q.from = q.to
       => q.destBucket # None /\ \A i \in Rows(q) : Head(q.items[i]) # q.destBucket

\* _validate_restore_body: every key has a slash, and none is restored into
\* the bucket it lies in.
ValidRestore(q) ==
  /\ q.items # <<>>
  /\ \A i \in Rows(q) : Len(q.items[i]) > 2 /\ q.items[i][2] # q.items[i][1]

Valid(q) == (q.kind = "copy" /\ ValidCopy(q)) \/ (q.kind = "restore" /\ ValidRestore(q))

\* Paths has the names the copies write, too.
ASSUME DestinationsAssumption ==
  \A q \in Requests : Valid(q) => \A i \in Rows(q) : DestPath(q, q.items[i]) \in Paths

Accept(j, q) ==
  /\ phase[j] = "idle"
  /\ request' = [request EXCEPT ![j] = q]
  /\ phase' = [phase EXCEPT ![j] = "preparing"]
  /\ unready' = [unready EXCEPT ![j] = Targets(q)]
  /\ stage' = [stage EXCEPT ![j] = [i \in Rows(q) |-> "queued"]]
  /\ body' = [body EXCEPT ![j] = [i \in Rows(q) |-> Absent]]
  /\ before' = [before EXCEPT ![j] = Full(store)]
  /\ UNCHANGED <<store, rewritten, bucketErrors, noAcl, reported>>

\* HTTP 400.
Refuse(j) ==
  /\ phase[j] = "idle"
  /\ phase' = [phase EXCEPT ![j] = "invalid"]
  /\ UNCHANGED <<store, rewritten, requestState, unready, bucketErrors, noAcl, stage, body, before>>

\* Faulty: only the first item's bucket is compared with the destination's.
CopyRouteFirst(j, q) ==
  /\ q.kind = "copy" /\ q.items # <<>>
  /\ IF q.from = q.to => q.destBucket \notin {None, Head(q.items[1])} THEN Accept(j, q) ELSE Refuse(j)

\* POST /storage/copy and /copy/stream.
CopyRoute(j, q) ==
  /\ q.kind = "copy"
  /\ IF ValidCopy(q) THEN Accept(j, q) ELSE Refuse(j)

\* POST /storage/restore-from-archive and /restore-from-archive/stream.
RestoreRoute(j, q) ==
  /\ q.kind = "restore"
  /\ IF ValidRestore(q) THEN Accept(j, q) ELSE Refuse(j)

\* The phase and the tables of buckets are all that changes.
BucketsOnly == UNCHANGED <<store, rewritten, requestState, noAcl, stage, body, before>>

\* _ensure_dest_buckets: CreateBucket creates the bucket, or says that it is
\* ours, or that it exists, and then HeadBucket answers for one of ours only.
EnsureBucket(j, b) ==
  /\ phase[j] = "preparing" /\ b \in unready[j]
  /\ unready' = [unready EXCEPT ![j] = @ \ {b}]
  /\ \/ b \notin Foreign /\ UNCHANGED bucketErrors
     \/ bucketErrors' = [bucketErrors EXCEPT ![j] = @ \cup {b}]
  /\ UNCHANGED phase
  /\ BucketsOnly

StartCopying(j) ==
  /\ phase[j] = "preparing" /\ unready[j] = {}
  /\ phase' = [phase EXCEPT ![j] = "copying"]
  /\ UNCHANGED <<unready, bucketErrors>>
  /\ BucketsOnly

\* A client that cannot be built, an error that is not a ClientError.
Abort(j) ==
  /\ phase[j] = "preparing"
  /\ phase' = [phase EXCEPT ![j] = "failed"]
  /\ UNCHANGED <<unready, bucketErrors>>
  /\ BucketsOnly

\* copy_objects returns when its pool has finished every row.
Finish(j) ==
  /\ phase[j] = "copying"
  /\ \A i \in Rows(request[j]) : stage[j][i] \notin Unfinished
  /\ phase' = [phase EXCEPT ![j] = "reporting"]
  /\ UNCHANGED <<unready, bucketErrors>>
  /\ BucketsOnly

\* _build_copy_report, _build_restore_report.
WriteReport(j) ==
  /\ phase[j] = "reporting"
  /\ \/ /\ reported' = reported \cup {j}
        /\ phase' = [phase EXCEPT ![j] = "auditing"]
     \/ /\ phase' = [phase EXCEPT ![j] = "failed"]
        /\ UNCHANGED reported
  /\ UNCHANGED <<store, rewritten, request, unready, bucketErrors, noAcl, stage, body, before>>

\* _write_copy_audit_log, _write_restore_audit_log; then the "done" event.
WriteAudit(j) ==
  /\ phase[j] = "auditing"
  /\ \E ph \in {"done", "failed"} : phase' = [phase EXCEPT ![j] = ph]
  /\ UNCHANGED <<unready, bucketErrors>>
  /\ BucketsOnly

-----------------------------------------------------------------------------
(* The rows: copy_one.                                                     *)

\* pool.map hands out the rows in order, at most Workers at a time.
Working(j, i, st) ==
  /\ phase[j] = "copying" /\ stage[j][i] = st
  /\ Cardinality({k \in 1..(i - 1) : stage[j][k] \in Unfinished}) < Workers

\* Row i gets to the stage st with the body v.
Advance(j, i, st, v) ==
  /\ stage' = [stage EXCEPT ![j][i] = st]
  /\ body' = [body EXCEPT ![j][i] = v]
  /\ UNCHANGED <<rewritten, requestState, phase, unready, bucketErrors, before>>

TargetOf(j, i)   == BucketOf(Dest(request[j], i))
SourceOf(j, i)   == store[Source(request[j], i)]
DestOf(j, i)     == store[Dest(request[j], i)]
Available(j, i)  == TargetOf(j, i) \notin bucketErrors[j]

\* Faulty: one flag for the whole call.
WantsAclAnywhere(j, i) == request[j].public /\ noAcl[j] = {}

\* make_public and acl_supported.get(target_bucket, True)
WantsAcl(j, i) == request[j].public /\ TargetOf(j, i) \notin noAcl[j]

\* "Destination bucket unavailable": no call is made.
Unavailable(j, i) ==
  /\ Working(j, i, "queued") /\ ~Available(j, i)
  /\ Advance(j, i, "failed", Absent)
  /\ UNCHANGED <<store, noAcl>>

\* Faulty: any error of HEAD means that the key is not there.
MissingOnError(j, i) == {"missing"} \cup (IF DestOf(j, i) = Absent THEN {} ELSE {"present"})

\* What HEAD of the destination says: 404, NoSuchKey and NotFound are "missing".
HeadAnswers(j, i) == {IF DestOf(j, i) = Absent THEN "missing" ELSE "present"}

HeadDestination(j, i) ==
  /\ Working(j, i, "queued") /\ Available(j, i)
  /\ \E st \in IF request[j].overwrite THEN {"missing"} ELSE HeadAnswers(j, i) :
       Advance(j, i, st, Absent)
  /\ UNCHANGED <<store, noAcl>>

\* PutObjectAcl on an object that is already there.  (A thread that read the
\* flag before another one cleared it gets the same answer once more.)
ReapplyAcl(j, i) ==
  /\ Working(j, i, "present") /\ WantsAcl(j, i) /\ DestOf(j, i) # Absent
  /\ \/ /\ TargetOf(j, i) \in NoAcls
        /\ noAcl' = [noAcl EXCEPT ![j] = @ \cup {TargetOf(j, i)}]
        /\ Advance(j, i, "skipped", Absent)
        /\ UNCHANGED store
     \/ /\ TargetOf(j, i) \notin NoAcls
        /\ store' = [store EXCEPT ![Dest(request[j], i)].public = TRUE]
        /\ \E st \in {"skipped", "failed"} : Advance(j, i, st, Absent)
        /\ UNCHANGED noAcl

LeaveAcl(j, i) ==
  /\ Working(j, i, "present") /\ ~WantsAcl(j, i)
  /\ Advance(j, i, "skipped", Absent)
  /\ UNCHANGED <<store, noAcl>>

Fetched(j, i, acl) == [content |-> SourceOf(j, i).content, public |-> acl]

\* GetObject; what is known of ACLs by then decides about the upload.
Fetch(j, i) ==
  /\ Working(j, i, "missing") /\ SourceOf(j, i) # Absent
  /\ Advance(j, i, "fetched", Fetched(j, i, WantsAcl(j, i)))
  /\ UNCHANGED <<store, noAcl>>

\* The upload is rejected for its ACL.
RejectAcl(j, i) ==
  /\ Working(j, i, "fetched") /\ body[j][i].public /\ TargetOf(j, i) \in NoAcls
  /\ noAcl' = [noAcl EXCEPT ![j] = @ \cup {TargetOf(j, i)}]
  /\ Advance(j, i, "refused", Absent)
  /\ UNCHANGED store

\* The source is fetched again for an upload without ACL.
FetchAgain(j, i) ==
  /\ Working(j, i, "refused") /\ SourceOf(j, i) # Absent
  /\ Advance(j, i, "fetched", Fetched(j, i, FALSE))
  /\ UNCHANGED <<store, noAcl>>

\* The upload takes place; its reply may be lost.
Upload(j, i) ==
  /\ Working(j, i, "fetched") /\ ~(body[j][i].public /\ TargetOf(j, i) \in NoAcls)
  /\ store' = [store EXCEPT ![Dest(request[j], i)] = body[j][i]]
  /\ \E st \in {"copied", "failed"} : Advance(j, i, st, Absent)
  /\ UNCHANGED noAcl

\* Any error of any call.
RowFails(j, i) ==
  /\ \E st \in Unfinished : Working(j, i, st)
  /\ Available(j, i)
  /\ Advance(j, i, "failed", Absent)
  /\ UNCHANGED <<store, noAcl>>

-----------------------------------------------------------------------------
(* What happens outside the runs.                                          *)

\* The places in pls get what f says; what is not there any more was not
\* there all the time.
Replace(pls, f) ==
  /\ store' = [pl \in Places |-> IF pl \in pls THEN f[pl] ELSE store[pl]]
  /\ before' = [j \in Copies |-> before[j] \ {pl \in pls : f[pl] = Absent}]

\* A tenant's program writes or removes one of its objects (bound: once each,
\* and with other bytes).
TenantChange(pl) ==
  /\ pl \in TenantPlaces \ rewritten
  /\ rewritten' = rewritten \cup {pl}
  /\ \E v \in {o \in Objects : o.public /\ (store[pl] # Absent => o.content # store[pl].content)}
                \cup {Absent} :
       Replace({pl}, [x \in {pl} |-> v])
  /\ UNCHANGED <<requestState, phase, unready, bucketErrors, noAcl, stage, body>>

\* What a stop of the server does to the runs; the objects and reports stay.
CopiesStop ==
  /\ phase' = [j \in Copies |-> IF phase[j] \in Active THEN "crashed" ELSE phase[j]]
  /\ UNCHANGED <<store, rewritten, requestState, unready, bucketErrors, noAcl, stage, body, before>>

CopyOne(j, i) ==
  \/ Unavailable(j, i) \/ HeadDestination(j, i) \/ ReapplyAcl(j, i) \/ LeaveAcl(j, i)
  \/ Fetch(j, i) \/ RejectAcl(j, i) \/ FetchAgain(j, i) \/ Upload(j, i) \/ RowFails(j, i)

CopyStep(j) ==
  \/ \E b \in unready[j] : EnsureBucket(j, b)
  \/ StartCopying(j) \/ Abort(j) \/ Finish(j) \/ WriteReport(j) \/ WriteAudit(j)
  \/ \E i \in 1..Len(stage[j]) : CopyOne(j, i)

CopyRequest(j) == \E q \in Requests : CopyRoute(j, q) \/ RestoreRoute(j, q)

TenantStep == \E pl \in TenantPlaces : TenantChange(pl)

-----------------------------------------------------------------------------
(* Correctness.                                                            *)

\* Every variable has its type; a submitted run has one entry per row.
CopyTypeOK ==
  /\ store \in [Places -> Objects \cup {Absent}]
  /\ rewritten \subseteq TenantPlaces
  /\ request \in [Copies -> Requests \cup {None}]
  /\ phase \in [Copies -> Phases]
  /\ unready \in [Copies -> SUBSET (Providers \X Segments)]
  /\ bucketErrors \in [Copies -> SUBSET (Providers \X Segments)]
  /\ noAcl \in [Copies -> SUBSET (Providers \X Segments)]
  /\ stage \in [Copies -> Seq(Stages)]
  /\ body \in [Copies -> Seq(Objects \cup {Absent})]
  /\ reported \subseteq Copies
  /\ before \in [Copies -> SUBSET Places]
  /\ \A j \in Copies :
       phase[j] \notin {"idle", "invalid"}
         => /\ request[j] \in Requests
            /\ Len(stage[j]) = Len(request[j].items) /\ Len(body[j]) = Len(request[j].items)

\* A step of run j.
StepOf(j) == stage'[j] # stage[j] /\ phase[j] = "copying"

\* With overwrite=False, a run never replaces the bytes of an object that was
\* at the destination before it began, whatever its calls answer and whoever
\* else writes (storage_service.py:445-451).
KeptDestination ==
  [][\A j \in Copies : StepOf(j) /\ ~request[j].overwrite
       => \A pl \in before[j] :
            store'[pl] # Absent /\ store'[pl].content = store[pl].content]_copyVars

\* Its rows are of one bucket: the archive's, in a restore.
OneBucket(q) == \A i, k \in Rows(q) : Head(q.items[i]) = Head(q.items[k])

\* A copy never touches a source, its own or another row's, although source
\* and destination may be one provider (storage_service.py:429, 651).  (Of a
\* restore this is so when all rows are of one bucket, which nothing checks.)
SourcesUntouched ==
  [][\A j \in Copies : StepOf(j) /\ (request[j].kind = "copy" \/ OneBucket(request[j]))
       => \A i \in Rows(request[j]) : SourceOf(j, i)' = SourceOf(j, i)]_copyVars

\* The race on acl_supported gives no wrong result (storage_service.py:504-508):
\* a row that ends well under make_public leaves its object public, unless its
\* own bucket has no ACLs.
PublicUnlessNoAcls ==
  [][\A j \in Copies : StepOf(j) /\ request[j].public
       => \A i \in Rows(request[j]) :
            stage[j][i] \in Unfinished /\ stage'[j][i] \in Successful
              => TargetOf(j, i) \in NoAcls \/ DestOf(j, i)'.public]_copyVars

=============================================================================
