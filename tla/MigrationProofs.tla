--------------------------- MODULE MigrationProofs ---------------------------
(***************************************************************************)
(* What holds of the copies and of the deletion of migrated files, for all *)
(* constants: any number of copies, rows, workers, sessions and batches.   *)
(***************************************************************************)
EXTENDS Migration, SequenceTheorems, TLAPS

-----------------------------------------------------------------------------
(* Requests, paths and places.                                             *)

LEMMA RequestShape ==
  ASSUME NEW q \in Requests
  PROVE  /\ q \in Bodies /\ q.kind \in {"copy", "restore"}
         /\ q.from \in Providers /\ q.to \in Providers
         /\ q.items \in Seq(Paths) /\ Len(q.items) \in Nat
         /\ q.overwrite \in BOOLEAN /\ q.public \in BOOLEAN
         /\ q.kind = "copy" => q.destBucket \in Segments \cup {None}
         /\ \A i \in Rows(q) : q.items[i] \in Paths
BY RequestsAssumption DEF Bodies, Rows

LEMMA PathShape ==
  ASSUME NEW o \in Paths
  PROVE  /\ o \in Seq(Segments) /\ o # <<>> /\ Len(o) \in Nat \ {0}
         /\ Head(o) = o[1] /\ Head(o) \in Segments
BY PathsAssumption, EmptySeq, HeadTailProperties

\* A row's source and destination are places, in buckets of their providers.
LEMMA RowPlaces ==
  ASSUME NEW q \in Requests, Valid(q), NEW i \in Rows(q)
  PROVE  /\ Source(q, i) \in Places /\ Dest(q, i) \in Places
         /\ BucketOf(Dest(q, i)) \in Providers \X Segments
<1>1. DestPath(q, q.items[i]) \in Paths
  BY DestinationsAssumption
<1>2. Head(DestPath(q, q.items[i])) \in Segments
  BY <1>1, PathShape
<1> QED BY <1>1, <1>2, RequestShape DEF Source, Dest, Places, BucketOf

\* The destination path, case by case.
LEMMA DestPathCases ==
  ASSUME NEW q \in Requests, NEW o
  PROVE  /\ q.kind = "restore" => DestPath(q, o) = Tail(o)
         /\ q.kind = "copy" /\ q.destBucket = None => DestPath(q, o) = o
         /\ q.kind = "copy" /\ q.destBucket # None => DestPath(q, o) = <<q.destBucket>> \o Tail(o)
<1>1. "restore" # "copy"
  OBVIOUS
<1>2. q.kind = "restore" => DestPath(q, o) = Tail(o)
  BY <1>1, Zenon DEF DestPath
<1>3. q.kind = "copy" /\ q.destBucket = None => DestPath(q, o) = o
  BY <1>1, Zenon DEF DestPath
<1>4. q.kind = "copy" /\ q.destBucket # None => DestPath(q, o) = <<q.destBucket>> \o Tail(o)
  BY <1>1, Zenon DEF DestPath
<1> QED BY <1>2, <1>3, <1>4

LEMMA SecondIsHead ==
  ASSUME NEW o \in Seq(Segments), Len(o) > 2
  PROVE  Head(Tail(o)) = o[2]
<1>1. o # <<>> /\ Len(o) \in Nat
  BY EmptySeq
<1>2. /\ Tail(o) \in Seq(Segments) /\ Len(Tail(o)) = Len(o) - 1
      /\ \A n \in 1..Len(Tail(o)) : Tail(o)[n] = o[n + 1]
  BY <1>1, HeadTailProperties
<1>3. \A m, n \in Nat : m > 2 /\ n = m - 1 => 1 \in 1..n /\ n # 0
  OBVIOUS
<1>4. Len(Tail(o)) \in Nat
  BY <1>2
<1>5. 1 \in 1..Len(Tail(o)) /\ Len(Tail(o)) # 0
  BY <1>1, <1>2, <1>3, <1>4
<1>6. Tail(o)[1] = o[1 + 1]
  BY <1>2, <1>5
<1>7. Tail(o) # <<>>
  BY <1>5, EmptySeq
<1> QED BY <1>2, <1>6, <1>7, <1>5, HeadTailProperties

\* The head of a destination path.
LEMMA DestHead ==
  ASSUME NEW q \in Requests, Valid(q), NEW k \in Rows(q)
  PROVE  /\ q.kind = "restore" => Head(DestPath(q, q.items[k])) = q.items[k][2]
         /\ q.kind = "copy" /\ q.destBucket # None => Head(DestPath(q, q.items[k])) = q.destBucket
<1> DEFINE o == q.items[k]
<1>1. o \in Seq(Segments) /\ o # <<>> /\ Len(o) \in Nat \ {0}
  BY RequestShape, PathShape
<1>2. /\ Tail(o) \in Seq(Segments) /\ Len(Tail(o)) = Len(o) - 1
      /\ \A n \in 1..Len(Tail(o)) : Tail(o)[n] = o[n + 1]
  BY <1>1, HeadTailProperties
<1>3. CASE q.kind = "restore"
  <2>1. Len(o) > 2 /\ DestPath(q, o) = Tail(o)
    BY <1>3, DestPathCases DEF Valid, ValidRestore
  <2> QED BY <1>1, <1>3, <2>1, SecondIsHead
<1>4. CASE q.kind = "copy" /\ q.destBucket # None
  <2>1. DestPath(q, o) = <<q.destBucket>> \o Tail(o) /\ q.destBucket \in Segments
    BY <1>4, RequestShape, DestPathCases
  <2>2. <<q.destBucket>> \in Seq(Segments) /\ Len(<<q.destBucket>>) = 1
    BY <2>1
  <2>3. /\ DestPath(q, o) \in Seq(Segments) /\ Len(DestPath(q, o)) = 1 + Len(Tail(o))
        /\ DestPath(q, o)[1] = q.destBucket
    BY <1>2, <2>1, <2>2, ConcatProperties
  <2>4. DestPath(q, o) # <<>>
    BY <1>2, <2>3, EmptySeq
  <2>5. Head(DestPath(q, o)) = DestPath(q, o)[1]
    BY <2>3, <2>4, HeadTailProperties
  <2> QED BY <1>4, <2>3, <2>5
<1> QED BY <1>3, <1>4

\* No row's destination is a row's source: within one provider the buckets
\* differ.
LEMMA SourceApart ==
  ASSUME NEW q \in Requests, Valid(q), q.kind = "copy" \/ OneBucket(q),
         NEW i \in Rows(q), NEW k \in Rows(q)
  PROVE  Source(q, i) # Dest(q, k)
<1>1. Source(q, i)[1] = q.from /\ Source(q, i)[2] = q.items[i] /\ Dest(q, k)[1] = q.to
      /\ Dest(q, k)[2] = DestPath(q, q.items[k])
  BY DEF Source, Dest
<1>2. CASE q.kind = "copy"
  <2>1. q.from = q.to => q.destBucket # None /\ Head(q.items[i]) # q.destBucket
    BY <1>2 DEF Valid, ValidCopy
  <2> QED BY <1>1, <1>2, <2>1, DestHead
<1>3. CASE q.kind = "restore"
  <2>1. q.items[k][2] # q.items[k][1]
    BY <1>3 DEF Valid, ValidRestore
  <2>2. Head(q.items[i]) = Head(q.items[k])
    BY <1>3 DEF OneBucket
  <2>3. q.items[k] \in Paths
    BY RequestShape
  <2>4. Head(q.items[k]) = q.items[k][1]
    BY <2>3, PathShape
  <2> QED BY <1>1, <1>3, <2>1, <2>2, <2>4, DestHead
<1> QED BY <1>2, <1>3, RequestShape

-----------------------------------------------------------------------------
(* The copies.                                                             *)

Submitted(j) == phase[j] \notin {"idle", "invalid"}

\* What row i has been told by its HEAD and by rejected uploads.
RowKept(j, i) ==
  /\ stage[j][i] \in {"missing", "fetched", "refused"} /\ ~request[j].overwrite
       => Dest(request[j], i) \notin before[j]
  /\ stage[j][i] = "fetched" =>
       body[j][i] \in Objects
       /\ (request[j].public /\ ~body[j][i].public => TargetOf(j, i) \in NoAcls)
  /\ stage[j][i] = "refused" => TargetOf(j, i) \in NoAcls

CopyInv ==
  /\ CopyTypeOK
  /\ \A j \in Copies : before[j] \subseteq Full(store) /\ noAcl[j] \subseteq NoAcls
  /\ \A j \in Copies : Submitted(j) =>
       Valid(request[j]) /\ \A i \in Rows(request[j]) : RowKept(j, i)
  /\ \A j \in reported : Submitted(j)

LEMMA CopyInitInv == CopyInit => CopyInv
<1> SUFFICES ASSUME CopyInit PROVE CopyInv
  OBVIOUS
<1>1. CopyTypeOK
  BY StoresAssumption, EmptySeq DEF CopyInit, CopyTypeOK, Phases
<1> QED BY <1>1 DEF CopyInit, CopyInv, Submitted

\* What the thread of row i leaves alone.
LEMMA AdvanceShape ==
  ASSUME CopyTypeOK, NEW j \in Copies, NEW i \in 1..Len(stage[j]), phase[j] = "copying",
         NEW st \in Stages, NEW v \in Objects \cup {Absent}, Advance(j, i, st, v)
  PROVE  /\ i \in Rows(request[j]) /\ request[j] \in Requests /\ Submitted(j)
         /\ stage' \in [Copies -> Seq(Stages)] /\ body' \in [Copies -> Seq(Objects \cup {Absent})]
         /\ stage'[j][i] = st /\ body'[j][i] = v
         /\ \A x \in Copies : Len(stage'[x]) = Len(stage[x]) /\ Len(body'[x]) = Len(body[x])
         /\ \A x \in Copies : x # j => stage'[x] = stage[x] /\ body'[x] = body[x]
         /\ \A k \in Rows(request[j]) : k # i => stage'[j][k] = stage[j][k] /\ body'[j][k] = body[j][k]
         /\ UNCHANGED <<rewritten, request, reported, phase, unready, bucketErrors, before>>
<1>1. /\ request[j] \in Requests /\ Len(stage[j]) = Len(request[j].items)
      /\ Len(body[j]) = Len(request[j].items)
  BY DEF CopyTypeOK
<1>2. /\ stage[j] \in Seq(Stages) /\ body[j] \in Seq(Objects \cup {Absent})
      /\ i \in 1..Len(body[j])
  BY <1>1 DEF CopyTypeOK
<1>3. /\ [stage[j] EXCEPT ![i] = st] \in Seq(Stages)
      /\ Len([stage[j] EXCEPT ![i] = st]) = Len(stage[j])
      /\ \A k \in 1..Len(stage[j]) : [stage[j] EXCEPT ![i] = st][k] = IF k = i THEN st ELSE stage[j][k]
  BY <1>2, ExceptSeq
<1>4. /\ [body[j] EXCEPT ![i] = v] \in Seq(Objects \cup {Absent})
      /\ Len([body[j] EXCEPT ![i] = v]) = Len(body[j])
      /\ \A k \in 1..Len(body[j]) : [body[j] EXCEPT ![i] = v][k] = IF k = i THEN v ELSE body[j][k]
  BY <1>2, ExceptSeq
<1>5. /\ stage' = [stage EXCEPT ![j] = [stage[j] EXCEPT ![i] = st]]
      /\ body' = [body EXCEPT ![j] = [body[j] EXCEPT ![i] = v]]
      /\ UNCHANGED <<rewritten, request, reported, phase, unready, bucketErrors, before>>
  BY DEF Advance, requestState
<1>6. /\ stage'[j] = [stage[j] EXCEPT ![i] = st] /\ body'[j] = [body[j] EXCEPT ![i] = v]
      /\ \A x \in Copies : x # j => stage'[x] = stage[x] /\ body'[x] = body[x]
      /\ stage' \in [Copies -> Seq(Stages)] /\ body' \in [Copies -> Seq(Objects \cup {Absent})]
  BY <1>3, <1>4, <1>5 DEF CopyTypeOK
<1>7. i \in Rows(request[j]) /\ Submitted(j)
  BY <1>1 DEF Rows, Submitted
<1> QED BY <1>1, <1>2, <1>3, <1>4, <1>5, <1>6, <1>7 DEF Rows

\* A row's step keeps the invariant if it fills places only, and if what it
\* says of its own row is true.
LEMMA RowStepKeeps ==
  ASSUME CopyInv, NEW j \in Copies, NEW i \in 1..Len(stage[j]), phase[j] = "copying",
         NEW st \in Stages, NEW v \in Objects \cup {Absent}, Advance(j, i, st, v),
         store' \in [Places -> Objects \cup {Absent}], Full(store) \subseteq Full(store'),
         noAcl' \in [Copies -> SUBSET (Providers \X Segments)], \A x \in Copies : noAcl'[x] \subseteq NoAcls,
         RowKept(j, i)'
  PROVE  CopyInv'
<1> CopyTypeOK
  BY DEF CopyInv
<1>1. /\ i \in Rows(request[j]) /\ Submitted(j)
      /\ stage' \in [Copies -> Seq(Stages)] /\ body' \in [Copies -> Seq(Objects \cup {Absent})]
      /\ \A x \in Copies : Len(stage'[x]) = Len(stage[x]) /\ Len(body'[x]) = Len(body[x])
      /\ \A x \in Copies : x # j => stage'[x] = stage[x] /\ body'[x] = body[x]
      /\ \A k \in Rows(request[j]) : k # i => stage'[j][k] = stage[j][k] /\ body'[j][k] = body[j][k]
      /\ UNCHANGED <<rewritten, request, reported, phase, unready, bucketErrors, before>>
  BY AdvanceShape
<1>2. CopyTypeOK'
  BY <1>1 DEF CopyTypeOK
<1>3. \A x \in Copies : before'[x] \subseteq Full(store') /\ noAcl'[x] \subseteq NoAcls
  BY <1>1 DEF CopyInv
<1>4. ASSUME NEW x \in Copies, Submitted(x)'
      PROVE  Valid(request'[x]) /\ \A k \in Rows(request'[x]) : RowKept(x, k)'
  <2>1. Submitted(x) /\ request'[x] = request[x]
    BY <1>1, <1>4 DEF Submitted
  <2>2. Valid(request[x]) /\ \A k \in Rows(request[x]) : RowKept(x, k)
    BY <2>1 DEF CopyInv
  <2>3. ASSUME NEW k \in Rows(request[x]), x # j \/ k # i
        PROVE  RowKept(x, k)'
    <3>1. stage'[x][k] = stage[x][k] /\ body'[x][k] = body[x][k] /\ before' = before /\ request' = request
      BY <1>1, <2>3
    <3> QED BY <2>2, <3>1 DEF RowKept, TargetOf
  <2> QED BY <2>1, <2>2, <2>3
<1>5. \A x \in reported' : Submitted(x)'
  BY <1>1 DEF CopyInv, Submitted
<1> QED BY <1>2, <1>3, <1>4, <1>5 DEF CopyInv

\* The row's own object, and what the thread reads.
LEMMA RowFacts ==
  ASSUME CopyInv, NEW j \in Copies, NEW i \in 1..Len(stage[j]), phase[j] = "copying"
  PROVE  /\ request[j] \in Requests /\ Valid(request[j]) /\ i \in Rows(request[j])
         /\ RowKept(j, i) /\ Submitted(j)
         /\ request[j].public \in BOOLEAN
         /\ Dest(request[j], i) \in Places /\ Source(request[j], i) \in Places
         /\ TargetOf(j, i) \in Providers \X Segments
         /\ SourceOf(j, i) \in Objects \cup {Absent} /\ DestOf(j, i) \in Objects \cup {Absent}
<1>1. Submitted(j) /\ request[j] \in Requests /\ Len(stage[j]) = Len(request[j].items)
  BY DEF CopyInv, CopyTypeOK, Submitted
<1>2. i \in Rows(request[j]) /\ Valid(request[j])
  BY <1>1 DEF CopyInv, Rows
<1>3. RowKept(j, i)
  BY <1>1, <1>2 DEF CopyInv
<1>4. request[j].public \in BOOLEAN
  BY <1>1, RequestShape
<1>5. /\ Dest(request[j], i) \in Places /\ Source(request[j], i) \in Places
      /\ BucketOf(Dest(request[j], i)) \in Providers \X Segments
  BY <1>1, <1>2, RowPlaces
<1> QED BY <1>1, <1>2, <1>3, <1>4, <1>5 DEF CopyInv, CopyTypeOK, SourceOf, DestOf, TargetOf

\* What RowKept says of the row i at the stage st with the body v.
Told(j, i, st, v) ==
  /\ st \in {"missing", "fetched", "refused"} /\ ~request[j].overwrite
       => Dest(request[j], i) \notin before[j]
  /\ st = "fetched" =>
       v \in Objects /\ (request[j].public /\ ~v.public => TargetOf(j, i) \in NoAcls)
  /\ st = "refused" => TargetOf(j, i) \in NoAcls

\* What one call of row i does to the objects, and what the row then knows.
StoreEffect(j, i) ==
  /\ store' \in [Places -> Objects \cup {Absent}]
  /\ \A pl \in Places : pl # Dest(request[j], i) => store'[pl] = store[pl]
  /\ store[Dest(request[j], i)] # Absent => store'[Dest(request[j], i)] # Absent
  /\ ~request[j].overwrite /\ Dest(request[j], i) \in before[j]
       => store'[Dest(request[j], i)].content = store[Dest(request[j], i)].content

AclEffect(j) ==
  noAcl' \in [Copies -> SUBSET (Providers \X Segments)] /\ \A x \in Copies : noAcl'[x] \subseteq NoAcls

RowEffect(j, i) ==
  \E st \in Stages, v \in Objects \cup {Absent} :
    /\ Advance(j, i, st, v) /\ Told(j, i, st, v) /\ stage[j][i] \in Unfinished
    /\ st \in Successful /\ request[j].public
         => TargetOf(j, i) \in NoAcls \/ store'[Dest(request[j], i)].public

Effect(j, i) == phase[j] = "copying" /\ StoreEffect(j, i) /\ AclEffect(j) /\ RowEffect(j, i)

\* A row whose call reads or writes nothing of the store.
LEMMA SameStore ==
  ASSUME CopyInv, NEW j \in Copies, NEW i, UNCHANGED store
  PROVE  StoreEffect(j, i)
BY DEF CopyInv, CopyTypeOK, StoreEffect

LEMMA SameAcls ==
  ASSUME CopyInv, NEW j \in Copies, UNCHANGED noAcl
  PROVE  AclEffect(j)
BY DEF CopyInv, CopyTypeOK, AclEffect

LEMMA NewAcl ==
  ASSUME CopyInv, NEW j \in Copies, NEW b \in NoAcls, noAcl' = [noAcl EXCEPT ![j] = @ \cup {b}]
  PROVE  AclEffect(j)
<1>1. b \in Providers \X Segments
  BY PlacesAssumption
<1> QED BY <1>1 DEF CopyInv, CopyTypeOK, AclEffect

\* What is in noAcl is in NoAcls.
LEMMA AclKnown ==
  ASSUME CopyInv, NEW j \in Copies, NEW i, request[j].public, ~WantsAcl(j, i)
  PROVE  TargetOf(j, i) \in NoAcls
BY DEF CopyInv, WantsAcl

\* Rows that end, or that HEAD has found.
LEMMA ToldOthers ==
  ASSUME NEW j, NEW i, NEW v, NEW st \in {"present", "skipped", "copied", "failed"}
  PROVE  Told(j, i, st, v) /\ st \in Stages
BY DEF Told, Stages, Successful, Unfinished

LEMMA FailedRowEffect ==
  ASSUME NEW j, NEW i, Advance(j, i, "failed", Absent), stage[j][i] \in Unfinished
  PROVE  RowEffect(j, i)
<1>1. Told(j, i, "failed", Absent) /\ "failed" \in Stages /\ "failed" \notin Successful
  BY ToldOthers DEF Successful
<1> QED BY <1>1 DEF RowEffect

LEMMA UnavailableEffect ==
  ASSUME CopyInv, NEW j \in Copies, NEW i \in 1..Len(stage[j]), Unavailable(j, i)
  PROVE  Effect(j, i)
<1>1. phase[j] = "copying" /\ stage[j][i] \in Unfinished /\ Advance(j, i, "failed", Absent)
  BY DEF Unavailable, Working, Unfinished
<1>2. UNCHANGED <<store, noAcl>>
  BY DEF Unavailable
<1> QED BY <1>1, <1>2, FailedRowEffect, SameStore, SameAcls DEF Effect

LEMMA RowFailsEffect ==
  ASSUME CopyInv, NEW j \in Copies, NEW i \in 1..Len(stage[j]), RowFails(j, i)
  PROVE  Effect(j, i)
<1>1. phase[j] = "copying" /\ stage[j][i] \in Unfinished /\ Advance(j, i, "failed", Absent)
  BY DEF RowFails, Working
<1>2. UNCHANGED <<store, noAcl>>
  BY DEF RowFails
<1> QED BY <1>1, <1>2, FailedRowEffect, SameStore, SameAcls DEF Effect

LEMMA HeadDestinationEffect ==
  ASSUME CopyInv, NEW j \in Copies, NEW i \in 1..Len(stage[j]), HeadDestination(j, i)
  PROVE  Effect(j, i)
<1>1. phase[j] = "copying" /\ stage[j][i] \in Unfinished /\ UNCHANGED <<store, noAcl>>
  BY DEF HeadDestination, Working, Unfinished
<1>2. PICK st \in IF request[j].overwrite THEN {"missing"} ELSE HeadAnswers(j, i) : Advance(j, i, st, Absent)
  BY DEF HeadDestination
<1>3. st \in {"missing", "present"} /\ (st = "missing" => request[j].overwrite \/ DestOf(j, i) = Absent)
  BY <1>2 DEF HeadAnswers
<1>4. st \in Stages /\ st \notin Successful
  BY <1>3 DEF Stages, Unfinished, Successful
<1>5. Told(j, i, st, Absent)
  BY <1>3 DEF Told, CopyInv, Full, DestOf
<1> QED BY <1>1, <1>2, <1>4, <1>5, SameStore, SameAcls DEF Effect, RowEffect

LEMMA ReapplyAclEffect ==
  ASSUME CopyInv, NEW j \in Copies, NEW i \in 1..Len(stage[j]), ReapplyAcl(j, i)
  PROVE  Effect(j, i)
<1> DEFINE d == Dest(request[j], i)
<1>1. phase[j] = "copying" /\ stage[j][i] \in Unfinished /\ store[d] # Absent
  BY DEF ReapplyAcl, Working, Unfinished, DestOf
<1>2. CASE /\ TargetOf(j, i) \in NoAcls
           /\ noAcl' = [noAcl EXCEPT ![j] = @ \cup {TargetOf(j, i)}]
           /\ Advance(j, i, "skipped", Absent) /\ UNCHANGED store
  <2>1. RowEffect(j, i)
    BY <1>1, <1>2, ToldOthers DEF RowEffect
  <2> QED BY <1>1, <1>2, <2>1, SameStore, NewAcl DEF Effect
<1>3. ASSUME store' = [store EXCEPT ![d].public = TRUE], UNCHANGED noAcl,
             NEW st \in {"skipped", "failed"}, Advance(j, i, st, Absent)
      PROVE  Effect(j, i)
  <2>1. store[d] \in Objects /\ d \in Places /\ store \in [Places -> Objects \cup {Absent}]
    BY <1>1, RowFacts DEF CopyInv, CopyTypeOK, DestOf
  <2>2. [store[d] EXCEPT !.public = TRUE] \in Objects
        /\ [store[d] EXCEPT !.public = TRUE].public = TRUE
        /\ [store[d] EXCEPT !.public = TRUE].content = store[d].content
    BY <2>1 DEF Objects
  <2>3. store' = [store EXCEPT ![d] = [store[d] EXCEPT !.public = TRUE]]
    BY <1>3
  <2>4. store'[d] = [store[d] EXCEPT !.public = TRUE]
    BY <2>1, <2>3
  <2>5. StoreEffect(j, i)
    BY <2>1, <2>2, <2>3, <2>4, AbsentAssumption DEF StoreEffect
  <2>6. RowEffect(j, i)
    BY <1>1, <1>3, <2>2, <2>4, ToldOthers DEF RowEffect
  <2> QED BY <1>1, <1>3, <2>5, <2>6, SameAcls DEF Effect
<1> QED BY <1>2, <1>3 DEF ReapplyAcl

LEMMA LeaveAclEffect ==
  ASSUME CopyInv, NEW j \in Copies, NEW i \in 1..Len(stage[j]), LeaveAcl(j, i)
  PROVE  Effect(j, i)
<1>1. phase[j] = "copying" /\ stage[j][i] \in Unfinished /\ UNCHANGED <<store, noAcl>>
  BY DEF LeaveAcl, Working, Unfinished
<1>2. Advance(j, i, "skipped", Absent) /\ (request[j].public => TargetOf(j, i) \in NoAcls)
  BY AclKnown DEF LeaveAcl
<1>3. RowEffect(j, i)
  BY <1>1, <1>2, ToldOthers DEF RowEffect
<1> QED BY <1>1, <1>3, SameStore, SameAcls DEF Effect

\* A fetch, the first or another one.
LEMMA FetchedEffect ==
  ASSUME CopyInv, NEW j \in Copies, NEW i \in 1..Len(stage[j]), phase[j] = "copying",
         stage[j][i] \in {"missing", "refused"}, SourceOf(j, i) # Absent, NEW acl \in BOOLEAN,
         request[j].public /\ ~acl => TargetOf(j, i) \in NoAcls,
         Advance(j, i, "fetched", Fetched(j, i, acl)), UNCHANGED <<store, noAcl>>
  PROVE  Effect(j, i)
<1>1. SourceOf(j, i) \in Objects /\ RowKept(j, i)
  BY RowFacts
<1>2. Fetched(j, i, acl) \in Objects /\ (Fetched(j, i, acl).public <=> acl)
  BY <1>1 DEF Fetched, Objects
<1>3. Told(j, i, "fetched", Fetched(j, i, acl))
  BY <1>1, <1>2 DEF Told, RowKept
<1>4. "fetched" \in Stages /\ "fetched" \notin Successful /\ stage[j][i] \in Unfinished
  BY DEF Stages, Unfinished, Successful
<1>5. RowEffect(j, i)
  BY <1>2, <1>3, <1>4 DEF RowEffect
<1> QED BY <1>5, SameStore, SameAcls DEF Effect

LEMMA FetchEffect ==
  ASSUME CopyInv, NEW j \in Copies, NEW i \in 1..Len(stage[j]), Fetch(j, i) \/ FetchAgain(j, i)
  PROVE  Effect(j, i)
<1>1. phase[j] = "copying" /\ SourceOf(j, i) # Absent /\ UNCHANGED <<store, noAcl>>
  BY DEF Fetch, FetchAgain, Working
<1>2. CASE Fetch(j, i)
  <2>1. stage[j][i] = "missing" /\ Advance(j, i, "fetched", Fetched(j, i, WantsAcl(j, i)))
    BY <1>2 DEF Fetch, Working
  <2>2. WantsAcl(j, i) \in BOOLEAN
    BY DEF WantsAcl
  <2>3. request[j].public /\ ~WantsAcl(j, i) => TargetOf(j, i) \in NoAcls
    BY AclKnown
  <2> QED BY <1>1, <2>1, <2>2, <2>3, FetchedEffect
<1>3. CASE FetchAgain(j, i)
  <2>1. stage[j][i] = "refused" /\ Advance(j, i, "fetched", Fetched(j, i, FALSE))
    BY <1>3 DEF FetchAgain, Working
  <2>2. phase[j] = "copying"
    BY <1>1
  <2>3. TargetOf(j, i) \in NoAcls
    BY <2>1, <2>2, RowFacts DEF RowKept
  <2> QED BY <1>1, <2>1, <2>3, FetchedEffect
<1> QED BY <1>2, <1>3

LEMMA RejectAclEffect ==
  ASSUME CopyInv, NEW j \in Copies, NEW i \in 1..Len(stage[j]), RejectAcl(j, i)
  PROVE  Effect(j, i)
<1>1. /\ phase[j] = "copying" /\ stage[j][i] = "fetched" /\ TargetOf(j, i) \in NoAcls
      /\ noAcl' = [noAcl EXCEPT ![j] = @ \cup {TargetOf(j, i)}]
      /\ Advance(j, i, "refused", Absent) /\ UNCHANGED store
  BY DEF RejectAcl, Working
<1>2. RowKept(j, i)
  BY <1>1, RowFacts
<1>3. Told(j, i, "refused", Absent)
  BY <1>1, <1>2 DEF Told, RowKept
<1>4. "refused" \in Stages /\ "refused" \notin Successful /\ stage[j][i] \in Unfinished
  BY <1>1 DEF Stages, Unfinished, Successful
<1>5. RowEffect(j, i)
  BY <1>1, <1>3, <1>4 DEF RowEffect
<1> QED BY <1>1, <1>5, SameStore, NewAcl DEF Effect

LEMMA UploadEffect ==
  ASSUME CopyInv, NEW j \in Copies, NEW i \in 1..Len(stage[j]), Upload(j, i)
  PROVE  Effect(j, i)
<1> DEFINE d == Dest(request[j], i)
<1>1. /\ phase[j] = "copying" /\ stage[j][i] = "fetched" /\ UNCHANGED noAcl
      /\ ~(body[j][i].public /\ TargetOf(j, i) \in NoAcls)
      /\ store' = [store EXCEPT ![d] = body[j][i]]
  BY DEF Upload, Working
<1>2. PICK st \in {"copied", "failed"} : Advance(j, i, st, Absent)
  BY DEF Upload
<1>3. RowKept(j, i) /\ d \in Places
  BY <1>1, RowFacts
<1>4. /\ body[j][i] \in Objects /\ body[j][i] # Absent
      /\ (request[j].public /\ ~body[j][i].public => TargetOf(j, i) \in NoAcls)
      /\ (~request[j].overwrite => d \notin before[j])
  BY <1>1, <1>3, AbsentAssumption DEF RowKept
<1>5. store \in [Places -> Objects \cup {Absent}] /\ store'[d] = body[j][i]
  BY <1>1, <1>3 DEF CopyInv, CopyTypeOK
<1>6. StoreEffect(j, i)
  BY <1>1, <1>3, <1>4, <1>5 DEF StoreEffect
<1>7. stage[j][i] \in Unfinished /\ Told(j, i, st, Absent) /\ st \in Stages
  BY <1>1, ToldOthers DEF Unfinished
<1>8. request[j].public => TargetOf(j, i) \in NoAcls \/ store'[d].public
  BY <1>4, <1>5
<1>9. RowEffect(j, i)
  BY <1>2, <1>7, <1>8 DEF RowEffect
<1> QED BY <1>1, <1>6, <1>9, SameAcls DEF Effect

LEMMA CopyOneEffect ==
  ASSUME CopyInv, NEW j \in Copies, NEW i \in 1..Len(stage[j]), CopyOne(j, i)
  PROVE  Effect(j, i)
BY UnavailableEffect, RowFailsEffect, HeadDestinationEffect, ReapplyAclEffect, LeaveAclEffect,
   FetchEffect, RejectAclEffect, UploadEffect DEF CopyOne

LEMMA CopyOneKeeps ==
  ASSUME CopyInv, NEW j \in Copies, NEW i \in 1..Len(stage[j]), CopyOne(j, i)
  PROVE  CopyInv'
<1>1. Effect(j, i)
  BY CopyOneEffect
<1>2. phase[j] = "copying" /\ CopyTypeOK
  BY <1>1 DEF Effect, CopyInv
<1>3. PICK st \in Stages, v \in Objects \cup {Absent} : Advance(j, i, st, v) /\ Told(j, i, st, v)
  BY <1>1 DEF Effect, RowEffect
<1>4. stage'[j][i] = st /\ body'[j][i] = v /\ UNCHANGED <<request, before>>
  BY <1>2, <1>3, AdvanceShape
<1>5. RowKept(j, i)'
  BY <1>3, <1>4 DEF Told, RowKept, TargetOf
<1>6. store' \in [Places -> Objects \cup {Absent}] /\ Full(store) \subseteq Full(store')
  BY <1>1 DEF Effect, StoreEffect, Full
<1>7. noAcl' \in [Copies -> SUBSET (Providers \X Segments)] /\ \A x \in Copies : noAcl'[x] \subseteq NoAcls
  BY <1>1 DEF Effect, AclEffect
<1> QED BY <1>2, <1>3, <1>5, <1>6, <1>7, RowStepKeeps

\* Steps of the run itself: only its phase, buckets and report change.
LEMMA PhaseStepKeeps ==
  ASSUME CopyInv, UNCHANGED <<store, rewritten, request, noAcl, stage, body, before>>,
         phase' \in [Copies -> Phases], \A x \in Copies : Submitted(x)' <=> Submitted(x),
         reported' \subseteq Copies, \A x \in reported' : Submitted(x),
         unready' \in [Copies -> SUBSET (Providers \X Segments)],
         bucketErrors' \in [Copies -> SUBSET (Providers \X Segments)]
  PROVE  CopyInv'
<1>1. CopyTypeOK'
  BY DEF CopyInv, CopyTypeOK, Submitted
<1>2. ASSUME NEW x \in Copies, Submitted(x)'
      PROVE  Valid(request'[x]) /\ \A k \in Rows(request'[x]) : RowKept(x, k)'
  <2>1. Valid(request[x]) /\ \A k \in Rows(request[x]) : RowKept(x, k)
    BY <1>2 DEF CopyInv
  <2> QED BY <2>1 DEF RowKept, TargetOf
<1> QED BY <1>1, <1>2 DEF CopyInv, Full

LEMMA RefuseKeeps ==
  ASSUME CopyInv, NEW j \in Copies, Refuse(j)
  PROVE  CopyInv'
<1>1. phase' = [phase EXCEPT ![j] = "invalid"] /\ ~Submitted(j)
  BY DEF Refuse, Submitted
<1>2. phase' \in [Copies -> Phases] /\ \A x \in Copies : Submitted(x)' <=> Submitted(x)
  BY <1>1 DEF CopyInv, CopyTypeOK, Phases, Ended, Submitted
<1> QED BY <1>2, PhaseStepKeeps DEF Refuse, requestState, CopyInv, CopyTypeOK

\* A step of run j to the phase ph.
LEMMA ToPhase ==
  ASSUME CopyInv, NEW j \in Copies, Submitted(j), NEW ph \in Active \cup Ended, ph # "invalid",
         phase' = [phase EXCEPT ![j] = ph]
  PROVE  phase' \in [Copies -> Phases] /\ \A x \in Copies : Submitted(x)' <=> Submitted(x)
<1>1. ph \in Phases /\ ph # "idle"
  BY DEF Phases, Active, Ended
<1> QED BY <1>1 DEF CopyInv, CopyTypeOK, Submitted

LEMMA OwnStepKeeps ==
  ASSUME CopyInv, NEW j \in Copies, CopyStep(j)
  PROVE  CopyInv'
<1>1. ASSUME NEW b \in unready[j], EnsureBucket(j, b)
      PROVE  CopyInv'
  <2>1. /\ b \in Providers \X Segments /\ phase' = phase /\ unready' = [unready EXCEPT ![j] = @ \ {b}]
        /\ UNCHANGED <<store, rewritten, request, reported, noAcl, stage, body, before>>
        /\ UNCHANGED bucketErrors \/ bucketErrors' = [bucketErrors EXCEPT ![j] = @ \cup {b}]
    BY <1>1 DEF EnsureBucket, BucketsOnly, requestState, CopyInv, CopyTypeOK
  <2>2. unready' \in [Copies -> SUBSET (Providers \X Segments)]
    BY <2>1 DEF CopyInv, CopyTypeOK
  <2>3. ASSUME bucketErrors' = [bucketErrors EXCEPT ![j] = @ \cup {b}]
        PROVE  bucketErrors' \in [Copies -> SUBSET (Providers \X Segments)]
    <3>1. bucketErrors[j] \cup {b} \in SUBSET (Providers \X Segments)
      BY <2>1 DEF CopyInv, CopyTypeOK
    <3> QED BY <2>3, <3>1 DEF CopyInv, CopyTypeOK
  <2>4. bucketErrors' \in [Copies -> SUBSET (Providers \X Segments)]
    BY <2>1, <2>3 DEF CopyInv, CopyTypeOK
  <2> QED BY <2>1, <2>2, <2>4, PhaseStepKeeps DEF CopyInv, CopyTypeOK, Submitted
<1>2. ASSUME NEW ph \in Active \cup Ended, ph # "invalid", Submitted(j), phase' = [phase EXCEPT ![j] = ph],
             UNCHANGED <<unready, bucketErrors>>, BucketsOnly
      PROVE  CopyInv'
  <2>1. phase' \in [Copies -> Phases] /\ \A x \in Copies : Submitted(x)' <=> Submitted(x)
    BY <1>2, ToPhase
  <2> QED BY <1>2, <2>1, PhaseStepKeeps DEF BucketsOnly, requestState, CopyInv, CopyTypeOK
<1>3. CASE StartCopying(j) \/ Abort(j) \/ Finish(j) \/ WriteAudit(j)
  <2>1. Submitted(j) /\ UNCHANGED <<unready, bucketErrors>> /\ BucketsOnly
    BY <1>3 DEF StartCopying, Abort, Finish, WriteAudit, Submitted
  <2>2. \E ph \in {"copying", "failed", "reporting", "done"} : phase' = [phase EXCEPT ![j] = ph]
    BY <1>3 DEF StartCopying, Abort, Finish, WriteAudit
  <2>3. {"copying", "failed", "reporting", "done"} \subseteq (Active \cup Ended) \ {"invalid"}
    BY DEF Active, Ended
  <2> QED BY <1>2, <2>1, <2>2, <2>3
<1>4. CASE WriteReport(j)
  <2>1. /\ Submitted(j) /\ reported' \in {reported, reported \cup {j}}
        /\ UNCHANGED <<store, rewritten, request, unready, bucketErrors, noAcl, stage, body, before>>
    BY <1>4 DEF WriteReport, Submitted
  <2>2. \E ph \in {"auditing", "failed"} : phase' = [phase EXCEPT ![j] = ph]
    BY <1>4 DEF WriteReport
  <2>3. {"auditing", "failed"} \subseteq (Active \cup Ended) \ {"invalid"}
    BY DEF Active, Ended
  <2>4. phase' \in [Copies -> Phases] /\ \A x \in Copies : Submitted(x)' <=> Submitted(x)
    BY <2>1, <2>2, <2>3, ToPhase
  <2>5. reported' \subseteq Copies /\ \A x \in reported' : Submitted(x)
    BY <2>1 DEF CopyInv, CopyTypeOK
  <2> QED BY <2>1, <2>4, <2>5, PhaseStepKeeps DEF CopyInv, CopyTypeOK
<1>5. ASSUME NEW i \in 1..Len(stage[j]), CopyOne(j, i)
      PROVE  CopyInv'
  BY <1>5, CopyOneKeeps
<1> QED BY <1>1, <1>3, <1>4, <1>5 DEF CopyStep

LEMMA AcceptKeeps ==
  ASSUME CopyInv, NEW j \in Copies, NEW q \in Requests, Valid(q), Accept(j, q)
  PROVE  CopyInv'
<1>1. /\ request' = [request EXCEPT ![j] = q] /\ phase' = [phase EXCEPT ![j] = "preparing"]
      /\ unready' = [unready EXCEPT ![j] = Targets(q)]
      /\ stage' = [stage EXCEPT ![j] = [i \in Rows(q) |-> "queued"]]
      /\ body' = [body EXCEPT ![j] = [i \in Rows(q) |-> Absent]]
      /\ before' = [before EXCEPT ![j] = Full(store)]
      /\ UNCHANGED <<store, rewritten, bucketErrors, noAcl, reported>>
  BY DEF Accept
<1>2. Targets(q) \subseteq Providers \X Segments
  BY RowPlaces DEF Targets
<1>3. Len(q.items) \in Nat /\ Rows(q) = 1..Len(q.items)
  BY RequestShape DEF Rows
<1>4. /\ [i \in Rows(q) |-> "queued"] \in Seq(Stages) /\ Len([i \in Rows(q) |-> "queued"]) = Len(q.items)
      /\ [i \in Rows(q) |-> Absent] \in Seq(Objects \cup {Absent})
      /\ Len([i \in Rows(q) |-> Absent]) = Len(q.items)
  BY <1>3 DEF Stages, Unfinished
<1>5. CopyTypeOK'
  <2>1. /\ request' \in [Copies -> Requests \cup {None}] /\ phase' \in [Copies -> Phases]
        /\ unready' \in [Copies -> SUBSET (Providers \X Segments)]
    BY <1>1, <1>2 DEF CopyInv, CopyTypeOK, Phases, Active
  <2>2. stage' \in [Copies -> Seq(Stages)] /\ body' \in [Copies -> Seq(Objects \cup {Absent})]
    BY <1>1, <1>4 DEF CopyInv, CopyTypeOK
  <2>3. before' \in [Copies -> SUBSET Places]
    BY <1>1 DEF CopyInv, CopyTypeOK, Full
  <2>4. ASSUME NEW x \in Copies, phase'[x] \notin {"idle", "invalid"}
        PROVE  /\ request'[x] \in Requests
               /\ Len(stage'[x]) = Len(request'[x].items) /\ Len(body'[x]) = Len(request'[x].items)
    <3>1. CASE x = j
      BY <1>1, <1>4, <3>1 DEF CopyInv, CopyTypeOK
    <3>2. CASE x # j
      BY <1>1, <2>4, <3>2 DEF CopyInv, CopyTypeOK
    <3> QED BY <3>1, <3>2
  <2> QED BY <1>1, <2>1, <2>2, <2>3, <2>4 DEF CopyInv, CopyTypeOK
<1>6. \A x \in Copies : before'[x] \subseteq Full(store') /\ noAcl'[x] \subseteq NoAcls
  BY <1>1 DEF CopyInv, CopyTypeOK, Full
<1>7. ASSUME NEW x \in Copies, Submitted(x)'
      PROVE  Valid(request'[x]) /\ \A k \in Rows(request'[x]) : RowKept(x, k)'
  <2>1. CASE x = j
    <3>1. request'[x] = q /\ stage'[x] = [i \in Rows(q) |-> "queued"]
      BY <1>1, <2>1 DEF CopyInv, CopyTypeOK
    <3>2. \A k \in Rows(q) : stage'[x][k] = "queued"
      BY <3>1
    <3> QED BY <3>1, <3>2 DEF RowKept
  <2>2. CASE x # j
    <3>1. /\ request'[x] = request[x] /\ stage'[x] = stage[x] /\ body'[x] = body[x]
          /\ before'[x] = before[x] /\ Submitted(x)
      BY <1>1, <1>7, <2>2 DEF CopyInv, CopyTypeOK, Submitted
    <3>2. Valid(request[x]) /\ \A k \in Rows(request[x]) : RowKept(x, k)
      BY <3>1 DEF CopyInv
    <3> QED BY <3>1, <3>2 DEF RowKept, TargetOf
  <2> QED BY <2>1, <2>2
<1>8. \A x \in reported' : Submitted(x)'
  BY <1>1 DEF CopyInv, CopyTypeOK, Submitted
<1> QED BY <1>5, <1>6, <1>7, <1>8 DEF CopyInv

LEMMA RequestKeeps ==
  ASSUME CopyInv, NEW j \in Copies, CopyRequest(j)
  PROVE  CopyInv'
<1>1. PICK q \in Requests : CopyRoute(j, q) \/ RestoreRoute(j, q)
  BY DEF CopyRequest
<1>2. Refuse(j) \/ (Valid(q) /\ Accept(j, q))
  BY <1>1 DEF CopyRoute, RestoreRoute, Valid
<1> QED BY <1>2, RefuseKeeps, AcceptKeeps

\* Tenants' writes, and removals of any kind.
LEMMA ReplaceKeeps ==
  ASSUME CopyInv, NEW pls \in SUBSET Places, NEW f \in [pls -> Objects \cup {Absent}], Replace(pls, f),
         rewritten' \subseteq TenantPlaces,
         UNCHANGED <<request, reported, phase, unready, bucketErrors, noAcl, stage, body>>
  PROVE  CopyInv'
<1>1. /\ store' = [pl \in Places |-> IF pl \in pls THEN f[pl] ELSE store[pl]]
      /\ before' = [j \in Copies |-> before[j] \ {pl \in pls : f[pl] = Absent}]
  BY DEF Replace
<1>2. /\ store' \in [Places -> Objects \cup {Absent}] /\ before' \in [Copies -> SUBSET Places]
      /\ \A x \in Copies : before'[x] \subseteq before[x] /\ \A pl \in before'[x] : pl \in pls => f[pl] # Absent
  BY <1>1 DEF CopyInv, CopyTypeOK
<1>3. \A x \in Copies : before'[x] \subseteq Full(store')
  BY <1>1, <1>2 DEF CopyInv, Full
<1>4. CopyTypeOK'
  BY <1>2 DEF CopyInv, CopyTypeOK
<1>5. ASSUME NEW x \in Copies, Submitted(x)'
      PROVE  Valid(request'[x]) /\ \A k \in Rows(request'[x]) : RowKept(x, k)'
  <2>1. Valid(request[x]) /\ \A k \in Rows(request[x]) : RowKept(x, k)
    BY <1>5 DEF CopyInv, Submitted
  <2> QED BY <1>2, <2>1 DEF RowKept, TargetOf
<1> QED BY <1>3, <1>4, <1>5 DEF CopyInv, Submitted

LEMMA TenantKeeps ==
  ASSUME CopyInv, TenantStep
  PROVE  CopyInv' /\ \A pl \in Places \ rewritten' : store'[pl] = store[pl]
<1>1. PICK pl \in TenantPlaces : TenantChange(pl)
  BY DEF TenantStep
<1>2. /\ pl \in Places /\ rewritten' = rewritten \cup {pl}
      /\ UNCHANGED <<request, reported, phase, unready, bucketErrors, noAcl, stage, body>>
  BY <1>1, PlacesAssumption DEF TenantChange, requestState
<1>3. PICK v \in Objects \cup {Absent} : Replace({pl}, [x \in {pl} |-> v])
  BY <1>1 DEF TenantChange
<1>4. [x \in {pl} |-> v] \in [{pl} -> Objects \cup {Absent}] /\ rewritten' \subseteq TenantPlaces
  BY <1>1, <1>2 DEF CopyInv, CopyTypeOK
<1>5. CopyInv'
  BY <1>2, <1>3, <1>4, ReplaceKeeps
<1> QED BY <1>2, <1>3, <1>5 DEF Replace

LEMMA CopiesStopKeeps ==
  ASSUME CopyInv, CopiesStop
  PROVE  CopyInv'
<1>1. \A x \in Copies : phase'[x] = (IF phase[x] \in Active THEN "crashed" ELSE phase[x])
  BY DEF CopiesStop
<1>2. phase' \in [Copies -> Phases] /\ \A x \in Copies : Submitted(x)' <=> Submitted(x)
  BY <1>1 DEF CopiesStop, CopyInv, CopyTypeOK, Phases, Active, Ended, Submitted
<1> QED BY <1>2, PhaseStepKeeps DEF CopiesStop, requestState, CopyInv, CopyTypeOK

-----------------------------------------------------------------------------
(* The sessions.                                                           *)

\* The steps at which the outcome counts.
Late == {"deleting", "auditing", "reporting", "done"}

SessionOK(d) ==
  /\ rows[d] \in [DOMAIN rows[d] -> Row] /\ link[d] \in [DOMAIN rows[d] -> Links]
  /\ step[d] \in Late =>
       /\ outcome[d] \in [Sources(d) -> Outcomes]
       /\ \A pl \in Sources(d) :
            outcome[d][pl] = "deleted" /\ pl \notin WrittenByOthers => store[pl] = Absent

SessionTables ==
  /\ step \in [Sessions -> Steps] /\ stale \in [Sessions -> SUBSET Places]
  /\ batches = [d \in Sessions |-> batches[d]]
  /\ \A d \in Sessions : \A b \in batches[d] : b.places \subseteq Places
  /\ rows = [d \in Sessions |-> rows[d]] /\ link = [d \in Sessions |-> link[d]]
  /\ outcome = [d \in Sessions |-> outcome[d]]

IInv == CopyInv /\ SessionTables /\ \A d \in Sessions : SessionOK(d)

LEMMA InitIInv == Init => IInv
<1> SUFFICES ASSUME Init PROVE IInv
  OBVIOUS
<1>1. CopyInv
  BY CopyInitInv DEF Init
<1>2. SessionTables
  BY DEF Init, MigrationInit, SessionTables, Steps
<1>3. \A d \in Sessions : SessionOK(d)
  BY DEF Init, MigrationInit, SessionOK, Late
<1> QED BY <1>1, <1>2, <1>3 DEF IInv

LEMMA SourcesShape ==
  ASSUME NEW d \in Sessions, SessionOK(d)
  PROVE  /\ Sent(d) \subseteq DOMAIN rows[d] /\ Sources(d) \subseteq Places
         /\ \A i \in Sent(d) : rows[d][i].source \in Sources(d)
BY DEF SessionOK, Sent, Sources, Row

\* A session whose tables stay, while objects appear only where somebody writes.
LEMMA SessionSteady ==
  ASSUME NEW x \in Sessions, SessionOK(x),
         rows'[x] = rows[x], link'[x] = link[x], outcome'[x] = outcome[x],
         step'[x] \in Late => step[x] \in Late, WrittenByOthers \subseteq WrittenByOthers',
         \A pl \in Places \ WrittenByOthers' : store[pl] = Absent => store'[pl] = Absent
  PROVE  SessionOK(x)'
<1>1. Sent(x)' = Sent(x) /\ Sources(x)' = Sources(x)
  BY DEF Sent, Sources
<1>2. Sources(x) \subseteq Places
  BY SourcesShape
<1> QED BY <1>1, <1>2 DEF SessionOK

\* What goes stale are places.
LEMMA StaleShape ==
  ASSUME SessionTables, NEW ds, GoneStale(ds)
  PROVE  stale' \in [Sessions -> SUBSET Places]
BY DEF SessionTables, GoneStale

\* Requests stay, and so does what has been written.
LEMMA WrittenGrows ==
  ASSUME rewritten \subseteq rewritten',
         \A j \in Copies : Submitted(j) => Submitted(j)' /\ request'[j] = request[j]
  PROVE  WrittenByOthers \subseteq WrittenByOthers'
BY DEF WrittenByOthers, Submitted

-----------------------------------------------------------------------------
(* Steps of the copies and the tenants, as the sessions see them.          *)

LEMMA CopyStepWrites ==
  ASSUME CopyInv, NEW j \in Copies, CopyStep(j)
  PROVE  /\ WrittenByOthers \subseteq WrittenByOthers'
         /\ \A pl \in Places \ WrittenByOthers' : store'[pl] = store[pl]
<1>1. CASE \E i \in 1..Len(stage[j]) : CopyOne(j, i)
  <2>1. PICK i \in 1..Len(stage[j]) : CopyOne(j, i)
    BY <1>1
  <2>2. Effect(j, i)
    BY <2>1, CopyOneEffect
  <2>3. phase[j] = "copying" /\ \A pl \in Places : pl # Dest(request[j], i) => store'[pl] = store[pl]
    BY <2>2 DEF Effect, StoreEffect
  <2>4. UNCHANGED <<rewritten, request, phase>>
    BY <2>2 DEF Effect, RowEffect, Advance, requestState
  <2>5. i \in Rows(request[j])
    BY <2>3, RowFacts
  <2>6. Dest(request[j], i) \in WrittenByOthers
    BY <2>3, <2>5 DEF WrittenByOthers
  <2>7. WrittenByOthers' = WrittenByOthers
    BY <2>4 DEF WrittenByOthers
  <2> QED BY <2>3, <2>6, <2>7
<1>2. CASE \/ \E b \in unready[j] : EnsureBucket(j, b)
           \/ StartCopying(j) \/ Abort(j) \/ Finish(j) \/ WriteReport(j) \/ WriteAudit(j)
  <2>1. UNCHANGED <<store, rewritten, request>>
    BY <1>2 DEF EnsureBucket, StartCopying, Abort, Finish, WriteReport, WriteAudit, BucketsOnly, requestState
  <2>2. \E ph \in Phases \ {"idle", "invalid"} : phase' \in {phase, [phase EXCEPT ![j] = ph]}
    BY <1>2 DEF EnsureBucket, StartCopying, Abort, Finish, WriteReport, WriteAudit, Phases, Active, Ended
  <2>3. \A x \in Copies : Submitted(x) => Submitted(x)' /\ request'[x] = request[x]
    BY <2>1, <2>2 DEF Submitted, CopyInv, CopyTypeOK
  <2> QED BY <2>1, <2>3, WrittenGrows
<1> QED BY <1>1, <1>2 DEF CopyStep

LEMMA CopyRequestWrites ==
  ASSUME CopyInv, NEW j \in Copies, CopyRequest(j)
  PROVE  UNCHANGED store /\ WrittenByOthers \subseteq WrittenByOthers'
<1>1. PICK q \in Requests : Refuse(j) \/ Accept(j, q)
  BY DEF CopyRequest, CopyRoute, RestoreRoute
<1>2. UNCHANGED <<store, rewritten>> /\ ~Submitted(j)
  BY <1>1 DEF Refuse, Accept, Submitted
<1>3. ASSUME NEW x \in Copies, x # j
      PROVE  request'[x] = request[x] /\ phase'[x] = phase[x]
  BY <1>1, <1>3 DEF Refuse, Accept, requestState, CopyInv, CopyTypeOK
<1>4. \A x \in Copies : Submitted(x) => Submitted(x)' /\ request'[x] = request[x]
  BY <1>2, <1>3 DEF Submitted
<1> QED BY <1>2, <1>4, WrittenGrows

LEMMA CopySideKeeps ==
  ASSUME IInv, UNCHANGED <<rows, link, step, batches, outcome>>, stale' \in [Sessions -> SUBSET Places],
         TenantStep \/ \E j \in Copies : CopyRequest(j) \/ CopyStep(j)
  PROVE  IInv'
<1>1. CopyInv /\ SessionTables /\ \A x \in Sessions : SessionOK(x)
  BY DEF IInv
<1>2. CopyInv'
  BY <1>1, TenantKeeps, RequestKeeps, OwnStepKeeps
<1>3. WrittenByOthers \subseteq WrittenByOthers' /\ \A pl \in Places \ WrittenByOthers' : store'[pl] = store[pl]
  <2>1. CASE TenantStep
    <3>1. \A pl \in Places \ rewritten' : store'[pl] = store[pl]
      BY <1>1, <2>1, TenantKeeps
    <3>2. rewritten \subseteq rewritten' /\ UNCHANGED <<request, phase>>
      BY <2>1 DEF TenantStep, TenantChange, requestState
    <3>3. WrittenByOthers \subseteq WrittenByOthers'
      BY <3>2, WrittenGrows DEF Submitted
    <3> QED BY <3>1, <3>3 DEF WrittenByOthers
  <2>2. ASSUME NEW j \in Copies, CopyRequest(j) \/ CopyStep(j)
        PROVE  WrittenByOthers \subseteq WrittenByOthers' /\ \A pl \in Places \ WrittenByOthers' : store'[pl] = store[pl]
    BY <1>1, <2>2, CopyRequestWrites, CopyStepWrites
  <2> QED BY <2>1, <2>2
<1>4. SessionTables'
  BY <1>1 DEF SessionTables
<1>5. \A x \in Sessions : SessionOK(x)'
  BY <1>1, <1>3, SessionSteady
<1> QED BY <1>2, <1>4, <1>5 DEF IInv

-----------------------------------------------------------------------------
(* Steps of the sessions.                                                  *)

\* A step of session d that leaves the copies' variables alone.
LEMMA QuietStep ==
  ASSUME IInv, NEW d \in Sessions, UNCHANGED copyVars, SessionTables', SessionOK(d)',
         \A x \in Sessions : x # d =>
           rows'[x] = rows[x] /\ link'[x] = link[x] /\ outcome'[x] = outcome[x] /\ step'[x] = step[x]
  PROVE  IInv'
<1>1. UNCHANGED <<store, rewritten, request, phase, unready, bucketErrors, noAcl, stage, body, reported, before>>
  BY DEF copyVars
<1>2. phase' \in [Copies -> Phases] /\ \A x \in Copies : Submitted(x)' <=> Submitted(x)
  BY <1>1 DEF IInv, CopyInv, CopyTypeOK, Submitted
<1>3. CopyInv'
  BY <1>1, <1>2, PhaseStepKeeps DEF IInv, CopyInv, CopyTypeOK
<1>4. WrittenByOthers' = WrittenByOthers
  BY <1>1 DEF WrittenByOthers
<1>5. ASSUME NEW x \in Sessions, x # d PROVE SessionOK(x)'
  <2>1. SessionOK(x)
    BY DEF IInv
  <2> QED BY <1>1, <1>4, <1>5, <2>1, SessionSteady
<1> QED BY <1>3, <1>5 DEF IInv

LEMMA ReadKeeps ==
  ASSUME IInv, NEW d \in Sessions, NEW rs, NEW known, Read(d, rs, known),
         rs \in [DOMAIN rs -> Row], known \in [DOMAIN rs -> Links]
  PROVE  IInv'
<1>1. /\ rows' = [rows EXCEPT ![d] = rs] /\ link' = [link EXCEPT ![d] = known]
      /\ step' = [step EXCEPT ![d] = "checking"] /\ UNCHANGED <<batches, outcome, stale>> /\ UNCHANGED copyVars
  BY DEF Read
<1>2. SessionTables
  BY DEF IInv
<1>3. rows'[d] = rs /\ link'[d] = known /\ step'[d] = "checking"
  BY <1>1, <1>2 DEF SessionTables
<1>4. SessionTables'
  <2>1. step' \in [Sessions -> Steps]
    BY <1>1, <1>2 DEF SessionTables, Steps
  <2>2. rows' = [x \in Sessions |-> rows'[x]] /\ link' = [x \in Sessions |-> link'[x]]
    BY <1>1, <1>2 DEF SessionTables
  <2> QED BY <1>1, <1>2, <2>1, <2>2 DEF SessionTables
<1>5. SessionOK(d)'
  BY <1>3 DEF SessionOK, Late
<1>6. \A x \in Sessions : x # d =>
        rows'[x] = rows[x] /\ link'[x] = link[x] /\ outcome'[x] = outcome[x] /\ step'[x] = step[x]
  BY <1>1, <1>2 DEF SessionTables
<1> QED BY <1>1, <1>4, <1>5, <1>6, QuietStep

LEMMA ReadCopyReportKeeps ==
  ASSUME IInv, NEW d \in Sessions, NEW j \in Copies, ReadCopyReport(d, j)
  PROVE  IInv'
<1> DEFINE rs == [i \in Rows(request[j]) |-> ReportRow(j, i)]
           known == [i \in Rows(request[j]) |-> IF stage[j][i] \in Successful THEN "unchecked" ELSE "ineligible"]
<1>1. Read(d, rs, known) /\ j \in reported
  BY DEF ReadCopyReport, HasCopiedSheet
<1>2. /\ request[j] \in Requests /\ Valid(request[j])
      /\ stage[j] \in Seq(Stages) /\ Len(stage[j]) = Len(request[j].items)
  BY <1>1 DEF IInv, CopyInv, CopyTypeOK, Submitted
<1>3. ASSUME NEW i \in Rows(request[j]) PROVE ReportRow(j, i) \in Row
  <2>1. Source(request[j], i) \in Places /\ Dest(request[j], i) \in Places
    BY <1>2, RowPlaces
  <2>2. stage[j][i] \in Stages
    BY <1>2 DEF Rows
  <2> QED BY <2>1, <2>2 DEF ReportRow, Row
<1>4. rs \in [DOMAIN rs -> Row] /\ DOMAIN rs = Rows(request[j])
  BY <1>3
<1>5. known \in [Rows(request[j]) -> Links]
  BY DEF Links
<1> HIDE DEF rs, known
<1> QED BY <1>1, <1>4, <1>5, ReadKeeps

LEMMA ReadExcludedKeeps ==
  ASSUME IInv, NEW d \in Sessions, NEW e \in Sessions, ReadExcluded(d, e)
  PROVE  IInv'
<1> DEFINE known == [i \in Excluded(e) |-> "recheck"]
<1>1. Read(d, Candidates(e), known)
  BY DEF ReadExcluded
<1>2. rows[e] \in [DOMAIN rows[e] -> Row]
  BY DEF IInv, SessionOK
<1>3. DOMAIN Candidates(e) = Excluded(e) /\ Candidates(e) \in [Excluded(e) -> Row]
  BY <1>2 DEF Candidates, Excluded
<1>4. known \in [Excluded(e) -> Links]
  BY DEF Links
<1> HIDE DEF known
<1> QED BY <1>1, <1>3, <1>4, ReadKeeps

LEMMA CheckLinkKeeps ==
  ASSUME IInv, NEW d \in Sessions, NEW i \in DOMAIN rows[d], CheckLink(d, i)
  PROVE  IInv'
<1>1. PICK answer \in LinkAnswers(d, i) \cup (IF link[d][i] = "recheck" THEN {} ELSE {"lost"}) :
        /\ link' = [link EXCEPT ![d][i] = answer]
        /\ stale' = [stale EXCEPT ![d] = IF answer = "readable" THEN @ \ {rows[d][i].dest} ELSE @]
  BY DEF CheckLink
<1>2. answer \in Links
  BY <1>1 DEF LinkAnswers, Links
<1>3. step[d] = "checking" /\ UNCHANGED <<rows, step, batches, outcome>> /\ UNCHANGED copyVars
  BY DEF CheckLink
<1>4. SessionTables /\ SessionOK(d)
  BY DEF IInv
<1>5. /\ link' = [x \in Sessions |-> link'[x]] /\ \A x \in Sessions : x # d => link'[x] = link[x]
      /\ link'[d] = [link[d] EXCEPT ![i] = answer]
  BY <1>1, <1>4 DEF SessionTables
<1>6. SessionTables'
  <2>1. stale' \in [Sessions -> SUBSET Places]
    BY <1>1, <1>4 DEF SessionTables
  <2> QED BY <1>3, <1>4, <1>5, <2>1 DEF SessionTables
<1>7. link'[d] \in [DOMAIN rows[d] -> Links]
  BY <1>2, <1>4, <1>5 DEF SessionOK
<1>8. SessionOK(d)'
  BY <1>3, <1>4, <1>7 DEF SessionOK, Late
<1> QED BY <1>3, <1>5, <1>6, <1>8, QuietStep

LEMMA ConfirmKeeps ==
  ASSUME IInv, NEW d \in Sessions, Confirm(d)
  PROVE  IInv'
<1>1. /\ batches' = [batches EXCEPT ![d] = Batches(d)] /\ outcome' = [outcome EXCEPT ![d] = AllPending(d)]
      /\ step' = [step EXCEPT ![d] = "deleting"] /\ UNCHANGED <<rows, link, stale>> /\ UNCHANGED copyVars
  BY DEF Confirm
<1>2. SessionTables /\ SessionOK(d)
  BY DEF IInv
<1>3. \A b \in Batches(d) : b.places \subseteq Places
  BY <1>2, SourcesShape DEF Batches
<1>4. outcome'[d] = AllPending(d) /\ outcome' = [x \in Sessions |-> outcome'[x]]
      /\ \A x \in Sessions : x # d => outcome'[x] = outcome[x] /\ step'[x] = step[x]
  BY <1>1, <1>2 DEF SessionTables
<1>5. SessionTables'
  <2>1. step' \in [Sessions -> Steps]
    BY <1>1, <1>2 DEF SessionTables, Steps
  <2>2. /\ batches' = [x \in Sessions |-> batches'[x]]
        /\ \A x \in Sessions : \A b \in batches'[x] : b.places \subseteq Places
    BY <1>1, <1>2, <1>3 DEF SessionTables
  <2> QED BY <1>1, <1>2, <1>4, <2>1, <2>2 DEF SessionTables
<1>6. Sources(d)' = Sources(d)
  BY <1>1 DEF Sources, Sent
<1>7. AllPending(d) \in [Sources(d) -> Outcomes] /\ \A pl \in Sources(d) : AllPending(d)[pl] # "deleted"
  BY DEF AllPending, Outcomes
<1>8. SessionOK(d)'
  BY <1>1, <1>2, <1>4, <1>6, <1>7 DEF SessionOK
<1> QED BY <1>1, <1>4, <1>5, <1>8, QuietStep

\* The steps of a session come one after another, deletion first.
LEMMA ProceedGoesOn ==
  ASSUME NEW d \in Sessions, Proceed(d)
  PROVE  /\ step[d] \in Late
         /\ \E st \in {"auditing", "reporting", "done", "failed"} : step' = [step EXCEPT ![d] = st]
<1>1. PICK st \in CASE step[d] = "deleting" /\ batches[d] = {} -> {"auditing"}
                     [] step[d] = "auditing"                    -> {"reporting", "failed"}
                     [] step[d] = "reporting"                   -> {"done", "failed"}
                     [] OTHER                                   -> {} :
        step' = [step EXCEPT ![d] = st]
  BY DEF Proceed
<1>2. CASE step[d] = "deleting" /\ batches[d] = {}
  BY <1>1, <1>2, Zenon DEF Late
<1>3. CASE step[d] = "auditing"
  BY <1>1, <1>3 DEF Late
<1>4. CASE step[d] = "reporting"
  BY <1>1, <1>4 DEF Late
<1>5. CASE ~(step[d] = "deleting" /\ batches[d] = {}) /\ step[d] # "auditing" /\ step[d] # "reporting"
  BY <1>1, <1>5
<1> QED BY <1>2, <1>3, <1>4, <1>5

LEMMA ProceedKeeps ==
  ASSUME IInv, NEW d \in Sessions, Proceed(d)
  PROVE  IInv'
<1>1. UNCHANGED <<rows, link, batches, outcome, stale>> /\ UNCHANGED copyVars
  BY DEF Proceed
<1>2. SessionTables /\ SessionOK(d)
  BY DEF IInv
<1>3. step[d] \in Late /\ \E st \in {"auditing", "reporting", "done", "failed"} : step' = [step EXCEPT ![d] = st]
  BY ProceedGoesOn
<1>4. step[d] \in Late /\ \E st \in Steps : step' = [step EXCEPT ![d] = st]
  BY <1>3 DEF Steps
<1>5. step' \in [Sessions -> Steps] /\ \A x \in Sessions : x # d => step'[x] = step[x]
  BY <1>2, <1>3, <1>4 DEF SessionTables
<1>6. SessionTables'
  BY <1>1, <1>2, <1>5 DEF SessionTables
<1>7. SessionOK(d)'
  <2>1. WrittenByOthers' = WrittenByOthers /\ store' = store
    BY <1>1 DEF WrittenByOthers, copyVars
  <2> QED BY <1>1, <1>2, <1>4, <2>1, SessionSteady
<1> QED BY <1>1, <1>5, <1>6, <1>7, QuietStep

LEMMA ResendKeeps ==
  ASSUME IInv, NEW d \in Sessions, Resend(d)
  PROVE  IInv'
<1>1. /\ rows' = [rows EXCEPT ![d] = [i \in Kept(d) |-> rows[d][i]]]
      /\ link' = [link EXCEPT ![d] = [i \in Kept(d) |-> link[d][i]]]
      /\ step' = [step EXCEPT ![d] = "checking"] /\ outcome' = [outcome EXCEPT ![d] = <<>>]
      /\ batches' = [batches EXCEPT ![d] = {}] /\ UNCHANGED stale /\ UNCHANGED copyVars
  BY DEF Resend
<1>2. SessionTables /\ SessionOK(d)
  BY DEF IInv
<1>3. Kept(d) \subseteq DOMAIN rows[d]
  BY DEF Kept
<1>4. /\ rows'[d] = [i \in Kept(d) |-> rows[d][i]] /\ link'[d] = [i \in Kept(d) |-> link[d][i]]
      /\ step'[d] = "checking"
  BY <1>1, <1>2 DEF SessionTables
<1>5. SessionOK(d)'
  BY <1>2, <1>3, <1>4 DEF SessionOK, Late
<1>6. /\ rows' = [x \in Sessions |-> rows'[x]] /\ link' = [x \in Sessions |-> link'[x]]
      /\ outcome' = [x \in Sessions |-> outcome'[x]]
  BY <1>1, <1>2 DEF SessionTables
<1>7. /\ step' \in [Sessions -> Steps] /\ batches' = [x \in Sessions |-> batches'[x]]
      /\ \A x \in Sessions : \A b \in batches'[x] : b.places \subseteq Places
  BY <1>1, <1>2 DEF SessionTables, Steps
<1>8. \A x \in Sessions : x # d =>
        rows'[x] = rows[x] /\ link'[x] = link[x] /\ outcome'[x] = outcome[x] /\ step'[x] = step[x]
  BY <1>1, <1>2 DEF SessionTables
<1>9. SessionTables'
  BY <1>1, <1>2, <1>6, <1>7 DEF SessionTables
<1> QED BY <1>1, <1>5, <1>8, <1>9, QuietStep

\* "deleted" means removed.
LEMMA ReplyMeans ==
  ASSUME NEW b, NEW gone, NEW named, NEW pl \in b
  PROVE  /\ Reply(b, gone, named)[pl] \in Outcomes
         /\ Reply(b, gone, named)[pl] = "deleted" => pl \in gone
<1>1. "deleted" # "unconfirmed" /\ "deleted" # "kept"
  OBVIOUS
<1>2. Reply(b, gone, named)[pl] = CASE pl \in gone \cap named -> "deleted"
                                    [] pl \in gone \ named    -> "unconfirmed"
                                    [] OTHER                  -> "kept"
  BY DEF Reply
<1>3. CASE pl \in gone \cap named
  BY <1>2, <1>3 DEF Outcomes
<1>4. CASE pl \in gone \ named
  BY <1>1, <1>2, <1>4 DEF Outcomes
<1>5. CASE pl \notin gone \cap named /\ pl \notin gone \ named
  BY <1>1, <1>2, <1>5 DEF Outcomes
<1> QED BY <1>3, <1>4, <1>5

LEMMA DeleteBatchKeeps ==
  ASSUME IInv, NEW d \in Sessions, NEW b \in batches[d], DeleteBatch(d, b)
  PROVE  IInv'
<1>1. SessionTables /\ CopyInv /\ SessionOK(d) /\ b.places \in SUBSET Places
  BY DEF IInv, SessionTables
<1>2. PICK gone \in SUBSET b.places : \E named \in SUBSET gone :
        /\ Replace(gone, [pl \in gone |-> Absent])
        /\ outcome' = [outcome EXCEPT ![d] =
             [pl \in DOMAIN @ |-> IF pl \in b.places THEN Reply(b.places, gone, named)[pl] ELSE @[pl]]]
  BY DEF DeleteBatch
<1>3. PICK named \in SUBSET gone :
        /\ Replace(gone, [pl \in gone |-> Absent])
        /\ outcome' = [outcome EXCEPT ![d] =
             [pl \in DOMAIN @ |-> IF pl \in b.places THEN Reply(b.places, gone, named)[pl] ELSE @[pl]]]
  BY <1>2
<1>4. /\ step[d] = "deleting" /\ batches' = [batches EXCEPT ![d] = @ \ {b}] /\ UNCHANGED <<rows, link, step>>
      /\ UNCHANGED <<rewritten, request, reported, phase, unready, bucketErrors, noAcl, stage, body>>
  BY DEF DeleteBatch, requestState
<1>5. CopyInv'
  <2>1. gone \in SUBSET Places /\ [pl \in gone |-> Absent] \in [gone -> Objects \cup {Absent}]
    BY <1>1
  <2>2. rewritten' \subseteq TenantPlaces
    BY <1>1, <1>4 DEF CopyInv, CopyTypeOK
  <2> QED BY <1>1, <1>3, <1>4, <2>1, <2>2, ReplaceKeeps
<1>6. \A pl \in Places : store'[pl] = IF pl \in gone THEN Absent ELSE store[pl]
  BY <1>3 DEF Replace
<1>7. WrittenByOthers' = WrittenByOthers
  BY <1>4 DEF WrittenByOthers
<1>8. /\ outcome' = [x \in Sessions |-> outcome'[x]] /\ \A x \in Sessions : x # d => outcome'[x] = outcome[x]
      /\ outcome'[d] = [pl \in DOMAIN outcome[d] |->
                         IF pl \in b.places THEN Reply(b.places, gone, named)[pl] ELSE outcome[d][pl]]
  BY <1>1, <1>3 DEF SessionTables
<1>9. SessionTables'
  <2>1. /\ batches' = [x \in Sessions |-> batches'[x]]
        /\ \A x \in Sessions : \A c \in batches'[x] : c.places \subseteq Places
    BY <1>1, <1>4 DEF SessionTables
  <2>2. stale' \in [Sessions -> SUBSET Places]
    BY <1>1, StaleShape DEF DeleteBatch
  <2> QED BY <1>1, <1>4, <1>8, <2>1, <2>2 DEF SessionTables
<1>10. SessionOK(d)'
  <2>1. Sources(d)' = Sources(d) /\ Sources(d) \subseteq Places
    BY <1>1, <1>4, SourcesShape DEF Sources, Sent
  <2>2. outcome[d] \in [Sources(d) -> Outcomes]
        /\ \A pl \in Sources(d) : outcome[d][pl] = "deleted" /\ pl \notin WrittenByOthers => store[pl] = Absent
    BY <1>1, <1>4 DEF SessionOK, Late
  <2>3. outcome'[d] \in [Sources(d) -> Outcomes]
    BY <1>8, <2>2, ReplyMeans
  <2>4. ASSUME NEW pl \in Sources(d), outcome'[d][pl] = "deleted", pl \notin WrittenByOthers
        PROVE  store'[pl] = Absent
    <3>1. CASE pl \in b.places
      <4>1. pl \in gone
        BY <1>8, <2>2, <2>4, <3>1, ReplyMeans
      <4> QED BY <1>6, <2>1, <4>1
    <3>2. CASE pl \notin b.places
      <4>1. outcome[d][pl] = "deleted"
        BY <1>8, <2>2, <2>4, <3>2
      <4> QED BY <1>6, <2>1, <2>2, <2>4, <4>1
    <3> QED BY <3>1, <3>2
  <2> QED BY <1>1, <1>4, <1>7, <2>1, <2>3, <2>4 DEF SessionOK
<1>11. ASSUME NEW x \in Sessions, x # d PROVE SessionOK(x)'
  <2>1. SessionOK(x)
    BY DEF IInv
  <2> QED BY <1>4, <1>6, <1>7, <1>8, <1>11, <2>1, SessionSteady
<1> QED BY <1>5, <1>9, <1>10, <1>11 DEF IInv

LEMMA StopKeeps ==
  ASSUME IInv, Stop
  PROVE  IInv'
<1>1. CopyInv /\ SessionTables /\ \A x \in Sessions : SessionOK(x)
  BY DEF IInv
<1>2. CopiesStop /\ UNCHANGED <<rows, link, batches, outcome, stale>>
  BY DEF Stop
<1>3. \A x \in Sessions : step'[x] \in {step[x], "crashed"}
  BY DEF Stop
<1>4. SessionTables'
  BY <1>1, <1>2 DEF Stop, SessionTables, Steps
<1>5. \A x \in Copies : Submitted(x) => Submitted(x)'
  BY <1>2 DEF CopiesStop, Submitted
<1>6. UNCHANGED <<store, rewritten, request>>
  BY <1>2 DEF CopiesStop, requestState
<1>7. WrittenByOthers \subseteq WrittenByOthers'
  BY <1>5, <1>6, WrittenGrows
<1>8. ASSUME NEW x \in Sessions PROVE SessionOK(x)'
  <2>1. step'[x] \in Late => step[x] \in Late
    BY <1>3 DEF Late
  <2> QED BY <1>1, <1>2, <1>6, <1>7, <2>1, SessionSteady
<1> QED BY <1>1, <1>2, <1>4, <1>8, CopiesStopKeeps DEF IInv

LEMMA NextIInv == IInv /\ [Next]_vars => IInv'
<1> SUFFICES ASSUME IInv, [Next]_vars PROVE IInv'
  OBVIOUS
<1>1. CASE \/ TenantStep /\ GoneStale(Sessions) /\ UNCHANGED <<rows, link, step, batches, outcome>>
           \/ (\E j \in Copies : CopyRequest(j) \/ CopyStep(j)) /\ UNCHANGED migrationVars
  <2>1. SessionTables
    BY DEF IInv
  <2>2. stale' \in [Sessions -> SUBSET Places] /\ UNCHANGED <<rows, link, step, batches, outcome>>
    BY <1>1, <2>1, StaleShape DEF migrationVars, SessionTables
  <2> QED BY <1>1, <2>2, CopySideKeeps
<1>2. ASSUME NEW d \in Sessions, SessionRequest(d) \/ SessionStep(d)
      PROVE  IInv'
  BY <1>2, ReadCopyReportKeeps, ReadExcludedKeeps, ConfirmKeeps, ResendKeeps, CheckLinkKeeps,
     DeleteBatchKeeps, ProceedKeeps DEF SessionRequest, SessionStep
<1>3. CASE Stop
  BY <1>3, StopKeeps
<1>4. CASE UNCHANGED vars
  <2>1. UNCHANGED copyVars /\ UNCHANGED <<rows, link, step, batches, outcome, stale>>
    BY <1>4 DEF vars, copyVars
  <2>2. SessionTables'
    BY <2>1 DEF IInv, SessionTables
  <2>3. CASE Sessions = {}
    <3>1. CopyInv'
      <4>1. UNCHANGED <<store, rewritten, request, phase, unready, bucketErrors, noAcl, stage, body, reported, before>>
        BY <2>1 DEF copyVars
      <4> QED BY <4>1, PhaseStepKeeps DEF IInv, CopyInv, CopyTypeOK, Submitted
    <3> QED BY <2>2, <2>3, <3>1 DEF IInv
  <2>4. ASSUME NEW d \in Sessions PROVE IInv'
    <3>1. SessionOK(d)
      BY DEF IInv
    <3>2. WrittenByOthers' = WrittenByOthers /\ store' = store
      BY <2>1 DEF WrittenByOthers, copyVars
    <3>3. SessionOK(d)'
      BY <2>1, <3>1, <3>2, SessionSteady
    <3> QED BY <2>1, <2>2, <3>3, QuietStep
  <2> QED BY <2>3, <2>4
<1> QED BY <1>1, <1>2, <1>3, <1>4 DEF Next

-----------------------------------------------------------------------------
(* The theorems.                                                           *)

LEMMA InvariantHolds == Spec => []IInv
<1> QED BY InitIInv, NextIInv, PTL DEF Spec

\* Type correctness of the copies, the sessions and their requests.
THEOREM TypesHold == Spec => []TypeOK
<1>1. IInv => TypeOK
  BY DEF IInv, CopyInv, SessionTables, SessionOK, Late, TypeOK
<1> QED BY <1>1, InvariantHolds, PTL

\* What a deletion report lists as deleted is gone, whatever was answered for
\* the rows, calls and sessions beside it (delete_objects).
THEOREM ReportedDeletedHolds == Spec => []ReportedDeletedIsGone
<1>1. IInv => ReportedDeletedIsGone
  <2> SUFFICES ASSUME IInv, NEW d \in Sessions, step[d] \in {"auditing", "reporting", "done"},
                      NEW i \in Sent(d), Result(d, i) = "Deleted",
                      rows[d][i].source \notin WrittenByOthers
               PROVE  store[rows[d][i].source] = Absent
    BY DEF ReportedDeletedIsGone
  <2>1. SessionOK(d) /\ step[d] \in Late
    BY DEF IInv, Late
  <2>2. rows[d][i].source \in Sources(d) /\ outcome[d][rows[d][i].source] = "deleted"
    BY <2>1, SourcesShape DEF Result
  <2> QED BY <2>1, <2>2 DEF SessionOK
<1> QED BY <1>1, InvariantHolds, PTL

\* A change of run j's rows while it copies is a call of one of them.
LEMMA StepIsRow ==
  ASSUME IInv, [Next]_vars, NEW j \in Copies, StepOf(j)
  PROVE  \E i \in Rows(request[j]) : CopyOne(j, i) /\ Effect(j, i)
<1>1. stage'[j] # stage[j] /\ phase[j] = "copying" /\ CopyInv
  BY DEF StepOf, IInv
<1>2. stage' # stage
  BY <1>1
<1>3. ~ UNCHANGED vars /\ ~Stop /\ ~TenantStep
  BY <1>2 DEF vars, Stop, CopiesStop, TenantStep, TenantChange
<1>4. ASSUME NEW d \in Sessions, SessionRequest(d) \/ SessionStep(d)
      PROVE  FALSE
  BY <1>2, <1>4 DEF SessionRequest, SessionStep, ReadCopyReport, ReadExcluded, Read, Confirm, Resend,
     CheckLink, DeleteBatch, Proceed, copyVars
<1>5. ASSUME NEW x \in Copies, CopyRequest(x)
      PROVE  FALSE
  <2>1. PICK q \in Requests : Refuse(x) \/ Accept(x, q)
    BY <1>5 DEF CopyRequest, CopyRoute, RestoreRoute
  <2>2. phase[x] = "idle" /\ (x # j => stage'[j] = stage[j])
    BY <1>1, <2>1 DEF Refuse, Accept, CopyInv, CopyTypeOK
  <2> QED BY <1>1, <2>2
<1>6. PICK x \in Copies : CopyStep(x)
  BY <1>3, <1>4, <1>5 DEF Next
<1>7. PICK i \in 1..Len(stage[x]) : CopyOne(x, i)
  BY <1>2, <1>6 DEF CopyStep, EnsureBucket, StartCopying, Abort, Finish, WriteReport, WriteAudit, BucketsOnly
<1>8. Effect(x, i)
  BY <1>1, <1>7, CopyOneEffect
<1>9. x = j
  <2>1. \E st, v : Advance(x, i, st, v)
    BY <1>8 DEF Effect, RowEffect
  <2>2. x # j => stage'[j] = stage[j]
    BY <1>1, <2>1 DEF Advance, CopyInv, CopyTypeOK
  <2> QED BY <1>1, <2>2
<1>10. i \in Rows(request[j])
  BY <1>1, <1>7, <1>9, RowFacts
<1> QED BY <1>7, <1>8, <1>9, <1>10

\* With overwrite off, no copy replaces what was at its destination before it
\* began (copy_one's HEAD, 445-451), whatever is answered, lost or written by
\* others meanwhile.
THEOREM KeptDestinationHolds == Spec => KeptDestination
<1> DEFINE A == \A j \in Copies : StepOf(j) /\ ~request[j].overwrite
                 => \A pl \in before[j] : store'[pl] # Absent /\ store'[pl].content = store[pl].content
<1>1. IInv /\ [Next]_vars => A
  <2> SUFFICES ASSUME IInv, [Next]_vars, NEW j \in Copies, StepOf(j), ~request[j].overwrite,
                      NEW pl \in before[j]
               PROVE  store'[pl] # Absent /\ store'[pl].content = store[pl].content
    OBVIOUS
  <2>1. PICK i \in Rows(request[j]) : Effect(j, i)
    BY StepIsRow
  <2>2. pl \in Places /\ store[pl] # Absent
    BY DEF IInv, CopyInv, Full
  <2> QED BY <2>1, <2>2 DEF Effect, StoreEffect
<1>2. IInv /\ [Next]_vars => [A]_copyVars
  BY <1>1
<1> QED BY <1>2, InvariantHolds, PTL DEF Spec, KeptDestination

\* No copy, and no restore of rows of one bucket, writes a source of its own
\* report (_validate_copy_body, _validate_restore_body).
THEOREM SourcesUntouchedHolds == Spec => SourcesUntouched
<1> DEFINE A == \A j \in Copies : StepOf(j) /\ (request[j].kind = "copy" \/ OneBucket(request[j]))
                 => \A i \in Rows(request[j]) : SourceOf(j, i)' = SourceOf(j, i)
<1>1. IInv /\ [Next]_vars => A
  <2> SUFFICES ASSUME IInv, [Next]_vars, NEW j \in Copies, StepOf(j),
                      request[j].kind = "copy" \/ OneBucket(request[j]), NEW i \in Rows(request[j])
               PROVE  SourceOf(j, i)' = SourceOf(j, i)
    OBVIOUS
  <2>1. PICK k \in Rows(request[j]) : Effect(j, k)
    BY StepIsRow
  <2>2. request[j] \in Requests /\ Valid(request[j])
    BY <2>1 DEF Effect, IInv, CopyInv, CopyTypeOK, Submitted
  <2>3. Source(request[j], i) \in Places /\ Source(request[j], i) # Dest(request[j], k)
    BY <2>2, RowPlaces, SourceApart
  <2>4. store'[Source(request[j], i)] = store[Source(request[j], i)]
    BY <2>1, <2>3 DEF Effect, StoreEffect
  <2>5. request' = request
    BY <2>1 DEF Effect, RowEffect, Advance, requestState
  <2> QED BY <2>4, <2>5 DEF SourceOf
<1>2. IInv /\ [Next]_vars => [A]_copyVars
  BY <1>1
<1> QED BY <1>2, InvariantHolds, PTL DEF Spec, SourcesUntouched

\* The unlocked acl_supported loses no ACL: a row that ends well under
\* make_public is public, or its bucket has no ACLs.
THEOREM PublicHolds == Spec => PublicUnlessNoAcls
<1> DEFINE A == \A j \in Copies : StepOf(j) /\ request[j].public
                 => \A i \in Rows(request[j]) :
                      stage[j][i] \in Unfinished /\ stage'[j][i] \in Successful
                        => TargetOf(j, i) \in NoAcls \/ DestOf(j, i)'.public
<1>1. IInv /\ [Next]_vars => A
  <2> SUFFICES ASSUME IInv, [Next]_vars, NEW j \in Copies, StepOf(j), request[j].public,
                      NEW i \in Rows(request[j]), stage[j][i] \in Unfinished, stage'[j][i] \in Successful
               PROVE  TargetOf(j, i) \in NoAcls \/ DestOf(j, i)'.public
    OBVIOUS
  <2>1. PICK k \in Rows(request[j]) : Effect(j, k)
    BY StepIsRow
  <2>2. PICK st \in Stages, v \in Objects \cup {Absent} :
          /\ Advance(j, k, st, v)
          /\ st \in Successful => TargetOf(j, k) \in NoAcls \/ store'[Dest(request[j], k)].public
    BY <2>1 DEF Effect, RowEffect
  <2>3. phase[j] = "copying" /\ CopyTypeOK /\ k \in 1..Len(stage[j])
    BY <2>1 DEF Effect, IInv, CopyInv, CopyTypeOK, Rows
  <2>4. /\ stage'[j][k] = st /\ request' = request
        /\ \A x \in Rows(request[j]) : x # k => stage'[j][x] = stage[j][x]
    BY <2>2, <2>3, AdvanceShape
  <2>5. i = k
    BY <2>4 DEF Unfinished, Successful
  <2> QED BY <2>2, <2>4, <2>5 DEF DestOf
<1>2. IInv /\ [Next]_vars => [A]_copyVars
  BY <1>1
<1> QED BY <1>2, InvariantHolds, PTL DEF Spec, PublicUnlessNoAcls
-----------------------------------------------------------------------------
(* Sources go only while their destinations are full.                      *)

CopyRequests == {q \in Requests : q.kind = "copy" /\ Valid(q)}

IsRowOf(q, row) == \E n \in Rows(q) : row.source = Source(q, n) /\ row.dest = Dest(q, n)

\* The rows of a session are rows of one copy; its batches hold sources of rows
\* whose link answered; and what has answered is still there, or stale.
MigratedOK(d) ==
  /\ DOMAIN rows[d] # {} => \E q \in CopyRequests : \A i \in DOMAIN rows[d] : IsRowOf(q, rows[d][i])
  /\ step[d] = "deleting" => \A b \in batches[d] : b.places \subseteq Sources(d)
  /\ \A i \in Sent(d) : store[rows[d][i].dest] # Absent \/ rows[d][i].dest \in stale[d]

Migrated == \A d \in Sessions : MigratedOK(d)

\* No row's destination is a source of its session.
LEMMA RowsApart ==
  ASSUME IInv, Migrated, NEW d \in Sessions, NEW i \in DOMAIN rows[d]
  PROVE  rows[d][i].dest \in Places /\ rows[d][i].dest \notin Sources(d)
<1>1. PICK q \in CopyRequests : \A k \in DOMAIN rows[d] : IsRowOf(q, rows[d][k])
  BY DEF Migrated, MigratedOK
<1>2. PICK n \in Rows(q) : rows[d][i].dest = Dest(q, n)
  BY <1>1 DEF IsRowOf
<1>3. Dest(q, n) \in Places
  BY RowPlaces DEF CopyRequests
<1>4. ASSUME NEW k \in Sent(d) PROVE rows[d][k].source # Dest(q, n)
  <2>1. PICK m \in Rows(q) : rows[d][k].source = Source(q, m)
    BY <1>1 DEF IsRowOf, Sent
  <2> QED BY <2>1, SourceApart DEF CopyRequests
<1> QED BY <1>2, <1>3, <1>4 DEF Sources

\* What one call of a session removes lies among the sources of its sent rows.
LEMMA BatchRemoves ==
  ASSUME IInv, Migrated, NEW d \in Sessions, NEW b \in batches[d], DeleteBatch(d, b)
  PROVE  \A pl \in Places : store'[pl] = store[pl] \/ (pl \in Sources(d) /\ store'[pl] = Absent)
<1>1. PICK gone \in SUBSET b.places : Replace(gone, [pl \in gone |-> Absent])
  BY DEF DeleteBatch
<1>2. b.places \subseteq Sources(d)
  BY DEF DeleteBatch, Migrated, MigratedOK
<1> QED BY <1>1, <1>2 DEF Replace

\* A destination whose link has answered stays full, or goes stale.
LEMMA DestinationStays ==
  ASSUME IInv, Migrated, Next, NEW d \in Sessions, NEW i \in Sent(d)
  PROVE  store'[rows[d][i].dest] # Absent \/ rows[d][i].dest \in stale'[d]
<1> DEFINE pl == rows[d][i].dest
<1>0. /\ CopyInv /\ SessionTables /\ i \in DOMAIN rows[d]
      /\ pl \in Places /\ pl \notin Sources(d) /\ pl \in Destinations(d)
  BY RowsApart DEF IInv, Sent, Destinations
<1>p. store[pl] # Absent \/ pl \in stale[d]
  BY DEF Migrated, MigratedOK
<1> HIDE DEF pl
<1>g. ASSUME NEW ds, d \in ds, GoneStale(ds) PROVE store'[pl] # Absent \/ pl \in stale'[d]
  BY <1>0, <1>p, <1>g DEF GoneStale
<1>1. ASSUME GoneStale(Sessions) PROVE store'[pl] # Absent \/ pl \in stale'[d]
  BY <1>1, <1>g
<1>2. ASSUME NEW j \in Copies, CopyRequest(j), UNCHANGED stale PROVE store'[pl] # Absent \/ pl \in stale'[d]
  BY <1>0, <1>2, <1>p, CopyRequestWrites
<1>3. ASSUME NEW j \in Copies, CopyStep(j), UNCHANGED stale PROVE store'[pl] # Absent \/ pl \in stale'[d]
  <2>1. CASE \E k \in 1..Len(stage[j]) : CopyOne(j, k)
    <3>1. PICK k \in 1..Len(stage[j]) : CopyOne(j, k)
      BY <2>1
    <3>2. StoreEffect(j, k)
      BY <1>0, <3>1, CopyOneEffect DEF Effect
    <3> QED BY <1>0, <1>3, <1>p, <3>2 DEF StoreEffect
  <2>2. CASE ~ \E k \in 1..Len(stage[j]) : CopyOne(j, k)
    BY <1>3, <1>p, <2>2 DEF CopyStep, EnsureBucket, StartCopying, Abort, Finish, WriteReport, WriteAudit,
       BucketsOnly
  <2> QED BY <2>1, <2>2
<1>4. ASSUME NEW e \in Sessions, NEW b \in batches[e], DeleteBatch(e, b)
      PROVE  store'[pl] # Absent \/ pl \in stale'[d]
  <2>1. CASE e # d
    <3>1. GoneStale(Sessions \ {e}) /\ d \in Sessions \ {e}
      BY <1>4, <2>1 DEF DeleteBatch
    <3> QED BY <3>1, <1>g
  <2>2. CASE e = d
    <3>1. store'[pl] = store[pl]
      BY <1>0, <1>4, <2>2, BatchRemoves
    <3>2. stale'[d] = stale[d]
      BY <1>4, <2>2 DEF DeleteBatch, GoneStale
    <3> QED BY <1>p, <3>1, <3>2
  <2> QED BY <2>1, <2>2
<1>5. ASSUME NEW e \in Sessions, NEW k \in DOMAIN rows[e], CheckLink(e, k)
      PROVE  store'[pl] # Absent \/ pl \in stale'[d]
  <2>1. PICK answer \in LinkAnswers(e, k) \cup (IF link[e][k] = "recheck" THEN {} ELSE {"lost"}) :
          stale' = [stale EXCEPT ![e] = IF answer = "readable" THEN @ \ {rows[e][k].dest} ELSE @]
    BY <1>5 DEF CheckLink
  <2>2. UNCHANGED store
    BY <1>5 DEF CheckLink, copyVars
  <2>3. answer = "readable" => store[rows[e][k].dest] # Absent
    BY <2>1 DEF LinkAnswers
  <2>4. stale'[d] = IF e = d /\ answer = "readable" THEN stale[d] \ {rows[e][k].dest} ELSE stale[d]
    BY <1>0, <2>1 DEF SessionTables
  <2> QED BY <1>p, <2>2, <2>3, <2>4
<1>6. ASSUME NEW e \in Sessions, SessionRequest(e) \/ Proceed(e)
      PROVE  store'[pl] # Absent \/ pl \in stale'[d]
  BY <1>6, <1>p DEF SessionRequest, ReadCopyReport, ReadExcluded, Read, Confirm, Resend, Proceed, copyVars
<1>7. ASSUME Stop PROVE store'[pl] # Absent \/ pl \in stale'[d]
  BY <1>7, <1>p DEF Stop, CopiesStop
<1> QED BY <1>1, <1>2, <1>3, <1>4, <1>5, <1>6, <1>7 DEF Next, SessionStep, migrationVars, pl

\* A session whose tables stay, or that works off its batches.
LEMMA MigratedSteady ==
  ASSUME IInv, Migrated, Next, NEW d \in Sessions,
         rows'[d] = rows[d], link'[d] = link[d],
         step'[d] = "deleting" => step[d] = "deleting" /\ batches'[d] \subseteq batches[d]
  PROVE  MigratedOK(d)'
<1>1. Sent(d)' = Sent(d) /\ Sources(d)' = Sources(d) /\ Sent(d) \subseteq DOMAIN rows[d]
  BY DEF Sent, Sources
<1>2. MigratedOK(d)
  BY DEF Migrated
<1>3. \A i \in Sent(d) : store'[rows[d][i].dest] # Absent \/ rows[d][i].dest \in stale'[d]
  BY DestinationStays
<1> QED BY <1>1, <1>2, <1>3 DEF MigratedOK

\* A session that has just read some rows: of a copy report ...
LEMMA ReportMigrated ==
  ASSUME IInv, NEW d \in Sessions, NEW j \in Copies, ReadCopyReport(d, j)
  PROVE  MigratedOK(d)'
<1>1. /\ rows'[d] = [i \in Rows(request[j]) |-> ReportRow(j, i)]
      /\ link'[d] = [i \in Rows(request[j]) |->
                       IF stage[j][i] \in Successful THEN "unchecked" ELSE "ineligible"]
      /\ step'[d] = "checking"
  BY DEF ReadCopyReport, Read, IInv, SessionTables
<1>2. request[j] \in CopyRequests
  BY DEF ReadCopyReport, HasCopiedSheet, IInv, CopyInv, CopyTypeOK, Submitted, CopyRequests
<1>3. \A i \in DOMAIN rows'[d] : IsRowOf(request[j], rows'[d][i])
  BY <1>1 DEF ReportRow, IsRowOf
<1>4. Sent(d)' = {}
  BY <1>1 DEF Sent
<1> QED BY <1>1, <1>2, <1>3, <1>4 DEF MigratedOK

\* ... or of the Excluded sheet of an earlier session.
LEMMA ExcludedMigrated ==
  ASSUME IInv, Migrated, NEW d \in Sessions, NEW e \in Sessions, ReadExcluded(d, e)
  PROVE  MigratedOK(d)'
<1>1. /\ rows'[d] = Candidates(e) /\ link'[d] = [i \in Excluded(e) |-> "recheck"]
      /\ step'[d] = "checking"
  BY DEF ReadExcluded, Read, IInv, SessionTables
<1>2. /\ DOMAIN rows'[d] = Excluded(e) /\ Excluded(e) \subseteq DOMAIN rows[e]
      /\ \A i \in Excluded(e) : rows'[d][i] = rows[e][i]
  BY <1>1 DEF Candidates, Excluded
<1>3. DOMAIN rows'[d] # {} => \E q \in CopyRequests : \A i \in DOMAIN rows'[d] : IsRowOf(q, rows'[d][i])
  BY <1>2 DEF Migrated, MigratedOK
<1>4. Sent(d)' = {}
  BY <1>1, <1>2 DEF Sent
<1> QED BY <1>1, <1>3, <1>4 DEF MigratedOK

LEMMA CheckMigrated ==
  ASSUME IInv, Migrated, NEW d \in Sessions, NEW i \in DOMAIN rows[d], CheckLink(d, i)
  PROVE  MigratedOK(d)'
<1>1. PICK answer \in LinkAnswers(d, i) \cup (IF link[d][i] = "recheck" THEN {} ELSE {"lost"}) :
        /\ link' = [link EXCEPT ![d][i] = answer]
        /\ stale' = [stale EXCEPT ![d] = IF answer = "readable" THEN @ \ {rows[d][i].dest} ELSE @]
  BY DEF CheckLink
<1>2. UNCHANGED <<store, rows, step>> /\ step[d] = "checking" /\ MigratedOK(d)
  BY DEF CheckLink, copyVars, Migrated
<1>3. \A k \in DOMAIN rows[d] : link'[d][k] = IF k = i THEN answer ELSE link[d][k]
  BY <1>1 DEF IInv, SessionTables, SessionOK
<1>4. answer = "readable" => store[rows[d][i].dest] # Absent
  BY <1>1 DEF LinkAnswers
<1>5. \A k \in Sent(d)' : k = i \/ k \in Sent(d)
  BY <1>2, <1>3 DEF Sent
<1>6. \A k \in Sent(d) : store'[rows[d][k].dest] # Absent \/ rows[d][k].dest \in stale'[d]
  BY DestinationStays DEF Next, SessionStep
<1>7. i \in Sent(d)' => store[rows[d][i].dest] # Absent
  BY <1>2, <1>3, <1>4 DEF Sent
<1>8. \A k \in Sent(d)' : store'[rows'[d][k].dest] # Absent \/ rows'[d][k].dest \in stale'[d]
  BY <1>2, <1>5, <1>6, <1>7
<1> QED BY <1>2, <1>8 DEF MigratedOK

LEMMA ConfirmMigrated ==
  ASSUME IInv, Migrated, NEW d \in Sessions, Confirm(d)
  PROVE  MigratedOK(d)'
<1>1. /\ UNCHANGED <<store, rows, link, stale>> /\ batches'[d] = Batches(d) /\ MigratedOK(d)
  BY DEF Confirm, copyVars, IInv, SessionTables, Migrated
<1>2. Sent(d)' = Sent(d) /\ Sources(d)' = Sources(d)
  BY <1>1 DEF Sent, Sources
<1>3. \A b \in Batches(d) : b.places \subseteq Sources(d)
  BY DEF Batches, Sources
<1> QED BY <1>1, <1>2, <1>3 DEF MigratedOK

LEMMA ResendMigrated ==
  ASSUME IInv, Migrated, NEW d \in Sessions, Resend(d)
  PROVE  MigratedOK(d)'
<1>1. /\ rows'[d] = [i \in Kept(d) |-> rows[d][i]] /\ link'[d] = [i \in Kept(d) |-> link[d][i]]
      /\ step'[d] = "checking" /\ UNCHANGED <<store, stale>> /\ MigratedOK(d)
  BY DEF Resend, copyVars, IInv, SessionTables, Migrated
<1>2. Kept(d) \subseteq DOMAIN rows[d] /\ Sent(d)' = Sent(d) \cap Kept(d)
  BY <1>1 DEF Kept, Sent
<1>3. DOMAIN rows'[d] = Kept(d) /\ \A i \in Kept(d) : rows'[d][i] = rows[d][i]
  BY <1>1
<1>4. DOMAIN rows'[d] # {} => \E q \in CopyRequests : \A i \in DOMAIN rows'[d] : IsRowOf(q, rows'[d][i])
  BY <1>1, <1>2, <1>3 DEF MigratedOK
<1>5. \A i \in Sent(d)' : store'[rows'[d][i].dest] # Absent \/ rows'[d][i].dest \in stale'[d]
  BY <1>1, <1>2, <1>3 DEF MigratedOK
<1> QED BY <1>1, <1>4, <1>5 DEF MigratedOK

LEMMA MigratedStays ==
  ASSUME IInv, Migrated, [Next]_vars
  PROVE  Migrated'
<1>t. SessionTables
  BY DEF IInv
<1>1. CASE UNCHANGED vars
  BY <1>1 DEF vars, Migrated, MigratedOK, Sent, Sources
<1>2. ASSUME Next, UNCHANGED <<rows, link, step, batches>> PROVE Migrated'
  BY <1>2, MigratedSteady DEF Migrated
<1>3. ASSUME NEW d \in Sessions, SessionRequest(d) \/ SessionStep(d), NEW x \in Sessions
      PROVE  MigratedOK(x)'
  <2>1. CASE x # d
    <3>1. rows'[x] = rows[x] /\ link'[x] = link[x] /\ step'[x] = step[x] /\ batches'[x] = batches[x]
      BY <1>3, <1>t, <2>1 DEF SessionTables, SessionRequest, SessionStep, ReadCopyReport, ReadExcluded,
         Read, Confirm, Resend, CheckLink, DeleteBatch, Proceed
    <3> QED BY <1>3, <3>1, MigratedSteady DEF Next
  <2>2. CASE x = d /\ \E b \in batches[d] : DeleteBatch(d, b)
    <3>1. rows'[d] = rows[d] /\ link'[d] = link[d] /\ step'[d] = step[d] /\ batches'[d] \subseteq batches[d]
      BY <1>t, <2>2 DEF SessionTables, DeleteBatch
    <3> QED BY <1>3, <2>2, <3>1, MigratedSteady DEF Next
  <2>3. CASE x = d /\ Proceed(d)
    <3>1. rows'[d] = rows[d] /\ link'[d] = link[d] /\ step'[d] # "deleting"
      <4>1. UNCHANGED <<rows, link>> /\ step \in [Sessions -> Steps]
        BY <1>t, <2>3 DEF SessionTables, Proceed
      <4>2. PICK st \in {"auditing", "reporting", "done", "failed"} : step' = [step EXCEPT ![d] = st]
        BY <2>3, ProceedGoesOn
      <4> QED BY <4>1, <4>2
    <3> QED BY <1>3, <2>3, <3>1, MigratedSteady DEF Next
  <2> QED BY <1>3, <2>1, <2>2, <2>3, ReportMigrated, ExcludedMigrated, CheckMigrated, ConfirmMigrated,
          ResendMigrated DEF SessionRequest, SessionStep
<1>4. CASE Stop
  <2>1. ASSUME NEW d \in Sessions
        PROVE  rows'[d] = rows[d] /\ link'[d] = link[d] /\ step'[d] # "deleting"
    BY <1>4, <1>t DEF Stop, SessionTables
  <2> QED BY <1>4, <2>1, MigratedSteady DEF Next, Migrated
<1>5. ASSUME NEW d \in Sessions, SessionRequest(d) \/ SessionStep(d) PROVE Migrated'
  BY <1>3, <1>5 DEF Migrated
<1> QED BY <1>1, <1>2, <1>4, <1>5 DEF Next, migrationVars

\* A session's outcome changes, while it deletes, with one of its batches.
LEMMA RemovalIsBatch ==
  ASSUME IInv, Next, NEW d \in Sessions, step[d] = "deleting", outcome'[d] # outcome[d]
  PROVE  \E b \in batches[d] : DeleteBatch(d, b)
<1>t. SessionTables
  BY DEF IInv
<1>1. outcome' # outcome
  OBVIOUS
<1>2. ~Stop
  BY <1>1 DEF Stop
<1>3. PICK e \in Sessions : SessionRequest(e) \/ SessionStep(e)
  BY <1>1, <1>2 DEF Next, migrationVars
<1>4. Confirm(e) \/ Resend(e) \/ \E b \in batches[e] : DeleteBatch(e, b)
  BY <1>1, <1>3 DEF SessionRequest, SessionStep, ReadCopyReport, ReadExcluded, Read, CheckLink, Proceed
<1>5. e = d
  BY <1>4, <1>t DEF SessionTables, Confirm, Resend, DeleteBatch
<1> QED BY <1>4, <1>5 DEF Confirm, Resend

\* A migrated source goes only while its destination holds an object, or after
\* a tenant or another session has emptied it since the link answered, for any
\* number of copies and sessions (/delete-migrated/stream, delete_objects).
THEOREM OnlyMigratedDeleted == Spec => DeletesOnlyMigrated
<1>1. Init => Migrated
  BY DEF Init, MigrationInit, Migrated, MigratedOK, Sent
<1>2. IInv /\ Migrated /\ [Next]_vars => Migrated'
  BY MigratedStays
<1>3. IInv /\ Migrated /\ [Next]_vars =>
        [\A d \in Sessions : \A i \in DOMAIN rows[d] :
           Removes(d, i) => store'[rows[d][i].dest] # Absent \/ rows[d][i].dest \in stale[d]]_vars
  <2> SUFFICES ASSUME IInv, Migrated, Next, NEW d \in Sessions, NEW i \in DOMAIN rows[d], Removes(d, i)
               PROVE  store'[rows[d][i].dest] # Absent \/ rows[d][i].dest \in stale[d]
    OBVIOUS
  <2>1. PICK b \in batches[d] : DeleteBatch(d, b)
    BY RemovalIsBatch DEF Removes
  <2>2. PICK q \in CopyRequests : \A k \in DOMAIN rows[d] : IsRowOf(q, rows[d][k])
    BY DEF Migrated, MigratedOK
  <2>3. PICK n \in Rows(q) : rows[d][i].source = Source(q, n) /\ rows[d][i].dest = Dest(q, n)
    BY <2>2 DEF IsRowOf
  <2>4. rows[d][i].source \in Sources(d)
    <3>1. Source(q, n) \in Places
      BY RowPlaces DEF CopyRequests
    <3> QED BY <2>1, <2>3, <3>1, BatchRemoves DEF Removes
  <2>5. PICK k \in Sent(d) : rows[d][k].source = rows[d][i].source
    BY <2>4 DEF Sources
  <2>6. PICK m \in Rows(q) : rows[d][k].source = Source(q, m) /\ rows[d][k].dest = Dest(q, m)
    BY <2>2, <2>5 DEF IsRowOf, Sent
  <2>7. rows[d][k].dest = rows[d][i].dest
    BY <2>3, <2>5, <2>6 DEF Source, Dest
  <2>8. store[rows[d][i].dest] # Absent \/ rows[d][i].dest \in stale[d]
    BY <2>5, <2>7 DEF Migrated, MigratedOK
  <2>9. store'[rows[d][i].dest] = store[rows[d][i].dest]
    BY <2>1, BatchRemoves, RowsApart
  <2> QED BY <2>8, <2>9
<1> QED BY <1>1, <1>2, <1>3, InvariantHolds, PTL DEF Spec, DeletesOnlyMigrated
=============================================================================
