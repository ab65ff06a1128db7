-------------------------- MODULE ArchiveRunProofs --------------------------
(***************************************************************************)
(* What holds of the archive runs for all constants: any number of runs,   *)
(* reports of any length, any paths, providers and tenants.                *)
(***************************************************************************)
EXTENDS ArchiveRun, SequenceTheorems, TLAPS

-----------------------------------------------------------------------------
(* Paths.                                                                  *)

\* _archive_dest_key keeps the whole source path: two objects never share an
\* archive path.
LEMMA ArchivePathInjective ==
  ASSUME NEW o \in Objects, NEW q \in Objects, ArchivePath(o) = ArchivePath(q)
  PROVE  o = q
<1>1. <<ArchiveBucket>> \in Seq(Segments) /\ o \in Seq(Segments) /\ q \in Seq(Segments)
  BY PathsAssumption
<1> QED BY <1>1, ConcatSimplifications DEF ArchivePath

\* An archive path lies in the archive bucket, and is a location of the store.
LEMMA ArchivePathBucket ==
  ASSUME NEW o \in Objects
  PROVE  Head(ArchivePath(o)) = ArchiveBucket /\ ArchivePath(o) \in Locations
<1>1. <<ArchiveBucket>> \in Seq(Segments) /\ o \in Seq(Segments)
  BY PathsAssumption
<1>2. Len(<<ArchiveBucket>>) = 1 /\ Len(o) \in Nat
  BY <1>1, LenProperties
<1>3. ArchivePath(o) \in Seq(Segments) /\ ArchivePath(o)[1] = ArchiveBucket
  BY <1>1, <1>2, ConcatProperties DEF ArchivePath
<1>4. Head(ArchivePath(o)) = ArchivePath(o)[1]
  BY <1>3
<1> QED BY <1>3, <1>4 DEF Locations

\* A source outside the archive bucket is no archive copy.
LEMMA TenantPathApart ==
  ASSUME NEW o \in TenantObjects, NEW q \in Objects
  PROVE  o # ArchivePath(q)
BY ArchivePathBucket DEF TenantObjects

LEMMA KeysOfReport ==
  ASSUME NEW s \in Seq(Objects)
  PROVE  Keys(s) \subseteq Objects /\ \A i \in 1..Len(s) : s[i] \in Keys(s) /\ s[i] \in Objects
BY ElementOfSeq DEF Keys

-----------------------------------------------------------------------------
(* The inductive invariant.                                                *)

\* A run works on its items only in the phase that is for it, and the archive
\* bucket is excluded before the first of them.
PhaseOfWork ==
  \A r \in Runs :
    /\ phase[r] \in {"preparing", "copying"} => \A i \in Items(r) : stage[r][i] \notin Verifying
    /\ phase[r] \in {"copying", "verifying"} => SourcesAllowed(items[r])

\* A worker past its first read of the source remembers a version of it.
SourceRead ==
  \A r \in Runs : \A i \in Items(r) :
    stage[r][i] \in {"fetched"} \cup Verifying => seen[r][i] \in Versions

\* The provider of a run that works is known.
ProviderKnown ==
  \A r \in Runs : phase[r] \in Holding => provider[r] \in Providers

IInv == TypeOK /\ LockExact /\ PhaseOfWork /\ SourceRead /\ ProviderKnown /\ ComparedCopyStays

LEMMA InitIInv == Init => IInv
<1> SUFFICES ASSUME Init PROVE IInv
  OBVIOUS
<1>1. TypeOK
  <2>1. store \in [Providers -> [Locations -> Versions \cup {Absent}]]
    <3>1. [content : Contents, modified : {0}] \cup {Absent} \subseteq Versions \cup {Absent}
      BY NumbersAssumption DEF Versions
    <3> QED BY <3>1 DEF Init
  <2> QED BY <2>1, EmptySeq, NumbersAssumption DEF Init, TypeOK, Phases, Stages
<1>2. \A r \in Runs : phase[r] = "idle" /\ Items(r) = {}
  BY EmptySeq DEF Init, Items
<1>3. LockExact
  BY <1>2 DEF Init, LockExact, Holding
<1> QED BY <1>1, <1>2, <1>3
  DEF IInv, PhaseOfWork, SourceRead, ProviderKnown, ComparedCopyStays, Holding

-----------------------------------------------------------------------------
(* The steps of the items.                                                 *)

\* Advance changes one item of one run, and its two records in step.
LEMMA AdvanceShape ==
  ASSUME TypeOK, NEW r \in Runs, NEW i \in Items(r), NEW st \in Stages,
         NEW v \in Versions \cup {Absent}, Advance(r, i, st, v)
  PROVE  /\ stage' \in [Runs -> Seq(Stages)]
         /\ seen' \in [Runs -> Seq(Versions \cup {Absent})]
         /\ \A q \in Runs : Len(stage'[q]) = Len(stage[q]) /\ Len(seen'[q]) = Len(seen[q])
         /\ \A q \in Runs : \A j \in Items(q) :
              /\ stage'[q][j] = IF q = r /\ j = i THEN st ELSE stage[q][j]
              /\ seen'[q][j] = IF q = r /\ j = i THEN v ELSE seen[q][j]
<1>1. /\ stage[r] \in Seq(Stages) /\ seen[r] \in Seq(Versions \cup {Absent})
      /\ i \in 1..Len(stage[r]) /\ i \in 1..Len(seen[r])
  BY DEF TypeOK, Items
<1>2. /\ stage' = [stage EXCEPT ![r] = [stage[r] EXCEPT ![i] = st]]
      /\ seen' = [seen EXCEPT ![r] = [seen[r] EXCEPT ![i] = v]]
  BY DEF Advance, TypeOK
<1>3. /\ [stage[r] EXCEPT ![i] = st] \in Seq(Stages)
      /\ Len([stage[r] EXCEPT ![i] = st]) = Len(stage[r])
      /\ \A j \in 1..Len(stage[r]) :
           [stage[r] EXCEPT ![i] = st][j] = IF j = i THEN st ELSE stage[r][j]
  BY <1>1, ExceptSeq
<1>4. /\ [seen[r] EXCEPT ![i] = v] \in Seq(Versions \cup {Absent})
      /\ Len([seen[r] EXCEPT ![i] = v]) = Len(seen[r])
      /\ \A j \in 1..Len(seen[r]) :
           [seen[r] EXCEPT ![i] = v][j] = IF j = i THEN v ELSE seen[r][j]
  BY <1>1, ExceptSeq
<1> QED BY <1>1, <1>2, <1>3, <1>4 DEF TypeOK, Items

\* What a step of an item does to the run's records: the phases it happens in,
\* what it has read when it claims to have read something, and that it has seen
\* the destination free, or compared the archive copy, when it claims so.
ItemStep(r, i, st, v) ==
  /\ Advance(r, i, st, v)
  /\ st \in Stages /\ v \in Versions \cup {Absent}
  /\ phase[r] \in {"copying", "verifying"}
  /\ st \in Verifying => phase[r] = "verifying"
  /\ st \in {"fetched"} \cup Verifying => v \in Versions
  /\ st \in {"matched", "verified"} => CopyOf(Archive(r, i), v) /\ UNCHANGED store
  /\ st = "missing" => Archive(r, i) = Absent /\ UNCHANGED store
  /\ st = "fetched" => stage[r][i] = "missing" /\ UNCHANGED store

\* What it does to the store: nothing, an upload to the archive in the copy
\* phase, or the removal of a source in the verification phase.
StoreStep(r, i) ==
  \/ UNCHANGED store
  \/ /\ phase[r] = "copying" /\ stage[r][i] = "fetched" /\ seen[r][i] \in Versions
     /\ store' = [store EXCEPT ![ArchiveProvider][ArchivePath(items[r][i])] = Uploaded(seen[r][i])]
  \/ /\ phase[r] = "verifying"
     /\ store' = [store EXCEPT ![provider[r]][items[r][i]] = Absent]

LEMMA StepsOfItems ==
  ASSUME IInv, NEW r \in Runs, CopyStep(r) \/ VerifyStep(r)
  PROVE  \E i \in Items(r) : StoreStep(r, i) /\ \E st, v : ItemStep(r, i, st, v)
<1> USE DEF ItemStep, StoreStep, Stages, Unfinished, Verifying, Outcomes
<1>1. ASSUME NEW i \in Items(r)
      PROVE  /\ provider[r] \in Providers \/ phase[r] \notin Holding
             /\ items[r][i] \in Objects
             /\ phase[r] \in Holding => Source(r, i) \in Versions \cup {Absent}
             /\ Archive(r, i) \in Versions \cup {Absent}
             /\ seen[r][i] \in Versions \cup {Absent}
  <2>1. items[r] \in Seq(Objects) /\ i \in 1..Len(items[r]) /\ i \in 1..Len(seen[r])
    BY DEF IInv, TypeOK, Items
  <2>2. items[r][i] \in Objects /\ seen[r][i] \in Versions \cup {Absent}
    BY <2>1, ElementOfSeq DEF IInv, TypeOK
  <2>3. ArchivePath(items[r][i]) \in Locations /\ items[r][i] \in Locations
    BY <2>2, ArchivePathBucket DEF Locations
  <2> QED BY <2>2, <2>3, ProvidersAssumption DEF IInv, TypeOK, ProviderKnown, Source, Archive
<1>2. ASSUME NEW i \in Items(r), HeadDestination(r, i)
      PROVE  StoreStep(r, i) /\ \E st, v : ItemStep(r, i, st, v)
  <2>1. \E st \in {"missing", "copied"} : ItemStep(r, i, st, Absent)
    BY <1>2 DEF HeadDestination, Copying, NeedsUpload
  <2> QED BY <1>2, <2>1 DEF HeadDestination
<1>3. ASSUME NEW i \in Items(r), FetchSource(r, i)
      PROVE  StoreStep(r, i) /\ \E st, v : ItemStep(r, i, st, v)
  <2>1. ItemStep(r, i, "fetched", Source(r, i))
    BY <1>1, <1>3 DEF FetchSource, Copying, Holding
  <2> QED BY <1>3, <2>1 DEF FetchSource
<1>4. ASSUME NEW i \in Items(r), Upload(r, i)
      PROVE  StoreStep(r, i) /\ \E st, v : ItemStep(r, i, st, v)
  <2>1. \E st \in {"copied", "copyFailed"} : ItemStep(r, i, st, Absent)
    BY <1>4 DEF Upload, Copying
  <2>2. phase[r] = "copying" /\ stage[r][i] = "fetched" /\ seen[r][i] \in Versions
    BY <1>4 DEF Upload, Copying, IInv, SourceRead
  <2> QED BY <1>4, <2>1, <2>2 DEF Upload
<1>5. ASSUME NEW i \in Items(r), CopyFails(r, i)
      PROVE  StoreStep(r, i) /\ \E st, v : ItemStep(r, i, st, v)
  <2>1. ItemStep(r, i, "copyFailed", Absent)
    BY <1>5 DEF CopyFails, Copying
  <2> QED BY <1>5, <2>1 DEF CopyFails
<1>6. ASSUME NEW i \in Items(r), HeadSource(r, i)
      PROVE  StoreStep(r, i) /\ \E st, v : ItemStep(r, i, st, v)
  <2>1. ItemStep(r, i, "headed", Source(r, i))
    BY <1>1, <1>6 DEF HeadSource, VerifyingAt, Holding
  <2> QED BY <1>6, <2>1 DEF HeadSource
<1>7. ASSUME NEW i \in Items(r), HeadArchive(r, i) \/ HashSource(r, i)
      PROVE  StoreStep(r, i) /\ \E st, v : ItemStep(r, i, st, v)
  <2>1. phase[r] = "verifying" /\ seen[r][i] \in Versions
    BY <1>7 DEF HeadArchive, HashSource, VerifyingAt, IInv, SourceRead
  <2>2. \E st \in {"sized", "hashed"} : ItemStep(r, i, st, seen[r][i])
    BY <1>7, <2>1 DEF HeadArchive, HashSource
  <2> QED BY <1>7, <2>2 DEF HeadArchive, HashSource
<1>8. ASSUME NEW i \in Items(r), CompareArchive(r, i)
      PROVE  StoreStep(r, i) /\ \E st, v : ItemStep(r, i, st, v)
  <2>1. phase[r] = "verifying" /\ seen[r][i] \in Versions
    BY <1>8 DEF CompareArchive, VerifyingAt, IInv, SourceRead
  <2>2. CopyOf(Archive(r, i), seen[r][i])
    BY <1>1, <1>8 DEF CompareArchive, SameDigest, CopyOf
  <2>3. ItemStep(r, i, "matched", seen[r][i])
    BY <1>8, <2>1, <2>2 DEF CompareArchive
  <2> QED BY <1>8, <2>3 DEF CompareArchive
<1>9. ASSUME NEW i \in Items(r), RecheckSource(r, i)
      PROVE  StoreStep(r, i) /\ \E st, v : ItemStep(r, i, st, v)
  <2>1. phase[r] = "verifying" /\ stage[r][i] = "matched" /\ seen[r][i] \in Versions
    BY <1>9 DEF RecheckSource, VerifyingAt, IInv, SourceRead
  <2>2. CopyOf(Archive(r, i), seen[r][i])
    BY <2>1 DEF IInv, ComparedCopyStays
  <2>3. ItemStep(r, i, "verified", seen[r][i])
    BY <1>9, <2>1, <2>2 DEF RecheckSource
  <2> QED BY <1>9, <2>3 DEF RecheckSource
<1>10. ASSUME NEW i \in Items(r), VerifyFails(r, i)
      PROVE  StoreStep(r, i) /\ \E st, v : ItemStep(r, i, st, v)
  <2>1. ItemStep(r, i, "retained", Absent)
    BY <1>10 DEF VerifyFails, VerifyingAt
  <2> QED BY <1>10, <2>1 DEF VerifyFails
<1>11. ASSUME NEW i \in Items(r), DeleteSource(r, i) \/ DeleteFails(r, i)
      PROVE  StoreStep(r, i) /\ \E st, v : ItemStep(r, i, st, v)
  <2>1. \E st \in {"deleted", "deleteFailed"} : ItemStep(r, i, st, Absent)
    BY <1>11 DEF DeleteSource, DeleteFails, VerifyingAt
  <2> QED BY <1>11, <2>1 DEF DeleteSource, DeleteFails, VerifyingAt
<1> QED BY <1>2, <1>3, <1>4, <1>5, <1>6, <1>7, <1>8, <1>9, <1>10, <1>11 DEF CopyStep, VerifyStep

-----------------------------------------------------------------------------
(* What no step does to an archive copy that has been compared.            *)

\* The actions other than those of the items and the tenants leave the store.
LEMMA StoreUnchanged ==
  ASSUME Next,
         ~ \E r \in Runs : CopyStep(r) \/ VerifyStep(r),
         ~ Tenants
  PROVE  UNCHANGED store
BY DEF Next, Request, RunStep, Begin, Reject, Abort, Release, Prepare, StartVerification,
       Finish, WriteAudit, WriteReport, Crash

LEMMA ComparedCopyUnmoved ==
  ASSUME IInv, Next, NEW r \in Runs, NEW i \in Items(r),
         phase[r] = "verifying"
  PROVE  store'[ArchiveProvider][ArchivePath(items[r][i])]
           = store[ArchiveProvider][ArchivePath(items[r][i])]
<1> DEFINE o == items[r][i]
<1>1. items[r] \in Seq(Objects) /\ o \in Objects /\ o \in Keys(items[r])
  BY KeysOfReport DEF IInv, TypeOK, Items
<1>2. store \in [Providers -> [Locations -> Versions \cup {Absent}]]
  BY DEF IInv, TypeOK
<1>3. ASSUME NEW q \in Runs, CopyStep(q) \/ VerifyStep(q)
      PROVE  store'[ArchiveProvider][ArchivePath(o)] = store[ArchiveProvider][ArchivePath(o)]
  <2>1. PICK j \in Items(q) : StoreStep(q, j)
    BY <1>3, StepsOfItems
  <2>2. items[q] \in Seq(Objects) /\ items[q][j] \in Objects /\ items[q][j] \in Keys(items[q])
    BY KeysOfReport DEF IInv, TypeOK, Items
  <2>3. CASE phase[q] = "copying" /\ store' = [store EXCEPT
               ![ArchiveProvider][ArchivePath(items[q][j])] = Uploaded(seen[q][j])]
    <3>1. Keys(items[q]) \cap Keys(items[r]) = {}
      BY <2>3 DEF IInv, LockExact, Holding
    <3>2. ArchivePath(items[q][j]) # ArchivePath(o)
      BY <1>1, <2>2, <3>1, ArchivePathInjective
    <3> QED BY <1>2, <2>3, <3>2
  <2>4. CASE phase[q] = "verifying" /\ store' = [store EXCEPT ![provider[q]][items[q][j]] = Absent]
    <3>1. items[q][j] \in TenantObjects
      BY <2>2, <2>4 DEF IInv, PhaseOfWork, SourcesAllowed, TenantObjects
    <3>2. items[q][j] # ArchivePath(o)
      BY <1>1, <3>1, TenantPathApart
    <3> QED BY <1>2, <2>4, <3>2
  <2> QED BY <2>1, <2>3, <2>4 DEF StoreStep
<1>4. ASSUME Tenants
      PROVE  store'[ArchiveProvider][ArchivePath(o)] = store[ArchiveProvider][ArchivePath(o)]
  <2>1. PICK p \in Providers, t \in TenantObjects : TenantWrite(p, t) \/ TenantRemove(p, t)
    BY <1>4 DEF Tenants
  <2>2. t # ArchivePath(o)
    BY <1>1, TenantPathApart
  <2>3. \E v : store' = [store EXCEPT ![p][t] = v]
    BY <2>1 DEF TenantWrite, TenantRemove
  <2>4. PICK v : store' = [store EXCEPT ![p][t] = v]
    BY <2>3
  <2> QED BY <1>2, <2>2, <2>4
<1>5. ASSUME UNCHANGED store
      PROVE  store'[ArchiveProvider][ArchivePath(o)] = store[ArchiveProvider][ArchivePath(o)]
  BY <1>5
<1>6. (\E q \in Runs : CopyStep(q) \/ VerifyStep(q)) \/ Tenants \/ UNCHANGED store
  BY StoreUnchanged
<1> QED BY <1>3, <1>4, <1>5, <1>6

-----------------------------------------------------------------------------
(* Every action preserves the inductive invariant.                         *)

\* The part of the invariant that speaks of the compared copies follows for
\* every step that leaves the records of the compared items as they were.
LEMMA ComparedCopyKept ==
  ASSUME IInv, Next, NEW r \in Runs, NEW i \in Items(r),
         phase[r] = "verifying", stage[r][i] \in {"matched", "verified"},
         items'[r] = items[r], seen'[r][i] = seen[r][i]
  PROVE  CopyOf(Archive(r, i)', seen'[r][i])
<1>1. CopyOf(Archive(r, i), seen[r][i])
  BY DEF IInv, ComparedCopyStays
<1> QED BY <1>1, ComparedCopyUnmoved DEF Archive, CopyOf

\* The lock, key by key.
LockedBy(k, r) == phase[r] \in Holding /\ k \in Keys(items[r])

LEMMA LockByKey ==
  active = UNION {Keys(items[r]) : r \in {q \in Runs : phase[q] \in Holding}}
    <=> \A k : k \in active <=> \E r \in Runs : LockedBy(k, r)
BY DEF LockedBy

\* A step that moves run r alone, to a phase where it works on no item, and
\* leaves the store and the records of the items.
LEMMA PhaseStepKeeps ==
  ASSUME IInv, NEW r \in Runs, NEW ph \in Phases \ {"preparing", "copying", "verifying"},
         phase' = [phase EXCEPT ![r] = ph],
         UNCHANGED <<store, writes, reports, stage, seen>>,
         audited' \subseteq Runs,
         active' = IF phase[r] \in Holding THEN active \ Keys(items[r]) ELSE active
  PROVE  IInv'
<1> USE DEF reports
<1>1. TypeOK'
  BY DEF IInv, TypeOK
<1>2. LockExact'
  <2>1. \A q \in Runs : phase'[q] \in Holding <=> q # r /\ phase[q] \in Holding
    BY DEF IInv, TypeOK, Holding
  <2>2. \A k : k \in active <=> \E q \in Runs : LockedBy(k, q)
    BY LockByKey DEF IInv, LockExact
  <2>3. \A k, q : q \in Runs => (LockedBy(k, q)' <=> q # r /\ LockedBy(k, q))
    BY <2>1 DEF LockedBy
  <2>4. \A k : k \in active' <=> \E q \in Runs : LockedBy(k, q)'
    <3>1. CASE phase[r] \in Holding
      <4>1. \A k, q : q \in Runs /\ q # r /\ LockedBy(k, q) => k \notin Keys(items[r])
        BY <3>1 DEF IInv, LockExact, LockedBy
      <4> QED BY <2>2, <2>3, <3>1, <4>1 DEF LockedBy
    <3>2. CASE phase[r] \notin Holding
      BY <2>2, <2>3, <3>2 DEF LockedBy
    <3> QED BY <3>1, <3>2
  <2>5. (active = UNION {Keys(items[q]) : q \in {p \in Runs : phase[p] \in Holding}})'
    BY <2>4 DEF LockedBy
  <2> QED BY <2>1, <2>5 DEF IInv, LockExact
<1>3. \A q \in Runs : phase'[q] \in {"preparing", "copying", "verifying"} => phase'[q] = phase[q]
  BY DEF IInv, TypeOK
<1>4. \A q \in Runs : Items(q)' = Items(q)
  BY DEF Items
<1> QED BY <1>1, <1>2, <1>3, <1>4
  DEF IInv, PhaseOfWork, SourceRead, ProviderKnown, ComparedCopyStays, Holding, Archive

LEMMA ItemsKeep ==
  ASSUME IInv, Next, NEW r \in Runs, CopyStep(r) \/ VerifyStep(r)
  PROVE  IInv'
<1>0. PICK i \in Items(r) : \E st, v : StoreStep(r, i) /\ ItemStep(r, i, st, v)
  BY StepsOfItems
<1>1. PICK st, v : StoreStep(r, i) /\ ItemStep(r, i, st, v)
  BY <1>0
<1>2. /\ stage' \in [Runs -> Seq(Stages)]
      /\ seen' \in [Runs -> Seq(Versions \cup {Absent})]
      /\ \A q \in Runs : Len(stage'[q]) = Len(stage[q]) /\ Len(seen'[q]) = Len(seen[q])
      /\ \A q \in Runs : \A j \in Items(q) :
           /\ stage'[q][j] = IF q = r /\ j = i THEN st ELSE stage[q][j]
           /\ seen'[q][j] = IF q = r /\ j = i THEN v ELSE seen[q][j]
  BY <1>1, AdvanceShape DEF IInv, ItemStep
<1>3. UNCHANGED <<writes, active, phase, provider, items, audited>>
  BY <1>1 DEF ItemStep, Advance, reports
<1>4. \A q \in Runs : Items(q)' = Items(q)
  BY <1>3 DEF Items
<1>5. TypeOK'
  <2>1. store' \in [Providers -> [Locations -> Versions \cup {Absent}]]
    <3>1. store \in [Providers -> [Locations -> Versions \cup {Absent}]]
      BY DEF IInv, TypeOK
    <3>2. \A u \in Versions : Uploaded(u) \in Versions
      BY NumbersAssumption DEF Uploaded, Versions
    <3> QED BY <1>1, <3>1, <3>2 DEF StoreStep
  <2> QED BY <1>2, <1>3, <2>1 DEF IInv, TypeOK
<1>6. LockExact'
  BY <1>3 DEF IInv, LockExact
<1>7. PhaseOfWork'
  <2>1. st \in Verifying => phase[r] = "verifying"
    BY <1>1 DEF ItemStep
  <2>2. ASSUME NEW q \in Runs, phase'[q] \in {"preparing", "copying"}, NEW j \in Items(q)
        PROVE  stage'[q][j] \notin Verifying
    <3>1. phase[q] \in {"preparing", "copying"} /\ stage[q][j] \notin Verifying
      BY <1>3, <2>2 DEF IInv, PhaseOfWork
    <3> QED BY <1>2, <2>1, <3>1
  <2>3. ASSUME NEW q \in Runs, phase'[q] \in {"copying", "verifying"}
        PROVE  SourcesAllowed(items'[q])
    <3>1. SourcesAllowed(items[q])
      BY <1>3, <2>3 DEF IInv, PhaseOfWork
    <3> QED BY <1>3, <3>1
  <2> QED BY <1>4, <2>2, <2>3 DEF PhaseOfWork
<1>8. SourceRead'
  <2> SUFFICES ASSUME NEW q \in Runs, NEW j \in Items(q), stage'[q][j] \in {"fetched"} \cup Verifying
               PROVE  seen'[q][j] \in Versions
    BY <1>3, <1>4 DEF SourceRead, Verifying
  <2>1. CASE q = r /\ j = i
    BY <1>1, <1>2, <2>1 DEF ItemStep
  <2>2. CASE ~(q = r /\ j = i)
    BY <1>2, <2>2 DEF IInv, SourceRead
  <2> QED BY <2>1, <2>2
<1>9. ProviderKnown'
  BY <1>3 DEF IInv, ProviderKnown
<1>10. ComparedCopyStays'
  <2> SUFFICES ASSUME NEW q \in Runs, NEW j \in Items(q),
                      phase[q] = "verifying", stage'[q][j] \in {"matched", "verified"}
               PROVE  CopyOf(Archive(q, j)', seen'[q][j])
    BY <1>3, <1>4 DEF ComparedCopyStays
  <2>1. CASE q = r /\ j = i
    <3>1. CopyOf(Archive(q, j), seen'[q][j]) /\ UNCHANGED store
      BY <1>1, <1>2, <2>1 DEF ItemStep
    <3> QED BY <1>3, <3>1 DEF Archive
  <2>2. CASE ~(q = r /\ j = i)
    <3>1. stage[q][j] \in {"matched", "verified"} /\ seen'[q][j] = seen[q][j]
      BY <1>2, <2>2
    <3> QED BY <1>3, <3>1, ComparedCopyKept
  <2> QED BY <2>1, <2>2
<1> QED BY <1>5, <1>6, <1>7, <1>8, <1>9, <1>10 DEF IInv

LEMMA BeginKeeps ==
  ASSUME IInv, Next, NEW r \in Runs, NEW p \in Providers, NEW s \in Requests, Begin(r, p, s)
  PROVE  IInv'
<1>1. s \in Seq(Objects) /\ Keys(s) \subseteq Objects /\ Len(s) \in Nat
  BY RequestsAssumption, KeysOfReport
<1>2. Queued(s) \in Seq(Stages) /\ Len(Queued(s)) = Len(s) /\ \A i \in 1..Len(s) : Queued(s)[i] = "queued"
  BY <1>1 DEF Queued, Stages, Unfinished
<1> DEFINE blank == [i \in 1..Len(s) |-> Absent]
<1>3. blank \in Seq(Versions \cup {Absent}) /\ Len(blank) = Len(s)
  BY <1>1
<1>4. phase[r] = "idle" /\ phase' = [phase EXCEPT ![r] = "preparing"]
  BY DEF Begin
<1>5. /\ provider' = [provider EXCEPT ![r] = p] /\ items' = [items EXCEPT ![r] = s]
      /\ stage' = [stage EXCEPT ![r] = Queued(s)] /\ seen' = [seen EXCEPT ![r] = blank]
      /\ active' = active \cup Keys(s) /\ UNCHANGED <<store, writes, audited>>
  BY DEF Begin
<1>6. TypeOK'
  BY <1>1, <1>2, <1>3, <1>4, <1>5 DEF IInv, TypeOK, Phases, Holding
<1>7. \A q \in Runs \ {r} : /\ phase'[q] = phase[q] /\ provider'[q] = provider[q]
                          /\ items'[q] = items[q] /\ stage'[q] = stage[q] /\ seen'[q] = seen[q]
                          /\ Items(q)' = Items(q)
  BY <1>4, <1>5 DEF IInv, TypeOK, Items
<1>8. /\ phase'[r] = "preparing" /\ provider'[r] = p /\ items'[r] = s
      /\ stage'[r] = Queued(s) /\ Items(r)' = 1..Len(s)
  BY <1>4, <1>5 DEF IInv, TypeOK, Items
<1>9. LockExact'
  <2>1. \A k : k \in active <=> \E q \in Runs : LockedBy(k, q)
    BY LockByKey DEF IInv, LockExact
  <2>2. \A k, q : q \in Runs => (LockedBy(k, q)' <=> IF q = r THEN k \in Keys(s) ELSE LockedBy(k, q))
    BY <1>7, <1>8 DEF LockedBy, Holding
  <2>3. \A q : ~ (LockedBy(q, r))
    BY <1>4 DEF LockedBy, Holding
  <2>4. \A k : k \in active' <=> \E q \in Runs : LockedBy(k, q)'
    BY <1>5, <2>1, <2>2, <2>3
  <2>5. (active = UNION {Keys(items[q]) : q \in {t \in Runs : phase[t] \in Holding}})'
    BY <2>4 DEF LockedBy
  <2>6. \A q \in Runs \ {r} : phase'[q] \in Holding => Keys(items'[q]) \cap Keys(s) = {}
    <3>1. Keys(s) \cap active = {}
      BY DEF Begin, NoOverlap
    <3> QED BY <1>7, <2>1, <3>1 DEF LockedBy
  <2>7. \A q, t \in Runs : q # t /\ phase'[q] \in Holding /\ phase'[t] \in Holding
                         => Keys(items'[q]) \cap Keys(items'[t]) = {}
    BY <1>7, <1>8, <2>6 DEF IInv, LockExact
  <2> QED BY <2>5, <2>7 DEF LockExact
<1>10. PhaseOfWork'
  <2>1. \A i \in 1..Len(s) : stage'[r][i] \notin Verifying
    BY <1>2, <1>8 DEF Verifying
  <2> QED BY <1>7, <1>8, <2>1 DEF IInv, PhaseOfWork, SourcesAllowed
<1>11. SourceRead'
  <2>1. \A i \in 1..Len(s) : stage'[r][i] \notin {"fetched"} \cup Verifying
    BY <1>2, <1>8 DEF Verifying
  <2> QED BY <1>7, <1>8, <2>1 DEF IInv, SourceRead
<1>12. ProviderKnown'
  BY <1>7, <1>8 DEF IInv, ProviderKnown
<1>13. ComparedCopyStays'
  BY <1>5, <1>7, <1>8 DEF IInv, ComparedCopyStays, Archive
<1> QED BY <1>6, <1>9, <1>10, <1>11, <1>12, <1>13 DEF IInv

LEMMA PrepareKeeps ==
  ASSUME IInv, Next, NEW r \in Runs, Prepare(r)
  PROVE  IInv'
<1> DEFINE allFailed == [i \in Items(r) |-> "copyFailed"]
<1>1. phase[r] = "preparing" /\ SourcesAllowed(items[r]) /\ phase' = [phase EXCEPT ![r] = "copying"]
  BY DEF Prepare
<1>2. UNCHANGED <<store, writes, active, provider, items, seen, audited>>
  BY DEF Prepare, reports
<1>3. stage' = stage \/ stage' = [stage EXCEPT ![r] = allFailed]
  BY DEF Prepare
<1>4. allFailed \in Seq(Stages) /\ Len(allFailed) = Len(items[r])
  <2>1. Len(items[r]) \in Nat
    BY DEF IInv, TypeOK
  <2> QED BY <2>1 DEF Items, Stages, Outcomes
<1>5. \A q \in Runs : Items(q)' = Items(q) /\ (q # r => phase'[q] = phase[q])
  BY <1>1, <1>2 DEF Items, IInv, TypeOK
<1>6. phase'[r] = "copying"
  BY <1>1 DEF IInv, TypeOK
<1>7. \A q \in Runs : \A i \in Items(q) :
        stage'[q][i] = stage[q][i] \/ (q = r /\ stage'[q][i] = "copyFailed")
  BY <1>3 DEF IInv, TypeOK
<1>8. TypeOK'
  BY <1>1, <1>2, <1>3, <1>4 DEF IInv, TypeOK, Phases, Holding
<1>9. \A q \in Runs : phase'[q] \in Holding <=> phase[q] \in Holding
  BY <1>1, <1>5, <1>6 DEF Holding
<1>10. LockExact'
  BY <1>2, <1>9 DEF IInv, LockExact
<1>11. PhaseOfWork'
  BY <1>1, <1>2, <1>5, <1>6, <1>7 DEF IInv, PhaseOfWork, SourcesAllowed, Verifying
<1>12. SourceRead'
  BY <1>2, <1>5, <1>7 DEF IInv, SourceRead, Verifying
<1>13. ProviderKnown'
  BY <1>2, <1>9 DEF IInv, ProviderKnown
<1>14. ComparedCopyStays'
  BY <1>2, <1>5, <1>6, <1>7 DEF IInv, ComparedCopyStays, Archive
<1> QED BY <1>8, <1>10, <1>11, <1>12, <1>13, <1>14 DEF IInv

LEMMA StartVerificationKeeps ==
  ASSUME IInv, Next, NEW r \in Runs, StartVerification(r)
  PROVE  IInv'
<1>1. phase[r] = "copying" /\ phase' = [phase EXCEPT ![r] = "verifying"]
  BY DEF StartVerification
<1>2. UNCHANGED <<store, writes, active, provider, items, stage, seen, audited>>
  BY DEF StartVerification, reports
<1>3. \A q \in Runs : Items(q)' = Items(q) /\ (q # r => phase'[q] = phase[q])
  BY <1>1, <1>2 DEF Items, IInv, TypeOK
<1>4. phase'[r] = "verifying"
  BY <1>1 DEF IInv, TypeOK
<1>5. TypeOK'
  BY <1>1, <1>2 DEF IInv, TypeOK, Phases, Holding
<1>6. \A q \in Runs : phase'[q] \in Holding <=> phase[q] \in Holding
  BY <1>1, <1>3, <1>4 DEF Holding
<1>7. LockExact'
  BY <1>2, <1>6 DEF IInv, LockExact
<1>8. PhaseOfWork'
  BY <1>1, <1>2, <1>3, <1>4 DEF IInv, PhaseOfWork, SourcesAllowed
<1>9. SourceRead' /\ ProviderKnown'
  BY <1>2, <1>3, <1>6 DEF IInv, SourceRead, ProviderKnown
<1>10. ComparedCopyStays'
  <2>1. \A i \in Items(r) : stage[r][i] \notin {"matched", "verified"}
    BY <1>1 DEF IInv, PhaseOfWork, Verifying
  <2> QED BY <1>2, <1>3, <2>1 DEF IInv, ComparedCopyStays, Archive
<1> QED BY <1>5, <1>7, <1>8, <1>9, <1>10 DEF IInv

LEMMA TenantsKeep ==
  ASSUME IInv, Next, Tenants
  PROVE  IInv'
<1>1. PICK p \in Providers, t \in TenantObjects : TenantWrite(p, t) \/ TenantRemove(p, t)
  BY DEF Tenants
<1>2. UNCHANGED <<active, phase, provider, items, stage, seen, audited>>
  BY <1>1 DEF TenantWrite, TenantRemove, reports
<1>3. TypeOK'
  <2>1. writes' \in 0..MaxWrites
    BY <1>1, NumbersAssumption DEF TenantWrite, TenantRemove, IInv, TypeOK
  <2>2. \E v \in Versions \cup {Absent} : store' = [store EXCEPT ![p][t] = v]
    <3>1. CASE TenantWrite(p, t)
      <4>1. \A m \in writes..(writes + 1) : m \in 0..MaxWrites
        BY <3>1, NumbersAssumption DEF TenantWrite, IInv, TypeOK
      <4> QED BY <3>1, <4>1 DEF TenantWrite, Versions
    <3>2. CASE TenantRemove(p, t)
      BY <3>2 DEF TenantRemove
    <3> QED BY <1>1, <3>1, <3>2
  <2>3. store' \in [Providers -> [Locations -> Versions \cup {Absent}]]
    <3>1. PICK v \in Versions \cup {Absent} : store' = [store EXCEPT ![p][t] = v]
      BY <2>2
    <3> QED BY <3>1 DEF IInv, TypeOK
  <2> QED BY <1>2, <2>1, <2>3 DEF IInv, TypeOK
<1>4. \A q \in Runs : Items(q)' = Items(q)
  BY <1>2 DEF Items
<1>5. LockExact' /\ PhaseOfWork' /\ SourceRead' /\ ProviderKnown'
  BY <1>2, <1>4 DEF IInv, LockExact, PhaseOfWork, SourceRead, ProviderKnown, SourcesAllowed
<1>6. ComparedCopyStays'
  <2> SUFFICES ASSUME NEW q \in Runs, NEW j \in Items(q),
                      phase[q] = "verifying", stage[q][j] \in {"matched", "verified"}
               PROVE  CopyOf(Archive(q, j)', seen'[q][j])
    BY <1>2, <1>4 DEF ComparedCopyStays
  <2> QED BY <1>2, ComparedCopyKept
<1> QED BY <1>3, <1>5, <1>6 DEF IInv

LEMMA CrashKeeps ==
  ASSUME IInv, Crash
  PROVE  IInv'
<1>1. UNCHANGED <<store, writes, provider, items, stage, seen, audited>> /\ active' = {}
  BY DEF Crash, reports
<1>2. \A r \in Runs : phase'[r] \in {"idle"} \cup Ended
  BY DEF Crash, Ended
<1>3. TypeOK'
  <2>1. phase' \in [Runs -> Phases]
    BY DEF Crash, Phases, IInv, TypeOK, Ended
  <2> QED BY <1>1, <2>1 DEF IInv, TypeOK
<1>4. \A r \in Runs : phase'[r] \notin Holding
  BY <1>2 DEF Ended, Holding
<1>5. \A r \in Runs : Items(r)' = Items(r)
  BY <1>1 DEF Items
<1>6. LockExact'
  BY <1>1, <1>4 DEF LockExact
<1>7. PhaseOfWork' /\ SourceRead' /\ ProviderKnown' /\ ComparedCopyStays'
  BY <1>1, <1>4, <1>5 DEF IInv, PhaseOfWork, SourceRead, ProviderKnown, ComparedCopyStays, Holding
<1> QED BY <1>3, <1>6, <1>7 DEF IInv

\* Rejections, failures and ends of runs, the audit log and the report.
LEMMA OtherStepsKeep ==
  ASSUME IInv, NEW r \in Runs,
         \/ \E p \in Providers, s \in Requests : Reject(r, p, s)
         \/ Abort(r) \/ Finish(r) \/ WriteAudit(r) \/ WriteReport(r)
  PROVE  IInv'
<1> USE DEF Phases, Ended, Holding
<1>1. audited \subseteq Runs
  BY DEF IInv, TypeOK
<1>2. ASSUME NEW p \in Providers, NEW s \in Requests, Reject(r, p, s)
      PROVE  IInv'
  BY <1>1, <1>2, PhaseStepKeeps DEF Reject, reports
<1>3. CASE Abort(r)
  BY <1>1, <1>3, PhaseStepKeeps DEF Abort, Release
<1>4. CASE Finish(r)
  BY <1>1, <1>4, PhaseStepKeeps DEF Finish, Release
<1>5. CASE WriteAudit(r)
  BY <1>1, <1>5, PhaseStepKeeps DEF WriteAudit
<1>6. CASE WriteReport(r)
  BY <1>1, <1>6, PhaseStepKeeps DEF WriteReport
<1> QED BY <1>2, <1>3, <1>4, <1>5, <1>6

LEMMA NextIInv == IInv /\ [Next]_vars => IInv'
<1> SUFFICES ASSUME IInv, [Next]_vars PROVE IInv'
  OBVIOUS
<1>1. CASE UNCHANGED vars
  <2>1. \A r \in Runs : Items(r)' = Items(r)
    BY <1>1 DEF vars, reports, Items
  <2> QED BY <1>1, <2>1 DEF vars, reports, IInv, TypeOK, LockExact, PhaseOfWork, SourceRead,
                            ProviderKnown, ComparedCopyStays, SourcesAllowed, Archive
<1>2. CASE Next
  <2>1. ASSUME NEW r \in Runs, Request(r) PROVE IInv'
    BY <1>2, <2>1, BeginKeeps, OtherStepsKeep DEF Request
  <2>2. ASSUME NEW r \in Runs, RunStep(r) PROVE IInv'
    BY <1>2, <2>2, ItemsKeep, PrepareKeeps, StartVerificationKeeps, OtherStepsKeep DEF RunStep
  <2>3. CASE Tenants
    BY <1>2, <2>3, TenantsKeep
  <2>4. CASE Crash
    BY <2>4, CrashKeeps
  <2> QED BY <1>2, <2>1, <2>2, <2>3, <2>4 DEF Next
<1> QED BY <1>1, <1>2

-----------------------------------------------------------------------------
(* The theorems.                                                           *)

\* The report of a run that works does not change.
LEMMA ReportKept ==
  ASSUME TypeOK, Next, NEW r \in Runs, phase[r] = "verifying"
  PROVE  items'[r] = items[r]
<1>1. ASSUME NEW q \in Runs, Request(q) PROVE items'[r] = items[r]
  BY <1>1 DEF Request, Begin, Reject, TypeOK
<1>2. ASSUME NEW q \in Runs, CopyStep(q) PROVE items'[r] = items[r]
  BY <1>2 DEF CopyStep, HeadDestination, FetchSource, Upload, CopyFails, Advance, reports
<1>3. ASSUME NEW q \in Runs, VerifyStep(q) PROVE items'[r] = items[r]
  BY <1>3 DEF VerifyStep, HeadSource, HeadArchive, HashSource, CompareArchive, RecheckSource,
              VerifyFails, DeleteSource, DeleteFails, Advance, reports
<1>4. ASSUME NEW q \in Runs, RunStep(q), ~CopyStep(q), ~VerifyStep(q) PROVE items'[r] = items[r]
  BY <1>4 DEF RunStep, Abort, Release, Prepare, StartVerification, Finish, WriteAudit,
              WriteReport, reports
<1>5. ASSUME Tenants \/ Crash PROVE items'[r] = items[r]
  BY <1>5 DEF Tenants, TenantWrite, TenantRemove, Crash, reports
<1> QED BY <1>1, <1>2, <1>3, <1>4, <1>5 DEF Next

\* The inductive invariant of the archive runs holds in every reachable state;
\* the theorems below each read one conjunct of it.
THEOREM InvariantHolds == Spec => []IInv
BY InitIInv, NextIInv, PTL DEF Spec

\* Every variable of the archive runs keeps its type, for all constants.
THEOREM TypesHold == Spec => []TypeOK
<1>1. IInv => TypeOK
  BY DEF IInv
<1> QED BY <1>1, InvariantHolds, PTL

\* The lock holds exactly the keys of the active runs, no two of which share
\* one: _single_archive_run excludes, and leaks nothing, however runs end.
THEOREM LockHolds == Spec => []LockExact
<1>1. IInv => LockExact
  BY DEF IInv
<1> QED BY <1>1, InvariantHolds, PTL

\* An archive copy that was compared with its source is still the same when
\* the source is deleted, for any number of concurrent runs and providers.
THEOREM ComparedCopyHolds == Spec => []ComparedCopyStays
<1>1. IInv => ComparedCopyStays
  BY DEF IInv
<1> QED BY <1>1, InvariantHolds, PTL

\* No run deletes a source version whose bytes are not in the archive, unless
\* a tenant wrote the object after the last HEAD.
THEOREM DeletionsAreSafe == Spec => DeletesOnlyArchived
<1>1. IInv /\ [Next]_vars =>
        [\A r \in Runs : \A i \in Items(r) :
           Removes(r, i) /\ Source(r, i) = seen[r][i] => CopyOf(Archive(r, i)', Source(r, i))]_vars
  <2> SUFFICES ASSUME IInv, Next, NEW r \in Runs, NEW i \in Items(r),
                      Removes(r, i), Source(r, i) = seen[r][i]
               PROVE  CopyOf(Archive(r, i)', Source(r, i))
    OBVIOUS
  <2>1. phase[r] = "verifying" /\ stage[r][i] = "verified"
    BY DEF Removes
  <2>2. CopyOf(Archive(r, i), Source(r, i))
    BY <2>1 DEF IInv, ComparedCopyStays
  <2>3. items'[r] = items[r]
    BY <2>1, ReportKept DEF IInv
  <2>4. Archive(r, i)' = Archive(r, i)
    BY <2>1, <2>3, ComparedCopyUnmoved DEF Archive
  <2> QED BY <2>2, <2>4
<1> QED BY <1>1, InvariantHolds, PTL DEF Spec, DeletesOnlyArchived

-----------------------------------------------------------------------------
(* The audit log.                                                          *)

\* A run whose lock is released and whose log is still to be written, or has
\* been, knows the outcome of every item.
OutcomesLogged ==
  /\ \A r \in Runs : phase[r] = "auditing" => OutcomesKnown(r)
  /\ \A r \in audited : phase[r] \in {"reporting", "done", "failed", "crashed"} /\ OutcomesKnown(r)

\* Outside the phases that hold the lock, nothing happens to a run's records.
LEMMA RecordsKept ==
  ASSUME IInv, Next, NEW r \in Runs, phase[r] \notin {"idle"} \cup Holding
  PROVE  stage'[r] = stage[r] /\ items'[r] = items[r]
<1>t. stage \in [Runs -> Seq(Stages)] /\ items \in [Runs -> Seq(Objects)]
  BY DEF IInv, TypeOK
<1>1. ASSUME NEW q \in Runs, Request(q) PROVE stage'[r] = stage[r] /\ items'[r] = items[r]
  BY <1>1, <1>t DEF Request, Begin, Reject
<1>2. ASSUME NEW q \in Runs, CopyStep(q) \/ VerifyStep(q)
      PROVE  stage'[r] = stage[r] /\ items'[r] = items[r]
  <2>1. PICK i \in Items(q) : \E st, v : ItemStep(q, i, st, v)
    BY <1>2, StepsOfItems
  <2>2. q # r
    BY <2>1 DEF ItemStep, Holding
  <2> QED BY <1>t, <2>1, <2>2 DEF ItemStep, Advance, reports
<1>3. ASSUME NEW q \in Runs, RunStep(q), ~CopyStep(q), ~VerifyStep(q)
      PROVE  stage'[r] = stage[r] /\ items'[r] = items[r]
  BY <1>3, <1>t DEF RunStep, Abort, Release, Prepare, StartVerification, Finish, WriteAudit,
                    WriteReport, reports, Holding
<1>4. ASSUME Tenants \/ Crash PROVE stage'[r] = stage[r] /\ items'[r] = items[r]
  BY <1>4 DEF Tenants, TenantWrite, TenantRemove, Crash, reports
<1> QED BY <1>1, <1>2, <1>3, <1>4 DEF Next

\* How a run comes to be auditing, and to be audited, and where it goes then.
LEMMA AuditSteps ==
  ASSUME IInv, Next, NEW r \in Runs
  PROVE  /\ phase'[r] = "auditing" => phase[r] = "auditing" \/ (OutcomesKnown(r) /\ UNCHANGED <<stage, items>>)
         /\ r \in audited' => r \in audited \/ (phase[r] = "auditing" /\ phase'[r] = "reporting")
         /\ phase[r] \in {"reporting", "done", "failed", "crashed"}
              => phase'[r] \in {"reporting", "done", "failed", "crashed"}
<1>t. phase \in [Runs -> Phases] /\ audited \subseteq Runs
  BY DEF IInv, TypeOK
<1>1. ASSUME NEW q \in Runs, CopyStep(q) \/ VerifyStep(q) PROVE UNCHANGED <<phase, audited>>
  BY <1>1, StepsOfItems DEF ItemStep, Advance
<1>2. CASE Tenants
  BY <1>2 DEF Tenants, TenantWrite, TenantRemove
<1>3. CASE Crash
  BY <1>3 DEF Crash, Ended
<1>4. ASSUME NEW q \in Runs, Request(q) \/ RunStep(q), ~CopyStep(q), ~VerifyStep(q), q = r
      PROVE  /\ phase'[r] = "auditing" => phase[r] = "auditing" \/ (OutcomesKnown(r) /\ UNCHANGED <<stage, items>>)
             /\ r \in audited' => r \in audited \/ (phase[r] = "auditing" /\ phase'[r] = "reporting")
             /\ phase[r] \in {"reporting", "done", "failed", "crashed"}
                  => phase'[r] \in {"reporting", "done", "failed", "crashed"}
  BY <1>4, <1>t DEF Request, Begin, Reject, RunStep, Abort, Release, Prepare, StartVerification,
                    Finish, WriteAudit, WriteReport, reports
<1>5. ASSUME NEW q \in Runs, Request(q) \/ RunStep(q), ~CopyStep(q), ~VerifyStep(q), q # r
      PROVE  phase'[r] = phase[r] /\ (r \in audited' => r \in audited)
  BY <1>5, <1>t DEF Request, Begin, Reject, RunStep, Abort, Release, Prepare, StartVerification,
                    Finish, WriteAudit, WriteReport
<1> QED BY <1>1, <1>2, <1>3, <1>4, <1>5 DEF Next, RunStep

LEMMA OutcomesStayLogged ==
  ASSUME IInv, OutcomesLogged, [Next]_vars
  PROVE  OutcomesLogged'
<1>1. CASE UNCHANGED vars
  BY <1>1 DEF vars, reports, OutcomesLogged, OutcomesKnown, Items
<1>2. CASE Next
  <2>1. ASSUME NEW r \in Runs, phase[r] \notin {"idle"} \cup Holding, OutcomesKnown(r)
        PROVE  OutcomesKnown(r)'
    BY <1>2, <2>1, RecordsKept DEF OutcomesKnown, Items
  <2>2. ASSUME NEW r \in Runs, phase'[r] = "auditing" PROVE OutcomesKnown(r)'
    <3>1. CASE phase[r] = "auditing"
      BY <2>1, <3>1 DEF OutcomesLogged, Holding
    <3>2. CASE OutcomesKnown(r) /\ UNCHANGED <<stage, items>>
      BY <3>2 DEF OutcomesKnown, Items
    <3> QED BY <1>2, <2>2, <3>1, <3>2, AuditSteps
  <2>3. ASSUME NEW r \in audited'
        PROVE  phase'[r] \in {"reporting", "done", "failed", "crashed"} /\ OutcomesKnown(r)'
    <3>1. r \in Runs
      BY <1>2, <2>3, NextIInv DEF IInv, TypeOK
    <3>2. CASE r \in audited
      BY <1>2, <2>1, <3>1, <3>2, AuditSteps DEF OutcomesLogged, Holding
    <3>3. CASE phase[r] = "auditing" /\ phase'[r] = "reporting"
      BY <2>1, <3>1, <3>3 DEF OutcomesLogged, Holding
    <3> QED BY <1>2, <2>3, <3>1, <3>2, <3>3, AuditSteps
  <2> QED BY <2>2, <2>3 DEF OutcomesLogged
<1> QED BY <1>1, <1>2

\* The audit log of a run has the final outcome of every item, however long its
\* report: _write_deletion_audit_log comes after both pools, for all constants.
THEOREM AuditLogIsFinal == Spec => AuditIsFinal
<1>1. Init => OutcomesLogged
  BY DEF Init, OutcomesLogged
<1>2. IInv /\ OutcomesLogged /\ [Next]_vars =>
        [\A r \in audited : stage'[r] = stage[r] /\ \A i \in Items(r) : stage[r][i] \in Outcomes]_vars
  <2> SUFFICES ASSUME IInv, OutcomesLogged, Next, NEW r \in audited
               PROVE  stage'[r] = stage[r] /\ \A i \in Items(r) : stage[r][i] \in Outcomes
    OBVIOUS
  <2>1. r \in Runs /\ phase[r] \notin {"idle"} \cup Holding
    BY DEF IInv, TypeOK, OutcomesLogged, Holding
  <2> QED BY <2>1, RecordsKept DEF OutcomesLogged, OutcomesKnown
<1> QED BY <1>1, <1>2, OutcomesStayLogged, InvariantHolds, PTL DEF Spec, AuditIsFinal

-----------------------------------------------------------------------------
(* Reports that list an object once.                                       *)

RowsDistinct == \A r \in Runs : \A i, j \in Items(r) : items[r][i] = items[r][j] => i = j

LEMMA RowsStayDistinct ==
  ASSUME DistinctRows, TypeOK, RowsDistinct, [Next]_vars
  PROVE  RowsDistinct'
<1>t. items \in [Runs -> Seq(Objects)]
  BY DEF TypeOK
<1>1. CASE \E r \in Runs, p \in Providers, s \in Requests : Begin(r, p, s)
  <2>1. PICK r \in Runs, p \in Providers, s \in Requests : Begin(r, p, s)
    BY <1>1
  <2>2. items' = [items EXCEPT ![r] = s]
    BY <2>1 DEF Begin
  <2>3. \A q \in Runs : items'[q] = IF q = r THEN s ELSE items[q]
    BY <1>t, <2>2
  <2> SUFFICES ASSUME NEW q \in Runs, NEW i \in Items(q)', NEW j \in Items(q)', items'[q][i] = items'[q][j]
               PROVE  i = j
    BY DEF RowsDistinct
  <2>4. CASE q = r
    BY <2>1, <2>3, <2>4 DEF DistinctRows, Items
  <2>5. CASE q # r
    BY <2>3, <2>5 DEF RowsDistinct, Items
  <2> QED BY <2>4, <2>5
<1>2. CASE UNCHANGED items
  BY <1>2 DEF RowsDistinct, Items
<1>3. UNCHANGED items \/ \E r \in Runs, p \in Providers, s \in Requests : Begin(r, p, s)
  <2>1. ASSUME NEW r \in Runs, Request(r), ~ \E p \in Providers, s \in Requests : Begin(r, p, s)
        PROVE  UNCHANGED items
    BY <2>1 DEF Request, Reject
  <2>2. ASSUME NEW r \in Runs, CopyStep(r) PROVE UNCHANGED items
    BY <2>2 DEF CopyStep, HeadDestination, FetchSource, Upload, CopyFails, Advance, reports
  <2>3. ASSUME NEW r \in Runs, VerifyStep(r) PROVE UNCHANGED items
    BY <2>3 DEF VerifyStep, HeadSource, HeadArchive, HashSource, CompareArchive, RecheckSource,
                VerifyFails, DeleteSource, DeleteFails, Advance, reports
  <2>4. ASSUME NEW r \in Runs, RunStep(r), ~CopyStep(r), ~VerifyStep(r) PROVE UNCHANGED items
    BY <2>4 DEF RunStep, Abort, Release, Prepare, StartVerification, Finish, WriteAudit,
                WriteReport, reports
  <2>5. ASSUME Tenants \/ Crash PROVE UNCHANGED items
    BY <2>5 DEF Tenants, TenantWrite, TenantRemove, Crash, reports
  <2>6. CASE UNCHANGED vars
    BY <2>6 DEF vars, reports
  <2> QED BY <2>1, <2>2, <2>3, <2>4, <2>5, <2>6 DEF Next
<1> QED BY <1>1, <1>2, <1>3

LEMMA ReportsStayDistinct ==
  ASSUME DistinctRows
  PROVE  Spec => []RowsDistinct
<1>1. Init => RowsDistinct
  BY EmptySeq DEF Init, RowsDistinct, Items
<1>2. IInv => TypeOK
  BY DEF IInv
<1> QED BY <1>1, <1>2, RowsStayDistinct, InvariantHolds, PTL DEF Spec

\* Two runs never work on one object, nor does one run on two rows of it.
LEMMA OneWorker ==
  ASSUME IInv, RowsDistinct, NEW q \in Runs, NEW r \in Runs, NEW j \in Items(q), NEW i \in Items(r),
         phase[q] \in Holding, phase[r] \in Holding, items[q][j] = items[r][i]
  PROVE  q = r /\ j = i
<1>1. items[q][j] \in Keys(items[q]) /\ items[r][i] \in Keys(items[r])
  BY DEF Keys, Items
<1>2. q = r
  BY <1>1 DEF IInv, LockExact
<1> QED BY <1>2 DEF RowsDistinct

\* An object of which a run could not copy or verify the row is deleted by no
\* run while this one lasts: the outcome the report will give stays true.
THEOREM RetainedSourcesStay ==
  ASSUME DistinctRows
  PROVE  Spec => RetainedStays
<1>1. IInv /\ RowsDistinct =>
        \A r \in Runs : \A i \in Items(r) :
          /\ phase[r] \in {"copying", "verifying"}
          /\ stage[r][i] \in {"copyFailed", "retained"}
          => ~ \E q \in Runs : \E j \in Items(q) :
                 /\ provider[q] = provider[r] /\ items[q][j] = items[r][i]
                 /\ Removes(q, j)
  <2> SUFFICES ASSUME IInv, RowsDistinct, NEW r \in Runs, NEW i \in Items(r),
                      phase[r] \in {"copying", "verifying"}, stage[r][i] \in {"copyFailed", "retained"},
                      NEW q \in Runs, NEW j \in Items(q), items[q][j] = items[r][i], Removes(q, j)
               PROVE  FALSE
    OBVIOUS
  <2>1. phase[q] = "verifying" /\ stage[q][j] = "verified"
    BY DEF Removes
  <2>2. q = r /\ j = i
    BY <2>1, OneWorker DEF Holding
  <2> QED BY <2>1, <2>2
<1> QED BY <1>1, ReportsStayDistinct, InvariantHolds, PTL DEF RetainedStays

\* An item on its way from the HEAD that found nothing to the upload: there is
\* still nothing at its destination.
DestinationStillFree ==
  \A r \in Runs : \A i \in Items(r) :
    phase[r] \in {"preparing", "copying"} /\ stage[r][i] \in {"missing", "fetched"}
      => Archive(r, i) = Absent

\* No step takes an archive copy away or writes over it: the copies go where
\* nothing is, the sources deleted and the tenants' objects lie elsewhere.
LEMMA ArchiveCopyKept ==
  ASSUME IInv, DestinationStillFree, Next, NEW o \in Objects,
         store[ArchiveProvider][ArchivePath(o)] # Absent
  PROVE  store'[ArchiveProvider][ArchivePath(o)] = store[ArchiveProvider][ArchivePath(o)]
<1>1. store \in [Providers -> [Locations -> Versions \cup {Absent}]]
  BY DEF IInv, TypeOK
<1>2. ASSUME NEW q \in Runs, CopyStep(q) \/ VerifyStep(q)
      PROVE  store'[ArchiveProvider][ArchivePath(o)] = store[ArchiveProvider][ArchivePath(o)]
  <2>1. PICK j \in Items(q) : StoreStep(q, j)
    BY <1>2, StepsOfItems
  <2>2. items[q][j] \in Objects /\ items[q][j] \in Keys(items[q])
    BY KeysOfReport DEF IInv, TypeOK, Items
  <2>3. CASE phase[q] = "copying" /\ stage[q][j] = "fetched" /\ store' = [store EXCEPT
               ![ArchiveProvider][ArchivePath(items[q][j])] = Uploaded(seen[q][j])]
    <3>1. store[ArchiveProvider][ArchivePath(items[q][j])] = Absent
      BY <2>3 DEF DestinationStillFree, Archive
    <3> QED BY <1>1, <2>3, <3>1
  <2>4. CASE phase[q] = "verifying" /\ store' = [store EXCEPT ![provider[q]][items[q][j]] = Absent]
    <3>1. items[q][j] \in TenantObjects
      BY <2>2, <2>4 DEF IInv, PhaseOfWork, SourcesAllowed, TenantObjects
    <3>2. items[q][j] # ArchivePath(o)
      BY <3>1, TenantPathApart
    <3> QED BY <1>1, <2>4, <3>2
  <2> QED BY <2>1, <2>3, <2>4 DEF StoreStep
<1>3. ASSUME NEW p \in Providers, NEW t \in TenantObjects, TenantWrite(p, t) \/ TenantRemove(p, t)
      PROVE  store'[ArchiveProvider][ArchivePath(o)] = store[ArchiveProvider][ArchivePath(o)]
  <2>1. t # ArchivePath(o)
    BY TenantPathApart
  <2>2. PICK v : store' = [store EXCEPT ![p][t] = v]
    BY <1>3 DEF TenantWrite, TenantRemove
  <2> QED BY <1>1, <2>1, <2>2
<1> QED BY <1>2, <1>3, StoreUnchanged DEF Tenants

\* What the steps of the items leave free.
LEMMA ItemsLeaveFree ==
  ASSUME IInv, RowsDistinct, DestinationStillFree, NEW q \in Runs, CopyStep(q) \/ VerifyStep(q)
  PROVE  DestinationStillFree'
<1>0. PICK j \in Items(q) : \E st, v : StoreStep(q, j) /\ ItemStep(q, j, st, v)
  BY StepsOfItems
<1>1. PICK st, v : StoreStep(q, j) /\ ItemStep(q, j, st, v)
  BY <1>0
<1>2. \A r \in Runs : \A i \in Items(r) :
        stage'[r][i] = IF r = q /\ i = j THEN st ELSE stage[r][i]
  BY <1>1, AdvanceShape DEF IInv, ItemStep
<1>3. UNCHANGED <<phase, items>> /\ phase[q] \in Holding
  BY <1>1 DEF ItemStep, Advance, reports, Holding
<1> SUFFICES ASSUME NEW r \in Runs, NEW i \in Items(r),
                    phase[r] \in {"preparing", "copying"}, stage'[r][i] \in {"missing", "fetched"}
             PROVE  store'[ArchiveProvider][ArchivePath(items[r][i])] = Absent
  BY <1>3 DEF DestinationStillFree, Archive, Items
<1>4. CASE r = q /\ i = j
  <2>1. UNCHANGED store /\ (Archive(r, i) = Absent \/ stage[r][i] = "missing")
    BY <1>1, <1>2, <1>4 DEF ItemStep
  <2> QED BY <2>1 DEF DestinationStillFree, Archive
<1>5. CASE ~(r = q /\ i = j)
  <2>1. store[ArchiveProvider][ArchivePath(items[r][i])] = Absent
    BY <1>2, <1>5 DEF DestinationStillFree, Archive
  <2>2. items[r][i] # items[q][j]
    BY <1>3, <1>5, OneWorker DEF Holding
  <2>3. items[r][i] \in Objects /\ items[q][j] \in Objects
    BY KeysOfReport DEF IInv, TypeOK, Items
  <2>4. ArchivePath(items[r][i]) # ArchivePath(items[q][j])
    BY <2>2, <2>3, ArchivePathInjective
  <2>5. store \in [Providers -> [Locations -> Versions \cup {Absent}]]
    BY DEF IInv, TypeOK
  <2>6. ArchivePath(items[r][i]) \in Locations /\ ArchiveProvider \in Providers
    BY <2>3, ArchivePathBucket, ProvidersAssumption
  <2>7. CASE UNCHANGED store
    BY <2>1, <2>7
  <2>8. CASE store' = [store EXCEPT ![ArchiveProvider][ArchivePath(items[q][j])] = Uploaded(seen[q][j])]
    BY <2>1, <2>4, <2>5, <2>6, <2>8
  <2>9. CASE store' = [store EXCEPT ![provider[q]][items[q][j]] = Absent]
    BY <2>1, <2>5, <2>6, <2>9
  <2> QED BY <1>1, <2>7, <2>8, <2>9 DEF StoreStep
<1> QED BY <1>4, <1>5

LEMMA DestinationStaysFree ==
  ASSUME IInv, RowsDistinct, DestinationStillFree, [Next]_vars
  PROVE  DestinationStillFree'
<1>t. /\ store \in [Providers -> [Locations -> Versions \cup {Absent}]]
      /\ phase \in [Runs -> Phases] /\ items \in [Runs -> Seq(Objects)] /\ stage \in [Runs -> Seq(Stages)]
  BY DEF IInv, TypeOK
<1>1. CASE UNCHANGED vars
  BY <1>1 DEF vars, reports, DestinationStillFree, Archive, Items
<1>2. ASSUME NEW r \in Runs, CopyStep(r) \/ VerifyStep(r) PROVE DestinationStillFree'
  BY <1>2, ItemsLeaveFree
<1>3. ASSUME NEW p \in Providers, NEW t \in TenantObjects, TenantWrite(p, t) \/ TenantRemove(p, t)
      PROVE  DestinationStillFree'
  <2>1. UNCHANGED <<phase, stage, items>>
    BY <1>3 DEF TenantWrite, TenantRemove, reports
  <2>2. PICK v : store' = [store EXCEPT ![p][t] = v]
    BY <1>3 DEF TenantWrite, TenantRemove
  <2>3. ASSUME NEW r \in Runs, NEW i \in Items(r) PROVE Archive(r, i)' = Archive(r, i)
    <3>1. items[r][i] \in Objects
      BY KeysOfReport DEF IInv, TypeOK, Items
    <3>2. t # ArchivePath(items[r][i])
      BY <3>1, TenantPathApart
    <3> QED BY <1>t, <2>1, <2>2, <3>2 DEF Archive
  <2> QED BY <2>1, <2>3 DEF DestinationStillFree, Items
<1>4. ASSUME NEW q \in Runs, NEW p \in Providers, NEW s \in Requests, Begin(q, p, s)
      PROVE  DestinationStillFree'
  <2>1. /\ UNCHANGED store /\ items' = [items EXCEPT ![q] = s]
        /\ stage' = [stage EXCEPT ![q] = Queued(s)] /\ phase' = [phase EXCEPT ![q] = "preparing"]
    BY <1>4 DEF Begin
  <2>2. \A r \in Runs : IF r = q THEN items'[r] = s /\ stage'[r] = Queued(s)
                                 ELSE items'[r] = items[r] /\ stage'[r] = stage[r] /\ phase'[r] = phase[r]
    BY <1>t, <2>1
  <2>3. \A i \in 1..Len(s) : Queued(s)[i] = "queued"
    BY DEF Queued
  <2> QED BY <2>1, <2>2, <2>3 DEF DestinationStillFree, Archive, Items
<1>5. ASSUME NEW q \in Runs, Prepare(q) PROVE DestinationStillFree'
  <2>1. UNCHANGED <<store, items>> /\ phase[q] = "preparing" /\ phase' = [phase EXCEPT ![q] = "copying"]
    BY <1>5 DEF Prepare, reports
  <2>2. \A r \in Runs : \A i \in Items(r) : stage'[r][i] \in {stage[r][i], "copyFailed"}
    BY <1>5, <1>t DEF Prepare
  <2>3. \A r \in Runs : phase'[r] \in {"preparing", "copying"} => phase[r] \in {"preparing", "copying"}
    BY <1>t, <2>1
  <2> QED BY <2>1, <2>2, <2>3 DEF DestinationStillFree, Archive, Items
<1>6. ASSUME NEW q \in Runs, RunStep(q), ~CopyStep(q), ~VerifyStep(q), ~Prepare(q)
      PROVE  DestinationStillFree'
  <2>1. UNCHANGED <<store, stage, items>>
    BY <1>6 DEF RunStep, Abort, Release, StartVerification, Finish, WriteAudit, WriteReport, reports
  <2>2. \A r \in Runs : phase'[r] \in {"preparing", "copying"} => phase'[r] = phase[r]
    BY <1>6, <1>t DEF RunStep, Abort, Release, StartVerification, Finish, WriteAudit, WriteReport
  <2> QED BY <2>1, <2>2 DEF DestinationStillFree, Archive, Items
<1>7. ASSUME NEW q \in Runs, NEW p \in Providers, NEW s \in Requests, Reject(q, p, s)
      PROVE  DestinationStillFree'
  <2>1. UNCHANGED <<store, stage, items>> /\ phase' = [phase EXCEPT ![q] = "rejected"]
    BY <1>7 DEF Reject
  <2> QED BY <1>t, <2>1 DEF DestinationStillFree, Archive, Items
<1>8. CASE Crash
  <2>1. UNCHANGED <<store, stage, items>>
    BY <1>8 DEF Crash, reports
  <2>2. \A r \in Runs : phase'[r] \in {"preparing", "copying"} => phase'[r] = phase[r]
    BY <1>8, <1>t DEF Crash
  <2> QED BY <2>1, <2>2 DEF DestinationStillFree, Archive, Items
<1> QED BY <1>1, <1>2, <1>3, <1>4, <1>5, <1>6, <1>7, <1>8 DEF Next, Request, RunStep, Tenants

LEMMA DestinationsStayFree ==
  ASSUME DistinctRows
  PROVE  Spec => []DestinationStillFree
<1>1. Init => DestinationStillFree
  BY EmptySeq DEF Init, DestinationStillFree, Items
<1>2. IInv /\ RowsDistinct /\ DestinationStillFree /\ [Next]_vars => DestinationStillFree'
  BY DestinationStaysFree
<1> QED BY <1>1, <1>2, ReportsStayDistinct, InvariantHolds, PTL DEF Spec

\* The archive only grows: of the objects that reports list once, no run ever
\* replaces or removes a copy, whatever runs, providers, failures and restarts.
THEOREM ArchiveIsWriteOnce ==
  ASSUME DistinctRows
  PROVE  Spec => ArchiveNeverRewritten
<1>1. IInv /\ DestinationStillFree /\ [Next]_vars =>
        [\A o \in TenantObjects :
           LET l == ArchivePath(o) IN
           store[ArchiveProvider][l] # Absent
             => store'[ArchiveProvider][l] = store[ArchiveProvider][l]]_vars
  BY ArchiveCopyKept DEF TenantObjects
<1> QED BY <1>1, DestinationsStayFree, InvariantHolds, PTL DEF Spec, ArchiveNeverRewritten

\* Whatever a verification has found in the archive stays there with the same
\* bytes, for all time: the sources deleted can always be had back.
THEOREM VerifiedStays ==
  ASSUME DistinctRows
  PROVE  Spec => VerifiedStaysArchived
<1>1. ASSUME NEW o \in TenantObjects, NEW c \in Contents
      PROVE  Spec => [](VerifiedAs(o, c) => []ArchivedAs(o, c))
  <2>1. IInv => (VerifiedAs(o, c) => ArchivedAs(o, c))
    BY DEF VerifiedAs, ArchivedAs, IInv, ComparedCopyStays, CopyOf, Archive
  <2>2. IInv /\ DestinationStillFree /\ ArchivedAs(o, c) /\ [Next]_vars => ArchivedAs(o, c)'
    <3>1. ArchivedAs(o, c) => store[ArchiveProvider][ArchivePath(o)] # Absent
      BY AbsentAssumption DEF ArchivedAs
    <3>2. o \in Objects
      BY DEF TenantObjects
    <3>3. CASE Next
      BY <3>1, <3>2, <3>3, ArchiveCopyKept DEF ArchivedAs
    <3>4. CASE UNCHANGED vars
      BY <3>4 DEF vars, ArchivedAs
    <3> QED BY <3>3, <3>4
  <2> QED BY <2>1, <2>2, DestinationsStayFree, InvariantHolds, PTL DEF Spec
<1> QED BY <1>1 DEF VerifiedStaysArchived
=============================================================================
