------------------------ MODULE ArchiveContractProofs ------------------------
(***************************************************************************)
(* The archive runs implement ArchiveContract and KeyLock, for all         *)
(* constants.  Beside the inductive invariant of ArchiveRunProofs, the     *)
(* argument needs what each step does to the three things the contract     *)
(* knows of: a step that leaves the store can only verify one more item or *)
(* give items up, and a step that changes it is an upload, a removal, or a *)
(* tenant's.  For the lock it is enough to see which steps move a phase.   *)
(***************************************************************************)
EXTENDS ArchiveRunProofs, ArchiveRunContract

-----------------------------------------------------------------------------
(* The mapping.                                                            *)

IsVerified(r, i) == phase[r] = "verifying" /\ stage[r][i] = "verified"

LEMMA VerifiedElement ==
  \A x : x \in VerifiedItems
    <=> \E r \in Runs : \E i \in Items(r) : IsVerified(r, i) /\ x = Verified(r, i)
BY DEF VerifiedItems, IsVerified

\* What is verified after a step, element by element.
LEMMA VerifiedElementNext ==
  \A x : x \in VerifiedItems'
    <=> \E r \in Runs : \E i \in Items(r)' : IsVerified(r, i)' /\ x = Verified(r, i)'
BY DEF VerifiedItems, IsVerified

\* A verified item is a tenant's object of a known provider, and a version.
LEMMA VerifiedTyped ==
  ASSUME IInv, NEW r \in Runs, NEW i \in Items(r), phase[r] \in {"copying", "verifying"}
  PROVE  /\ items[r][i] \in TenantObjects /\ items[r][i] \in Keys(items[r])
         /\ provider[r] \in Providers
<1>1. items[r] \in Seq(Objects) /\ items[r][i] \in Objects /\ items[r][i] \in Keys(items[r])
  BY KeysOfReport DEF IInv, TypeOK, Items
<1> QED BY <1>1 DEF IInv, PhaseOfWork, ProviderKnown, Holding, SourcesAllowed, TenantObjects

LEMMA StoreTyped ==
  ASSUME TypeOK
  PROVE  /\ store \in [Providers -> [Locations -> Versions \cup {Absent}]]
         /\ \A o \in TenantObjects : /\ o \in Locations
                                     /\ ArchivePath(o) \in Locations
                                     /\ store[ArchiveProvider][ArchivePath(o)] \in Versions \cup {Absent}
BY ArchivePathBucket, ProvidersAssumption DEF TypeOK, TenantObjects, Locations

\* A step that gives one tenant's file the version v, and leaves the others.
LEMMA OneFileReplaced ==
  ASSUME NEW p \in Providers, NEW f \in TenantObjects, NEW v,
         \A q \in Providers : \A o \in TenantObjects :
           store'[q][o] = IF q = p /\ o = f THEN v ELSE store[q][o]
  PROVE  SourceFiles' = [SourceFiles EXCEPT ![p][f] = v]
<1> DEFINE files(q) == [o \in TenantObjects |-> store[q][o]]
<1>1. \A q \in Providers : SourceFiles'[q] = IF q = p THEN [files(p) EXCEPT ![f] = v] ELSE files(q)
  BY DEF SourceFiles
<1>2. SourceFiles' = [q \in Providers |-> SourceFiles'[q]]
  BY DEF SourceFiles
<1>3. SourceFiles = [q \in Providers |-> files(q)]
  BY DEF SourceFiles
<1>4. SourceFiles' = [q \in Providers |-> IF q = p THEN [files(p) EXCEPT ![f] = v] ELSE files(q)]
  BY <1>1, <1>2
<1> HIDE DEF files
<1>5. [SourceFiles EXCEPT ![p] = [SourceFiles[p] EXCEPT ![f] = v]]
        = [q \in Providers |-> IF q = p THEN [files(p) EXCEPT ![f] = v] ELSE files(q)]
  BY <1>3
<1> QED BY <1>4, <1>5

-----------------------------------------------------------------------------
(* The initial states.                                                     *)

LEMMA ContractInit == Init => Contract!Init
<1> SUFFICES ASSUME Init PROVE Contract!Init
  OBVIOUS
<1>1. IInv
  BY InitIInv
<1>2. /\ store \in [Providers -> [Locations -> Versions \cup {Absent}]]
      /\ \A o \in TenantObjects : /\ o \in Locations
                                  /\ store[ArchiveProvider][ArchivePath(o)] \in Versions \cup {Absent}
  BY <1>1, StoreTyped DEF IInv
<1>3. SourceFiles \in [Providers -> [TenantObjects -> Versions \cup {Absent}]]
  BY <1>2 DEF SourceFiles
<1>4. \A v \in Versions : v.content \in Contents
  BY DEF Versions
<1>5. ArchivedFiles \in [TenantObjects -> Contents \cup {Absent}]
  BY <1>2, <1>4 DEF ArchivedFiles
<1>6. VerifiedItems = {}
  BY DEF VerifiedItems, Init
<1>7. writes = 0
  BY DEF Init
<1> QED BY <1>3, <1>5, <1>6, <1>7 DEF Contract!Init

-----------------------------------------------------------------------------
(* Steps that leave the store.                                             *)

\* They give up what was verified, or keep it: nothing else is verified.
LEMMA Withdrawn ==
  ASSUME UNCHANGED store, UNCHANGED writes,
         \A r \in Runs : \A i \in Items(r)' :
           IsVerified(r, i)' => i \in Items(r) /\ IsVerified(r, i) /\ Verified(r, i)' = Verified(r, i)
  PROVE  Contract!Withdraw
<1>1. VerifiedItems' \subseteq VerifiedItems
  <2> SUFFICES ASSUME NEW x \in VerifiedItems' PROVE x \in VerifiedItems
    OBVIOUS
  <2>1. PICK r \in Runs : \E i \in Items(r)' : IsVerified(r, i)' /\ x = Verified(r, i)'
    BY VerifiedElementNext
  <2>2. PICK i \in Items(r)' : IsVerified(r, i)' /\ x = Verified(r, i)'
    BY <2>1
  <2>3. i \in Items(r) /\ IsVerified(r, i) /\ x = Verified(r, i)
    BY <2>2
  <2> QED BY <2>3, VerifiedElement
<1>2. UNCHANGED SourceFiles /\ UNCHANGED ArchivedFiles
  BY DEF SourceFiles, ArchivedFiles
<1> QED BY <1>1, <1>2 DEF Contract!Withdraw

\* A step that moves runs between phases, or starts one, and verifies nothing.
LEMMA PhasesImplement ==
  ASSUME IInv, NEW r \in Runs, Request(r) \/ RunStep(r), ~CopyStep(r), ~VerifyStep(r)
  PROVE  Contract!Withdraw
<1>1. CASE \E p \in Providers, s \in Requests : Begin(r, p, s)
  <2>1. \A q \in Runs \ {r} : /\ phase'[q] = phase[q] /\ provider'[q] = provider[q]
                            /\ items'[q] = items[q] /\ stage'[q] = stage[q] /\ seen'[q] = seen[q]
    BY <1>1 DEF Begin, IInv, TypeOK
  <2>2. phase'[r] = "preparing" /\ UNCHANGED <<store, writes>>
    BY <1>1 DEF Begin, IInv, TypeOK
  <2> QED BY <2>1, <2>2, Withdrawn DEF IsVerified, Verified, Items
<1>2. CASE Prepare(r)
  <2>1. \A q \in Runs \ {r} : phase'[q] = phase[q] /\ stage'[q] = stage[q]
    BY <1>2 DEF Prepare, IInv, TypeOK
  <2>2. phase'[r] = "copying" /\ UNCHANGED <<store, writes, provider, items, seen>>
    BY <1>2 DEF Prepare, IInv, TypeOK, reports
  <2> QED BY <2>1, <2>2, Withdrawn DEF IsVerified, Verified, Items
<1>3. CASE StartVerification(r)
  <2>1. \A q \in Runs \ {r} : phase'[q] = phase[q]
    BY <1>3 DEF StartVerification, IInv, TypeOK
  <2>2. UNCHANGED <<store, writes, provider, items, stage, seen>> /\ phase[r] = "copying"
    BY <1>3 DEF StartVerification, reports
  <2>3. \A i \in Items(r) : stage[r][i] # "verified"
    BY <2>2 DEF IInv, PhaseOfWork, Verifying
  <2> QED BY <2>1, <2>2, <2>3, Withdrawn DEF IsVerified, Verified, Items
<1>4. CASE \/ \E p \in Providers, s \in Requests : Reject(r, p, s)
           \/ Abort(r) \/ Finish(r) \/ WriteAudit(r) \/ WriteReport(r)
  <2>1. \A q \in Runs \ {r} : phase'[q] = phase[q]
    BY <1>4 DEF Reject, Abort, Finish, Release, WriteAudit, WriteReport, IInv, TypeOK
  <2>2. UNCHANGED <<store, writes, provider, items, stage, seen>> /\ phase'[r] # "verifying"
    BY <1>4 DEF Reject, Abort, Finish, Release, WriteAudit, WriteReport, reports, IInv, TypeOK
  <2> QED BY <2>1, <2>2, Withdrawn DEF IsVerified, Verified, Items
<1> QED BY <1>1, <1>2, <1>3, <1>4 DEF Request, RunStep

LEMMA CrashImplements ==
  ASSUME IInv, Crash
  PROVE  Contract!Withdraw
<1>1. UNCHANGED <<store, writes, provider, items, stage, seen>>
  BY DEF Crash, reports
<1>2. \A r \in Runs : phase'[r] # "verifying"
  BY DEF Crash, Ended
<1> QED BY <1>1, <1>2, Withdrawn DEF IsVerified

-----------------------------------------------------------------------------
(* Steps of the items.                                                     *)

\* A step of an item changes what is verified at that item alone.
LEMMA ItemVerified ==
  ASSUME IInv, NEW r \in Runs, NEW i \in Items(r), NEW st \in Stages,
         NEW v \in Versions \cup {Absent}, Advance(r, i, st, v)
  PROVE  /\ \A q \in Runs : Items(q)' = Items(q)
         /\ \A q \in Runs : \A j \in Items(q) :
              q # r \/ j # i => (IsVerified(q, j)' <=> IsVerified(q, j)) /\ Verified(q, j)' = Verified(q, j)
         /\ IsVerified(r, i)' <=> phase[r] = "verifying" /\ st = "verified"
         /\ Verified(r, i)' = [provider |-> provider[r], file |-> items[r][i], version |-> v]
         /\ UNCHANGED writes
<1>1. \A q \in Runs : \A j \in Items(q) :
        /\ stage'[q][j] = IF q = r /\ j = i THEN st ELSE stage[q][j]
        /\ seen'[q][j] = IF q = r /\ j = i THEN v ELSE seen[q][j]
  BY AdvanceShape DEF IInv
<1>2. UNCHANGED <<phase, provider, items, writes>>
  BY DEF Advance, reports
<1> QED BY <1>1, <1>2 DEF Items, IsVerified, Verified

\* The calls of a worker that verify nothing and remove nothing.
LEMMA QuietItem ==
  ASSUME IInv, NEW r \in Runs, NEW i \in Items(r), NEW st \in Stages \ {"verified"},
         NEW v \in Versions \cup {Absent}, Advance(r, i, st, v), UNCHANGED store
  PROVE  Contract!Withdraw
<1>1. \A q \in Runs : \A j \in Items(q)' :
        IsVerified(q, j)' => j \in Items(q) /\ IsVerified(q, j) /\ Verified(q, j)' = Verified(q, j)
  BY ItemVerified
<1>2. UNCHANGED writes
  BY ItemVerified
<1> QED BY <1>1, <1>2, Withdrawn

\* The last HEAD verifies its item: the archive still holds the bytes compared.
LEMMA RecheckImplements ==
  ASSUME IInv, NEW r \in Runs, NEW i \in Items(r), RecheckSource(r, i)
  PROVE  Contract!Verify
<1> DEFINE x == [provider |-> provider[r], file |-> items[r][i], version |-> seen[r][i]]
<1>1. /\ phase[r] = "verifying" /\ stage[r][i] = "matched" /\ UNCHANGED store
      /\ Source(r, i) = seen[r][i] /\ Advance(r, i, "verified", seen[r][i])
  BY DEF RecheckSource, VerifyingAt, SameVersion
<1>2. seen[r][i] \in Versions /\ "verified" \in Stages
  BY <1>1 DEF IInv, SourceRead, Verifying, Stages
<1>3. items[r][i] \in TenantObjects /\ provider[r] \in Providers
  BY <1>1, VerifiedTyped
<1>4. CopyOf(Archive(r, i), seen[r][i])
  BY <1>1 DEF IInv, ComparedCopyStays
<1>5. /\ SourceFiles[provider[r]][items[r][i]] = seen[r][i]
      /\ seen[r][i] # Absent /\ ArchivedFiles[items[r][i]] = seen[r][i].content
  BY <1>1, <1>2, <1>3, <1>4, AbsentAssumption DEF SourceFiles, ArchivedFiles, Source, Archive, CopyOf
<1>6. VerifiedItems' = VerifiedItems \cup {x}
  <2>1. ~IsVerified(r, i)
    BY <1>1 DEF IsVerified
  <2>2. IsVerified(r, i)' /\ Verified(r, i)' = x
    BY <1>1, <1>2, ItemVerified
  <2>3. \A q \in Runs : Items(q)' = Items(q)
    BY <1>1, <1>2, ItemVerified
  <2>4. \A q \in Runs : \A j \in Items(q) :
          q # r \/ j # i => (IsVerified(q, j)' <=> IsVerified(q, j)) /\ Verified(q, j)' = Verified(q, j)
    BY <1>1, <1>2, ItemVerified
  <2>5. ASSUME NEW y PROVE y \in VerifiedItems' <=> y \in VerifiedItems \cup {x}
    BY <2>1, <2>2, <2>3, <2>4, VerifiedElement, VerifiedElementNext
  <2> QED BY <2>5
<1>7. UNCHANGED SourceFiles /\ UNCHANGED ArchivedFiles /\ UNCHANGED writes
  BY <1>1 DEF SourceFiles, ArchivedFiles, Advance
<1> QED BY <1>3, <1>5, <1>6, <1>7 DEF Contract!Verify

\* An upload comes into the archive under a name nothing verified relies on:
\* the lock keeps the reports of working runs apart.
LEMMA UploadImplements ==
  ASSUME IInv, NEW r \in Runs, NEW i \in Items(r), Upload(r, i)
  PROVE  Contract!Archive
<1> DEFINE f == items[r][i]
           u == Uploaded(seen[r][i])
<1>1. /\ phase[r] = "copying" /\ stage[r][i] = "fetched"
      /\ store' = [store EXCEPT ![ArchiveProvider][ArchivePath(f)] = u]
  BY DEF Upload, Copying
<1>2. PICK st \in {"copied", "copyFailed"} : Advance(r, i, st, Absent)
  BY DEF Upload
<1>3. f \in TenantObjects /\ f \in Keys(items[r]) /\ f \in Objects
  BY <1>1, VerifiedTyped DEF TenantObjects
<1>4. u.content \in Contents /\ u # Absent
  <2>1. seen[r][i] \in Versions
    BY <1>1 DEF IInv, SourceRead
  <2>2. u \in Versions /\ u.content = seen[r][i].content
    BY <2>1, NumbersAssumption DEF Versions, Uploaded
  <2> QED BY <2>2, AbsentAssumption DEF Versions
<1>5. \A x \in VerifiedItems : x.file # f
  <2> SUFFICES ASSUME NEW x \in VerifiedItems PROVE x.file # f
    OBVIOUS
  <2>1. PICK q \in Runs : \E j \in Items(q) : IsVerified(q, j) /\ x = Verified(q, j)
    BY VerifiedElement
  <2>2. PICK j \in Items(q) : IsVerified(q, j) /\ x = Verified(q, j)
    BY <2>1
  <2>3. x.file = items[q][j] /\ items[q][j] \in Keys(items[q])
    BY <2>2, VerifiedTyped DEF IsVerified, Verified
  <2>4. Keys(items[q]) \cap Keys(items[r]) = {}
    BY <1>1, <2>2 DEF IsVerified, IInv, LockExact, Holding
  <2> QED BY <1>3, <2>3, <2>4
<1>6. VerifiedItems' = VerifiedItems
  <2>1. ~IsVerified(r, i) /\ ~IsVerified(r, i)'
    BY <1>1, <1>2, ItemVerified DEF IsVerified, Stages, Outcomes
  <2>2. \A q \in Runs : Items(q)' = Items(q)
    BY <1>2, ItemVerified DEF Stages, Outcomes
  <2>3. \A q \in Runs : \A j \in Items(q) :
          q # r \/ j # i => (IsVerified(q, j)' <=> IsVerified(q, j)) /\ Verified(q, j)' = Verified(q, j)
    BY <1>2, ItemVerified DEF Stages, Outcomes
  <2>4. ASSUME NEW y PROVE y \in VerifiedItems' <=> y \in VerifiedItems
    BY <2>1, <2>2, <2>3, VerifiedElement, VerifiedElementNext
  <2> QED BY <2>4
<1>7. store \in [Providers -> [Locations -> Versions \cup {Absent}]] /\ ArchiveProvider \in Providers
  BY ProvidersAssumption DEF IInv, TypeOK
<1>8. SourceFiles' = SourceFiles
  <2>1. \A p \in Providers, o \in TenantObjects : store'[p][o] = store[p][o]
    BY <1>1, <1>3, <1>7, TenantPathApart
  <2> QED BY <2>1 DEF SourceFiles
<1>9. ArchivedFiles' = [ArchivedFiles EXCEPT ![f] = u.content]
  <2>1. \A o \in TenantObjects : store'[ArchiveProvider][ArchivePath(o)]
          = IF o = f THEN u ELSE store[ArchiveProvider][ArchivePath(o)]
    BY <1>1, <1>3, <1>7, ArchivePathBucket, ArchivePathInjective DEF TenantObjects
  <2> QED BY <1>3, <1>4, <2>1 DEF ArchivedFiles
<1>10. UNCHANGED writes
  BY <1>2 DEF Advance
<1> QED BY <1>3, <1>4, <1>5, <1>6, <1>8, <1>9, <1>10 DEF Contract!Archive

\* The removal of a source is the removal of a verified file.
LEMMA DeleteImplements ==
  ASSUME IInv, NEW r \in Runs, NEW i \in Items(r), DeleteSource(r, i)
  PROVE  Contract!Delete
<1> DEFINE f == items[r][i]
<1>1. /\ phase[r] = "verifying" /\ stage[r][i] = "verified"
      /\ store' = [store EXCEPT ![provider[r]][f] = Absent]
  BY DEF DeleteSource, VerifyingAt
<1>2. PICK st \in {"deleted", "deleteFailed"} : Advance(r, i, st, Absent)
  BY DEF DeleteSource
<1>3. f \in TenantObjects /\ f \in Objects /\ provider[r] \in Providers
  BY <1>1, VerifiedTyped DEF TenantObjects
<1>4. Verified(r, i) \in VerifiedItems
  BY <1>1, VerifiedElement DEF IsVerified
<1>5. VerifiedItems' \subseteq VerifiedItems
  <2>1. ~IsVerified(r, i)'
    BY <1>2, ItemVerified DEF Stages, Outcomes
  <2>2. \A q \in Runs : Items(q)' = Items(q)
    BY <1>2, ItemVerified DEF Stages, Outcomes
  <2>3. \A q \in Runs : \A j \in Items(q) :
          q # r \/ j # i => (IsVerified(q, j)' <=> IsVerified(q, j)) /\ Verified(q, j)' = Verified(q, j)
    BY <1>2, ItemVerified DEF Stages, Outcomes
  <2>4. ASSUME NEW y \in VerifiedItems' PROVE y \in VerifiedItems
    <3>1. PICK q \in Runs : \E j \in Items(q)' : IsVerified(q, j)' /\ y = Verified(q, j)'
      BY VerifiedElementNext
    <3>2. PICK j \in Items(q) : IsVerified(q, j)' /\ y = Verified(q, j)'
      BY <2>2, <3>1
    <3>3. IsVerified(q, j) /\ y = Verified(q, j)
      BY <2>1, <2>3, <3>2
    <3> QED BY <3>3, VerifiedElement
  <2> QED BY <2>4
<1>6. store \in [Providers -> [Locations -> Versions \cup {Absent}]] /\ ArchiveProvider \in Providers
  BY ProvidersAssumption DEF IInv, TypeOK
<1>7. SourceFiles' = [SourceFiles EXCEPT ![provider[r]][f] = Absent]
  <2>1. \A p \in Providers, o \in TenantObjects :
          store'[p][o] = IF p = provider[r] /\ o = f THEN Absent ELSE store[p][o]
    BY <1>1, <1>3, <1>6 DEF Locations, TenantObjects
  <2> QED BY <1>3, <2>1, OneFileReplaced
<1>8. ArchivedFiles' = ArchivedFiles
  <2>1. \A o \in TenantObjects : store'[ArchiveProvider][ArchivePath(o)] = store[ArchiveProvider][ArchivePath(o)]
    BY <1>1, <1>3, <1>6, TenantPathApart, ArchivePathBucket DEF TenantObjects
  <2> QED BY <2>1 DEF ArchivedFiles
<1>9. UNCHANGED writes
  BY <1>2 DEF Advance
<1> QED BY <1>4, <1>5, <1>7, <1>8, <1>9 DEF Contract!Delete, Verified

LEMMA ItemsImplement ==
  ASSUME IInv, NEW r \in Runs, CopyStep(r) \/ VerifyStep(r)
  PROVE  Contract!Next
<1> USE DEF Contract!Next
<1>1. ASSUME NEW i \in Items(r), phase[r] \in {"copying", "verifying"}
      PROVE  Source(r, i) \in Versions \cup {Absent} /\ seen[r][i] \in Versions \cup {Absent}
  <2>1. items[r][i] \in Locations /\ provider[r] \in Providers
    BY <1>1, VerifiedTyped DEF Locations, TenantObjects
  <2> QED BY <2>1 DEF Source, IInv, TypeOK, Items
<1>2. ASSUME NEW i \in Items(r), HeadDestination(r, i) \/ FetchSource(r, i) \/ CopyFails(r, i)
      PROVE  Contract!Withdraw
  <2>1. \E st \in Stages \ {"verified"}, v \in Versions \cup {Absent} :
          Advance(r, i, st, v) /\ UNCHANGED store
    BY <1>1, <1>2 DEF HeadDestination, FetchSource, CopyFails, Copying, Stages, Unfinished, Outcomes
  <2> QED BY <2>1, QuietItem
<1>3. ASSUME NEW i \in Items(r),
             \/ HeadSource(r, i) \/ HeadArchive(r, i) \/ HashSource(r, i) \/ CompareArchive(r, i)
             \/ VerifyFails(r, i) \/ DeleteFails(r, i)
      PROVE  Contract!Withdraw
  <2>1. \E st \in Stages \ {"verified"}, v \in Versions \cup {Absent} :
          Advance(r, i, st, v) /\ UNCHANGED store
    BY <1>1, <1>3 DEF HeadSource, HeadArchive, HashSource, CompareArchive, VerifyFails, DeleteFails,
                      VerifyingAt, Stages, Verifying, Outcomes
  <2> QED BY <2>1, QuietItem
<1> QED BY <1>2, <1>3, RecheckImplements, UploadImplements, DeleteImplements DEF CopyStep, VerifyStep

-----------------------------------------------------------------------------
(* Steps outside the runs.                                                 *)

LEMMA TenantsImplement ==
  ASSUME IInv, Tenants
  PROVE  Contract!Change
<1>1. PICK p \in Providers, t \in TenantObjects : TenantWrite(p, t) \/ TenantRemove(p, t)
  BY DEF Tenants
<1>2. UNCHANGED <<phase, provider, items, stage, seen>> /\ writes' = writes + 1
  BY <1>1 DEF TenantWrite, TenantRemove, reports
<1>3. \E v \in Versions \cup {Absent} : store' = [store EXCEPT ![p][t] = v]
  <2>1. CASE TenantWrite(p, t)
    <3>1. \A m \in writes..(writes + 1) : m \in 0..MaxWrites
      BY <2>1, NumbersAssumption DEF TenantWrite, IInv, TypeOK
    <3> QED BY <2>1, <3>1 DEF TenantWrite, Versions
  <2>2. CASE TenantRemove(p, t)
    BY <2>2 DEF TenantRemove
  <2> QED BY <1>1, <2>1, <2>2
<1>4. PICK v \in Versions \cup {Absent} : store' = [store EXCEPT ![p][t] = v]
  BY <1>3
<1>5. store \in [Providers -> [Locations -> Versions \cup {Absent}]] /\ ArchiveProvider \in Providers
  BY ProvidersAssumption DEF IInv, TypeOK
<1>6. SourceFiles' = [SourceFiles EXCEPT ![p][t] = v]
  <2>1. \A q \in Providers, o \in TenantObjects :
          store'[q][o] = IF q = p /\ o = t THEN v ELSE store[q][o]
    BY <1>4, <1>5 DEF Locations, TenantObjects
  <2> QED BY <2>1, OneFileReplaced
<1>7. ArchivedFiles' = ArchivedFiles
  <2>1. \A o \in TenantObjects : store'[ArchiveProvider][ArchivePath(o)] = store[ArchiveProvider][ArchivePath(o)]
    BY <1>4, <1>5, TenantPathApart, ArchivePathBucket DEF TenantObjects
  <2> QED BY <2>1 DEF ArchivedFiles
<1>8. VerifiedItems' = VerifiedItems
  BY <1>2 DEF VerifiedItems, Verified, Items
<1> QED BY <1>2, <1>6, <1>7, <1>8 DEF Contract!Change

-----------------------------------------------------------------------------
LEMMA StepsImplement ==
  IInv /\ [Next]_vars => [Contract!Next]_<<SourceFiles, ArchivedFiles, VerifiedItems, writes>>
<1> SUFFICES ASSUME IInv, [Next]_vars
             PROVE  Contract!Next \/ UNCHANGED <<SourceFiles, ArchivedFiles, VerifiedItems, writes>>
  OBVIOUS
<1>1. CASE UNCHANGED vars
  BY <1>1 DEF vars, reports, SourceFiles, ArchivedFiles, VerifiedItems, Verified, Items
<1>2. CASE Next
  <2>1. ASSUME NEW r \in Runs, CopyStep(r) \/ VerifyStep(r) PROVE Contract!Next
    BY <2>1, ItemsImplement
  <2>2. ASSUME NEW r \in Runs, Request(r) \/ RunStep(r), ~CopyStep(r), ~VerifyStep(r) PROVE Contract!Next
    BY <2>2, PhasesImplement DEF Contract!Next
  <2>3. CASE Tenants
    BY <2>3, TenantsImplement DEF Contract!Next
  <2>4. CASE Crash
    BY <2>4, CrashImplements DEF Contract!Next
  <2> QED BY <1>2, <2>1, <2>2, <2>3, <2>4 DEF Next
<1> QED BY <1>1, <1>2

\* The archive runs implement the contract, for any number of runs, reports,
\* providers and tenants: however calls fail, runs overlap and servers stop, the
\* only change a run makes to a source is the removal of one that held the same
\* bytes as the archive at one instant, every other change is a tenant's, and no
\* upload replaces bytes that a verified file relies on.
THEOREM ContractHolds == Spec => ContractKept
BY ContractInit, StepsImplement, InvariantHolds, PTL DEF Spec, ContractKept, Contract!Spec

-----------------------------------------------------------------------------
(* The lock.  A run that holds its keys has some: no report is empty.      *)

HoldersHaveKeys == \A r \in Runs : phase[r] \in Holding => Keys(items[r]) # {}

LockView == <<HeldByRun, PastRuns>>

LEMMA RequestKeys ==
  ASSUME NEW s \in Requests
  PROVE  Keys(s) \in SUBSET Objects /\ Keys(s) # {}
<1>1. s \in Seq(Objects) /\ s # <<>>
  BY RequestsAssumption
<1>2. Len(s) \in Nat /\ Len(s) # 0
  BY <1>1, EmptySeq, LenProperties
<1>3. s[1] \in Keys(s)
  BY <1>2 DEF Keys
<1> QED BY <1>1, <1>3, KeysOfReport

\* The keys asked for are free of the lock exactly when no run has one of them.
LEMMA OverlapIsTaken ==
  ASSUME IInv, NEW s \in Requests
  PROVE  ~NoOverlap(s) <=> Lock!Taken(Keys(s))
<1>1. \A k : k \in active <=> \E r \in Runs : LockedBy(k, r)
  BY LockByKey DEF IInv, LockExact
<1>2. \A k : \A r \in Runs : k \in HeldByRun[r] <=> LockedBy(k, r)
  BY DEF HeldByRun, LockedBy
<1> QED BY <1>1, <1>2 DEF NoOverlap, Lock!Taken

\* A step that moves run r, and leaves the phases and reports of the others.
LEMMA OneRunMoves ==
  ASSUME NEW r \in Runs, \A q \in Runs \ {r} : phase'[q] = phase[q] /\ items'[q] = items[q]
  PROVE  /\ HeldByRun' = [HeldByRun EXCEPT ![r] = IF phase'[r] \in Holding THEN Keys(items'[r]) ELSE {}]
         /\ PastRuns' = IF phase'[r] \in {"idle"} \cup Holding THEN PastRuns \ {r} ELSE PastRuns \cup {r}
<1>1. HeldByRun' = [q \in Runs |-> IF phase'[q] \in Holding THEN Keys(items'[q]) ELSE {}]
  BY DEF HeldByRun
<1>2. \A q \in Runs \ {r} : (q \in PastRuns' <=> q \in PastRuns)
  BY DEF PastRuns
<1>3. r \in PastRuns' <=> phase'[r] \notin {"idle"} \cup Holding
  BY DEF PastRuns
<1>4. PastRuns \subseteq Runs /\ PastRuns' \subseteq Runs
  BY DEF PastRuns
<1>5. HeldByRun = [q \in Runs |-> IF phase[q] \in Holding THEN Keys(items[q]) ELSE {}]
  BY DEF HeldByRun
<1>6. HeldByRun' = [HeldByRun EXCEPT ![r] = IF phase'[r] \in Holding THEN Keys(items'[r]) ELSE {}]
  BY <1>1, <1>5
<1>7. PastRuns' = IF phase'[r] \in {"idle"} \cup Holding THEN PastRuns \ {r} ELSE PastRuns \cup {r}
  <2>1. CASE r \in PastRuns'
    BY <1>2, <1>3, <1>4, <2>1
  <2>2. CASE r \notin PastRuns'
    BY <1>2, <1>3, <1>4, <2>2
  <2> QED BY <2>1, <2>2
<1> QED BY <1>6, <1>7

LEMMA LockInit == Init => Lock!Init /\ HoldersHaveKeys
<1> SUFFICES ASSUME Init PROVE Lock!Init /\ HoldersHaveKeys
  OBVIOUS
<1>1. \A r \in Runs : phase[r] = "idle" /\ "idle" \notin Holding
  BY DEF Init, Holding
<1> QED BY <1>1 DEF Lock!Init, HeldByRun, PastRuns, HoldersHaveKeys

\* A request acquires the keys of its report, or is refused.
LEMMA RequestLocks ==
  ASSUME IInv, HoldersHaveKeys, NEW r \in Runs, Request(r)
  PROVE  Lock!Next /\ HoldersHaveKeys'
<1>1. phase \in [Runs -> Phases] /\ items \in [Runs -> Seq(Objects)]
  BY DEF IInv, TypeOK
<1>2. PICK p \in Providers, s \in Requests : Begin(r, p, s) \/ Reject(r, p, s)
  BY DEF Request
<1>3. phase[r] = "idle" /\ Keys(s) \in SUBSET Objects /\ Keys(s) # {}
  BY <1>2, RequestKeys DEF Begin, Reject
<1>4. Lock!Asks(r, Keys(s)) /\ r \notin PastRuns /\ HeldByRun[r] = {}
  BY <1>3 DEF Lock!Asks, HeldByRun, PastRuns, Holding
<1>5. \A q \in Runs \ {r} : phase'[q] = phase[q] /\ items'[q] = items[q]
  BY <1>1, <1>2 DEF Begin, Reject
<1>6. CASE Begin(r, p, s)
  <2>1. phase'[r] = "preparing" /\ items'[r] = s /\ "preparing" \in Holding
    BY <1>1, <1>6 DEF Begin, Holding
  <2>2. HeldByRun' = [HeldByRun EXCEPT ![r] = Keys(s)] /\ PastRuns' = PastRuns
    BY <1>4, <1>5, <2>1, OneRunMoves
  <2>3. ~Lock!Taken(Keys(s))
    BY <1>6, OverlapIsTaken DEF Begin
  <2>4. Lock!Acquire(r, Keys(s))
    BY <1>4, <2>2, <2>3 DEF Lock!Acquire
  <2>5. HoldersHaveKeys'
    BY <1>3, <1>5, <2>1 DEF HoldersHaveKeys
  <2> QED BY <1>3, <2>4, <2>5 DEF Lock!Next
<1>7. CASE Reject(r, p, s)
  <2>1. phase'[r] = "rejected" /\ "rejected" \notin {"idle"} \cup Holding
    BY <1>1, <1>7 DEF Reject, Holding
  <2>2. HeldByRun' = HeldByRun /\ PastRuns' = PastRuns \cup {r}
    <3>1. HeldByRun' = [HeldByRun EXCEPT ![r] = {}] /\ PastRuns' = PastRuns \cup {r}
      BY <1>5, <2>1, OneRunMoves
    <3>2. HeldByRun = [q \in Runs |-> HeldByRun[q]]
      BY DEF HeldByRun
    <3> QED BY <1>4, <3>1, <3>2
  <2>3. Lock!Taken(Keys(s))
    BY <1>7, OverlapIsTaken DEF Reject
  <2>4. Lock!Refuse(r, Keys(s))
    BY <1>4, <2>2, <2>3 DEF Lock!Refuse
  <2>5. HoldersHaveKeys'
    BY <1>5, <2>1 DEF HoldersHaveKeys
  <2> QED BY <1>3, <2>4, <2>5 DEF Lock!Next
<1> QED BY <1>2, <1>6, <1>7

\* The end or the failure of a run frees its keys; no other step of it does.
LEMMA RunStepLocks ==
  ASSUME IInv, HoldersHaveKeys, NEW r \in Runs, RunStep(r)
  PROVE  (Lock!Next \/ UNCHANGED LockView) /\ HoldersHaveKeys'
<1>1. phase \in [Runs -> Phases]
  BY DEF IInv, TypeOK
<1>2. UNCHANGED items
  <2>1. CASE CopyStep(r)
    BY <2>1 DEF CopyStep, HeadDestination, FetchSource, Upload, CopyFails, Advance, reports
  <2>2. CASE VerifyStep(r)
    BY <2>2 DEF VerifyStep, HeadSource, HeadArchive, HashSource, CompareArchive, RecheckSource,
                VerifyFails, DeleteSource, DeleteFails, Advance, reports
  <2>3. CASE ~CopyStep(r) /\ ~VerifyStep(r)
    BY <2>3 DEF RunStep, Abort, Release, Prepare, StartVerification, Finish, WriteAudit, WriteReport, reports
  <2> QED BY <2>1, <2>2, <2>3
<1>3. CASE CopyStep(r) \/ VerifyStep(r)
  <2>1. UNCHANGED phase
    <3>1. CASE CopyStep(r)
      BY <3>1 DEF CopyStep, HeadDestination, FetchSource, Upload, CopyFails, Advance
    <3>2. CASE VerifyStep(r)
      BY <3>2 DEF VerifyStep, HeadSource, HeadArchive, HashSource, CompareArchive, RecheckSource,
                  VerifyFails, DeleteSource, DeleteFails, Advance
    <3> QED BY <1>3, <3>1, <3>2
  <2> QED BY <1>2, <2>1 DEF LockView, HeldByRun, PastRuns, HoldersHaveKeys
<1>4. CASE Abort(r) \/ Finish(r)
  <2>1. PICK ph \in {"failed", "auditing"} : phase' = [phase EXCEPT ![r] = ph] /\ phase[r] \in Holding
    BY <1>4 DEF Abort, Finish, Release, Holding
  <2>2. phase'[r] \notin {"idle"} \cup Holding /\ \A q \in Runs \ {r} : phase'[q] = phase[q]
    BY <1>1, <2>1 DEF Holding
  <2>3. HeldByRun' = [HeldByRun EXCEPT ![r] = {}] /\ PastRuns' = PastRuns \cup {r}
    BY <1>2, <2>2, OneRunMoves
  <2>4. HeldByRun[r] # {}
    BY <2>1 DEF HeldByRun, HoldersHaveKeys
  <2>5. Lock!Release(r)
    BY <2>3, <2>4 DEF Lock!Release
  <2> QED BY <1>2, <2>2, <2>5 DEF Lock!Next, HoldersHaveKeys
<1>5. CASE Prepare(r) \/ StartVerification(r) \/ WriteAudit(r) \/ WriteReport(r)
  <2>1. \A q \in Runs : /\ phase'[q] \in Holding <=> phase[q] \in Holding
                        /\ phase'[q] = "idle" <=> phase[q] = "idle"
    BY <1>1, <1>5 DEF Prepare, StartVerification, WriteAudit, WriteReport, Holding
  <2> QED BY <1>2, <2>1 DEF LockView, HeldByRun, PastRuns, HoldersHaveKeys
<1> QED BY <1>3, <1>4, <1>5 DEF RunStep

LEMMA CrashLocks ==
  ASSUME IInv, HoldersHaveKeys, Crash
  PROVE  Lock!Next /\ HoldersHaveKeys'
<1>1. /\ \A r \in Runs : phase'[r] = IF phase[r] \in Ended \cup {"idle"} THEN phase[r] ELSE "crashed"
      /\ UNCHANGED items
  BY DEF Crash, reports
<1>2. \A r \in Runs : phase'[r] \notin Holding /\ (phase'[r] = "idle" <=> phase[r] = "idle")
  BY <1>1 DEF Holding, Ended
<1>3. HeldByRun' = [r \in Runs |-> {}]
  BY <1>2 DEF HeldByRun
<1>4. \A r \in Runs : HeldByRun[r] # {} <=> phase[r] \in Holding
  BY DEF HeldByRun, HoldersHaveKeys
<1>5. PastRuns' = {r \in Runs : phase[r] # "idle"}
  BY <1>2 DEF PastRuns
<1>6. PastRuns' = PastRuns \cup {r \in Runs : HeldByRun[r] # {}}
  BY <1>4, <1>5 DEF PastRuns, Holding
<1> QED BY <1>2, <1>3, <1>6 DEF HoldersHaveKeys, Lock!Next, Lock!Stop

LEMMA StepsLock ==
  IInv /\ HoldersHaveKeys /\ [Next]_vars => [Lock!Next]_LockView /\ HoldersHaveKeys'
<1> SUFFICES ASSUME IInv, HoldersHaveKeys, [Next]_vars
             PROVE  (Lock!Next \/ UNCHANGED LockView) /\ HoldersHaveKeys'
  OBVIOUS
<1>1. ASSUME NEW r \in Runs, Request(r) PROVE Lock!Next /\ HoldersHaveKeys'
  BY <1>1, RequestLocks
<1>2. ASSUME NEW r \in Runs, RunStep(r) PROVE (Lock!Next \/ UNCHANGED LockView) /\ HoldersHaveKeys'
  BY <1>2, RunStepLocks
<1>3. CASE Crash
  BY <1>3, CrashLocks
<1>4. CASE Tenants \/ UNCHANGED vars
  <2>1. UNCHANGED <<phase, items>>
    BY <1>4 DEF Tenants, TenantWrite, TenantRemove, reports, vars
  <2> QED BY <2>1 DEF LockView, HeldByRun, PastRuns, HoldersHaveKeys
<1> QED BY <1>1, <1>2, <1>3, <1>4 DEF Next

\* The one set of active keys behaves as a lock on every key, for any number
\* of runs: a run gets all its keys or none, is refused only by a run that has
\* one of them, and whether it ends, fails or is stopped, none stays behind.
THEOREM RunsAreLocked == Spec => RunsLocked
<1>1. Init => Lock!Init /\ HoldersHaveKeys
  BY LockInit
<1>2. IInv /\ HoldersHaveKeys /\ [Next]_vars => [Lock!Next]_LockView /\ HoldersHaveKeys'
  BY StepsLock
<1>3. Spec => Lock!Init /\ [][Lock!Next]_LockView
  BY <1>1, <1>2, InvariantHolds, PTL DEF Spec
<1> QED BY <1>3 DEF RunsLocked, Lock!Spec, LockView

=============================================================================
