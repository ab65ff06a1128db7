------------------------- MODULE ArchiveRunContract -------------------------
(***************************************************************************)
(* The archive runs implement ArchiveContract and KeyLock.  The five calls *)
(* with which a worker verifies an item (two HEADs, a hash of the source,  *)
(* a download of the archive copy, a last HEAD) count as one instant, the  *)
(* last HEAD, although other runs, tenants and stops come between them.    *)
(***************************************************************************)
EXTENDS ArchiveRun

\* The tenants' objects of each provider.
SourceFiles == [p \in Providers |-> [o \in TenantObjects |-> store[p][o]]]

\* The bytes in the archive under each of their names.
ArchivedFiles ==
  [o \in TenantObjects |->
     LET a == store[ArchiveProvider][ArchivePath(o)]
     IN  IF a = Absent THEN Absent ELSE a.content]

Verified(r, i) == [provider |-> provider[r], file |-> items[r][i], version |-> seen[r][i]]

\* The items that have passed the last HEAD and whose source is not yet gone.
VerifiedItems ==
  UNION {{Verified(r, i) : i \in {k \in Items(r) : stage[r][k] = "verified"}} :
         r \in {q \in Runs : phase[q] = "verifying"}}

Contract == INSTANCE ArchiveContract WITH
  Files <- TenantObjects, source <- SourceFiles, archive <- ArchivedFiles,
  verified <- VerifiedItems, changes <- writes

\* Every behaviour of the runs is one the contract allows: no run changes a
\* source but by removing one whose item is verified, every other change is one
\* that a tenant made, and nothing replaces in the archive what was verified.
ContractKept == Contract!Spec

\* The lock, owner by owner: _single_archive_run has one set for all of them.
HeldByRun == [r \in Runs |-> IF phase[r] \in Holding THEN Keys(items[r]) ELSE {}]

\* The runs that have been refused, or have given their keys back.
PastRuns == {r \in Runs : phase[r] \notin {"idle"} \cup Holding}

Lock == INSTANCE KeyLock WITH Owners <- Runs, Resources <- Objects, held <- HeldByRun, past <- PastRuns

\* The set of active keys behaves as a lock on each key: a run is refused only
\* by one that has a key of its report, and its end or failure frees them all.
RunsLocked == Lock!Spec
=============================================================================
