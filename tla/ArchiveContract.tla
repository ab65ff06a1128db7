--------------------------- MODULE ArchiveContract ---------------------------
(***************************************************************************)
(* What the archive-and-delete flow promises, without runs, threads, locks *)
(* or calls: a file of a provider goes only after, in one instant, it and  *)
(* the archive held the same bytes; and those bytes then stay in the       *)
(* archive until it is gone or the promise is withdrawn.                   *)
(*                                                                         *)
(* What the tenants do to their files is counted, so that a removal by the *)
(* flow cannot pass for one of theirs.  The contract does not promise that *)
(* the file is still the same when it goes: a tenant may have written it   *)
(* after that instant.                                                     *)
(***************************************************************************)
EXTENDS Naturals

CONSTANTS
  Providers,   \* the storage providers
  Files,       \* names of tenants' objects
  Contents,    \* what an object's bytes may be
  Versions,    \* what a file may be: records with a content
  Absent       \* no object

VARIABLES
  source,      \* source[p][f]: the version of file f at provider p, or Absent
  archive,     \* archive[f]: the archived bytes under the name f, or Absent
  verified,    \* the versions that have been found in the archive
  changes      \* how many times tenants wrote or removed a file

Init ==
  /\ source \in [Providers -> [Files -> Versions \cup {Absent}]]
  /\ archive \in [Files -> Contents \cup {Absent}]
  /\ verified = {}
  /\ changes = 0

\* A tenant writes or removes a file.
Change ==
  /\ \E p \in Providers, f \in Files, v \in Versions \cup {Absent} :
       source' = [source EXCEPT ![p][f] = v]
  /\ changes' = changes + 1
  /\ UNCHANGED <<archive, verified>>

\* Bytes come into the archive under a name nothing verified relies on.
Archive ==
  /\ \E f \in Files, c \in Contents :
       /\ \A x \in verified : x.file # f
       /\ archive' = [archive EXCEPT ![f] = c]
  /\ UNCHANGED <<source, verified, changes>>

\* In one instant, the file and the archive hold the same bytes.
Verify ==
  /\ \E p \in Providers, f \in Files :
       /\ source[p][f] # Absent /\ archive[f] = source[p][f].content
       /\ verified' = verified \cup {[provider |-> p, file |-> f, version |-> source[p][f]]}
  /\ UNCHANGED <<source, archive, changes>>

\* A verified file is removed: the only way a file goes without its tenant.
Delete ==
  /\ \E x \in verified : source' = [source EXCEPT ![x.provider][x.file] = Absent]
  /\ verified' \in SUBSET verified
  /\ UNCHANGED <<archive, changes>>

\* What was verified is given up.
Withdraw ==
  /\ verified' \in SUBSET verified
  /\ UNCHANGED <<source, archive, changes>>

Next == Change \/ Archive \/ Verify \/ Delete \/ Withdraw

Spec == Init /\ [][Next]_<<source, archive, verified, changes>>
=============================================================================
