---------------------- MODULE ReconciliationScanProofs ----------------------
(***************************************************************************)
(* Proofs about ReconciliationScan, for all values of its constants: the   *)
(* types, that a scan without errors matches the files that stable         *)
(* references name and keeps them out of its orphans, and that it leaves   *)
(* no checkpoint behind but those whose removal fails.                     *)
(***************************************************************************)
EXTENDS ReconciliationScan, FiniteSetTheorems, TLAPS

\* A row of item i that no tenant touches, and that a scan reads.
Kept(i, n) == <<i, n>> \in Pinned /\ Listed(i, n)

\* refs holds every such row of item i.
Whole(refs, i) == \A n \in Rows : Kept(i, n) => data[i][n] \in refs

\* A pinned row is always there.
PinnedPresent ==
  \A i \in Items : \A n \in Rows : <<i, n>> \in Pinned => data[i][n] # None

\* What a worker has read holds the pinned rows up to its cursor.
PagesKept ==
  \A s \in Scans : \A i \in Items : \A n \in Rows :
    /\ Kept(i, n)
    /\ stage[s][i] = "read" \/ (stage[s][i] = "reading" /\ n <= cursor[s][i])
    => data[i][n] \in found[s][i]

\* An item that is done, without an error and not in another region, is whole.
ResultsWhole ==
  \A s \in Scans : \A i \in Items :
    stage[s][i] = "done" /\ i \notin errors[s] \cup Foreign => Whole(found[s][i], i)

\* So is every checkpoint file.
CheckpointsWhole == \A i \in Items : saved[i] # None => Whole(saved[i], i)

\* What is in a bucket, and was read or saved of it, are objects.
BucketsListed ==
  \A i \in Buckets :
    /\ \A n \in Rows : data[i][n] \in Objects \cup {None}
    /\ saved[i] \in {None} \cup SUBSET Objects
    /\ \A s \in Scans : found[s][i] \in SUBSET Objects

\* The phases that come after the items of each kind have been read.
AfterMappings == {"storage", "clearing", "content", "clearingContent", "reporting", "done"}
AfterBuckets  == {"clearing", "content", "clearingContent", "reporting", "done"}
AfterColumns  == {"clearingContent", "reporting", "done"}
PhasesInOrder ==
  \A s \in Scans :
    /\ phase[s] \in AfterMappings => \A i \in Mappings : stage[s][i] = "done"
    /\ phase[s] \in AfterBuckets => \A i \in Buckets : stage[s][i] = "done"
    /\ phase[s] \in AfterColumns => \A i \in Columns : stage[s][i] = "done"

ReportsCompared == \A s \in Scans : phase[s] = "done" => report[s] = Compared(s)

IInv ==
  /\ TypeOK /\ PinnedPresent /\ PagesKept /\ ResultsWhole /\ CheckpointsWhole
  /\ BucketsListed /\ PhasesInOrder /\ ReportsCompared

-----------------------------------------------------------------------------
(* Pages.                                                                  *)

\* A finite set of numbers that is not empty has a least element.
LEMMA LeastElement ==
  ASSUME NEW S \in SUBSET Nat, IsFiniteSet(S), S # {}
  PROVE  \E n \in S : \A m \in S : n <= m
<1> DEFINE below(n) == {m \in S : m < n}
           T == {below(n) : n \in S}
           R == StrictSubsetOrdering(S)
<1>1. IsWellFoundedOn(R, FiniteSubsetsOf(S))
  BY FS_StrictSubsetOrderingWellFounded
<1>2. T \subseteq FiniteSubsetsOf(S)
  BY FS_Subset DEF FiniteSubsetsOf
<1>3. T # {}
  OBVIOUS
<1> HIDE DEF T, R
<1>4. PICK x \in T : \A y \in T : <<y, x>> \notin R
  BY <1>1, <1>2, <1>3, WFMin
<1>5. PICK n \in S : x = below(n)
  BY <1>4 DEF T
<1>6. ASSUME NEW m \in S, m < n PROVE FALSE
  <2>1. \A k \in S : k \in Nat
    OBVIOUS
  <2>2. below(m) \in SUBSET below(n)
    <3>1. \A k \in Nat : k < m => k < n
      BY <1>6, <2>1
    <3> QED BY <2>1, <3>1, Zenon
  <2>3. m \in below(n) /\ m \notin below(m)
    BY <1>6, <2>1
  <2>4. <<below(m), below(n)>> \in R
    BY <2>2, <2>3 DEF R, StrictSubsetOrdering
  <2> QED BY <1>4, <1>5, <2>4 DEF T
<1> QED BY <1>6

\* and a greatest one.
LEMMA GreatestElement ==
  ASSUME NEW S \in SUBSET Nat, IsFiniteSet(S), S # {}
  PROVE  \E n \in S : \A m \in S : m <= n
<1> DEFINE above(n) == {m \in S : n < m}
           T == {above(n) : n \in S}
           R == StrictSubsetOrdering(S)
<1>1. IsWellFoundedOn(R, FiniteSubsetsOf(S))
  BY FS_StrictSubsetOrderingWellFounded
<1>2. T \subseteq FiniteSubsetsOf(S)
  BY FS_Subset DEF FiniteSubsetsOf
<1>3. T # {}
  OBVIOUS
<1> HIDE DEF T, R
<1>4. PICK x \in T : \A y \in T : <<y, x>> \notin R
  BY <1>1, <1>2, <1>3, WFMin
<1>5. PICK n \in S : x = above(n)
  BY <1>4 DEF T
<1>6. ASSUME NEW m \in S, n < m PROVE FALSE
  <2>1. \A k \in S : k \in Nat
    OBVIOUS
  <2>2. above(m) \in SUBSET above(n)
    <3>1. \A k \in Nat : m < k => n < k
      BY <1>6, <2>1
    <3> QED BY <2>1, <3>1, Zenon
  <2>3. m \in above(n) /\ m \notin above(m)
    BY <1>6, <2>1
  <2>4. <<above(m), above(n)>> \in R
    BY <2>2, <2>3 DEF R, StrictSubsetOrdering
  <2> QED BY <1>4, <1>5, <2>4 DEF T
<1> QED BY <1>6

LEMMA RowsFinite == Rows \in SUBSET Nat /\ IsFiniteSet(Rows)
  BY OrderAssumption, FS_Interval DEF Rows

LEMMA AfterFinite ==
  ASSUME NEW i, NEW last
  PROVE  /\ After(i, last) \in SUBSET Nat /\ IsFiniteSet(After(i, last))
         /\ \A n : IsFiniteSet({m \in After(i, last) : m < n})
         /\ \A n : Cardinality({m \in After(i, last) : m < n}) \in Nat
<1>1. After(i, last) \subseteq Rows
  BY DEF After, Present
<1>2. \A I \in SUBSET Rows : IsFiniteSet(I) /\ Cardinality(I) \in Nat
  BY RowsFinite, FS_Subset, FS_CardinalityType
<1> QED BY <1>1, <1>2, RowsFinite

\* Pages have no holes: a row before one of the page is on the page.
LEMMA PageClosed ==
  ASSUME NEW i, NEW last, NEW n \in After(i, last), NEW p \in Page(i, last), n <= p
  PROVE  n \in Page(i, last)
<1> DEFINE below(x) == {m \in After(i, last) : m < x}
<1>1. below(n) \subseteq below(p) /\ n \in Nat /\ p \in Nat
  BY AfterFinite DEF Page
<1>2. Cardinality(below(n)) <= Cardinality(below(p))
  BY <1>1, AfterFinite, FS_Subset
<1>3. Cardinality(below(p)) < Batch
  BY DEF Page
<1> QED BY <1>2, <1>3, AfterFinite, NumbersAssumption DEF Page

\* A page of a column with fewer than Batch rows is the last one.
LEMMA ShortPageIsLast ==
  ASSUME NEW i, NEW last, Cardinality(Page(i, last)) # Batch
  PROVE  Page(i, last) = After(i, last)
<1> DEFINE A == After(i, last)
           P == Page(i, last)
           below(x) == {m \in A : m < x}
<1>1. P \subseteq A /\ IsFiniteSet(P) /\ P \in SUBSET Nat
  BY AfterFinite, FS_Subset DEF Page
<1>2. SUFFICES ASSUME P # A PROVE Cardinality(P) = Batch
  OBVIOUS
<1>3. PICK n \in A \ P : \A m \in A \ P : n <= m
  <2>1. A \ P # {} /\ A \ P \in SUBSET Nat /\ IsFiniteSet(A \ P)
    BY <1>1, <1>2, AfterFinite, FS_Subset
  <2> QED BY <2>1, LeastElement
<1>4. P = below(n)
  <2>1. \A p \in P : p < n
    BY <1>1, <1>3, PageClosed, AfterFinite
  <2>2. \A m \in below(n) : m \in P
    BY <1>3, AfterFinite
  <2> QED BY <1>1, <2>1, <2>2
<1>5. Cardinality(P) >= Batch
  <2>1. ~(Cardinality(below(n)) < Batch)
    BY <1>3 DEF Page
  <2>2. Cardinality(below(n)) \in Nat
    BY AfterFinite
  <2> QED BY <1>4, <2>1, <2>2, NumbersAssumption
<1>6. P # {}
  BY <1>5, FS_EmptySet, NumbersAssumption
<1>7. PICK p \in P : \A m \in P : m <= p
  BY <1>1, <1>6, GreatestElement
<1>8. below(p) = P \ {p}
  BY <1>1, <1>7, PageClosed, AfterFinite
<1>9. Cardinality(P) - 1 < Batch
  BY <1>1, <1>8, FS_RemoveElement DEF Page
<1>10. Cardinality(P) \in Nat
  BY <1>1, FS_CardinalityType
<1> QED BY <1>5, <1>9, <1>10, NumbersAssumption

\* A page moves the cursor over rows it has, and only over those; when there
\* is no more, it has them all.
LEMMA PageComplete ==
  ASSUME NEW i, NEW last \in Rows \cup {0}
  PROVE  /\ LastOf(Page(i, last), last) \in Rows \cup {0}
         /\ \A n \in Present(i) : last < n /\ n <= LastOf(Page(i, last), last) => n \in Page(i, last)
         /\ ~HasMore(i, last) => \A n \in Present(i) : last < n => n \in Page(i, last)
<1> DEFINE P == Page(i, last)
<1>1. P \in SUBSET Nat /\ IsFiniteSet(P) /\ P \subseteq Rows /\ P \subseteq After(i, last)
  BY AfterFinite, FS_Subset DEF Page, After, Present
<1>2. CASE P = {}
  BY <1>2, ShortPageIsLast, FS_EmptySet, NumbersAssumption, RowsFinite DEF LastOf, HasMore, After
<1>3. CASE P # {}
  <2>1. LastOf(P, last) \in P /\ \A m \in P : m <= LastOf(P, last)
    BY <1>1, <1>3, GreatestElement DEF LastOf
  <2>2. \A n \in Present(i) : last < n => n \in After(i, last)
    BY DEF After, Present
  <2>3. ~HasMore(i, last) => P = After(i, last)
    BY ShortPageIsLast DEF HasMore
  <2> QED BY <1>1, <2>1, <2>2, <2>3, PageClosed
<1> QED BY <1>2, <1>3

-----------------------------------------------------------------------------
(* A step of a worker.                                                     *)

\* What the worker of item i may make of it: stage st, cursor cur, and refs.
Sound(s, i, st, cur, refs) ==
  /\ st \in {"reading", "read", "done", "died"}
  /\ cur \in Rows \cup {0}
  /\ refs \in SUBSET Entries
  /\ i \in Buckets => refs \in SUBSET Objects
  /\ st = "reading" => \A n \in Rows : Kept(i, n) /\ n <= cur => data[i][n] \in refs
  /\ st = "read" => Whole(refs, i)
  /\ st = "done" /\ i \notin errors'[s] \cup Foreign => Whole(refs, i)

\* A worker changes the state of its own item and nothing else, but for its
\* error and a checkpoint file that is whole.
WorkKeeps(s, i) ==
  /\ phase[s] \in Reading /\ stage[s][i] \in {"waiting", "reading", "read"}
  /\ \E st, cur, refs : Sound(s, i, st, cur, refs) /\ Advance(s, i, st, cur, refs)
  /\ tries' \in [Scans -> [Items -> 0..(Attempts - 1)]]
  /\ users' \in [Items -> SUBSET Scans]
  /\ \E e \in SUBSET {i} : errors' = [errors EXCEPT ![s] = @ \cup e]
  /\ \/ UNCHANGED saved
     \/ \E refs \in SUBSET Entries :
          Whole(refs, i) /\ (i \in Buckets => refs \in SUBSET Objects) /\ saved' = [saved EXCEPT ![i] = refs]
  /\ UNCHANGED <<data, changes, phase, removing, report>>

LEMMA DataTyped ==
  ASSUME IInv, NEW i \in Items, NEW n \in Present(i)
  PROVE  n \in Rows /\ data[i][n] \in Entries /\ (i \in Buckets => data[i][n] \in Objects)
BY DEF IInv, TypeOK, BucketsListed, Present

LEMMA WorkShape ==
  ASSUME IInv, NEW s \in Scans, NEW i \in Items, Work(s, i)
  PROVE  WorkKeeps(s, i)
<1> USE DEF Advance, Sound, WorkKeeps
<1>t. /\ saved \in [Items -> {None} \cup SUBSET Entries]
      /\ tries \in [Scans -> [Items -> 0..(Attempts - 1)]]
      /\ users \in [Items -> SUBSET Scans]
      /\ cursor[s][i] \in Rows \cup {0}
      /\ found[s][i] \in SUBSET Entries
      /\ i \in Buckets => found[s][i] \in SUBSET Objects
      /\ errors \in [Scans -> SUBSET Items]
      /\ 0 \in 0..(Attempts - 1)
  BY NumbersAssumption DEF IInv, TypeOK, BucketsListed
<1>e. errors = [errors EXCEPT ![s] = @ \cup {}]
  BY <1>t
<1>0. 0 \in Rows \cup {0} /\ {} \in SUBSET Entries /\ \A n \in Rows : ~(n <= 0)
  BY RowsFinite, OrderAssumption DEF Rows
<1>1. CASE LoadCheckpoint(s, i)
  <2>1. /\ saved[i] \in SUBSET Entries /\ Whole(saved[i], i)
        /\ i \in Buckets => saved[i] \in SUBSET Objects
    BY <1>1, <1>t DEF LoadCheckpoint, IInv, CheckpointsWhole, BucketsListed
  <2>2. phase[s] \in Reading /\ stage[s][i] = "waiting" /\ Advance(s, i, "done", 0, saved[i])
    BY <1>1 DEF LoadCheckpoint, At
  <2>3. Sound(s, i, "done", 0, saved[i])
    BY <2>1, <1>0
  <2>4. UNCHANGED <<data, changes, saved, phase, tries, errors, removing, report>>
    BY <1>1 DEF LoadCheckpoint
  <2>5. users' \in [Items -> SUBSET Scans]
    BY <1>t, <1>1 DEF LoadCheckpoint
  <2> HIDE DEF Advance, Sound
  <2> QED BY <1>t, <1>e, <2>2, <2>3, <2>4, <2>5
<1>2. CASE LoadFails(s, i)
  <2>1. Sound(s, i, "died", 0, {})
    BY <1>0
  <2>2. phase[s] \in Reading /\ stage[s][i] = "waiting" /\ Advance(s, i, "died", 0, {})
    BY <1>2 DEF LoadFails, At
  <2>3. UNCHANGED <<data, changes, saved, phase, tries, errors, removing, report, users>>
    BY <1>2 DEF LoadFails
  <2> HIDE DEF Advance, Sound
  <2> QED BY <1>t, <1>e, <2>1, <2>2, <2>3
<1>3. CASE BeginRead(s, i)
  <2>1. Sound(s, i, "reading", 0, {})
    BY <1>0
  <2>2. phase[s] \in Reading /\ stage[s][i] = "waiting" /\ Advance(s, i, "reading", 0, {})
    BY <1>3 DEF BeginRead, At
  <2>3. UNCHANGED <<data, changes, saved, phase, tries, errors, removing, report, users>>
    BY <1>3 DEF BeginRead
  <2> HIDE DEF Advance, Sound
  <2> QED BY <1>t, <1>e, <2>1, <2>2, <2>3
<1>4. CASE ReadPage(s, i)
  <2> DEFINE last == cursor[s][i]
             page == Page(i, last)
             st   == IF HasMore(i, last) THEN "reading" ELSE "read"
             cur  == LastOf(page, last)
             refs == found[s][i] \cup {data[i][n] : n \in page}
  <2>1. phase[s] \in Reading /\ stage[s][i] = "reading" /\ Advance(s, i, st, cur, refs)
    BY <1>4 DEF ReadPage, At
  <2>2. page \subseteq Present(i)
    BY DEF Page, After
  <2>3. /\ cur \in Rows \cup {0} /\ refs \in SUBSET Entries
        /\ i \in Buckets => refs \in SUBSET Objects
    BY <1>t, <2>2, DataTyped, PageComplete
  <2>4. ASSUME NEW n \in Rows, Kept(i, n), n <= cur \/ st = "read"
        PROVE  data[i][n] \in refs
    <3>1. n \in Present(i)
      BY <2>4 DEF IInv, PinnedPresent, Present, Kept
    <3>2. CASE n <= last
      BY <2>1, <2>4, <3>2 DEF IInv, PagesKept
    <3>3. CASE last < n
      <4>1. n \in page
        BY <1>t, <2>4, <3>1, <3>3, PageComplete
      <4> QED BY <4>1
    <3>4. n <= last \/ last < n
      <4>1. n \in Nat /\ last \in Nat
        BY <1>t, RowsFinite
      <4> HIDE DEF last
      <4> QED BY <4>1
    <3> HIDE DEF last, page, st, cur, refs
    <3> QED BY <3>2, <3>3, <3>4, Zenon
  <2>5. Sound(s, i, st, cur, refs)
    BY <2>3, <2>4 DEF Whole
  <2>6. UNCHANGED <<data, changes, saved, phase, tries, errors, removing, report, users>>
    BY <1>4 DEF ReadPage
  <2> HIDE DEF Advance, Sound, st, cur, refs
  <2> QED BY <1>t, <1>e, <2>1, <2>5, <2>6
<1>5. CASE Retry(s, i)
  <2>1. Sound(s, i, "reading", 0, {})
    BY <1>0
  <2>2. phase[s] \in Reading /\ stage[s][i] = "reading" /\ Advance(s, i, "reading", 0, {})
    BY <1>5 DEF Retry, At
  <2>3. UNCHANGED <<data, changes, saved, phase, errors, removing, report, users>>
    BY <1>5 DEF Retry
  <2>4. tries' \in [Scans -> [Items -> 0..(Attempts - 1)]]
    <3>1. tries[s][i] + 1 \in 0..(Attempts - 1)
      BY <1>t, <1>5, NumbersAssumption DEF Retry
    <3> QED BY <1>t, <1>5, <3>1 DEF Retry
  <2> HIDE DEF Advance, Sound
  <2> QED BY <1>t, <1>e, <2>1, <2>2, <2>3, <2>4
<1>6. ASSUME Fail(s, i), phase[s] \in Reading, stage[s][i] \in {"reading", "read"}
      PROVE  WorkKeeps(s, i)
  <2>1. Sound(s, i, "done", 0, {})
    BY <1>0, <1>t, <1>6 DEF Fail
  <2>2. Advance(s, i, "done", 0, {}) /\ UNCHANGED <<data, changes, saved, phase, removing, report, users>>
    BY <1>6 DEF Fail
  <2>3. tries' \in [Scans -> [Items -> 0..(Attempts - 1)]]
    BY <1>t, <1>6 DEF Fail
  <2>4. \E e \in SUBSET {i} : errors' = [errors EXCEPT ![s] = @ \cup e]
    BY <1>e, <1>6 DEF Fail
  <2> HIDE DEF Advance, Sound
  <2> QED BY <1>t, <1>6, <2>1, <2>2, <2>3, <2>4
<1>7. CASE GiveUp(s, i)
  BY <1>6, <1>7 DEF GiveUp, At
<1>8. CASE SaveFails(s, i)
  BY <1>6, <1>8 DEF SaveFails, At
<1>9. CASE SaveCheckpoint(s, i)
  <2>1. phase[s] \in Reading /\ stage[s][i] = "read" /\ Advance(s, i, "done", 0, found[s][i])
    BY <1>9 DEF SaveCheckpoint, At
  <2>2. Whole(found[s][i], i)
    BY <2>1 DEF IInv, PagesKept, Whole
  <2>3. Sound(s, i, "done", 0, found[s][i])
    BY <1>0, <1>t, <2>2
  <2>4. tries' \in [Scans -> [Items -> 0..(Attempts - 1)]]
    BY <1>t, <1>9 DEF SaveCheckpoint
  <2>5. saved' = [saved EXCEPT ![i] = found[s][i]]
        /\ UNCHANGED <<data, changes, phase, errors, removing, report>>
    BY <1>9 DEF SaveCheckpoint
  <2>6. users' \in [Items -> SUBSET Scans]
    BY <1>t, <1>9 DEF SaveCheckpoint
  <2> HIDE DEF Advance, Sound
  <2> QED BY <1>t, <1>e, <2>1, <2>2, <2>3, <2>4, <2>5, <2>6
<1> QED BY <1>1, <1>2, <1>3, <1>4, <1>5, <1>7, <1>8, <1>9 DEF Work

\* The report depends on what was found alone.
LEMMA ComparedSame ==
  ASSUME NEW s \in Scans, found'[s] = found[s]
  PROVE  Compared(s)' = Compared(s)
<1>1. StorageObjects(s)' = StorageObjects(s)
  BY DEF StorageObjects
<1>2. DbKeys(s)' = DbKeys(s)
  BY DEF DbKeys
<1>3. ContentKeys(s)' = ContentKeys(s)
  BY DEF ContentKeys
<1> QED BY <1>1, <1>2, <1>3 DEF Compared

LEMMA WorkInv ==
  ASSUME IInv, NEW s \in Scans, NEW i \in Items, Work(s, i)
  PROVE  IInv'
<1>1. WorkKeeps(s, i)
  BY WorkShape
<1>2. PICK st, cur, refs : Sound(s, i, st, cur, refs) /\ Advance(s, i, st, cur, refs)
  BY <1>1 DEF WorkKeeps
<1>3. /\ stage' \in [Scans -> [Items -> {"waiting", "reading", "read", "done", "died"}]]
      /\ cursor' \in [Scans -> [Items -> Rows \cup {0}]]
      /\ found' \in [Scans -> [Items -> SUBSET Entries]]
      /\ \A p \in Scans : \A j \in Items :
           /\ stage'[p][j] = IF p = s /\ j = i THEN st ELSE stage[p][j]
           /\ cursor'[p][j] = IF p = s /\ j = i THEN cur ELSE cursor[p][j]
           /\ found'[p][j] = IF p = s /\ j = i THEN refs ELSE found[p][j]
  BY <1>2 DEF Advance, Sound, IInv, TypeOK
<1>4. /\ errors' \in [Scans -> SUBSET Items]
      /\ \A p \in Scans : errors[p] \subseteq errors'[p]
      /\ \A p \in Scans : p # s => errors'[p] = errors[p]
  BY <1>1 DEF WorkKeeps, IInv, TypeOK
<1>5. UNCHANGED <<data, changes, phase, removing, report>>
  BY <1>1 DEF WorkKeeps
<1>6. \A I, j : Whole(I, j)' <=> Whole(I, j)
  BY <1>5 DEF Whole
<1>7. saved' \in [Items -> {None} \cup SUBSET Entries] /\ CheckpointsWhole'
      /\ \A j \in Buckets : saved'[j] \in {None} \cup SUBSET Objects
  <2>1. CASE UNCHANGED saved
    BY <1>6, <2>1 DEF IInv, TypeOK, CheckpointsWhole, BucketsListed
  <2>2. CASE \E I \in SUBSET Entries :
               Whole(I, i) /\ (i \in Buckets => I \in SUBSET Objects) /\ saved' = [saved EXCEPT ![i] = I]
    BY <1>6, <2>2 DEF IInv, TypeOK, CheckpointsWhole, BucketsListed, Items
  <2> QED BY <1>1, <2>1, <2>2 DEF WorkKeeps
<1>8. TypeOK'
  BY <1>1, <1>3, <1>4, <1>5, <1>7 DEF IInv, TypeOK, WorkKeeps
<1>9. PinnedPresent'
  BY <1>5 DEF IInv, PinnedPresent
<1>10. PagesKept'
  <2> SUFFICES ASSUME NEW p \in Scans, NEW j \in Items, NEW n \in Rows, Kept(j, n),
                      stage'[p][j] = "read" \/ (stage'[p][j] = "reading" /\ n <= cursor'[p][j])
               PROVE  data[j][n] \in found'[p][j]
    BY <1>5 DEF PagesKept
  <2>1. CASE p = s /\ j = i
    BY <1>2, <1>3, <2>1 DEF Sound, Whole
  <2>2. CASE ~(p = s /\ j = i)
    BY <1>3, <2>2 DEF IInv, PagesKept
  <2> QED BY <2>1, <2>2
<1>11. ResultsWhole'
  <2> SUFFICES ASSUME NEW p \in Scans, NEW j \in Items,
                      stage'[p][j] = "done", j \notin errors'[p] \cup Foreign
               PROVE  Whole(found'[p][j], j)
    BY <1>6 DEF ResultsWhole, Whole
  <2>1. CASE p = s /\ j = i
    BY <1>2, <1>3, <2>1 DEF Sound
  <2>2. CASE ~(p = s /\ j = i)
    BY <1>3, <1>4, <2>2 DEF IInv, ResultsWhole
  <2> QED BY <2>1, <2>2
<1>12. PhasesInOrder'
  <2>1. \A p \in Scans : \A j \in Items : stage[p][j] = "done" => stage'[p][j] = "done"
    BY <1>1, <1>3 DEF WorkKeeps
  <2> QED BY <1>5, <2>1 DEF IInv, PhasesInOrder, Items
<1>13. ReportsCompared'
  <2> SUFFICES ASSUME NEW p \in Scans, phase[p] = "done"
               PROVE  report'[p] = Compared(p)'
    BY <1>5 DEF ReportsCompared
  <2>1. p # s
    BY <1>1 DEF WorkKeeps, Reading
  <2>2. found'[p] = found[p]
    BY <1>2, <2>1 DEF Advance, IInv, TypeOK
  <2>3. Compared(p)' = Compared(p)
    BY <2>2, ComparedSame
  <2> QED BY <1>5, <2>3 DEF IInv, ReportsCompared
<1>14. BucketsListed'
  <2>1. \A p \in Scans : \A j \in Buckets : found'[p][j] \in SUBSET Objects
    BY <1>2, <1>3 DEF Sound, IInv, BucketsListed, Items
  <2> QED BY <1>5, <1>7, <2>1 DEF IInv, BucketsListed
<1> QED BY <1>7, <1>8, <1>9, <1>10, <1>11, <1>12, <1>13, <1>14 DEF IInv

-----------------------------------------------------------------------------
(* The other steps.                                                        *)

\* A step of the phases reads nothing; it may write a report and remove files.
LEMMA PhaseShape ==
  ASSUME IInv, NEW s \in Scans, PhaseStep(s)
  PROVE  /\ UNCHANGED <<data, changes, stage, tries, cursor, found, errors>>
         /\ \E ph \in {"idle", "clearing", "clearingContent", "reporting"} \cup Reading \cup Ended :
              phase' = [phase EXCEPT ![s] = ph]
         /\ removing' \in [Scans -> SUBSET Items]
         /\ users' \in [Items -> SUBSET Scans]
         /\ saved' \in [Items -> {None} \cup SUBSET Entries]
         /\ \A i \in Items : saved'[i] \in {saved[i], None}
         /\ \/ UNCHANGED report /\ (phase'[s] = "done" => phase[s] = "done")
            \/ report' = [report EXCEPT ![s] = Compared(s)] /\ phase[s] = "reporting"
         /\ phase'[s] \in AfterMappings =>
              phase[s] \in AfterMappings \/ \A i \in Mappings : stage[s][i] = "done"
         /\ phase'[s] \in AfterBuckets =>
              phase[s] \in AfterBuckets \/ \A i \in Buckets : stage[s][i] = "done"
         /\ phase'[s] \in AfterColumns =>
              phase[s] \in AfterColumns \/ \A i \in Columns : stage[s][i] = "done"
<1>t. /\ phase \in [Scans -> {"idle", "clearing", "clearingContent", "reporting"} \cup Reading \cup Ended]
      /\ removing \in [Scans -> SUBSET Items]
      /\ users \in [Items -> SUBSET Scans]
      /\ saved \in [Items -> {None} \cup SUBSET Entries]
  BY DEF IInv, TypeOK
<1> USE DEF Goto, scanVars, Reading, Ended, AfterMappings, AfterBuckets, AfterColumns
<1>1. CASE Start(s)
  BY <1>1, <1>t DEF Start
<1>2. CASE ListBuckets(s)
  BY <1>2, <1>t DEF ListBuckets, PhaseOver, PhaseItems
<1>3. CASE CompareFiles(s)
  BY <1>3, <1>t DEF CompareFiles, PhaseOver, PhaseItems, ClearOrGoOn, SavedOf, Items
<1>4. CASE Protect(s)
  BY <1>4, <1>t DEF Protect, PhaseOver, PhaseItems, ClearOrGoOn, SavedOf, Items
<1>5. CASE ClearStep(s)
  BY <1>5, <1>t DEF ClearStep, RemoveFile, RemovalFails
<1>6. CASE Cleared(s)
  BY <1>6, <1>t DEF Cleared
<1>7. CASE Finish(s)
  BY <1>7, <1>t DEF Finish
<1>8. CASE ReportFails(s)
  BY <1>8, <1>t DEF ReportFails
<1>9. CASE ScanFails(s)
  BY <1>9, <1>t DEF ScanFails
<1> QED BY <1>1, <1>2, <1>3, <1>4, <1>5, <1>6, <1>7, <1>8, <1>9 DEF PhaseStep

\* What a scan reports are entries it may have read, and their keys.
LEMMA ComparedTyped ==
  ASSUME IInv, NEW s \in Scans
  PROVE  Compared(s) \in Reports
<1> DEFINE all == UNION {found[s][i] : i \in Buckets}
           refs == UNION {found[s][i] : i \in Mappings}
<1>1. all \subseteq Entries /\ refs \subseteq Entries
  BY DEF IInv, TypeOK, Items
<1>2. StorageObjects(s) \subseteq Entries
  BY <1>1 DEF StorageObjects
<1>3. DbKeys(s) \subseteq {e.key : e \in Entries}
  BY <1>1 DEF DbKeys
<1> QED BY <1>2, <1>3 DEF Compared, Reports

LEMMA PhaseInv ==
  ASSUME IInv, NEW s \in Scans, PhaseStep(s)
  PROVE  IInv'
<1>1. UNCHANGED <<data, changes, stage, tries, cursor, found, errors>>
  BY PhaseShape
<1>2. PICK ph \in {"idle", "clearing", "clearingContent", "reporting"} \cup Reading \cup Ended :
        phase' = [phase EXCEPT ![s] = ph]
  BY PhaseShape
<1>3. /\ phase' \in [Scans -> {"idle", "clearing", "clearingContent", "reporting"} \cup Reading \cup Ended]
      /\ \A p \in Scans : p # s => phase'[p] = phase[p]
  BY <1>2 DEF IInv, TypeOK
<1>4. TypeOK'
  <2>1. report' \in [Scans -> Reports]
    <3>1. UNCHANGED report \/ report' = [report EXCEPT ![s] = Compared(s)]
      BY PhaseShape
    <3>2. report \in [Scans -> Reports] /\ Compared(s) \in Reports
      BY ComparedTyped DEF IInv, TypeOK
    <3> QED BY <3>1, <3>2
  <2>2. /\ removing' \in [Scans -> SUBSET Items]
        /\ users' \in [Items -> SUBSET Scans]
        /\ saved' \in [Items -> {None} \cup SUBSET Entries]
    BY PhaseShape
  <2> QED BY <1>1, <1>3, <2>1, <2>2 DEF IInv, TypeOK
<1>5. PinnedPresent' /\ PagesKept' /\ ResultsWhole'
  BY <1>1 DEF IInv, PinnedPresent, PagesKept, ResultsWhole, Whole
<1>6. CheckpointsWhole'
  <2>1. \A i \in Items : saved'[i] \in {saved[i], None}
    BY PhaseShape
  <2> QED BY <1>1, <2>1 DEF IInv, CheckpointsWhole, Whole
<1>7. PhasesInOrder' /\ BucketsListed'
  <2>1. /\ phase'[s] \in AfterMappings =>
             phase[s] \in AfterMappings \/ \A i \in Mappings : stage[s][i] = "done"
        /\ phase'[s] \in AfterBuckets =>
             phase[s] \in AfterBuckets \/ \A i \in Buckets : stage[s][i] = "done"
        /\ phase'[s] \in AfterColumns =>
             phase[s] \in AfterColumns \/ \A i \in Columns : stage[s][i] = "done"
    BY PhaseShape
  <2>2. \A i \in Items : saved'[i] \in {saved[i], None}
    BY PhaseShape
  <2>3. PhasesInOrder'
    BY <1>1, <1>3, <2>1 DEF IInv, PhasesInOrder
  <2>4. BucketsListed'
    BY <1>1, <2>2 DEF IInv, BucketsListed, Items
  <2> QED BY <2>3, <2>4
<1>8. ReportsCompared'
  <2>1. \A p \in Scans : Compared(p)' = Compared(p)
    BY <1>1, ComparedSame
  <2>2. CASE UNCHANGED report /\ (phase'[s] = "done" => phase[s] = "done")
    BY <1>3, <2>1, <2>2 DEF IInv, ReportsCompared
  <2>3. CASE report' = [report EXCEPT ![s] = Compared(s)]
    <3>1. /\ report'[s] = Compared(s)
          /\ \A p \in Scans : p # s => report'[p] = report[p]
      BY <2>3 DEF IInv, TypeOK
    <3> QED BY <1>3, <2>1, <3>1 DEF IInv, ReportsCompared
  <2> QED BY <2>2, <2>3, PhaseShape
<1> QED BY <1>4, <1>5, <1>6, <1>7, <1>8 DEF IInv

\* A row of an item holds one of the entries the item may hold.
LEMMA RowsTyped ==
  ASSUME NEW i \in Items, NEW n \in Rows
  PROVE  RowValues(i, n) \subseteq Entries
<1>1. CASE i \in Buckets
  BY <1>1 DEF RowValues, Entries, Objects, Keys
<1>2. CASE i \notin Buckets
  BY <1>2 DEF RowValues, Entries, Items
<1> QED BY <1>1, <1>2

LEMMA ChangeInv ==
  ASSUME IInv, NEW i \in Items, NEW n \in Rows, Change(i, n)
  PROVE  IInv'
<1>1. UNCHANGED <<saved, phase, stage, tries, cursor, found, errors, removing, report, users>>
  BY DEF Change, scanVars
<1>2. PICK v \in RowValues(i, n) \cup {None} : data' = [data EXCEPT ![i][n] = v]
  BY DEF Change
<1>3. \A j \in Items : \A m \in Rows : <<j, m>> \in Pinned => data'[j][m] = data[j][m]
  BY <1>2 DEF Change, IInv, TypeOK
<1>4. TypeOK'
  <2>1. data' \in [Items -> [Rows -> Entries \cup {None}]]
    BY <1>2, RowsTyped DEF IInv, TypeOK
  <2>2. changes' \in 0..MaxChanges
    BY NumbersAssumption DEF Change, IInv, TypeOK
  <2> QED BY <1>1, <2>1, <2>2 DEF IInv, TypeOK
<1>5. \A I : \A j \in Items : Whole(I, j)' <=> Whole(I, j)
  BY <1>3 DEF Whole, Kept
<1>6. PinnedPresent'
  BY <1>3 DEF IInv, PinnedPresent
<1>7. PagesKept'
  BY <1>1, <1>3 DEF IInv, PagesKept, Kept
<1>8. ResultsWhole' /\ CheckpointsWhole'
  BY <1>1, <1>3 DEF IInv, ResultsWhole, CheckpointsWhole, Whole, Kept
<1>9. PhasesInOrder'
  BY <1>1 DEF IInv, PhasesInOrder
<1>10. BucketsListed'
  <2>1. i \in Buckets => RowValues(i, n) \subseteq Objects
    BY DEF RowValues, Objects, Keys
  <2> QED BY <1>1, <1>2, <2>1 DEF IInv, TypeOK, BucketsListed, Items
<1>11. ReportsCompared'
  BY <1>1, ComparedSame DEF IInv, ReportsCompared
<1> QED BY <1>4, <1>6, <1>7, <1>8, <1>9, <1>10, <1>11 DEF IInv

LEMMA StopInv ==
  ASSUME IInv, Stop
  PROVE  IInv'
<1>1. UNCHANGED <<data, changes, saved, stage, tries, cursor, found, errors, report, users>>
  BY DEF Stop, scanVars
<1>2. /\ phase' \in [Scans -> {"idle", "clearing", "clearingContent", "reporting"} \cup Reading \cup Ended]
      /\ \A s \in Scans : phase'[s] \in {phase[s], "stopped"}
      /\ removing' \in [Scans -> SUBSET Items]
  BY DEF Stop, IInv, TypeOK, Ended
<1>3. TypeOK'
  BY <1>1, <1>2 DEF IInv, TypeOK
<1>4. PinnedPresent' /\ PagesKept' /\ ResultsWhole' /\ CheckpointsWhole' /\ BucketsListed'
  BY <1>1 DEF IInv, PinnedPresent, PagesKept, ResultsWhole, CheckpointsWhole, BucketsListed, Whole
<1>5. PhasesInOrder'
  BY <1>1, <1>2 DEF IInv, PhasesInOrder, AfterMappings, AfterBuckets, AfterColumns
<1>6. ReportsCompared'
  <2>1. \A s \in Scans : Compared(s)' = Compared(s)
    BY <1>1, ComparedSame
  <2> QED BY <1>1, <1>2, <2>1 DEF IInv, ReportsCompared
<1> QED BY <1>3, <1>4, <1>5, <1>6 DEF IInv

LEMMA InitIInv == Init => IInv
<1> SUFFICES ASSUME Init PROVE IInv
  OBVIOUS
<1>1. data \in [Items -> [Rows -> Entries \cup {None}]] /\ PinnedPresent
  <2>1. \A i \in Items : data[i] \in Contents(i)
    BY DEF Init
  <2>2. data = [i \in Items |-> data[i]]
    BY DEF Init
  <2>3. \A i \in Items : data[i] \in [Rows -> Entries \cup {None}]
    BY <2>1 DEF Contents
  <2>4. PinnedPresent
    BY <2>1 DEF PinnedPresent, Contents
  <2> QED BY <2>2, <2>3, <2>4
<1>2. 0 \in 0..MaxChanges /\ 0 \in 0..(Attempts - 1)
  BY NumbersAssumption
<1>3. TypeOK
  BY <1>1, <1>2 DEF Init, TypeOK, NoReport, Reports
<1>4. PagesKept /\ ResultsWhole /\ CheckpointsWhole /\ PhasesInOrder /\ ReportsCompared
  BY DEF Init, PagesKept, ResultsWhole, CheckpointsWhole, PhasesInOrder, ReportsCompared,
         AfterMappings, AfterBuckets, AfterColumns, Items
<1>5. BucketsListed
  <2>1. \A i \in Buckets : \A n \in Rows : RowValues(i, n) \subseteq Objects
    BY DEF RowValues, Objects, Keys
  <2>2. \A i \in Buckets : data[i] \in Contents(i)
    BY DEF Init, Items
  <2>3. \A i \in Buckets : \A n \in Rows : data[i][n] \in Objects \cup {None}
    BY <2>1, <2>2 DEF Contents
  <2> QED BY <2>3 DEF Init, BucketsListed, Items
<1> QED BY <1>1, <1>3, <1>4, <1>5 DEF IInv

LEMMA NextIInv == IInv /\ [Next]_vars => IInv'
<1> SUFFICES ASSUME IInv, [Next]_vars PROVE IInv'
  OBVIOUS
<1>1. ASSUME NEW s \in Scans, ScanStep(s) PROVE IInv'
  BY <1>1, WorkInv, PhaseInv DEF ScanStep
<1>2. CASE Tenants
  BY <1>2, ChangeInv DEF Tenants
<1>3. CASE Stop
  BY <1>3, StopInv
<1>4. CASE UNCHANGED vars
  <2>1. \A s \in Scans : Compared(s)' = Compared(s)
    BY <1>4, ComparedSame DEF vars, scanVars
  <2> QED BY <1>4, <2>1 DEF vars, scanVars, IInv, TypeOK, PinnedPresent, PagesKept, ResultsWhole,
                          CheckpointsWhole, BucketsListed, PhasesInOrder, ReportsCompared, Whole
<1> QED BY <1>1, <1>2, <1>3, <1>4 DEF Next

\* The inductive invariant of the scans holds in every reachable state: what
\* is read, saved, loaded and reported is whole with regard to the rows that
\* nobody touches.
THEOREM InvariantHolds == Spec => []IInv
BY InitIInv, NextIInv, PTL DEF Spec

\* Every variable of the scans keeps its type, for all constants.
THEOREM TypesHold == Spec => []TypeOK
<1>1. IInv => TypeOK
  BY DEF IInv
<1> QED BY <1>1, InvariantHolds, PTL

-----------------------------------------------------------------------------
(* The orphans.                                                            *)

LEMMA CleanKeeps == IInv => StableReferencesKept
<1> SUFFICES ASSUME IInv, NEW s \in Scans, Clean(s), NEW q \in Pinned,
                    InScope(data[q[1]][q[2]]),
                    q[1] \in Columns \/ (q[1] \in Mappings /\ data[q[1]][q[2]].local),
                    NEW o \in report[s].orphan
             PROVE  o.key # data[q[1]][q[2]].key
  BY DEF StableReferencesKept
<1> DEFINE i == q[1]
           v == data[i][q[2]]
<1>1. i \in Items \ Foreign /\ q[2] \in Rows /\ <<i, q[2]>> \in Pinned
  BY ItemsAssumption DEF Items
<1>2. stage[s][i] = "done" /\ errors[s] = {}
  BY DEF Clean, IInv, PhasesInOrder, AfterMappings, AfterColumns
<1>3. v \in found[s][i]
  <2>1. Kept(i, q[2])
    BY <1>1, ItemsAssumption DEF Kept, Listed
  <2> QED BY <1>1, <1>2, <2>1 DEF IInv, ResultsWhole, Whole
<1>4. report[s] = Compared(s)
  BY DEF Clean, IInv, ReportsCompared
<1>5. o.key \notin DbKeys(s) /\ o.key \notin ContentKeys(s)
  BY <1>4 DEF Compared
<1>6. CASE i \in Columns
  <2>1. v.key \in ContentKeys(s)
    BY <1>3, <1>6 DEF ContentKeys
  <2> QED BY <1>5, <2>1
<1>7. CASE i \in Mappings
  <2>1. v.local
    BY <1>7, ItemsAssumption
  <2>2. v.key \in DbKeys(s)
    BY <1>3, <1>7, <2>1 DEF DbKeys
  <2> QED BY <1>5, <2>2
<1> QED BY <1>6, <1>7

\* A reference that was there all along keeps its file out of the orphans of
\* every scan without errors, for any number of concurrent and stopped scans,
\* columns, rows, page sizes and changes by tenants.
THEOREM OrphansAreUnreferenced == Spec => []StableReferencesKept
BY InvariantHolds, CleanKeeps, PTL

-----------------------------------------------------------------------------
(* The matched files.                                                      *)

\* Of the objects with one key that were listed, one is compared.
LEMMA OneIsCompared ==
  ASSUME IInv, NEW s \in Scans, NEW b \in Buckets, NEW o \in found[s][b]
  PROVE  \E m \in StorageObjects(s) : m.key = o.key
<1> DEFINE all == UNION {found[s][i] : i \in Buckets}
           Place(m) == CHOOSE n \in 1..Len(BucketOrder) : BucketOrder[n] = m.bucket
           places == {Place(m) : m \in {x \in all : x.key = o.key}}
<1>1. all \subseteq Objects
  BY DEF IInv, BucketsListed
<1>2. \A m \in Objects : Place(m) \in 1..Len(BucketOrder)
  BY DEF Objects, Buckets
<1>3. /\ places \subseteq 1..Len(BucketOrder)
      /\ places # {}
  BY <1>1, <1>2
<1>4. IsFiniteSet(places) /\ places \in SUBSET Nat
  <2> DEFINE numbers == 1..Len(BucketOrder)
  <2>1. IsFiniteSet(numbers) /\ numbers \in SUBSET Nat
    BY OrderAssumption, FS_Interval
  <2> HIDE DEF numbers, places
  <2>2. places \subseteq numbers
    BY <1>3 DEF numbers
  <2> QED BY <2>1, <2>2, FS_Subset
<1>5. PICK n \in places : \A k \in places : k <= n
  BY <1>3, <1>4, GreatestElement
<1>6. PICK m \in all : m.key = o.key /\ n = Place(m)
  OBVIOUS
<1>7. \A x \in all : x.key = m.key => Place(x) <= Place(m)
  BY <1>5, <1>6
<1>8. m \in StorageObjects(s)
  BY <1>7 DEF StorageObjects
<1> QED BY <1>6, <1>8

LEMMA CleanMatches == IInv => StableFilesMatched
<1> SUFFICES ASSUME IInv, NEW s \in Scans, Clean(s), NEW q \in Pinned, NEW b \in Pinned,
                    q[1] \in Mappings, InScope(data[q[1]][q[2]]), data[q[1]][q[2]].local,
                    b[1] \in Buckets \ Foreign, Listed(b[1], b[2]), data[b[1]][b[2]].key = data[q[1]][q[2]].key
             PROVE  /\ \E m \in report[s].matched : m.key = data[q[1]][q[2]].key
                    /\ data[q[1]][q[2]].key \notin report[s].missing
  BY DEF StableFilesMatched
<1> DEFINE v == data[q[1]][q[2]]
           o == data[b[1]][b[2]]
<1>1. /\ q[1] \in Items \ Foreign /\ q[2] \in Rows /\ <<q[1], q[2]>> \in Pinned
      /\ b[1] \in Items /\ b[2] \in Rows /\ <<b[1], b[2]>> \in Pinned
  BY ItemsAssumption DEF Items
<1>2. stage[s][q[1]] = "done" /\ stage[s][b[1]] = "done" /\ errors[s] = {}
  BY DEF Clean, IInv, PhasesInOrder, AfterMappings, AfterBuckets
<1>3. v \in found[s][q[1]] /\ o \in found[s][b[1]]
  <2>1. Kept(q[1], q[2]) /\ Kept(b[1], b[2])
    BY <1>1, ItemsAssumption DEF Kept, Listed
  <2> QED BY <1>1, <1>2, <2>1 DEF IInv, ResultsWhole, Whole
<1>4. report[s] = Compared(s)
  BY DEF Clean, IInv, ReportsCompared
<1>5. v.key \in DbKeys(s)
  BY <1>3 DEF DbKeys
<1>6. PICK m \in StorageObjects(s) : m.key = v.key
  BY <1>3, OneIsCompared
<1> QED BY <1>4, <1>5, <1>6 DEF Compared

\* A file that was there all along, with a reference that was, is matched and
\* not missing in every scan without errors, for all constants.
THEOREM StableFilesAreMatched == Spec => []StableFilesMatched
BY InvariantHolds, CleanMatches, PTL

-----------------------------------------------------------------------------
(* The checkpoint files that are left.                                     *)

\* The items whose checkpoints are in one directory.
Directories == {Mappings \cup Buckets, Columns}

\* Scan s answers for the file of item i in directory I: it did not end well,
\* or it has still to come to the end of the directory's phases, or it is
\* removing the directory and has this file on its list.  (That it is removing
\* the directory is not enough: it could come to the end of its list.)
AnswersFor(s, I, i) ==
  \/ phase[s] \in {"failed", "stopped"}
  \/ errors[s] \cap I # {}
  \/ phase[s] \in IF I = Columns THEN {"content"} ELSE {"database", "storage"}
  \/ phase[s] = (IF I = Columns THEN "clearingContent" ELSE "clearing") /\ i \in removing[s]

UsersAnswer ==
  \A I \in Directories : \A i \in I :
    saved[i] # None => \A s \in users[i] : AnswersFor(s, I, i)

\* The only column directory is that of the columns, unless nothing is in it.
LEMMA DirectoryOf ==
  ASSUME NEW I \in Directories, NEW i \in I
  PROVE  i \in Items /\ (I = Columns <=> i \in Columns) /\ (I # Columns <=> i \in Mappings \cup Buckets)
BY ItemsAssumption DEF Directories, Items

\* A worker that saves or loads a file is in a phase of the file's directory.
LEMMA WorkAnswers ==
  ASSUME IInv, UsersAnswer, NEW s \in Scans, NEW i \in Items, Work(s, i)
  PROVE  UsersAnswer'
<1>1. /\ UNCHANGED <<phase, removing>>
      /\ \A p \in Scans : errors[p] \subseteq errors'[p]
      /\ phase[s] \in Reading
  <2>1. WorkKeeps(s, i)
    BY WorkShape
  <2> QED BY <2>1 DEF WorkKeeps, IInv, TypeOK
<1>2. \A p \in Scans, I \in Directories : \A j \in I : AnswersFor(p, I, j) => AnswersFor(p, I, j)'
  BY <1>1 DEF AnswersFor
<1>3. users \in [Items -> SUBSET Scans] /\ saved \in [Items -> {None} \cup SUBSET Entries]
  BY DEF IInv, TypeOK
<1>4. \/ SaveCheckpoint(s, i) \/ LoadCheckpoint(s, i)
      \/ UNCHANGED <<saved, users>>
  BY DEF Work, LoadFails, BeginRead, ReadPage, Retry, GiveUp, SaveFails, Fail
<1>5. CASE SaveCheckpoint(s, i) \/ LoadCheckpoint(s, i)
  <2> SUFFICES ASSUME NEW I \in Directories, NEW j \in I, saved'[j] # None, NEW p \in users'[j]
               PROVE  AnswersFor(p, I, j)'
    BY DEF UsersAnswer
  <2>1. i \in PhaseItems(phase[s])
    BY <1>5 DEF SaveCheckpoint, LoadCheckpoint, At
  <2>2. CASE j = i /\ p = s
    <3>1. phase[s] \in IF I = Columns THEN {"content"} ELSE {"database", "storage"}
      BY <1>1, <2>1, <2>2, DirectoryOf, ItemsAssumption DEF PhaseItems, Reading
    <3> QED BY <1>1, <2>2, <3>1 DEF AnswersFor
  <2>3. CASE ~(j = i /\ p = s)
    <3>1. j \in Items
      BY DirectoryOf
    <3>2. saved[j] # None /\ p \in users[j]
      BY <1>3, <1>5, <2>3, <3>1 DEF SaveCheckpoint, LoadCheckpoint
    <3>3. p \in Scans
      BY <1>3, <3>1, <3>2
    <3> QED BY <1>2, <3>2, <3>3 DEF UsersAnswer
  <2> QED BY <2>2, <2>3
<1>6. CASE UNCHANGED <<saved, users>>
  <2> SUFFICES ASSUME NEW I \in Directories, NEW j \in I, saved[j] # None, NEW p \in users[j]
               PROVE  AnswersFor(p, I, j)'
    BY <1>6 DEF UsersAnswer
  <2>1. p \in Scans
    BY <1>3, DirectoryOf
  <2> QED BY <1>2, <2>1 DEF UsersAnswer
<1> QED BY <1>4, <1>5, <1>6

\* A scan that goes on, or ends, answers for every file it used, but for those
\* it removes or fails to remove.
LEMMA PhaseAnswers ==
  ASSUME IInv, UsersAnswer, NEW s \in Scans, PhaseStep(s)
  PROVE  UsersAnswer'
<1>1. /\ UNCHANGED errors
      /\ \A i \in Items : saved'[i] \in {saved[i], None}
      /\ \A p \in Scans \ {s} : phase'[p] = phase[p]
  BY PhaseShape DEF IInv, TypeOK
<1>2. /\ \A p \in Scans \ {s} : removing'[p] = removing[p]
      /\ \A i \in Items : users'[i] \subseteq users[i]
  <2>1. CASE ClearStep(s)
    <3>1. PICK j \in removing[s] : /\ RemoveFile(s, j) \/ RemovalFails(s, j)
                                   /\ removing' = [removing EXCEPT ![s] = @ \ {j}]
      BY <2>1 DEF ClearStep
    <3>2. \E S \in SUBSET users[j] : users' = [users EXCEPT ![j] = S]
      BY <3>1 DEF RemoveFile, RemovalFails
    <3> QED BY <3>1, <3>2 DEF IInv, TypeOK
  <2>2. CASE ~ClearStep(s)
    <3>1. UNCHANGED users
      BY <2>2 DEF PhaseStep, Start, ListBuckets, CompareFiles, Protect, ClearOrGoOn, Cleared, Finish,
                  ReportFails, ScanFails
    <3>2. \A p \in Scans \ {s} : removing'[p] = removing[p]
      BY <2>2 DEF PhaseStep, Start, ListBuckets, CompareFiles, Protect, ClearOrGoOn, Cleared, Finish,
                  ReportFails, ScanFails, IInv, TypeOK
    <3> QED BY <3>1, <3>2
  <2> QED BY <2>1, <2>2
<1>3. ASSUME NEW I \in Directories, NEW i \in I, saved'[i] # None, s \in users'[i], AnswersFor(s, I, i)
      PROVE  AnswersFor(s, I, i)'
  <2> USE DEF AnswersFor, Goto
  <2>0. /\ phase \in [Scans -> {"idle", "clearing", "clearingContent", "reporting"} \cup Reading \cup Ended]
        /\ removing \in [Scans -> SUBSET Items] /\ saved \in [Items -> {None} \cup SUBSET Entries]
        /\ users \in [Items -> SUBSET Scans]
        /\ i \in Items /\ saved[i] # None
        /\ (I = Columns <=> i \in Columns) /\ (I # Columns <=> i \in Mappings \cup Buckets)
        /\ I # Columns => I = Mappings \cup Buckets
    BY <1>1, <1>3, DirectoryOf DEF IInv, TypeOK, Directories
  <2>1. CASE Start(s)
    BY <1>1, <1>3, <2>0, <2>1 DEF Start
  <2>2. CASE ListBuckets(s)
    BY <1>1, <1>3, <2>0, <2>2 DEF ListBuckets, PhaseOver
  <2>3. CASE CompareFiles(s)
    <3>1. phase[s] = "storage"
      BY <2>3 DEF CompareFiles, PhaseOver
    <3>2. CASE errors[s] \cap (Mappings \cup Buckets) = {}
      <4>1. phase'[s] = "clearing" /\ removing'[s] = SavedOf(Mappings \cup Buckets)
        BY <2>0, <2>3, <3>2 DEF CompareFiles, ClearOrGoOn
      <4> QED BY <1>1, <1>3, <2>0, <3>1, <4>1 DEF SavedOf
    <3>3. CASE errors[s] \cap (Mappings \cup Buckets) # {}
      <4>1. phase'[s] = "content"
        BY <2>0, <2>3, <3>3 DEF CompareFiles, ClearOrGoOn
      <4> QED BY <1>1, <1>3, <2>0, <3>1, <3>3, <4>1
    <3> QED BY <3>2, <3>3
  <2>4. CASE Protect(s)
    <3>1. phase[s] = "content"
      BY <2>4 DEF Protect, PhaseOver
    <3>2. CASE errors[s] \cap Columns = {}
      <4>1. phase'[s] = "clearingContent" /\ removing'[s] = SavedOf(Columns)
        BY <2>0, <2>4, <3>2 DEF Protect, ClearOrGoOn
      <4> QED BY <1>1, <1>3, <2>0, <3>1, <4>1 DEF SavedOf
    <3>3. CASE errors[s] \cap Columns # {}
      BY <1>1, <1>3, <2>0, <3>1, <3>3
    <3> QED BY <3>2, <3>3
  <2>5. CASE ClearStep(s)
    <3>1. PICK j \in removing[s] : /\ RemoveFile(s, j) \/ RemovalFails(s, j)
                                   /\ removing' = [removing EXCEPT ![s] = @ \ {j}]
      BY <2>5 DEF ClearStep
    <3>2. j # i
      BY <1>3, <2>0, <3>1 DEF RemoveFile, RemovalFails
    <3>3. UNCHANGED phase /\ removing'[s] = removing[s] \ {j}
      BY <2>0, <2>5, <3>1 DEF ClearStep
    <3> QED BY <1>1, <1>3, <3>2, <3>3
  <2>6. CASE Cleared(s)
    BY <1>1, <1>3, <2>0, <2>6 DEF Cleared
  <2>7. CASE Finish(s)
    BY <1>1, <1>3, <2>0, <2>7 DEF Finish
  <2>8. CASE ReportFails(s) \/ ScanFails(s)
    BY <2>0, <2>8 DEF ReportFails, ScanFails
  <2> QED BY <2>1, <2>2, <2>3, <2>4, <2>5, <2>6, <2>7, <2>8 DEF PhaseStep
<1> SUFFICES ASSUME NEW I \in Directories, NEW i \in I, saved'[i] # None, NEW p \in users'[i]
             PROVE  AnswersFor(p, I, i)'
  BY DEF UsersAnswer
<1>4. i \in Items /\ saved[i] # None /\ p \in users[i] /\ p \in Scans
  <2>1. i \in Items
    BY DirectoryOf
  <2> QED BY <1>1, <1>2, <2>1 DEF IInv, TypeOK
<1>5. AnswersFor(p, I, i)
  BY <1>4 DEF UsersAnswer
<1>6. CASE p = s
  BY <1>3, <1>5, <1>6
<1>7. CASE p # s
  BY <1>1, <1>2, <1>4, <1>5, <1>7 DEF AnswersFor
<1> QED BY <1>6, <1>7

LEMMA UsersGoOnAnswering ==
  ASSUME IInv, UsersAnswer, [Next]_vars
  PROVE  UsersAnswer'
<1>1. ASSUME NEW s \in Scans, ScanStep(s) PROVE UsersAnswer'
  BY <1>1, WorkAnswers, PhaseAnswers DEF ScanStep
<1>2. CASE Tenants
  BY <1>2 DEF Tenants, Change, scanVars, UsersAnswer, AnswersFor
<1>3. CASE Stop
  <2>1. UNCHANGED <<saved, errors, users>>
    BY <1>3 DEF Stop, scanVars
  <2>2. ASSUME NEW s \in Scans, NEW I, NEW i, AnswersFor(s, I, i) PROVE AnswersFor(s, I, i)'
    <3>1. phase'[s] = IF phase[s] \in Ended \cup {"idle"} THEN phase[s] ELSE "stopped"
      BY <1>3 DEF Stop
    <3> QED BY <2>1, <2>2, <3>1 DEF AnswersFor, Ended
  <2>3. \A i \in Items : users[i] \subseteq Scans
    BY DEF IInv, TypeOK
  <2> QED BY <2>1, <2>2, <2>3, DirectoryOf DEF UsersAnswer
<1>4. CASE UNCHANGED vars
  BY <1>4 DEF vars, scanVars, UsersAnswer, AnswersFor
<1> QED BY <1>1, <1>2, <1>3, <1>4 DEF Next

\* A scan that read all items of a directory leaves no checkpoint there that it
\* saved or loaded, unless the removal of that very file failed, for any number
\* of scans of one request that save, load and remove the files at the same time.
THEOREM LeftoversAreExplained == Spec => []LeftoversExplained
<1>1. Init => UsersAnswer
  BY DirectoryOf DEF Init, UsersAnswer
<1>2. UsersAnswer => LeftoversExplained
  BY DEF UsersAnswer, AnswersFor, Directories, LeftoversExplained, MayLeave
<1> QED BY <1>1, <1>2, UsersGoOnAnswering, InvariantHolds, PTL DEF Spec
=============================================================================
