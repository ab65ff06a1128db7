------------------------ MODULE MCReconciliationScan ------------------------
(* Small instances of ReconciliationScan for TLC. *)
EXTENDS ReconciliationScan, TLC

CONSTANTS m1, t1, b1, b2, b9, k1, k2, s1, s2

MCKeys      == <<k1, k2>>
OneBucket   == <<b1>>
TwoBuckets  == <<b1, b2>>

Plain(k)    == [bucket |-> None, key |-> k, local |-> TRUE]
Url(b, k)   == [bucket |-> b, key |-> k, local |-> TRUE]
Abroad(b, k) == [bucket |-> b, key |-> k, local |-> FALSE]

\* The second row of the file column is never touched, nor are the rich texts
\* and the second object.
Apart       == (m1 :> {Plain(k2), Url(b9, k1)}) @@ (t1 :> {Url(b1, k1)})
RowsPinned  == {<<m1, 2>>, <<t1, 1>>, <<t1, 2>>, <<b1, 2>>}

\* All kinds of references in the file column, a foreign one in the rich text;
\* of the files, k1 does not have the prefix, and b2 is in another region.
AllKinds    == (m1 :> {Plain(k1), Plain(k2), Url(b9, k2), Abroad(b1, k2)}) @@ (t1 :> {Abroad(b1, k2)})
FilesPinned == {<<m1, 2>>, <<t1, 2>>, <<b1, 1>>, <<b1, 2>>, <<b2, 1>>}

MCSymmetry  == Permutations({s1, s2})
=============================================================================
