---------------------------- MODULE MCArchiveRun ----------------------------
(* Small instances of ArchiveRun for TLC. *)
EXTENDS ArchiveRunContract, TLC

CONSTANTS p1, p2, b1, b2, ar, k1, c1, c2, r1, r2

MCProviders == {p1, p2}
MCArchiveOnly == {p2}
MCSegments  == {b1, b2, ar, k1}

OneObject   == {<<b1, k1>>}
TwoObjects  == {<<b1, k1>>, <<b2, k1>>}
WithArchive == TwoObjects \cup {<<ar, b1, k1>>}

Singles     == {<<o>> : o \in Objects}
Pairs       == {<<o, q>> : o, q \in Objects}
NoTwice     == {s \in Singles \cup Pairs : Cardinality(Keys(s)) = Len(s)}

\* What the theorems on the archive's contents suppose of the reports.
ASSUME ReportsAreDistinct == DistinctRows

\* Runs are alike, and so are contents of one size.
MCSymmetry  == Permutations({r1, r2}) \cup Permutations({c1, c2})

SameSize    == (c1 :> 1) @@ (c2 :> 1)
OtherSize   == (c1 :> 1) @@ (c2 :> 2)
=============================================================================
