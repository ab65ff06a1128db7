---------------------------- MODULE MCArchiveJobs ---------------------------
(* Small instances of ArchiveJobs for TLC. *)
EXTENDS ArchiveJobs, TLC

CONSTANTS p1, p2, b1, b2, b3, k1, j1, j2, j3, j4, d1, d2, d3

MCSegments  == {b1, b2, b3, k1}
\* One key in two buckets: the objects differ in the bucket alone.
TwoObjects  == {<<b1, k1>>, <<b2, k1>>}
ThreeObjects == TwoObjects \cup {<<b3, k1>>}
OneObject   == {<<b1, k1>>}

AllReports  == SUBSET Objects \ {{}}
Apart       == {{o} : o \in Objects}
WholeReport == {Objects}

\* Bound of ArchiveJobsOverlap: a job fails before its first item, or keeps the lock.
NoItems     == \A j \in Jobs : \A o \in Objects : progress[j][o] = "waiting"

\* Jobs, providers and buckets are alike.
MCSymmetry  == Permutations(Jobs) \cup Permutations({p1, p2}) \cup Permutations({b1, b2})
=============================================================================
