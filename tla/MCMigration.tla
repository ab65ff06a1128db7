----------------------------- MODULE MCMigration -----------------------------
(* Small instances of Migration for TLC. *)
EXTENDS Migration, TLC

CONSTANTS p1, p2, a, b, ar, z, k, c1, c2, d1, d2

MCProviders == {p1, p2}
MCSegments  == {a, b, ar, z, k}

A  == <<a, k>>
B  == <<b, k>>
Z  == <<z, k>>
K  == <<a, z>>
AA == <<ar, a, k>>
AK == <<ar, a, z>>
MCPaths == {A, B, Z, K, AA, AK}

Private(c) == [content |-> c, public |-> FALSE]
At(p, o)   == <<p, o>>

\* Provider p1 has the sources, p2 the archive and perhaps an earlier copy.
Store(old) ==
  [pl \in MCProviders \X MCPaths |->
     CASE pl = At(p1, A)  -> Private(c1)
       [] pl = At(p1, B)  -> Private(c2)
       [] pl \in {At(p2, AA), At(p2, AK)} -> Private(c1)
       [] pl \in old      -> Private(c1)
       [] OTHER           -> Absent]
MCStores == {Store({At(p2, B)})}
NoCopies == {Store({})}

Copy(from, to, its, bucket, over) ==
  [kind |-> "copy", from |-> from, to |-> to, items |-> its, destBucket |-> bucket,
   overwrite |-> over, public |-> TRUE]
Restore(its, over, pub) ==
  [kind |-> "restore", from |-> p2, to |-> p1, items |-> its, destBucket |-> None,
   overwrite |-> over, public |-> pub]

MCRequests ==
  { Copy(p1, p2, <<A, B>>, None, FALSE), Copy(p1, p1, <<A, A>>, z, TRUE), Copy(p2, p1, <<B>>, a, FALSE),
    Copy(p1, p1, <<A, B>>, b, TRUE), Restore(<<AA, AK>>, TRUE, TRUE),
    Restore(<<AA>>, FALSE, FALSE), Restore(<<A>>, TRUE, TRUE) }
Collision == { Copy(p1, p2, <<A, B>>, z, FALSE) }

\* Sessions are alike.
MCSymmetry    == Permutations({d1, d2})

\* Some destination buckets reject ACLs.
SomeNoAcls    == {<<p2, a>>, <<p1, a>>, <<p1, z>>}
TenantsOwn    == {At(p1, A)}
=============================================================================
