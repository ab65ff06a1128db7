---------------------------- MODULE MCUrlUpdates ----------------------------
(* A small instance of UrlUpdates for TLC. *)
EXTENDS UrlUpdates, TLC

CONSTANTS g1, x1, x2, y, old, new, other

MCPages    == {g1}
MCAttempts == 3
MCStreams  == MCPages \X (1..MCAttempts)
MCEvents   == {[event |-> "progress", completed |-> n] : n \in 1..2}
                \cup {[event |-> "done"], [event |-> "error"]}

\* x1 and x2 share an id, in a table without a primary key.
MCIdOf  == (x1 :> x1) @@ (x2 :> x1) @@ (y :> y)
Move(r, st) == [rowId |-> r, sourcePath |-> old, destinationUrl |-> new, status |-> st]

MCReports == {<<Move(y, "Copied"), Move(x1, "Skipped")>>, <<Move(x1, "Failed"), Move(y, "Copied")>>}
MCTables  == {[r \in {x1, x2, y} |-> old]}
=============================================================================
