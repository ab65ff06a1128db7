------------------------------ MODULE KeyLock ------------------------------
(***************************************************************************)
(* What the lock on archive runs promises to whoever relies on it: an      *)
(* owner gets all the keys it asks for when nobody has one of them, is     *)
(* refused only when somebody has, and has one turn.  When the process     *)
(* stops, all keys are free again.                                         *)
(*                                                                         *)
(* ArchiveRun has the lock with the run inside it, ArchiveJobs with the    *)
(* thread around it; both implement this module.                           *)
(***************************************************************************)
CONSTANTS
  Owners,    \* who may ask
  Resources  \* what may be asked for

VARIABLES
  held,      \* held[x]: the keys x has
  past       \* the owners whose turn is over

Init ==
  /\ held = [x \in Owners |-> {}]
  /\ past = {}

\* x has had no turn yet, and asks for the keys ks.
Asks(x, ks) == x \notin past /\ held[x] = {} /\ ks # {}

Taken(ks) == \E y \in Owners : held[y] \cap ks # {}

Acquire(x, ks) ==
  /\ Asks(x, ks) /\ ~Taken(ks)
  /\ held' = [held EXCEPT ![x] = ks]
  /\ UNCHANGED past

Refuse(x, ks) ==
  /\ Asks(x, ks) /\ Taken(ks)
  /\ past' = past \cup {x}
  /\ UNCHANGED held

Release(x) ==
  /\ held[x] # {}
  /\ held' = [held EXCEPT ![x] = {}]
  /\ past' = past \cup {x}

Stop ==
  /\ held' = [x \in Owners |-> {}]
  /\ past' = past \cup {x \in Owners : held[x] # {}}

Next ==
  \/ \E x \in Owners : Release(x) \/ \E ks \in SUBSET Resources : Acquire(x, ks) \/ Refuse(x, ks)
  \/ Stop

Spec == Init /\ [][Next]_<<held, past>>
=============================================================================
