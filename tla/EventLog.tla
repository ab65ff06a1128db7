------------------------------ MODULE EventLog -----------------------------
(***************************************************************************)
(* What the reconnectable event streams promise, without jobs, threads,    *)
(* snapshots or cursors: a log only grows, and is over with its final      *)
(* entry; a reader begins at the first entry whenever it comes, is shown   *)
(* the entries in their order with none left out, and is told of the end   *)
(* when the log is closed and all of it was shown.                         *)
(***************************************************************************)
EXTENDS Integers

CONSTANTS
  Logs,      \* one per job
  Readers,   \* the pages
  Final,     \* the events that end a log
  None       \* no log

VARIABLES
  log,       \* log[l]: the entries of l, records with a number and an event
  closed,    \* the logs nothing is added to any more
  reader     \* reader[c]: its state, the log it reads and what it was shown

Init ==
  /\ log = [l \in Logs |-> {}]
  /\ closed = {}
  /\ reader = [c \in Readers |-> [state |-> "closed", log |-> None, shown |-> {}]]

Over(l) == \E e \in log[l] : e.event \in Final

\* One entry more, after all others.
Append(l) ==
  /\ ~Over(l)
  /\ \E e \in log'[l] :
       /\ \A f \in log[l] : f.number < e.number
       /\ log' = [log EXCEPT ![l] = @ \cup {e}]
  /\ UNCHANGED <<closed, reader>>

Close(l) ==
  /\ Over(l)
  /\ closed' = closed \cup {l}
  /\ UNCHANGED <<log, reader>>

Becomes(c, r) ==
  /\ reader' = [reader EXCEPT ![c] = r]
  /\ UNCHANGED <<log, closed>>

Open(c, l) == reader[c].state # "open" /\ Becomes(c, [state |-> "open", log |-> l, shown |-> {}])
Refuse(c)  == reader[c].state # "open" /\ Becomes(c, [state |-> "refused", log |-> None, shown |-> {}])

\* The entries s of l, and no later one without the earlier.
IsPrefix(s, l) == s \subseteq log[l] /\ \A e \in s, f \in log[l] : f.number < e.number => f \in s

Show(c) ==
  /\ reader[c].state = "open"
  /\ \E s \in SUBSET log[reader[c].log] :
       /\ reader[c].shown \subseteq s /\ IsPrefix(s, reader[c].log)
       /\ Becomes(c, [reader[c] EXCEPT !.shown = s])

\* The last entries and the end come together.
End(c) ==
  /\ reader[c].state = "open" /\ reader[c].log \in closed
  /\ Becomes(c, [state |-> "ended", log |-> reader[c].log, shown |-> log[reader[c].log]])

Leave(c) == reader[c].state = "open" /\ Becomes(c, [reader[c] EXCEPT !.state = "closed"])

Next ==
  \/ \E l \in Logs : Append(l) \/ Close(l)
  \/ \E c \in Readers : Refuse(c) \/ Show(c) \/ End(c) \/ Leave(c) \/ \E l \in Logs : Open(c, l)

Spec == Init /\ [][Next]_<<log, closed, reader>>
=============================================================================
