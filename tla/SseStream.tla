------------------------------ MODULE SseStream ------------------------------
(***************************************************************************)
(* app/services/sse.py: the work of a streamed request runs on one of the  *)
(* executor's threads and emits events, which the event loop hands to the  *)
(* connection in order; a sentinel ends the stream.  A client that goes    *)
(* away stops neither the work nor its turn in the executor's line.        *)
(* Heartbeats, which tell the client only that the server is there, are    *)
(* left out.                                                               *)
(***************************************************************************)
EXTENDS Integers, Sequences, FiniteSets

CONSTANTS
  Streams,    \* identities of streamed requests
  Threads,    \* max_workers of _executor
  Events,     \* what work functions emit
  Sentinel    \* _DONE

ASSUME ThreadsAssumption == Threads \in Nat \ {0}
ASSUME SentinelAssumption == Sentinel \notin Events

VARIABLES
  line,      \* the requests waiting for a thread of the executor, in order
  running,   \* the requests whose work_fn is on a thread
  queue,     \* queue[s]: what was emitted and not yet sent
  conn       \* conn[s]: the connection of s

sseVars == <<line, running, queue, conn>>

SseInit ==
  /\ line = <<>>
  /\ running = {}
  /\ queue = [s \in Streams |-> <<>>]
  /\ conn = [s \in Streams |-> "none"]

\* The request arrives: run_in_executor.
Open(s) ==
  /\ conn[s] = "none"
  /\ conn' = [conn EXCEPT ![s] = "open"]
  /\ line' = Append(line, s)
  /\ UNCHANGED <<running, queue>>

\* Faulty: a request keeps its place in the line.
BeginKept(s) ==
  /\ line # <<>> /\ s = Head(line)
  /\ Cardinality(running) < Threads
  /\ running' = running \cup {s}
  /\ UNCHANGED <<line, queue, conn>>

\* The first in the line takes a free thread.
Begin(s) ==
  /\ line # <<>> /\ s = Head(line)
  /\ Cardinality(running) < Threads
  /\ line' = Tail(line)
  /\ running' = running \cup {s}
  /\ UNCHANGED <<queue, conn>>

\* call_soon_threadsafe(queue.put_nowait): once the connection is gone, nobody
\* reads the queue.
Put(s, es) == queue' = [queue EXCEPT ![s] = IF conn[s] = "open" THEN @ \o es ELSE <<>>]

Emit(s, e) ==
  /\ s \in running
  /\ Put(s, <<e>>)
  /\ UNCHANGED <<line, running, conn>>

\* Faulty: the sentinel is put when work_fn returns, not when it raises.
FinishOnReturn(s, es) ==
  /\ s \in running
  /\ Put(s, IF \E i \in 1..Len(es) : es[i].event = "error" THEN es ELSE es \o <<Sentinel>>)
  /\ running' = running \ {s}
  /\ UNCHANGED <<line, conn>>

\* runner: work_fn returns or raises after the last events es; finally _DONE.
Finish(s, es) ==
  /\ s \in running
  /\ Put(s, es \o <<Sentinel>>)
  /\ running' = running \ {s}
  /\ UNCHANGED <<line, conn>>

Deliver(s, e) ==
  /\ conn[s] = "open" /\ queue[s] # <<>>
  /\ e = Head(queue[s]) /\ e # Sentinel
  /\ queue' = [queue EXCEPT ![s] = Tail(@)]
  /\ UNCHANGED <<line, running, conn>>

End(s) ==
  /\ conn[s] = "open" /\ queue[s] # <<>>
  /\ Head(queue[s]) = Sentinel
  /\ conn' = [conn EXCEPT ![s] = "ended"]
  /\ queue' = [queue EXCEPT ![s] = <<>>]
  /\ UNCHANGED <<line, running>>

\* The client or the network closes the connection.
Drop(s) ==
  /\ conn[s] = "open"
  /\ conn' = [conn EXCEPT ![s] = "dropped"]
  /\ queue' = [queue EXCEPT ![s] = <<>>]
  /\ UNCHANGED <<line, running>>

\* The server process stops.
SseStop ==
  /\ line' = <<>>
  /\ running' = {}
  /\ queue' = [s \in Streams |-> <<>>]
  /\ conn' = [s \in Streams |-> IF conn[s] = "open" THEN "dropped" ELSE conn[s]]

SseTypeOK ==
  /\ line \in Seq(Streams)
  /\ running \subseteq Streams
  /\ queue \in [Streams -> Seq(Events \cup {Sentinel})]
  /\ conn \in [Streams -> {"none", "open", "ended", "dropped"}]

\* No more requests are worked on than the executor has threads; a request is
\* in the line once, and not when it is worked on; the sentinel is the last
\* thing in a queue, so that nothing emitted is lost behind it.
ExecutorExact ==
  /\ Cardinality(running) <= Threads
  /\ \A m, n \in 1..Len(line) : line[m] = line[n] => m = n
  /\ \A n \in 1..Len(line) : line[n] \notin running
  /\ \A s \in Streams : \A n \in 1..Len(queue[s]) :
       queue[s][n] = Sentinel => n = Len(queue[s]) /\ s \notin running

\* A stream that is not cut off ends, although its work may wait for a thread
\* behind others' and may raise.
StreamsEnd == \A s \in Streams : conn[s] = "open" ~> conn[s] \in {"ended", "dropped"}
=============================================================================
