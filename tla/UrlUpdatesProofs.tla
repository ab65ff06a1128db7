--------------------------- MODULE UrlUpdatesProofs ---------------------------
(***************************************************************************)
(* What holds of the URL updates and of the stream they run on, for all    *)
(* constants: any number of pages, attempts, reports, rows and threads.    *)
(***************************************************************************)
EXTENDS UrlUpdates, SequenceTheorems, FiniteSetTheorems, TLAPS

-----------------------------------------------------------------------------
(* The stream (SseStream).                                                 *)

InLine == {line[n] : n \in 1..Len(line)}

NoSentinel(s) == \A n \in 1..Len(queue[s]) : queue[s][n] # Sentinel

\* Beside ExecutorExact: a request that has not come has left no trace, and
\* one that waits for a thread has not ended.
SseInv ==
  /\ SseTypeOK /\ ExecutorExact
  /\ IsFiniteSet(running)
  /\ \A s \in Streams : conn[s] = "none" => queue[s] = <<>> /\ s \notin running /\ s \notin InLine
  /\ \A s \in InLine : NoSentinel(s)

LEMMA SseInitInv == SseInit => SseInv
<1> SUFFICES ASSUME SseInit PROVE SseInv
  OBVIOUS
<1>1. line = <<>> /\ running = {} /\ Len(line) = 0 /\ \A s \in Streams : queue[s] = <<>> /\ Len(queue[s]) = 0
  BY EmptySeq DEF SseInit
<1>2. SseTypeOK
  BY <1>1, EmptySeq DEF SseInit, SseTypeOK
<1>3. IsFiniteSet(running) /\ Cardinality(running) = 0
  BY <1>1, FS_EmptySet
<1>4. ExecutorExact
  BY <1>1, <1>3, ThreadsAssumption DEF ExecutorExact
<1> QED BY <1>1, <1>2, <1>3, <1>4 DEF SseInv, InLine

LEMMA OpenKeeps ==
  ASSUME SseInv, NEW s \in Streams, Open(s)
  PROVE  SseInv'
<1>1. line \in Seq(Streams) /\ Len(line) \in Nat /\ line' = Append(line, s)
  BY DEF SseInv, SseTypeOK, Open
<1>2. /\ line' \in Seq(Streams) /\ Len(line') = Len(line) + 1
      /\ \A n \in 1..Len(line) : line'[n] = line[n]
      /\ line'[Len(line) + 1] = s
  BY <1>1, AppendProperties
<1>3. UNCHANGED <<running, queue>> /\ conn[s] = "none" /\ conn' = [conn EXCEPT ![s] = "open"]
  BY DEF Open
<1>4. s \notin running /\ queue[s] = <<>> /\ Len(queue[s]) = 0 /\ \A n \in 1..Len(line) : line[n] # s
  BY <1>3, EmptySeq DEF SseInv, InLine
<1>5. \A n \in 1..Len(line') : n = Len(line) + 1 \/ n \in 1..Len(line)
  BY <1>1, <1>2
<1>6. ExecutorExact'
  <2>1. \A m, n \in 1..Len(line') : line'[m] = line'[n] => m = n
    BY <1>2, <1>4, <1>5 DEF SseInv, ExecutorExact
  <2>2. \A n \in 1..Len(line') : line'[n] \notin running'
    BY <1>2, <1>3, <1>4, <1>5 DEF SseInv, ExecutorExact
  <2> QED BY <1>3, <2>1, <2>2 DEF SseInv, ExecutorExact
<1>7. \A t \in InLine' : t = s \/ t \in InLine
  BY <1>2, <1>5 DEF InLine
<1>8. \A t \in InLine' : NoSentinel(t)'
  BY <1>3, <1>4, <1>7 DEF SseInv, NoSentinel
<1>9. SseTypeOK'
  BY <1>2, <1>3 DEF SseInv, SseTypeOK
<1> QED BY <1>3, <1>6, <1>7, <1>8, <1>9 DEF SseInv, SseTypeOK

LEMMA BeginKeeps ==
  ASSUME SseInv, NEW s \in Streams, Begin(s)
  PROVE  SseInv'
<1>1. line \in Seq(Streams) /\ line # <<>> /\ s = Head(line) /\ line' = Tail(line)
  BY DEF SseInv, SseTypeOK, Begin
<1>2. /\ line' \in Seq(Streams) /\ Len(line) \in Nat \ {0} /\ Len(line') = Len(line) - 1
      /\ s = line[1] /\ \A n \in 1..Len(line') : line'[n] = line[n + 1]
  BY <1>1, HeadTailProperties, EmptySeq
<1>3. UNCHANGED <<queue, conn>> /\ running' = running \cup {s} /\ Cardinality(running) < Threads
  BY DEF Begin
<1>4. s \in InLine /\ s \notin running /\ NoSentinel(s) /\ conn[s] # "none"
  BY <1>2 DEF SseInv, InLine, ExecutorExact
<1>5. \A n \in 1..Len(line') : n + 1 \in 1..Len(line) /\ line'[n] # s
  BY <1>2 DEF SseInv, ExecutorExact
<1>6. \A t \in InLine' : t \in InLine /\ t # s
  BY <1>2, <1>5 DEF InLine
<1>7. IsFiniteSet(running') /\ Cardinality(running') = Cardinality(running) + 1
  BY <1>3, <1>4, FS_AddElement DEF SseInv
<1>8. ExecutorExact'
  <2>1. Cardinality(running') <= Threads
    BY <1>3, <1>7, ThreadsAssumption, FS_CardinalityType DEF SseInv
  <2>2. \A m, n \in 1..Len(line') : line'[m] = line'[n] => m = n
    BY <1>2, <1>5 DEF SseInv, ExecutorExact
  <2>3. \A n \in 1..Len(line') : line'[n] \notin running'
    BY <1>2, <1>3, <1>5 DEF SseInv, ExecutorExact
  <2>4. \A t \in Streams : \A n \in 1..Len(queue'[t]) :
          queue'[t][n] = Sentinel => n = Len(queue'[t]) /\ t \notin running'
    BY <1>3, <1>4 DEF SseInv, ExecutorExact, NoSentinel
  <2> QED BY <2>1, <2>2, <2>3, <2>4 DEF ExecutorExact
<1>9. SseTypeOK'
  BY <1>2, <1>3 DEF SseInv, SseTypeOK
<1> QED BY <1>3, <1>4, <1>6, <1>7, <1>8, <1>9 DEF SseInv, NoSentinel

\* What Put makes of the queues.
LEMMA PutShape ==
  ASSUME SseTypeOK, NEW s \in Streams, NEW es \in Seq(Events \cup {Sentinel}), Put(s, es)
  PROVE  /\ queue' \in [Streams -> Seq(Events \cup {Sentinel})]
         /\ \A t \in Streams \ {s} : queue'[t] = queue[t]
         /\ conn[s] # "open" => queue'[s] = <<>> /\ Len(queue'[s]) = 0
         /\ conn[s] = "open" =>
              /\ Len(queue'[s]) = Len(queue[s]) + Len(es)
              /\ \A n \in 1..Len(queue'[s]) :
                   queue'[s][n] = IF n <= Len(queue[s]) THEN queue[s][n] ELSE es[n - Len(queue[s])]
<1>1. queue[s] \in Seq(Events \cup {Sentinel}) /\ queue[s] \o es \in Seq(Events \cup {Sentinel})
  BY ConcatProperties DEF SseTypeOK
<1>2. CASE conn[s] = "open"
  <2>1. queue' = [queue EXCEPT ![s] = queue[s] \o es]
    BY <1>2 DEF Put
  <2>2. queue' \in [Streams -> Seq(Events \cup {Sentinel})] /\ queue'[s] = queue[s] \o es
    BY <1>1, <2>1 DEF SseTypeOK
  <2>3. \A t \in Streams \ {s} : queue'[t] = queue[t]
    BY <2>1 DEF SseTypeOK
  <2>4. /\ Len(queue'[s]) = Len(queue[s]) + Len(es)
        /\ \A n \in 1..Len(queue[s]) + Len(es) :
             queue'[s][n] = IF n <= Len(queue[s]) THEN queue[s][n] ELSE es[n - Len(queue[s])]
    BY <1>1, <2>2, ConcatProperties
  <2> QED BY <1>2, <2>2, <2>3, <2>4
<1>3. CASE conn[s] # "open"
  <2>1. queue' = [queue EXCEPT ![s] = <<>>]
    BY <1>3 DEF Put
  <2> QED BY <1>3, <2>1, EmptySeq DEF SseTypeOK
<1> QED BY <1>2, <1>3

LEMMA EmitKeeps ==
  ASSUME SseInv, NEW s \in Streams, NEW e \in Events, Emit(s, e)
  PROVE  SseInv'
<1>1. UNCHANGED <<line, running, conn>> /\ Put(s, <<e>>) /\ s \in running
  BY DEF Emit
<1>2. <<e>> \in Seq(Events \cup {Sentinel}) /\ Len(<<e>>) = 1 /\ <<e>>[1] = e /\ e # Sentinel
  BY SentinelAssumption
<1>3. /\ queue' \in [Streams -> Seq(Events \cup {Sentinel})]
      /\ \A t \in Streams \ {s} : queue'[t] = queue[t]
      /\ conn[s] # "open" => queue'[s] = <<>> /\ Len(queue'[s]) = 0
      /\ conn[s] = "open" =>
           /\ Len(queue'[s]) = Len(queue[s]) + 1
           /\ \A n \in 1..Len(queue'[s]) :
                queue'[s][n] = IF n <= Len(queue[s]) THEN queue[s][n] ELSE <<e>>[n - Len(queue[s])]
  BY <1>1, <1>2, PutShape DEF SseInv
<1>4. Len(queue[s]) \in Nat
  BY DEF SseInv, SseTypeOK
<1>5. NoSentinel(s)
  BY <1>1 DEF SseInv, ExecutorExact, NoSentinel
<1>6. NoSentinel(s)'
  <2> SUFFICES ASSUME NEW n \in 1..Len(queue'[s]) PROVE queue'[s][n] # Sentinel
    BY DEF NoSentinel
  <2>1. conn[s] = "open"
    BY <1>3
  <2>2. CASE n <= Len(queue[s])
    BY <1>3, <1>4, <1>5, <2>1, <2>2 DEF NoSentinel
  <2>3. CASE n > Len(queue[s])
    <3>1. n - Len(queue[s]) = 1
      BY <1>3, <1>4, <2>1, <2>3
    <3> QED BY <1>2, <1>3, <1>4, <2>1, <2>3, <3>1
  <2> QED BY <1>4, <2>2, <2>3
<1>7. ExecutorExact'
  <2>1. \A t \in Streams : \A n \in 1..Len(queue'[t]) :
          queue'[t][n] = Sentinel => n = Len(queue'[t]) /\ t \notin running'
    BY <1>1, <1>3, <1>6 DEF SseInv, ExecutorExact, NoSentinel
  <2> QED BY <1>1, <2>1 DEF SseInv, ExecutorExact
<1>8. InLine' = InLine /\ s \notin InLine
  BY <1>1 DEF InLine, SseInv, ExecutorExact
<1>9. \A t \in InLine : t \in Streams
  BY ElementOfSeq DEF InLine, SseInv, SseTypeOK
<1>10. \A t \in InLine' : NoSentinel(t)'
  <2> SUFFICES ASSUME NEW t \in InLine PROVE NoSentinel(t)'
    BY <1>8
  <2>1. queue'[t] = queue[t] /\ NoSentinel(t)
    BY <1>3, <1>8, <1>9 DEF SseInv
  <2> QED BY <2>1 DEF NoSentinel
<1>11. SseTypeOK'
  BY <1>1, <1>3 DEF SseInv, SseTypeOK
<1>12. \A t \in Streams : conn'[t] = "none" => t # s /\ queue'[t] = <<>> /\ t \notin running' /\ t \notin InLine'
  BY <1>1, <1>3, <1>8 DEF SseInv
<1> QED BY <1>1, <1>7, <1>10, <1>11, <1>12 DEF SseInv

LEMMA FinishKeeps ==
  ASSUME SseInv, NEW s \in Streams, NEW e \in Events, Finish(s, <<e>>)
  PROVE  SseInv'
<1> DEFINE es == <<e, Sentinel>>
<1>1. UNCHANGED <<line, conn>> /\ Put(s, <<e>> \o <<Sentinel>>) /\ s \in running /\ running' = running \ {s}
  BY DEF Finish
<1>2. es = <<e>> \o <<Sentinel>> /\ es \in Seq(Events \cup {Sentinel}) /\ Len(es) = 2 /\ es[1] = e
      /\ es[2] = Sentinel /\ e # Sentinel
  BY SentinelAssumption
<1> HIDE DEF es
<1>3. /\ queue' \in [Streams -> Seq(Events \cup {Sentinel})]
      /\ \A t \in Streams \ {s} : queue'[t] = queue[t]
      /\ conn[s] # "open" => queue'[s] = <<>> /\ Len(queue'[s]) = 0
      /\ conn[s] = "open" =>
           /\ Len(queue'[s]) = Len(queue[s]) + 2
           /\ \A n \in 1..Len(queue'[s]) :
                queue'[s][n] = IF n <= Len(queue[s]) THEN queue[s][n] ELSE es[n - Len(queue[s])]
  BY <1>1, <1>2, PutShape DEF SseInv
<1>4. Len(queue[s]) \in Nat /\ NoSentinel(s)
  BY <1>1 DEF SseInv, SseTypeOK, ExecutorExact, NoSentinel
<1>5. \A n \in 1..Len(queue'[s]) : queue'[s][n] = Sentinel => n = Len(queue'[s])
  <2> SUFFICES ASSUME NEW n \in 1..Len(queue'[s]), n # Len(queue'[s]) PROVE queue'[s][n] # Sentinel
    OBVIOUS
  <2>1. conn[s] = "open"
    BY <1>3
  <2>2. CASE n <= Len(queue[s])
    BY <1>3, <1>4, <2>1, <2>2 DEF NoSentinel
  <2>3. CASE n > Len(queue[s])
    <3>1. n - Len(queue[s]) = 1
      BY <1>3, <1>4, <2>1, <2>3
    <3> QED BY <1>2, <1>3, <1>4, <2>1, <2>3, <3>1
  <2> QED BY <1>4, <2>2, <2>3
<1>6. IsFiniteSet(running') /\ Cardinality(running') <= Cardinality(running)
  BY <1>1, FS_Subset DEF SseInv
<1>7. ExecutorExact'
  <2>1. \A t \in Streams : \A n \in 1..Len(queue'[t]) :
          queue'[t][n] = Sentinel => n = Len(queue'[t]) /\ t \notin running'
    BY <1>1, <1>3, <1>5 DEF SseInv, ExecutorExact
  <2>2. Cardinality(running') <= Threads
    BY <1>6, ThreadsAssumption, FS_CardinalityType DEF SseInv, ExecutorExact
  <2> QED BY <1>1, <2>1, <2>2 DEF SseInv, ExecutorExact
<1>8. InLine' = InLine /\ s \notin InLine
  BY <1>1 DEF InLine, SseInv, ExecutorExact
<1>9. \A t \in InLine : t \in Streams
  BY ElementOfSeq DEF InLine, SseInv, SseTypeOK
<1>10. \A t \in InLine' : NoSentinel(t)'
  <2> SUFFICES ASSUME NEW t \in InLine PROVE NoSentinel(t)'
    BY <1>8
  <2>1. queue'[t] = queue[t] /\ NoSentinel(t)
    BY <1>3, <1>8, <1>9 DEF SseInv
  <2> QED BY <2>1 DEF NoSentinel
<1>11. SseTypeOK'
  BY <1>1, <1>3 DEF SseInv, SseTypeOK
<1>12. \A t \in Streams : conn'[t] = "none" => t # s /\ queue'[t] = <<>> /\ t \notin running' /\ t \notin InLine'
  BY <1>1, <1>3, <1>8 DEF SseInv
<1> QED BY <1>1, <1>6, <1>7, <1>10, <1>11, <1>12 DEF SseInv

\* A step that shortens one queue from the front, or empties it.
LEMMA QueueShortened ==
  ASSUME SseInv, NEW s \in Streams, conn[s] = "open",
         UNCHANGED <<line, running>>,
         \/ queue[s] # <<>> /\ queue' = [queue EXCEPT ![s] = Tail(queue[s])]
         \/ queue' = [queue EXCEPT ![s] = <<>>],
         \/ UNCHANGED conn
         \/ \E st \in {"ended", "dropped"} : conn' = [conn EXCEPT ![s] = st]
  PROVE  SseInv'
<1>1. queue[s] \in Seq(Events \cup {Sentinel})
  BY DEF SseInv, SseTypeOK
<1>2. /\ queue' \in [Streams -> Seq(Events \cup {Sentinel})]
      /\ \A t \in Streams \ {s} : queue'[t] = queue[t]
      /\ \/ Len(queue'[s]) = 0
         \/ /\ Len(queue'[s]) = Len(queue[s]) - 1 /\ Len(queue[s]) \in Nat
            /\ \A n \in 1..Len(queue'[s]) : queue'[s][n] = queue[s][n + 1]
  <2>1. CASE queue[s] # <<>> /\ queue' = [queue EXCEPT ![s] = Tail(queue[s])]
    BY <1>1, <2>1, HeadTailProperties DEF SseInv, SseTypeOK
  <2>2. CASE queue' = [queue EXCEPT ![s] = <<>>]
    BY <2>2, EmptySeq DEF SseInv, SseTypeOK
  <2> QED BY <2>1, <2>2
<1>3. \A n \in 1..Len(queue'[s]) : queue'[s][n] = Sentinel
        => /\ n = Len(queue'[s]) /\ s \notin running
           /\ ~NoSentinel(s)
  BY <1>2 DEF SseInv, ExecutorExact, NoSentinel
<1>4. ExecutorExact'
  <2>1. \A t \in Streams : \A n \in 1..Len(queue'[t]) :
          queue'[t][n] = Sentinel => n = Len(queue'[t]) /\ t \notin running'
    BY <1>2, <1>3 DEF SseInv, ExecutorExact
  <2> QED BY <2>1 DEF SseInv, ExecutorExact
<1>5. InLine' = InLine
  BY DEF InLine
<1>6. \A t \in InLine : t \in Streams
  BY ElementOfSeq DEF InLine, SseInv, SseTypeOK
<1>7. \A t \in InLine : NoSentinel(t)'
  BY <1>2, <1>3, <1>6 DEF SseInv, NoSentinel
<1>8. SseTypeOK'
  BY <1>2 DEF SseInv, SseTypeOK
<1>9. \A t \in Streams : conn'[t] = "none" => t # s /\ conn[t] = "none"
  BY DEF SseInv, SseTypeOK
<1> QED BY <1>2, <1>4, <1>5, <1>7, <1>8, <1>9 DEF SseInv

LEMMA SseStopKeeps ==
  ASSUME SseInv, SseStop
  PROVE  SseInv'
<1>1. line' = <<>> /\ running' = {} /\ Len(line') = 0 /\ \A s \in Streams : queue'[s] = <<>> /\ Len(queue'[s]) = 0
  BY EmptySeq DEF SseStop
<1>2. IsFiniteSet(running') /\ Cardinality(running') = 0
  BY <1>1, FS_EmptySet
<1>3. SseTypeOK'
  BY <1>1, EmptySeq DEF SseStop, SseInv, SseTypeOK
<1>4. ExecutorExact'
  BY <1>1, <1>2, ThreadsAssumption DEF ExecutorExact
<1> QED BY <1>1, <1>2, <1>3, <1>4 DEF SseInv, InLine

-----------------------------------------------------------------------------
(* The inductive invariant.                                                *)

Countable(its) == \A n \in 1..Len(its) : Progress(n) \in Events

\* rest is the end of whole, and all that comes before it is settled.
RestOf(rest, whole) ==
  /\ Len(rest) <= Len(whole)
  /\ \A n \in 1..Len(rest) : rest[n] = whole[Len(whole) - Len(rest) + n]
  /\ \A n \in 1..(Len(whole) - Len(rest)) : Settled(whole[n])

Data ==
  /\ value \in [TableRows -> Urls \cup {Gone}]
  /\ touched \subseteq AppRows
  /\ items \in [Streams -> Seq(ItemsToSend)]
  /\ at \in [Streams -> Nat \ {0}]
  /\ stage \in [Streams -> {"resolve", "select", "matches"}]
  /\ report \in [Pages -> Seq(ItemsToSend)]
  /\ remaining \in [Pages -> Seq(ItemsToSend)]
  /\ attempts \in [Pages -> 0..MaxAttempts]
  /\ page \in [Pages -> {"idle", "running", "stopped", "completed"}]
  /\ \A s \in Streams : Countable(items[s])
  /\ \A p \in Pages : Countable(remaining[p])

\* Rows that share an id go on having one value until the application comes in.
SharedIds ==
  \A q, r \in TableRows :
    IdOf[q] = IdOf[r] /\ ~(\E t \in touched : IdOf[t] = IdOf[q]) => value[q] = value[r]

\* What a worker has passed is settled.
WorkerSettles(s) ==
  /\ at[s] <= Len(items[s]) + 1
  /\ s \notin running => at[s] = 1
  /\ stage[s] = "matches" => at[s] <= Len(items[s])
  /\ \A n \in 1..(at[s] - 1) : Settled(items[s][n])

\* What a progress event counts is settled, also when it is still in the queue.
CountsSettled(s) ==
  \A k \in 1..Len(queue[s]) : \A n \in 1..Len(items[s]) :
    queue[s][k] = Progress(n) => \A m \in 1..n : Settled(items[s][m])

\* A page that reads a stream sent it the end of its report.
PageKnows(p) ==
  /\ RestOf(remaining[p], report[p])
  /\ page[p] = "running" =>
       /\ attempts[p] \in 1..MaxAttempts /\ conn[Current(p)] = "open"
       /\ RestOf(items[Current(p)], report[p])

\* The last count on its way to the page p, or the one it has, is n.
NoCount(s, k) == \A n \in 1..Len(items[s]) : queue[s][k] # Progress(n)

LastCount(p, n) ==
  LET s == Current(p) IN
  \/ \E k \in 1..Len(queue[s]) :
       /\ n \in 1..Len(items[s]) /\ queue[s][k] = Progress(n)
       /\ \A l \in (k + 1)..Len(queue[s]) : NoCount(s, l)
  \/ /\ n = Len(items[s]) - Len(remaining[p])
     /\ \A l \in 1..Len(queue[s]) : NoCount(s, l)

\* How many items the worker of s is through with; it may end early by an error.
Passed(s) == IF s \in running \cup InLine THEN at[s] - 1 ELSE Len(items[s])

FailureTold(s) == s \notin running \cup InLine /\ \E k \in 1..Len(queue[s]) : queue[s][k] = Error

\* The page has been or will be told how far the worker is, or of its failure.
WorkCounted(p) ==
  page[p] = "running" =>
    (\E n \in Nat : n = Passed(Current(p)) /\ LastCount(p, n)) \/ FailureTold(Current(p))

IInv ==
  /\ SseInv /\ Data /\ SharedIds /\ CompletedIsComplete
  /\ \A s \in Streams : WorkerSettles(s) /\ CountsSettled(s)
  /\ \A p \in Pages : PageKnows(p) /\ WorkCounted(p)

-----------------------------------------------------------------------------
(* Items and tables.                                                       *)

LEMMA ItemTyped ==
  ItemsToSend \subseteq ReportRow /\ \A rep \in Reports : Eligible(rep) \in Seq(ItemsToSend)
<1>1. \A rep \in Reports : \A n \in 1..Len(Eligible(rep)) : Eligible(rep)[n] \in ReportRow
  BY ReportsAssumption, ElementOfSeq
<1>2. ItemsToSend \subseteq ReportRow
  BY <1>1 DEF ItemsToSend
<1>3. ASSUME NEW rep \in Reports PROVE Eligible(rep) \in Seq(ItemsToSend)
  <2>1. Eligible(rep) \in Seq(ReportRow)
    BY ReportsAssumption
  <2>2. \A n \in 1..Len(Eligible(rep)) : Eligible(rep)[n] \in ItemsToSend
    BY DEF ItemsToSend
  <2> HIDE DEF Eligible, ItemsToSend
  <2> QED BY <2>1, <2>2
<1> QED BY <1>2, <1>3

LEMMA EventsDiffer ==
  /\ Done \in Events /\ Error \in Events /\ Done # Error
  /\ \A n : Progress(n) # Done /\ Progress(n) # Error
  /\ \A m, n : Progress(m) = Progress(n) => m = n
  /\ Sentinel \notin Events
BY EventsAssumption, SentinelAssumption DEF Progress, Done, Error

\* What a step has to leave of the tables for the rest of the invariant.
TablesKept ==
  /\ value' \in [TableRows -> Urls \cup {Gone}] /\ touched' \subseteq AppRows /\ SharedIds'
  /\ \A it \in ItemsToSend : Settled(it) => Settled(it)'

LEMMA TablesUnchanged ==
  ASSUME IInv, UNCHANGED tables
  PROVE  TablesKept
BY DEF IInv, Data, SharedIds, TablesKept, tables, Settled

\* The guarded UPDATE settles its item and unsettles none.
LEMMA WriteKeepsTables ==
  ASSUME IInv, NEW s \in Streams, at[s] <= Len(items[s]), Write(s), UNCHANGED touched
  PROVE  TablesKept /\ \A it : it = Item(s) => Settled(it)'
<1> DEFINE me == Item(s)
<1>1. me \in ItemsToSend /\ me \in ReportRow
  <2>1. items[s] \in Seq(ItemsToSend) /\ at[s] \in 1..Len(items[s])
    BY DEF IInv, Data
  <2> QED BY <2>1, ElementOfSeq, ItemTyped DEF Item
<1>2. me.destinationUrl \in Urls /\ me.sourcePath \in Urls
  BY <1>1 DEF ReportRow
<1>3. ItemsToSend \subseteq ReportRow
  BY ItemTyped
<1>4. \A r \in TableRows :
        value'[r] = IF IdOf[r] = me.rowId /\ value[r] = me.sourcePath THEN me.destinationUrl ELSE value[r]
  BY <1>2, TablesAssumption DEF Write, Guarded, RowsOf
<1>5. value' \in [TableRows -> Urls \cup {Gone}]
  BY <1>2, <1>4 DEF Write, IInv, Data
<1> HIDE DEF me
<1>6. SharedIds'
  BY <1>4 DEF IInv, SharedIds
<1>7. ASSUME NEW it \in ItemsToSend, Settled(it) \/ it = me PROVE Settled(it)'
  <2>1. it.rowId = me.rowId => me.destinationUrl # it.sourcePath
    BY <1>1, NewUrlsAssumption
  <2> QED BY <1>4, <1>7, <2>1 DEF Settled
<1>8. touched' \subseteq AppRows
  BY DEF IInv, Data
<1> QED BY <1>1, <1>5, <1>6, <1>7, <1>8 DEF TablesKept, me

LEMMA AppChangeKeepsTables ==
  ASSUME IInv, NEW r \in AppRows, AppChange(r)
  PROVE  TablesKept
<1>1. PICK v \in Urls \cup {Gone} : value' = [value EXCEPT ![r] = v]
  BY DEF AppChange
<1>2. touched' = touched \cup {r} /\ r \in TableRows /\ \A q \in TableRows \ {r} : value'[q] = value[q]
  BY <1>1, TablesAssumption DEF AppChange, IInv, Data
<1>3. value' \in [TableRows -> Urls \cup {Gone}]
  BY <1>1 DEF IInv, Data
<1>4. SharedIds'
  BY <1>2 DEF IInv, SharedIds
<1>5. ASSUME NEW it \in ItemsToSend, Settled(it) PROVE Settled(it)'
  BY <1>2, <1>5 DEF Settled
<1> QED BY <1>2, <1>3, <1>4, <1>5 DEF TablesKept, IInv, Data

-----------------------------------------------------------------------------
(* What SELECT shows settles its item when it is not as expected.          *)

LEMMA SelectSettles ==
  ASSUME IInv, NEW s \in Streams, at[s] <= Len(items[s]),
         \/ RowsOf(Item(s).rowId) = {}
         \/ \E r \in RowsOf(Item(s).rowId) : value[r] # Item(s).sourcePath
  PROVE  Settled(Item(s))
<1>1. Item(s) \in ReportRow
  <2>1. items[s] \in Seq(ItemsToSend) /\ at[s] \in 1..Len(items[s])
    BY DEF IInv, Data
  <2> QED BY <2>1, ElementOfSeq, ItemTyped DEF Item
<1>2. Item(s).sourcePath # Gone
  BY <1>1, TablesAssumption DEF ReportRow
<1> QED BY <1>2 DEF RowsOf, Settled, IInv, SharedIds

-----------------------------------------------------------------------------
(* The parts of the invariant that a step leaves alone.                    *)

LEMMA WorkerKept ==
  ASSUME IInv, TablesKept, NEW s \in Streams,
         UNCHANGED <<items[s], at[s], stage[s]>>, s \in running' <=> s \in running
  PROVE  WorkerSettles(s)'
<1>1. \A n \in 1..Len(items[s]) : items[s][n] \in ItemsToSend
  BY ElementOfSeq DEF IInv, Data
<1>2. \A n \in 1..(at[s] - 1) : n \in 1..Len(items[s])
  BY DEF IInv, Data, WorkerSettles
<1> QED BY <1>1, <1>2 DEF IInv, WorkerSettles, TablesKept

\* Every event of the queue was in it before.
LEMMA CountsKept ==
  ASSUME IInv, TablesKept, NEW s \in Streams, UNCHANGED items[s],
         \A k \in 1..Len(queue'[s]) : \E l \in 1..Len(queue[s]) : queue'[s][k] = queue[s][l]
  PROVE  CountsSettled(s)'
<1>1. \A n \in 1..Len(items[s]) : items[s][n] \in ItemsToSend
  BY ElementOfSeq DEF IInv, Data
<1> SUFFICES ASSUME NEW k \in 1..Len(queue'[s]), NEW n \in 1..Len(items[s]),
                    queue'[s][k] = Progress(n), NEW m \in 1..n
             PROVE  \A it : it = items[s][m] => Settled(it)'
  BY DEF CountsSettled
<1>2. m \in 1..Len(items[s]) /\ Settled(items[s][m])
  <2>1. Len(items[s]) \in Nat
    BY DEF IInv, Data
  <2>2. PICK l \in 1..Len(queue[s]) : queue[s][l] = Progress(n)
    OBVIOUS
  <2>3. CountsSettled(s)
    BY DEF IInv
  <2>4. Settled(items[s][m])
    BY <2>2, <2>3 DEF CountsSettled
  <2> QED BY <2>1, <2>4
<1> QED BY <1>1, <1>2 DEF TablesKept

LEMMA CurrentTyped ==
  ASSUME IInv, NEW p \in Pages, page[p] = "running"
  PROVE  /\ Current(p) \in Streams /\ conn[Current(p)] = "open"
         /\ items[Current(p)] \in Seq(ItemsToSend) /\ Len(items[Current(p)]) \in Nat
<1>1. attempts[p] \in 1..MaxAttempts /\ conn[Current(p)] = "open"
  BY DEF IInv, PageKnows
<1>2. Current(p) \in Streams
  BY <1>1, StreamsAssumption DEF Current
<1> QED BY <1>1, <1>2 DEF IInv, Data

LEMMA ListsKept ==
  ASSUME IInv, TablesKept, NEW p \in Pages, UNCHANGED <<items, report, remaining, attempts>>
  PROVE  /\ RestOf(remaining[p], report[p])'
         /\ page[p] = "running" => RestOf(items[Current(p)], report[p])'
<1>1. \A n \in 1..Len(report[p]) : report[p][n] \in ItemsToSend
  BY ElementOfSeq DEF IInv, Data
<1>2. Len(report[p]) \in Nat /\ Len(remaining[p]) \in Nat /\ remaining[p] \in Seq(ItemsToSend)
  BY DEF IInv, Data
<1>3. ASSUME NEW t \in Seq(ItemsToSend), RestOf(t, report[p])
      PROVE  \A n \in 1..(Len(report[p]) - Len(t)) : \A it : it = report[p][n] => Settled(it)'
  <2> SUFFICES ASSUME NEW n \in 1..(Len(report[p]) - Len(t)) PROVE \A it : it = report[p][n] => Settled(it)'
    OBVIOUS
  <2>1. n \in 1..Len(report[p])
    BY <1>2
  <2>2. report[p][n] \in ItemsToSend /\ Settled(report[p][n])
    BY <1>1, <1>3, <2>1 DEF RestOf
  <2> QED BY <2>2 DEF TablesKept
<1>4. RestOf(remaining[p], report[p])'
  BY <1>2, <1>3 DEF IInv, PageKnows, RestOf
<1>5. page[p] = "running" => RestOf(items[Current(p)], report[p])'
  <2>1. Current(p)' = Current(p)
    BY DEF Current
  <2> QED BY <1>3, <2>1, CurrentTyped DEF IInv, PageKnows, RestOf
<1> QED BY <1>4, <1>5

\* The page p and the stream it reads are as before.
LEMMA WorkCountedKept ==
  ASSUME IInv, NEW p \in Pages, page'[p] = "running" => page[p] = "running",
         UNCHANGED <<remaining[p], attempts[p], items[Current(p)], queue[Current(p)], at[Current(p)]>>,
         Current(p) \in running' \cup InLine' <=> Current(p) \in running \cup InLine
  PROVE  WorkCounted(p)'
<1>1. Current(p)' = Current(p)
  BY DEF Current
<1>2. \A n : LastCount(p, n)' <=> LastCount(p, n)
  BY <1>1 DEF LastCount, NoCount
<1>3. Passed(Current(p))' = Passed(Current(p)) /\ (FailureTold(Current(p))' <=> FailureTold(Current(p)))
  BY <1>1 DEF Passed, FailureTold
<1> QED BY <1>2, <1>3 DEF IInv, WorkCounted

-----------------------------------------------------------------------------
(* The steps of a worker.                                                  *)

\* Only the tables or a worker's stage change, or a worker takes a thread.
LEMMA QuietKeeps ==
  ASSUME IInv, SseInv', TablesKept,
         UNCHANGED <<queue, conn, items, at, pages>>,
         running \subseteq running', running' \cup InLine' = running \cup InLine,
         stage' \in [Streams -> {"resolve", "select", "matches"}],
         \A s \in Streams : stage'[s] = "matches" => at[s] <= Len(items[s])
  PROVE  IInv'
<1> USE DEF pages
<1>1. Data'
  BY DEF IInv, Data, TablesKept, Countable
<1>2. \A s \in Streams : \A n \in 1..Len(items[s]) : items[s][n] \in ItemsToSend
  BY ElementOfSeq DEF IInv, Data
<1>3. \A s \in Streams : WorkerSettles(s)'
  BY <1>2 DEF IInv, Data, WorkerSettles, TablesKept
<1>4. ASSUME NEW s \in Streams PROVE CountsSettled(s)'
  BY CountsKept
<1>5. ASSUME NEW p \in Pages PROVE PageKnows(p)' /\ WorkCounted(p)'
  <2>1. PageKnows(p)'
    BY ListsKept DEF IInv, PageKnows, Current
  <2>2. UNCHANGED <<remaining[p], attempts[p], items[Current(p)], queue[Current(p)], at[Current(p)], page[p]>>
    BY DEF Current
  <2>3. WorkCounted(p)'
    BY <2>2, WorkCountedKept
  <2> QED BY <2>1, <2>3
<1>6. SharedIds' /\ CompletedIsComplete'
  BY DEF IInv, TablesKept, CompletedIsComplete
<1> QED BY <1>1, <1>3, <1>4, <1>5, <1>6 DEF IInv

\* One item is dealt with: what the progress event counts is settled, and it is
\* the last count on its way to the page.
LEMMA SettleKeeps ==
  ASSUME IInv, SseInv', TablesKept, NEW s \in Streams, at[s] <= Len(items[s]),
         Settle(s), \A it : it = Item(s) => Settled(it)'
  PROVE  IInv'
<1> DEFINE e == Progress(at[s])
<1>1. /\ s \in running /\ UNCHANGED <<line, running, conn, items, report, remaining, attempts, page>>
      /\ Put(s, <<e>>)
      /\ at' = [at EXCEPT ![s] = at[s] + 1] /\ stage' = [stage EXCEPT ![s] = "select"]
  BY DEF Settle, Emit, pages
<1>2. at[s] \in 1..Len(items[s]) /\ Len(items[s]) \in Nat /\ e \in Events
  BY DEF IInv, Data, Countable
<1>3. InLine' = InLine
  BY <1>1 DEF InLine
<1>4. /\ \A t \in Streams \ {s} : queue'[t] = queue[t]
      /\ conn[s] # "open" => queue'[s] = <<>> /\ Len(queue'[s]) = 0
      /\ conn[s] = "open" =>
           /\ Len(queue'[s]) = Len(queue[s]) + 1
           /\ \A n \in 1..Len(queue'[s]) :
                queue'[s][n] = IF n <= Len(queue[s]) THEN queue[s][n] ELSE <<e>>[n - Len(queue[s])]
  <2>1. <<e>> \in Seq(Events \cup {Sentinel}) /\ Len(<<e>>) = 1
    BY <1>2
  <2> HIDE DEF e
  <2> QED BY <1>1, <2>1, PutShape DEF IInv, SseInv
<1>5. Len(queue[s]) \in Nat
  BY DEF IInv, SseInv, SseTypeOK
<1>6. conn[s] = "open" => queue'[s][Len(queue[s]) + 1] = e
  <2>1. <<e>>[1] = e
    OBVIOUS
  <2> HIDE DEF e
  <2> QED BY <1>4, <1>5, <2>1
<1>7. \A k \in 1..Len(queue'[s]) : queue'[s][k] = e \/ (k \in 1..Len(queue[s]) /\ queue'[s][k] = queue[s][k])
  <2> HIDE DEF e
  <2>1. CASE conn[s] = "open"
    <3> SUFFICES ASSUME NEW k \in 1..Len(queue'[s]), ~(k <= Len(queue[s])) PROVE queue'[s][k] = e
      BY <1>4, <1>5, <2>1
    <3>1. k = Len(queue[s]) + 1
      BY <1>4, <1>5, <2>1
    <3> QED BY <1>6, <2>1, <3>1
  <2>2. CASE conn[s] # "open"
    BY <1>4, <2>2
  <2> QED BY <2>1, <2>2
<1>8. Data'
  BY <1>1, <1>2 DEF IInv, Data, TablesKept, Countable
<1>9. \A n \in 1..Len(items[s]) : items[s][n] \in ItemsToSend
  BY ElementOfSeq DEF IInv, Data
<1>10. \A n \in 1..at[s] : \A it : it = items[s][n] => Settled(it)'
  <2>1. \A n \in 1..(at[s] - 1) : Settled(items[s][n]) /\ n \in 1..Len(items[s])
    BY <1>2 DEF IInv, WorkerSettles
  <2>2. \A n \in 1..(at[s] - 1) : \A it : it = items[s][n] => Settled(it)'
    BY <1>9, <2>1 DEF TablesKept
  <2> QED BY <1>2, <2>2 DEF Item
<1>11. WorkerSettles(s)'
  <2>1. at'[s] = at[s] + 1 /\ stage'[s] = "select"
    BY <1>1 DEF IInv, Data
  <2> QED BY <1>1, <1>2, <1>10, <2>1 DEF WorkerSettles
<1>12. CountsSettled(s)'
  <2> SUFFICES ASSUME NEW k \in 1..Len(queue'[s]), NEW n \in 1..Len(items[s]),
                      queue'[s][k] = Progress(n), NEW m \in 1..n
               PROVE  \A it : it = items[s][m] => Settled(it)'
    BY <1>1 DEF CountsSettled
  <2>1. CASE queue'[s][k] = e
    BY <1>10, <2>1, EventsDiffer
  <2>2. CASE k \in 1..Len(queue[s]) /\ queue'[s][k] = queue[s][k]
    <3>1. CountsSettled(s)
      BY DEF IInv
    <3>2. Settled(items[s][m])
      BY <2>2, <3>1 DEF CountsSettled
    <3>3. m \in 1..Len(items[s])
      BY <1>2
    <3> QED BY <1>9, <3>2, <3>3 DEF TablesKept
  <2> QED BY <1>7, <2>1, <2>2
<1>13. ASSUME NEW t \in Streams \ {s} PROVE WorkerSettles(t)' /\ CountsSettled(t)'
  <2>1. UNCHANGED <<items[t], at[t], stage[t]>>
    BY <1>1 DEF IInv, Data
  <2> QED BY <1>1, <1>4, <2>1, WorkerKept, CountsKept
<1>14. ASSUME NEW p \in Pages PROVE PageKnows(p)'
  BY <1>1, ListsKept DEF IInv, PageKnows, Current
<1>15. ASSUME NEW p \in Pages PROVE WorkCounted(p)'
  <2>1. CASE page[p] = "running" /\ Current(p) = s
    <3>1. Current(p)' = s /\ conn[s] = "open"
      BY <1>1, <2>1, CurrentTyped DEF Current
    <3>2. \A n : n = at[s] => LastCount(p, n)'
      <4>1. Len(queue[s]) + 1 \in 1..Len(queue'[s]) /\ queue'[s][Len(queue[s]) + 1] = Progress(at[s])
        BY <1>4, <1>5, <1>6, <3>1
      <4>2. \A l \in ((Len(queue[s]) + 1) + 1)..Len(queue'[s]) : FALSE
        BY <1>4, <1>5, <3>1
      <4> QED BY <1>1, <1>2, <3>1, <4>1, <4>2 DEF LastCount
    <3>3. Passed(Current(p))' = at[s]
      BY <1>1, <1>2, <3>1 DEF Passed, IInv, Data
    <3> QED BY <1>2, <3>2, <3>3 DEF WorkCounted
  <2>2. CASE page[p] = "running" /\ Current(p) # s
    <3>1. UNCHANGED <<items[Current(p)], queue[Current(p)], at[Current(p)]>>
      BY <1>1, <1>4, <2>2, CurrentTyped DEF IInv, Data, Current
    <3>2. UNCHANGED <<remaining[p], attempts[p], page[p]>>
      BY <1>1
    <3>3. Current(p) \in running' \cup InLine' <=> Current(p) \in running \cup InLine
      BY <1>1, <1>3
    <3> QED BY <3>1, <3>2, <3>3, WorkCountedKept
  <2>3. CASE page[p] # "running"
    BY <1>1, <2>3 DEF WorkCounted
  <2> QED BY <2>1, <2>2, <2>3
<1>16. SharedIds' /\ CompletedIsComplete'
  BY <1>1 DEF IInv, TablesKept, CompletedIsComplete
<1> QED BY <1>8, <1>11, <1>12, <1>13, <1>14, <1>15, <1>16 DEF IInv

\* The work ends, with "done" after the last item or with an error at any time.
LEMMA ReturnKeeps ==
  ASSUME IInv, SseInv', TablesKept, NEW s \in Streams, NEW e \in {Done, Error},
         Return(s, <<e>>), e = Done => at[s] > Len(items[s])
  PROVE  IInv'
<1>1. /\ s \in running /\ running' = running \ {s}
      /\ UNCHANGED <<line, conn, items, report, remaining, attempts, page>>
      /\ Put(s, <<e>> \o <<Sentinel>>)
      /\ at' = [at EXCEPT ![s] = 1] /\ stage' = [stage EXCEPT ![s] = "resolve"]
  BY DEF Return, Finish, pages
<1>2. Len(items[s]) \in Nat /\ e \in Events /\ at[s] \in Nat /\ at[s] <= Len(items[s]) + 1
  BY EventsDiffer DEF IInv, Data, WorkerSettles
<1>3. InLine' = InLine /\ s \notin InLine
  BY <1>1 DEF InLine, IInv, SseInv, ExecutorExact
<1> DEFINE es == <<e, Sentinel>>
<1>4. /\ \A t \in Streams \ {s} : queue'[t] = queue[t]
      /\ conn[s] # "open" => queue'[s] = <<>> /\ Len(queue'[s]) = 0
      /\ conn[s] = "open" =>
           /\ Len(queue'[s]) = Len(queue[s]) + 2
           /\ \A n \in 1..Len(queue'[s]) :
                queue'[s][n] = IF n <= Len(queue[s]) THEN queue[s][n] ELSE es[n - Len(queue[s])]
  <2>1. es = <<e>> \o <<Sentinel>> /\ es \in Seq(Events \cup {Sentinel}) /\ Len(es) = 2
    BY <1>2
  <2> HIDE DEF es
  <2>2. Put(s, es)
    BY <1>1, <2>1
  <2>3. SseTypeOK
    BY DEF IInv, SseInv
  <2> QED BY <2>1, <2>2, <2>3, PutShape
<1>5. es[1] = e /\ es[2] = Sentinel /\ Len(queue[s]) \in Nat
  BY DEF IInv, SseInv, SseTypeOK
<1> HIDE DEF es
<1>6. conn[s] = "open" => /\ Len(queue[s]) + 1 \in 1..Len(queue'[s]) /\ queue'[s][Len(queue[s]) + 1] = e
                          /\ queue'[s][Len(queue[s]) + 2] = Sentinel
                          /\ \A k \in 1..Len(queue[s]) : k \in 1..Len(queue'[s]) /\ queue'[s][k] = queue[s][k]
  <2> SUFFICES ASSUME conn[s] = "open"
               PROVE  /\ Len(queue[s]) + 1 \in 1..Len(queue'[s]) /\ queue'[s][Len(queue[s]) + 1] = e
                      /\ queue'[s][Len(queue[s]) + 2] = Sentinel
                      /\ \A k \in 1..Len(queue[s]) : k \in 1..Len(queue'[s]) /\ queue'[s][k] = queue[s][k]
    OBVIOUS
  <2>1. Len(queue[s]) + 1 \in 1..Len(queue'[s]) /\ Len(queue[s]) + 2 \in 1..Len(queue'[s])
    BY <1>4, <1>5
  <2>2. (Len(queue[s]) + 1) - Len(queue[s]) = 1 /\ (Len(queue[s]) + 2) - Len(queue[s]) = 2
    BY <1>5
  <2>3. queue'[s][Len(queue[s]) + 1] = e /\ queue'[s][Len(queue[s]) + 2] = Sentinel
    BY <1>4, <1>5, <2>1, <2>2
  <2>4. \A k \in 1..Len(queue[s]) : k \in 1..Len(queue'[s]) /\ queue'[s][k] = queue[s][k]
    BY <1>4, <1>5
  <2> QED BY <2>1, <2>3, <2>4
<1>7. \A k \in 1..Len(queue'[s]) :
        queue'[s][k] \in {e, Sentinel} \/ (k \in 1..Len(queue[s]) /\ queue'[s][k] = queue[s][k])
  <2>1. CASE conn[s] = "open"
    <3> SUFFICES ASSUME NEW k \in 1..Len(queue'[s]), ~(k <= Len(queue[s])) PROVE queue'[s][k] \in {e, Sentinel}
      BY <1>4, <1>5, <2>1
    <3>1. k = Len(queue[s]) + 1 \/ k = Len(queue[s]) + 2
      BY <1>4, <1>5, <2>1
    <3> QED BY <1>6, <2>1, <3>1
  <2>2. CASE conn[s] # "open"
    BY <1>4, <2>2
  <2> QED BY <2>1, <2>2
<1>8. \A n \in 1..Len(items[s]) : Progress(n) # e /\ Progress(n) # Sentinel
  BY EventsDiffer DEF IInv, Data, Countable
<1>9. Data'
  BY <1>1 DEF IInv, Data, TablesKept, Countable
<1>10. WorkerSettles(s)'
  <2>1. at'[s] = 1 /\ stage'[s] = "resolve"
    BY <1>1 DEF IInv, Data
  <2> QED BY <1>1, <1>2, <2>1 DEF WorkerSettles
<1>11. CountsSettled(s)'
  <2>1. \A n \in 1..Len(items[s]) : items[s][n] \in ItemsToSend
    BY ElementOfSeq DEF IInv, Data
  <2> SUFFICES ASSUME NEW k \in 1..Len(queue'[s]), NEW n \in 1..Len(items[s]),
                      queue'[s][k] = Progress(n), NEW m \in 1..n
               PROVE  \A it : it = items[s][m] => Settled(it)'
    BY <1>1 DEF CountsSettled
  <2>2. k \in 1..Len(queue[s]) /\ queue[s][k] = Progress(n)
    BY <1>7, <1>8
  <2>3. CountsSettled(s)
    BY DEF IInv
  <2>4. Settled(items[s][m])
    BY <2>2, <2>3 DEF CountsSettled
  <2>5. m \in 1..Len(items[s])
    BY <1>2
  <2> QED BY <2>1, <2>4, <2>5 DEF TablesKept
<1>12. ASSUME NEW t \in Streams \ {s} PROVE WorkerSettles(t)' /\ CountsSettled(t)'
  <2>1. UNCHANGED <<items[t], at[t], stage[t]>>
    BY <1>1 DEF IInv, Data
  <2> QED BY <1>1, <1>4, <2>1, WorkerKept, CountsKept
<1>13. ASSUME NEW p \in Pages PROVE PageKnows(p)'
  BY <1>1, ListsKept DEF IInv, PageKnows, Current
<1>14. ASSUME NEW p \in Pages PROVE WorkCounted(p)'
  <2>1. CASE page[p] = "running" /\ Current(p) = s
    <3>1. Current(p)' = s /\ conn[s] = "open"
      BY <1>1, <2>1, CurrentTyped DEF Current
    <3>2. Current(p) \notin running' \cup InLine'
      BY <1>1, <1>3, <2>1
    <3>3. CASE e = Error
      <4>1. \E k \in 1..Len(queue'[s]) : queue'[s][k] = Error
        BY <1>6, <3>1, <3>3
      <4> QED BY <2>1, <3>1, <3>2, <4>1 DEF WorkCounted, FailureTold
    <3>4. CASE e = Done
      <4>1. at[s] - 1 = Len(items[s])
        BY <1>2, <3>4
      <4>2. LastCount(p, Len(items[s]))
        BY <1>1, <2>1, <4>1 DEF IInv, WorkCounted, Passed, FailureTold
      <4>3. \A l \in 1..Len(queue[s]) : NoCount(s, l) => NoCount(s, l)'
        BY <1>1, <1>6, <3>1 DEF NoCount
      <4>4. \A l \in 1..Len(queue'[s]) : l \notin 1..Len(queue[s]) => NoCount(s, l)'
        BY <1>1, <1>7, <1>8 DEF NoCount
      <4>5. \A n : n = Len(items[s]) => LastCount(p, n)'
        <5>1. ASSUME NEW k \in 1..Len(queue[s]), Len(items[s]) \in 1..Len(items[s]),
                     queue[s][k] = Progress(Len(items[s])),
                     \A l \in (k + 1)..Len(queue[s]) : NoCount(s, l)
              PROVE  \A n : n = Len(items[s]) => LastCount(p, n)'
          <6>1. \A l \in (k + 1)..Len(queue'[s]) : NoCount(s, l)'
            BY <1>5, <4>3, <4>4, <5>1
          <6>2. k \in 1..Len(queue'[s]) /\ queue'[s][k] = Progress(Len(items[s]))
            BY <1>6, <3>1, <5>1
          <6> QED BY <1>1, <3>1, <5>1, <6>1, <6>2 DEF LastCount
        <5>2. ASSUME Len(items[s]) = Len(items[s]) - Len(remaining[p]),
                     \A l \in 1..Len(queue[s]) : NoCount(s, l)
              PROVE  \A n : n = Len(items[s]) => LastCount(p, n)'
          <6>1. \A l \in 1..Len(queue'[s]) : NoCount(s, l)'
            BY <4>3, <4>4, <5>2
          <6> QED BY <1>1, <3>1, <5>2, <6>1 DEF LastCount
        <5> QED BY <2>1, <4>2, <5>1, <5>2 DEF LastCount
      <4>6. Passed(Current(p))' = Len(items[s])
        <5>1. Current(p)' \notin running' \cup InLine'
          BY <1>1, <1>3, <3>1
        <5> QED BY <1>1, <3>1, <5>1 DEF Passed
      <4> QED BY <1>2, <4>5, <4>6 DEF WorkCounted
    <3> QED BY <3>3, <3>4
  <2>2. CASE page[p] = "running" /\ Current(p) # s
    <3>1. UNCHANGED <<items[Current(p)], queue[Current(p)], at[Current(p)]>>
      BY <1>1, <1>4, <2>2, CurrentTyped DEF IInv, Data, Current
    <3>2. UNCHANGED <<remaining[p], attempts[p], page[p]>>
      BY <1>1
    <3>3. Current(p) \in running' \cup InLine' <=> Current(p) \in running \cup InLine
      BY <1>1, <1>3, <2>2
    <3> QED BY <3>1, <3>2, <3>3, WorkCountedKept
  <2>3. CASE page[p] # "running"
    BY <1>1, <2>3 DEF WorkCounted
  <2> QED BY <2>1, <2>2, <2>3
<1>15. SharedIds' /\ CompletedIsComplete'
  BY <1>1 DEF IInv, TablesKept, CompletedIsComplete
<1> QED BY <1>9, <1>10, <1>11, <1>12, <1>13, <1>14, <1>15 DEF IInv

LEMMA SseSame ==
  ASSUME SseInv, UNCHANGED <<line, running, queue, conn>>
  PROVE  SseInv' /\ InLine' = InLine
BY DEF SseInv, SseTypeOK, ExecutorExact, InLine, NoSentinel

LEMMA SettleSse ==
  ASSUME IInv, NEW s \in Streams, at[s] <= Len(items[s]), Settle(s)
  PROVE  SseInv'
<1>1. Progress(at[s]) \in Events
  <2>1. at[s] \in 1..Len(items[s])
    BY DEF IInv, Data
  <2> QED BY <2>1 DEF IInv, Data, Countable
<1> QED BY <1>1, EmitKeeps DEF Settle, IInv

LEMMA WorkKeeps ==
  ASSUME IInv, NEW s \in Streams, Work(s)
  PROVE  IInv'
<1>1. SseInv /\ WorkerSettles(s) /\ stage \in [Streams -> {"resolve", "select", "matches"}]
  BY DEF IInv, Data
<1>2. \A t \in Streams : stage[t] = "matches" => at[t] <= Len(items[t])
  BY DEF IInv, WorkerSettles
<1>3. CASE StartWork(s)
  <2>1. Begin(s) /\ UNCHANGED <<tables, items, at, stage, pages>>
    BY <1>3 DEF StartWork
  <2>2. UNCHANGED <<queue, conn>> /\ running' = running \cup {s} /\ line # <<>> /\ s = Head(line) /\ line' = Tail(line)
    BY <2>1 DEF Begin
  <2>3. line \in Seq(Streams)
    BY <1>1 DEF SseInv, SseTypeOK
  <2>4. /\ Len(line) \in Nat \ {0} /\ Len(line') = Len(line) - 1
        /\ s = line[1] /\ \A n \in 1..Len(line') : line'[n] = line[n + 1]
    BY <2>2, <2>3, HeadTailProperties, EmptySeq
  <2>5. InLine \subseteq InLine' \cup {s}
    <3>1. \A n \in 1..Len(line) : n = 1 \/ (n - 1 \in 1..Len(line') /\ line'[n - 1] = line[n])
      BY <2>4
    <3> QED BY <2>4, <3>1 DEF InLine
  <2>6. InLine' \subseteq InLine /\ s \in InLine
    <3>1. \A n \in 1..Len(line') : n + 1 \in 1..Len(line)
      BY <2>4
    <3>2. 1 \in 1..Len(line)
      BY <2>4
    <3> QED BY <2>4, <3>1, <3>2 DEF InLine
  <2>7. running' \cup InLine' = running \cup InLine
    BY <2>2, <2>5, <2>6
  <2>8. SseInv'
    BY <1>1, <2>1, BeginKeeps
  <2>9. TablesKept
    BY <2>1, TablesUnchanged
  <2> QED BY <1>1, <1>2, <2>1, <2>2, <2>7, <2>8, <2>9, QuietKeeps
<1>4. CASE Resolve(s)
  <2>1. /\ UNCHANGED <<line, running, queue, conn, tables, items, at, pages>>
        /\ stage' = [stage EXCEPT ![s] = "select"]
    BY <1>4 DEF Resolve, sseVars
  <2>2. SseInv' /\ InLine' = InLine
    BY <1>1, <2>1, SseSame
  <2>3. /\ stage' \in [Streams -> {"resolve", "select", "matches"}]
        /\ \A t \in Streams : stage'[t] = "matches" => at[t] <= Len(items[t])
    BY <1>1, <1>2, <2>1
  <2>4. TablesKept
    BY <2>1, TablesUnchanged
  <2> QED BY <2>1, <2>2, <2>3, <2>4, QuietKeeps
<1>5. CASE Select(s)
  <2>1. TablesKept
    BY <1>5, TablesUnchanged DEF Select
  <2>2. CASE Settle(s) /\ (\/ RowsOf(Item(s).rowId) = {}
                           \/ \E r \in RowsOf(Item(s).rowId) : value[r] # Item(s).sourcePath)
    <3>1. at[s] <= Len(items[s])
      BY <1>5 DEF Select
    <3>2. Settled(Item(s))
      BY <2>2, <3>1, SelectSettles
    <3>3. \A it : it = Item(s) => Settled(it)'
      BY <1>5, <3>2 DEF Select, tables, Settled
    <3>4. SseInv'
      BY <2>2, <3>1, SettleSse
    <3> QED BY <2>1, <2>2, <3>1, <3>3, <3>4, SettleKeeps
  <2>3. CASE stage' = [stage EXCEPT ![s] = "matches"] /\ UNCHANGED <<sseVars, items, at, pages>>
    <3>1. UNCHANGED <<line, running, queue, conn, items, at, pages>>
      BY <2>3 DEF sseVars
    <3>2. SseInv' /\ InLine' = InLine
      BY <1>1, <3>1, SseSame
    <3>3. /\ stage' \in [Streams -> {"resolve", "select", "matches"}]
          /\ \A t \in Streams : stage'[t] = "matches" => at[t] <= Len(items[t])
      BY <1>1, <1>2, <1>5, <2>3 DEF Select
    <3> QED BY <2>1, <3>1, <3>2, <3>3, QuietKeeps
  <2> QED BY <1>5, <2>2, <2>3 DEF Select
<1>6. CASE Update(s)
  <2>1. at[s] <= Len(items[s]) /\ Write(s) /\ Settle(s) /\ UNCHANGED touched
    BY <1>2, <1>6 DEF Update
  <2>2. TablesKept /\ \A it : it = Item(s) => Settled(it)'
    BY <2>1, WriteKeepsTables
  <2>3. SseInv'
    BY <2>1, SettleSse
  <2> QED BY <2>1, <2>2, <2>3, SettleKeeps
<1>7. CASE Complete(s)
  <2>1. Return(s, <<Done>>) /\ UNCHANGED tables /\ at[s] > Len(items[s])
    BY <1>7 DEF Complete, Return, tables
  <2>2. SseInv'
    BY <1>1, <2>1, FinishKeeps, EventsDiffer DEF Return
  <2>3. TablesKept
    BY <2>1, TablesUnchanged
  <2> QED BY <2>1, <2>2, <2>3, ReturnKeeps
<1>8. CASE Raise(s)
  <2>1. Return(s, <<Error>>) /\ UNCHANGED touched
    BY <1>8 DEF Raise, ErrorEvents, Return
  <2>2. SseInv'
    BY <1>1, <2>1, FinishKeeps, EventsDiffer DEF Return
  <2>3. TablesKept
    <3>1. CASE UNCHANGED value
      BY <2>1, <3>1, TablesUnchanged DEF tables
    <3>2. CASE stage[s] = "matches" /\ Write(s)
      BY <1>2, <2>1, <3>2, WriteKeepsTables
    <3> QED BY <1>8, <3>1, <3>2 DEF Raise
  <2>4. Error # Done
    BY EventsDiffer
  <2> QED BY <2>1, <2>2, <2>3, <2>4, ReturnKeeps
<1> QED BY <1>3, <1>4, <1>5, <1>6, <1>7, <1>8 DEF Work

-----------------------------------------------------------------------------
(* The steps of a page.                                                    *)

\* A page opens a stream that nobody has used, for the end of its report.
LEMMA AttemptKeeps ==
  ASSUME IInv, NEW p \in Pages, NEW its \in Seq(ItemsToSend), its # <<>>, Countable(its),
         Attempt(p, its), page[p] # "running", RestOf(its, report'[p]),
         report' \in [Pages -> Seq(ItemsToSend)], remaining' \in [Pages -> Seq(ItemsToSend)],
         remaining'[p] = its,
         \A q \in Pages \ {p} : report'[q] = report[q] /\ remaining'[q] = remaining[q]
  PROVE  IInv'
<1> DEFINE s == <<p, attempts[p] + 1>>
<1>1. /\ attempts[p] < MaxAttempts /\ attempts' = [attempts EXCEPT ![p] = attempts[p] + 1]
      /\ Open(s) /\ items' = [items EXCEPT ![s] = its] /\ page' = [page EXCEPT ![p] = "running"]
      /\ UNCHANGED <<tables, at, stage>>
  BY DEF Attempt
<1>2. attempts[p] \in Nat /\ attempts'[p] = attempts[p] + 1 /\ attempts'[p] \in 1..MaxAttempts /\ s \in Streams
  BY <1>1, StreamsAssumption, AttemptsAssumption DEF IInv, Data
<1>3. /\ conn[s] = "none" /\ conn' = [conn EXCEPT ![s] = "open"] /\ line' = Append(line, s)
      /\ UNCHANGED <<running, queue>>
  BY <1>1 DEF Open
<1>4. queue[s] = <<>> /\ Len(queue[s]) = 0 /\ s \notin running
  BY <1>2, <1>3, EmptySeq DEF IInv, SseInv
<1>5. SseInv'
  BY <1>1, <1>2, OpenKeeps DEF IInv
<1>6. InLine' = InLine \cup {s}
  <2>1. line \in Seq(Streams) /\ Len(line) \in Nat
    BY DEF IInv, SseInv, SseTypeOK
  <2> HIDE DEF s
  <2>2. Len(line') = Len(line) + 1 /\ line'[Len(line) + 1] = s /\ \A n \in 1..Len(line) : line'[n] = line[n]
    BY <1>2, <1>3, <2>1, AppendProperties
  <2>3. \A n \in 1..Len(line') : n \in 1..Len(line) \/ n = Len(line) + 1
    BY <2>1, <2>2
  <2>4. Len(line) + 1 \in 1..Len(line') /\ \A n \in 1..Len(line) : n \in 1..Len(line')
    BY <2>1, <2>2
  <2>5. InLine' \subseteq InLine \cup {s}
    BY <2>2, <2>3 DEF InLine
  <2>6. InLine \cup {s} \subseteq InLine'
    BY <2>2, <2>4 DEF InLine
  <2> QED BY <2>5, <2>6
<1>7. Current(p)' = s /\ \A q \in Pages \ {p} : Current(q)' = Current(q) /\ Current(q) # s
  BY <1>1, <1>2 DEF Current, IInv, Data
<1>8. TablesKept
  BY <1>1, TablesUnchanged
<1>9. items'[s] = its /\ \A t \in Streams \ {s} : items'[t] = items[t]
  BY <1>1, <1>2 DEF IInv, Data
<1>10. at[s] = 1 /\ 1 <= Len(its) /\ Len(its) \in Nat
  <2>1. Len(its) \in Nat \ {0}
    BY EmptySeq
  <2> QED BY <1>2, <1>4, <2>1 DEF IInv, WorkerSettles
<1> HIDE DEF s
<1>11. Data'
  <2>1. items' \in [Streams -> Seq(ItemsToSend)]
    BY <1>1 DEF IInv, Data
  <2>2. attempts' \in [Pages -> 0..MaxAttempts] /\ page' \in [Pages -> {"idle", "running", "stopped", "completed"}]
    BY <1>1, <1>2 DEF IInv, Data
  <2>3. \A t \in Streams : Countable(items'[t])
    BY <1>9 DEF IInv, Data
  <2>4. \A q \in Pages : Countable(remaining'[q])
    BY DEF IInv, Data
  <2> QED BY <1>1, <1>8, <2>1, <2>2, <2>3, <2>4 DEF IInv, Data, TablesKept, Countable
<1>12. ASSUME NEW t \in Streams PROVE WorkerSettles(t)' /\ CountsSettled(t)'
  <2>1. CASE t = s
    <3>1. WorkerSettles(t)'
      BY <1>1, <1>9, <1>10, <2>1 DEF WorkerSettles
    <3>2. CountsSettled(t)'
      BY <1>3, <1>4, <2>1 DEF CountsSettled
    <3> QED BY <3>1, <3>2
  <2>2. CASE t # s
    <3>1. UNCHANGED <<items[t], at[t], stage[t], queue[t]>>
      BY <1>1, <1>3, <1>9, <2>2
    <3> QED BY <1>3, <1>8, <3>1, WorkerKept, CountsKept
  <2> QED BY <2>1, <2>2
<1>13. \A it : Settled(it)' <=> Settled(it)
  BY <1>1 DEF Settled, tables
<1>14. ASSUME NEW q \in Pages PROVE PageKnows(q)' /\ WorkCounted(q)'
  <2>1. CASE q = p
    <3>1. RestOf(its, report[p])'
      BY <1>13 DEF RestOf
    <3>2. conn'[s] = "open"
      BY <1>2, <1>3 DEF IInv, SseInv, SseTypeOK
    <3>3. PageKnows(p)'
      BY <1>2, <1>7, <1>9, <3>1, <3>2 DEF PageKnows, RestOf
    <3>4. LastCount(p, 0)'
      BY <1>3, <1>4, <1>7, <1>9, <1>10 DEF LastCount
    <3>5. Passed(Current(p))' = 0
      BY <1>1, <1>6, <1>7, <1>10 DEF Passed
    <3> QED BY <2>1, <3>3, <3>4, <3>5 DEF WorkCounted
  <2>2. CASE q # p
    <3>1. page'[q] = page[q] /\ attempts'[q] = attempts[q] /\ remaining'[q] = remaining[q] /\ report'[q] = report[q]
      BY <1>1, <2>2 DEF IInv, Data
    <3>2. RestOf(remaining[q], report[q])'
      BY <1>13, <3>1 DEF IInv, PageKnows, RestOf
    <3>3. CASE page[q] = "running"
      <4>1. Current(q) \in Streams \ {s}
        BY <1>7, <2>2, <3>3, CurrentTyped
      <4>2. UNCHANGED <<items[Current(q)], conn[Current(q)], queue[Current(q)], at[Current(q)]>>
        BY <1>1, <1>3, <1>7, <1>9, <2>2, <4>1 DEF IInv, SseInv, SseTypeOK
      <4>3. RestOf(items[Current(q)], report[q]) /\ attempts[q] \in 1..MaxAttempts /\ conn[Current(q)] = "open"
        BY <3>3 DEF IInv, PageKnows
      <4>4. PageKnows(q)'
        BY <1>7, <1>13, <2>2, <3>1, <3>2, <4>2, <4>3 DEF PageKnows, RestOf
      <4>5. Current(q) \in running' \cup InLine' <=> Current(q) \in running \cup InLine
        BY <1>3, <1>6, <4>1
      <4> QED BY <3>1, <4>2, <4>4, <4>5, WorkCountedKept
    <3>4. CASE page[q] # "running"
      BY <3>1, <3>2, <3>4 DEF PageKnows, WorkCounted
    <3> QED BY <3>3, <3>4
  <2> QED BY <2>1, <2>2
<1>15. CompletedIsComplete'
  BY <1>1 DEF IInv, Data, CompletedIsComplete
<1> QED BY <1>5, <1>8, <1>11, <1>12, <1>14, <1>15 DEF IInv, TablesKept

LEMMA RunKeeps ==
  ASSUME IInv, NEW p \in Pages, NEW rep \in Reports, Run(p, rep)
  PROVE  IInv'
<1> DEFINE its == Eligible(rep)
<1>1. /\ page[p] = "idle" /\ its # <<>> /\ Attempt(p, its)
      /\ report' = [report EXCEPT ![p] = its] /\ remaining' = [remaining EXCEPT ![p] = its]
  BY DEF Run
<1>2. its \in Seq(ItemsToSend) /\ Len(its) \in Nat
  BY ItemTyped
<1>3. Countable(its)
  BY EventsAssumption DEF Countable, Progress
<1> HIDE DEF its
<1>4. RestOf(its, report'[p])
  BY <1>1, <1>2 DEF IInv, Data, RestOf
<1>5. /\ report' \in [Pages -> Seq(ItemsToSend)] /\ remaining' \in [Pages -> Seq(ItemsToSend)]
      /\ remaining'[p] = its
      /\ \A q \in Pages \ {p} : report'[q] = report[q] /\ remaining'[q] = remaining[q]
  BY <1>1, <1>2 DEF IInv, Data
<1> QED BY <1>1, <1>2, <1>3, <1>4, <1>5, AttemptKeeps

LEMMA RetryKeeps ==
  ASSUME IInv, NEW p \in Pages, Retry(p)
  PROVE  IInv'
<1>1. page[p] = "stopped" /\ remaining[p] # <<>> /\ Attempt(p, remaining[p]) /\ UNCHANGED <<report, remaining>>
  BY DEF Retry
<1>2. remaining[p] \in Seq(ItemsToSend) /\ Countable(remaining[p]) /\ RestOf(remaining[p], report[p])
  BY DEF IInv, Data, PageKnows
<1>3. RestOf(remaining[p], report'[p])
  BY <1>1, <1>2
<1>4. report' \in [Pages -> Seq(ItemsToSend)] /\ remaining' \in [Pages -> Seq(ItemsToSend)]
  BY <1>1 DEF IInv, Data
<1> QED BY <1>1, <1>2, <1>3, <1>4, AttemptKeeps

\* A count that reaches the page: what it leaves is the end of the report, and
\* all before that is settled.
LEMMA SliceKeeps ==
  ASSUME IInv, NEW p \in Pages, page[p] = "running", NEW n \in 1..Len(items[Current(p)]),
         queue[Current(p)] # <<>>, queue[Current(p)][1] = Progress(n)
  PROVE  LET s == Current(p)
             rest == Slice(s, n)
         IN  /\ rest \in Seq(ItemsToSend) /\ Len(rest) = Len(items[s]) - n
             /\ Countable(rest) /\ RestOf(rest, report[p])
<1> DEFINE s == Current(p)
           its == items[s]
           rest == Slice(s, n)
           whole == report[p]
<1>1. its \in Seq(ItemsToSend) /\ Len(its) \in Nat /\ s \in Streams /\ whole \in Seq(ItemsToSend) /\ Len(whole) \in Nat
  BY CurrentTyped DEF IInv, Data
<1>2. RestOf(its, whole) /\ Countable(its) /\ CountsSettled(s)
  BY <1>1 DEF IInv, PageKnows, Data
<1>3. 1 \in 1..Len(queue[s])
  BY <1>1, EmptySeq DEF IInv, SseInv, SseTypeOK
<1>4. \A m \in 1..n : Settled(its[m])
  BY <1>2, <1>3 DEF CountsSettled
<1> HIDE DEF s
<1>5. rest = SubSeq(its, n + 1, Len(its))
  BY DEF Slice
<1> HIDE DEF its, rest, whole
<1>6. /\ rest \in Seq(ItemsToSend) /\ Len(rest) = Len(its) - n
      /\ \A k \in 1..Len(rest) : rest[k] = its[n + k]
  <2>1. n \in 1..Len(its)
    BY DEF its, s
  <2>2. n + 1 \in 1..(Len(its) + 1) /\ Len(its) \in (n + 1) - 1..Len(its)
    BY <1>1, <2>1
  <2>3. /\ rest \in Seq(ItemsToSend)
        /\ Len(rest) = IF n + 1 <= Len(its) THEN Len(its) - (n + 1) + 1 ELSE 0
        /\ \A k \in 1..Len(its) - (n + 1) + 1 : rest[k] = its[(n + 1) + k - 1]
    BY <1>1, <1>5, <2>1, <2>2, SubSeqProperties
  <2>4. Len(rest) = Len(its) - n
    BY <1>1, <2>1, <2>3
  <2>5. \A k \in 1..Len(rest) : k \in 1..Len(its) - (n + 1) + 1 /\ (n + 1) + k - 1 = n + k
    BY <1>1, <2>1, <2>4
  <2> QED BY <2>3, <2>4, <2>5
<1>7. n \in 1..Len(its)
  BY DEF its, s
<1>8. Countable(rest)
  BY <1>1, <1>2, <1>6, <1>7 DEF Countable
<1>9. RestOf(rest, whole)
  <2>1. Len(its) <= Len(whole) /\ Len(rest) <= Len(whole)
    BY <1>1, <1>2, <1>6, <1>7 DEF RestOf
  <2>2. ASSUME NEW k \in 1..Len(rest) PROVE rest[k] = whole[Len(whole) - Len(rest) + k]
    <3>1. n + k \in 1..Len(its) /\ Len(whole) - Len(its) + (n + k) = Len(whole) - Len(rest) + k
      BY <1>1, <1>6, <1>7
    <3> QED BY <1>2, <1>6, <3>1 DEF RestOf
  <2>3. ASSUME NEW m \in 1..(Len(whole) - Len(rest)) PROVE Settled(whole[m])
    <3>1. CASE m <= Len(whole) - Len(its)
      BY <1>1, <1>2, <2>1, <3>1 DEF RestOf
    <3>2. CASE m > Len(whole) - Len(its)
      <4> DEFINE k == m - (Len(whole) - Len(its))
      <4>1. k \in 1..n /\ k \in 1..Len(its) /\ Len(whole) - Len(its) + k = m
        BY <1>1, <1>6, <1>7, <2>1, <3>2
      <4> HIDE DEF k
      <4>2. its[k] = whole[m]
        BY <1>2, <4>1 DEF RestOf
      <4>3. Settled(its[k])
        BY <1>4, <4>1 DEF its
      <4> QED BY <4>2, <4>3
    <3> QED BY <1>1, <1>6, <2>1, <3>1, <3>2
  <2> QED BY <2>1, <2>2, <2>3 DEF RestOf
<1> QED BY <1>6, <1>8, <1>9 DEF its, rest, whole, s

LEMMA ReceiveKeeps ==
  ASSUME IInv, NEW p \in Pages, Receive(p)
  PROVE  IInv'
<1> DEFINE s == Current(p)
<1>1. PICK e \in {Done, Error} \cup {Progress(n) : n \in 1..Len(items[s])} :
        /\ Deliver(s, e)
        /\ remaining' = [remaining EXCEPT ![p] =
             IF e.event = "progress" THEN Slice(s, e.completed) ELSE remaining[p]]
        /\ page' = [page EXCEPT ![p] = IF e.event = "error" THEN "stopped" ELSE page[p]]
  BY DEF Receive
<1>2. page[p] = "running" /\ UNCHANGED <<tables, items, at, stage, report, attempts>>
  BY DEF Receive
<1>3. /\ conn[s] = "open" /\ queue[s] # <<>> /\ e = Head(queue[s])
      /\ queue' = [queue EXCEPT ![s] = Tail(queue[s])] /\ UNCHANGED <<line, running, conn>>
  BY <1>1 DEF Deliver
<1>4. s \in Streams /\ items[s] \in Seq(ItemsToSend) /\ Len(items[s]) \in Nat
  BY <1>2, CurrentTyped
<1>5. /\ Len(queue[s]) \in Nat \ {0} /\ queue[s][1] = e
      /\ Len(queue'[s]) = Len(queue[s]) - 1 /\ \A k \in 1..Len(queue'[s]) : queue'[s][k] = queue[s][k + 1]
      /\ \A t \in Streams \ {s} : queue'[t] = queue[t]
  <2>1. queue[s] \in Seq(Events \cup {Sentinel}) /\ queue \in [Streams -> Seq(Events \cup {Sentinel})]
    BY <1>4 DEF IInv, SseInv, SseTypeOK
  <2>2. Len(queue[s]) \in Nat \ {0}
    BY <1>3, <2>1, EmptySeq
  <2> HIDE DEF s
  <2> QED BY <1>3, <1>4, <2>1, <2>2, HeadTailProperties
<1>6. SseInv' /\ InLine' = InLine
  <2>1. SseInv
    BY DEF IInv
  <2>2. SseInv'
    BY <1>3, <1>4, <2>1, QueueShortened
  <2> QED BY <1>3, <2>2 DEF InLine
<1>7. TablesKept
  BY <1>2, TablesUnchanged
<1>8. Current(p)' = s /\ s' = s /\ \A q \in Pages \ {p} : Current(q)' = Current(q) /\ Current(q) # s
  BY <1>2 DEF Current
<1>9. \A it : Settled(it)' <=> Settled(it)
  BY <1>2 DEF Settled, tables
<1>10. \A q \in Pages \ {p} : remaining'[q] = remaining[q] /\ page'[q] = page[q]
  BY <1>1 DEF IInv, Data
<1>11. /\ e = Error => page'[p] = "stopped"
       /\ e # Error => page'[p] = "running"
       /\ e \in {Done, Error} => remaining'[p] = remaining[p]
       /\ \A n \in 1..Len(items[s]) : e = Progress(n) => remaining'[p] = Slice(s, n)
  <2>1. /\ Done.event = "done" /\ Error.event = "error"
        /\ \A n : Progress(n).event = "progress" /\ Progress(n).completed = n
    BY DEF Done, Error, Progress
  <2>2. p \in DOMAIN remaining /\ p \in DOMAIN page
    BY DEF IInv, Data
  <2> QED BY <1>1, <1>2, <2>1, <2>2
<1> HIDE DEF s
<1>12. /\ remaining'[p] \in Seq(ItemsToSend) /\ Countable(remaining'[p]) /\ RestOf(remaining'[p], report[p])
       /\ \A n \in 1..Len(items[s]) : e = Progress(n) => Len(remaining'[p]) = Len(items[s]) - n
  <2>1. CASE e \in {Done, Error}
    BY <1>11, <2>1, EventsDiffer DEF IInv, Data, PageKnows
  <2>2. ASSUME NEW n \in 1..Len(items[s]), e = Progress(n)
        PROVE  /\ remaining'[p] \in Seq(ItemsToSend) /\ Countable(remaining'[p]) /\ RestOf(remaining'[p], report[p])
               /\ Len(remaining'[p]) = Len(items[s]) - n
    BY <1>2, <1>3, <1>5, <1>11, <2>2, SliceKeeps DEF s
  <2> QED BY <1>1, <2>1, <2>2, EventsDiffer DEF s
<1>13. Data'
  <2>1. remaining' \in [Pages -> Seq(ItemsToSend)] /\ page' \in [Pages -> {"idle", "running", "stopped", "completed"}]
    <3>1. DOMAIN remaining' = Pages /\ remaining' = [q \in Pages |-> remaining'[q]]
          /\ DOMAIN page' = Pages /\ page' = [q \in Pages |-> page'[q]]
      BY <1>1 DEF IInv, Data
    <3> QED BY <1>10, <1>11, <1>12, <3>1 DEF IInv, Data
  <2>2. \A q \in Pages : Countable(remaining'[q])
    BY <1>10, <1>12 DEF IInv, Data
  <2> QED BY <1>2, <1>7, <2>1, <2>2 DEF IInv, Data, TablesKept, Countable
<1>14. ASSUME NEW t \in Streams PROVE WorkerSettles(t)' /\ CountsSettled(t)'
  <2>1. \A k \in 1..Len(queue'[t]) : \E l \in 1..Len(queue[t]) : queue'[t][k] = queue[t][l]
    <3>1. CASE t = s
      <4>1. \A k \in 1..Len(queue'[s]) : k + 1 \in 1..Len(queue[s])
        BY <1>5
      <4> QED BY <1>5, <3>1, <4>1
    <3>2. CASE t # s
      BY <1>5, <3>2
    <3> QED BY <3>1, <3>2
  <2> QED BY <1>2, <1>3, <1>7, <2>1, WorkerKept, CountsKept
<1>15. PageKnows(p)'
  <2>1. attempts[p] \in 1..MaxAttempts /\ conn[s] = "open" /\ RestOf(items[s], report[p])
    BY <1>2 DEF IInv, PageKnows, s
  <2> QED BY <1>2, <1>3, <1>8, <1>9, <1>12, <2>1 DEF PageKnows, RestOf
<1>16. WorkCounted(p)'
  <2> SUFFICES ASSUME e # Error
               PROVE  (\E n \in Nat : n = Passed(s)' /\ LastCount(p, n)') \/ FailureTold(s)'
    BY <1>8, <1>11 DEF WorkCounted
  <2>1. Passed(s)' = Passed(s)
    BY <1>2, <1>3, <1>6, <1>8 DEF Passed
  <2>2. CASE FailureTold(s)
    <3>1. PICK k \in 1..Len(queue[s]) : queue[s][k] = Error
      BY <2>2 DEF FailureTold
    <3>2. k - 1 \in 1..Len(queue'[s]) /\ queue'[s][k - 1] = Error
      <4>1. k # 1
        BY <1>5, <3>1
      <4>2. k - 1 \in 1..Len(queue'[s]) /\ (k - 1) + 1 = k
        BY <1>5, <4>1
      <4> QED BY <1>5, <3>1, <4>2
    <3> QED BY <1>3, <1>6, <1>8, <2>2, <3>2 DEF FailureTold
  <2>3. ASSUME NEW n \in Nat, n = Passed(s), LastCount(p, n) PROVE LastCount(p, n)'
    <3>1. \A l \in 1..Len(queue'[s]) : l + 1 \in 1..Len(queue[s]) /\ (NoCount(s, l)' <=> NoCount(s, l + 1))
      BY <1>2, <1>5, <1>8 DEF NoCount
    <3>2. ASSUME NEW k \in 1..Len(queue[s]), n \in 1..Len(items[s]), queue[s][k] = Progress(n),
                 \A l \in (k + 1)..Len(queue[s]) : NoCount(s, l)
          PROVE  LastCount(p, n)'
      <4>1. CASE k = 1
        <5>1. e = Progress(n) /\ Len(remaining'[p]) = Len(items[s]) - n
          BY <1>5, <1>12, <3>2, <4>1
        <5>2. \A l \in 1..Len(queue'[s]) : NoCount(s, l)'
          <6>1. \A l \in 1..Len(queue'[s]) : l + 1 \in (k + 1)..Len(queue[s])
            BY <1>5, <4>1
          <6> QED BY <3>1, <3>2, <6>1
        <5>3. n = Len(items[s]) - Len(remaining'[p])
          BY <1>4, <5>1
        <5> QED BY <1>2, <1>8, <5>2, <5>3 DEF LastCount
      <4>2. CASE k # 1
        <5>1. k - 1 \in 1..Len(queue'[s]) /\ (k - 1) + 1 = k
          BY <1>5, <4>2
        <5>2. queue'[s][k - 1] = Progress(n)
          BY <1>5, <3>2, <5>1
        <5>3. \A l \in ((k - 1) + 1)..Len(queue'[s]) : l \in 1..Len(queue'[s]) /\ l + 1 \in (k + 1)..Len(queue[s])
          <6>1. \A a \in Nat \ {0} : \A b \in 1..a : \A l \in ((b - 1) + 1)..(a - 1) :
                  l \in 1..(a - 1) /\ l + 1 \in (b + 1)..a
            OBVIOUS
          <6>2. Len(queue[s]) \in Nat \ {0} /\ k \in 1..Len(queue[s]) /\ Len(queue'[s]) = Len(queue[s]) - 1
            BY <1>5
          <6> QED BY <6>1, <6>2
        <5>4. \A l \in ((k - 1) + 1)..Len(queue'[s]) : NoCount(s, l)'
          BY <3>1, <3>2, <5>3
        <5> QED BY <1>2, <1>8, <3>2, <5>1, <5>2, <5>4 DEF LastCount
      <4> QED BY <4>1, <4>2
    <3>3. ASSUME n = Len(items[s]) - Len(remaining[p]), \A l \in 1..Len(queue[s]) : NoCount(s, l)
          PROVE  LastCount(p, n)'
      <4>1. NoCount(s, 1)
        BY <1>5, <3>3
      <4>2. e \in {Done, Error}
        BY <1>1, <1>5, <4>1 DEF NoCount, s
      <4>3. \A l \in 1..Len(queue'[s]) : NoCount(s, l)'
        BY <3>1, <3>3
      <4> QED BY <1>2, <1>8, <1>11, <3>3, <4>2, <4>3 DEF LastCount
    <3> QED BY <2>3, <3>2, <3>3 DEF LastCount, s
  <2>4. (\E n \in Nat : n = Passed(s) /\ LastCount(p, n)) \/ FailureTold(s)
    BY <1>2 DEF IInv, WorkCounted, s
  <2> QED BY <2>1, <2>2, <2>3, <2>4
<1>17. ASSUME NEW q \in Pages \ {p} PROVE PageKnows(q)' /\ WorkCounted(q)'
  <2>1. page'[q] = page[q] /\ remaining'[q] = remaining[q] /\ report'[q] = report[q] /\ attempts'[q] = attempts[q]
    BY <1>2, <1>10
  <2>2. PageKnows(q)'
    <3>1. PageKnows(q)
      BY DEF IInv
    <3>2. RestOf(remaining[q], report[q])'
      BY <1>9, <2>1, <3>1 DEF PageKnows, RestOf
    <3>3. page[q] = "running" => RestOf(items[Current(q)], report[q])'
      BY <1>2, <1>8, <1>9, <2>1, <3>1 DEF PageKnows, RestOf
    <3> QED BY <1>2, <1>3, <1>8, <2>1, <3>1, <3>2, <3>3 DEF PageKnows
  <2>3. CASE page[q] = "running"
    <3>1. Current(q) \in Streams \ {s}
      BY <1>8, <2>3, CurrentTyped
    <3>2. UNCHANGED <<items[Current(q)], queue[Current(q)], at[Current(q)]>>
      BY <1>2, <1>5, <1>8, <3>1
    <3>3. Current(q) \in running' \cup InLine' <=> Current(q) \in running \cup InLine
      BY <1>3, <1>6
    <3> QED BY <2>1, <2>2, <3>2, <3>3, WorkCountedKept
  <2>4. CASE page[q] # "running"
    BY <2>1, <2>2, <2>4 DEF WorkCounted
  <2> QED BY <2>3, <2>4
<1>18. CompletedIsComplete'
  BY <1>10, <1>11 DEF IInv, CompletedIsComplete
<1> QED BY <1>6, <1>7, <1>13, <1>14, <1>15, <1>16, <1>17, <1>18 DEF IInv, TablesKept

\* A connection closes, and the page that read it no longer does.
LEMMA CloseKeeps ==
  ASSUME IInv, NEW s \in Streams, conn[s] = "open",
         UNCHANGED <<line, running, tables, items, at, stage, report, remaining, attempts>>,
         queue' = [queue EXCEPT ![s] = <<>>],
         \E st \in {"ended", "dropped"} : conn' = [conn EXCEPT ![s] = st],
         page' \in [Pages -> {"idle", "running", "stopped", "completed"}],
         \A q \in Pages : page'[q] = "running" => page[q] = "running" /\ Current(q) # s,
         \A q \in Pages : page'[q] = "completed" => remaining[q] = <<>>
  PROVE  IInv'
<1>1. SseInv' /\ InLine' = InLine
  <2>1. SseInv'
    BY QueueShortened DEF IInv
  <2> QED BY <2>1 DEF InLine
<1>2. TablesKept
  BY TablesUnchanged
<1>3. /\ \A t \in Streams \ {s} : queue'[t] = queue[t] /\ conn'[t] = conn[t]
      /\ queue'[s] = <<>> /\ Len(queue'[s]) = 0
  BY EmptySeq DEF IInv, SseInv, SseTypeOK
<1>4. Data'
  BY <1>2 DEF IInv, Data, TablesKept, Countable
<1>5. ASSUME NEW t \in Streams PROVE WorkerSettles(t)' /\ CountsSettled(t)'
  <2>1. \A k \in 1..Len(queue'[t]) : \E l \in 1..Len(queue[t]) : queue'[t][k] = queue[t][l]
    BY <1>3
  <2> QED BY <1>2, <2>1, WorkerKept, CountsKept
<1>6. ASSUME NEW q \in Pages PROVE PageKnows(q)' /\ WorkCounted(q)'
  <2>1. RestOf(remaining[q], report[q])' /\ (page[q] = "running" => RestOf(items[Current(q)], report[q])')
    BY <1>2, ListsKept
  <2>2. CASE page'[q] = "running"
    <3>1. page[q] = "running" /\ Current(q) \in Streams \ {s} /\ Current(q)' = Current(q)
      BY <2>2, CurrentTyped DEF Current
    <3>2. UNCHANGED <<queue[Current(q)], conn[Current(q)]>>
      BY <1>3, <3>1
    <3>3. PageKnows(q)'
      BY <2>1, <3>1, <3>2 DEF IInv, PageKnows
    <3>4. UNCHANGED <<remaining[q], attempts[q], items[Current(q)], at[Current(q)]>>
      BY <3>1
    <3> QED BY <1>1, <3>1, <3>2, <3>3, <3>4, WorkCountedKept
  <2>3. CASE page'[q] # "running"
    BY <2>1, <2>3 DEF PageKnows, WorkCounted
  <2> QED BY <2>2, <2>3
<1>7. CompletedIsComplete'
  BY DEF CompletedIsComplete
<1> QED BY <1>1, <1>2, <1>4, <1>5, <1>6, <1>7 DEF IInv, TablesKept

\* The sentinel comes last: the page has had every event when its stream ends,
\* and an error event would have stopped it.
LEMMA EndStreamKeeps ==
  ASSUME IInv, NEW s \in Streams, EndStream(s)
  PROVE  IInv'
<1>1. /\ conn[s] = "open" /\ queue[s] # <<>> /\ Head(queue[s]) = Sentinel
      /\ conn' = [conn EXCEPT ![s] = "ended"] /\ queue' = [queue EXCEPT ![s] = <<>>]
      /\ UNCHANGED <<line, running, tables, items, at, stage, report, remaining, attempts>>
      /\ page' = [page EXCEPT ![s[1]] =
                    IF page[s[1]] = "running" /\ s = Current(s[1]) THEN "completed" ELSE page[s[1]]]
  BY DEF EndStream, End
<1>2. s[1] \in Pages /\ \A q \in Pages : Current(q)[1] = q
  BY StreamsAssumption DEF Current
<1>3. Len(queue[s]) = 1 /\ queue[s][1] = Sentinel /\ s \notin running \cup InLine
  <2>1. queue[s] \in Seq(Events \cup {Sentinel}) /\ 1 \in 1..Len(queue[s]) /\ queue[s][1] = Sentinel
    BY <1>1, EmptySeq, HeadTailProperties DEF IInv, SseInv, SseTypeOK
  <2>2. Len(queue[s]) = 1 /\ s \notin running
    BY <2>1 DEF IInv, SseInv, ExecutorExact
  <2> QED BY <2>1, <2>2 DEF IInv, SseInv, NoSentinel
<1>4. ASSUME NEW q \in Pages, page[q] = "running", Current(q) = s PROVE remaining[q] = <<>>
  <2>1. ~FailureTold(s)
    BY <1>3, EventsDiffer DEF FailureTold
  <2>2. LastCount(q, Len(items[s]))
    BY <1>3, <1>4, <2>1 DEF IInv, WorkCounted, Passed
  <2>3. \A n \in 1..Len(items[s]) : Progress(n) # Sentinel
    BY SentinelAssumption DEF IInv, Data, Countable
  <2>4. Len(items[s]) = Len(items[s]) - Len(remaining[q])
    <3>1. \A k \in 1..Len(queue[s]) : queue[s][k] = Sentinel
      BY <1>3
    <3>2. \A k \in 1..Len(queue[s]) : \A n \in 1..Len(items[s]) : queue[s][k] # Progress(n)
      BY <2>3, <3>1
    <3> QED BY <1>4, <2>2, <3>2 DEF LastCount
  <2>5. Len(items[s]) \in Nat /\ remaining[q] \in Seq(ItemsToSend) /\ Len(remaining[q]) \in Nat
    BY DEF IInv, Data
  <2>6. Len(remaining[q]) = 0
    <3>1. \A a, b \in Nat : a = a - b => b = 0
      OBVIOUS
    <3> QED BY <2>4, <2>5, <3>1
  <2> QED BY <2>5, <2>6, EmptySeq
<1>5. page' \in [Pages -> {"idle", "running", "stopped", "completed"}]
  BY <1>1, <1>2 DEF IInv, Data
<1>6. ASSUME NEW q \in Pages, page'[q] = "running" PROVE page[q] = "running" /\ Current(q) # s
  <2>1. CASE q = s[1]
    BY <1>1, <1>2, <1>6, <2>1 DEF IInv, Data
  <2>2. CASE q # s[1]
    <3>1. page'[q] = page[q]
      BY <1>1, <1>2, <2>2 DEF IInv, Data
    <3>2. Current(q)[1] # s[1]
      BY <1>2, <2>2
    <3> QED BY <1>6, <3>1, <3>2
  <2> QED BY <2>1, <2>2
<1>7. \A q \in Pages : page'[q] = "completed" => remaining[q] = <<>>
  BY <1>1, <1>2, <1>4 DEF IInv, Data, CompletedIsComplete
<1> QED BY <1>1, <1>5, <1>6, <1>7, CloseKeeps

LEMMA LoseConnectionKeeps ==
  ASSUME IInv, NEW p \in Pages, LoseConnection(p)
  PROVE  IInv'
<1> DEFINE s == Current(p)
<1>1. /\ page[p] = "running" /\ conn[s] = "open" /\ page' = [page EXCEPT ![p] = "stopped"]
      /\ conn' = [conn EXCEPT ![s] = "dropped"] /\ queue' = [queue EXCEPT ![s] = <<>>]
      /\ UNCHANGED <<line, running, tables, items, at, stage, report, remaining, attempts>>
  BY DEF LoseConnection, Drop
<1>2. s \in Streams /\ \A q \in Pages : Current(q)[1] = q
  BY <1>1, CurrentTyped DEF Current
<1>3. page' \in [Pages -> {"idle", "running", "stopped", "completed"}]
  BY <1>1 DEF IInv, Data
<1>4. ASSUME NEW q \in Pages, page'[q] = "running" PROVE page[q] = "running" /\ Current(q) # s
  <2>1. q # p /\ page'[q] = page[q]
    BY <1>1, <1>4 DEF IInv, Data
  <2>2. Current(q)[1] # Current(p)[1]
    BY <1>2, <2>1
  <2> QED BY <1>4, <2>1, <2>2
<1>5. \A q \in Pages : page'[q] = "completed" => remaining[q] = <<>>
  BY <1>1 DEF IInv, Data, CompletedIsComplete
<1> HIDE DEF s
<1> QED BY <1>1, <1>2, <1>3, <1>4, <1>5, CloseKeeps DEF s

LEMMA AppChangeKeeps ==
  ASSUME IInv, NEW r \in AppRows, AppChange(r)
  PROVE  IInv'
<1>1. UNCHANGED <<line, running, queue, conn, items, at, stage, pages>>
  BY DEF AppChange, sseVars
<1>2. SseInv' /\ InLine' = InLine
  BY <1>1, SseSame DEF IInv
<1>3. TablesKept
  BY AppChangeKeepsTables
<1>4. /\ stage' \in [Streams -> {"resolve", "select", "matches"}]
      /\ \A s \in Streams : stage'[s] = "matches" => at[s] <= Len(items[s])
  BY <1>1 DEF IInv, Data, WorkerSettles
<1> QED BY <1>1, <1>2, <1>3, <1>4, QuietKeeps

\* Nothing is worked on any more, and no page reads a stream.
LEMMA StopKeeps ==
  ASSUME IInv, Stop
  PROVE  IInv'
<1>1. /\ SseStop /\ at' = [s \in Streams |-> 1] /\ stage' = [s \in Streams |-> "resolve"]
      /\ page' = [p \in Pages |-> IF page[p] = "running" THEN "stopped" ELSE page[p]]
      /\ UNCHANGED <<tables, items, report, remaining, attempts>>
  BY DEF Stop
<1>2. SseInv'
  BY <1>1, SseStopKeeps DEF IInv
<1>3. TablesKept
  BY <1>1, TablesUnchanged
<1>4. running' = {} /\ \A s \in Streams : queue'[s] = <<>> /\ Len(queue'[s]) = 0
  BY <1>1, EmptySeq DEF SseStop
<1>5. Data'
  BY <1>1, <1>3 DEF IInv, Data, TablesKept, Countable
<1>6. \A s \in Streams : WorkerSettles(s)' /\ CountsSettled(s)'
  BY <1>1, <1>4 DEF IInv, Data, WorkerSettles, CountsSettled
<1>7. \A p \in Pages : page'[p] # "running"
  BY <1>1
<1>8. \A p \in Pages : PageKnows(p)' /\ WorkCounted(p)'
  BY <1>1, <1>3, <1>7, ListsKept DEF PageKnows, WorkCounted
<1>9. CompletedIsComplete'
  BY <1>1 DEF IInv, CompletedIsComplete
<1> QED BY <1>2, <1>3, <1>5, <1>6, <1>8, <1>9 DEF IInv, TablesKept

-----------------------------------------------------------------------------
(* The invariant holds.                                                    *)

LEMMA InitIInv == Init => IInv
<1> SUFFICES ASSUME Init PROVE IInv
  OBVIOUS
<1>1. SseInv /\ \A s \in Streams : queue[s] = <<>> /\ Len(queue[s]) = 0
  BY SseInitInv, EmptySeq DEF Init, SseInit
<1>2. /\ \A s \in Streams : items[s] = <<>> /\ Len(items[s]) = 0 /\ at[s] = 1 /\ stage[s] = "resolve"
      /\ \A p \in Pages : /\ report[p] = <<>> /\ Len(report[p]) = 0
                          /\ remaining[p] = <<>> /\ Len(remaining[p]) = 0 /\ page[p] = "idle"
  BY EmptySeq DEF Init
<1>3. <<>> \in Seq(ItemsToSend)
  BY EmptySeq
<1>4. Data
  <2>1. value \in [TableRows -> Urls \cup {Gone}]
    BY TablesAssumption DEF Init
  <2>2. /\ touched \subseteq AppRows /\ items \in [Streams -> Seq(ItemsToSend)]
        /\ report \in [Pages -> Seq(ItemsToSend)] /\ remaining \in [Pages -> Seq(ItemsToSend)]
    BY <1>3 DEF Init
  <2>3. /\ at \in [Streams -> Nat \ {0}] /\ stage \in [Streams -> {"resolve", "select", "matches"}]
        /\ attempts \in [Pages -> 0..MaxAttempts]
        /\ page \in [Pages -> {"idle", "running", "stopped", "completed"}]
    BY AttemptsAssumption DEF Init
  <2> QED BY <1>2, <2>1, <2>2, <2>3 DEF Data, Countable
<1>5. SharedIds /\ CompletedIsComplete
  BY <1>2, SharedIdsAssumption DEF Init, SharedIds, CompletedIsComplete
<1>6. \A s \in Streams : WorkerSettles(s) /\ CountsSettled(s)
  BY <1>1, <1>2 DEF WorkerSettles, CountsSettled
<1>7. ASSUME NEW p \in Pages PROVE PageKnows(p) /\ WorkCounted(p)
  <2>1. Len(report[p]) = 0 /\ Len(remaining[p]) = 0 /\ page[p] # "running"
    BY <1>2
  <2>2. RestOf(remaining[p], report[p])
    BY <2>1 DEF RestOf
  <2> QED BY <2>1, <2>2 DEF PageKnows, WorkCounted
<1> QED BY <1>1, <1>4, <1>5, <1>6, <1>7 DEF IInv

LEMMA StutterKeeps == IInv /\ UNCHANGED vars => IInv'
<1> SUFFICES ASSUME IInv, UNCHANGED vars PROVE IInv'
  OBVIOUS
<1>1. UNCHANGED <<line, running, queue, conn, tables, items, at, stage, pages>>
  BY DEF vars, tables, pages
<1>2. SseInv' /\ InLine' = InLine
  BY <1>1, SseSame DEF IInv
<1>3. TablesKept
  BY <1>1, TablesUnchanged
<1>4. /\ stage' \in [Streams -> {"resolve", "select", "matches"}]
      /\ \A s \in Streams : stage'[s] = "matches" => at[s] <= Len(items[s])
  BY <1>1 DEF IInv, Data, WorkerSettles
<1> QED BY <1>1, <1>2, <1>3, <1>4, QuietKeeps

LEMMA NextIInv == IInv /\ [Next]_vars => IInv'
<1> SUFFICES ASSUME IInv, Next PROVE IInv'
  BY StutterKeeps
<1>1. ASSUME NEW s \in Streams, Work(s) PROVE IInv'
  BY <1>1, WorkKeeps
<1>2. ASSUME NEW s \in Streams, EndStream(s) PROVE IInv'
  BY <1>2, EndStreamKeeps
<1>3. ASSUME NEW p \in Pages, NEW rep \in Reports, Run(p, rep) PROVE IInv'
  BY <1>3, RunKeeps
<1>4. ASSUME NEW p \in Pages, Retry(p) PROVE IInv'
  BY <1>4, RetryKeeps
<1>5. ASSUME NEW p \in Pages, Receive(p) PROVE IInv'
  BY <1>5, ReceiveKeeps
<1>6. ASSUME NEW p \in Pages, LoseConnection(p) PROVE IInv'
  BY <1>6, LoseConnectionKeeps
<1>7. ASSUME NEW r \in AppRows, AppChange(r) PROVE IInv'
  BY <1>7, AppChangeKeeps
<1>8. CASE Stop
  BY <1>8, StopKeeps
<1> QED BY <1>1, <1>2, <1>3, <1>4, <1>5, <1>6, <1>7, <1>8 DEF Next

LEMMA Invariant == Spec => []IInv
<1>1. Init => IInv
  BY InitIInv
<1>2. IInv /\ [Next]_vars => IInv'
  BY NextIInv
<1> QED BY <1>1, <1>2, PTL DEF Spec

-----------------------------------------------------------------------------
(* What follows.                                                           *)

\* Whatever is lost, resent or stopped, the state stays well formed; what
\* remains of a report is never longer than the report.
THEOREM TypesHold == Spec => []TypeOK
<1>1. IInv => TypeOK
  <2> SUFFICES ASSUME IInv PROVE TypeOK
    OBVIOUS
  <2>1. \A s \in Streams : at[s] \in 1..(Len(items[s]) + 1)
    BY DEF IInv, Data, WorkerSettles
  <2>2. ASSUME NEW p \in Pages PROVE report[p] \in Seq(ReportRow) /\ Len(remaining[p]) <= Len(report[p])
    <3>1. report[p] \in Seq(ItemsToSend) /\ ItemsToSend \subseteq ReportRow
      BY ItemTyped DEF IInv, Data
    <3>2. report[p] \in Seq(ReportRow)
      BY <3>1
    <3> QED BY <3>2 DEF IInv, PageKnows, RestOf
  <2> QED BY <2>1, <2>2 DEF IInv, Data, SseInv, TypeOK
<1> QED BY <1>1, Invariant, PTL

\* No thread is taken twice and no request worked on twice, and what a work
\* function emits reaches the queue before the sentinel (sse.py's runner).
THEOREM ExecutorHolds == Spec => []ExecutorExact
<1>1. IInv => ExecutorExact
  BY DEF IInv, SseInv
<1> QED BY <1>1, Invariant, PTL

\* Resending what got no progress event skips no row, however many pages,
\* attempts and reports there are and wherever a connection, the work or the
\* server stopped.
THEOREM NothingIsSkipped == Spec => []NothingSkipped
<1>1. IInv => NothingSkipped
  BY DEF IInv, PageKnows, RestOf, NothingSkipped
<1> QED BY <1>1, Invariant, PTL

\* A page that reports success has nothing left to send.
THEOREM CompletedHolds == Spec => []CompletedIsComplete
<1>1. IInv => CompletedIsComplete
  BY DEF IInv
<1> QED BY <1>1, Invariant, PTL

\* No worker overwrites what the application wrote, unless the application
\* wrote just what the report expects.
THEOREM ChangedRowsAreKept == Spec => ChangedRowsKept
<1> DEFINE Kept ==
      \A r \in touched : value'[r] # value[r]
        => \E s \in running : /\ stage[s] = "matches" /\ Item(s).rowId = IdOf[r]
                              /\ value[r] = Item(s).sourcePath
<1>1. IInv /\ [Next]_vars => Kept \/ UNCHANGED vars
  <2> SUFFICES ASSUME IInv, Next PROVE Kept
    OBVIOUS
  <2>1. value \in [TableRows -> Urls \cup {Gone}] /\ touched \subseteq TableRows
    BY TablesAssumption DEF IInv, Data
  <2>2. ASSUME NEW s \in running, stage[s] = "matches", Write(s) PROVE Kept
    BY <2>1, <2>2 DEF Write, Guarded, RowsOf
  <2>3. ASSUME NEW s \in Streams, Work(s) PROVE Kept
    <3>1. CASE UNCHANGED value
      BY <3>1
    <3>2. CASE s \in running /\ stage[s] = "matches" /\ Write(s)
      BY <2>2, <3>2
    <3> QED BY <2>3, <3>1, <3>2
            DEF Work, StartWork, Resolve, Select, Update, Complete, Raise, tables
  <2>4. ASSUME NEW r \in AppRows, AppChange(r) PROVE Kept
    BY <2>1, <2>4 DEF AppChange, IInv, Data
  <2>5. CASE UNCHANGED value
    BY <2>5
  <2>6. (\E s \in Streams : EndStream(s)) \/ (\E p \in Pages : Retry(p) \/ Receive(p) \/ LoseConnection(p)
           \/ \E rep \in Reports : Run(p, rep)) \/ Stop => UNCHANGED value
    BY DEF EndStream, Retry, Receive, LoseConnection, Run, Attempt, Stop, tables
  <2> QED BY <2>3, <2>4, <2>5, <2>6 DEF Next
<1>2. IInv /\ [Next]_vars => [Kept]_vars
  BY <1>1
<1> QED BY <1>2, Invariant, PTL DEF Spec, ChangedRowsKept
=============================================================================
