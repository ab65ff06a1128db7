-------------------------- MODULE ArchiveJobsProofs --------------------------
(***************************************************************************)
(* What holds of the archive jobs for all constants: any number of jobs,   *)
(* pages, objects, reports and providers, and a registry of any size.  The *)
(* jobs implement KeyLock, the workers being the owners, and EventLog.     *)
(***************************************************************************)
EXTENDS ArchiveJobs, SequenceTheorems, TLAPS

-----------------------------------------------------------------------------
(* The inductive invariant.                                                *)

Requests == [provider : Providers \cup {None}, keys : SUBSET Objects]
StreamRecords ==
  [state : {"closed", "open", "ended", "refused"}, job : Jobs \cup {None}, cursor : Nat, report : Requests]

Data ==
  /\ registry \in Seq(Jobs) /\ Len(registry) <= RetainedJobs
  /\ jobOf \in [Jobs -> Requests]
  /\ DOMAIN events = Jobs
  /\ sequence \in [Jobs -> Nat]
  /\ finished \subseteq Jobs
  /\ thread \in [Jobs -> Threads]
  /\ progress \in [Jobs -> [Objects -> {"waiting", "uploading", "copied", "checking", "settled"}]]
  /\ holding \subseteq Jobs
  /\ stream \in [Clients -> StreamRecords]
  /\ delivered \in [Clients -> SUBSET Nat]
  /\ known \in [Clients -> Jobs \cup {None}]

\* What the dictionary of j holds: distinct slots and numbers, the latest event
\* among them, and all that is not a snapshot under its own number.
EventsKept(j) ==
  /\ \A e \in events[j] :
       /\ e.number \in 1..sequence[j] /\ e.event \in EventNames
       /\ e.slot.kind = "outcome" => e.slot.number = e.number
       /\ e.event \notin Snapshots => e.slot.kind = "outcome"
  /\ \A e, f \in events[j] : e.slot = f.slot \/ e.number = f.number => e = f
  /\ sequence[j] # 0 => \E e \in events[j] : e.number = sequence[j]

\* Where the worker of j is, and what it must have emitted to be there.
WorkerTold(j) ==
  /\ thread[j] = "unborn" =>
       sequence[j] = 0 /\ j \notin Registered /\ \A o \in Objects : progress[j][o] = "waiting"
  /\ j \in finished <=> thread[j] = "over"
  /\ thread[j] \in {"auditing", "reporting"} => AllAt(j, {"settled"})
  /\ thread[j] \in {"returned", "over"} =>
       \E e \in events[j] : e.event \in {"done", "error"} /\ e.number = sequence[j]
  /\ \A e \in events[j] : e.event \in {"done", "error"} => thread[j] \in {"returned", "over"}
  /\ \A e \in events[j] : e.event = "done" => AllAt(j, {"settled"})
  /\ \A o \in jobOf[j].keys : progress[j][o] = "settled"
       => \E e \in events[j] : e.event = "item_done" /\ e.data = o

\* The stream of c has yielded all that its job holds up to its cursor.
StreamCurrent(c) ==
  /\ stream[c].state \in {"open", "ended"} => stream[c].job \in Jobs
  /\ \A n \in delivered[c] : n <= stream[c].cursor
  /\ \A j \in Jobs : j = stream[c].job =>
       /\ thread[j] # "unborn" /\ Covers(j, stream[c].report) /\ stream[c].cursor <= sequence[j]
       /\ \A e \in events[j] : e.number <= stream[c].cursor => e.number \in delivered[c]
       /\ stream[c].state = "ended" => j \in finished /\ stream[c].cursor = sequence[j]

IInv ==
  /\ Data /\ ActiveJobsDisjoint
  /\ \A j \in Jobs : EventsKept(j) /\ WorkerTold(j)
  /\ \A c \in Clients : StreamCurrent(c)

LEMMA InitIInv == Init => IInv
<1> SUFFICES ASSUME Init PROVE IInv
  OBVIOUS
<1>1. registry = <<>> /\ registry \in Seq(Jobs) /\ Len(registry) = 0 /\ Registered = {} /\ Active = {}
  BY EmptySeq DEF Init, Registered, Active
<1>2. NoReport \in Requests /\ NoStream \in StreamRecords
  BY DEF NoReport, NoStream, Requests, StreamRecords
<1>3. Data
  BY <1>1, <1>2, NumbersAssumption DEF Init, Data, Threads
<1>4. \A j \in Jobs : events[j] = {} /\ sequence[j] = 0 /\ thread[j] = "unborn" /\ progress[j] = [o \in Objects |-> "waiting"]
  BY DEF Init
<1>5. ASSUME NEW j \in Jobs PROVE EventsKept(j) /\ WorkerTold(j)
  <2>1. (\A o \in jobOf[j].keys : progress[j][o] # "settled") /\ \A o \in Objects : progress[j][o] = "waiting"
    BY <1>4 DEF Init, NoReport
  <2> QED BY <1>1, <1>4, <2>1 DEF Init, EventsKept, WorkerTold
<1>6. \A c \in Clients : StreamCurrent(c)
  BY NoneAssumption DEF Init, StreamCurrent, NoStream
<1> QED BY <1>1, <1>3, <1>5, <1>6 DEF IInv, ActiveJobsDisjoint

-----------------------------------------------------------------------------
(* The worker.                                                             *)

\* An event of job j: what it adds, and what it may replace.
LEMMA EmitShape ==
  ASSUME IInv, NEW j \in Jobs, NEW event \in EventNames, NEW data, Emit(j, event, data)
  PROVE  /\ DOMAIN events' = Jobs /\ sequence' \in [Jobs -> Nat] /\ sequence'[j] = sequence[j] + 1
         /\ \A i \in Jobs \ {j} : events'[i] = events[i] /\ sequence'[i] = sequence[i]
         /\ EventsKept(j)'
         /\ \E e \in events'[j] : e.event = event /\ e.data = data /\ e.number = sequence'[j]
         /\ \A e \in events[j] : e.event \notin Snapshots => e \in events'[j]
         /\ \A e \in events'[j] : e \in events[j] \/ (e.event = event /\ e.number = sequence'[j])
<1> DEFINE slot == Slot(j, event, data)
           kept == {e \in events[j] : e.slot # slot}
           new  == [slot |-> slot, number |-> sequence[j] + 1, event |-> event, data |-> data]
<1>1. sequence' = [sequence EXCEPT ![j] = sequence[j] + 1] /\ events' = [events EXCEPT ![j] = kept \cup {new}]
  BY DEF Emit
<1>2. /\ sequence[j] \in Nat /\ sequence \in [Jobs -> Nat] /\ DOMAIN events = Jobs /\ EventsKept(j)
  BY DEF IInv, Data
<1>3. /\ DOMAIN events' = Jobs /\ events'[j] = kept \cup {new}
      /\ sequence' \in [Jobs -> Nat] /\ sequence'[j] = sequence[j] + 1
      /\ \A i \in Jobs \ {j} : events'[i] = events[i] /\ sequence'[i] = sequence[i]
  BY <1>1, <1>2
<1>4. /\ slot.kind = "outcome" => slot.number = sequence[j] + 1
      /\ event \notin Snapshots => slot.kind = "outcome"
  BY DEF Slot, Snapshots
<1>5. new.slot = slot /\ new.number = sequence[j] + 1 /\ new.event = event /\ new.data = data
  OBVIOUS
<1> HIDE DEF slot, new
<1>6. \A e \in events[j] : e.event \notin Snapshots => e \in kept
  <2> SUFFICES ASSUME NEW e \in events[j], e.event \notin Snapshots PROVE e.slot # slot
    OBVIOUS
  <2>1. e.slot.kind = "outcome" /\ e.slot.number = e.number /\ e.number \in 1..sequence[j]
    BY <1>2 DEF EventsKept
  <2> QED BY <1>2, <1>4, <2>1
<1>7. \A e \in kept : e \in events[j] /\ e.slot # slot
  OBVIOUS
<1> HIDE DEF kept
<1>8. EventsKept(j)'
  <2>1. ASSUME NEW e \in kept \cup {new}
        PROVE  /\ e.number \in 1..(sequence[j] + 1) /\ e.event \in EventNames
               /\ e.slot.kind = "outcome" => e.slot.number = e.number
               /\ e.event \notin Snapshots => e.slot.kind = "outcome"
    BY <1>2, <1>4, <1>5, <1>7 DEF EventsKept
  <2>2. ASSUME NEW e \in kept \cup {new}, NEW f \in kept \cup {new}, e.slot = f.slot \/ e.number = f.number
        PROVE  e = f
    <3>1. \A g \in kept : g.number # new.number /\ g.slot # new.slot
      BY <1>2, <1>5, <1>7 DEF EventsKept
    <3> QED BY <1>2, <1>7, <2>2, <3>1 DEF EventsKept
  <2> QED BY <1>3, <1>5, <2>1, <2>2 DEF EventsKept
<1> QED BY <1>3, <1>5, <1>6, <1>7, <1>8

\* A step of the worker of j that only adds to what its streams may yield.
LEMMA WorkerStep ==
  ASSUME IInv, Data', NEW j \in Jobs, UNCHANGED <<registryVars, clientVars>>,
         EventsKept(j)', WorkerTold(j)', thread'[j] # "unborn", thread[j] # "over",
         finished' \in {finished, finished \cup {j}},
         sequence'[j] >= sequence[j],
         \A e \in events'[j] : e \in events[j] \/ e.number > sequence[j],
         \A i \in Jobs \ {j} : /\ events'[i] = events[i] /\ sequence'[i] = sequence[i]
                               /\ thread'[i] = thread[i] /\ progress'[i] = progress[i]
  PROVE  IInv'
<1> USE DEF registryVars, clientVars
<1>1. Registered' = Registered /\ Active' \subseteq Active
  BY DEF Registered, Active
<1>2. ActiveJobsDisjoint'
  BY <1>1 DEF IInv, ActiveJobsDisjoint
<1>3. ASSUME NEW i \in Jobs \ {j} PROVE EventsKept(i)' /\ WorkerTold(i)'
  <2>1. EventsKept(i)'
    BY DEF IInv, EventsKept
  <2>2. i \in finished' <=> i \in finished
    OBVIOUS
  <2>3. WorkerTold(i)'
    BY <1>1, <2>2 DEF IInv, WorkerTold, AllAt
  <2> QED BY <2>1, <2>3
<1>4. ASSUME NEW c \in Clients PROVE StreamCurrent(c)'
  <2>1. StreamCurrent(c) /\ stream[c].cursor \in Nat /\ sequence[j] \in Nat /\ sequence'[j] \in Nat
    BY DEF IInv, Data, StreamRecords
  <2>2. j \notin finished
    BY DEF IInv, WorkerTold
  <2>3. \A e \in events'[j] : e.number \in Nat
    BY <2>1 DEF EventsKept
  <2>4. ASSUME NEW i \in Jobs, i = stream[c].job
        PROVE  /\ thread'[i] # "unborn" /\ Covers(i, stream[c].report)' /\ stream[c].cursor <= sequence'[i]
               /\ \A e \in events'[i] : e.number <= stream[c].cursor => e.number \in delivered[c]
               /\ stream[c].state = "ended" => i \in finished' /\ stream[c].cursor = sequence'[i]
    <3>1. CASE i = j
      BY <2>1, <2>2, <2>3, <2>4, <3>1 DEF StreamCurrent, Covers
    <3>2. CASE i # j
      BY <2>1, <2>4, <3>2 DEF StreamCurrent, Covers
    <3> QED BY <3>1, <3>2
  <2> QED BY <2>1, <2>4 DEF StreamCurrent
<1> QED BY <1>2, <1>3, <1>4 DEF IInv

LEMMA PassingKeeps ==
  ASSUME IInv, NEW j \in Jobs, NEW event \in EventNames, NEW data, NEW from, NEW to \in Threads,
         Passing(j, from, to, event, data),
         from \notin {"unborn", "returned", "over"}, to \notin {"unborn", "over"},
         to \in {"auditing", "reporting"} => AllAt(j, {"settled"}),
         to = "returned" => event \in {"done", "error"},
         event \in {"done", "error"} => to = "returned",
         event = "done" => AllAt(j, {"settled"})
  PROVE  IInv'
<1>1. /\ thread[j] = from /\ thread' = [thread EXCEPT ![j] = to] /\ Emit(j, event, data)
      /\ UNCHANGED <<registry, jobOf, stream, delivered, known, finished, progress, holding>>
  BY DEF Passing, registryVars, clientVars
<1>2. /\ DOMAIN events' = Jobs /\ sequence' \in [Jobs -> Nat] /\ sequence'[j] = sequence[j] + 1
      /\ \A i \in Jobs \ {j} : events'[i] = events[i] /\ sequence'[i] = sequence[i]
      /\ EventsKept(j)'
      /\ \E e \in events'[j] : e.event = event /\ e.data = data /\ e.number = sequence'[j]
      /\ \A e \in events[j] : e.event \notin Snapshots => e \in events'[j]
      /\ \A e \in events'[j] : e \in events[j] \/ (e.event = event /\ e.number = sequence'[j])
  BY <1>1, EmitShape
<1>3. thread'[j] = to /\ thread' \in [Jobs -> Threads] /\ \A i \in Jobs \ {j} : thread'[i] = thread[i]
  BY <1>1 DEF IInv, Data
<1>4. Data'
  BY <1>1, <1>2, <1>3 DEF IInv, Data
<1>5. WorkerTold(j) /\ \A e \in events[j] : e.event \notin {"done", "error"}
  BY <1>1 DEF IInv, WorkerTold
<1>6. AllAt(j, {"settled"})' <=> AllAt(j, {"settled"})
  BY <1>1 DEF AllAt
<1>7. WorkerTold(j)'
  <2>1. j \notin finished' /\ thread'[j] \notin {"unborn", "over"}
    BY <1>1, <1>3, <1>5 DEF WorkerTold
  <2>2. thread'[j] \in {"auditing", "reporting"} => AllAt(j, {"settled"})'
    BY <1>3, <1>6
  <2>3. thread'[j] \in {"returned", "over"} => \E e \in events'[j] : e.event \in {"done", "error"} /\ e.number = sequence'[j]
    BY <1>2, <1>3
  <2>4. /\ \A e \in events'[j] : e.event \in {"done", "error"} => thread'[j] \in {"returned", "over"}
        /\ \A e \in events'[j] : e.event = "done" => AllAt(j, {"settled"})'
    BY <1>2, <1>3, <1>5, <1>6
  <2>5. \A o \in jobOf'[j].keys : progress'[j][o] = "settled" => \E e \in events'[j] : e.event = "item_done" /\ e.data = o
    BY <1>1, <1>2, <1>5 DEF WorkerTold, Snapshots
  <2> QED BY <2>1, <2>2, <2>3, <2>4, <2>5 DEF WorkerTold
<1>8. sequence[j] \in Nat
  BY DEF IInv, Data
<1>9. sequence'[j] >= sequence[j] /\ \A e \in events'[j] : e \in events[j] \/ e.number > sequence[j]
  BY <1>2, <1>8
<1> QED BY <1>1, <1>2, <1>3, <1>4, <1>7, <1>9, WorkerStep DEF registryVars, clientVars

LEMMA ItemKeeps ==
  ASSUME IInv, NEW j \in Jobs, NEW o \in Objects, NEW from, NEW to \in {"uploading", "copied", "checking", "settled"},
         NEW event \in {"archive_bytes", "copy_progress", "archive_progress", "item_done"},
         EmitItem(j, o, from, to, event), to = "settled" => event = "item_done"
  PROVE  IInv'
<1>1. /\ thread[j] = "archiving" /\ progress' = [progress EXCEPT ![j][o] = to] /\ Emit(j, event, o)
      /\ UNCHANGED <<registry, jobOf, stream, delivered, known, finished, thread, holding>>
  BY DEF EmitItem, registryVars, clientVars
<1>2. /\ DOMAIN events' = Jobs /\ sequence' \in [Jobs -> Nat] /\ sequence'[j] = sequence[j] + 1
      /\ \A i \in Jobs \ {j} : events'[i] = events[i] /\ sequence'[i] = sequence[i]
      /\ EventsKept(j)'
      /\ \E e \in events'[j] : e.event = event /\ e.data = o /\ e.number = sequence'[j]
      /\ \A e \in events[j] : e.event \notin Snapshots => e \in events'[j]
      /\ \A e \in events'[j] : e \in events[j] \/ (e.event = event /\ e.number = sequence'[j])
  BY <1>1, EmitShape DEF EventNames
<1>3. /\ progress' \in [Jobs -> [Objects -> {"waiting", "uploading", "copied", "checking", "settled"}]]
      /\ \A i \in Jobs \ {j} : progress'[i] = progress[i]
      /\ progress'[j][o] = to /\ \A q \in Objects \ {o} : progress'[j][q] = progress[j][q]
  BY <1>1 DEF IInv, Data
<1>4. Data'
  BY <1>1, <1>2, <1>3 DEF IInv, Data
<1>5. WorkerTold(j) /\ jobOf[j].keys \subseteq Objects
  BY DEF IInv, Data, Requests
<1>6. WorkerTold(j)'
  <2>1. \A e \in events'[j] : e.event \notin {"done", "error"}
    BY <1>1, <1>2, <1>5 DEF WorkerTold
  <2>2. ASSUME NEW q \in jobOf[j].keys, progress'[j][q] = "settled"
        PROVE  \E e \in events'[j] : e.event = "item_done" /\ e.data = q
    <3>1. CASE q = o
      BY <1>2, <1>3, <2>2, <3>1
    <3>2. CASE q # o
      BY <1>2, <1>3, <1>5, <2>2, <3>2 DEF WorkerTold, Snapshots
    <3> QED BY <3>1, <3>2
  <2> QED BY <1>1, <1>5, <2>1, <2>2 DEF WorkerTold
<1>7. sequence[j] \in Nat
  BY DEF IInv, Data
<1>8. sequence'[j] >= sequence[j] /\ \A e \in events'[j] : e \in events[j] \/ e.number > sequence[j]
  BY <1>2, <1>7
<1> QED BY <1>1, <1>2, <1>3, <1>4, <1>6, <1>8, WorkerStep DEF registryVars, clientVars

\* The worker goes on without an event.
LEMMA SilentKeeps ==
  ASSUME IInv, NEW j \in Jobs, NEW to \in {"archiving", "failing", "auditing", "over"},
         UNCHANGED <<registryVars, clientVars, events, sequence, progress>>,
         thread' = [thread EXCEPT ![j] = to], holding' \subseteq Jobs,
         thread[j] \in {"locking", "archiving", "auditing", "reporting", "returned"},
         to = "over" <=> thread[j] = "returned",
         to = "over" => finished' = finished \cup {j},
         to # "over" => finished' = finished,
         to = "auditing" => AllAt(j, {"settled"})
  PROVE  IInv'
<1> USE DEF registryVars, clientVars
<1>1. thread'[j] = to /\ thread' \in [Jobs -> Threads] /\ \A i \in Jobs \ {j} : thread'[i] = thread[i]
  BY DEF IInv, Data, Threads
<1>2. Data'
  BY <1>1 DEF IInv, Data
<1>3. EventsKept(j) /\ WorkerTold(j) /\ sequence[j] \in Nat
  BY DEF IInv, Data
<1>4. EventsKept(j)'
  BY <1>3 DEF EventsKept
<1>5. AllAt(j, {"settled"})' <=> AllAt(j, {"settled"})
  BY DEF AllAt
<1>6. WorkerTold(j)'
  BY <1>1, <1>3, <1>5 DEF WorkerTold
<1>7. sequence'[j] >= sequence[j]
  BY <1>3
<1> QED BY <1>1, <1>2, <1>4, <1>6, <1>7, WorkerStep

LEMMA WorkKeeps ==
  ASSUME IInv, NEW j \in Jobs, Work(j)
  PROVE  IInv'
<1>1. CASE EmitPrepare(j)
  BY <1>1, PassingKeeps DEF EmitPrepare, Threads, EventNames
<1>2. CASE AcquireLock(j)
  <2>1. /\ thread[j] = "locking" /\ UNCHANGED <<registryVars, clientVars, events, sequence, finished, progress>>
        /\ holding' \subseteq Jobs
        /\ \E to \in {"archiving", "failing"} : thread' = [thread EXCEPT ![j] = to]
    BY <1>2 DEF AcquireLock, IInv, Data
  <2> QED BY <2>1, SilentKeeps
<1>3. CASE ReleaseLock(j)
  <2>1. /\ thread[j] = "archiving" /\ UNCHANGED <<registryVars, clientVars, events, sequence, finished, progress>>
        /\ holding' \subseteq Jobs
        /\ \/ AllAt(j, {"settled"}) /\ thread' = [thread EXCEPT ![j] = "auditing"]
           \/ thread' = [thread EXCEPT ![j] = "failing"]
    BY <1>3 DEF ReleaseLock, IInv, Data
  <2> QED BY <2>1, SilentKeeps
<1>4. CASE WorkRaises(j)
  <2>1. /\ thread[j] \in {"auditing", "reporting"} /\ thread' = [thread EXCEPT ![j] = "failing"]
        /\ UNCHANGED <<registryVars, clientVars, events, sequence, finished, progress>> /\ holding' \subseteq Jobs
    BY <1>4 DEF WorkRaises, IInv, Data
  <2> QED BY <2>1, SilentKeeps
<1>5. CASE EmitReport(j)
  <2>1. AllAt(j, {"settled"})
    BY <1>5 DEF EmitReport, Passing, IInv, WorkerTold
  <2> QED BY <1>5, <2>1, PassingKeeps DEF EmitReport, Threads, EventNames
<1>6. CASE EmitDone(j)
  <2>1. AllAt(j, {"settled"})
    BY <1>6 DEF EmitDone, Passing, IInv, WorkerTold
  <2> QED BY <1>6, <2>1, PassingKeeps DEF EmitDone, Threads, EventNames
<1>7. CASE EmitFailed(j)
  BY <1>7, PassingKeeps DEF EmitFailed, Threads, EventNames
<1>8. CASE EmitError(j)
  BY <1>8, PassingKeeps DEF EmitError, Threads, EventNames
<1>9. CASE SetFinished(j)
  <2>1. /\ thread[j] = "returned" /\ thread' = [thread EXCEPT ![j] = "over"] /\ finished' = finished \cup {j}
        /\ UNCHANGED <<registryVars, clientVars, events, sequence, progress>> /\ holding' \subseteq Jobs
    BY <1>9 DEF SetFinished, IInv, Data
  <2> QED BY <2>1, SilentKeeps
<1>10. ASSUME NEW o \in Objects, EmitBytes(j, o) \/ EmitCopied(j, o) \/ EmitChecking(j, o) \/ EmitItemDone(j, o)
       PROVE  IInv'
  <2>1. CASE EmitBytes(j, o)
    BY <2>1, ItemKeeps DEF EmitBytes
  <2>2. CASE EmitCopied(j, o)
    BY <2>2, ItemKeeps DEF EmitCopied
  <2>3. CASE EmitChecking(j, o)
    BY <2>3, ItemKeeps DEF EmitChecking
  <2>4. CASE EmitItemDone(j, o)
    BY <2>4, ItemKeeps DEF EmitItemDone
  <2> QED BY <1>10, <2>1, <2>2, <2>3, <2>4
<1> QED BY <1>1, <1>2, <1>3, <1>4, <1>5, <1>6, <1>7, <1>8, <1>9, <1>10 DEF Work

-----------------------------------------------------------------------------
(* The streams.                                                            *)

\* A step of page c that leaves the registry and the jobs alone.
LEMMA PageStep ==
  ASSUME IInv, NEW c \in Clients, UNCHANGED <<registryVars, workVars>>,
         stream' \in [Clients -> StreamRecords], delivered' \in [Clients -> SUBSET Nat],
         known' \in [Clients -> Jobs \cup {None}], StreamCurrent(c)',
         \A d \in Clients \ {c} : stream'[d] = stream[d] /\ delivered'[d] = delivered[d]
  PROVE  IInv'
<1> USE DEF registryVars, workVars
<1>1. Registered' = Registered /\ Active' = Active
  BY DEF Registered, Active
<1>2. Data' /\ ActiveJobsDisjoint'
  BY <1>1 DEF IInv, Data, ActiveJobsDisjoint
<1>3. \A j \in Jobs : EventsKept(j)' /\ WorkerTold(j)'
  BY <1>1 DEF IInv, EventsKept, WorkerTold, AllAt
<1>4. ASSUME NEW d \in Clients \ {c} PROVE StreamCurrent(d)'
  BY DEF IInv, StreamCurrent, Covers
<1> QED BY <1>2, <1>3, <1>4 DEF IInv

\* What c reads when it opens the stream of a job that covers its report.
LEMMA OpenShape ==
  ASSUME IInv, NEW c \in Clients, NEW rep \in Requests, NEW j \in Jobs, Open(c, rep, j)
  PROVE  /\ stream' \in [Clients -> StreamRecords] /\ delivered' \in [Clients -> SUBSET Nat]
         /\ known' \in [Clients -> Jobs \cup {None}]
         /\ stream'[c].state = "open" /\ stream'[c].job = j /\ stream'[c].cursor = 0
         /\ stream'[c].report = rep /\ delivered'[c] = {}
         /\ \A d \in Clients \ {c} : stream'[d] = stream[d] /\ delivered'[d] = delivered[d]
BY DEF Open, IInv, Data, StreamRecords

LEMMA AttachKeeps ==
  ASSUME IInv, NEW c \in Clients, NEW rep \in Requests, NEW j \in Registered, Covers(j, rep),
         Open(c, rep, j), UNCHANGED <<registryVars, workVars>>
  PROVE  IInv'
<1>1. j \in Jobs /\ thread[j] # "unborn"
  <2>1. j \in Jobs
    BY ElementOfSeq DEF IInv, Data, Registered
  <2> QED BY <2>1 DEF IInv, WorkerTold
<1>2. /\ stream' \in [Clients -> StreamRecords] /\ delivered' \in [Clients -> SUBSET Nat]
      /\ known' \in [Clients -> Jobs \cup {None}]
      /\ stream'[c].state = "open" /\ stream'[c].job = j /\ stream'[c].cursor = 0
      /\ stream'[c].report = rep /\ delivered'[c] = {}
      /\ \A d \in Clients \ {c} : stream'[d] = stream[d] /\ delivered'[d] = delivered[d]
  BY <1>1, OpenShape
<1>3. /\ UNCHANGED <<thread, jobOf, events, sequence>> /\ sequence[j] \in Nat
      /\ \A e \in events[j] : e.number \in 1..sequence[j]
  BY <1>1 DEF registryVars, workVars, IInv, Data, EventsKept
<1>4. StreamCurrent(c)'
  BY <1>1, <1>2, <1>3 DEF StreamCurrent, Covers
<1> QED BY <1>2, <1>4, PageStep

LEMMA RefuseKeeps ==
  ASSUME IInv, NEW c \in Clients, NEW rep \in Requests, Refuse(c, rep)
  PROVE  IInv'
<1>1. /\ stream' \in [Clients -> StreamRecords] /\ delivered' \in [Clients -> SUBSET Nat]
      /\ known' \in [Clients -> Jobs \cup {None}]
      /\ stream'[c].state = "refused" /\ stream'[c].job = None /\ delivered'[c] = {}
      /\ \A d \in Clients \ {c} : stream'[d] = stream[d] /\ delivered'[d] = delivered[d]
  BY DEF Refuse, IInv, Data, StreamRecords
<1>2. StreamCurrent(c)'
  BY <1>1, NoneAssumption DEF StreamCurrent
<1> QED BY <1>1, <1>2, PageStep DEF Refuse

\* The registry after a job is started: the oldest may be gone.
LEMMA RegistryShape ==
  ASSUME Data, NEW rep, NEW j \in Jobs, Start(rep, j)
  PROVE  /\ registry' \in Seq(Jobs) /\ Len(registry') <= RetainedJobs
         /\ Registered' \subseteq Registered \cup {j}
<1>1. registry \in Seq(Jobs) /\ Len(registry) \in Nat /\ RetainedJobs \in Nat \ {0} /\ Len(registry) <= RetainedJobs
  BY NumbersAssumption DEF Data
<1>2. /\ Kept(registry) \in Seq(Jobs) /\ Len(Kept(registry)) < RetainedJobs
      /\ \A n \in 1..Len(Kept(registry)) : \E m \in 1..Len(registry) : Kept(registry)[n] = registry[m]
  <2>1. CASE Len(registry) >= RetainedJobs
    <3>1. registry # <<>> /\ Kept(registry) = Tail(registry)
      BY <1>1, <2>1, EmptySeq DEF Kept
    <3>2. /\ Tail(registry) \in Seq(Jobs) /\ Len(Tail(registry)) = Len(registry) - 1
          /\ \A n \in 1..Len(Tail(registry)) : Tail(registry)[n] = registry[n + 1]
      BY <1>1, <3>1, HeadTailProperties
    <3>3. \A n \in 1..Len(Tail(registry)) : n + 1 \in 1..Len(registry)
      BY <1>1, <3>2
    <3> QED BY <1>1, <3>1, <3>2, <3>3
  <2>2. CASE Len(registry) < RetainedJobs
    BY <1>1, <2>2 DEF Kept
  <2> QED BY <1>1, <2>1, <2>2
<1> DEFINE kept == Kept(registry)
<1>3. registry' = Append(kept, j)
  BY DEF Start
<1> HIDE DEF kept
<1>4. /\ registry' \in Seq(Jobs) /\ Len(registry') = Len(kept) + 1 /\ Len(kept) \in Nat
      /\ \A n \in 1..Len(kept) : registry'[n] = kept[n]
      /\ registry'[Len(kept) + 1] = j
  BY <1>2, <1>3, AppendProperties DEF kept
<1>5. \A n \in 1..Len(registry') : n \in 1..Len(kept) \/ n = Len(kept) + 1
  BY <1>4
<1>6. Registered' \subseteq Registered \cup {j}
  BY <1>2, <1>4, <1>5 DEF Registered, kept
<1> QED BY <1>1, <1>2, <1>4, <1>6 DEF kept

\* A new job: its objects are no other unfinished job's.
LEMMA StartKeeps ==
  ASSUME IInv, NEW c \in Clients, NEW rep \in Requests, NEW j \in Unused, ~Overlaps(rep),
         Start(rep, j), Open(c, rep, j)
  PROVE  IInv'
<1>1. /\ j \in Jobs /\ thread[j] = "unborn" /\ jobOf' = [jobOf EXCEPT ![j] = rep]
      /\ thread' = [thread EXCEPT ![j] = "started"]
      /\ UNCHANGED <<events, sequence, finished, progress, holding>>
  BY DEF Unused, Start
<1>2. /\ stream' \in [Clients -> StreamRecords] /\ delivered' \in [Clients -> SUBSET Nat]
      /\ known' \in [Clients -> Jobs \cup {None}]
      /\ stream'[c].state = "open" /\ stream'[c].job = j /\ stream'[c].cursor = 0
      /\ stream'[c].report = rep /\ delivered'[c] = {}
      /\ \A d \in Clients \ {c} : stream'[d] = stream[d] /\ delivered'[d] = delivered[d]
  BY <1>1, OpenShape
<1>3. /\ jobOf'[j] = rep /\ \A i \in Jobs \ {j} : jobOf'[i] = jobOf[i]
      /\ thread'[j] = "started" /\ \A i \in Jobs \ {j} : thread'[i] = thread[i]
      /\ jobOf' \in [Jobs -> Requests] /\ thread' \in [Jobs -> Threads]
  BY <1>1 DEF IInv, Data, Threads
<1>4. registry' \in Seq(Jobs) /\ Len(registry') <= RetainedJobs /\ Registered' \subseteq Registered \cup {j}
  BY <1>1, RegistryShape DEF IInv
<1>5. Data'
  BY <1>1, <1>2, <1>3, <1>4 DEF IInv, Data
<1>6. Active' \subseteq Active \cup {j} /\ Active \subseteq Jobs /\ j \notin Active
  <2>1. \A i \in Registered : i \in Jobs
    BY ElementOfSeq DEF IInv, Data, Registered
  <2>2. j \notin Registered
    BY <1>1 DEF IInv, WorkerTold
  <2> QED BY <1>1, <1>4, <2>1, <2>2 DEF Active
<1>7. ActiveJobsDisjoint'
  <2>1. \A i \in Active : rep.keys \cap jobOf[i].keys = {}
    BY DEF Overlaps
  <2>2. \A i \in Active : jobOf'[i] = jobOf[i]
    BY <1>3, <1>6
  <2>3. ASSUME NEW i \in Active \cup {j}, NEW k \in Active \cup {j}, i # k
        PROVE  jobOf'[i].keys \cap jobOf'[k].keys = {}
    BY <1>3, <2>1, <2>2, <2>3 DEF IInv, ActiveJobsDisjoint
  <2> QED BY <1>6, <2>3 DEF ActiveJobsDisjoint
<1>8. sequence[j] = 0 /\ \A e \in events[j] : FALSE
  <2>1. sequence[j] = 0 /\ \A e \in events[j] : e.number \in 1..sequence[j]
    BY <1>1 DEF IInv, WorkerTold, EventsKept
  <2> QED BY <2>1
<1>9. \A i \in Jobs : EventsKept(i)'
  BY <1>1 DEF IInv, EventsKept
<1>10. ASSUME NEW i \in Jobs \ {j} PROVE WorkerTold(i)'
  <2>1. i \in Registered' => i \in Registered
    BY <1>4
  <2> QED BY <1>1, <1>3, <2>1 DEF IInv, WorkerTold, AllAt
<1>11. WorkerTold(j)'
  <2>1. \A o \in rep.keys : progress[j][o] # "settled"
    BY <1>1, <1>8 DEF IInv, WorkerTold, Requests
  <2>2. j \notin finished
    BY <1>1 DEF IInv, WorkerTold
  <2> QED BY <1>1, <1>3, <1>8, <2>1, <2>2 DEF WorkerTold
<1>12. StreamCurrent(c)'
  BY <1>1, <1>2, <1>3, <1>8 DEF StreamCurrent, Covers
<1>13. ASSUME NEW d \in Clients \ {c} PROVE StreamCurrent(d)'
  <2>1. StreamCurrent(d) /\ stream'[d] = stream[d] /\ delivered'[d] = delivered[d]
    BY <1>2 DEF IInv
  <2>2. \A i \in Jobs : i = stream[d].job => i # j /\ thread'[i] = thread[i] /\ jobOf'[i] = jobOf[i]
    BY <1>1, <1>3, <2>1 DEF StreamCurrent
  <2> QED BY <1>1, <2>1, <2>2 DEF StreamCurrent, Covers
<1> QED BY <1>5, <1>7, <1>9, <1>10, <1>11, <1>12, <1>13 DEF IInv

LEMMA ConnectKeeps ==
  ASSUME IInv, NEW c \in Clients, Connect(c)
  PROVE  IInv'
<1>1. PICK rep \in [provider : Providers, keys : Reports] :
        ConnectById(c, rep) \/ (known[c] = None /\ ConnectByReport(c, rep))
  BY DEF Connect
<1>2. rep \in Requests
  BY ReportsAssumption DEF Requests
<1>3. CASE ConnectById(c, rep)
  BY <1>2, <1>3, AttachKeeps, RefuseKeeps DEF ConnectById
<1>4. CASE ConnectByReport(c, rep)
  <2>1. ASSUME NEW j \in Attachable(rep), Open(c, rep, j), UNCHANGED <<registryVars, workVars>> PROVE IInv'
    BY <1>2, <2>1, AttachKeeps DEF Attachable, Active
  <2>2. ASSUME NEW j \in Unused, ~Overlaps(rep), Start(rep, j), Open(c, rep, j) PROVE IInv'
    BY <1>2, <2>2, StartKeeps
  <2> QED BY <1>2, <1>4, <2>1, <2>2, RefuseKeeps DEF ConnectByReport
<1> QED BY <1>1, <1>3, <1>4

\* The cursor after a poll: the latest event of the job is always kept, so it
\* is the greatest number if there is any event after the cursor.
LEMMA CursorMoves ==
  ASSUME IInv, NEW j \in Jobs, NEW cursor \in Nat, cursor <= sequence[j]
  PROVE  LET fresh == {e.number : e \in {f \in events[j] : f.number > cursor}}
             next  == Max(fresh \cup {cursor})
         IN  /\ next \in Nat /\ cursor <= next /\ next <= sequence[j]
             /\ \A e \in events[j] : e.number > cursor => e.number <= next /\ e.number \in fresh
             /\ \A n \in fresh : n <= next /\ n \in Nat
             /\ \A e \in events[j] : e.number = sequence[j] => next = sequence[j]
<1> DEFINE fresh == {e.number : e \in {f \in events[j] : f.number > cursor}}
           all   == fresh \cup {cursor}
           next  == Max(all)
<1>1. sequence[j] \in Nat /\ EventsKept(j)
  BY DEF IInv, Data
<1>2. \A n \in fresh : n \in Nat /\ n > cursor /\ n <= sequence[j]
  BY <1>1 DEF EventsKept
<1>3. \A e \in events[j] : e.number > cursor => e.number \in fresh
  OBVIOUS
<1>4. fresh # {} => sequence[j] \in fresh
  <2> SUFFICES ASSUME fresh # {} PROVE sequence[j] \in fresh
    OBVIOUS
  <2>1. sequence[j] > cursor /\ sequence[j] # 0
    BY <1>1, <1>2
  <2>2. \E e \in events[j] : e.number = sequence[j]
    BY <1>1, <2>1 DEF EventsKept
  <2> QED BY <1>3, <2>1, <2>2
<1> HIDE DEF fresh
<1>5. \E x \in all : \A y \in all : x >= y
  <2>1. CASE fresh = {}
    BY <2>1
  <2>2. CASE fresh # {}
    <3>1. \A y \in all : sequence[j] >= y
      BY <1>1, <1>2
    <3> QED BY <1>4, <2>2, <3>1
  <2> QED BY <2>1, <2>2
<1> HIDE DEF all
<1>6. next \in all /\ \A y \in all : next >= y
  BY <1>5 DEF Max
<1> HIDE DEF next
<1>7. next \in Nat /\ cursor <= next /\ next <= sequence[j] /\ \A n \in fresh : n <= next /\ n \in Nat
  BY <1>1, <1>2, <1>6 DEF all
<1>8. ASSUME NEW e \in events[j], e.number = sequence[j] PROVE next = sequence[j]
  <2>1. CASE sequence[j] > cursor
    <3>1. sequence[j] \in fresh
      BY <1>3, <1>8, <2>1
    <3> QED BY <1>1, <1>7, <3>1
  <2>2. CASE ~(sequence[j] > cursor)
    BY <1>1, <1>7, <2>2
  <2> QED BY <2>1, <2>2
<1>9. \A e \in events[j] : e.number > cursor => e.number <= next /\ e.number \in fresh
  BY <1>3, <1>7
<1> QED BY <1>7, <1>8, <1>9 DEF fresh, all, next

LEMMA PollKeeps ==
  ASSUME IInv, NEW c \in Clients, Poll(c)
  PROVE  IInv'
<1> DEFINE j      == stream[c].job
           cursor == stream[c].cursor
           fresh  == {e.number : e \in {f \in events[j] : f.number > cursor}}
           next   == Max(fresh \cup {cursor})
           st     == IF j \in finished THEN "ended" ELSE "open"
<1>1. /\ stream[c].state = "open" /\ delivered' = [delivered EXCEPT ![c] = delivered[c] \cup fresh]
      /\ stream' = [stream EXCEPT ![c].cursor = next, ![c].state = st]
      /\ UNCHANGED <<registryVars, workVars, known>>
  BY DEF Poll
<1>2. /\ StreamCurrent(c) /\ j \in Jobs /\ cursor \in Nat /\ stream[c] \in StreamRecords
      /\ delivered[c] \in SUBSET Nat /\ WorkerTold(j) /\ EventsKept(j)
  BY <1>1 DEF IInv, Data, StreamCurrent, StreamRecords
<1>3. cursor <= sequence[j] /\ sequence[j] \in Nat
  BY <1>2 DEF StreamCurrent, IInv, Data
<1>4. /\ next \in Nat /\ cursor <= next /\ next <= sequence[j]
      /\ \A e \in events[j] : e.number > cursor => e.number <= next /\ e.number \in fresh
      /\ \A n \in fresh : n <= next /\ n \in Nat
      /\ \A e \in events[j] : e.number = sequence[j] => next = sequence[j]
  <2> HIDE DEF j, cursor
  <2> QED BY <1>2, <1>3, CursorMoves
<1> HIDE DEF fresh, next, st
<1>5. /\ stream' \in [Clients -> StreamRecords] /\ delivered' \in [Clients -> SUBSET Nat]
      /\ stream'[c].state = st /\ stream'[c].cursor = next
      /\ stream'[c].job = stream[c].job /\ stream'[c].report = stream[c].report
      /\ delivered'[c] = delivered[c] \cup fresh
      /\ \A d \in Clients \ {c} : stream'[d] = stream[d] /\ delivered'[d] = delivered[d]
  <2>1. st \in {"ended", "open"}
    BY DEF st
  <2>2. stream \in [Clients -> StreamRecords] /\ delivered \in [Clients -> SUBSET Nat]
    BY DEF IInv, Data
  <2>3. fresh \subseteq Nat
    BY <1>4
  <2>4. stream' = [stream EXCEPT ![c] = [[stream[c] EXCEPT !.cursor = next] EXCEPT !.state = st]]
    BY <1>1, <2>2 DEF StreamRecords
  <2> QED BY <1>1, <1>2, <1>4, <2>1, <2>2, <2>3, <2>4 DEF StreamRecords
<1>6. UNCHANGED <<thread, jobOf, events, sequence, finished>>
  BY <1>1 DEF registryVars, workVars
<1>7. \A n \in delivered'[c] : n <= next
  BY <1>2, <1>4, <1>5 DEF StreamCurrent
<1>8. \A e \in events[j] : e.number <= next => e.number \in delivered'[c]
  <2>1. \A e \in events[j] : e.number \in Nat
    BY <1>2, <1>3 DEF EventsKept
  <2>2. \A e \in events[j] : e.number <= cursor => e.number \in delivered[c]
    BY <1>2 DEF StreamCurrent
  <2> QED BY <1>2, <1>4, <1>5, <2>1, <2>2
<1>9. st = "ended" => j \in finished /\ next = sequence[j]
  BY <1>2, <1>4 DEF st, WorkerTold
<1>10. thread[j] # "unborn" /\ Covers(j, stream[c].report)
  BY <1>2 DEF StreamCurrent
<1>11. StreamCurrent(c)'
  BY <1>2, <1>4, <1>5, <1>6, <1>7, <1>8, <1>9, <1>10 DEF StreamCurrent, Covers
<1>12. known' \in [Clients -> Jobs \cup {None}]
  BY <1>1 DEF IInv, Data
<1> QED BY <1>1, <1>5, <1>11, <1>12, PageStep

LEMMA LeaveKeeps ==
  ASSUME IInv, NEW c \in Clients, Disconnect(c) \/ Forget(c)
  PROVE  IInv'
<1>1. /\ stream' \in [Clients -> StreamRecords] /\ delivered' = delivered
      /\ known' \in [Clients -> Jobs \cup {None}]
      /\ \A d \in Clients \ {c} : stream'[d] = stream[d]
      /\ stream'[c].job = stream[c].job /\ stream'[c].cursor = stream[c].cursor
      /\ stream'[c].report = stream[c].report
      /\ stream'[c].state \in {"closed", stream[c].state}
      /\ UNCHANGED <<registryVars, workVars>>
  <2>1. CASE Disconnect(c)
    <3>1. stream' = [stream EXCEPT ![c] = [stream[c] EXCEPT !.state = "closed"]]
      BY <2>1 DEF Disconnect
    <3>2. stream \in [Clients -> StreamRecords] /\ stream[c] \in StreamRecords
      BY DEF IInv, Data
    <3>3. [stream[c] EXCEPT !.state = "closed"] \in StreamRecords
      BY <3>2 DEF StreamRecords
    <3>4. /\ stream' \in [Clients -> StreamRecords] /\ \A d \in Clients \ {c} : stream'[d] = stream[d]
          /\ stream'[c] = [stream[c] EXCEPT !.state = "closed"]
      BY <3>1, <3>2, <3>3
    <3>5. /\ stream'[c].job = stream[c].job /\ stream'[c].cursor = stream[c].cursor
          /\ stream'[c].report = stream[c].report /\ stream'[c].state = "closed"
      BY <3>2, <3>4 DEF StreamRecords
    <3> QED BY <2>1, <3>4, <3>5 DEF Disconnect, IInv, Data
  <2>2. CASE Forget(c)
    BY <2>2 DEF Forget, IInv, Data
  <2> QED BY <2>1, <2>2
<1>2. StreamCurrent(c)'
  BY <1>1 DEF IInv, StreamCurrent, Covers, registryVars, workVars
<1> QED BY <1>1, <1>2, PageStep DEF IInv, Data

LEMMA NextIInv == IInv /\ [Next]_vars => IInv'
<1> SUFFICES ASSUME IInv, [Next]_vars PROVE IInv'
  OBVIOUS
<1>1. ASSUME NEW j \in Jobs, Work(j) PROVE IInv'
  BY <1>1, WorkKeeps
<1>2. ASSUME NEW c \in Clients, Connect(c) PROVE IInv'
  BY <1>2, ConnectKeeps
<1>3. ASSUME NEW c \in Clients, Poll(c) PROVE IInv'
  BY <1>3, PollKeeps
<1>4. ASSUME NEW c \in Clients, Disconnect(c) \/ Forget(c) PROVE IInv'
  BY <1>4, LeaveKeeps
<1>5. CASE UNCHANGED vars
  <2>1. UNCHANGED <<registryVars, workVars, clientVars>>
    BY <1>5 DEF vars
  <2>2. Registered' = Registered /\ Active' = Active
    BY <2>1 DEF Registered, Active, registryVars, workVars
  <2>3. Data' /\ ActiveJobsDisjoint'
    BY <2>1, <2>2 DEF IInv, Data, ActiveJobsDisjoint, registryVars, workVars, clientVars
  <2>4. \A j \in Jobs : EventsKept(j)' /\ WorkerTold(j)'
    BY <2>1, <2>2 DEF IInv, EventsKept, WorkerTold, AllAt, registryVars, workVars
  <2>5. \A c \in Clients : StreamCurrent(c)'
    BY <2>1 DEF IInv, StreamCurrent, Covers, registryVars, workVars, clientVars
  <2> QED BY <2>3, <2>4, <2>5 DEF IInv
<1> QED BY <1>1, <1>2, <1>3, <1>4, <1>5 DEF Next

LEMMA Invariant == Spec => []IInv
<1>1. Init => IInv
  BY InitIInv
<1>2. IInv /\ [Next]_vars => IInv'
  BY NextIInv
<1> QED BY <1>1, <1>2, PTL DEF Spec

-----------------------------------------------------------------------------
(* What follows.                                                           *)

\* The registry keeps to its size whatever is started and forgotten, and no two
\* events of a job share a number or a place in its dictionary.
THEOREM TypesHold == Spec => []TypeOK
<1>1. IInv => TypeOK
  <2> SUFFICES ASSUME IInv PROVE TypeOK
    OBVIOUS
  <2>1. ASSUME NEW c \in Clients
        PROVE  /\ stream[c].state \in {"closed", "open", "ended", "refused"}
               /\ stream[c].job \in Jobs \cup {None}
               /\ \A n \in delivered[c] : n <= stream[c].cursor
    BY DEF IInv, Data, StreamRecords, StreamCurrent
  <2>2. ASSUME NEW j \in Jobs, NEW e \in events[j], NEW f \in events[j]
        PROVE  /\ e.number \in 1..sequence[j] /\ e.event \in EventNames
               /\ e.slot = f.slot \/ e.number = f.number => e = f
    BY DEF IInv, EventsKept
  <2>3. jobOf \in [Jobs -> [provider : Providers \cup {None}, keys : SUBSET Objects]]
    BY DEF IInv, Data, Requests
  <2> QED BY <2>1, <2>2, <2>3 DEF IInv, Data, TypeOK
<1> QED BY <1>1, Invariant, PTL

\* However reports overlap and whatever their providers, the unfinished jobs of
\* the registry work on different objects (ArchiveJobs.connect).
THEOREM ActiveJobsAreDisjoint == Spec => []ActiveJobsDisjoint
<1>1. IInv => ActiveJobsDisjoint
  BY DEF IInv
<1> QED BY <1>1, Invariant, PTL

\* A stream that ArchiveJobs.stream ended has yielded all of its job's events,
\* however often the page came back and however many snapshots were replaced.
THEOREM EndedStreamsAreComplete == Spec => []EndedStreamComplete
<1>1. IInv => EndedStreamComplete
  <2> SUFFICES ASSUME IInv, NEW c \in Clients, stream[c].state = "ended"
               PROVE  /\ \A e \in events[stream[c].job] : e.number \in delivered[c]
                      /\ \E e \in events[stream[c].job] :
                           e.event \in {"done", "error"} /\ \A f \in events[stream[c].job] : f.number <= e.number
    BY DEF EndedStreamComplete
  <2>1. PICK j \in Jobs : j = stream[c].job
    BY DEF IInv, StreamCurrent
  <2>2. StreamCurrent(c) /\ EventsKept(j) /\ WorkerTold(j) /\ sequence[j] \in Nat
    BY DEF IInv, Data
  <2>3. \A e \in events[j] : e.number <= sequence[j]
    BY <2>2 DEF EventsKept
  <2>4. j \in finished /\ stream[c].cursor = sequence[j]
    BY <2>1, <2>2 DEF StreamCurrent
  <2>5. \A e \in events[j] : e.number \in delivered[c]
    BY <2>1, <2>2, <2>3, <2>4 DEF StreamCurrent
  <2>6. \E e \in events[j] : e.event \in {"done", "error"} /\ e.number = sequence[j]
    BY <2>2, <2>4 DEF WorkerTold
  <2> QED BY <2>1, <2>3, <2>5, <2>6
<1> QED BY <1>1, Invariant, PTL

\* "done" comes with the outcome of each object the page asked for, also when
\* it was attached to the job of a larger report.
THEOREM DoneCoversTheReport == Spec => []DoneCoversReport
<1>1. IInv => DoneCoversReport
  <2> SUFFICES ASSUME IInv, NEW c \in Clients, stream[c].state = "ended",
                      NEW d \in events[stream[c].job], d.event = "done", NEW o \in stream[c].report.keys
               PROVE  \E e \in events[stream[c].job] : /\ e.number \in delivered[c]
                                                       /\ e.event = "item_done" /\ e.data = o
    BY DEF DoneCoversReport
  <2>1. PICK j \in Jobs : j = stream[c].job
    BY DEF IInv, StreamCurrent
  <2>2. StreamCurrent(c) /\ EventsKept(j) /\ WorkerTold(j) /\ sequence[j] \in Nat
    BY DEF IInv, Data
  <2>3. \A e \in events[j] : e.number \in delivered[c]
    BY <2>1, <2>2 DEF StreamCurrent, EventsKept
  <2>4. o \in jobOf[j].keys
    BY <2>1, <2>2 DEF StreamCurrent, Covers
  <2>5. progress[j][o] = "settled"
    BY <2>1, <2>2, <2>4 DEF WorkerTold, AllAt
  <2> QED BY <2>1, <2>2, <2>3, <2>4, <2>5 DEF WorkerTold
<1> QED BY <1>1, Invariant, PTL

\* A request for objects of an unfinished job that the registry knows is never
\* given another job, nor refused.
THEOREM ActiveReportsAttach == Spec => ActiveReportAttaches
<1> DEFINE Attaches == \A c \in Clients : \A j \in Active : Asks(c, j) => stream'[c].job = j
<1>1. IInv /\ [Next]_vars => Attaches \/ UNCHANGED vars
  <2> SUFFICES ASSUME IInv, Next, NEW c \in Clients, NEW j \in Active, Asks(c, j)
               PROVE  stream'[c].job = j
    OBVIOUS
  <2>1. /\ stream[c].state # "open" /\ stream'[c] # stream[c]
        /\ known[c] \in {j, None} /\ Covers(j, stream'[c].report)
    BY DEF Asks
  <2>2. stream \in [Clients -> StreamRecords] /\ j \in Jobs /\ j # None
    BY ElementOfSeq, NoneAssumption DEF IInv, Data, Active, Registered
  <2>3. Connect(c)
    <3>1. ASSUME NEW i \in Jobs, Work(i) PROVE FALSE
      BY <2>1, <3>1
         DEF Work, EmitPrepare, AcquireLock, ReleaseLock, WorkRaises, EmitReport, EmitDone, EmitFailed,
             EmitError, SetFinished, EmitBytes, EmitCopied, EmitChecking, EmitItemDone, EmitItem, Passing, clientVars
    <3>2. ASSUME NEW d \in Clients, Poll(d) \/ Disconnect(d) \/ Forget(d) PROVE FALSE
      <4>1. stream[d].state = "open" \/ stream' = stream
        BY <3>2 DEF Poll, Disconnect, Forget
      <4>2. d # c
        BY <2>1, <4>1
      <4>3. stream'[c] = stream[c]
        BY <2>2, <3>2, <4>2 DEF Poll, Disconnect, Forget
      <4> QED BY <2>1, <4>3
    <3>3. ASSUME NEW d \in Clients, Connect(d) PROVE d = c
      <4> SUFFICES ASSUME d # c PROVE FALSE
        OBVIOUS
      <4>1. stream'[c] = stream[c]
        BY <2>2, <3>3 DEF Connect, ConnectById, ConnectByReport, Open, Refuse
      <4> QED BY <2>1, <4>1
    <3> QED BY <3>1, <3>2, <3>3 DEF Next
  <2>4. PICK rep \in [provider : Providers, keys : Reports] :
          ConnectById(c, rep) \/ (known[c] = None /\ ConnectByReport(c, rep))
    BY <2>3 DEF Connect
  <2>5. stream'[c].report = rep
    BY <2>2, <2>4 DEF ConnectById, ConnectByReport, Open, Refuse
  <2>6. CASE ConnectById(c, rep)
    <3>1. known[c] = j /\ j \in Registered /\ Covers(j, rep)
      BY <2>1, <2>5, <2>6 DEF ConnectById, Active
    <3> QED BY <2>2, <2>6, <3>1 DEF ConnectById, Open
  <2>7. CASE ConnectByReport(c, rep)
    <3>1. j \in Attachable(rep)
      BY <2>1, <2>5 DEF Attachable
    <3>2. PICK i \in Attachable(rep) : Open(c, rep, i)
      BY <2>7, <3>1 DEF ConnectByReport
    <3>3. \E o \in rep.keys : o \in jobOf[i].keys /\ o \in jobOf[j].keys
      <4>1. rep.keys # {}
        BY ReportsAssumption
      <4>2. rep.keys \subseteq jobOf[i].keys /\ rep.keys \subseteq jobOf[j].keys
        BY <3>1, <3>2 DEF Attachable, Covers
      <4> QED BY <4>1, <4>2
    <3>4. i = j
      BY <3>1, <3>2, <3>3 DEF Attachable, IInv, ActiveJobsDisjoint
    <3> QED BY <2>2, <3>2, <3>4 DEF Open
  <2> QED BY <2>4, <2>6, <2>7
<1>2. IInv /\ [Next]_vars => [Attaches]_vars
  BY <1>1
<1> QED BY <1>2, Invariant, PTL DEF Spec, ActiveReportAttaches

-----------------------------------------------------------------------------
(* The lock.                                                               *)

LockView == <<HeldByJob, PastJobs>>

\* The holders are the jobs whose thread is in its archive run, and no job that
\* was started is without objects.
HoldersArchive ==
  /\ \A j \in Jobs : j \in holding <=> thread[j] = "archiving"
  /\ \A j \in Jobs : thread[j] # "unborn" => jobOf[j].keys # {}

\* The thread of j goes elsewhere without a turn at the lock.
LEMMA NoTurn ==
  ASSUME IInv, HoldersArchive, NEW j \in Jobs, NEW to,
         thread' = [thread EXCEPT ![j] = to], UNCHANGED <<jobOf, holding>>,
         thread[j] \notin {"unborn", "archiving"}, to \notin {"unborn", "archiving"},
         thread[j] \in {"started", "locking"} <=> to \in {"started", "locking"}
  PROVE  UNCHANGED LockView /\ HoldersArchive'
<1>1. thread'[j] = to /\ \A i \in Jobs \ {j} : thread'[i] = thread[i]
  BY DEF IInv, Data
<1>2. HeldByJob' = HeldByJob
  BY DEF HeldByJob
<1>3. \A i \in Jobs : i \in PastJobs' <=> i \in PastJobs
  BY <1>1 DEF PastJobs
<1>4. PastJobs' = PastJobs
  BY <1>3 DEF PastJobs
<1>5. HoldersArchive'
  BY <1>1 DEF HoldersArchive
<1> QED BY <1>2, <1>4, <1>5 DEF LockView

\* The run inside j gets the keys of its report, or is refused for one of them.
LEMMA AcquireLocks ==
  ASSUME IInv, HoldersArchive, NEW j \in Jobs, AcquireLock(j)
  PROVE  Lock!Next /\ HoldersArchive'
<1> DEFINE ks == jobOf[j].keys
<1>1. /\ thread[j] = "locking" /\ j \notin holding /\ ks # {} /\ ks \in SUBSET Objects /\ UNCHANGED jobOf
  BY DEF AcquireLock, HoldersArchive, registryVars, IInv, Data, Requests
<1>2. Lock!Asks(j, ks)
  BY <1>1 DEF Lock!Asks, HeldByJob, PastJobs
<1>3. LockFree(j) <=> ~Lock!Taken(ks)
  BY DEF LockFree, Lock!Taken, HeldByJob, IInv, Data
<1>4. \A i \in Jobs \ {j} : thread'[i] = thread[i]
  BY DEF AcquireLock, IInv, Data
<1>5. PastJobs \subseteq Jobs /\ PastJobs' \subseteq Jobs /\ j \notin PastJobs
      /\ \A i \in Jobs \ {j} : i \in PastJobs' <=> i \in PastJobs
  BY <1>1, <1>4 DEF PastJobs
<1>6. CASE LockFree(j)
  <2>1. holding' = holding \cup {j} /\ thread'[j] = "archiving"
    BY <1>6 DEF AcquireLock, IInv, Data
  <2>2. HeldByJob' = [HeldByJob EXCEPT ![j] = ks]
    BY <1>1, <2>1 DEF HeldByJob
  <2>3. j \notin PastJobs'
    BY <2>1 DEF PastJobs
  <2>4. PastJobs' = PastJobs
    BY <1>5, <2>3
  <2>5. Lock!Acquire(j, ks)
    BY <1>2, <1>3, <1>6, <2>2, <2>4 DEF Lock!Acquire
  <2>6. HoldersArchive'
    BY <1>1, <1>4, <2>1 DEF HoldersArchive
  <2> QED BY <1>1, <2>5, <2>6 DEF Lock!Next
<1>7. CASE ~LockFree(j)
  <2>1. holding' = holding /\ thread'[j] = "failing"
    BY <1>7 DEF AcquireLock, IInv, Data
  <2>2. HeldByJob' = HeldByJob
    BY <1>1, <2>1 DEF HeldByJob
  <2>3. j \in PastJobs'
    BY <2>1 DEF PastJobs
  <2>4. PastJobs' = PastJobs \cup {j}
    BY <1>5, <2>3
  <2>5. Lock!Refuse(j, ks)
    BY <1>2, <1>3, <1>7, <2>2, <2>4 DEF Lock!Refuse
  <2>6. HoldersArchive'
    BY <1>1, <1>4, <2>1 DEF HoldersArchive
  <2> QED BY <1>1, <2>5, <2>6 DEF Lock!Next
<1> QED BY <1>6, <1>7

LEMMA ReleaseLocks ==
  ASSUME IInv, HoldersArchive, NEW j \in Jobs, ReleaseLock(j)
  PROVE  Lock!Next /\ HoldersArchive'
<1>1. thread[j] = "archiving" /\ j \in holding /\ holding' = holding \ {j} /\ UNCHANGED jobOf
  BY DEF ReleaseLock, HoldersArchive, registryVars
<1>2. thread'[j] \in {"auditing", "failing"} /\ \A i \in Jobs \ {j} : thread'[i] = thread[i]
  BY DEF ReleaseLock, IInv, Data
<1>3. HeldByJob' = [HeldByJob EXCEPT ![j] = {}] /\ HeldByJob[j] # {}
  BY <1>1 DEF HeldByJob, HoldersArchive
<1>4. j \in PastJobs' /\ PastJobs \subseteq Jobs /\ PastJobs' \subseteq Jobs
      /\ \A i \in Jobs \ {j} : i \in PastJobs' <=> i \in PastJobs
  BY <1>2 DEF PastJobs
<1>5. PastJobs' = PastJobs \cup {j}
  BY <1>4
<1>6. HoldersArchive'
  BY <1>1, <1>2 DEF HoldersArchive
<1> QED BY <1>3, <1>5, <1>6 DEF Lock!Next, Lock!Release

LEMMA WorkLocks ==
  ASSUME IInv, HoldersArchive, NEW j \in Jobs, Work(j)
  PROVE  (Lock!Next \/ UNCHANGED LockView) /\ HoldersArchive'
<1>1. CASE EmitPrepare(j)
  BY <1>1, NoTurn DEF EmitPrepare, Passing, registryVars
<1>2. CASE AcquireLock(j)
  BY <1>2, AcquireLocks
<1>3. CASE ReleaseLock(j)
  BY <1>3, ReleaseLocks
<1>4. CASE WorkRaises(j)
  BY <1>4, NoTurn DEF WorkRaises, registryVars
<1>5. CASE EmitReport(j) \/ EmitDone(j)
  BY <1>5, NoTurn DEF EmitReport, EmitDone, Passing, registryVars
<1>6. CASE EmitFailed(j) \/ EmitError(j)
  BY <1>6, NoTurn DEF EmitFailed, EmitError, Passing, registryVars
<1>7. CASE SetFinished(j)
  BY <1>7, NoTurn DEF SetFinished, registryVars
<1>8. ASSUME NEW o \in Objects, EmitBytes(j, o) \/ EmitCopied(j, o) \/ EmitChecking(j, o) \/ EmitItemDone(j, o)
      PROVE  UNCHANGED LockView /\ HoldersArchive'
  <2>1. UNCHANGED <<thread, holding, jobOf>>
    BY <1>8 DEF EmitBytes, EmitCopied, EmitChecking, EmitItemDone, EmitItem, registryVars
  <2> QED BY <2>1 DEF LockView, HeldByJob, PastJobs, HoldersArchive
<1> QED BY <1>1, <1>2, <1>3, <1>4, <1>5, <1>6, <1>7, <1>8 DEF Work

\* A request leaves the lock alone; a job it starts has objects to lock.
LEMMA ConnectLocks ==
  ASSUME IInv, HoldersArchive, NEW c \in Clients, Connect(c)
  PROVE  UNCHANGED LockView /\ HoldersArchive'
<1>1. CASE UNCHANGED <<registryVars, workVars>>
  <2>1. UNCHANGED <<thread, holding, jobOf>>
    BY <1>1 DEF registryVars, workVars
  <2> QED BY <2>1 DEF LockView, HeldByJob, PastJobs, HoldersArchive
<1>2. ASSUME NEW rep \in [provider : Providers, keys : Reports], NEW j \in Unused, Start(rep, j)
      PROVE  UNCHANGED LockView /\ HoldersArchive'
  <2>1. j \in Jobs /\ thread[j] = "unborn" /\ j \notin holding /\ rep.keys # {}
    BY ReportsAssumption DEF Unused, HoldersArchive
  <2>2. /\ thread'[j] = "started" /\ jobOf'[j] = rep /\ UNCHANGED holding
        /\ \A i \in Jobs \ {j} : thread'[i] = thread[i] /\ jobOf'[i] = jobOf[i]
    BY <1>2, <2>1 DEF Start, IInv, Data
  <2>3. HeldByJob' = HeldByJob
    BY <2>1, <2>2 DEF HeldByJob
  <2>4. \A i \in Jobs : i \in PastJobs' <=> i \in PastJobs
    BY <2>1, <2>2 DEF PastJobs
  <2>5. PastJobs' = PastJobs
    BY <2>4 DEF PastJobs
  <2>6. HoldersArchive'
    BY <2>1, <2>2 DEF HoldersArchive
  <2> QED BY <2>3, <2>5, <2>6 DEF LockView
<1> QED BY <1>1, <1>2 DEF Connect, ConnectById, ConnectByReport, Refuse

LEMMA LockStep ==
  IInv /\ HoldersArchive /\ [Next]_vars => [Lock!Next]_LockView /\ HoldersArchive'
<1> SUFFICES ASSUME IInv, HoldersArchive, [Next]_vars
             PROVE  (Lock!Next \/ UNCHANGED LockView) /\ HoldersArchive'
  OBVIOUS
<1>1. ASSUME NEW j \in Jobs, Work(j) PROVE (Lock!Next \/ UNCHANGED LockView) /\ HoldersArchive'
  BY <1>1, WorkLocks
<1>2. ASSUME NEW c \in Clients, Connect(c) PROVE UNCHANGED LockView /\ HoldersArchive'
  BY <1>2, ConnectLocks
<1>3. ASSUME UNCHANGED vars \/ \E c \in Clients : Poll(c) \/ Disconnect(c) \/ Forget(c)
      PROVE  UNCHANGED LockView /\ HoldersArchive'
  <2>1. UNCHANGED <<thread, holding, jobOf>>
    BY <1>3 DEF Poll, Disconnect, Forget, vars, registryVars, workVars
  <2> QED BY <2>1 DEF LockView, HeldByJob, PastJobs, HoldersArchive
<1> QED BY <1>1, <1>2, <1>3 DEF Next

\* Whatever the registry has forgotten and however often pages come back, the
\* threads of the jobs lock their objects: no two work on one object, none is
\* refused but by a thread that has one of its objects, and one that ends or
\* fails leaves none behind.
THEOREM WorkersAreLocked == Spec => WorkersLocked
<1>1. Init => Lock!Init /\ HoldersArchive
  <2> SUFFICES ASSUME Init PROVE Lock!Init /\ HoldersArchive
    OBVIOUS
  <2>1. holding = {} /\ \A j \in Jobs : thread[j] = "unborn"
    BY DEF Init
  <2> QED BY <2>1 DEF Lock!Init, HeldByJob, PastJobs, HoldersArchive
<1>2. IInv /\ HoldersArchive /\ [Next]_vars => [Lock!Next]_LockView /\ HoldersArchive'
  BY LockStep
<1>3. Spec => Lock!Init /\ [][Lock!Next]_LockView
  BY <1>1, <1>2, Invariant, PTL DEF Spec
<1> QED BY <1>3 DEF WorkersLocked, Lock!Spec, LockView

HoldersApart == \A i, j \in Jobs : i # j => HeldByJob[i] \cap HeldByJob[j] = {}

\* What the lock is for: no two threads work on one object at a time, although
\* the registry may have forgotten the job of one of them.
THEOREM WorkersStayApart == Spec => []HoldersApart
<1>1. Lock!Init => HoldersApart
  BY DEF Lock!Init, HoldersApart
<1>2. HoldersApart /\ [Lock!Next]_LockView => HoldersApart'
  <2> SUFFICES ASSUME HoldersApart, [Lock!Next]_LockView PROVE HoldersApart'
    OBVIOUS
  <2>1. DOMAIN HeldByJob = Jobs
    BY DEF HeldByJob
  <2>2. ASSUME NEW j \in Jobs, Lock!Release(j) PROVE HoldersApart'
    BY <2>1, <2>2 DEF Lock!Release, HoldersApart
  <2>3. ASSUME NEW j \in Jobs, NEW ks \in SUBSET Objects, Lock!Acquire(j, ks) PROVE HoldersApart'
    <3>1. \A i \in Jobs : HeldByJob[i] \cap ks = {}
      BY <2>3 DEF Lock!Acquire, Lock!Taken
    <3>2. HeldByJob'[j] = ks /\ \A i \in Jobs \ {j} : HeldByJob'[i] = HeldByJob[i]
      BY <2>1, <2>3 DEF Lock!Acquire
    <3> QED BY <3>1, <3>2 DEF HoldersApart
  <2>4. ASSUME NEW j \in Jobs, NEW ks \in SUBSET Objects, Lock!Refuse(j, ks) PROVE HoldersApart'
    BY <2>4 DEF Lock!Refuse, HoldersApart
  <2>5. CASE Lock!Stop
    BY <2>5 DEF Lock!Stop, HoldersApart
  <2>6. CASE UNCHANGED LockView
    BY <2>6 DEF LockView, HoldersApart
  <2> QED BY <2>2, <2>3, <2>4, <2>5, <2>6 DEF Lock!Next
<1>3. WorkersLocked => Lock!Init /\ [][Lock!Next]_LockView
  BY PTL DEF WorkersLocked, Lock!Spec, LockView
<1> QED BY <1>1, <1>2, <1>3, WorkersAreLocked, PTL


-----------------------------------------------------------------------------
(* The log of a job, and what its pages are shown of it.                   *)

LogView == <<LogsOfJobs, finished, Pages>>

\* An event is one entry more of its log, or a snapshot, which is none; no page
\* was shown the number it has.
LEMMA EmitAppends ==
  ASSUME IInv, NEW j \in Jobs, NEW event \in EventNames, NEW data, Emit(j, event, data),
         thread[j] \notin {"returned", "over"}, UNCHANGED <<stream, delivered, finished>>
  PROVE  Log!Append(j) \/ UNCHANGED LogView
<1>1. /\ sequence'[j] = sequence[j] + 1 /\ EventsKept(j)'
      /\ \A i \in Jobs \ {j} : events'[i] = events[i]
      /\ \A e \in events[j] : e.event \notin Snapshots => e \in events'[j]
      /\ \A e \in events'[j] : e \in events[j] \/ (e.event = event /\ e.number = sequence'[j])
  BY EmitShape
<1>2. PICK new \in events'[j] : new.event = event /\ new.number = sequence'[j]
  BY EmitShape
<1>3. EventsKept(j) /\ WorkerTold(j) /\ sequence[j] \in Nat
  BY DEF IInv, Data
<1>4. \A i \in Jobs \ {j} : LogOf(i)' = LogOf(i)
  BY <1>1 DEF LogOf
<1>5. LogOf(j)' = IF event \in Snapshots THEN LogOf(j) ELSE LogOf(j) \cup {new}
  <2>1. ASSUME NEW e \in events'[j], e \notin events[j] PROVE e = new
    BY <1>1, <1>2, <2>1 DEF EventsKept
  <2>2. CASE event \in Snapshots
    BY <1>1, <1>2, <2>1, <2>2 DEF LogOf
  <2>3. CASE event \notin Snapshots
    BY <1>1, <1>2, <2>1, <2>3 DEF LogOf
  <2> QED BY <2>2, <2>3
<1>6. ASSUME NEW c \in Clients PROVE ShownTo(c)' = ShownTo(c)
  <2>1. CASE stream[c].job = None
    BY <2>1 DEF ShownTo
  <2>2. CASE stream[c].job # None /\ stream[c].job # j
    <3>1. stream[c].job \in Jobs
      BY <2>2 DEF IInv, Data, StreamRecords
    <3> QED BY <1>4, <2>2, <3>1 DEF ShownTo
  <2>3. CASE stream[c].job = j
    <3>1. /\ \A n \in delivered[c] : n <= stream[c].cursor /\ n \in Nat
          /\ stream[c].cursor <= sequence[j] /\ stream[c].cursor \in Nat /\ j # None
      BY <2>3, NoneAssumption DEF IInv, StreamCurrent, Data, StreamRecords
    <3>2. new.number \notin delivered[c]
      BY <1>1, <1>2, <1>3, <3>1
    <3>3. ShownTo(c) = {e \in LogOf(j) : e.number \in delivered[c]}
      BY <2>3, <3>1 DEF ShownTo
    <3>4. ShownTo(c)' = {e \in LogOf(j)' : e.number \in delivered[c]}
      BY <2>3, <3>1 DEF ShownTo
    <3> HIDE DEF LogOf
    <3> QED BY <1>5, <3>2, <3>3, <3>4
  <2> QED BY <2>1, <2>2, <2>3
<1>7. Pages' = Pages
  BY <1>6 DEF Pages
<1>8. CASE event \in Snapshots
  <2>1. \A i \in Jobs : LogOf(i)' = LogOf(i)
    BY <1>4, <1>5, <1>8
  <2>2. LogsOfJobs' = LogsOfJobs
    BY <2>1 DEF LogsOfJobs
  <2> QED BY <1>7, <2>2 DEF LogView
<1>9. CASE event \notin Snapshots
  <2>1. LogOf(j)' = LogOf(j) \cup {new}
    BY <1>5, <1>9
  <2>2. LogsOfJobs' = [LogsOfJobs EXCEPT ![j] = LogsOfJobs[j] \cup {new}] /\ new \in LogsOfJobs'[j]
    BY <1>4, <2>1 DEF LogsOfJobs
  <2>3. \A f \in LogsOfJobs[j] : f.number < new.number
    BY <1>1, <1>2, <1>3 DEF LogsOfJobs, LogOf, EventsKept
  <2>4. ~Log!Over(j)
    BY <1>3 DEF Log!Over, LogsOfJobs, LogOf, WorkerTold
  <2> QED BY <1>7, <2>2, <2>3, <2>4 DEF Log!Append
<1> QED BY <1>8, <1>9

\* The flag is set when the last entry is there.
LEMMA FinishCloses ==
  ASSUME IInv, NEW j \in Jobs, SetFinished(j)
  PROVE  Log!Close(j)
<1>1. thread[j] = "returned" /\ finished' = finished \cup {j} /\ UNCHANGED <<events, stream, delivered>>
  BY DEF SetFinished, clientVars
<1>2. \E e \in LogOf(j) : e.event \in {"done", "error"}
  BY <1>1 DEF IInv, WorkerTold, LogOf, Snapshots
<1>3. UNCHANGED <<LogsOfJobs, Pages>>
  BY <1>1 DEF LogsOfJobs, Pages, LogOf, ShownTo
<1> QED BY <1>1, <1>2, <1>3 DEF Log!Close, Log!Over, LogsOfJobs

LEMMA WorkLogs ==
  ASSUME IInv, NEW j \in Jobs, Work(j)
  PROVE  Log!Append(j) \/ Log!Close(j) \/ UNCHANGED LogView
<1>1. ASSUME NEW from \in Threads \ {"returned", "over"}, NEW to, NEW event \in EventNames, NEW data,
             Passing(j, from, to, event, data)
      PROVE  Log!Append(j) \/ UNCHANGED LogView
  BY <1>1, EmitAppends DEF Passing, clientVars
<1>2. ASSUME NEW o \in Objects, NEW from, NEW to, NEW event \in EventNames, EmitItem(j, o, from, to, event)
      PROVE  Log!Append(j) \/ UNCHANGED LogView
  BY <1>2, EmitAppends DEF EmitItem, clientVars
<1>3. CASE EmitPrepare(j) \/ EmitReport(j) \/ EmitDone(j)
  BY <1>1, <1>3 DEF EmitPrepare, EmitReport, EmitDone, Threads, EventNames
<1>4. CASE EmitFailed(j) \/ EmitError(j)
  BY <1>1, <1>4 DEF EmitFailed, EmitError, Threads, EventNames
<1>5. ASSUME NEW o \in Objects, EmitBytes(j, o) \/ EmitCopied(j, o) \/ EmitChecking(j, o) \/ EmitItemDone(j, o)
      PROVE  Log!Append(j) \/ UNCHANGED LogView
  BY <1>2, <1>5 DEF EmitBytes, EmitCopied, EmitChecking, EmitItemDone, EventNames
<1>6. CASE AcquireLock(j) \/ ReleaseLock(j) \/ WorkRaises(j)
  <2>1. UNCHANGED <<events, finished, stream, delivered>>
    BY <1>6 DEF AcquireLock, ReleaseLock, WorkRaises, clientVars
  <2> QED BY <2>1 DEF LogView, LogsOfJobs, Pages, LogOf, ShownTo
<1> QED BY <1>3, <1>4, <1>5, <1>6, FinishCloses DEF Work

\* A step of page c alone, that leaves the jobs.
LEMMA OnePageMoves ==
  ASSUME NEW c \in Clients, UNCHANGED <<events, finished>>,
         \A d \in Clients \ {c} : stream'[d] = stream[d] /\ delivered'[d] = delivered[d],
         NEW st, NEW l, NEW s, stream'[c].state = st, stream'[c].job = l, ShownTo(c)' = s
  PROVE  Log!Becomes(c, [state |-> st, log |-> l, shown |-> s])
<1>1. UNCHANGED LogsOfJobs
  BY DEF LogsOfJobs, LogOf
<1>2. \A d \in Clients \ {c} : ShownTo(d)' = ShownTo(d)
  BY DEF ShownTo, LogOf
<1>3. Pages' = [Pages EXCEPT ![c] = [state |-> st, log |-> l, shown |-> s]]
  BY <1>2 DEF Pages
<1> QED BY <1>1, <1>3 DEF Log!Becomes

\* A request begins at the first entry of a log, or is refused.
LEMMA ConnectLogs ==
  ASSUME IInv, NEW c \in Clients, Connect(c)
  PROVE  Log!Refuse(c) \/ \E j \in Jobs : Log!Open(c, j)
<1>1. PICK rep \in [provider : Providers, keys : Reports] :
        ConnectById(c, rep) \/ (known[c] = None /\ ConnectByReport(c, rep))
  BY DEF Connect
<1>2. stream[c].state # "open" /\ Pages[c].state # "open"
  BY <1>1 DEF ConnectById, ConnectByReport, Pages
<1>3. rep \in Requests
  BY ReportsAssumption DEF Requests
<1>4. UNCHANGED <<events, finished>>
  BY <1>1 DEF ConnectById, ConnectByReport, Refuse, Start, workVars
<1>5. ASSUME NEW j \in Jobs, Open(c, rep, j) PROVE Log!Open(c, j)
  <2>1. /\ stream'[c].state = "open" /\ stream'[c].job = j /\ delivered'[c] = {}
        /\ \A d \in Clients \ {c} : stream'[d] = stream[d] /\ delivered'[d] = delivered[d]
    BY <1>3, <1>5, OpenShape
  <2>2. ShownTo(c)' = {}
    BY <2>1 DEF ShownTo
  <2> QED BY <1>2, <1>4, <2>1, <2>2, OnePageMoves DEF Log!Open
<1>6. CASE Refuse(c, rep)
  <2>1. /\ stream'[c].state = "refused" /\ stream'[c].job = None
        /\ \A d \in Clients \ {c} : stream'[d] = stream[d] /\ delivered'[d] = delivered[d]
    BY <1>6 DEF Refuse, IInv, Data
  <2>2. ShownTo(c)' = {}
    BY <2>1 DEF ShownTo
  <2> QED BY <1>2, <1>4, <2>1, <2>2, OnePageMoves DEF Log!Refuse
<1>7. \A j \in Registered : j \in Jobs
  BY ElementOfSeq DEF IInv, Data, Registered
<1> QED BY <1>1, <1>5, <1>6, <1>7 DEF ConnectById, ConnectByReport, Attachable, Active, Unused

\* A poll shows all there is; when the flag is set, that is the whole log.
LEMMA PollLogs ==
  ASSUME IInv, NEW c \in Clients, Poll(c)
  PROVE  Log!Show(c) \/ Log!End(c)
<1>0. PICK j \in Jobs : j = stream[c].job
  BY DEF Poll, IInv, StreamCurrent
<1>1. /\ stream[c].state = "open" /\ StreamCurrent(c) /\ j \in Jobs /\ j # None
      /\ stream[c].cursor \in Nat /\ stream[c].cursor <= sequence[j] /\ EventsKept(j)
  BY <1>0, NoneAssumption DEF Poll, IInv, Data, StreamCurrent, StreamRecords
<1>2. UNCHANGED <<events, finished>>
  BY DEF Poll, workVars
<1>3. stream' = [stream EXCEPT ![c] = stream'[c]] /\ stream'[c].job = j
      /\ stream'[c].state = IF j \in finished THEN "ended" ELSE "open"
  <2>1. stream[c] \in StreamRecords /\ stream \in [Clients -> StreamRecords]
    BY DEF IInv, Data
  <2>2. \E n : stream' = [stream EXCEPT ![c] = [[stream[c] EXCEPT !.cursor = n]
                                                 EXCEPT !.state = IF j \in finished THEN "ended" ELSE "open"]]
    BY <1>0, <2>1 DEF Poll, StreamRecords
  <2> QED BY <1>0, <2>1, <2>2 DEF StreamRecords
<1>4. \A e \in events[j] : e.number \in delivered'[c]
  <2>1. \A e \in events[j] : e.number \in Nat /\ (e.number <= stream[c].cursor => e.number \in delivered[c])
    BY <1>0, <1>1 DEF EventsKept, StreamCurrent
  <2>2. delivered'[c] = delivered[c] \cup {e.number : e \in {f \in events[j] : f.number > stream[c].cursor}}
    BY <1>0 DEF Poll, IInv, Data
  <2> QED BY <1>1, <2>1, <2>2
<1>5. \A d \in Clients \ {c} : stream'[d] = stream[d] /\ delivered'[d] = delivered[d]
  BY <1>3 DEF Poll, IInv, Data
<1>6. ShownTo(c)' = LogOf(j)
  <2>1. ShownTo(c)' = {e \in LogOf(j)' : e.number \in delivered'[c]}
    BY <1>1, <1>3 DEF ShownTo
  <2> QED BY <1>2, <1>4, <2>1 DEF LogOf
<1>7. Log!Becomes(c, [state |-> stream'[c].state, log |-> j, shown |-> LogOf(j)])
  BY <1>2, <1>3, <1>5, <1>6, OnePageMoves
<1>8. /\ Pages[c] = [state |-> "open", log |-> j, shown |-> ShownTo(c)]
      /\ ShownTo(c) \subseteq LogOf(j) /\ LogsOfJobs[j] = LogOf(j)
  BY <1>0, <1>1 DEF Pages, ShownTo, LogsOfJobs
<1>9. CASE j \in finished
  <2>1. Pages[c].log = j /\ Pages[c].state = "open" /\ LogsOfJobs[Pages[c].log] = LogOf(j)
    BY <1>8
  <2> QED BY <1>3, <1>7, <1>9, <2>1 DEF Log!End
<1>10. CASE j \notin finished
  <2>1. [Pages[c] EXCEPT !.shown = LogOf(j)] = [state |-> "open", log |-> j, shown |-> LogOf(j)]
    BY <1>8
  <2>2. Log!IsPrefix(LogOf(j), j)
    BY <1>8 DEF Log!IsPrefix
  <2> QED BY <1>3, <1>7, <1>8, <1>10, <2>1, <2>2 DEF Log!Show
<1> QED BY <1>9, <1>10

LEMMA DisconnectLogs ==
  ASSUME IInv, NEW c \in Clients, Disconnect(c)
  PROVE  Log!Leave(c)
<1>1. /\ stream[c].state = "open" /\ UNCHANGED <<events, finished, delivered>>
      /\ stream' = [stream EXCEPT ![c] = [stream[c] EXCEPT !.state = "closed"]]
  BY DEF Disconnect, workVars
<1>2. stream[c] \in StreamRecords /\ stream \in [Clients -> StreamRecords]
  BY DEF IInv, Data
<1>3. stream'[c].state = "closed" /\ stream'[c].job = stream[c].job
      /\ \A d \in Clients \ {c} : stream'[d] = stream[d]
  BY <1>1, <1>2 DEF StreamRecords
<1>4. ShownTo(c)' = ShownTo(c)
  BY <1>1, <1>3 DEF ShownTo, LogOf
<1>5. Log!Becomes(c, [state |-> "closed", log |-> stream[c].job, shown |-> ShownTo(c)])
  BY <1>1, <1>3, <1>4, OnePageMoves
<1>6. Pages[c] = [state |-> "open", log |-> stream[c].job, shown |-> ShownTo(c)]
  BY <1>1 DEF Pages
<1>7. [Pages[c] EXCEPT !.state = "closed"] = [state |-> "closed", log |-> stream[c].job, shown |-> ShownTo(c)]
  BY <1>6
<1> QED BY <1>5, <1>6, <1>7 DEF Log!Leave

LEMMA StepsLog == IInv /\ [Next]_vars => [Log!Next]_LogView
<1> SUFFICES ASSUME IInv, [Next]_vars PROVE Log!Next \/ UNCHANGED LogView
  OBVIOUS
<1> USE DEF Log!Next
<1>1. ASSUME NEW j \in Jobs, Work(j) PROVE Log!Next \/ UNCHANGED LogView
  BY <1>1, WorkLogs
<1>2. ASSUME NEW c \in Clients, Connect(c) PROVE Log!Next
  BY <1>2, ConnectLogs
<1>3. ASSUME NEW c \in Clients, Poll(c) \/ Disconnect(c) PROVE Log!Next
  BY <1>3, PollLogs, DisconnectLogs
<1>4. ASSUME UNCHANGED vars \/ \E c \in Clients : Forget(c) PROVE UNCHANGED LogView
  <2>1. UNCHANGED <<events, finished, stream, delivered>>
    BY <1>4 DEF Forget, vars, workVars, clientVars
  <2> QED BY <2>1 DEF LogView, LogsOfJobs, Pages, LogOf, ShownTo
<1> QED BY <1>1, <1>2, <1>3, <1>4 DEF Next

\* The dictionary of events, its snapshots and the polling cursors implement a
\* log that every page reads from the start, in order and without a gap, for
\* any number of jobs, pages and reconnections.
THEOREM OutcomesAreReplayed == Spec => OutcomesReplayed
<1>1. Init => Log!Init
  <2> SUFFICES ASSUME Init PROVE Log!Init
    OBVIOUS
  <2>1. \A c \in Clients : stream[c].state = "closed" /\ stream[c].job = None
    BY DEF Init, NoStream
  <2>2. Pages = [c \in Clients |-> [state |-> "closed", log |-> None, shown |-> {}]]
    BY <2>1 DEF Pages, ShownTo
  <2>3. LogsOfJobs = [j \in Jobs |-> {}] /\ finished = {}
    BY DEF Init, LogsOfJobs, LogOf
  <2> QED BY <2>2, <2>3 DEF Log!Init
<1>2. Spec => Log!Init /\ [][Log!Next]_LogView
  BY <1>1, StepsLog, Invariant, PTL DEF Spec
<1> QED BY <1>2 DEF OutcomesReplayed, Log!Spec, LogView

=============================================================================
