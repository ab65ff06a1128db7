----------------------------- MODULE ArchiveJobs ----------------------------
(***************************************************************************)
(* The reconnectable archive jobs of app/services/archive_jobs.py, with    *)
(* the work that POST /storage/delete/stream gives them.                   *)
(*                                                                         *)
(* connect finds or starts the job of a report; its thread runs the work   *)
(* and keeps what it emits in a dictionary of events; every open stream    *)
(* polls that dictionary.  A client may drop its stream at any time and    *)
(* come back, with the id of the job or without it.  The archive run       *)
(* inside the work is reduced to the lock it takes and the events it       *)
(* emits; module ArchiveRun has the rest.                                  *)
(***************************************************************************)
EXTENDS Integers, Sequences, FiniteSets, FiniteSetsExt

CONSTANTS
  Providers,      \* storage providers
  Segments,       \* bucket names and pieces of keys
  Objects,        \* the objects a report may list, as paths <<bucket, key...>>
  Reports,        \* the key sets of the reports
  Jobs,           \* job ids (uuid4), each used once
  Clients,        \* browser pages
  RetainedJobs,   \* how many jobs the registry keeps (8 in the code)
  None            \* no provider, no job

ASSUME ObjectsAssumption == Objects \subseteq Seq(Segments) \ {<<>>}
\* _validate_delete_body refuses a request without items.
ASSUME ReportsAssumption == Reports \subseteq (SUBSET Objects) \ {{}}
ASSUME NumbersAssumption == RetainedJobs \in Nat \ {0}
ASSUME NoneAssumption == None \notin Jobs \cup Providers

VARIABLES
  registry,   \* self.jobs, the ids in the order of their insertion
  jobOf,      \* jobOf[j]: the provider and keys the job was started for
  events,     \* events[j]: job["events"], at most one per slot
  sequence,   \* sequence[j]: job["sequence"]
  finished,   \* the jobs whose finished flag is set
  thread,     \* thread[j]: where the worker thread of j is
  progress,   \* progress[j][o]: how far the work is with object o
  holding,    \* the jobs whose archive run holds its keys
  stream,     \* stream[c]: the connection of client c
  delivered,  \* delivered[c]: the sequence numbers its stream has yielded
  known       \* known[c]: the job id the page remembers (archiveJobId)

registryVars == <<registry, jobOf>>
workVars     == <<events, sequence, finished, thread, progress, holding>>
clientVars   == <<stream, delivered, known>>
vars         == <<registryVars, workVars, clientVars>>

Registered == {registry[n] : n \in 1..Len(registry)}
Unused     == {j \in Jobs : thread[j] = "unborn"}
NoReport   == [provider |-> None, keys |-> {}]
NoStream   == [state |-> "closed", job |-> None, cursor |-> 0, report |-> NoReport]

Init ==
  /\ registry = <<>>
  /\ jobOf = [j \in Jobs |-> NoReport]
  /\ events = [j \in Jobs |-> {}]
  /\ sequence = [j \in Jobs |-> 0]
  /\ finished = {}
  /\ thread = [j \in Jobs |-> "unborn"]
  /\ progress = [j \in Jobs |-> [o \in Objects |-> "waiting"]]
  /\ holding = {}
  /\ stream = [c \in Clients |-> NoStream]
  /\ delivered = [c \in Clients |-> {}]
  /\ known = [c \in Clients |-> None]

-----------------------------------------------------------------------------
(* ArchiveJobs.connect, one critical section.                              *)

\* The stream of c starts, from the first event of job j.
Open(c, rep, j) ==
  /\ stream' = [stream EXCEPT ![c] = [state |-> "open", job |-> j, cursor |-> 0, report |-> rep]]
  /\ delivered' = [delivered EXCEPT ![c] = {}]
  /\ known' = [known EXCEPT ![c] = j]

\* ValueError, answered with 409: the page keeps what it knew.
Refuse(c, rep) ==
  /\ stream' = [stream EXCEPT ![c] = [state |-> "refused", job |-> None, cursor |-> 0, report |-> rep]]
  /\ delivered' = [delivered EXCEPT ![c] = {}]
  /\ UNCHANGED <<registryVars, workVars, known>>

Covers(j, rep) == jobOf[j].provider = rep.provider /\ rep.keys \subseteq jobOf[j].keys
Active         == {j \in Registered : j \notin finished}

ConnectById(c, rep) ==
  /\ stream[c].state # "open"
  /\ known[c] # None
  /\ IF known[c] \in Registered /\ Covers(known[c], rep)
       THEN Open(c, rep, known[c]) /\ UNCHANGED <<registryVars, workVars>>
       ELSE Refuse(c, rep)

\* Faulty: only the job of the very same report.
AttachableSame(rep) == {j \in Active : jobOf[j] = rep}

Attachable(rep) == {j \in Active : Covers(j, rep)}

\* Faulty: only jobs of the same provider count.
OverlapsSameProvider(rep) ==
  \E j \in Active : jobOf[j].provider = rep.provider /\ rep.keys \cap jobOf[j].keys # {}

\* Some object of the report belongs to an unfinished job, of any provider.
Overlaps(rep) == \E j \in Active : rep.keys \cap jobOf[j].keys # {}

\* Faulty: nothing is forgotten.
KeptAll(jobs) == jobs

\* The registry is full: the oldest job is forgotten, finished or not.
Kept(jobs) == IF Len(jobs) >= RetainedJobs THEN Tail(jobs) ELSE jobs

Start(rep, j) ==
  /\ registry' = Append(Kept(registry), j)
  /\ jobOf' = [jobOf EXCEPT ![j] = rep]
  /\ thread' = [thread EXCEPT ![j] = "started"]
  /\ UNCHANGED <<events, sequence, finished, progress, holding>>

ConnectByReport(c, rep) ==
  /\ stream[c].state # "open"
  /\ \/ \E j \in Attachable(rep) : Open(c, rep, j) /\ UNCHANGED <<registryVars, workVars>>
     \/ Attachable(rep) = {} /\ Overlaps(rep) /\ Refuse(c, rep)
     \/ /\ Attachable(rep) = {} /\ ~Overlaps(rep)
        /\ \E j \in Unused : Start(rep, j) /\ Open(c, rep, j)

-----------------------------------------------------------------------------
(* The worker thread: ArchiveJobs._run around the route's work.            *)

\* Faulty: every archive_progress event is a snapshot of its key.
SlotByKey(j, event, data) ==
  CASE event = "archive_bytes"    -> [kind |-> event, of |-> Tail(data), number |-> 0]
    [] event \in {"archive_progress", "item_done"} -> [kind |-> event, of |-> Tail(data), number |-> 0]
    [] event = "archive_phase"    -> [kind |-> event, of |-> <<>>, number |-> 0]
    [] OTHER                      -> [kind |-> "outcome", of |-> <<>>, number |-> sequence[j] + 1]

\* The key of job["events"] an event is stored under: snapshots share one, all
\* other events have their own.
Slot(j, event, data) ==
  CASE event = "archive_bytes"    -> [kind |-> event, of |-> Tail(data), number |-> 0]
    [] event = "archive_progress" -> [kind |-> event, of |-> data, number |-> 0]
    [] event = "archive_phase"    -> [kind |-> event, of |-> <<>>, number |-> 0]
    [] OTHER                      -> [kind |-> "outcome", of |-> <<>>, number |-> sequence[j] + 1]

Emit(j, event, data) ==
  LET slot == Slot(j, event, data)
      kept == {e \in events[j] : e.slot # slot}
      new  == [slot |-> slot, number |-> sequence[j] + 1, event |-> event, data |-> data]
  IN /\ sequence' = [sequence EXCEPT ![j] = @ + 1]
     /\ events' = [events EXCEPT ![j] = kept \cup {new}]

\* The thread of j goes from one place to the next, emitting an event on the way.
Passing(j, from, to, event, data) ==
  /\ thread[j] = from
  /\ thread' = [thread EXCEPT ![j] = to]
  /\ Emit(j, event, data)
  /\ UNCHANGED <<registryVars, clientVars, finished, progress, holding>>

EmitPrepare(j) == Passing(j, "started", "locking", "archive_phase", <<"prepare">>)

\* Faulty: the jobs of the registry are looked at, not the runs.
FreeInRegistry(j) == \A h \in holding \cap Registered : jobOf[h].keys \cap jobOf[j].keys = {}

\* _single_archive_run, around the run inside the work.
LockFree(j) == \A h \in holding : jobOf[h].keys \cap jobOf[j].keys = {}

AcquireLock(j) ==
  /\ thread[j] = "locking"
  /\ IF LockFree(j)
       THEN /\ holding' = holding \cup {j}
            /\ thread' = [thread EXCEPT ![j] = "archiving"]
       ELSE /\ thread' = [thread EXCEPT ![j] = "failing"]
            /\ UNCHANGED holding
  /\ UNCHANGED <<registryVars, clientVars, events, sequence, finished, progress>>

\* One event about object o, from the pool thread that works on it.
EmitItem(j, o, from, to, event) ==
  /\ thread[j] = "archiving" /\ o \in jobOf[j].keys /\ progress[j][o] = from
  /\ progress' = [progress EXCEPT ![j][o] = to]
  /\ Emit(j, event, o)
  /\ UNCHANGED <<registryVars, clientVars, finished, thread, holding>>

AllAt(j, st) == \A o \in jobOf[j].keys : progress[j][o] \in st

\* The byte progress of an upload, as one event: a later one takes its slot.
EmitBytes(j, o) == EmitItem(j, o, "waiting", "uploading", "archive_bytes")

EmitCopied(j, o) ==
  \E st \in {"waiting", "uploading"} : EmitItem(j, o, st, "copied", "copy_progress")

\* copy_objects has returned: every item is copied, or has failed to be.
CopiesOver(j) == AllAt(j, {"copied", "checking", "settled"})

EmitChecking(j, o) ==
  CopiesOver(j) /\ EmitItem(j, o, "copied", "checking", "archive_progress")

\* The outcome of an item; one that was not copied is not checked.
EmitItemDone(j, o) ==
  CopiesOver(j) /\ \E st \in {"copied", "checking"} : EmitItem(j, o, st, "settled", "item_done")

\* The run ends, with its outcomes or by an exception; the lock is released.
ReleaseLock(j) ==
  /\ thread[j] = "archiving"
  /\ \/ AllAt(j, {"settled"}) /\ thread' = [thread EXCEPT ![j] = "auditing"]
     \/ AllAt(j, {"waiting"}) /\ thread' = [thread EXCEPT ![j] = "failing"]
  /\ holding' = holding \ {j}
  /\ UNCHANGED <<registryVars, clientVars, events, sequence, finished, progress>>

\* The audit log or the report cannot be written.
WorkRaises(j) ==
  /\ thread[j] \in {"auditing", "reporting"}
  /\ thread' = [thread EXCEPT ![j] = "failing"]
  /\ UNCHANGED <<registryVars, clientVars, events, sequence, finished, progress, holding>>

EmitReport(j) == Passing(j, "auditing", "reporting", "archive_phase", <<"report">>)
EmitDone(j)   == Passing(j, "reporting", "returned", "done", <<>>)
EmitFailed(j) == Passing(j, "failing", "failed", "archive_failed", <<>>)

\* Faulty: an exception ends the thread before the finished flag is set.
EmitErrorAndDie(j) == Passing(j, "failed", "over", "error", <<>>)

EmitError(j)  == Passing(j, "failed", "returned", "error", <<>>)

\* The finally clause of _run.
SetFinished(j) ==
  /\ thread[j] = "returned"
  /\ finished' = finished \cup {j}
  /\ thread' = [thread EXCEPT ![j] = "over"]
  /\ UNCHANGED <<registryVars, clientVars, events, sequence, progress, holding>>

-----------------------------------------------------------------------------
(* The streams.                                                            *)

\* Faulty: the flag is read after the lock over the events is released, so a
\* finished job may be seen with the events of a moment before.
PollLate(c) ==
  LET j == stream[c].job
  IN /\ stream[c].state = "open"
     /\ \E seen \in SUBSET events[j] :
          /\ \A e \in seen, f \in events[j] : f.number < e.number => f \in seen
          /\ delivered' = [delivered EXCEPT ![c] = @ \cup {e.number : e \in seen}]
     /\ stream' = [stream EXCEPT ![c].state = IF j \in finished THEN "ended" ELSE "open"]
     /\ UNCHANGED <<registryVars, workVars, known>>

\* One turn of ArchiveJobs.stream: the events after the cursor and the finished
\* flag are read under the lock, the events are yielded, then the loop ends if
\* the job had finished.
Poll(c) ==
  LET j     == stream[c].job
      fresh == {e.number : e \in {f \in events[j] : f.number > stream[c].cursor}}
  IN /\ stream[c].state = "open"
     /\ delivered' = [delivered EXCEPT ![c] = @ \cup fresh]
     /\ stream' = [stream EXCEPT
          ![c].cursor = Max(fresh \cup {@}),
          ![c].state = IF j \in finished THEN "ended" ELSE "open"]
     /\ UNCHANGED <<registryVars, workVars, known>>

\* The connection breaks; the worker goes on.
Disconnect(c) ==
  /\ stream[c].state = "open"
  /\ stream' = [stream EXCEPT ![c].state = "closed"]
  /\ UNCHANGED <<registryVars, workVars, delivered, known>>

\* The page is loaded again, or has seen the end of its job: no job id is known.
Forget(c) ==
  /\ stream[c].state # "open" /\ known[c] # None
  /\ known' = [known EXCEPT ![c] = None]
  /\ UNCHANGED <<registryVars, workVars, stream, delivered>>

-----------------------------------------------------------------------------
Work(j) ==
  \/ EmitPrepare(j) \/ AcquireLock(j) \/ ReleaseLock(j) \/ WorkRaises(j)
  \/ EmitReport(j) \/ EmitDone(j) \/ EmitFailed(j) \/ EmitError(j) \/ SetFinished(j)
  \/ \E o \in Objects :
       EmitBytes(j, o) \/ EmitCopied(j, o) \/ EmitChecking(j, o) \/ EmitItemDone(j, o)

Connect(c) == \E rep \in [provider : Providers, keys : Reports] :
  ConnectById(c, rep) \/ (known[c] = None /\ ConnectByReport(c, rep))

Next ==
  \/ \E j \in Jobs : Work(j)
  \/ \E c \in Clients : Connect(c) \/ Poll(c) \/ Disconnect(c) \/ Forget(c)

Spec == Init /\ [][Next]_vars

\* Threads run, and the server goes on polling for a stream that stays open.
FairSpec ==
  /\ Spec
  /\ \A j \in Jobs : WF_vars(Work(j))
  /\ \A c \in Clients : WF_vars(Poll(c))

-----------------------------------------------------------------------------
(* Correctness.                                                            *)

EventNames == {"archive_phase", "archive_bytes", "copy_progress", "archive_progress",
               "item_done", "done", "archive_failed", "error"}
Threads    == {"unborn", "started", "locking", "archiving", "auditing", "reporting",
               "failing", "failed", "returned", "over"}

\* Every variable has its type, the registry keeps to its size, and the slots
\* of a job's events are distinct.
TypeOK ==
  /\ registry \in Seq(Jobs) /\ Len(registry) <= RetainedJobs
  /\ jobOf \in [Jobs -> [provider : Providers \cup {None}, keys : SUBSET Objects]]
  /\ sequence \in [Jobs -> Nat]
  /\ finished \subseteq Jobs
  /\ thread \in [Jobs -> Threads]
  /\ progress \in [Jobs -> [Objects -> {"waiting", "uploading", "copied", "checking", "settled"}]]
  /\ holding \subseteq Jobs
  /\ known \in [Clients -> Jobs \cup {None}]
  /\ \A j \in Jobs : \A e, f \in events[j] :
       /\ e.number \in 1..sequence[j] /\ e.event \in EventNames
       /\ e.slot = f.slot \/ e.number = f.number => e = f
  /\ \A c \in Clients :
       /\ stream[c].state \in {"closed", "open", "ended", "refused"}
       /\ stream[c].job \in Jobs \cup {None}
       /\ \A n \in delivered[c] : n <= stream[c].cursor

\* Two unfinished jobs of the registry have no object in common, also when
\* their providers differ: the archive key has no provider in it.
ActiveJobsDisjoint ==
  \A i, j \in Active : i # j => jobOf[i].keys \cap jobOf[j].keys = {}

\* A stream that the server ended has yielded every outcome that its job ever
\* had, the last of them terminal, however often the client came back.
EndedStreamComplete ==
  \A c \in Clients : stream[c].state = "ended" =>
    LET all == events[stream[c].job]
    IN /\ \A e \in all : e.number \in delivered[c]
       /\ \E e \in all : e.event \in {"done", "error"} /\ \A f \in all : f.number <= e.number

\* A page that was shown "done" was shown the outcome of each object of the
\* report it asked for, although the job may be that of a larger report.
DoneCoversReport ==
  \A c \in Clients : stream[c].state = "ended" =>
    LET shown == {e \in events[stream[c].job] : e.number \in delivered[c]}
    IN (\E e \in shown : e.event = "done") =>
         \A o \in stream[c].report.keys : \E e \in shown : e.event = "item_done" /\ e.data = o

\* A client (re)opens its stream: the request that changes it has a report.
Asks(c, j) ==
  /\ stream[c].state # "open" /\ stream'[c] # stream[c]
  /\ known[c] \in {j, None} /\ Covers(j, stream'[c].report)

\* Whoever asks for objects that an unfinished job of the registry works on,
\* with its id or without, is attached to that job.
ActiveReportAttaches ==
  [][\A c \in Clients : \A j \in Active : Asks(c, j) => stream'[c].job = j]_vars

\* The keys of the run inside each job, and the jobs whose run has been refused
\* or is over.
HeldByJob == [j \in Jobs |-> IF j \in holding THEN jobOf[j].keys ELSE {}]
PastJobs  == {j \in Jobs : thread[j] \notin {"unborn", "started", "locking", "archiving"}}

Lock == INSTANCE KeyLock WITH Owners <- Jobs, Resources <- Objects, held <- HeldByJob, past <- PastJobs

\* No two worker threads work on one object, also when the registry has
\* forgotten one of their jobs; and none is refused, or kept from its keys,
\* by a run that is over or has failed.
WorkersLocked == Lock!Spec

\* Events whose place another one may take: the others are for good.
Snapshots == {"archive_bytes", "archive_progress", "archive_phase"}
LogOf(j)  == {e \in events[j] : e.event \notin Snapshots}
LogsOfJobs == [j \in Jobs |-> LogOf(j)]

\* What the stream of c has yielded of the log of its job.
ShownTo(c) == IF stream[c].job = None THEN {} ELSE {e \in LogOf(stream[c].job) : e.number \in delivered[c]}
Pages      == [c \in Clients |-> [state |-> stream[c].state, log |-> stream[c].job, shown |-> ShownTo(c)]]

Log == INSTANCE EventLog WITH
  Logs <- Jobs, Readers <- Clients, Final <- {"done", "error"},
  log <- LogsOfJobs, closed <- finished, reader <- Pages

\* Polling and reconnecting lose no outcome: each page is shown a growing
\* prefix of what its job had to say, from the first entry on, and the end only
\* after all of it; nothing follows "done" or "error", and nothing is taken back.
OutcomesReplayed == Log!Spec

\* A stream that stays open is ended by the server: its job ends.
StreamsEnd == \A c \in Clients : stream[c].state = "open" ~> stream[c].state # "open"

\* README.md:312: reconnecting the same active report attaches to its existing
\* worker (while its worker thread runs).
RunningReportAttaches ==
  [][\A c \in Clients : \A j \in Jobs \ finished :
       thread[j] # "unborn" /\ Asks(c, j) => stream'[c].job = j]_vars
=============================================================================
