----------------------------- MODULE UrlUpdates -----------------------------
(***************************************************************************)
(* "Update database URLs": the page sends the rows of a copy report to     *)
(* POST /storage/update-database-urls/stream, whose work is                *)
(* update_migrated_urls of app/services/mysql_service.py: row by row, each *)
(* committed on its own, with a progress event after each.  When the       *)
(* stream breaks, the page resends the rows it got no progress event for,  *)
(* perhaps while the first request is still being worked on.               *)
(*                                                                         *)
(* The application goes on writing its tables.  A row id may name several  *)
(* rows where a legacy table has no primary key.                           *)
(***************************************************************************)
EXTENDS SseStream

CONSTANTS
  Pages,        \* browser pages
  MaxAttempts,  \* bound: attempts of a page at its report
  Reports,      \* copy reports, as sequences of rows
  TableRows,    \* the rows of the application's tables
  AppRows,      \* those the application changes
  IdOf,         \* the id of each table row
  Urls,         \* the values of the file column
  InitialTables,\* what the tables may hold at first
  Gone          \* a table row that was removed

\* DatabaseUrlUpdateItem, with the status of its row in the report.
ReportRow == [rowId : {IdOf[r] : r \in TableRows}, sourcePath : Urls, destinationUrl : Urls,
              status : {"Copied", "Skipped", "Failed"}]

\* parse_copy_report_for_db_update.  (Rows with an empty cell are left out too.)
Eligible(rep) == SelectSeq(rep, LAMBDA row : row.status \in {"Copied", "Skipped"})

\* What a page may send.
ItemsToSend == UNION {{Eligible(rep)[n] : n \in 1..Len(Eligible(rep))} : rep \in Reports}

ASSUME StreamsAssumption == Streams = Pages \X (1..MaxAttempts)
ASSUME EventsAssumption ==
  /\ \A e \in Events : e.event \in {"progress", "done", "error"}
  /\ \A rep \in Reports : \A n \in 1..Len(Eligible(rep)) :
       [event |-> "progress", completed |-> n] \in Events
  /\ {[event |-> "done"], [event |-> "error"]} \subseteq Events
ASSUME AttemptsAssumption == MaxAttempts \in Nat
\* What SelectSeq selects is a sequence too (the proofs cannot look into it).
ASSUME ReportsAssumption ==
  \A rep \in Reports : rep \in Seq(ReportRow) /\ Eligible(rep) \in Seq(ReportRow)
ASSUME TablesAssumption ==
  AppRows \subseteq TableRows /\ Gone \notin Urls /\ InitialTables \subseteq [TableRows -> Urls]
\* Rows that share an id hold the same value at first.  (If they do not, SELECT
\* may show one that differs, and the row that should change is a conflict.)
ASSUME SharedIdsAssumption ==
  \A t \in InitialTables : \A q, r \in TableRows : IdOf[q] = IdOf[r] => t[q] = t[r]
\* No report moves a row's file from where another one, or its own, moves it to:
\* a destination is the URL of a copy, which no database held before.
ASSUME NewUrlsAssumption ==
  \A a, b \in ItemsToSend : a.rowId = b.rowId => a.destinationUrl # b.sourcePath

VARIABLES
  value,      \* value[r]: the file column of table row r, or Gone
  touched,    \* the rows the application has changed
  items,      \* items[s]: the items of request s
  at,         \* at[s]: the item its worker is at
  stage,      \* stage[s]: what the worker has done for that item
  report,     \* report[p]: the eligible rows of the page's report
  remaining,  \* remaining[p]: dbUpdateState.remaining
  attempts,   \* attempts[p]: dbUpdateState.attempts
  page        \* page[p]: what the page shows

tables == <<value, touched>>
pages  == <<report, remaining, attempts, page>>
vars   == <<line, running, queue, conn, value, touched, items, at, stage,
            report, remaining, attempts, page>>

Current(p) == <<p, attempts[p]>>

Init ==
  /\ SseInit
  /\ value \in InitialTables
  /\ touched = {}
  /\ items = [s \in Streams |-> <<>>]
  /\ at = [s \in Streams |-> 1]
  /\ stage = [s \in Streams |-> "resolve"]
  /\ report = [p \in Pages |-> <<>>]
  /\ remaining = [p \in Pages |-> <<>>]
  /\ attempts = [p \in Pages |-> 0]
  /\ page = [p \in Pages |-> "idle"]

-----------------------------------------------------------------------------
(* The worker of request s: update_migrated_urls.                          *)

Progress(n) == [event |-> "progress", completed |-> n]
Done        == [event |-> "done"]
Error       == [event |-> "error"]

Item(s)     == items[s][at[s]]
RowsOf(id)  == {r \in TableRows : IdOf[r] = id /\ value[r] # Gone}

StartWork(s) == Begin(s) /\ UNCHANGED <<tables, items, at, stage, pages>>

\* Every table, id column and column is resolved before the first write.
Resolve(s) ==
  /\ s \in running /\ stage[s] = "resolve"
  /\ stage' = [stage EXCEPT ![s] = "select"]
  /\ UNCHANGED <<sseVars, tables, items, at, pages>>

\* Faulty: the index is advanced twice.
SettleTwo(s) ==
  /\ Emit(s, Progress(at[s]))
  /\ at' = [at EXCEPT ![s] = @ + 2]
  /\ stage' = [stage EXCEPT ![s] = "select"]
  /\ UNCHANGED <<items, pages>>

\* The outcome of the item is known: on_progress, and the next one.
Settle(s) ==
  /\ Emit(s, Progress(at[s]))
  /\ at' = [at EXCEPT ![s] = @ + 1]
  /\ stage' = [stage EXCEPT ![s] = "select"]
  /\ UNCHANGED <<items, pages>>

\* SELECT by id; missing, alreadyUpdated and conflict need nothing more.
Select(s) ==
  /\ s \in running /\ stage[s] = "select" /\ at[s] <= Len(items[s])
  /\ \/ /\ RowsOf(Item(s).rowId) = {}
        /\ Settle(s)
     \/ \E r \in RowsOf(Item(s).rowId) :
          IF value[r] # Item(s).sourcePath
            THEN Settle(s)
            ELSE /\ stage' = [stage EXCEPT ![s] = "matches"]
                 /\ UNCHANGED <<sseVars, items, at, pages>>
  /\ UNCHANGED tables

\* Faulty: UPDATE ... WHERE id = rowId, trusting the SELECT.
ById(s) == RowsOf(Item(s).rowId)

\* UPDATE ... WHERE id = rowId AND column = sourcePath.
Guarded(s) == {r \in RowsOf(Item(s).rowId) : value[r] = Item(s).sourcePath}

Write(s) ==
  value' = [r \in TableRows |-> IF r \in Guarded(s) THEN Item(s).destinationUrl ELSE value[r]]

Update(s) ==
  /\ s \in running /\ stage[s] = "matches"
  /\ Write(s)
  /\ Settle(s)
  /\ UNCHANGED touched

\* The work function ends with the events es; its variables are gone.
Return(s, es) ==
  /\ Finish(s, es)
  /\ at' = [at EXCEPT ![s] = 1]
  /\ stage' = [stage EXCEPT ![s] = "resolve"]
  /\ UNCHANGED <<touched, items, pages>>

Complete(s) ==
  /\ s \in running /\ stage[s] = "select" /\ at[s] > Len(items[s])
  /\ Return(s, <<Done>>)
  /\ UNCHANGED value

\* Faulty: an exception of work_fn is not turned into an event.
Silent(s) == <<>>

\* sse_stream's runner: "surfaced to the client as an SSE error event".
ErrorEvents(s) == <<Error>>

\* A ValueError of the resolution, or an error of the database, also after an
\* UPDATE that took place.
Raise(s) ==
  /\ s \in running
  /\ \/ UNCHANGED value
     \/ stage[s] = "matches" /\ Write(s)
  /\ Return(s, ErrorEvents(s))

Work(s) == StartWork(s) \/ Resolve(s) \/ Select(s) \/ Update(s) \/ Complete(s) \/ Raise(s)

-----------------------------------------------------------------------------
(* The page: runDbUpdateAttempt and its buttons.                           *)

Attempt(p, its) ==
  /\ attempts[p] < MaxAttempts
  /\ attempts' = [attempts EXCEPT ![p] = @ + 1]
  /\ Open(<<p, attempts[p] + 1>>)
  /\ items' = [items EXCEPT ![<<p, attempts[p] + 1>>] = its]
  /\ page' = [page EXCEPT ![p] = "running"]
  /\ UNCHANGED <<tables, at, stage>>

Run(p, rep) ==
  /\ page[p] = "idle" /\ Eligible(rep) # <<>>
  /\ report' = [report EXCEPT ![p] = Eligible(rep)]
  /\ remaining' = [remaining EXCEPT ![p] = Eligible(rep)]
  /\ Attempt(p, Eligible(rep))

Retry(p) ==
  /\ page[p] = "stopped" /\ remaining[p] # <<>>
  /\ Attempt(p, remaining[p])
  /\ UNCHANGED <<report, remaining>>

\* Faulty: completed is taken for an index that starts at 0.
SliceAfter(s, n) == SubSeq(items[s], n + 2, Len(items[s]))

\* itemsToSend.slice(d.completed)
Slice(s, n) == SubSeq(items[s], n + 1, Len(items[s]))

\* An event reaches the page.  The error event ends fetchSse by an exception.
Receive(p) ==
  /\ page[p] = "running"
  /\ \E e \in {Done, Error} \cup {Progress(n) : n \in 1..Len(items[Current(p)])} :
       /\ Deliver(Current(p), e)
       /\ remaining' = [remaining EXCEPT ![p] =
            IF e.event = "progress" THEN Slice(Current(p), e.completed) ELSE @]
       /\ page' = [page EXCEPT ![p] = IF e.event = "error" THEN "stopped" ELSE @]
  /\ UNCHANGED <<tables, items, at, stage, report, attempts>>

\* The stream ends; the page reports success if it is still reading it.
EndStream(s) ==
  /\ End(s)
  /\ page' = [page EXCEPT ![s[1]] = IF @ = "running" /\ s = Current(s[1]) THEN "completed" ELSE @]
  /\ UNCHANGED <<tables, items, at, stage, report, remaining, attempts>>

LoseConnection(p) ==
  /\ page[p] = "running"
  /\ Drop(Current(p))
  /\ page' = [page EXCEPT ![p] = "stopped"]
  /\ UNCHANGED <<tables, items, at, stage, report, remaining, attempts>>

-----------------------------------------------------------------------------
\* The application changes or removes a row (bound: each at most once).
AppChange(r) ==
  /\ r \in AppRows \ touched
  /\ touched' = touched \cup {r}
  /\ \E v \in Urls \cup {Gone} : value' = [value EXCEPT ![r] = v]
  /\ UNCHANGED <<sseVars, items, at, stage, pages>>

\* The server process stops; what was committed stays.
Stop ==
  /\ \E s \in Streams : conn[s] = "open" \/ s \in running
  /\ SseStop
  /\ at' = [s \in Streams |-> 1]
  /\ stage' = [s \in Streams |-> "resolve"]
  /\ page' = [p \in Pages |-> IF page[p] = "running" THEN "stopped" ELSE page[p]]
  /\ UNCHANGED <<tables, items, report, remaining, attempts>>

Next ==
  \/ \E s \in Streams : Work(s) \/ EndStream(s)
  \/ \E p \in Pages : Retry(p) \/ Receive(p) \/ LoseConnection(p) \/ \E rep \in Reports : Run(p, rep)
  \/ \E r \in AppRows : AppChange(r)
  \/ Stop

Spec == Init /\ [][Next]_vars

\* A thread that has a statement to execute executes it, the first in the line
\* takes a free thread, and the event loop serves the connections that stay.
FairSpec ==
  /\ Spec
  /\ \A s \in Streams : WF_vars(Work(s)) /\ WF_vars(EndStream(s))
  /\ \A p \in Pages : WF_vars(Receive(p))

-----------------------------------------------------------------------------
(* Correctness.                                                            *)

\* Every variable has its type; what remains is a part of the report.
TypeOK ==
  /\ SseTypeOK
  /\ value \in [TableRows -> Urls \cup {Gone}]
  /\ touched \subseteq AppRows
  /\ stage \in [Streams -> {"resolve", "select", "matches"}]
  /\ attempts \in [Pages -> 0..MaxAttempts]
  /\ page \in [Pages -> {"idle", "running", "stopped", "completed"}]
  /\ \A s \in Streams : at[s] \in 1..(Len(items[s]) + 1)
  /\ \A p \in Pages : report[p] \in Seq(ReportRow) /\ Len(remaining[p]) <= Len(report[p])

\* No row of the item's id holds the source path any more, unless the
\* application has changed one of them.
Settled(it) ==
  \A r \in TableRows : IdOf[r] = it.rowId /\ value[r] = it.sourcePath
    => \E q \in touched : IdOf[q] = it.rowId

\* mysql_service.py:76-82: a run that was cut off can be resumed by resending
\* only the rows that got no progress event.  So each row that is not resent
\* has been dealt with, whatever was lost, and whether or not an earlier
\* request is still being worked on.
NothingSkipped ==
  \A p \in Pages : \A n \in 1..(Len(report[p]) - Len(remaining[p])) : Settled(report[p][n])

\* The page says "Database URL update completed" only when nothing remains: a
\* worker that raised does not look like one that returned.
CompletedIsComplete == \A p \in Pages : page[p] = "completed" => remaining[p] = <<>>

\* mysql_service.py:69-70: a row the application has changed is never
\* overwritten, even if it changes between the SELECT and the UPDATE.  (It may
\* have been changed to what the report says.)
ChangedRowsKept ==
  [][\A r \in touched : value'[r] # value[r]
       => \E s \in running : /\ stage[s] = "matches" /\ Item(s).rowId = IdOf[r]
                             /\ value[r] = Item(s).sourcePath]_vars
=============================================================================
