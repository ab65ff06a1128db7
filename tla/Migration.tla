------------------------------ MODULE Migration ------------------------------
(***************************************************************************)
(* "Delete files already migrated": the page reads a copy report back in,  *)
(* has every destination link checked (/validate-destination-urls/stream), *)
(* and sends the rows whose link answered to /delete-migrated/stream,      *)
(* which removes their sources in batches (delete_objects).  A deletion    *)
(* report can be uploaded again to retry its Excluded sheet.               *)
(*                                                                         *)
(* All of this goes on beside the copies of CopyObjects, on the same       *)
(* objects and without a lock.  A session is one upload of a report.       *)
(***************************************************************************)
EXTENDS CopyObjects

CONSTANTS
  Sessions,    \* identities of sessions
  BatchSize    \* _DELETE_STREAM_BATCH_SIZE

ASSUME BatchSizeAssumption == BatchSize \in Nat \ {0}

VARIABLES
  rows,      \* rows[d]: the rows of the uploaded report, under their numbers
  link,      \* link[d][i]: what the session knows of the link of row i
  step,      \* step[d]: where the session is
  batches,   \* batches[d]: the DeleteObjects calls still to make
  outcome,   \* outcome[d][pl]: what became of the place pl
  stale      \* stale[d]: destinations that somebody else has emptied since
             \* their links answered (history)

migrationVars == <<rows, link, step, batches, outcome, stale>>
vars == <<store, rewritten, request, phase, unready, bucketErrors, noAcl, stage, body,
          reported, before, rows, link, step, batches, outcome, stale>>

\* The link of a row is still to be checked (for the first time, or once more),
\* answers, does not, was never eligible for a check, or its outcome was shown
\* by an attempt that then broke.
Links    == {"unchecked", "recheck", "readable", "unreadable", "ineligible", "lost"}

\* The provider removes an object and says so, removes it and does not say so
\* (the reply is lost, or leaves the key out), or keeps it.
Outcomes == {"pending", "deleted", "unconfirmed", "kept"}
Steps    == {"idle", "checking", "deleting", "auditing", "reporting", "done", "failed", "crashed"}

Row      == [source : Places, dest : Places, status : Stages]

MigrationInit ==
  /\ rows = [d \in Sessions |-> <<>>]
  /\ link = [d \in Sessions |-> <<>>]
  /\ step = [d \in Sessions |-> "idle"]
  /\ batches = [d \in Sessions |-> {}]
  /\ outcome = [d \in Sessions |-> <<>>]
  /\ stale = [d \in Sessions |-> {}]

Init == CopyInit /\ MigrationInit

-----------------------------------------------------------------------------
(* Reading a report and checking its links.                                *)

Read(d, rs, known) ==
  /\ step[d] = "idle"
  /\ rows' = [rows EXCEPT ![d] = rs]
  /\ link' = [link EXCEPT ![d] = known]
  /\ step' = [step EXCEPT ![d] = "checking"]
  /\ UNCHANGED <<batches, outcome, stale>>
  /\ UNCHANGED copyVars

\* _build_copy_report: items and results are joined by their position.
ReportRow(j, i) ==
  [source |-> Source(request[j], i), dest |-> Dest(request[j], i), status |-> stage[j][i]]

\* generate_restore_report calls its sheet Restored.
HasCopiedSheet(j) == j \in reported /\ request[j].kind = "copy"

\* parse_copy_report_for_delete_details: rows that are neither Copied nor
\* Skipped are excluded.
ReadCopyReport(d, j) ==
  /\ HasCopiedSheet(j)
  /\ Read(d, [i \in Rows(request[j]) |-> ReportRow(j, i)],
             [i \in Rows(request[j]) |->
                IF stage[j][i] \in Successful THEN "unchecked" ELSE "ineligible"])

\* generate_deletion_report's Excluded sheet: what the page knows to be excluded.
Excluded(e) == {i \in DOMAIN rows[e] : link[e][i] \in {"unreadable", "ineligible"}}

\* parse_deletion_excluded_report: each of them has a bucket, a key and a link
\* (generate_copy_report gives one to failed rows too).  They keep their order,
\* so that they may keep their numbers.
Candidates(e) == [i \in Excluded(e) |-> rows[e][i]]

\* All of them are checked again, whatever their status.
ReadExcluded(d, e) ==
  /\ step[e] = "done" /\ Excluded(e) # {}
  /\ Read(d, Candidates(e), [i \in Excluded(e) |-> "recheck"])

\* Faulty: an HTTP error counts as an answer.
AnyAnswer(d, i) == {"readable", "unreadable"}

\* A signed link to the destination answers 200 or 206 only when an object is
\* there, public or not; it may fail for many reasons, its age among them.
LinkAnswers(d, i) ==
  {"unreadable"} \cup (IF store[rows[d][i].dest] = Absent THEN {} ELSE {"readable"})

\* validate_public_destination_urls, one link.  The page trims its list with
\* each progress event but takes the outcomes from the last event of all: what
\* a broken attempt has shown is neither checked again nor kept.
CheckLink(d, i) ==
  /\ step[d] = "checking" /\ link[d][i] \in {"unchecked", "recheck"}
  /\ \E answer \in LinkAnswers(d, i) \cup (IF link[d][i] = "recheck" THEN {} ELSE {"lost"}) :
       /\ link' = [link EXCEPT ![d][i] = answer]
       /\ stale' = [stale EXCEPT ![d] = IF answer = "readable" THEN @ \ {rows[d][i].dest} ELSE @]
  /\ UNCHANGED <<rows, step, batches, outcome>>
  /\ UNCHANGED copyVars

-----------------------------------------------------------------------------
(* Deleting.                                                               *)

\* The rows the page sends: those whose link answered.
Sent(d) == {i \in DOMAIN rows[d] : link[d][i] = "readable"}

Sources(d)      == {rows[d][i].source : i \in Sent(d)}
Destinations(d) == {rows[d][i].dest : i \in Sent(d)}

\* What the step empties is stale for the sessions in ds.
GoneStale(ds) ==
  LET emptied == {pl \in Places : store[pl] # Absent /\ store'[pl] = Absent}
  IN  stale' = [d \in Sessions |->
                  IF d \in ds THEN stale[d] \cup (emptied \cap Destinations(d)) ELSE stale[d]]

\* delete_objects: the rows of one bucket, in order, BatchSize to a call.
BatchOf(d, i) ==
  LET bucket == BucketOf(rows[d][i].source)
  IN  <<bucket, Cardinality({k \in Sent(d) : k < i /\ BucketOf(rows[d][k].source) = bucket}) \div BatchSize>>

Batches(d) ==
  {[call   |-> BatchOf(d, i),
    places |-> {rows[d][k].source : k \in {k \in Sent(d) : BatchOf(d, k) = BatchOf(d, i)}}] : i \in Sent(d)}

\* Faulty: the dictionary is empty at first.
NoneYet(d) == <<>>

\* outcome_by_item, as the results are read from it: one entry per item.
AllPending(d) == [pl \in Sources(d) |-> "pending"]

\* The user confirms, with the provider the report was copied from.
Confirm(d) ==
  /\ step[d] = "checking"
  /\ \A i \in DOMAIN rows[d] : link[d][i] \notin {"unchecked", "recheck"}
  /\ Sent(d) # {}
  /\ batches' = [batches EXCEPT ![d] = Batches(d)]
  /\ outcome' = [outcome EXCEPT ![d] = AllPending(d)]
  /\ step' = [step EXCEPT ![d] = "deleting"]
  /\ UNCHANGED <<rows, link, stale>>
  /\ UNCHANGED copyVars

\* Faulty: a key the reply leaves out counts as deleted.
QuietReply(pls, gone, named) == [pl \in pls |-> "deleted"]

\* What the reply says of the places pls: gone was removed, named is listed
\* under Deleted.  A whole call that raises names nothing.
Reply(pls, gone, named) ==
  [pl \in pls |-> CASE pl \in gone \cap named -> "deleted"
                  [] pl \in gone \ named    -> "unconfirmed"
                  [] OTHER                  -> "kept"]

\* delete_chunk.
DeleteBatch(d, b) ==
  /\ step[d] = "deleting" /\ b \in batches[d]
  /\ batches' = [batches EXCEPT ![d] = @ \ {b}]
  /\ \E gone \in SUBSET b.places : \E named \in SUBSET gone :
       /\ Replace(gone, [pl \in gone |-> Absent])
       /\ outcome' = [outcome EXCEPT ![d] =
            [pl \in DOMAIN @ |-> IF pl \in b.places THEN Reply(b.places, gone, named)[pl] ELSE @[pl]]]
  /\ GoneStale(Sessions \ {d})
  /\ UNCHANGED <<rows, link, step>>
  /\ UNCHANGED <<rewritten, requestState, phase, unready, bucketErrors, noAcl, stage, body>>

\* The pool is done; then the audit log, then the report.
Proceed(d) ==
  /\ \E st \in CASE step[d] = "deleting" /\ batches[d] = {} -> {"auditing"}
                 [] step[d] = "auditing"                    -> {"reporting", "failed"}
                 [] step[d] = "reporting"                   -> {"done", "failed"}
                 [] OTHER                                   -> {} :
       step' = [step EXCEPT ![d] = st]
  /\ UNCHANGED <<rows, link, batches, outcome, stale>>
  /\ UNCHANGED copyVars

\* The result of a sent row: outcome_by_item at its bucket and key.
Result(d, i) == IF outcome[d][rows[d][i].source] = "deleted" THEN "Deleted" ELSE "Failed"

Kept(d) == {i \in DOMAIN rows[d] : i \in Sent(d) => Result(d, i) = "Failed"}

\* The page drops the rows reported deleted; what is left can be confirmed
\* again, without another check of the links.
Resend(d) ==
  /\ step[d] \in {"done", "failed", "crashed"}
  /\ \E i \in Sent(d) : Result(d, i) = "Failed"
  /\ rows' = [rows EXCEPT ![d] = [i \in Kept(d) |-> rows[d][i]]]
  /\ link' = [link EXCEPT ![d] = [i \in Kept(d) |-> link[d][i]]]
  /\ step' = [step EXCEPT ![d] = "checking"]
  /\ outcome' = [outcome EXCEPT ![d] = <<>>]
  /\ batches' = [batches EXCEPT ![d] = {}]
  /\ UNCHANGED stale
  /\ UNCHANGED copyVars

-----------------------------------------------------------------------------
SessionRequest(d) ==
  \/ \E j \in Copies : ReadCopyReport(d, j)
  \/ \E e \in Sessions : ReadExcluded(d, e)
  \/ Confirm(d) \/ Resend(d)

SessionStep(d) ==
  \/ \E i \in DOMAIN rows[d] : CheckLink(d, i)
  \/ \E b \in batches[d] : DeleteBatch(d, b)
  \/ Proceed(d)

\* The server process stops.
Stop ==
  /\ (\E j \in Copies : phase[j] \in Active) \/ (\E d \in Sessions : step[d] = "deleting")
  /\ CopiesStop
  /\ step' = [d \in Sessions |->
                IF step[d] \in {"deleting", "auditing", "reporting"} THEN "crashed" ELSE step[d]]
  /\ UNCHANGED <<rows, link, batches, outcome, stale>>

Next ==
  \/ TenantStep /\ GoneStale(Sessions) /\ UNCHANGED <<rows, link, step, batches, outcome>>
  \/ (\E j \in Copies : CopyRequest(j) \/ CopyStep(j)) /\ UNCHANGED migrationVars
  \/ \E d \in Sessions : SessionRequest(d) \/ SessionStep(d)
  \/ Stop

Spec == Init /\ [][Next]_vars

-----------------------------------------------------------------------------
(* Correctness.                                                            *)

\* Every variable has its type.
TypeOK ==
  /\ CopyTypeOK
  /\ step \in [Sessions -> Steps]
  /\ stale \in [Sessions -> SUBSET Places]
  /\ \A d \in Sessions :
       /\ \A b \in batches[d] : b.places \subseteq Places
       /\ rows[d] \in [DOMAIN rows[d] -> Row]
       /\ link[d] \in [DOMAIN rows[d] -> Links]
       /\ step[d] \in {"deleting", "auditing", "reporting", "done"} => outcome[d] \in [Sources(d) -> Outcomes]

\* Session d removes the object of row i.
Removes(d, i) ==
  /\ step[d] = "deleting" /\ outcome'[d] # outcome[d]
  /\ store[rows[d][i].source] # Absent /\ store'[rows[d][i].source] = Absent

\* A migrated source is removed only if its destination holds an object, or if
\* somebody else has emptied the destination since its link answered: a tenant,
\* or the session of an opposite migration.  Nothing else happens between the
\* copy, its report, the link check (or a later one, of the Excluded sheet) and
\* the deletion; above all, no session empties what it relies on itself
\* (routes/storage.py:758-783).
DeletesOnlyMigrated ==
  [][\A d \in Sessions : \A i \in DOMAIN rows[d] :
       Removes(d, i) => store'[rows[d][i].dest] # Absent \/ rows[d][i].dest \in stale[d]]_vars

\* What is written after a deletion: by a tenant, or by a copy.
WrittenByOthers ==
  rewritten \cup UNION {{Dest(request[j], i) : i \in Rows(request[j])} :
                        j \in {x \in Copies : phase[x] \notin {"idle", "invalid"}}}

\* What the deletion report lists as deleted is not there any more, unless it
\* was written again: a partial, missing or failed answer is not taken for a
\* good one, and no row gets the answer of another.
ReportedDeletedIsGone ==
  \A d \in Sessions : step[d] \in {"auditing", "reporting", "done"} =>
    \A i \in Sent(d) :
      Result(d, i) = "Deleted" /\ rows[d][i].source \notin WrittenByOthers
        => store[rows[d][i].source] = Absent

\* routes/storage.py:761-763: the objects "already live on the destination
\* provider, so the destination is the backup".
DestinationIsBackup ==
  [][\A d \in Sessions : \A i \in DOMAIN rows[d] :
       Removes(d, i) => store'[rows[d][i].dest] # Absent
                        /\ store'[rows[d][i].dest].content = store[rows[d][i].source].content]_vars
=============================================================================
