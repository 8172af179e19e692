---------------------------- MODULE BulkImporter ----------------------------
(***************************************************************************)
(* The thread of QueueManager that copies messages from the RabbitMQ queue *)
(* Inbound into man_mta_msg, by way of man_mta_msg_staging:                *)
(*                                                                         *)
(*   Dequeue(100); WriteToServer; MERGE + DELETE; Ack(max tag, multiple)   *)
(*                                                                         *)
(* An exception at any step is logged and the loop goes on with the next   *)
(* batch.  The failed batch stays unacknowledged, so it counts against the *)
(* prefetch window of the channel, and the cumulative acknowledgement of a *)
(* later batch covers it.                                                  *)
(*                                                                         *)
(* Inbound can hold a message twice: a staging thread that dies after its  *)
(* publish to Inbound publishes again when the message is redelivered.     *)
(***************************************************************************)
EXTENDS Naturals, Sequences, FiniteSets, Functions, SequencesExt

CONSTANTS
  Messages,
  BatchSize,  \* messages dequeued at most per batch (100)
  Prefetch,   \* unacknowledged deliveries at most on the channel (300)
  MaxCopies,  \* bound on the publishes to Inbound, all messages together
  MaxFaults   \* bound on SQL failures and restarts

ASSUME SizesAssumption ==
  /\ BatchSize \in Nat \ {0}
  /\ Prefetch \in Nat \ {0}
  /\ MaxCopies \in Nat
  /\ MaxFaults \in Nat

VARIABLES
  copies,     \* how often each message was published to Inbound
  inbound,    \* messages ready in Inbound or prefetched, in order
  unacked,    \* messages dequeued and not acknowledged, by delivery tag
  batch,      \* recordsToImportToSql: the last part of unacked
  pc,         \* the thread
  stopping,   \* _isStopping
  staged,     \* rows of man_mta_msg_staging per message (no script gives it a key)
  recorded,   \* man_mta_msg, whose index on mta_msg_id is unique
  copyFailed, \* history: messages of batches that were not copied
  wiped,      \* history: rows deleted from the staging table without being merged
  leftover,   \* history: messages redelivered while a row of theirs was staged
  failures,   \* failed batches since the last acknowledgement or restart
  faults

queueVars   == <<copies, inbound, unacked>>
sqlVars     == <<staged, recorded>>
historyVars == <<copyFailed, wiped, leftover>>
vars == <<queueVars, batch, pc, stopping, sqlVars, historyVars, failures, faults>>

Pc == {"idle", "copy", "merge", "ack", "stopped"}

TypeOK ==
  /\ copies \in [Messages -> Nat]
  /\ inbound \in Seq(Messages)
  /\ unacked \in Seq(Messages) /\ Len(unacked) <= Prefetch
  /\ batch \in Seq(Messages) /\ Len(batch) <= BatchSize
  /\ pc \in Pc
  /\ stopping \in BOOLEAN
  /\ staged \in [Messages -> Nat]
  /\ recorded \in SUBSET Messages
  /\ copyFailed \in SUBSET Messages
  /\ wiped \in SUBSET Messages
  /\ leftover \in SUBSET Messages
  /\ failures \in Nat
  /\ faults \in 0..MaxFaults

NoRows == [m \in Messages |-> 0]

Init ==
  /\ copies = NoRows
  /\ inbound = <<>>
  /\ unacked = <<>>
  /\ batch = <<>>
  /\ pc = "idle"
  /\ stopping = FALSE
  /\ staged = NoRows
  /\ recorded = {}
  /\ copyFailed = {}
  /\ wiped = {}
  /\ leftover = {}
  /\ failures = 0
  /\ faults = 0

-----------------------------------------------------------------------------

Fault == faults < MaxFaults /\ faults' = faults + 1

Occurrences(seq, m) == Cardinality({i \in DOMAIN seq : seq[i] = m})

\* Rows of the staging table once the batch is written to it.
StagedWithBatch == [m \in Messages |-> staged[m] + Occurrences(batch, m)]
InStaging == {m \in Messages : staged[m] > 0}

\* Variant: every row of the staging table is inserted, matched or not.
DuplicateKeyOnInsert ==
  \/ \E m \in Messages : staged[m] > 1
  \/ \E m \in recorded : staged[m] > 0

\* MERGE inserts one row per unmatched source row: two of one id break the unique index.
DuplicateKey == \E m \in Messages \ recorded : staged[m] > 1

\* Variant: the exception ends the thread.
BatchFailsForGood ==
  /\ pc' = "stopped"
  /\ batch' = <<>>
  /\ failures' = failures + 1

\* The exception is caught, the batch is let go of and not acknowledged.
BatchFails ==
  /\ pc' = "idle"
  /\ batch' = <<>>
  /\ failures' = failures + 1

-----------------------------------------------------------------------------

\* A staging thread publishes m to Inbound, again if its message was redelivered.
Publish(m) ==
  /\ SumFunction(copies) < MaxCopies
  /\ copies' = [copies EXCEPT ![m] = @ + 1]
  /\ inbound' = Append(inbound, m)
  /\ UNCHANGED <<unacked, batch, pc, stopping, sqlVars, historyVars, failures, faults>>

\* As many as are there within the timeout, 1 to BatchSize; none: the thread sleeps.
Dequeue ==
  /\ pc = "idle" /\ ~stopping
  /\ \E n \in 1..BatchSize :
       /\ n <= Len(inbound)
       /\ Len(unacked) + n <= Prefetch
       /\ batch' = SubSeq(inbound, 1, n)
       /\ inbound' = SubSeq(inbound, n + 1, Len(inbound))
       /\ unacked' = unacked \o SubSeq(inbound, 1, n)
  /\ pc' = "copy"
  /\ UNCHANGED <<copies, stopping, sqlVars, historyVars, failures, faults>>

\* SqlBulkCopy.WriteToServer.
BulkCopy ==
  /\ pc = "copy"
  /\ pc' = "merge"
  /\ staged' = StagedWithBatch
  /\ UNCHANGED <<queueVars, batch, stopping, recorded, historyVars, failures, faults>>

\* Open or WriteToServer throws: no row is written, or the answer is lost.
BulkCopyFails ==
  /\ pc = "copy"
  /\ Fault
  /\ BatchFails
  /\ \/ copyFailed' = copyFailed \cup ToSet(batch) /\ UNCHANGED staged
     \/ staged' = StagedWithBatch /\ UNCHANGED copyFailed
  /\ UNCHANGED <<queueVars, stopping, recorded, wiped, leftover>>

\* Variant: only the rows of this batch are merged, and the whole table is deleted.
MergedBatchOnly ==
  /\ recorded' = recorded \cup ToSet(batch)
  /\ staged' = NoRows

\* The whole staging table is merged, what an earlier batch left there included.
Merged ==
  /\ recorded' = recorded \cup InStaging
  /\ staged' = NoRows

MergeAndDelete ==
  /\ pc = "merge"
  /\ ~DuplicateKey
  /\ Merged
  /\ pc' = "ack"
  /\ UNCHANGED <<queueVars, batch, stopping, historyVars, failures, faults>>

\* The error ends the MERGE statement only: DELETE and COMMIT run, then the exception.
MergeDuplicateKey ==
  /\ pc = "merge"
  /\ DuplicateKey
  /\ staged' = NoRows
  /\ wiped' = wiped \cup (InStaging \ recorded)
  /\ BatchFails
  /\ UNCHANGED <<queueVars, stopping, recorded, copyFailed, leftover, faults>>

\* The connection breaks: the transaction is rolled back, or its answer is lost.
MergeFails ==
  /\ pc = "merge"
  /\ Fault
  /\ (~DuplicateKey /\ Merged) \/ UNCHANGED sqlVars
  /\ BatchFails
  /\ UNCHANGED <<queueVars, stopping, historyVars>>

\* Variant: multiple is false, so only the last delivery is acknowledged.
AckLastOnly ==
  /\ pc = "ack"
  /\ unacked' = Front(unacked)
  /\ batch' = <<>>
  /\ pc' = "idle"
  /\ failures' = 0
  /\ UNCHANGED <<copies, inbound, stopping, sqlVars, historyVars, faults>>

\* Everything up to the highest tag of the batch, which is the last one dequeued.
Ack ==
  /\ pc = "ack"
  /\ unacked' = <<>>
  /\ batch' = <<>>
  /\ pc' = "idle"
  /\ failures' = 0
  /\ UNCHANGED <<copies, inbound, stopping, sqlVars, historyVars, faults>>

Stop ==
  /\ ~stopping
  /\ stopping' = TRUE
  /\ UNCHANGED <<queueVars, batch, pc, sqlVars, historyVars, failures, faults>>

\* The loop ends and _hasStopped is set.
LoopEnds ==
  /\ pc = "idle" /\ stopping
  /\ pc' = "stopped"
  /\ UNCHANGED <<queueVars, batch, stopping, sqlVars, historyVars, failures, faults>>

\* The process ends and starts again: unacknowledged deliveries go back to their place.
Restart ==
  /\ Fault
  /\ inbound' = unacked \o inbound
  /\ unacked' = <<>>
  /\ batch' = <<>>
  /\ pc' = "idle"
  /\ stopping' = FALSE
  /\ failures' = 0
  /\ leftover' = leftover \cup (ToSet(unacked) \cap InStaging)
  /\ UNCHANGED <<copies, sqlVars, copyFailed, wiped>>

-----------------------------------------------------------------------------

ImportStep ==
  \/ Dequeue
  \/ BulkCopy \/ BulkCopyFails
  \/ MergeAndDelete \/ MergeDuplicateKey \/ MergeFails
  \/ Ack
  \/ LoopEnds

Next ==
  \/ \E m \in Messages : Publish(m)
  \/ ImportStep
  \/ Stop
  \/ Restart

Spec == Init /\ [][Next]_vars

\* The importing thread runs whenever it has something to do.
FairSpec == Spec /\ WF_vars(ImportStep)

-----------------------------------------------------------------------------
(* Properties                                                              *)

Pending(m) == m \in ToSet(inbound) \cup ToSet(unacked) \cup InStaging

\* A message published to Inbound gets its row, or is still queued, unacknowledged or in the
\* staging table, unless its batch could not be copied or its staging row was wiped: a
\* MERGE that fails halfway, a lost answer or a crash at any step loses no record.
NoRecordLost ==
  \A m \in Messages :
    copies[m] > 0 => m \in recorded \/ Pending(m) \/ m \in copyFailed \cup wiped

\* Rows are wiped only if some message was published twice or came back while a row of it
\* was still staged: a batch that was merged and not acknowledged can be redelivered, alone
\* or mixed with new messages, and does no harm.
WipedOnlyByRepeats == wiped # {} => leftover # {} \/ \E m \in Messages : copies[m] > 1

\* One acknowledged batch gives back the whole window: unacknowledged deliveries never
\* exceed what the batches that failed since then, and the one at work, took.
WindowReopens ==
  Len(unacked) <= BatchSize * (failures + (IF batch = <<>> THEN 0 ELSE 1))

\* Every message published is recorded in the end, waits in the staging table for the next
\* batch, or belongs to a batch that failed, unless Manta is stopped or failed batches have
\* used up the window: no failure of one batch keeps the thread from the next.
EventuallyImported ==
  \A m \in Messages :
    copies[m] > 0 ~> \/ m \in recorded \cup copyFailed \cup wiped \cup InStaging
                     \/ stopping
                     \/ Len(unacked) = Prefetch
=============================================================================
