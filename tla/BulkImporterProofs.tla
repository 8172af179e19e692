------------------------- MODULE BulkImporterProofs -------------------------
(***************************************************************************)
(* Proofs about BulkImporter, for any messages, any sizes of a batch and   *)
(* of the window, and any number of copies and of faults.                  *)
(***************************************************************************)
EXTENDS BulkImporter, SequenceTheorems, FiniteSetTheorems, TLAPS

USE SizesAssumption DEF SizesAssumption, queueVars, sqlVars, historyVars

\* The batch is what was dequeued last, and the thread has one exactly while it is at work.
FirstOfBatch == Len(unacked) - Len(batch) + 1
BatchIsLast ==
  /\ Len(batch) <= Len(unacked)
  /\ \A i \in 1..Len(batch) : batch[i] = unacked[Len(unacked) - Len(batch) + i]
  /\ batch = <<>> <=> pc \in {"idle", "stopped"}

\* A delivery that is not acknowledged has been dealt with, for good or ill, unless it is of the
\* batch that is to be copied.
DealtWith(m) == m \in recorded \cup InStaging \cup copyFailed \cup wiped
Covered ==
  \A i \in 1..Len(unacked) : DealtWith(unacked[i]) \/ (pc = "copy" /\ i >= FirstOfBatch)

\* The parts of TypeOK.
Lines == inbound \in Seq(Messages) /\ unacked \in Seq(Messages) /\ batch \in Seq(Messages)
Sizes == Len(unacked) <= Prefetch /\ Len(batch) <= BatchSize
Rows == copies \in [Messages -> Nat] /\ staged \in [Messages -> Nat]
Thread == pc \in Pc /\ stopping \in BOOLEAN
Counters == failures \in Nat /\ faults \in 0..MaxFaults
Sets ==
  /\ recorded \in SUBSET Messages /\ copyFailed \in SUBSET Messages
  /\ wiped \in SUBSET Messages /\ leftover \in SUBSET Messages

Inv == TypeOK /\ BatchIsLast /\ Covered /\ NoRecordLost

\* A message published once is in one place of the line at most: unacknowledged or in Inbound.
AtMostOne(seq, m) == \A i, j \in 1..Len(seq) : seq[i] = m /\ seq[j] = m => i = j
NotIn(seq, m) == \A i \in 1..Len(seq) : seq[i] # m
InLineOnce ==
  \A m \in Messages :
    /\ copies[m] = 0 => NotIn(unacked, m) /\ NotIn(inbound, m)
    /\ copies[m] <= 1 =>
         /\ AtMostOne(unacked, m) /\ AtMostOne(inbound, m)
         /\ NotIn(unacked, m) \/ NotIn(inbound, m)

\* As long as no row was left over, a row that is staged is of a delivery not acknowledged, and
\* not of the batch that is to be copied; one row for a message published once.
StagedBefore(i) == pc = "copy" => i < FirstOfBatch
StagedOnce ==
  /\ pc = "ack" => InStaging = {}
  /\ leftover = {} =>
       \A m \in InStaging :
         /\ \E i \in 1..Len(unacked) : unacked[i] = m /\ StagedBefore(i)
         /\ copies[m] <= 1 => staged[m] = 1

RepeatsInv == Inv /\ InLineOnce /\ StagedOnce /\ WipedOnlyByRepeats

-----------------------------------------------------------------------------
(* Sequences                                                               *)

\* What is taken from the front of a queue, and what stays.
LEMMA Split ==
  ASSUME NEW S, NEW seq \in Seq(S), NEW n \in 1..Len(seq)
  PROVE  /\ SubSeq(seq, 1, n) \in Seq(S) /\ Len(SubSeq(seq, 1, n)) = n
         /\ \A i \in 1..n : SubSeq(seq, 1, n)[i] = seq[i]
         /\ SubSeq(seq, n + 1, Len(seq)) \in Seq(S)
         /\ Len(SubSeq(seq, n + 1, Len(seq))) = Len(seq) - n
         /\ \A i \in 1..(Len(seq) - n) : SubSeq(seq, n + 1, Len(seq))[i] = seq[n + i]
<1>1. Len(seq) \in Nat /\ \A i \in 1..Len(seq) : seq[i] \in S
  BY LenProperties, ElementOfSeq
<1>2. /\ SubSeq(seq, 1, n) \in Seq(S) /\ Len(SubSeq(seq, 1, n)) = n
      /\ \A i \in 1..n : SubSeq(seq, 1, n)[i] = seq[i]
  <2>1. \A i \in 1..n : seq[i] \in S
    BY <1>1
  <2>2. 1 \in Int /\ n \in Int
    BY <1>1
  <2>3. /\ SubSeq(seq, 1, n) \in Seq(S)
        /\ Len(SubSeq(seq, 1, n)) = IF 1 <= n THEN n - 1 + 1 ELSE 0
        /\ \A i \in 1..(n - 1 + 1) : SubSeq(seq, 1, n)[i] = seq[1 + i - 1]
    BY <2>1, <2>2, SubSeqProperties
  <2>4. QED BY <1>1, <2>3
<1>3. /\ SubSeq(seq, n + 1, Len(seq)) \in Seq(S)
      /\ Len(SubSeq(seq, n + 1, Len(seq))) = Len(seq) - n
      /\ \A i \in 1..(Len(seq) - n) : SubSeq(seq, n + 1, Len(seq))[i] = seq[n + i]
  <2> DEFINE a == n + 1
             b == Len(seq)
  <2>1. a \in Int /\ b \in Int /\ \A i \in a..b : seq[i] \in S
    BY <1>1
  <2>2. b = Len(seq) /\ a = n + 1
    OBVIOUS
  <2> HIDE DEF a, b
  <2>3. /\ SubSeq(seq, a, b) \in Seq(S)
        /\ Len(SubSeq(seq, a, b)) = IF a <= b THEN b - a + 1 ELSE 0
        /\ \A i \in 1..(b - a + 1) : SubSeq(seq, a, b)[i] = seq[a + i - 1]
    BY <2>1, SubSeqProperties
  <2>4. \A i \in 1..(b - a + 1) : seq[a + i - 1] = seq[n + i]
    BY <1>1, <2>2
  <2>5. QED BY <1>1, <2>2, <2>3, <2>4
<1>4. QED BY <1>2, <1>3

\* The elements of a sequence.
LEMMA InToSet ==
  ASSUME NEW S, NEW seq \in Seq(S)
  PROVE  ToSet(seq) = {seq[i] : i \in 1..Len(seq)} /\ ToSet(seq) \subseteq S
  BY LenProperties, ElementOfSeq DEF ToSet

\* How often a message is in a batch.
LEMMA OccurrencesProperties ==
  ASSUME NEW S, NEW seq \in Seq(S), NEW m
  PROVE  /\ Occurrences(seq, m) \in Nat
         /\ NotIn(seq, m) <=> Occurrences(seq, m) = 0
         /\ AtMostOne(seq, m) => Occurrences(seq, m) <= 1
<1> DEFINE At == {i \in DOMAIN seq : seq[i] = m}
<1>1. DOMAIN seq = 1..Len(seq) /\ Len(seq) \in Nat
  BY LenProperties
<1>2. IsFiniteSet(At)
  <2>1. IsFiniteSet(1..Len(seq))
    BY <1>1, FS_Interval
  <2>2. At \in SUBSET (1..Len(seq))
    BY <1>1
  <2> HIDE DEF At
  <2>3. QED BY <2>1, <2>2, FS_Subset
<1>3. Cardinality(At) \in Nat
  BY <1>2, FS_CardinalityType
<1>4. Cardinality(At) = 0 <=> At = {}
  BY <1>2, FS_EmptySet
<1>5. NotIn(seq, m) <=> At = {}
  BY <1>1 DEF NotIn
<1>6. ASSUME AtMostOne(seq, m) PROVE Cardinality(At) <= 1
  <2>1. CASE At = {}
    BY <1>4, <2>1
  <2>2. CASE At # {}
    <3>1. PICK i \in At : TRUE
      BY <2>2
    <3>2. At = {i}
      BY <1>1, <1>6, <3>1 DEF AtMostOne
    <3>3. Cardinality({i}) = 1
      BY FS_Singleton
    <3> HIDE DEF At
    <3>4. Cardinality(At) = 1
      BY <3>2, <3>3
    <3>5. QED BY <3>4
  <2>3. QED BY <2>1, <2>2
<1>7. QED BY <1>3, <1>4, <1>5, <1>6 DEF Occurrences

-----------------------------------------------------------------------------
(* No record is lost: each action                                          *)

USE DEF Inv, Fault

\* The type invariant in parts.
LEMMA TypeParts ==
  /\ TypeOK <=> Lines /\ Sizes /\ Rows /\ Thread /\ Counters /\ Sets
  /\ TypeOK' <=> Lines' /\ Sizes' /\ Rows' /\ Thread' /\ Counters' /\ Sets'
  BY DEF TypeOK, Lines, Sizes, Rows, Thread, Counters, Sets

\* A batch that is let go of.
LEMMA NoBatch == <<>> \in Seq(Messages) /\ Len(<<>>) = 0 /\ 0 <= BatchSize
  OBVIOUS

\* Every queue and table is empty at first.
LEMMA InitInv == Init => Inv
<1> SUFFICES ASSUME Init PROVE Inv
  OBVIOUS
<1>1. TypeOK
  <2>1. Lines /\ Sizes
    BY DEF Init, Lines, Sizes
  <2>2. Rows
    BY DEF Init, Rows, NoRows
  <2>3. Thread /\ Sets
    BY DEF Init, Thread, Sets, Pc
  <2>4. Counters
    BY DEF Init, Counters
  <2>5. QED BY <2>1, <2>2, <2>3, <2>4, TypeParts
<1>2. BatchIsLast /\ Covered /\ NoRecordLost
  BY DEF Init, BatchIsLast, Covered, NoRecordLost, NoRows
<1>3. QED BY <1>1, <1>2

\* Publish keeps the invariant.
LEMMA PublishInv ==
  ASSUME Inv, NEW m \in Messages, Publish(m)
  PROVE  Inv'
<1>1. inbound \in Seq(Messages) /\ inbound' = Append(inbound, m)
  BY DEF Publish, TypeOK
<1>2. ToSet(inbound') = ToSet(inbound) \cup {m}
  BY <1>1 DEF ToSet
<1>3. TypeOK'
  BY DEF Publish, TypeOK
<1>4. BatchIsLast' /\ Covered'
  BY DEF Publish, BatchIsLast, Covered, FirstOfBatch, DealtWith, InStaging
<1>5. NoRecordLost'
  BY <1>2 DEF Publish, TypeOK, NoRecordLost, Pending, InStaging
<1>6. QED BY <1>3, <1>4, <1>5

\* Dequeue keeps the invariant.
LEMMA DequeueInv ==
  ASSUME Inv, Dequeue
  PROVE  Inv'
<1>1. PICK n \in 1..BatchSize :
        /\ n <= Len(inbound)
        /\ Len(unacked) + n <= Prefetch
        /\ batch' = SubSeq(inbound, 1, n)
        /\ inbound' = SubSeq(inbound, n + 1, Len(inbound))
        /\ unacked' = unacked \o SubSeq(inbound, 1, n)
  BY DEF Dequeue
<1>2. inbound \in Seq(Messages) /\ unacked \in Seq(Messages) /\ Len(inbound) \in Nat /\ Len(unacked) \in Nat
  BY DEF TypeOK
<1>3. n \in 1..Len(inbound)
  BY <1>1, <1>2
<1>4. /\ batch' \in Seq(Messages) /\ Len(batch') = n
      /\ \A i \in 1..n : batch'[i] = inbound[i]
      /\ inbound' \in Seq(Messages) /\ Len(inbound') = Len(inbound) - n
      /\ \A i \in 1..(Len(inbound) - n) : inbound'[i] = inbound[n + i]
  BY <1>1, <1>2, <1>3, Split
<1>5. /\ unacked' \in Seq(Messages) /\ Len(unacked') = Len(unacked) + n
      /\ \A i \in 1..(Len(unacked) + n) :
           unacked'[i] = IF i <= Len(unacked) THEN unacked[i] ELSE batch'[i - Len(unacked)]
  BY <1>1, <1>2, <1>4, ConcatProperties
<1>6. UNCHANGED <<copies, stopping, staged, recorded, copyFailed, wiped, leftover, failures, faults>>
      /\ pc = "idle" /\ pc' = "copy"
  BY DEF Dequeue
<1>7. TypeOK'
  <2>1. Lines'
    BY <1>4, <1>5 DEF Lines
  <2>2. Sizes'
    BY <1>1, <1>4, <1>5 DEF Sizes
  <2>3. Rows' /\ Sets'
    BY <1>6, TypeParts DEF Rows, Sets
  <2>4. Thread'
    BY <1>6, TypeParts DEF Thread, Pc
  <2>5. Counters'
    BY <1>6, TypeParts DEF Counters
  <2>6. QED BY <2>1, <2>2, <2>3, <2>4, <2>5, TypeParts
<1>8. BatchIsLast'
  <2>1. batch' # <<>>
    BY <1>3, <1>4
  <2>2. QED BY <1>2, <1>3, <1>4, <1>5, <1>6, <2>1 DEF BatchIsLast
<1>9. Covered'
  <2>1. SUFFICES ASSUME NEW i \in 1..Len(unacked'), i <= Len(unacked)
                 PROVE  DealtWith(unacked[i])'
    BY <1>2, <1>3, <1>4, <1>5, <1>6 DEF Covered, FirstOfBatch
  <2>2. unacked'[i] = unacked[i] /\ i \in 1..Len(unacked)
    BY <1>2, <1>3, <1>5, <2>1
  <2>3. DealtWith(unacked[i])
    BY <1>6, <2>2 DEF Covered
  <2>4. QED BY <1>6, <2>2, <2>3 DEF DealtWith, InStaging
<1>10. NoRecordLost'
  <2>1. ToSet(inbound) \cup ToSet(unacked) \subseteq ToSet(inbound') \cup ToSet(unacked')
    <3>1. ASSUME NEW i \in 1..Len(unacked) PROVE unacked[i] \in ToSet(unacked')
      <4>1. i \in 1..Len(unacked') /\ unacked'[i] = unacked[i]
        BY <1>2, <1>3, <1>5
      <4>2. QED BY <1>5, <4>1, InToSet
    <3>2. ASSUME NEW i \in 1..Len(inbound) PROVE inbound[i] \in ToSet(inbound') \cup ToSet(unacked')
      <4>1. CASE i <= n
        <5>1. PICK k \in 1..(Len(unacked) + n) : k = Len(unacked) + i
          BY <1>2, <1>3, <4>1
        <5>2. k > Len(unacked) /\ k - Len(unacked) = i /\ i \in 1..n
          BY <1>2, <4>1, <5>1
        <5>3. unacked'[k] = inbound[i]
          <6>1. unacked'[k] = batch'[k - Len(unacked)]
            BY <1>2, <1>5, <5>2
          <6>2. QED BY <1>4, <5>2, <6>1
        <5>4. k \in 1..Len(unacked')
          BY <1>5, <5>1
        <5>5. ToSet(unacked') = {unacked'[j] : j \in 1..Len(unacked')}
          BY <1>5, InToSet
        <5>6. QED BY <5>3, <5>4, <5>5
      <4>2. CASE i > n
        <5>1. PICK k \in 1..(Len(inbound) - n) : n + k = i
          <6>1. i - n \in 1..(Len(inbound) - n) /\ n + (i - n) = i
            BY <1>2, <1>3, <4>2
          <6>2. QED BY <6>1
        <5>2. inbound'[k] = inbound[i]
          BY <1>4, <5>1
        <5>3. k \in 1..Len(inbound')
          BY <1>4, <5>1
        <5>4. ToSet(inbound') = {inbound'[j] : j \in 1..Len(inbound')}
          BY <1>4, InToSet
        <5>5. QED BY <5>2, <5>3, <5>4
      <4>3. QED BY <1>2, <1>3, <4>1, <4>2
    <3>3. QED BY <1>2, <3>1, <3>2, InToSet
  <2>2. QED BY <1>6, <2>1 DEF NoRecordLost, Pending, InStaging
<1>11. QED BY <1>7, <1>8, <1>9, <1>10

\* Writing the batch to the staging table gives each of its messages a row.
LEMMA Staging ==
  ASSUME Inv
  PROVE  /\ StagedWithBatch \in [Messages -> Nat]
         /\ \A m \in Messages : staged[m] > 0 => StagedWithBatch[m] > 0
         /\ \A i \in 1..Len(batch) : batch[i] \in Messages /\ StagedWithBatch[batch[i]] > 0
<1>1. batch \in Seq(Messages) /\ staged \in [Messages -> Nat]
  BY DEF TypeOK
<1>2. \A m \in Messages : Occurrences(batch, m) \in Nat /\ (NotIn(batch, m) <=> Occurrences(batch, m) = 0)
  BY <1>1, OccurrencesProperties
<1>3. \A i \in 1..Len(batch) : batch[i] \in Messages /\ ~NotIn(batch, batch[i])
  BY <1>1 DEF NotIn
<1>4. QED BY <1>1, <1>2, <1>3 DEF StagedWithBatch

\* A batch whose rows are staged, or that is given up as not copied, is dealt with.
LEMMA BatchDealtWith ==
  ASSUME Inv, pc = "copy", UNCHANGED <<unacked, recorded, wiped>>,
         \/ staged' = StagedWithBatch /\ copyFailed' = copyFailed
         \/ staged' = staged /\ copyFailed' = copyFailed \cup ToSet(batch)
  PROVE  /\ \A i \in 1..Len(unacked) : DealtWith(unacked[i])'
         /\ \A m \in Messages : DealtWith(m) => DealtWith(m)'
<1>1. \A m \in Messages : DealtWith(m) => DealtWith(m)'
  BY Staging DEF DealtWith, InStaging, TypeOK
<1>2. ASSUME NEW i \in 1..Len(unacked) PROVE DealtWith(unacked[i])'
  <2>1. unacked[i] \in Messages
    BY DEF TypeOK
  <2>2. CASE DealtWith(unacked[i])
    BY <1>1, <2>1, <2>2
  <2>3. CASE i >= FirstOfBatch
    <3>0. batch \in Seq(Messages) /\ Len(batch) \in Nat /\ Len(unacked) \in Nat
      BY TypeParts DEF Lines
    <3>1. PICK j \in 1..Len(batch) : Len(unacked) - Len(batch) + j = i
      <4>1. i - (Len(unacked) - Len(batch)) \in 1..Len(batch)
        BY <2>3, <3>0 DEF FirstOfBatch, BatchIsLast
      <4>2. Len(unacked) - Len(batch) + (i - (Len(unacked) - Len(batch))) = i
        BY <3>0
      <4>3. QED BY <4>1, <4>2
    <3>2. batch[j] = unacked[i]
      BY <3>1 DEF BatchIsLast
    <3>3. unacked[i] \in ToSet(batch) /\ StagedWithBatch[unacked[i]] > 0
      BY <3>0, <3>2, Staging, InToSet
    <3>4. QED BY <2>1, <3>3 DEF DealtWith, InStaging
  <2>4. QED BY <2>2, <2>3 DEF Covered
<1>3. QED BY <1>1, <1>2

\* What is dealt with stays so, and the rest of the queue does not move.
LEMMA KeptIfDealtWith ==
  ASSUME Inv, UNCHANGED <<copies, inbound>>,
         \A m \in Messages : DealtWith(m) => DealtWith(m)',
         \A m \in ToSet(unacked) : DealtWith(m)' \/ m \in ToSet(unacked)'
  PROVE  NoRecordLost'
  BY DEF NoRecordLost, Pending, DealtWith

\* A step that moves no message in the queue, and keeps the batch until the thread is idle.
LEMMA BatchOrNone ==
  ASSUME Inv, UNCHANGED <<inbound, unacked>>,
         \/ batch' = batch /\ pc \in {"copy", "merge"} /\ pc' \in {"merge", "ack"}
         \/ batch' = <<>> /\ pc' = "idle"
  PROVE  Lines' /\ Sizes' /\ BatchIsLast'
<1>1. CASE batch' = batch /\ pc \in {"copy", "merge"} /\ pc' \in {"merge", "ack"}
  <2>1. Lines' /\ Sizes'
    BY <1>1, TypeParts DEF Lines, Sizes
  <2>2. BatchIsLast'
    BY <1>1 DEF BatchIsLast
  <2>3. QED BY <2>1, <2>2
<1>2. CASE batch' = <<>> /\ pc' = "idle"
  <2>1. Lines' /\ Sizes'
    BY <1>2, NoBatch, TypeParts DEF Lines, Sizes
  <2>2. Len(unacked) \in Nat
    BY TypeParts DEF Lines
  <2>3. BatchIsLast'
    BY <1>2, <2>2, NoBatch DEF BatchIsLast
  <2>4. QED BY <2>1, <2>3
<1>3. QED BY <1>1, <1>2

\* Copy keeps the invariant.
LEMMA CopyInv ==
  ASSUME Inv, BulkCopy \/ BulkCopyFails
  PROVE  Inv'
<1>1. /\ pc = "copy" /\ UNCHANGED <<copies, inbound, unacked, stopping, recorded, wiped, leftover>>
      /\ \/ staged' = StagedWithBatch /\ copyFailed' = copyFailed
         \/ staged' = staged /\ copyFailed' = copyFailed \cup ToSet(batch)
      /\ \/ pc' = "merge" /\ UNCHANGED <<batch, failures, faults>>
         \/ pc' = "idle" /\ batch' = <<>> /\ failures' = failures + 1 /\ faults < MaxFaults /\ faults' = faults + 1
  BY DEF BulkCopy, BulkCopyFails, BatchFails
<1>2. /\ \A i \in 1..Len(unacked) : DealtWith(unacked[i])'
      /\ \A m \in Messages : DealtWith(m) => DealtWith(m)'
  BY <1>1, BatchDealtWith
<1>3. TypeOK'
  <2>1. ToSet(batch) \subseteq Messages
    BY TypeParts, InToSet DEF Lines
  <2>2. Rows'
    BY <1>1, Staging, TypeParts DEF Rows
  <2>3. Sets'
    BY <1>1, <2>1, TypeParts DEF Sets
  <2>4. Lines' /\ Sizes'
    BY <1>1, BatchOrNone
  <2>5. Thread'
    BY <1>1, TypeParts DEF Thread, Pc
  <2>6. Counters'
    BY <1>1, TypeParts DEF Counters
  <2>7. QED BY <2>2, <2>3, <2>4, <2>5, <2>6, TypeParts
<1>4. BatchIsLast'
  BY <1>1, BatchOrNone
<1>5. Covered'
  BY <1>1, <1>2 DEF Covered
<1>6. NoRecordLost'
  BY <1>1, <1>2, KeptIfDealtWith DEF TypeOK, ToSet
<1>7. QED BY <1>3, <1>4, <1>5, <1>6

\* The staging table is merged, wiped or left: what was dealt with is dealt with.
LEMMA MergeInv ==
  ASSUME Inv, MergeAndDelete \/ MergeDuplicateKey \/ MergeFails
  PROVE  Inv'
<1>1. /\ pc = "merge" /\ UNCHANGED <<copies, inbound, unacked, stopping, copyFailed, leftover>>
      /\ \/ staged' = NoRows /\ recorded' = recorded \cup InStaging /\ wiped' = wiped
         \/ staged' = NoRows /\ recorded' = recorded /\ wiped' = wiped \cup (InStaging \ recorded)
         \/ UNCHANGED <<staged, recorded, wiped>>
      /\ \/ pc' = "ack" /\ UNCHANGED <<batch, failures, faults>>
         \/ /\ pc' = "idle" /\ batch' = <<>> /\ failures' = failures + 1
            /\ UNCHANGED faults \/ (faults < MaxFaults /\ faults' = faults + 1)
  BY DEF MergeAndDelete, MergeDuplicateKey, MergeFails, Merged, BatchFails
<1>2. \A m \in Messages : DealtWith(m) => DealtWith(m)'
  BY <1>1 DEF DealtWith, InStaging
<1>3. \A i \in 1..Len(unacked) : DealtWith(unacked[i])'
  <2>1. \A i \in 1..Len(unacked) : unacked[i] \in Messages /\ DealtWith(unacked[i])
    BY <1>1, TypeParts DEF Covered, Lines
  <2>2. QED BY <1>1, <1>2, <2>1 DEF DealtWith, InStaging
<1>4. TypeOK'
  <2>1. Lines' /\ Sizes'
    BY <1>1, BatchOrNone
  <2>2. Rows'
    BY <1>1, TypeParts DEF Rows, NoRows
  <2>3. Sets'
    BY <1>1, TypeParts DEF Sets, InStaging
  <2>4. Thread'
    BY <1>1, TypeParts DEF Thread, Pc
  <2>5. Counters'
    BY <1>1, TypeParts DEF Counters
  <2>6. QED BY <2>1, <2>2, <2>3, <2>4, <2>5, TypeParts
<1>5. BatchIsLast'
  BY <1>1, BatchOrNone
<1>6. Covered'
  BY <1>1, <1>3 DEF Covered
<1>7. NoRecordLost'
  BY <1>1, <1>2, KeptIfDealtWith DEF TypeOK, ToSet
<1>8. QED BY <1>4, <1>5, <1>6, <1>7

\* All that is acknowledged was dealt with.
LEMMA AckInv ==
  ASSUME Inv, Ack
  PROVE  Inv'
<1>1. TypeOK' /\ BatchIsLast' /\ Covered'
  <2>1. Lines' /\ Sizes'
    BY TypeParts DEF Ack, Lines, Sizes
  <2>2. Rows' /\ Sets'
    BY TypeParts DEF Ack, Rows, Sets
  <2>3. Thread'
    BY TypeParts DEF Ack, Thread, Pc
  <2>4. Counters'
    BY TypeParts DEF Ack, Counters
  <2>5. BatchIsLast' /\ Covered'
    BY DEF Ack, BatchIsLast, Covered
  <2>6. QED BY <2>1, <2>2, <2>3, <2>4, <2>5, TypeParts
<1>2. \A m \in ToSet(unacked) : DealtWith(m)
  BY InToSet, TypeParts DEF Ack, Covered, Lines
<1>3. \A m \in Messages : DealtWith(m) => DealtWith(m)'
  BY DEF Ack, DealtWith, InStaging
<1>4. NoRecordLost'
  <2>1. ToSet(unacked) \subseteq Messages
    BY DEF ToSet, TypeOK
  <2>2. QED BY <1>2, <1>3, <2>1, KeptIfDealtWith DEF Ack
<1>5. QED BY <1>1, <1>4

\* Stop keeps the invariant.
LEMMA StopInv ==
  ASSUME Inv, Stop \/ LoopEnds \/ UNCHANGED vars
  PROVE  Inv'
<1>1. TypeOK'
  BY DEF Stop, LoopEnds, vars, TypeOK, Pc
<1>2. BatchIsLast' /\ Covered'
  BY DEF Stop, LoopEnds, vars, BatchIsLast, Covered, FirstOfBatch, DealtWith, InStaging
<1>3. NoRecordLost'
  BY DEF Stop, LoopEnds, vars, NoRecordLost, Pending, InStaging
<1>4. QED BY <1>1, <1>2, <1>3

\* What was not acknowledged is in the queue again.
LEMMA RestartInv ==
  ASSUME Inv, Restart
  PROVE  Inv'
<1>1. inbound \in Seq(Messages) /\ unacked \in Seq(Messages) /\ inbound' = unacked \o inbound
  BY DEF Restart, TypeOK
<1>2. /\ inbound' \in Seq(Messages) /\ Len(inbound') = Len(unacked) + Len(inbound)
      /\ \A i \in 1..(Len(unacked) + Len(inbound)) :
           inbound'[i] = IF i <= Len(unacked) THEN unacked[i] ELSE inbound[i - Len(unacked)]
  BY <1>1, ConcatProperties
<1>3. TypeOK'
  <2>1. ToSet(unacked) \subseteq Messages
    BY <1>1, InToSet
  <2>2. Lines' /\ Sizes'
    BY <1>2 DEF Restart, Lines, Sizes
  <2>3. Rows' /\ Sets'
    BY <2>1, TypeParts DEF Restart, Rows, Sets
  <2>4. Thread'
    BY TypeParts DEF Restart, Thread, Pc
  <2>5. Counters'
    BY TypeParts DEF Restart, Counters
  <2>6. QED BY <2>2, <2>3, <2>4, <2>5, TypeParts
<1>4. BatchIsLast' /\ Covered'
  BY DEF Restart, BatchIsLast, Covered
<1>5. NoRecordLost'
  <2>1. ASSUME NEW i \in 1..Len(unacked) PROVE unacked[i] \in ToSet(inbound')
    <3>1. i \in 1..Len(inbound') /\ inbound'[i] = unacked[i]
      BY <1>1, <1>2
    <3>2. QED BY <1>2, <3>1, InToSet
  <2>2. ASSUME NEW i \in 1..Len(inbound) PROVE inbound[i] \in ToSet(inbound')
    <3>1. Len(unacked) + i \in 1..Len(inbound') /\ inbound'[Len(unacked) + i] = inbound[i]
      BY <1>1, <1>2
    <3>2. QED BY <1>2, <3>1, InToSet
  <2>3. ToSet(inbound) \cup ToSet(unacked) \subseteq ToSet(inbound')
    <3>1. /\ ToSet(inbound) = {inbound[i] : i \in 1..Len(inbound)}
          /\ ToSet(unacked) = {unacked[i] : i \in 1..Len(unacked)}
      BY <1>1, InToSet
    <3>2. QED BY <2>1, <2>2, <3>1
  <2>4. QED BY <2>3 DEF Restart, NoRecordLost, Pending, InStaging
<1>6. QED BY <1>3, <1>4, <1>5

\* Every step keeps the invariant.
LEMMA NextInv == Inv /\ [Next]_vars => Inv'
  BY PublishInv, DequeueInv, CopyInv, MergeInv, AckInv, StopInv, RestartInv DEF Next, ImportStep

\* The invariant holds in every state.
THEOREM Inductive == Spec => []Inv
  BY InitInv, NextInv, PTL DEF Spec

\* For any sizes of batch and window the variables keep their types; in particular the window
\* is never exceeded and the staging table never has a negative number of rows.
THEOREM TypeCorrect == Spec => []TypeOK
  BY Inductive, PTL

\* A record is not lost, for any number of messages, copies and faults and any sizes, but for
\* those of a batch that could not be copied, or whose staging row was wiped: the cumulative
\* acknowledgement covers only deliveries that were dealt with.
THEOREM RecordsAreKept == Spec => []NoRecordLost
  BY Inductive, PTL

-----------------------------------------------------------------------------
(* The window                                                              *)

\* One batch more.
LEMMA OneBatchMore ==
  ASSUME NEW f \in Nat
  PROVE  BatchSize * (f + 1) = BatchSize * f + BatchSize /\ BatchSize * f >= 0
  OBVIOUS

\* The window stays accounted for.
LEMMA WindowNext == Inv /\ WindowReopens /\ [Next]_vars => WindowReopens'
<1> SUFFICES ASSUME Inv, WindowReopens, [Next]_vars PROVE WindowReopens'
  OBVIOUS
<1> DEFINE Room(f) == BatchSize * f
<1>1. /\ failures \in Nat /\ Len(unacked) \in Nat
      /\ Room(failures + 1) = Room(failures) + BatchSize
      /\ Room(failures + 0) = Room(failures) /\ Room(0 + 0) = 0 /\ Room(failures) \in Nat
  BY OneBatchMore, TypeParts DEF Counters, Lines
<1>2. /\ batch = <<>> => Len(unacked) <= Room(failures + 0)
      /\ batch # <<>> => Len(unacked) <= Room(failures + 1)
  BY DEF WindowReopens
<1>3. SUFFICES /\ batch' = <<>> => Len(unacked') <= Room(failures' + 0)
               /\ batch' # <<>> => Len(unacked') <= Room(failures' + 1)
  BY DEF WindowReopens
<1> HIDE DEF Room
<1>4. CASE Dequeue
  <2>1. PICK n \in 1..BatchSize :
          /\ n <= Len(inbound) /\ batch' = SubSeq(inbound, 1, n)
          /\ unacked' = unacked \o SubSeq(inbound, 1, n)
    BY <1>4 DEF Dequeue
  <2>2. inbound \in Seq(Messages) /\ unacked \in Seq(Messages) /\ n \in 1..Len(inbound)
    BY <2>1, TypeParts DEF Lines
  <2>3. batch' \in Seq(Messages) /\ Len(batch') = n /\ batch' # <<>>
    <3>1. batch' \in Seq(Messages) /\ Len(batch') = n
      BY <2>1, <2>2, Split
    <3>2. n # 0
      BY <2>2
    <3>3. QED BY <3>1, <3>2, NoBatch
  <2>4. Len(unacked') = Len(unacked) + n
    BY <2>1, <2>2, <2>3, ConcatProperties
  <2>5. batch = <<>> /\ failures' = failures
    BY <1>4 DEF Dequeue, BatchIsLast
  <2>6. Len(unacked) <= Room(failures)
    BY <1>1, <1>2, <2>5
  <2>7. Len(unacked') <= Room(failures) + BatchSize
    BY <1>1, <2>1, <2>4, <2>6
  <2>8. QED BY <1>1, <2>3, <2>5, <2>7
<1>5. CASE BatchFails /\ pc # "idle" /\ pc # "stopped" /\ UNCHANGED unacked
  <2>1. batch # <<>>
    BY <1>5 DEF BatchIsLast
  <2>2. failures' = failures + 1 /\ batch' = <<>> /\ unacked' = unacked
    BY <1>5 DEF BatchFails
  <2>3. failures' + 0 = failures + 1
    BY <1>1, <2>2
  <2>4. QED BY <1>2, <2>1, <2>2, <2>3
<1>6. CASE unacked' = <<>> /\ batch' = <<>> /\ failures' = 0
  BY <1>1, <1>6, NoBatch
<1>7. CASE UNCHANGED <<unacked, batch, failures>>
  BY <1>2, <1>7
<1>8. BulkCopyFails \/ MergeDuplicateKey \/ MergeFails
        => BatchFails /\ pc # "idle" /\ pc # "stopped" /\ UNCHANGED unacked
  BY DEF BulkCopyFails, MergeDuplicateKey, MergeFails
<1>9. Ack \/ Restart => unacked' = <<>> /\ batch' = <<>> /\ failures' = 0
  BY DEF Ack, Restart
<1>10. BulkCopy \/ MergeAndDelete \/ LoopEnds \/ Stop \/ UNCHANGED vars \/ (\E m \in Messages : Publish(m))
         => UNCHANGED <<unacked, batch, failures>>
  BY DEF BulkCopy, MergeAndDelete, LoopEnds, Stop, vars, Publish
<1>11. QED BY <1>4, <1>5, <1>6, <1>7, <1>8, <1>9, <1>10 DEF Next, ImportStep

\* For any size of a batch: what is not acknowledged is no more than what the batches that
\* failed since the last acknowledgement took, and the one at work.
THEOREM WindowIsGivenBack == Spec => []WindowReopens
<1>1. Init => WindowReopens
  BY NoBatch DEF Init, WindowReopens
<1>2. QED BY <1>1, WindowNext, Inductive, PTL DEF Spec

-----------------------------------------------------------------------------
(* What wipes a row: each action                                           *)

USE DEF RepeatsInv

Repeats == InLineOnce /\ StagedOnce /\ WipedOnlyByRepeats

\* Publish keeps what is known of repeats.
LEMMA PublishRepeats ==
  ASSUME RepeatsInv, NEW m \in Messages, Publish(m)
  PROVE  Repeats'
<1>1. /\ inbound \in Seq(Messages) /\ inbound' = Append(inbound, m)
      /\ copies \in [Messages -> Nat] /\ copies' = [copies EXCEPT ![m] = @ + 1]
      /\ UNCHANGED <<unacked, batch, pc, staged, wiped, leftover>>
  BY TypeParts DEF Publish, Lines, Rows
<1>2. /\ Len(inbound') = Len(inbound) + 1 /\ Len(inbound) \in Nat
      /\ \A i \in 1..(Len(inbound) + 1) : inbound'[i] = IF i <= Len(inbound) THEN inbound[i] ELSE m
  BY <1>1
<1>3. InLineOnce'
  <2>1. SUFFICES ASSUME NEW x \in Messages, copies'[x] <= 1
                 PROVE  /\ copies'[x] = 0 => NotIn(unacked', x) /\ NotIn(inbound', x)
                        /\ AtMostOne(unacked', x) /\ AtMostOne(inbound', x)
                        /\ NotIn(unacked', x) \/ NotIn(inbound', x)
    <3>1. \A x \in Messages : copies'[x] \in Nat
      BY <1>1
    <3>2. QED BY <3>1 DEF InLineOnce, NotIn, AtMostOne
  <2>2. CASE x = m
    <3>1. copies[m] = 0 /\ copies'[m] = 1
      BY <1>1, <2>1, <2>2
    <3>2. NotIn(unacked, m) /\ NotIn(inbound, m)
      BY <3>1 DEF InLineOnce
    <3>3. NotIn(unacked', m) /\ AtMostOne(unacked', m)
      BY <1>1, <3>2 DEF NotIn, AtMostOne
    <3>4. AtMostOne(inbound', m)
      BY <1>2, <3>2 DEF NotIn, AtMostOne
    <3>5. QED BY <2>2, <3>1, <3>3, <3>4
  <2>3. CASE x # m
    <3>1. copies'[x] = copies[x]
      BY <1>1, <2>3
    <3>2. NotIn(inbound, x) => NotIn(inbound', x)
      BY <1>2, <2>3 DEF NotIn
    <3>3. AtMostOne(inbound, x) => AtMostOne(inbound', x)
      BY <1>2, <2>3 DEF AtMostOne
    <3>4. QED BY <1>1, <2>1, <3>1, <3>2, <3>3 DEF InLineOnce
  <2>4. QED BY <2>2, <2>3
<1>4. \A x \in Messages : copies[x] <= copies'[x]
  BY <1>1
<1>5. StagedOnce'
  <2>1. \A x \in Messages : copies'[x] <= 1 => copies[x] <= 1
    BY <1>1, <1>4
  <2>2. QED BY <1>1, <2>1 DEF StagedOnce, InStaging, StagedBefore, FirstOfBatch
<1>6. WipedOnlyByRepeats'
  <2>1. \A x \in Messages : copies[x] > 1 => copies'[x] > 1
    BY <1>1, <1>4
  <2>2. QED BY <1>1, <2>1 DEF WipedOnlyByRepeats
<1>7. QED BY <1>3, <1>5, <1>6 DEF Repeats

\* Dequeue keeps what is known of repeats.
LEMMA DequeueRepeats ==
  ASSUME RepeatsInv, Dequeue
  PROVE  Repeats'
<1>1. PICK n \in 1..BatchSize :
        /\ n <= Len(inbound)
        /\ batch' = SubSeq(inbound, 1, n)
        /\ inbound' = SubSeq(inbound, n + 1, Len(inbound))
        /\ unacked' = unacked \o SubSeq(inbound, 1, n)
  BY DEF Dequeue
<1>2. inbound \in Seq(Messages) /\ unacked \in Seq(Messages) /\ Len(inbound) \in Nat /\ Len(unacked) \in Nat
      /\ n \in 1..Len(inbound)
  BY <1>1, TypeParts DEF Lines
<1>3. /\ batch' \in Seq(Messages) /\ Len(batch') = n
      /\ \A i \in 1..n : batch'[i] = inbound[i]
      /\ Len(inbound') = Len(inbound) - n
      /\ \A i \in 1..(Len(inbound) - n) : inbound'[i] = inbound[n + i]
  BY <1>1, <1>2, Split, SMTT(30)
<1>4. /\ Len(unacked') = Len(unacked) + n
      /\ \A i \in 1..(Len(unacked) + n) :
           unacked'[i] = IF i <= Len(unacked) THEN unacked[i] ELSE batch'[i - Len(unacked)]
  BY <1>1, <1>2, <1>3, ConcatProperties
<1>5. \A i \in 1..Len(unacked) : unacked'[i] = unacked[i]
  BY <1>2, <1>4
<1>6. \A i \in (Len(unacked) + 1)..(Len(unacked) + n) :
        i - Len(unacked) \in 1..n /\ unacked'[i] = inbound[i - Len(unacked)]
  BY <1>2, <1>3, <1>4
<1>7. UNCHANGED <<copies, staged, wiped, leftover>> /\ pc' = "copy"
  BY DEF Dequeue
<1>8. InLineOnce'
  <2>1. ASSUME NEW x \in Messages, NotIn(inbound, x)
        PROVE  /\ NotIn(inbound', x)
               /\ NotIn(unacked, x) => NotIn(unacked', x)
               /\ AtMostOne(unacked, x) => AtMostOne(unacked', x)
    <3>1. NotIn(inbound', x)
      <4>1. \A i \in 1..Len(inbound') : n + i \in 1..Len(inbound) /\ inbound'[i] = inbound[n + i]
        BY <1>2, <1>3
      <4>2. QED BY <2>1, <4>1 DEF NotIn
    <3>2. \A i \in (Len(unacked) + 1)..(Len(unacked) + n) : unacked'[i] # x
      BY <1>2, <1>6, <2>1 DEF NotIn
    <3>3. \A i \in 1..Len(unacked') : unacked'[i] = x => i \in 1..Len(unacked) /\ unacked[i] = x
      BY <1>2, <1>4, <1>5, <3>2
    <3>4. QED BY <3>1, <3>3 DEF NotIn, AtMostOne
  <2>2. ASSUME NEW x \in Messages, NotIn(unacked, x), AtMostOne(inbound, x)
        PROVE  /\ AtMostOne(unacked', x) /\ AtMostOne(inbound', x)
               /\ NotIn(unacked', x) \/ NotIn(inbound', x)
    <3>1. \A i \in 1..Len(unacked') : unacked'[i] = x =>
            i - Len(unacked) \in 1..n /\ inbound[i - Len(unacked)] = x
      BY <1>2, <1>4, <1>5, <1>6, <2>2 DEF NotIn
    <3>2. AtMostOne(unacked', x)
      <4>1. SUFFICES ASSUME NEW i \in 1..Len(unacked'), NEW j \in 1..Len(unacked'),
                            unacked'[i] = x, unacked'[j] = x
                     PROVE  i = j
        BY DEF AtMostOne
      <4>2. /\ i - Len(unacked) \in 1..Len(inbound) /\ inbound[i - Len(unacked)] = x
            /\ j - Len(unacked) \in 1..Len(inbound) /\ inbound[j - Len(unacked)] = x
        BY <1>2, <3>1, <4>1, SMTT(30)
      <4>3. i - Len(unacked) = j - Len(unacked)
        BY <2>2, <4>2 DEF AtMostOne
      <4>4. QED BY <1>2, <1>4, <4>3
    <3>3. \A i \in 1..Len(inbound') : inbound'[i] = x => n + i \in 1..Len(inbound) /\ inbound[n + i] = x
      BY <1>2, <1>3
    <3>4. AtMostOne(inbound', x)
      <4>1. SUFFICES ASSUME NEW i \in 1..Len(inbound'), NEW j \in 1..Len(inbound'),
                            inbound'[i] = x, inbound'[j] = x
                     PROVE  i = j
        BY DEF AtMostOne
      <4>2. n + i = n + j
        BY <2>2, <3>3, <4>1 DEF AtMostOne
      <4>3. QED BY <1>2, <1>3, <4>2
    <3>5. NotIn(unacked', x) \/ NotIn(inbound', x)
      <4>1. SUFFICES ASSUME NEW i \in 1..Len(unacked'), NEW j \in 1..Len(inbound'),
                            unacked'[i] = x, inbound'[j] = x
                     PROVE  FALSE
        BY DEF NotIn
      <4>2. i - Len(unacked) \in 1..n /\ inbound[i - Len(unacked)] = x
        BY <3>1, <4>1
      <4>3. n + j \in 1..Len(inbound) /\ inbound[n + j] = x /\ j > 0
        BY <3>3, <4>1, <1>2, <1>3
      <4>4. i - Len(unacked) = n + j
        BY <1>2, <2>2, <4>2, <4>3 DEF AtMostOne
      <4>5. QED BY <1>2, <4>2, <4>3, <4>4
    <3>6. QED BY <3>2, <3>4, <3>5
  <2>3. ASSUME NEW x \in Messages, AtMostOne(inbound, x) PROVE NotIn(inbound, x) => AtMostOne(inbound', x)
    BY <2>1 DEF AtMostOne, NotIn
  <2>4. QED BY <1>7, <2>1, <2>2, <2>3 DEF InLineOnce
<1>9. StagedOnce'
  <2>1. FirstOfBatch' = Len(unacked) + 1
    BY <1>2, <1>3, <1>4 DEF FirstOfBatch
  <2>2. \A i \in 1..Len(unacked) : i \in 1..Len(unacked') /\ StagedBefore(i)'
    BY <1>2, <1>4, <2>1 DEF StagedBefore
  <2>3. QED BY <1>5, <1>7, <2>2 DEF StagedOnce, InStaging
<1>10. WipedOnlyByRepeats'
  BY <1>7 DEF WipedOnlyByRepeats
<1>11. QED BY <1>8, <1>9, <1>10 DEF Repeats

\* Copy keeps what is known of repeats.
LEMMA CopyRepeats ==
  ASSUME RepeatsInv, BulkCopy \/ BulkCopyFails
  PROVE  Repeats'
<1>1. /\ pc = "copy" /\ UNCHANGED <<copies, inbound, unacked, wiped, leftover>>
      /\ staged' = StagedWithBatch \/ staged' = staged
      /\ pc' \in {"merge", "idle"}
  BY DEF BulkCopy, BulkCopyFails, BatchFails
<1>2. InLineOnce' /\ WipedOnlyByRepeats'
  BY <1>1 DEF InLineOnce, WipedOnlyByRepeats
<1>3. StagedOnce'
  <2>1. SUFFICES ASSUME leftover = {}, NEW x \in Messages, staged'[x] > 0
                 PROVE  /\ \E i \in 1..Len(unacked) : unacked[i] = x
                        /\ copies[x] <= 1 => staged'[x] = 1
    BY <1>1 DEF StagedOnce, InStaging, StagedBefore
  <2>2. batch \in Seq(Messages) /\ Len(batch) \in Nat /\ Len(unacked) \in Nat
        /\ staged[x] \in Nat
    BY TypeParts DEF Lines, Rows
  <2>3. \A j \in 1..Len(batch) :
          /\ Len(unacked) - Len(batch) + j \in 1..Len(unacked)
          /\ Len(unacked) - Len(batch) + j >= FirstOfBatch
          /\ batch[j] = unacked[Len(unacked) - Len(batch) + j]
    BY <2>2 DEF BatchIsLast, FirstOfBatch
  <2>4. /\ Occurrences(batch, x) \in Nat
        /\ NotIn(batch, x) <=> Occurrences(batch, x) = 0
        /\ AtMostOne(batch, x) => Occurrences(batch, x) <= 1
    BY <2>2, OccurrencesProperties
  <2>5. staged'[x] = staged[x] \/ staged'[x] = staged[x] + Occurrences(batch, x)
    BY <1>1 DEF StagedWithBatch
  <2>6. CASE staged[x] > 0
    <3>1. PICK i \in 1..Len(unacked) : unacked[i] = x /\ i < FirstOfBatch
      BY <1>1, <2>1, <2>6 DEF StagedOnce, InStaging, StagedBefore
    <3>2. ASSUME copies[x] <= 1 PROVE staged'[x] = 1
      <4>1. staged[x] = 1 /\ AtMostOne(unacked, x)
        BY <2>1, <2>6, <3>2 DEF StagedOnce, InStaging, InLineOnce
      <4>2. NotIn(batch, x)
        <5>1. SUFFICES ASSUME NEW j \in 1..Len(batch), batch[j] = x PROVE FALSE
          BY DEF NotIn
        <5>2. i = Len(unacked) - Len(batch) + j
          BY <2>3, <3>1, <4>1, <5>1 DEF AtMostOne
        <5>3. QED BY <2>2, <2>3, <3>1, <5>2 DEF FirstOfBatch
      <4>3. QED BY <2>4, <2>5, <4>1, <4>2
    <3>3. QED BY <3>1, <3>2
  <2>7. CASE staged[x] = 0
    <3>1. staged'[x] = Occurrences(batch, x) /\ ~NotIn(batch, x)
      BY <2>1, <2>4, <2>5, <2>7
    <3>2. \E i \in 1..Len(unacked) : unacked[i] = x
      BY <2>3, <3>1 DEF NotIn
    <3>3. ASSUME copies[x] <= 1 PROVE staged'[x] = 1
      <4>1. AtMostOne(unacked, x)
        BY <3>3 DEF InLineOnce
      <4>2. AtMostOne(batch, x)
        <5>1. SUFFICES ASSUME NEW i \in 1..Len(batch), NEW j \in 1..Len(batch), batch[i] = x, batch[j] = x
                       PROVE  i = j
          BY DEF AtMostOne
        <5>2. Len(unacked) - Len(batch) + i = Len(unacked) - Len(batch) + j
          BY <2>3, <4>1, <5>1 DEF AtMostOne
        <5>3. QED BY <2>2, <5>2
      <4>3. QED BY <2>1, <2>4, <3>1, <4>2
    <3>4. QED BY <3>2, <3>3
  <2>8. QED BY <2>2, <2>6, <2>7
<1>4. QED BY <1>2, <1>3 DEF Repeats

\* Merge keeps what is known of repeats.
LEMMA MergeRepeats ==
  ASSUME RepeatsInv, MergeAndDelete \/ MergeDuplicateKey \/ MergeFails
  PROVE  Repeats'
<1>1. /\ pc = "merge" /\ UNCHANGED <<copies, inbound, unacked, leftover>>
      /\ \/ staged' = NoRows
         \/ pc' = "idle" /\ staged' = staged
      /\ wiped' = wiped \/ MergeDuplicateKey
  BY DEF MergeAndDelete, MergeDuplicateKey, MergeFails, Merged, BatchFails
<1>2. InLineOnce'
  BY <1>1 DEF InLineOnce
<1>3. StagedOnce'
  BY <1>1 DEF StagedOnce, InStaging, StagedBefore, NoRows
<1>4. WipedOnlyByRepeats'
  <2>1. ASSUME MergeDuplicateKey, leftover = {} PROVE \E m \in Messages : copies[m] > 1
    <3>1. PICK m \in Messages : staged[m] > 1
      BY <2>1 DEF MergeDuplicateKey, DuplicateKey
    <3>2. staged[m] \in Nat /\ copies[m] \in Nat
      BY TypeParts DEF Rows
    <3>3. ~(copies[m] <= 1)
      BY <2>1, <3>1, <3>2 DEF StagedOnce, InStaging
    <3>4. QED BY <3>2, <3>3
  <2>2. QED BY <1>1, <2>1 DEF WipedOnlyByRepeats
<1>5. QED BY <1>2, <1>3, <1>4 DEF Repeats

\* Ack keeps what is known of repeats.
LEMMA AckRepeats ==
  ASSUME RepeatsInv, Ack
  PROVE  Repeats'
<1>1. /\ pc = "ack" /\ pc' = "idle" /\ unacked' = <<>>
      /\ UNCHANGED <<copies, inbound, staged, wiped, leftover>>
  BY DEF Ack
<1>2. InLineOnce'
  BY <1>1, NoBatch DEF InLineOnce, NotIn, AtMostOne
<1>3. StagedOnce'
  BY <1>1 DEF StagedOnce, InStaging
<1>4. WipedOnlyByRepeats'
  BY <1>1 DEF WipedOnlyByRepeats
<1>5. QED BY <1>2, <1>3, <1>4 DEF Repeats

\* Stop keeps what is known of repeats.
LEMMA StopRepeats ==
  ASSUME RepeatsInv, Stop \/ LoopEnds \/ UNCHANGED vars
  PROVE  Repeats'
<1>1. /\ UNCHANGED <<copies, inbound, unacked, batch, staged, wiped, leftover>>
      /\ pc' = pc \/ pc' = "stopped"
  BY DEF Stop, LoopEnds, vars
<1>2. StagedOnce'
  BY <1>1 DEF StagedOnce, InStaging, StagedBefore, FirstOfBatch
<1>3. InLineOnce' /\ WipedOnlyByRepeats'
  BY <1>1 DEF InLineOnce, WipedOnlyByRepeats
<1>4. QED BY <1>2, <1>3 DEF Repeats

\* Without a leftover no row is staged after a restart.
LEMMA RestartRepeats ==
  ASSUME RepeatsInv, Restart
  PROVE  Repeats'
<1>1. /\ inbound' = unacked \o inbound /\ unacked' = <<>> /\ pc' = "idle"
      /\ leftover' = leftover \cup (ToSet(unacked) \cap InStaging)
      /\ UNCHANGED <<copies, staged, wiped>>
  BY DEF Restart
<1>2. unacked \in Seq(Messages) /\ inbound \in Seq(Messages) /\ Len(unacked) \in Nat /\ Len(inbound) \in Nat
  BY TypeParts DEF Lines
<1>3. /\ Len(inbound') = Len(unacked) + Len(inbound)
      /\ \A i \in 1..(Len(unacked) + Len(inbound)) :
           inbound'[i] = IF i <= Len(unacked) THEN unacked[i] ELSE inbound[i - Len(unacked)]
  BY <1>1, <1>2, ConcatProperties
<1>4. InLineOnce'
  <2>1. SUFFICES ASSUME NEW x \in Messages
                 PROVE  /\ NotIn(unacked, x) /\ NotIn(inbound, x) => NotIn(inbound', x)
                        /\ AtMostOne(unacked, x) /\ NotIn(inbound, x) => AtMostOne(inbound', x)
                        /\ NotIn(unacked, x) /\ AtMostOne(inbound, x) => AtMostOne(inbound', x)
    <3>1. \A x : NotIn(unacked', x) /\ AtMostOne(unacked', x)
      BY <1>1, NoBatch DEF NotIn, AtMostOne
    <3>2. QED BY <1>1, <3>1 DEF InLineOnce
  <2>2. ASSUME NotIn(inbound, x)
        PROVE  \A i \in 1..Len(inbound') : inbound'[i] = x => i \in 1..Len(unacked) /\ unacked[i] = x
    BY <1>2, <1>3, <2>2 DEF NotIn
  <2>3. ASSUME NotIn(unacked, x)
        PROVE  \A i \in 1..Len(inbound') : inbound'[i] = x =>
                 i - Len(unacked) \in 1..Len(inbound) /\ inbound[i - Len(unacked)] = x
    BY <1>2, <1>3, <2>3 DEF NotIn
  <2>4. ASSUME NotIn(unacked, x), AtMostOne(inbound, x) PROVE AtMostOne(inbound', x)
    <3>1. SUFFICES ASSUME NEW i \in 1..Len(inbound'), NEW j \in 1..Len(inbound'),
                          inbound'[i] = x, inbound'[j] = x
                   PROVE  i = j
      BY DEF AtMostOne
    <3>2. i - Len(unacked) = j - Len(unacked)
      BY <2>3, <2>4, <3>1 DEF AtMostOne
    <3>3. QED BY <1>2, <1>3, <3>2
  <2>5. QED BY <2>2, <2>4 DEF NotIn, AtMostOne
<1>5. StagedOnce'
  <2>1. ASSUME leftover' = {} PROVE InStaging = {}
    <3>1. leftover = {} /\ ToSet(unacked) \cap InStaging = {}
      BY <1>1, <2>1
    <3>2. \A m \in InStaging : m \in ToSet(unacked)
      BY <1>2, <3>1, InToSet DEF StagedOnce
    <3>3. QED BY <3>1, <3>2
  <2>2. InStaging' = InStaging
    BY <1>1 DEF InStaging
  <2>3. QED BY <1>1, <2>1, <2>2 DEF StagedOnce
<1>6. WipedOnlyByRepeats'
  BY <1>1 DEF WipedOnlyByRepeats
<1>7. QED BY <1>4, <1>5, <1>6 DEF Repeats

\* Every step keeps what is known of repeats.
LEMMA RepeatsNext == RepeatsInv /\ [Next]_vars => RepeatsInv'
<1> SUFFICES ASSUME RepeatsInv, [Next]_vars PROVE Repeats' /\ Inv'
  BY DEF Repeats
<1>1. Inv'
  BY NextInv
<1>2. Repeats'
  BY PublishRepeats, DequeueRepeats, CopyRepeats, MergeRepeats, AckRepeats, StopRepeats, RestartRepeats
     DEF Next, ImportStep
<1>3. QED BY <1>1, <1>2

\* A row of the staging table is wiped, for any number of copies and faults, only if a message
\* was published twice or came back while a row of it was staged.
THEOREM WipedByRepeats == Spec => []WipedOnlyByRepeats
<1>1. Init => RepeatsInv
  <2> SUFFICES ASSUME Init PROVE RepeatsInv
    OBVIOUS
  <2>1. InStaging = {} /\ WipedOnlyByRepeats
    BY DEF Init, InStaging, NoRows, WipedOnlyByRepeats
  <2>2. InLineOnce
    BY NoBatch DEF Init, InLineOnce, NotIn, AtMostOne
  <2>3. StagedOnce
    BY <2>1 DEF Init, StagedOnce
  <2>4. QED BY <2>1, <2>2, <2>3, InitInv
<1>2. RepeatsInv => WipedOnlyByRepeats
  OBVIOUS
<1>3. QED BY <1>1, <1>2, RepeatsNext, PTL DEF Spec
=============================================================================
