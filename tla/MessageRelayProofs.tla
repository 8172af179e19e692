------------------------- MODULE MessageRelayProofs -------------------------
(***************************************************************************)
(* Proofs about MessageRelay, for every set of messages and every finite   *)
(* number of staging threads and workers, and every number of faults.      *)
(***************************************************************************)
EXTENDS MessageRelay, FiniteSetTheorems, TLAPS

\* A thread holds a message exactly when it is between a dequeue and its Ack.
Holding ==
  /\ \A s \in Stagers : spc[s] = "idle" <=> smsg[s] = None
  /\ \A w \in Workers : wpc[w] \in {"idle", "next"} <=> wmsg[w] = None

\* Until an outcome is logged, the worker that decides about a message has not handed
\* it to anyone else.  A dirty read of the log rests on this.
Unhandled ==
  \A w \in Workers : wpc[w] \in {"idle", "next", "check", "route", "connect", "session"} \cup FinalLog
                         => ~handled[w]

\* A copy that will be dealt with: queued, or held by a thread that has not passed it on.
Queued(m) == staging[m] > 0 \/ outbound[m] > 0 \/ waiting[m] > 0
Carried(m) ==
  \/ \E s \in Stagers : smsg[s] = m /\ spc[s] \in {"inbound", "outbound"}
  \/ \E w \in Workers : wmsg[w] = m /\ ~handled[w] /\ wpc[w] # "ack"

\* Stronger than NoSilentLoss: a thread that is about to acknowledge does not count.
Custody == \A m \in accepted \ refused : Settled(m) \/ Queued(m) \/ Carried(m)

\* Every copy, and every row, is of an accepted message.
OnlyAccepted ==
  /\ \A m \in Messages : Queued(m) => m \in accepted
  /\ \A s \in Stagers : smsg[s] # None => smsg[s] \in accepted
  /\ \A w \in Workers : wmsg[w] # None => wmsg[w] \in accepted
  /\ \A m \in Messages : Settled(m) => m \in accepted
  /\ refused \subseteq accepted

\* What is past InboundStaging was published to Inbound.
Recorded ==
  /\ \A s \in Stagers : spc[s] \in {"outbound", "ack"} => smsg[s] \in inbound \cup unrecorded
  /\ \A m \in Messages : outbound[m] > 0 \/ waiting[m] > 0 \/ delivered[m] > 0
                            => m \in inbound \cup unrecorded
  /\ \A w \in Workers : wmsg[w] # None => wmsg[w] \in inbound \cup unrecorded

IInv == TypeOK /\ Holding /\ Unhandled /\ Custody /\ OnlyAccepted /\ Recorded
-----------------------------------------------------------------------------

USE NoneAssumption, FaultsAssumption
USE DEF queueVars, stagerVars, workerVars, logVars, historyVars

\* A counted fault keeps the counter within MaxFaults.
LEMMA FaultIsBounded == ASSUME IInv, Fault PROVE faults' \in 0..MaxFaults
  BY FaultsAssumption DEF IInv, TypeOK, Fault

\* Put on a queue gives a queue; a copy of m is in it, and none is taken out.
LEMMA PutType ==
  ASSUME NEW queue \in [Messages -> Nat], NEW m \in Messages
  PROVE  Put(queue, m) \in [Messages -> Nat]
  BY DEF Put

\* Empty queues and idle threads satisfy the invariant.
LEMMA InitIInv == ASSUME Init PROVE IInv
<1>1. TypeOK
  <2>1. /\ accepted \in SUBSET Messages /\ inbound \in SUBSET Messages
        /\ refused \in SUBSET Messages /\ unrecorded \in SUBSET Messages
        /\ disturbed \in SUBSET Messages
    BY DEF Init
  <2>2. /\ staging \in [Messages -> Nat] /\ outbound \in [Messages -> Nat]
        /\ waiting \in [Messages -> Nat]
    BY DEF Init
  <2>3. /\ delivered \in [Messages -> Nat] /\ success \in [Messages -> Nat]
        /\ rejected \in [Messages -> Nat]
    BY DEF Init
  <2>4. spc \in [Stagers -> StagerPc] /\ smsg \in [Stagers -> Messages \cup {None}]
    BY DEF Init, StagerPc
  <2>5. /\ wpc \in [Workers -> WorkerPc] /\ wmsg \in [Workers -> Messages \cup {None}]
        /\ handled \in [Workers -> BOOLEAN]
    BY DEF Init, WorkerPc
  <2>6. stopping \in BOOLEAN
    BY DEF Init
  <2>7. faults \in 0..MaxFaults
    BY FaultsAssumption DEF Init
  <2>8. QED BY <2>1, <2>2, <2>3, <2>4, <2>5, <2>6, <2>7 DEF TypeOK
<1>2. Holding /\ Unhandled
  BY DEF Init, Holding, Unhandled, FinalLog
<1>3. Custody
  BY DEF Init, Custody
<1>4. OnlyAccepted
  BY DEF Init, OnlyAccepted, Queued, Settled
<1>5. Recorded
  BY DEF Init, Recorded
<1>6. QED BY <1>1, <1>2, <1>3, <1>4, <1>5 DEF IInv

\* The copy that QueueManager.Enqueue publishes is the custody of the new message.
LEMMA EnqueueKeeps ==
  ASSUME IInv, NEW m \in Messages, Enqueue(m) PROVE IInv'
<1>1. TypeOK'
  BY DEF IInv, TypeOK, Enqueue, Put
<1>2. Holding' /\ Unhandled'
  BY DEF IInv, TypeOK, Holding, Unhandled, Enqueue, Put
<1>3. Custody'
  BY DEF IInv, TypeOK, Holding, Unhandled, Custody, Settled, Queued, Carried, Enqueue, Put
<1>4. OnlyAccepted'
  BY DEF IInv, TypeOK, Holding, OnlyAccepted, Queued, Settled, Enqueue, Put
<1>5. Recorded'
  BY DEF IInv, TypeOK, Holding, Recorded, Enqueue, Put
<1>6. QED BY <1>1, <1>2, <1>3, <1>4, <1>5 DEF IInv

\* Custody goes from InboundStaging to the staging thread.
LEMMA StagerDequeueKeeps ==
  ASSUME IInv, NEW s \in Stagers, NEW m \in Messages, StagerDequeue(s, m) PROVE IInv'
<1>1. TypeOK'
  BY DEF IInv, TypeOK, StagerDequeue, Take, StagerPc
<1>2. Holding' /\ Unhandled'
  BY DEF IInv, TypeOK, Holding, Unhandled, StagerDequeue, Take
<1>3. Custody'
  BY DEF IInv, TypeOK, Holding, Unhandled, Custody, Settled, Queued, Carried, StagerDequeue, Take
<1>4. OnlyAccepted'
  BY DEF IInv, TypeOK, Holding, OnlyAccepted, Queued, Settled, StagerDequeue, Take
<1>5. Recorded'
  BY DEF IInv, TypeOK, Holding, Recorded, StagerDequeue, Take
<1>6. QED BY <1>1, <1>2, <1>3, <1>4, <1>5 DEF IInv

\* Published or refused, the message counts as past the publish to Inbound.
LEMMA StagerPublishInboundKeeps ==
  ASSUME IInv, NEW s \in Stagers, StagerPublishInbound(s) PROVE IInv'
<1>1. TypeOK'
  <2>1. smsg[s] \in Messages
    BY DEF IInv, TypeOK, Holding, StagerPublishInbound
  <2>2. faults' \in 0..MaxFaults
    BY FaultIsBounded DEF IInv, TypeOK, StagerPublishInbound
  <2>3. QED BY <2>1, <2>2 DEF IInv, TypeOK, StagerPublishInbound, StagerPc
<1>2. Holding' /\ Unhandled'
  BY DEF IInv, TypeOK, Holding, Unhandled, StagerPublishInbound, Fault
<1>3. Custody'
  BY DEF IInv, TypeOK, Holding, Unhandled, Custody, Settled, Queued, Carried, StagerPublishInbound, Fault
<1>4. OnlyAccepted'
  BY DEF IInv, TypeOK, Holding, OnlyAccepted, Queued, Settled, StagerPublishInbound, Fault
<1>5. Recorded'
  BY DEF IInv, TypeOK, Holding, Recorded, StagerPublishInbound, Fault
<1>6. QED BY <1>1, <1>2, <1>3, <1>4, <1>5 DEF IInv

\* Custody goes from the staging thread to OutboundWaiting, or the refusal is on
\* record.
LEMMA StagerPublishOutboundKeeps ==
  ASSUME IInv, NEW s \in Stagers, StagerPublishOutbound(s) PROVE IInv'
<1>1. TypeOK'
  <2>1. smsg[s] \in Messages
    BY DEF IInv, TypeOK, Holding, StagerPublishOutbound
  <2>2. faults' \in 0..MaxFaults
    BY FaultIsBounded DEF IInv, TypeOK, StagerPublishOutbound
  <2>3. outbound' \in [Messages -> Nat]
    <3>1. outbound' = outbound \/ outbound' = Put(outbound, smsg[s])
      BY DEF StagerPublishOutbound
    <3>2. outbound \in [Messages -> Nat]
      BY DEF IInv, TypeOK
    <3>3. Put(outbound, smsg[s]) \in [Messages -> Nat]
      BY <2>1, <3>2, PutType
    <3>4. QED BY <3>1, <3>2, <3>3
  <2>4. QED BY <2>1, <2>2, <2>3 DEF IInv, TypeOK, StagerPublishOutbound, StagerPc
<1>2. Holding' /\ Unhandled'
  BY DEF IInv, TypeOK, Holding, Unhandled, StagerPublishOutbound, Put, Fault
<1>3. Custody'
  BY DEF IInv, TypeOK, Holding, Unhandled, Custody, Settled, Queued, Carried, StagerPublishOutbound, Put, Fault
<1>4. OnlyAccepted'
  BY DEF IInv, TypeOK, Holding, OnlyAccepted, Queued, Settled, StagerPublishOutbound, Put, Fault
<1>5. Recorded'
  BY DEF IInv, TypeOK, Holding, Recorded, StagerPublishOutbound, Put, Fault
<1>6. QED BY <1>1, <1>2, <1>3, <1>4, <1>5 DEF IInv

\* The acknowledged copy was not in the custody of the staging thread any more.
LEMMA StagerAckKeeps ==
  ASSUME IInv, NEW s \in Stagers, StagerAck(s) PROVE IInv'
<1>1. TypeOK'
  BY DEF IInv, TypeOK, StagerAck, StagerPc
<1>2. Holding' /\ Unhandled'
  BY DEF IInv, TypeOK, Holding, Unhandled, StagerAck
<1>3. Custody'
  BY DEF IInv, TypeOK, Holding, Unhandled, Custody, Settled, Queued, Carried, StagerAck
<1>4. OnlyAccepted'
  BY DEF IInv, TypeOK, Holding, OnlyAccepted, Queued, Settled, StagerAck
<1>5. Recorded'
  BY DEF IInv, TypeOK, Holding, Recorded, StagerAck
<1>6. QED BY <1>1, <1>2, <1>3, <1>4, <1>5 DEF IInv

\* Custody goes from OutboundWaiting to the worker, which has handled nothing yet.
LEMMA DequeueKeeps ==
  ASSUME IInv, NEW w \in Workers, NEW m \in Messages, Dequeue(w, m) PROVE IInv'
<1>1. TypeOK'
  BY DEF IInv, TypeOK, Dequeue, Take, Goto, SetHandled, WorkerPc, FinalLog, DeferLog
<1>2. Holding' /\ Unhandled'
  BY DEF IInv, TypeOK, Holding, Unhandled, Dequeue, Take, Goto, SetHandled, FinalLog, DeferLog
<1>3. Custody'
  BY DEF IInv, TypeOK, Holding, Unhandled, Custody, Settled, Queued, Carried, Dequeue, Take, Goto, SetHandled, FinalLog, DeferLog
<1>4. OnlyAccepted'
  BY DEF IInv, TypeOK, Holding, OnlyAccepted, Queued, Settled, Dequeue, Take, Goto, SetHandled, FinalLog, DeferLog
<1>5. Recorded'
  BY DEF IInv, TypeOK, Holding, Recorded, Dequeue, Take, Goto, SetHandled, FinalLog, DeferLog
<1>6. QED BY <1>1, <1>2, <1>3, <1>4, <1>5 DEF IInv

\* A task that ends holds nothing.
LEMMA DequeueNothingKeeps ==
  ASSUME IInv, NEW w \in Workers, DequeueNothing(w) PROVE IInv'
<1>1. TypeOK'
  BY DEF IInv, TypeOK, DequeueNothing, Goto, WorkerPc, FinalLog, DeferLog
<1>2. Holding' /\ Unhandled'
  BY DEF IInv, TypeOK, Holding, Unhandled, DequeueNothing, Goto, FinalLog, DeferLog
<1>3. Custody'
  BY DEF IInv, TypeOK, Holding, Unhandled, Custody, Settled, Queued, Carried, DequeueNothing, Goto, FinalLog, DeferLog
<1>4. OnlyAccepted'
  BY DEF IInv, TypeOK, Holding, OnlyAccepted, Queued, Settled, DequeueNothing, Goto, FinalLog, DeferLog
<1>5. Recorded'
  BY DEF IInv, TypeOK, Holding, Recorded, DequeueNothing, Goto, FinalLog, DeferLog
<1>6. QED BY <1>1, <1>2, <1>3, <1>4, <1>5 DEF IInv

\* A stop leaves the message unhandled in the hands of the worker.
LEMMA LoopStoppedKeeps ==
  ASSUME IInv, NEW w \in Workers, LoopStopped(w) PROVE IInv'
<1>1. TypeOK'
  BY DEF IInv, TypeOK, LoopStopped, Step, Goto, WorkerPc, FinalLog, DeferLog
<1>2. Holding' /\ Unhandled'
  BY DEF IInv, TypeOK, Holding, Unhandled, LoopStopped, Step, Goto, FinalLog, DeferLog
<1>3. Custody'
  BY DEF IInv, TypeOK, Holding, Unhandled, Custody, Settled, Queued, Carried, LoopStopped, Step, Goto, FinalLog, DeferLog
<1>4. OnlyAccepted'
  BY DEF IInv, TypeOK, Holding, OnlyAccepted, Queued, Settled, LoopStopped, Step, Goto, FinalLog, DeferLog
<1>5. Recorded'
  BY DEF IInv, TypeOK, Holding, Recorded, LoopStopped, Step, Goto, FinalLog, DeferLog
<1>6. QED BY <1>1, <1>2, <1>3, <1>4, <1>5 DEF IInv

\* A message that is not due stays with the worker until it is published again.
LEMMA NotDueKeeps ==
  ASSUME IInv, NEW w \in Workers, NotDue(w) PROVE IInv'
<1>1. TypeOK'
  BY DEF IInv, TypeOK, NotDue, Step, Goto, WorkerPc, FinalLog, DeferLog
<1>2. Holding' /\ Unhandled'
  BY DEF IInv, TypeOK, Holding, Unhandled, NotDue, Step, Goto, FinalLog, DeferLog
<1>3. Custody'
  BY DEF IInv, TypeOK, Holding, Unhandled, Custody, Settled, Queued, Carried, NotDue, Step, Goto, FinalLog, DeferLog
<1>4. OnlyAccepted'
  BY DEF IInv, TypeOK, Holding, OnlyAccepted, Queued, Settled, NotDue, Step, Goto, FinalLog, DeferLog
<1>5. Recorded'
  BY DEF IInv, TypeOK, Holding, Recorded, NotDue, Step, Goto, FinalLog, DeferLog
<1>6. QED BY <1>1, <1>2, <1>3, <1>4, <1>5 DEF IInv

\* A worker that drops its copy as handled relies on a row, or on the worker that is
\* about to write one and, by Unhandled, carries the message.
LEMMA AlreadyHandledKeeps ==
  ASSUME IInv, NEW w \in Workers, AlreadyHandled(w) PROVE IInv'
<1>1. TypeOK'
  BY DEF IInv, TypeOK, AlreadyHandled, Step, Goto, SetHandled, WorkerPc, FinalLog, DeferLog
<1>2. Holding' /\ Unhandled'
  BY DEF IInv, TypeOK, Holding, Unhandled, AlreadyHandled, Step, Goto, SetHandled, FinalLog, DeferLog
<1>3. Custody'
  <2> SUFFICES ASSUME NEW m \in accepted \ refused
               PROVE  Settled(m) \/ Queued(m) \/ Carried(m)'
    BY DEF Custody, AlreadyHandled, Step, Settled, Queued
  <2>1. CASE m = wmsg[w]
    <3>1. CASE Settled(m)
      BY <3>1
    <3>2. CASE UncommittedRow(m)
      <4>1. PICK v \in Workers : wpc[v] \in FinalLog /\ wmsg[v] = m
        BY <3>2 DEF UncommittedRow
      <4>2. v # w /\ ~handled[v] /\ wpc[v] # "ack"
        BY <4>1 DEF IInv, Unhandled, AlreadyHandled, Step, FinalLog
      <4>3. Carried(m)'
        BY <4>1, <4>2 DEF IInv, TypeOK, Carried, AlreadyHandled, Step, Goto, SetHandled, FinalLog
      <4>4. QED BY <4>3
    <3>3. QED BY <2>1, <3>1, <3>2 DEF AlreadyHandled
  <2>2. CASE m # wmsg[w]
    BY <2>2 DEF IInv, TypeOK, Custody, Carried, AlreadyHandled, Step, Goto, SetHandled
  <2>3. QED BY <2>1, <2>2
<1>4. OnlyAccepted'
  BY DEF IInv, TypeOK, Holding, OnlyAccepted, Queued, Settled, AlreadyHandled, Step, Goto, SetHandled, FinalLog, DeferLog
<1>5. Recorded'
  BY DEF IInv, TypeOK, Holding, Recorded, AlreadyHandled, Step, Goto, SetHandled, FinalLog, DeferLog
<1>6. QED BY <1>1, <1>2, <1>3, <1>4, <1>5 DEF IInv

\* Looking into the log and finding nothing changes no custody.
LEMMA NotYetHandledKeeps ==
  ASSUME IInv, NEW w \in Workers, NotYetHandled(w) PROVE IInv'
<1>1. TypeOK'
  BY DEF IInv, TypeOK, NotYetHandled, Step, Goto, WorkerPc, FinalLog, DeferLog
<1>2. Holding' /\ Unhandled'
  BY DEF IInv, TypeOK, Holding, Unhandled, NotYetHandled, Step, Goto, FinalLog, DeferLog
<1>3. Custody'
  BY DEF IInv, TypeOK, Holding, Unhandled, Custody, Settled, Queued, Carried, NotYetHandled, Step, Goto, FinalLog, DeferLog
<1>4. OnlyAccepted'
  BY DEF IInv, TypeOK, Holding, OnlyAccepted, Queued, Settled, NotYetHandled, Step, Goto, FinalLog, DeferLog
<1>5. Recorded'
  BY DEF IInv, TypeOK, Holding, Recorded, NotYetHandled, Step, Goto, FinalLog, DeferLog
<1>6. QED BY <1>1, <1>2, <1>3, <1>4, <1>5 DEF IInv

\* An exception of the query leaves the message unhandled.
LEMMA CheckThrowsKeeps ==
  ASSUME IInv, NEW w \in Workers, CheckThrows(w) PROVE IInv'
<1>1. TypeOK'
  BY DEF IInv, TypeOK, CheckThrows, Step, Goto, WorkerPc, FinalLog, DeferLog
<1>2. Holding' /\ Unhandled'
  BY DEF IInv, TypeOK, Holding, Unhandled, CheckThrows, Step, Goto, FinalLog, DeferLog
<1>3. Custody'
  BY DEF IInv, TypeOK, Holding, Unhandled, Custody, Settled, Queued, Carried, CheckThrows, Step, Goto, FinalLog, DeferLog
<1>4. OnlyAccepted'
  BY DEF IInv, TypeOK, Holding, OnlyAccepted, Queued, Settled, CheckThrows, Step, Goto, FinalLog, DeferLog
<1>5. Recorded'
  BY DEF IInv, TypeOK, Holding, Recorded, CheckThrows, Step, Goto, FinalLog, DeferLog
<1>6. QED BY <1>1, <1>2, <1>3, <1>4, <1>5 DEF IInv

\* Wherever SendMessageAsync goes on, the worker still carries the message.
LEMMA RouteKeeps ==
  ASSUME IInv, NEW w \in Workers, Route(w) PROVE IInv'
<1>1. TypeOK'
  BY DEF IInv, TypeOK, Route, Step, Goto, WorkerPc, FinalLog, DeferLog
<1>2. Holding' /\ Unhandled'
  BY DEF IInv, TypeOK, Holding, Unhandled, Route, Step, Goto, FinalLog, DeferLog
<1>3. Custody'
  BY DEF IInv, TypeOK, Holding, Unhandled, Custody, Settled, Queued, Carried, Route, Step, Goto, FinalLog, DeferLog
<1>4. OnlyAccepted'
  BY DEF IInv, TypeOK, Holding, OnlyAccepted, Queued, Settled, Route, Step, Goto, FinalLog, DeferLog
<1>5. Recorded'
  BY DEF IInv, TypeOK, Holding, Recorded, Route, Step, Goto, FinalLog, DeferLog
<1>6. QED BY <1>1, <1>2, <1>3, <1>4, <1>5 DEF IInv

\* It still does when the pool has connected, or failed to.
LEMMA ConnectKeeps ==
  ASSUME IInv, NEW w \in Workers, Connect(w) PROVE IInv'
<1>1. TypeOK'
  BY DEF IInv, TypeOK, Connect, Step, Goto, WorkerPc, FinalLog, DeferLog
<1>2. Holding' /\ Unhandled'
  BY DEF IInv, TypeOK, Holding, Unhandled, Connect, Step, Goto, FinalLog, DeferLog
<1>3. Custody'
  BY DEF IInv, TypeOK, Holding, Unhandled, Custody, Settled, Queued, Carried, Connect, Step, Goto, FinalLog, DeferLog
<1>4. OnlyAccepted'
  BY DEF IInv, TypeOK, Holding, OnlyAccepted, Queued, Settled, Connect, Step, Goto, FinalLog, DeferLog
<1>5. Recorded'
  BY DEF IInv, TypeOK, Holding, Recorded, Connect, Step, Goto, FinalLog, DeferLog
<1>6. QED BY <1>1, <1>2, <1>3, <1>4, <1>5 DEF IInv

\* A direct Enqueue passes the custody on, or leaves it with the worker.
LEMMA DelayMessageKeeps ==
  ASSUME IInv, NEW w \in Workers, DelayMessage(w) PROVE IInv'
<1>1. TypeOK'
  <2>1. wmsg[w] \in Messages
    BY DEF IInv, TypeOK, Holding, DelayMessage
  <2>2. faults' \in 0..MaxFaults
    BY FaultIsBounded DEF IInv, TypeOK, DelayMessage, Requeued
  <2>3. waiting' \in [Messages -> Nat]
    <3>1. waiting' = waiting \/ waiting' = Put(waiting, wmsg[w])
      BY DEF DelayMessage, Requeued
    <3>2. waiting \in [Messages -> Nat]
      BY DEF IInv, TypeOK
    <3>3. Put(waiting, wmsg[w]) \in [Messages -> Nat]
      BY <2>1, <3>2, PutType
    <3>4. QED BY <3>1, <3>2, <3>3
  <2>4. QED BY <2>1, <2>2, <2>3
    DEF IInv, TypeOK, DelayMessage, Requeued, Goto, SetHandled, WorkerPc, FinalLog, DeferLog
<1>2. Holding' /\ Unhandled'
  BY DEF IInv, TypeOK, Holding, Unhandled, DelayMessage, Goto, Requeued, Put, SetHandled, Fault, FinalLog, DeferLog
<1>3. Custody'
  BY DEF IInv, TypeOK, Holding, Unhandled, Custody, Settled, Queued, Carried, DelayMessage, Goto, Requeued, Put, SetHandled, Fault, FinalLog, DeferLog
<1>4. OnlyAccepted'
  BY DEF IInv, TypeOK, Holding, OnlyAccepted, Queued, Settled, DelayMessage, Goto, Requeued, Put, SetHandled, Fault, FinalLog, DeferLog
<1>5. Recorded'
  BY DEF IInv, TypeOK, Holding, Recorded, DelayMessage, Goto, Requeued, Put, SetHandled, Fault, FinalLog, DeferLog
<1>6. QED BY <1>1, <1>2, <1>3, <1>4, <1>5 DEF IInv

\* Requeue passes the custody on, or the refusal is on record.
LEMMA RequeueKeeps ==
  ASSUME IInv, NEW w \in Workers, Requeue(w) PROVE IInv'
<1>1. TypeOK'
  <2>1. wmsg[w] \in Messages
    BY DEF IInv, TypeOK, Holding, Requeue
  <2>2. faults' \in 0..MaxFaults
    BY FaultIsBounded DEF IInv, TypeOK, Requeue, Requeued
  <2>3. waiting' \in [Messages -> Nat]
    <3>1. waiting' = waiting \/ waiting' = Put(waiting, wmsg[w])
      BY DEF Requeue, Requeued
    <3>2. waiting \in [Messages -> Nat]
      BY DEF IInv, TypeOK
    <3>3. Put(waiting, wmsg[w]) \in [Messages -> Nat]
      BY <2>1, <3>2, PutType
    <3>4. QED BY <3>1, <3>2, <3>3
  <2>4. QED BY <2>1, <2>2, <2>3
    DEF IInv, TypeOK, Requeue, Requeued, Goto, SetHandled, WorkerPc, FinalLog, DeferLog
<1>2. Holding' /\ Unhandled'
  BY DEF IInv, TypeOK, Holding, Unhandled, Requeue, Goto, Requeued, Put, SetHandled, Fault, FinalLog, DeferLog
<1>3. Custody'
  BY DEF IInv, TypeOK, Holding, Unhandled, Custody, Settled, Queued, Carried, Requeue, Goto, Requeued, Put, SetHandled, Fault, FinalLog, DeferLog
<1>4. OnlyAccepted'
  BY DEF IInv, TypeOK, Holding, OnlyAccepted, Queued, Settled, Requeue, Goto, Requeued, Put, SetHandled, Fault, FinalLog, DeferLog
<1>5. Recorded'
  BY DEF IInv, TypeOK, Holding, Recorded, Requeue, Goto, Requeued, Put, SetHandled, Fault, FinalLog, DeferLog
<1>6. QED BY <1>1, <1>2, <1>3, <1>4, <1>5 DEF IInv

\* A delivery alone changes no custody; the message has long been recorded.
LEMMA RemoteAcceptsKeeps ==
  ASSUME IInv, NEW w \in Workers, RemoteAccepts(w) PROVE IInv'
<1>1. TypeOK'
  <2>1. wmsg[w] \in Messages
    BY DEF IInv, TypeOK, Holding, RemoteAccepts
  <2>2. delivered' \in [Messages -> Nat]
    BY <2>1, PutType DEF IInv, TypeOK, RemoteAccepts
  <2>3. QED BY <2>1, <2>2 DEF IInv, TypeOK, RemoteAccepts, Goto, WorkerPc, FinalLog, DeferLog
<1>2. Holding' /\ Unhandled'
  BY DEF IInv, TypeOK, Holding, Unhandled, RemoteAccepts, Goto, Put, FinalLog, DeferLog
<1>3. Custody'
  BY DEF IInv, TypeOK, Holding, Unhandled, Custody, Settled, Queued, Carried, RemoteAccepts, Goto, Put, FinalLog, DeferLog
<1>4. OnlyAccepted'
  BY DEF IInv, TypeOK, Holding, OnlyAccepted, Queued, Settled, RemoteAccepts, Goto, Put, FinalLog, DeferLog
<1>5. Recorded'
  BY DEF IInv, TypeOK, Holding, Recorded, RemoteAccepts, Goto, Put, FinalLog, DeferLog
<1>6. QED BY <1>1, <1>2, <1>3, <1>4, <1>5 DEF IInv

\* A failed session leaves the message with the worker.
LEMMA SessionFailsKeeps ==
  ASSUME IInv, NEW w \in Workers, SessionFails(w) PROVE IInv'
<1>1. TypeOK'
  BY DEF IInv, TypeOK, SessionFails, Step, Goto, WorkerPc, FinalLog, DeferLog
<1>2. Holding' /\ Unhandled'
  BY DEF IInv, TypeOK, Holding, Unhandled, SessionFails, Step, Goto, FinalLog, DeferLog
<1>3. Custody'
  BY DEF IInv, TypeOK, Holding, Unhandled, Custody, Settled, Queued, Carried, SessionFails, Step, Goto, FinalLog, DeferLog
<1>4. OnlyAccepted'
  BY DEF IInv, TypeOK, Holding, OnlyAccepted, Queued, Settled, SessionFails, Step, Goto, FinalLog, DeferLog
<1>5. Recorded'
  BY DEF IInv, TypeOK, Holding, Recorded, SessionFails, Step, Goto, FinalLog, DeferLog
<1>6. QED BY <1>1, <1>2, <1>3, <1>4, <1>5 DEF IInv

\* A delivery whose reply is lost leaves the message with the worker.
LEMMA ReplyLostKeeps ==
  ASSUME IInv, NEW w \in Workers, ReplyLost(w) PROVE IInv'
<1>1. TypeOK'
  <2>1. wmsg[w] \in Messages
    BY DEF IInv, TypeOK, Holding, ReplyLost
  <2>2. faults' \in 0..MaxFaults
    BY FaultIsBounded DEF ReplyLost
  <2>3. delivered' \in [Messages -> Nat]
    BY <2>1, PutType DEF IInv, TypeOK, ReplyLost
  <2>4. QED BY <2>1, <2>2, <2>3 DEF IInv, TypeOK, ReplyLost, Goto, WorkerPc, FinalLog, DeferLog
<1>2. Holding' /\ Unhandled'
  BY DEF IInv, TypeOK, Holding, Unhandled, ReplyLost, Goto, Put, Fault, FinalLog, DeferLog
<1>3. Custody'
  BY DEF IInv, TypeOK, Holding, Unhandled, Custody, Settled, Queued, Carried, ReplyLost, Goto, Put, Fault, FinalLog, DeferLog
<1>4. OnlyAccepted'
  BY DEF IInv, TypeOK, Holding, OnlyAccepted, Queued, Settled, ReplyLost, Goto, Put, Fault, FinalLog, DeferLog
<1>5. Recorded'
  BY DEF IInv, TypeOK, Holding, Recorded, ReplyLost, Goto, Put, Fault, FinalLog, DeferLog
<1>6. QED BY <1>1, <1>2, <1>3, <1>4, <1>5 DEF IInv

\* The row settles the message before the worker counts it as handled.
LEMMA LogFinalKeeps ==
  ASSUME IInv, NEW w \in Workers, LogFinal(w) PROVE IInv'
<1>1. TypeOK'
  BY DEF IInv, TypeOK, LogFinal, LogFinalRow, Goto, Put, SetHandled, WorkerPc, FinalLog, DeferLog
<1>2. Holding' /\ Unhandled'
  BY DEF IInv, TypeOK, Holding, Unhandled, LogFinal, LogFinalRow, Goto, Put, SetHandled, FinalLog, DeferLog
<1>3. Custody'
  BY DEF IInv, TypeOK, Holding, Unhandled, Custody, Settled, Queued, Carried, LogFinal, LogFinalRow, Goto, Put, SetHandled, FinalLog, DeferLog
<1>4. OnlyAccepted'
  <2>1. wmsg[w] \in accepted /\ UNCHANGED <<queueVars, stagerVars, wmsg, historyVars>>
    BY DEF IInv, TypeOK, Holding, OnlyAccepted, LogFinal, FinalLog
  <2>2. \A m \in Messages \ {wmsg[w]} : success'[m] = success[m] /\ rejected'[m] = rejected[m]
    BY DEF IInv, TypeOK, LogFinal, LogFinalRow, Put
  <2>3. \A m \in Messages : Settled(m)' => m \in accepted
    BY <2>1, <2>2 DEF IInv, OnlyAccepted, Settled
  <2>4. QED BY <2>1, <2>3 DEF IInv, OnlyAccepted, Queued
<1>5. Recorded'
  BY DEF IInv, TypeOK, Holding, Recorded, LogFinal, LogFinalRow, Goto, Put, SetHandled, FinalLog, DeferLog
<1>6. QED BY <1>1, <1>2, <1>3, <1>4, <1>5 DEF IInv

\* When the row cannot be written, the worker still has the message.
LEMMA LogFinalThrowsKeeps ==
  ASSUME IInv, NEW w \in Workers, LogFinalThrows(w) PROVE IInv'
<1>1. TypeOK'
  <2>1. wmsg[w] \in Messages
    BY DEF IInv, TypeOK, Holding, LogFinalThrows, FinalLog
  <2>2. faults' \in 0..MaxFaults
    BY FaultIsBounded DEF LogFinalThrows
  <2>3. /\ delivered' \in [Messages -> Nat]
        /\ success' \in [Messages -> Nat]
        /\ rejected' \in [Messages -> Nat]
    BY <2>1, PutType DEF IInv, TypeOK, LogFinalThrows, LogFinalRow
  <2>4. wpc' \in [Workers -> WorkerPc]
    BY DEF IInv, TypeOK, LogFinalThrows, AfterException, Goto, WorkerPc, FinalLog, DeferLog
  <2>5. QED BY <2>1, <2>2, <2>3, <2>4 DEF IInv, TypeOK, LogFinalThrows
<1>2. Holding' /\ Unhandled'
  BY DEF IInv, TypeOK, Holding, Unhandled, LogFinalThrows, LogFinalRow, AfterException, Goto, Put, Fault, FinalLog, DeferLog
<1>3. Custody'
  BY DEF IInv, TypeOK, Holding, Unhandled, Custody, Settled, Queued, Carried, LogFinalThrows, LogFinalRow, AfterException, Goto, Put, Fault, FinalLog, DeferLog
<1>4. OnlyAccepted'
  BY DEF IInv, TypeOK, Holding, OnlyAccepted, Queued, Settled, LogFinalThrows, LogFinalRow, AfterException, Goto, Put, Fault, FinalLog, DeferLog
<1>5. Recorded'
  BY DEF IInv, TypeOK, Holding, Recorded, LogFinalThrows, LogFinalRow, AfterException, Goto, Put, Fault, FinalLog, DeferLog
<1>6. QED BY <1>1, <1>2, <1>3, <1>4, <1>5 DEF IInv

\* An exception after the Success row finds the message settled.
LEMMA SessionEndThrowsKeeps ==
  ASSUME IInv, NEW w \in Workers, SessionEndThrows(w) PROVE IInv'
<1>1. TypeOK'
  BY DEF IInv, TypeOK, SessionEndThrows, LogFinalRow, Goto, Put, SetHandled, Fault, WorkerPc, FinalLog, DeferLog
<1>2. Holding' /\ Unhandled'
  BY DEF IInv, TypeOK, Holding, Unhandled, SessionEndThrows, LogFinalRow, Goto, Put, SetHandled, Fault, FinalLog, DeferLog
<1>3. Custody'
  BY DEF IInv, TypeOK, Holding, Unhandled, Custody, Settled, Queued, Carried, SessionEndThrows, LogFinalRow, Goto, Put, SetHandled, Fault, FinalLog, DeferLog
<1>4. OnlyAccepted'
  BY DEF IInv, TypeOK, Holding, OnlyAccepted, Queued, Settled, SessionEndThrows, LogFinalRow, Goto, Put, SetHandled, Fault, FinalLog, DeferLog
<1>5. Recorded'
  BY DEF IInv, TypeOK, Holding, Recorded, SessionEndThrows, LogFinalRow, Goto, Put, SetHandled, Fault, FinalLog, DeferLog
<1>6. QED BY <1>1, <1>2, <1>3, <1>4, <1>5 DEF IInv

\* A logged deferral leaves the message with the worker, to be requeued.
LEMMA LogDeferralKeeps ==
  ASSUME IInv, NEW w \in Workers, LogDeferral(w) PROVE IInv'
<1>1. TypeOK'
  BY DEF IInv, TypeOK, LogDeferral, Step, Goto, WorkerPc, FinalLog, DeferLog
<1>2. Holding' /\ Unhandled'
  BY DEF IInv, TypeOK, Holding, Unhandled, LogDeferral, Step, Goto, FinalLog, DeferLog
<1>3. Custody'
  BY DEF IInv, TypeOK, Holding, Unhandled, Custody, Settled, Queued, Carried, LogDeferral, Step, Goto, FinalLog, DeferLog
<1>4. OnlyAccepted'
  BY DEF IInv, TypeOK, Holding, OnlyAccepted, Queued, Settled, LogDeferral, Step, Goto, FinalLog, DeferLog
<1>5. Recorded'
  BY DEF IInv, TypeOK, Holding, Recorded, LogDeferral, Step, Goto, FinalLog, DeferLog
<1>6. QED BY <1>1, <1>2, <1>3, <1>4, <1>5 DEF IInv

\* A deferral that cannot be logged leaves the message with the worker, unhandled.
LEMMA LogDeferralThrowsKeeps ==
  ASSUME IInv, NEW w \in Workers, LogDeferralThrows(w) PROVE IInv'
<1>1. TypeOK'
  BY DEF IInv, TypeOK, LogDeferralThrows, Step, AfterException, Goto, Fault, WorkerPc, FinalLog, DeferLog
<1>2. Holding' /\ Unhandled'
  BY DEF IInv, TypeOK, Holding, Unhandled, LogDeferralThrows, Step, AfterException, Goto, Fault, FinalLog, DeferLog
<1>3. Custody'
  BY DEF IInv, TypeOK, Holding, Unhandled, Custody, Settled, Queued, Carried, LogDeferralThrows, Step, AfterException, Goto, Fault, FinalLog, DeferLog
<1>4. OnlyAccepted'
  BY DEF IInv, TypeOK, Holding, OnlyAccepted, Queued, Settled, LogDeferralThrows, Step, AfterException, Goto, Fault, FinalLog, DeferLog
<1>5. Recorded'
  BY DEF IInv, TypeOK, Holding, Recorded, LogDeferralThrows, Step, AfterException, Goto, Fault, FinalLog, DeferLog
<1>6. QED BY <1>1, <1>2, <1>3, <1>4, <1>5 DEF IInv

\* An unhandled message is published again, or the refusal is on record; a handled one
\* was passed on before.
LEMMA SettleDeliveryKeeps ==
  ASSUME IInv, NEW w \in Workers, SettleDelivery(w) PROVE IInv'
<1>1. TypeOK'
  <2>1. wmsg[w] \in Messages
    BY DEF IInv, TypeOK, Holding, SettleDelivery
  <2>2. faults' \in 0..MaxFaults
    BY FaultIsBounded DEF IInv, TypeOK, SettleDelivery, Requeued
  <2>3. waiting' \in [Messages -> Nat]
    <3>1. waiting' = waiting \/ waiting' = Put(waiting, wmsg[w])
      BY DEF SettleDelivery, Requeued
    <3>2. waiting \in [Messages -> Nat]
      BY DEF IInv, TypeOK
    <3>3. Put(waiting, wmsg[w]) \in [Messages -> Nat]
      BY <2>1, <3>2, PutType
    <3>4. QED BY <3>1, <3>2, <3>3
  <2>4. QED BY <2>1, <2>2, <2>3
    DEF IInv, TypeOK, SettleDelivery, Requeued, Goto, SetHandled, WorkerPc, FinalLog, DeferLog
<1>2. Holding' /\ Unhandled'
  BY DEF IInv, TypeOK, Holding, Unhandled, SettleDelivery, Goto, Requeued, Put, SetHandled, Fault, FinalLog, DeferLog
<1>3. Custody'
  BY DEF IInv, TypeOK, Holding, Unhandled, Custody, Settled, Queued, Carried, SettleDelivery, Goto, Requeued, Put, SetHandled, Fault, FinalLog, DeferLog
<1>4. OnlyAccepted'
  BY DEF IInv, TypeOK, Holding, OnlyAccepted, Queued, Settled, SettleDelivery, Goto, Requeued, Put, SetHandled, Fault, FinalLog, DeferLog
<1>5. Recorded'
  BY DEF IInv, TypeOK, Holding, Recorded, SettleDelivery, Goto, Requeued, Put, SetHandled, Fault, FinalLog, DeferLog
<1>6. QED BY <1>1, <1>2, <1>3, <1>4, <1>5 DEF IInv

\* A publish that throws leaves the message with the worker, whether the broker has it or not.
LEMMA PublishThrowsKeeps ==
  ASSUME IInv, NEW w \in Workers, PublishThrows(w) PROVE IInv'
<1>0. wmsg[w] \in Messages /\ wmsg[w] \in accepted /\ wmsg[w] \in inbound \cup unrecorded
  BY DEF IInv, TypeOK, Holding, OnlyAccepted, Recorded, PublishThrows
<1>1. PICK pc \in {"abrupt", "settle", "stuck"} : Goto(w, pc)
  BY DEF PublishThrows
<1>2. /\ waiting' = waiting \/ waiting' = Put(waiting, wmsg[w])
      /\ wpc[w] \in {"enqueue", "requeue", "settle"}
      /\ UNCHANGED <<accepted, staging, inbound, outbound, stagerVars, wmsg, handled, stopping,
                     logVars, refused, unrecorded>>
  BY DEF PublishThrows
<1>3. TypeOK'
  <2>1. faults' \in 0..MaxFaults
    BY FaultIsBounded DEF PublishThrows
  <2>2. waiting' \in [Messages -> Nat]
    BY <1>0, <1>2, PutType DEF IInv, TypeOK
  <2>3. disturbed' \in SUBSET Messages
    BY <1>0 DEF IInv, TypeOK, PublishThrows
  <2>4. wpc' \in [Workers -> WorkerPc]
    BY <1>1 DEF IInv, TypeOK, Goto, WorkerPc, DeferLog
  <2>5. QED BY <1>2, <2>1, <2>2, <2>3, <2>4 DEF IInv, TypeOK
<1>4. Holding' /\ Unhandled'
  BY <1>1, <1>2 DEF IInv, TypeOK, Holding, Unhandled, Goto, FinalLog
<1>5. Custody'
  <2>1. \A m \in Messages : waiting[m] > 0 => waiting'[m] > 0
    BY <1>0, <1>2 DEF IInv, TypeOK, Put
  <2>2. QED BY <1>1, <1>2, <2>1 DEF IInv, TypeOK, Custody, Settled, Queued, Carried, Goto
<1>6. OnlyAccepted'
  <2>1. \A m \in Messages : waiting'[m] > 0 => waiting[m] > 0 \/ m = wmsg[w]
    BY <1>2 DEF IInv, TypeOK, Put
  <2>2. QED BY <1>0, <1>2, <2>1 DEF IInv, OnlyAccepted, Queued, Settled
<1>7. Recorded'
  <2>1. \A m \in Messages : waiting'[m] > 0 => waiting[m] > 0 \/ m = wmsg[w]
    BY <1>2 DEF IInv, TypeOK, Put
  <2>2. QED BY <1>0, <1>2, <2>1 DEF IInv, Recorded
<1>8. QED BY <1>3, <1>4, <1>5, <1>6, <1>7 DEF IInv

\* An acknowledgement that throws leaves the delivery with the worker.
LEMMA AckThrowsKeeps ==
  ASSUME IInv, NEW w \in Workers, AckThrows(w) PROVE IInv'
<1>1. TypeOK'
  BY DEF IInv, TypeOK, AckThrows, Step, Goto, Fault, WorkerPc
<1>2. Holding' /\ Unhandled'
  BY DEF IInv, TypeOK, Holding, Unhandled, AckThrows, Step, Goto, FinalLog
<1>3. Custody'
  BY DEF IInv, TypeOK, Custody, Settled, Queued, Carried, AckThrows, Step, Goto
<1>4. OnlyAccepted'
  BY DEF IInv, OnlyAccepted, Queued, Settled, AckThrows, Step
<1>5. Recorded'
  BY DEF IInv, Recorded, AckThrows, Step
<1>6. QED BY <1>1, <1>2, <1>3, <1>4, <1>5 DEF IInv

\* A worker acknowledges only what it no longer carries.
LEMMA AckKeeps ==
  ASSUME IInv, NEW w \in Workers, Ack(w) PROVE IInv'
<1>1. TypeOK'
  BY DEF IInv, TypeOK, Ack, Goto, SetHandled, WorkerPc, FinalLog, DeferLog
<1>2. Holding' /\ Unhandled'
  BY DEF IInv, TypeOK, Holding, Unhandled, Ack, Goto, SetHandled, FinalLog, DeferLog
<1>3. Custody'
  BY DEF IInv, TypeOK, Holding, Unhandled, Custody, Settled, Queued, Carried, Ack, Goto, SetHandled, FinalLog, DeferLog
<1>4. OnlyAccepted'
  BY DEF IInv, TypeOK, Holding, OnlyAccepted, Queued, Settled, Ack, Goto, SetHandled, FinalLog, DeferLog
<1>5. Recorded'
  BY DEF IInv, TypeOK, Holding, Recorded, Ack, Goto, SetHandled, FinalLog, DeferLog
<1>6. QED BY <1>1, <1>2, <1>3, <1>4, <1>5 DEF IInv

\* Dead-lettering moves a copy from one queue to another.
LEMMA ExpireKeeps ==
  ASSUME IInv, NEW m \in Messages, Expire(m) PROVE IInv'
<1>1. TypeOK'
  BY DEF IInv, TypeOK, Expire, Put, Take
<1>2. Holding' /\ Unhandled'
  BY DEF IInv, TypeOK, Holding, Unhandled, Expire, Put, Take
<1>3. Custody'
  BY DEF IInv, TypeOK, Holding, Unhandled, Custody, Settled, Queued, Carried, Expire, Put, Take
<1>4. OnlyAccepted'
  BY DEF IInv, TypeOK, Holding, OnlyAccepted, Queued, Settled, Expire, Put, Take
<1>5. Recorded'
  BY DEF IInv, TypeOK, Holding, Recorded, Expire, Put, Take
<1>6. QED BY <1>1, <1>2, <1>3, <1>4, <1>5 DEF IInv

\* The stop flag alone changes nothing.
LEMMA StopKeeps ==
  ASSUME IInv, Stop PROVE IInv'
<1>1. TypeOK'
  BY DEF IInv, TypeOK, Stop
<1>2. Holding' /\ Unhandled'
  BY DEF IInv, TypeOK, Holding, Unhandled, Stop
<1>3. Custody'
  BY DEF IInv, TypeOK, Holding, Unhandled, Custody, Settled, Queued, Carried, Stop
<1>4. OnlyAccepted'
  BY DEF IInv, TypeOK, Holding, OnlyAccepted, Queued, Settled, Stop
<1>5. Recorded'
  BY DEF IInv, TypeOK, Holding, Recorded, Stop
<1>6. QED BY <1>1, <1>2, <1>3, <1>4, <1>5 DEF IInv

\* A redelivery makes a copy ready for each thread that held one.
LEMMA RedeliveryCount ==
  ASSUME NEW m \in Messages
  PROVE  /\ Cardinality(StagersWith(m)) \in Nat
         /\ Cardinality(WorkersWith(m)) \in Nat
         /\ Cardinality(StagersWith(m)) > 0 <=> \E s \in Stagers : smsg[s] = m
         /\ Cardinality(WorkersWith(m)) > 0 <=> \E w \in Workers : wmsg[w] = m
<1>1. IsFiniteSet(StagersWith(m)) /\ IsFiniteSet(WorkersWith(m))
  BY ThreadsAssumption, FS_Subset DEF StagersWith, WorkersWith
<1>2. Cardinality(StagersWith(m)) \in Nat /\ Cardinality(WorkersWith(m)) \in Nat
  BY <1>1, FS_CardinalityType
<1>3. /\ Cardinality(StagersWith(m)) = 0 <=> StagersWith(m) = {}
      /\ Cardinality(WorkersWith(m)) = 0 <=> WorkersWith(m) = {}
  BY <1>1, FS_EmptySet
<1>4. /\ StagersWith(m) = {} <=> ~ \E s \in Stagers : smsg[s] = m
      /\ WorkersWith(m) = {} <=> ~ \E w \in Workers : wmsg[w] = m
  BY DEF StagersWith, WorkersWith
<1>5. QED BY <1>2, <1>3, <1>4

\* After a restart nobody holds a message, and what was held is queued.
LEMMA RestartRequeues ==
  ASSUME IInv, Restart
  PROVE  /\ staging' \in [Messages -> Nat]
         /\ outbound' \in [Messages -> Nat]
         /\ \A m \in Messages :
              /\ staging'[m] > 0 <=> staging[m] > 0 \/ \E s \in Stagers : smsg[s] = m
              /\ outbound'[m] > 0 <=> outbound[m] > 0 \/ \E w \in Workers : wmsg[w] = m
<1>1. \A m \in Messages : staging[m] \in Nat /\ outbound[m] \in Nat
  BY DEF IInv, TypeOK
<1>2. \A m \in Messages : /\ staging'[m] = staging[m] + Cardinality(StagersWith(m))
                          /\ outbound'[m] = outbound[m] + Cardinality(WorkersWith(m))
  BY DEF Restart
<1>3. staging' \in [Messages -> Nat] /\ outbound' \in [Messages -> Nat]
  BY <1>1, RedeliveryCount DEF Restart
<1>4. ASSUME NEW m \in Messages
      PROVE  /\ staging'[m] > 0 <=> staging[m] > 0 \/ \E s \in Stagers : smsg[s] = m
             /\ outbound'[m] > 0 <=> outbound[m] > 0 \/ \E w \in Workers : wmsg[w] = m
  <2>1. Cardinality(StagersWith(m)) \in Nat /\ Cardinality(WorkersWith(m)) \in Nat
    BY RedeliveryCount
  <2>2. /\ staging'[m] > 0 <=> staging[m] > 0 \/ Cardinality(StagersWith(m)) > 0
        /\ outbound'[m] > 0 <=> outbound[m] > 0 \/ Cardinality(WorkersWith(m)) > 0
    BY <1>1, <1>2, <2>1
  <2>3. QED BY <2>2, RedeliveryCount
<1>5. QED BY <1>3, <1>4

\* A restart makes every copy held by a thread ready again: nothing in custody is
\* lost.
LEMMA RestartKeeps ==
  ASSUME IInv, Restart PROVE IInv'
<1>1. TypeOK'
  <2>1. staging' \in [Messages -> Nat] /\ outbound' \in [Messages -> Nat]
    BY RestartRequeues
  <2>2. HalfDone \subseteq Messages
    <3>1. \A t \in Stagers : spc[t] = "ack" => smsg[t] \in Messages
      BY DEF IInv, TypeOK, Holding
    <3>2. \A v \in Workers : wpc[v] = "logSuccess" \/ handled[v] => wmsg[v] \in Messages
      BY DEF IInv, TypeOK, Holding, Unhandled
    <3>3. QED BY <3>1, <3>2 DEF HalfDone
  <2>3. faults' \in 0..MaxFaults
    BY FaultIsBounded DEF Restart
  <2>4. /\ spc' \in [Stagers -> StagerPc] /\ smsg' \in [Stagers -> Messages \cup {None}]
        /\ wpc' \in [Workers -> WorkerPc] /\ wmsg' \in [Workers -> Messages \cup {None}]
        /\ handled' \in [Workers -> BOOLEAN]
    BY DEF Restart, StagerPc, WorkerPc
  <2>5. QED BY <2>1, <2>2, <2>3, <2>4 DEF IInv, TypeOK, Restart
<1>2. Holding' /\ Unhandled'
  BY DEF Restart, Holding, Unhandled, FinalLog
<1>3. \A m \in Messages : Queued(m)' <=> Held(m)
  BY RestartRequeues DEF Queued, Held, Restart
<1>4. Custody'
  <2>1. \A m \in Messages : Queued(m) \/ Carried(m) => Held(m)
    BY DEF Queued, Carried, Held
  <2>2. accepted \subseteq Messages
    BY DEF IInv, TypeOK
  <2>3. QED BY <1>3, <2>1, <2>2 DEF IInv, Custody, Settled, Restart
<1>5. OnlyAccepted'
  <2>1. \A m \in Messages : Held(m) => m \in accepted
    BY NoneAssumption DEF IInv, OnlyAccepted, Queued, Held
  <2>2. QED BY <1>3, <2>1 DEF IInv, OnlyAccepted, Settled, Restart
<1>6. Recorded'
  <2>1. \A m \in Messages : outbound'[m] > 0 => m \in inbound \cup unrecorded
    BY RestartRequeues, NoneAssumption DEF IInv, Recorded
  <2>2. QED BY <2>1 DEF IInv, Recorded, Restart
<1>7. QED BY <1>1, <1>2, <1>4, <1>5, <1>6 DEF IInv

\* The invariant speaks of the variables of the relay only.
LEMMA StutterKeeps == ASSUME IInv, UNCHANGED vars PROVE IInv'
  BY DEF vars, IInv, TypeOK, Holding, Unhandled, Custody, OnlyAccepted, Recorded,
         Settled, Queued, Carried

\* Every step of the relay keeps the invariant.
LEMMA NextKeeps == ASSUME IInv, [Next]_vars PROVE IInv'
<1>1. ASSUME NEW m \in Messages, Enqueue(m) \/ Expire(m) PROVE IInv'
  BY <1>1, EnqueueKeeps, ExpireKeeps
<1>2. ASSUME NEW s \in Stagers, StagerStep(s) PROVE IInv'
  BY <1>2, StagerDequeueKeeps, StagerPublishInboundKeeps, StagerPublishOutboundKeeps,
     StagerAckKeeps DEF StagerStep
<1>3. ASSUME NEW w \in Workers, SendStep(w) PROVE IInv'
  BY <1>3, LoopStoppedKeeps, NotDueKeeps, AlreadyHandledKeeps, NotYetHandledKeeps,
     CheckThrowsKeeps, RouteKeeps, ConnectKeeps, DelayMessageKeeps, RequeueKeeps, RemoteAcceptsKeeps,
     SessionFailsKeeps, ReplyLostKeeps, LogFinalKeeps, LogFinalThrowsKeeps,
     SessionEndThrowsKeeps, LogDeferralKeeps, LogDeferralThrowsKeeps, SettleDeliveryKeeps,
     PublishThrowsKeeps, AckKeeps, AckThrowsKeeps DEF SendStep
<1>4. ASSUME NEW w \in Workers, WorkerStep(w) PROVE IInv'
  BY <1>3, <1>4, DequeueKeeps, DequeueNothingKeeps DEF WorkerStep
<1>5. QED BY <1>1, <1>2, <1>4, StopKeeps, RestartKeeps, StutterKeeps DEF Next

\* The invariant holds in every state the relay reaches: each action keeps it, by the
\* lemmas above.
THEOREM Inductive == Spec => []IInv
<1>1. Init => IInv
  BY InitIInv
<1>2. IInv /\ [Next]_vars => IInv'
  BY NextKeeps
<1>3. QED BY <1>1, <1>2, PTL DEF Spec

-----------------------------------------------------------------------------

\* The relay keeps its types: in particular no queue ever gives out a copy that it does
\* not have, however threads, restarts and dead-lettering interleave.
THEOREM TypeCorrect == Spec => []TypeOK
<1>1. IInv => TypeOK
  BY DEF IInv
<1>2. QED BY <1>1, Inductive, PTL

\* An accepted message is settled or held somewhere, for every number of threads and of
\* crashes, unless the broker refused a publish of it.
THEOREM AcceptedIsSettledOrHeld == Spec => []NoSilentLoss
<1>1. ASSUME IInv PROVE NoSilentLoss
  <2> SUFFICES ASSUME NEW m \in accepted \ refused, ~Settled(m) PROVE Held(m)
    BY DEF NoSilentLoss
  <2>1. Queued(m) \/ Carried(m)
    BY <1>1 DEF IInv, Custody
  <2>2. QED BY <2>1 DEF Queued, Carried, Held
<1>2. QED BY <1>1, Inductive, PTL

\* A message is queued for a worker, held by one or delivered only after the staging thread
\* handed it to the importer, whatever was redelivered in between.
THEOREM RecordedFirst == Spec => []RecordedBeforeSent
<1>1. ASSUME IInv PROVE RecordedBeforeSent
  <2> SUFFICES ASSUME NEW m \in Messages,
                      \/ outbound[m] + waiting[m] > 0
                      \/ m \in {wmsg[w] : w \in Workers}
                      \/ delivered[m] > 0
               PROVE  m \in inbound \cup unrecorded
    BY DEF RecordedBeforeSent
  <2>1. CASE outbound[m] + waiting[m] > 0
    BY <1>1, <2>1 DEF IInv, TypeOK, Recorded
  <2>2. CASE m \in {wmsg[w] : w \in Workers}
    BY <1>1, <2>2 DEF IInv, Recorded
  <2>3. CASE delivered[m] > 0
    BY <1>1, <2>3 DEF IInv, Recorded
  <2>4. QED BY <2>1, <2>2, <2>3
<1>2. QED BY <1>1, Inductive, PTL

-----------------------------------------------------------------------------
(***************************************************************************)
(* Proof that a relayed message is attempted at most once and that its     *)
(* final row tells the truth, for every number of messages, threads and    *)
(* faults.                                                                 *)
(*                                                                         *)
(* As long as no fault disturbed a message and it has no final row, one    *)
(* copy of it at most is alive: in a queue, with a staging thread that has *)
(* not published it, or with a worker that has not handled it.  So the     *)
(* worker that writes the row is the only one that can have given the      *)
(* message to a remote MX, and whoever finds another copy afterwards finds *)
(* the row.                                                                *)
(***************************************************************************)

\* The copies that can still be published, or attempted.
LiveStager(s, m) == smsg[s] = m /\ spc[s] \in {"inbound", "outbound"}
LiveWorker(w, m) == wmsg[w] = m /\ ~handled[w]

\* At most one copy of m is alive.
Alone(m) ==
  /\ staging[m] + outbound[m] + waiting[m] <= 1
  /\ Queued(m) => /\ \A s \in Stagers : ~LiveStager(s, m)
                  /\ \A w \in Workers : ~LiveWorker(w, m)
  /\ \A s, t \in Stagers : LiveStager(s, m) /\ LiveStager(t, m) => s = t
  /\ \A v, w \in Workers : LiveWorker(v, m) /\ LiveWorker(w, m) => v = w
  /\ \A s \in Stagers, w \in Workers : ~(LiveStager(s, m) /\ LiveWorker(w, m))

\* A worker that is past the look into the log and has not written its row.
Attempting(w, m) == wmsg[w] = m /\ wpc[w] \in {"route", "connect", "session"} \cup FinalLog
Confirmed(w, m) == wmsg[w] = m /\ wpc[w] = "logSuccess"

\* Nobody attempts a message that has its row, which says what became of the one attempt.
RowIsRight(m) ==
  /\ success[m] + rejected[m] = 1 /\ delivered[m] = success[m]
  /\ \A w \in Workers : ~Attempting(w, m)

\* Without a row, a message was delivered if a worker is about to write so.
NotYet(m) ==
  /\ Alone(m)
  /\ IF \E w \in Workers : Confirmed(w, m) THEN delivered[m] = 1 ELSE delivered[m] = 0

\* A worker that puts its message off has not published it yet, or it has its row.
Deferring == \A w \in Workers :
               wpc[w] \in DeferLog \cup {"enqueue", "requeue"} => ~handled[w] \/ Settled(wmsg[w])

Once(m) == IF Settled(m) THEN RowIsRight(m) ELSE NotYet(m)
OnceInv == \A m \in Messages \ disturbed : Once(m)

\* Confirmations and rows that say so: of disturbed messages too.
Confirming(m) == {w \in Workers : Confirmed(w, m)}
Counted == \A m \in Messages : Cardinality(Confirming(m)) + success[m] <= delivered[m]

-----------------------------------------------------------------------------
(* What a step has to leave alone                                          *)

\* Neither a row nor a confirmation of m, and no attempt begins after the row.
KeepsRows(m) ==
  /\ success'[m] = success[m] /\ rejected'[m] = rejected[m] /\ delivered'[m] = delivered[m]
  /\ \A w \in Workers : Confirmed(w, m)' <=> Confirmed(w, m)
  /\ \A w \in Workers : Attempting(w, m)' => Attempting(w, m) \/ ~Settled(m)

\* No copy of m moves or comes to life.
KeepsCopies(m) ==
  /\ staging'[m] = staging[m] /\ outbound'[m] = outbound[m] /\ waiting'[m] = waiting[m]
  /\ \A s \in Stagers : LiveStager(s, m)' => LiveStager(s, m)
  /\ \A w \in Workers : LiveWorker(w, m)' => LiveWorker(w, m)

\* Copies that stay where they are stay as few.
LEMMA CopiesKept == ASSUME NEW m \in Messages, Alone(m), KeepsCopies(m) PROVE Alone(m)'
  BY DEF Alone, KeepsCopies, Queued

\* A step that touches no row of m needs to be looked at only for the copies of m.
LEMMA RowsKept ==
  ASSUME NEW m \in Messages, Once(m), KeepsRows(m),
         ~Settled(m) => (Alone(m) => Alone(m)')
  PROVE  Once(m)'
<1>1. Settled(m)' <=> Settled(m)
  BY DEF KeepsRows, Settled
<1>2. CASE Settled(m)
  BY <1>1, <1>2 DEF Once, RowIsRight, KeepsRows
<1>3. CASE ~Settled(m)
  BY <1>1, <1>3 DEF Once, NotYet, KeepsRows
<1>4. QED BY <1>2, <1>3

\* A step that touches neither.
LEMMA NothingMoves ==
  ASSUME OnceInv, disturbed \subseteq disturbed',
         \A m \in Messages \ disturbed' : KeepsRows(m) /\ KeepsCopies(m)
  PROVE  OnceInv'
<1> SUFFICES ASSUME NEW m \in Messages \ disturbed' PROVE Once(m)'
  BY DEF OnceInv
<1>1. Once(m)
  BY DEF OnceInv
<1>2. QED BY <1>1, RowsKept, CopiesKept

\* A step that moves copies of one message m only.
LEMMA OneMoves ==
  ASSUME OnceInv, disturbed \subseteq disturbed', NEW m \in Messages,
         \A n \in Messages \ disturbed' : KeepsRows(n),
         \A n \in Messages \ {m} : KeepsCopies(n),
         m \notin disturbed' /\ ~Settled(m) /\ Alone(m) => Alone(m)'
  PROVE  OnceInv'
<1> SUFFICES ASSUME NEW n \in Messages \ disturbed' PROVE Once(n)'
  BY DEF OnceInv
<1>1. Once(n)
  BY DEF OnceInv
<1>2. CASE n = m
  BY <1>1, <1>2, RowsKept
<1>3. CASE n # m
  BY <1>1, <1>3, RowsKept, CopiesKept
<1>4. QED BY <1>2, <1>3

-----------------------------------------------------------------------------
(* The staging side                                                        *)

\* The first copy of a message that QueueManager.Enqueue did not accept before.
LEMMA EnqueueOnce == ASSUME IInv, OnceInv, NEW m \in Messages, Enqueue(m) PROVE OnceInv'
<1>1. \A n \in Messages : KeepsRows(n)
  BY DEF KeepsRows, Confirmed, Attempting, Enqueue
<1>2. \A n \in Messages \ {m} : KeepsCopies(n)
  BY DEF IInv, TypeOK, KeepsCopies, LiveStager, LiveWorker, Enqueue, Put
<1>3. ~Queued(m) /\ (\A s \in Stagers : smsg[s] # m) /\ (\A w \in Workers : wmsg[w] # m)
  BY NoneAssumption DEF IInv, OnlyAccepted, Enqueue
<1>4. staging'[m] = 1 /\ outbound'[m] = 0 /\ waiting'[m] = 0
  BY <1>3 DEF IInv, TypeOK, Queued, Enqueue, Put
<1>5. Alone(m)'
  BY <1>3, <1>4 DEF Alone, LiveStager, LiveWorker, Enqueue
<1>6. disturbed' = disturbed
  BY DEF Enqueue
<1>7. QED BY <1>1, <1>2, <1>5, <1>6, OneMoves

\* The copy goes from InboundStaging to the thread.
LEMMA StagerDequeueOnce ==
  ASSUME IInv, OnceInv, NEW s \in Stagers, NEW m \in Messages, StagerDequeue(s, m) PROVE OnceInv'
<1>1. \A n \in Messages : KeepsRows(n)
  BY DEF KeepsRows, Confirmed, Attempting, StagerDequeue
<1>2. \A n \in Messages \ {m} : KeepsCopies(n)
  BY DEF IInv, TypeOK, KeepsCopies, LiveStager, LiveWorker, StagerDequeue, Take
<1>3. ASSUME Alone(m) PROVE Alone(m)'
  <2>1. staging[m] = 1 /\ outbound[m] = 0 /\ waiting[m] = 0
        /\ (\A t \in Stagers : ~LiveStager(t, m)) /\ (\A w \in Workers : ~LiveWorker(w, m))
    BY <1>3 DEF IInv, TypeOK, Alone, Queued, StagerDequeue
  <2>2. staging'[m] = 0 /\ outbound'[m] = 0 /\ waiting'[m] = 0
    BY <2>1 DEF IInv, TypeOK, StagerDequeue, Take
  <2>3. (\A t \in Stagers : LiveStager(t, m)' => t = s) /\ (\A w \in Workers : ~LiveWorker(w, m)')
    BY <2>1 DEF IInv, TypeOK, LiveStager, LiveWorker, StagerDequeue
  <2>4. QED BY <2>2, <2>3 DEF Alone, Queued
<1>4. disturbed' = disturbed
  BY DEF StagerDequeue
<1>5. QED BY <1>1, <1>2, <1>3, <1>4, OneMoves

\* The publish to Inbound, and the acknowledgement, move no copy.
LEMMA StagerQuietOnce ==
  ASSUME IInv, OnceInv, NEW s \in Stagers, StagerPublishInbound(s) \/ StagerAck(s) PROVE OnceInv'
<1>1. \A n \in Messages : KeepsRows(n)
  BY DEF KeepsRows, Confirmed, Attempting, StagerPublishInbound, StagerAck
<1>2. \A n \in Messages : KeepsCopies(n)
  BY DEF IInv, TypeOK, KeepsCopies, LiveStager, LiveWorker, StagerPublishInbound, StagerAck
<1>3. disturbed' = disturbed
  BY DEF StagerPublishInbound, StagerAck
<1>4. QED BY <1>1, <1>2, <1>3, NothingMoves

\* The copy goes from the thread to OutboundWaiting; or it is refused.
LEMMA StagerPublishOutboundOnce ==
  ASSUME IInv, OnceInv, NEW s \in Stagers, StagerPublishOutbound(s) PROVE OnceInv'
<1>0. PICK m \in Messages : smsg[s] = m /\ LiveStager(s, m)
  BY DEF IInv, TypeOK, Holding, LiveStager, StagerPublishOutbound
<1>1. \A n \in Messages : KeepsRows(n)
  BY DEF KeepsRows, Confirmed, Attempting, StagerPublishOutbound
<1>2. \A n \in Messages \ {m} : KeepsCopies(n)
  BY <1>0 DEF IInv, TypeOK, KeepsCopies, LiveStager, LiveWorker, StagerPublishOutbound, Put
<1>3. ASSUME Alone(m) PROVE Alone(m)'
  <2>1. staging[m] = 0 /\ outbound[m] = 0 /\ waiting[m] = 0
        /\ (\A t \in Stagers : LiveStager(t, m) => t = s) /\ (\A w \in Workers : ~LiveWorker(w, m))
    BY <1>0, <1>3 DEF IInv, TypeOK, Alone, Queued
  <2>2. staging'[m] = 0 /\ outbound'[m] \in {0, 1} /\ waiting'[m] = 0
    BY <1>0, <2>1 DEF IInv, TypeOK, StagerPublishOutbound, Put
  <2>3. (\A t \in Stagers : ~LiveStager(t, m)') /\ (\A w \in Workers : ~LiveWorker(w, m)')
    BY <1>0, <2>1 DEF IInv, TypeOK, LiveStager, LiveWorker, StagerPublishOutbound
  <2>4. QED BY <2>2, <2>3 DEF Alone, Queued
<1>4. disturbed' = disturbed
  BY DEF StagerPublishOutbound
<1>5. QED BY <1>0, <1>1, <1>2, <1>3, <1>4, OneMoves

-----------------------------------------------------------------------------
(* The sender: copies that move                                            *)

\* The copy goes from OutboundWaiting to the worker.
LEMMA DequeueOnce ==
  ASSUME IInv, OnceInv, NEW w \in Workers, NEW m \in Messages, Dequeue(w, m) PROVE OnceInv'
<1>0. wmsg[w] = None /\ m # None
  BY NoneAssumption DEF IInv, Holding, Dequeue
<1>1. \A n \in Messages : KeepsRows(n)
  BY <1>0, NoneAssumption
     DEF IInv, TypeOK, KeepsRows, Confirmed, Attempting, Dequeue, Goto, FinalLog
<1>2. \A n \in Messages \ {m} : KeepsCopies(n)
  BY <1>0 DEF IInv, TypeOK, KeepsCopies, LiveStager, LiveWorker, Dequeue, Take, SetHandled
<1>3. ASSUME Alone(m) PROVE Alone(m)'
  <2>1. staging[m] = 0 /\ outbound[m] = 1 /\ waiting[m] = 0
        /\ (\A t \in Stagers : ~LiveStager(t, m)) /\ (\A v \in Workers : ~LiveWorker(v, m))
    BY <1>3 DEF IInv, TypeOK, Alone, Queued, Dequeue
  <2>2. staging'[m] = 0 /\ outbound'[m] = 0 /\ waiting'[m] = 0
    BY <2>1 DEF IInv, TypeOK, Dequeue, Take
  <2>3. (\A t \in Stagers : ~LiveStager(t, m)') /\ (\A v \in Workers : LiveWorker(v, m)' => v = w)
    BY <2>1 DEF IInv, TypeOK, LiveStager, LiveWorker, Dequeue, SetHandled
  <2>4. QED BY <2>2, <2>3 DEF Alone, Queued
<1>4. disturbed' = disturbed
  BY DEF Dequeue
<1>5. QED BY <1>1, <1>2, <1>3, <1>4, OneMoves

\* Dead-lettering.
LEMMA ExpireOnce == ASSUME IInv, OnceInv, NEW m \in Messages, Expire(m) PROVE OnceInv'
<1>1. \A n \in Messages : KeepsRows(n)
  BY DEF KeepsRows, Confirmed, Attempting, Expire
<1>2. \A n \in Messages \ {m} : KeepsCopies(n)
  BY DEF IInv, TypeOK, KeepsCopies, LiveStager, LiveWorker, Expire, Take, Put
<1>3. ASSUME Alone(m) PROVE Alone(m)'
  <2>1. staging[m] = 0 /\ outbound[m] = 0 /\ waiting[m] = 1
        /\ (\A t \in Stagers : ~LiveStager(t, m)) /\ (\A v \in Workers : ~LiveWorker(v, m))
    BY <1>3 DEF IInv, TypeOK, Alone, Queued, Expire
  <2>2. staging'[m] = 0 /\ outbound'[m] = 1 /\ waiting'[m] = 0
    BY <2>1 DEF IInv, TypeOK, Expire, Take, Put
  <2>3. (\A t \in Stagers : ~LiveStager(t, m)') /\ (\A v \in Workers : ~LiveWorker(v, m)')
    BY <2>1 DEF LiveStager, LiveWorker, Expire
  <2>4. QED BY <2>2, <2>3 DEF Alone, Queued
<1>4. disturbed' = disturbed
  BY DEF Expire
<1>5. QED BY <1>1, <1>2, <1>3, <1>4, OneMoves

\* The publish to a wait queue moves the copy of the worker there, if the worker is not attempting
\* it any more, or moves nothing when the broker refuses it.
LEMMA PublishOnce ==
  ASSUME IInv, OnceInv, NEW w \in Workers, NEW m \in Messages, wmsg[w] = m,
         wpc[w] \notin FinalLog, NEW pc, pc \notin {"route", "connect", "session"} \cup FinalLog,
         Goto(w, pc), UNCHANGED <<wmsg, smsg, spc, staging, outbound, disturbed, logVars>>,
         \/ ~handled[w] /\ waiting' = Put(waiting, m) /\ SetHandled(w, TRUE)
         \/ waiting' = waiting /\ SetHandled(w, TRUE)
         \/ waiting' = waiting /\ UNCHANGED handled
         \/ Settled(m) /\ waiting' = Put(waiting, m) /\ SetHandled(w, TRUE)
  PROVE  OnceInv'
<1>1. \A n \in Messages : KeepsRows(n)
  BY DEF IInv, TypeOK, KeepsRows, Confirmed, Attempting, Goto, FinalLog
<1>2. \A n \in Messages \ {m} : KeepsCopies(n)
  BY DEF IInv, TypeOK, KeepsCopies, LiveStager, LiveWorker, Put, SetHandled
<1>3. ASSUME Alone(m), ~Settled(m) PROVE Alone(m)'
  <2>1. CASE ~handled[w] /\ waiting' = Put(waiting, m) /\ SetHandled(w, TRUE)
    <3>1. staging[m] = 0 /\ outbound[m] = 0 /\ waiting[m] = 0
          /\ (\A t \in Stagers : ~LiveStager(t, m)) /\ (\A v \in Workers : LiveWorker(v, m) => v = w)
      BY <1>3, <2>1 DEF IInv, TypeOK, Alone, Queued, LiveWorker
    <3>2. staging'[m] = 0 /\ outbound'[m] = 0 /\ waiting'[m] = 1
      BY <2>1, <3>1 DEF IInv, TypeOK, Put
    <3>3. (\A t \in Stagers : ~LiveStager(t, m)') /\ (\A v \in Workers : ~LiveWorker(v, m)')
      BY <2>1, <3>1 DEF IInv, TypeOK, LiveStager, LiveWorker, SetHandled
    <3>4. QED BY <3>2, <3>3 DEF Alone, Queued
  <2>2. CASE waiting' = waiting /\ (SetHandled(w, TRUE) \/ UNCHANGED handled)
    <3>1. KeepsCopies(m)
      BY <2>2 DEF IInv, TypeOK, KeepsCopies, LiveStager, LiveWorker, SetHandled
    <3>2. QED BY <3>1, <1>3, CopiesKept
  <2>3. QED BY <1>3, <2>1, <2>2
<1>4. QED BY <1>1, <1>2, <1>3, OneMoves

\* Settling a delivery leaves at most one copy.
LEMMA SettleDeliveryOnce ==
  ASSUME IInv, OnceInv, NEW w \in Workers, SettleDelivery(w) PROVE OnceInv'
<1>1. PICK m \in Messages : wmsg[w] = m
  BY DEF IInv, TypeOK, Holding, SettleDelivery
<1>2. wpc[w] \notin FinalLog /\ "ack" \notin {"route", "connect", "session"} \cup FinalLog
  BY DEF SettleDelivery, FinalLog
<1>3. QED BY <1>1, <1>2, PublishOnce DEF SettleDelivery, Requeued

\* A row of m stays.
LEMMA RowsStay ==
  ASSUME IInv, [Next]_vars, NEW m \in Messages, Settled(m) PROVE Settled(m)'
<1>1. success \in [Messages -> Nat] /\ rejected \in [Messages -> Nat]
  BY DEF IInv, TypeOK
<1>2. CASE UNCHANGED logVars
  BY <1>2 DEF Settled
<1>3. ASSUME NEW w \in Workers, RemoteAccepts(w) \/ ReplyLost(w) PROVE Settled(m)'
  BY <1>3 DEF Settled, RemoteAccepts, ReplyLost
<1>4. ASSUME NEW w \in Workers, LogFinalRow(w) PROVE Settled(m)'
  BY <1>1, <1>4 DEF Settled, LogFinalRow, Put
<1>5. ASSUME NEW w \in Workers, SendStep(w) PROVE Settled(m)'
  BY <1>2, <1>3, <1>4, <1>5 DEF SendStep, LoopStopped, NotDue, AlreadyHandled, NotYetHandled,
     CheckThrows, Route, Connect, DelayMessage, Requeue, SessionFails, LogFinal, LogFinalThrows,
     SessionEndThrows, LogDeferral, LogDeferralThrows, SettleDelivery, PublishThrows, Ack,
     AckThrows, Step
<1>6. QED
  BY <1>2, <1>5 DEF Next, vars, Enqueue, Expire, StagerStep, StagerDequeue, StagerPublishInbound,
     StagerPublishOutbound, StagerAck, WorkerStep, Dequeue, DequeueNothing, Stop, Restart

\* HandleDelivery...Async and Enqueue are reached before the message is published, or after
\* its row was written and an exception came behind it.
LEMMA DeferringKept == ASSUME IInv, Deferring, [Next]_vars PROVE Deferring'
<1> USE DEF Deferring, FinalLog, DeferLog
<1>1. \A m \in Messages : Settled(m) => Settled(m)'
  BY RowsStay
<1>2. \A v \in Workers : wpc[v] \in DeferLog \cup {"enqueue", "requeue"} => wmsg[v] \in Messages
  BY DEF IInv, TypeOK, Holding
<1>3. ASSUME NEW w \in Workers,
             \A v \in Workers \ {w} :
               wpc'[v] = wpc[v] /\ wmsg'[v] = wmsg[v] /\ handled'[v] = handled[v],
             wpc'[w] \in DeferLog \cup {"enqueue", "requeue"}
               => ~handled'[w] \/ (Settled(wmsg[w])' /\ wmsg' = wmsg)
      PROVE  Deferring'
  BY <1>1, <1>2, <1>3
<1>4. ASSUME NEW w \in Workers, LoopStopped(w) \/ AlreadyHandled(w) \/ NotYetHandled(w)
               \/ CheckThrows(w) \/ LogFinal(w) \/ SettleDelivery(w) \/ Ack(w) \/ DelayMessage(w)
               \/ Requeue(w) \/ RemoteAccepts(w) \/ DequeueNothing(w)
      PROVE  Deferring'
  BY <1>3, <1>4 DEF IInv, TypeOK, LoopStopped, AlreadyHandled, NotYetHandled, CheckThrows, LogFinal,
     SettleDelivery, Ack, DelayMessage, Requeue, RemoteAccepts, DequeueNothing, Step, Goto,
     SetHandled, Requeued
<1>5. ASSUME NEW w \in Workers,
             NotDue(w) \/ Route(w) \/ Connect(w) \/ SessionFails(w) \/ ReplyLost(w)
      PROVE  Deferring'
  BY <1>3, <1>5
  DEF IInv, TypeOK, Unhandled, NotDue, Route, Connect, SessionFails, ReplyLost, Step, Goto
<1>6. ASSUME NEW w \in Workers, LogFinalThrows(w) PROVE Deferring'
  BY <1>3, <1>6 DEF IInv, TypeOK, Unhandled, LogFinalThrows, Goto
<1>7. ASSUME NEW w \in Workers, SessionEndThrows(w) PROVE Deferring'
  <2>1. Settled(wmsg[w])' /\ wmsg' = wmsg
    BY <1>7 DEF IInv, TypeOK, Holding, SessionEndThrows, LogFinalRow, Settled, Put
  <2>2. QED BY <1>3, <1>7, <2>1 DEF IInv, TypeOK, SessionEndThrows, Goto, SetHandled
<1>8. ASSUME NEW w \in Workers, LogDeferral(w) \/ LogDeferralThrows(w) PROVE Deferring'
  <2>1. wmsg' = wmsg /\ handled' = handled /\ (~handled[w] \/ Settled(wmsg[w])')
    BY <1>1, <1>2, <1>8 DEF LogDeferral, LogDeferralThrows, Step
  <2>2. QED BY <1>3, <1>8, <2>1 DEF IInv, TypeOK, LogDeferral, LogDeferralThrows, Step, Goto
<1>9. ASSUME NEW w \in Workers, NEW m \in Messages, Dequeue(w, m) PROVE Deferring'
  BY <1>3, <1>9 DEF IInv, TypeOK, Dequeue, Goto, SetHandled
<1>10. CASE Restart
  BY <1>10 DEF Restart
<1>11. CASE UNCHANGED <<wpc, wmsg, handled>>
  BY <1>1, <1>2, <1>11
<1>12. ASSUME NEW w \in Workers, PublishThrows(w) \/ AckThrows(w) PROVE Deferring'
  <2>1. wpc'[w] \in DeferLog \cup {"enqueue", "requeue"}
          => wpc[w] = "requeue" /\ wmsg' = wmsg /\ handled' = handled
    BY <1>12 DEF IInv, TypeOK, PublishThrows, AckThrows, Step, Goto
  <2>2. \A v \in Workers \ {w} :
          wpc'[v] = wpc[v] /\ wmsg'[v] = wmsg[v] /\ handled'[v] = handled[v]
    BY <1>12 DEF IInv, TypeOK, PublishThrows, AckThrows, Step, Goto
  <2>3. QED BY <1>1, <1>2, <1>3, <2>1, <2>2
<1>13. ASSUME NEW w \in Workers, WorkerStep(w) PROVE Deferring'
  BY <1>4, <1>5, <1>6, <1>7, <1>8, <1>9, <1>13, <1>12 DEF WorkerStep, SendStep
<1>14. QED
  BY <1>10, <1>11, <1>13 DEF Next, vars, Enqueue, Expire, StagerStep, StagerDequeue,
     StagerPublishInbound, StagerPublishOutbound, StagerAck, Stop

\* So does putting it off.
LEMMA PutOffOnce ==
  ASSUME IInv, OnceInv, Deferring, NEW w \in Workers, DelayMessage(w) \/ Requeue(w) PROVE OnceInv'
<1>1. PICK m \in Messages : wmsg[w] = m
  BY DEF IInv, TypeOK, Holding, DelayMessage, Requeue
<1>2. wpc[w] \notin FinalLog /\ "settle" \notin {"route", "connect", "session"} \cup FinalLog
      /\ (~handled[w] \/ Settled(m))
  BY <1>1 DEF DelayMessage, Requeue, FinalLog, Deferring
<1>3. QED BY <1>1, <1>2, PublishOnce DEF DelayMessage, Requeue, Requeued

-----------------------------------------------------------------------------
(* The sender: steps that move no copy                                     *)

\* A worker that is not about to confirm goes on, or lets go of its message: to the attempt only
\* if it was attempting already or found no row.
LEMMA QuietOnce ==
  ASSUME IInv, OnceInv, NEW w \in Workers, NEW pc, Goto(w, pc),
         \A v \in Workers \ {w} : wmsg'[v] = wmsg[v] /\ (handled[v] => handled'[v]),
         wmsg'[w] \in {wmsg[w], None}, handled[w] => handled'[w] \/ wmsg'[w] = None,
         wpc[w] = "logSuccess" => wmsg[w] \in disturbed',
         pc # "logSuccess",
         pc \in {"route", "connect", "session"} \cup FinalLog
           => wpc[w] \in {"route", "connect", "session"} \cup FinalLog \/ ~Settled(wmsg[w]),
         UNCHANGED <<smsg, spc, staging, outbound, waiting, logVars>>, disturbed \subseteq disturbed'
  PROVE  OnceInv'
<1> SUFFICES ASSUME NEW m \in Messages \ disturbed' PROVE KeepsRows(m) /\ KeepsCopies(m)
  BY NothingMoves
<1>1. \A v \in Workers : Confirmed(v, m)' <=> Confirmed(v, m)
  BY NoneAssumption DEF IInv, TypeOK, Confirmed, Goto
<1>2. \A v \in Workers : Attempting(v, m)' => Attempting(v, m) \/ ~Settled(m)
  BY NoneAssumption DEF IInv, TypeOK, Attempting, Goto
<1>3. KeepsRows(m)
  BY <1>1, <1>2 DEF KeepsRows
<1>4. KeepsCopies(m)
  BY NoneAssumption DEF KeepsCopies, LiveStager, LiveWorker
<1>5. QED BY <1>3, <1>4

\* The look into the log, the way to an attempt and its failures, stops, and acknowledgements.
LEMMA QuietActionsOnce ==
  ASSUME IInv, OnceInv, NEW w \in Workers,
         \/ DequeueNothing(w) \/ LoopStopped(w) \/ NotDue(w) \/ AlreadyHandled(w)
         \/ NotYetHandled(w) \/ CheckThrows(w) \/ Route(w) \/ Connect(w) \/ SessionFails(w)
         \/ LogDeferral(w) \/ LogDeferralThrows(w) \/ Ack(w) \/ AckThrows(w)
  PROVE  OnceInv'
<1> USE DEF FinalLog, DeferLog
<1>1. CASE DequeueNothing(w) \/ Ack(w)
  BY <1>1, QuietOnce DEF IInv, TypeOK, DequeueNothing, Ack, SetHandled
<1>2. CASE LoopStopped(w) \/ NotDue(w) \/ CheckThrows(w)
  BY <1>2, QuietOnce DEF LoopStopped, NotDue, CheckThrows, Step
<1>3. CASE AlreadyHandled(w)
  BY <1>3, QuietOnce DEF IInv, TypeOK, AlreadyHandled, Step, SetHandled
<1>4. CASE NotYetHandled(w)
  BY <1>4, QuietOnce DEF NotYetHandled, Step
<1>5. CASE Route(w) \/ Connect(w)
  BY <1>5, QuietOnce DEF Route, Connect, Step
<1>6. CASE SessionFails(w)
  BY <1>6, QuietOnce DEF SessionFails, Step
<1>7. CASE LogDeferral(w) \/ LogDeferralThrows(w)
  <2>1. PICK pc \in {"requeue", "settle", "abrupt"} : Goto(w, pc)
    BY <1>7 DEF LogDeferral, LogDeferralThrows, Step, AfterException
  <2>2. QED BY <1>7, <2>1, QuietOnce DEF LogDeferral, LogDeferralThrows, Step
<1>8. CASE AckThrows(w)
  BY <1>8, QuietOnce DEF AckThrows, Step
<1>9. QED BY <1>1, <1>2, <1>3, <1>4, <1>5, <1>6, <1>7, <1>8

\* A publish that throws moves nothing, or disturbs the message.
LEMMA PublishThrowsOnce ==
  ASSUME IInv, OnceInv, NEW w \in Workers, PublishThrows(w) PROVE OnceInv'
<1>1. PICK pc \in {"abrupt", "settle", "stuck"} : Goto(w, pc)
  BY DEF PublishThrows
<1>2. wpc[w] \notin {"route", "connect", "session"} \cup FinalLog
      /\ pc \notin {"route", "connect", "session"} \cup FinalLog
  BY DEF PublishThrows, FinalLog
<1>3. CASE UNCHANGED <<waiting, disturbed>>
  BY <1>1, <1>2, <1>3, QuietOnce DEF PublishThrows, FinalLog
<1>4. CASE waiting' = Put(waiting, wmsg[w]) /\ disturbed' = disturbed \cup {wmsg[w]}
  <2>1. \A m \in Messages : KeepsRows(m)
    BY <1>1, <1>2 DEF IInv, TypeOK, KeepsRows, Confirmed, Attempting, Goto, FinalLog, PublishThrows
  <2>2. \A m \in Messages \ {wmsg[w]} : KeepsCopies(m)
    BY <1>4 DEF IInv, TypeOK, KeepsCopies, LiveStager, LiveWorker, Put, PublishThrows
  <2>3. disturbed \subseteq disturbed' /\ \A m \in Messages \ disturbed' : m # wmsg[w]
    BY <1>4
  <2>4. QED BY <2>1, <2>2, <2>3, NothingMoves
<1>5. QED BY <1>3, <1>4 DEF PublishThrows

-----------------------------------------------------------------------------
(* The sender: the confirmation and the rows                               *)

\* A step about one message m only.
LEMMA OneDecided ==
  ASSUME OnceInv, disturbed \subseteq disturbed', NEW m \in Messages,
         \A n \in Messages \ {m} : KeepsRows(n) /\ KeepsCopies(n),
         m \notin disturbed' => Once(m)'
  PROVE  OnceInv'
<1> SUFFICES ASSUME NEW n \in Messages \ disturbed', n # m PROVE Once(n)'
  BY DEF OnceInv
<1>1. Once(n)
  BY DEF OnceInv
<1>2. QED BY <1>1, RowsKept, CopiesKept

\* Of an undisturbed message that a worker attempts there is no row, no other worker that has
\* not handled it, and no confirmation but the worker's own.
LEMMA OnlyAttempt ==
  ASSUME IInv, OnceInv, NEW w \in Workers, NEW m \in Messages \ disturbed, Attempting(w, m)
  PROVE  /\ ~Settled(m) /\ Alone(m) /\ \A v \in Workers : LiveWorker(v, m) => v = w
         /\ \A v \in Workers : Attempting(v, m) => v = w
         /\ delivered[m] = IF wpc[w] = "logSuccess" THEN 1 ELSE 0
<1>1. Once(m)
  BY DEF OnceInv
<1>2. ~Settled(m) /\ NotYet(m)
  BY <1>1 DEF Once, RowIsRight
<1>3. \A v \in Workers : Attempting(v, m) => LiveWorker(v, m)
  BY DEF IInv, Unhandled, Attempting, LiveWorker
<1>4. \A v \in Workers : LiveWorker(v, m) => v = w
  BY <1>2, <1>3 DEF NotYet, Alone
<1>5. \A v \in Workers : Confirmed(v, m) => Attempting(v, m)
  BY DEF Confirmed, Attempting, FinalLog
<1>6. delivered[m] = IF wpc[w] = "logSuccess" THEN 1 ELSE 0
  <2>1. CASE wpc[w] = "logSuccess"
    BY <1>2, <2>1 DEF NotYet, Confirmed, Attempting
  <2>2. CASE wpc[w] # "logSuccess"
    BY <1>2, <1>3, <1>4, <1>5, <2>2 DEF NotYet, Confirmed
  <2>3. QED BY <2>1, <2>2
<1>7. QED BY <1>2, <1>3, <1>4, <1>6 DEF NotYet

\* The remote MX confirms the only attempt.
LEMMA RemoteAcceptsOnce == ASSUME IInv, OnceInv, NEW w \in Workers, RemoteAccepts(w) PROVE OnceInv'
<1>0. PICK m \in Messages : wmsg[w] = m
  BY DEF IInv, TypeOK, Holding, RemoteAccepts
<1>1. \A n \in Messages \ {m} : KeepsRows(n) /\ KeepsCopies(n)
  BY <1>0 DEF IInv, TypeOK, KeepsRows, KeepsCopies, Confirmed, Attempting, LiveStager, LiveWorker,
     RemoteAccepts, Goto, Put
<1>2. ASSUME m \notin disturbed PROVE Once(m)'
  <2>1. ~Settled(m) /\ Alone(m) /\ delivered[m] = 0
    BY <1>0, <1>2, OnlyAttempt DEF Attempting, RemoteAccepts
  <2>2. ~Settled(m)' /\ delivered'[m] = 1 /\ Confirmed(w, m)'
    BY <1>0, <2>1 DEF IInv, TypeOK, Settled, Confirmed, RemoteAccepts, Goto, Put
  <2>3. KeepsCopies(m)
    BY DEF KeepsCopies, LiveStager, LiveWorker, RemoteAccepts
  <2>4. Alone(m)'
    BY <2>1, <2>3, CopiesKept
  <2>5. QED BY <2>2, <2>4 DEF Once, NotYet
<1>3. QED BY <1>1, <1>2, OneDecided DEF RemoteAccepts

\* A lost 250 disturbs the message.
LEMMA ReplyLostOnce == ASSUME IInv, OnceInv, NEW w \in Workers, ReplyLost(w) PROVE OnceInv'
<1>0. PICK m \in Messages : wmsg[w] = m
  BY DEF IInv, TypeOK, Holding, ReplyLost
<1>1. \A n \in Messages \ {m} : KeepsRows(n) /\ KeepsCopies(n)
  BY <1>0 DEF IInv, TypeOK, KeepsRows, KeepsCopies, Confirmed, Attempting, LiveStager, LiveWorker,
     ReplyLost, Goto, Put
<1>2. m \in disturbed' /\ disturbed \subseteq disturbed'
  BY <1>0 DEF ReplyLost
<1>3. QED BY <1>1, <1>2, OneDecided

\* The row of the only attempt: the worker leaves it, and it is the first.
LEMMA RowOnce ==
  ASSUME IInv, OnceInv, NEW w \in Workers, wpc[w] \in FinalLog, LogFinalRow(w),
         NEW pc, pc \notin {"route", "connect", "session"} \cup FinalLog, Goto(w, pc),
         UNCHANGED <<wmsg, smsg, spc, staging, outbound, waiting, disturbed>>,
         \A v \in Workers : handled[v] => handled'[v]
  PROVE  OnceInv'
<1>0. PICK m \in Messages : wmsg[w] = m
  BY DEF IInv, TypeOK, Holding, FinalLog
<1>1. \A n \in Messages \ {m} : KeepsRows(n) /\ KeepsCopies(n)
  BY <1>0 DEF IInv, TypeOK, KeepsRows, KeepsCopies, Confirmed, Attempting, LiveStager, LiveWorker,
     LogFinalRow, Goto, Put
<1>2. ASSUME m \notin disturbed PROVE Once(m)'
  <2>1. ~Settled(m) /\ (\A v \in Workers : Attempting(v, m) => v = w)
        /\ delivered[m] = IF wpc[w] = "logSuccess" THEN 1 ELSE 0
    BY <1>0, <1>2, OnlyAttempt DEF Attempting
  <2>2. success[m] = 0 /\ rejected[m] = 0
    BY <2>1 DEF IInv, TypeOK, Settled
  <2>3. success'[m] + rejected'[m] = 1 /\ delivered'[m] = success'[m]
    BY <1>0, <2>1, <2>2 DEF IInv, TypeOK, LogFinalRow, Put
  <2>4. \A v \in Workers : ~Attempting(v, m)'
    BY <2>1 DEF IInv, TypeOK, Attempting, Goto
  <2>5. Settled(m)'
    BY <2>3 DEF Settled
  <2>6. QED BY <2>3, <2>4, <2>5 DEF Once, RowIsRight
<1>3. QED BY <1>1, <1>2, OneDecided

\* A final row is written for the one copy, or the copy is kept.
LEMMA LogFinalOnce ==
  ASSUME IInv, OnceInv, NEW w \in Workers, LogFinal(w) \/ LogFinalThrows(w) \/ SessionEndThrows(w)
  PROVE  OnceInv'
<1>0. \A pc \in {"settle", "abrupt"} : pc \notin {"route", "connect", "session"} \cup FinalLog
  BY DEF FinalLog
<1>1. CASE LogFinal(w)
  BY <1>0, <1>1, RowOnce DEF IInv, TypeOK, LogFinal, SetHandled
<1>2. CASE SessionEndThrows(w)
  BY <1>0, <1>2, RowOnce DEF IInv, TypeOK, SessionEndThrows, SetHandled, FinalLog
<1>3. CASE LogFinalThrows(w)
  <2>0. PICK pc \in {"settle", "abrupt"} : Goto(w, pc)
    BY <1>3 DEF LogFinalThrows, AfterException
  <2>1. CASE LogFinalRow(w) /\ UNCHANGED disturbed
    BY <1>0, <1>3, <2>0, <2>1, RowOnce DEF LogFinalThrows
  <2>2. CASE UNCHANGED logVars
             /\ disturbed' = IF wpc[w] = "logSuccess" THEN disturbed \cup {wmsg[w]} ELSE disturbed
    BY <1>0, <1>3, <2>0, <2>2, QuietOnce DEF LogFinalThrows
  <2>3. QED BY <1>3, <2>1, <2>2 DEF LogFinalThrows
<1>4. QED BY <1>1, <1>2, <1>3

-----------------------------------------------------------------------------
(* Restarts                                                                *)

\* A set without two different elements.
LEMMA AtMostOneElement ==
  ASSUME NEW S, IsFiniteSet(S), \A x, y \in S : x = y
  PROVE  Cardinality(S) \in {0, 1}
<1>1. CASE S = {}
  BY <1>1, FS_EmptySet
<1>2. CASE S # {}
  <2>1. PICK x : S = {x}
    BY <1>2
  <2>2. QED BY <2>1, FS_Singleton
<1>3. QED BY <1>1, <1>2

\* What a restart makes ready again of an undisturbed message are its live copies, one at most.
LEMMA RestartOnce == ASSUME IInv, OnceInv, Restart PROVE OnceInv'
<1> SUFFICES ASSUME NEW m \in Messages \ disturbed' PROVE Once(m)'
  BY DEF OnceInv
<1>1. Once(m) /\ m \notin HalfDone /\ m # None
  BY NoneAssumption DEF OnceInv, Restart
<1>2. Settled(m)' <=> Settled(m)
  BY DEF Restart, Settled
<1>3. \A w \in Workers : ~Attempting(w, m)' /\ ~Confirmed(w, m)' /\ ~LiveWorker(w, m)'
  BY <1>1 DEF Restart, Attempting, Confirmed, LiveWorker
<1>4. \A s \in Stagers : ~LiveStager(s, m)'
  BY <1>1 DEF Restart, LiveStager
<1>5. CASE Settled(m)
  BY <1>1, <1>2, <1>3, <1>5 DEF Once, RowIsRight, Restart
<1>6. CASE ~Settled(m)
  <2>1. Alone(m) /\ delivered[m] = 0
    <3>1. \A w \in Workers : ~Confirmed(w, m)
      BY <1>1 DEF HalfDone, Confirmed
    <3>2. QED BY <1>1, <1>6, <3>1 DEF Once, NotYet
  <2>2. \A s \in StagersWith(m) : s \in Stagers /\ LiveStager(s, m)
    BY <1>1 DEF StagersWith, LiveStager, HalfDone, IInv, TypeOK, Holding, StagerPc
  <2>3. \A w \in WorkersWith(m) : w \in Workers /\ LiveWorker(w, m)
    BY <1>1, <1>6 DEF WorkersWith, LiveWorker, HalfDone, IInv, TypeOK
  <2>4. IsFiniteSet(StagersWith(m)) /\ IsFiniteSet(WorkersWith(m))
    BY ThreadsAssumption, FS_Subset DEF StagersWith, WorkersWith
  <2>5. Cardinality(StagersWith(m)) \in {0, 1} /\ Cardinality(WorkersWith(m)) \in {0, 1}
    BY <2>1, <2>2, <2>3, <2>4, AtMostOneElement DEF Alone
  <2>6. /\ Cardinality(StagersWith(m)) = 0 \/ Cardinality(WorkersWith(m)) = 0
        /\ Queued(m) => Cardinality(StagersWith(m)) = 0 /\ Cardinality(WorkersWith(m)) = 0
    <3>1. /\ StagersWith(m) = {} \/ WorkersWith(m) = {}
          /\ Queued(m) => StagersWith(m) = {} /\ WorkersWith(m) = {}
      BY <2>1, <2>2, <2>3 DEF Alone
    <3>2. QED BY <3>1, FS_EmptySet
  <2>7. staging'[m] + outbound'[m] + waiting'[m] <= 1
    <3>1. /\ staging'[m] = staging[m] + Cardinality(StagersWith(m))
          /\ outbound'[m] = outbound[m] + Cardinality(WorkersWith(m))
          /\ waiting'[m] = waiting[m]
      BY DEF Restart
    <3>2. staging[m] \in Nat /\ outbound[m] \in Nat /\ waiting[m] \in Nat
      BY DEF IInv, TypeOK
    <3>3. CASE Queued(m)
      BY <2>1, <2>6, <3>1, <3>2, <3>3 DEF Alone
    <3>4. CASE ~Queued(m)
      BY <2>5, <2>6, <3>1, <3>2, <3>4 DEF Queued
    <3>5. QED BY <3>3, <3>4
  <2>8. Alone(m)'
    BY <2>7, <1>3, <1>4 DEF Alone
  <2>9. QED BY <1>2, <1>3, <1>6, <2>1, <2>8 DEF Once, NotYet, Restart
<1>7. QED BY <1>5, <1>6

-----------------------------------------------------------------------------
(* Confirmations and Success rows, of disturbed messages too               *)

\* The workers that confirm a message are finitely many.
LEMMA ConfirmingFinite ==
  ASSUME NEW m \in Messages
  PROVE  IsFiniteSet(Confirming(m)) /\ Cardinality(Confirming(m)) \in Nat
<1>1. IsFiniteSet(Confirming(m))
  BY ThreadsAssumption, FS_Subset DEF Confirming
<1>2. QED BY <1>1, FS_CardinalityType

\* A step that confirms nothing, or fewer, and writes no Success row.
LEMMA FewerConfirm ==
  ASSUME IInv, Counted, \A w \in Workers, m \in Messages : Confirmed(w, m)' => Confirmed(w, m),
         success' = success,
         \A m \in Messages : delivered'[m] \in Nat /\ delivered[m] <= delivered'[m]
  PROVE  Counted'
<1> SUFFICES ASSUME NEW m \in Messages
             PROVE  Cardinality(Confirming(m)') + success[m] <= delivered'[m]
  BY DEF Counted
<1>1. Confirming(m)' \subseteq Confirming(m)
  BY DEF Confirming
<1>2. Cardinality(Confirming(m)') <= Cardinality(Confirming(m))
      /\ Cardinality(Confirming(m)') \in Nat
  BY <1>1, ConfirmingFinite, FS_Subset, FS_CardinalityType
<1>3. QED BY <1>2, ConfirmingFinite DEF Counted, IInv, TypeOK

\* The confirmation counts as one more delivery.
LEMMA RemoteAcceptsCounted ==
  ASSUME IInv, Counted, NEW w \in Workers, RemoteAccepts(w) PROVE Counted'
<1> SUFFICES ASSUME NEW m \in Messages
             PROVE  Cardinality(Confirming(m)') + success[m] <= delivered'[m]
  BY DEF Counted, RemoteAccepts
<1>1. CASE wmsg[w] = m
  <2>1. Confirming(m)' = Confirming(m) \cup {w} /\ w \notin Confirming(m)
    BY <1>1 DEF IInv, TypeOK, Confirming, Confirmed, RemoteAccepts, Goto
  <2>2. Cardinality(Confirming(m)') = Cardinality(Confirming(m)) + 1
    BY <2>1, ConfirmingFinite, FS_AddElement
  <2>3. delivered'[m] = delivered[m] + 1
    BY <1>1 DEF IInv, TypeOK, RemoteAccepts, Put
  <2>4. QED BY <2>2, <2>3, ConfirmingFinite DEF Counted, IInv, TypeOK
<1>2. CASE wmsg[w] # m
  <2>1. Confirming(m)' = Confirming(m)
    BY <1>2 DEF IInv, TypeOK, Confirming, Confirmed, RemoteAccepts, Goto
  <2>2. delivered'[m] = delivered[m]
    BY <1>2 DEF IInv, TypeOK, RemoteAccepts, Holding, Put
  <2>3. QED BY <2>1, <2>2 DEF Counted
<1>3. QED BY <1>1, <1>2

\* A Success row takes the place of the confirmation it is about.
LEMMA RowCounted ==
  ASSUME IInv, Counted, NEW w \in Workers, wpc[w] \in FinalLog, LogFinalRow(w),
         NEW pc, pc # "logSuccess", Goto(w, pc), wmsg' = wmsg
  PROVE  Counted'
<1> SUFFICES ASSUME NEW m \in Messages
             PROVE  Cardinality(Confirming(m)') + success'[m] <= delivered[m]
  BY DEF Counted, LogFinalRow
<1>1. CASE wpc[w] = "logSuccess" /\ wmsg[w] = m
  <2>1. Confirming(m)' = Confirming(m) \ {w} /\ w \in Confirming(m)
    BY <1>1 DEF IInv, TypeOK, Confirming, Confirmed, Goto
  <2>2. Cardinality(Confirming(m)') = Cardinality(Confirming(m)) - 1
    BY <2>1, ConfirmingFinite, FS_RemoveElement
  <2>3. success'[m] = success[m] + 1
    BY <1>1 DEF IInv, TypeOK, LogFinalRow, Put
  <2>4. QED BY <2>2, <2>3, ConfirmingFinite DEF Counted, IInv, TypeOK
<1>2. CASE ~(wpc[w] = "logSuccess" /\ wmsg[w] = m)
  <2>1. Confirming(m)' = Confirming(m)
    BY <1>2 DEF IInv, TypeOK, Confirming, Confirmed, Goto
  <2>2. success'[m] = success[m]
    BY <1>2 DEF IInv, TypeOK, LogFinalRow, Holding, Put
  <2>3. QED BY <2>1, <2>2 DEF Counted
<1>3. QED BY <1>1, <1>2

\* Every step keeps the count of confirmations.
LEMMA CountedKept == ASSUME IInv, Counted, [Next]_vars PROVE Counted'
<1> USE DEF FinalLog, DeferLog
<1>0. \A m \in Messages : delivered[m] \in Nat
  BY DEF IInv, TypeOK
<1>1. ASSUME NEW w \in Workers,
             LogFinal(w) \/ (LogFinalThrows(w) /\ LogFinalRow(w)) \/ SessionEndThrows(w)
      PROVE  Counted'
  <2>1. wpc[w] \in FinalLog /\ LogFinalRow(w) /\ wmsg' = wmsg
        /\ \E pc \in {"settle", "abrupt"} : Goto(w, pc)
    BY <1>1 DEF LogFinal, LogFinalThrows, SessionEndThrows, AfterException
  <2>2. QED BY <2>1, RowCounted
<1>2. ASSUME NEW w \in Workers, LogFinalThrows(w), UNCHANGED logVars PROVE Counted'
  <2>1. \E pc \in {"settle", "abrupt"} : Goto(w, pc)
    BY <1>2 DEF LogFinalThrows, AfterException
  <2>2. \A v \in Workers, m \in Messages : Confirmed(v, m)' => Confirmed(v, m)
    BY <1>2, <2>1 DEF LogFinalThrows, Confirmed, IInv, TypeOK, Goto
  <2>3. QED BY <1>0, <1>2, <2>2, FewerConfirm
<1>3. ASSUME NEW w \in Workers, ReplyLost(w) PROVE Counted'
  <2>1. \A m \in Messages : delivered'[m] \in Nat /\ delivered[m] <= delivered'[m]
    BY <1>0, <1>3 DEF ReplyLost, Put, IInv, TypeOK
  <2>2. \A v \in Workers, m \in Messages : Confirmed(v, m)' => Confirmed(v, m)
    BY <1>3 DEF ReplyLost, Confirmed, IInv, TypeOK, Goto
  <2>3. QED BY <1>3, <2>1, <2>2, FewerConfirm DEF ReplyLost
<1>4. ASSUME UNCHANGED logVars, UNCHANGED <<wpc, wmsg>> PROVE Counted'
  BY <1>4 DEF Counted, Confirming, Confirmed
<1>5. ASSUME UNCHANGED logVars, NEW w \in Workers,
             \A v \in Workers \ {w} : wpc'[v] = wpc[v] /\ wmsg'[v] = wmsg[v],
             wpc'[w] # "logSuccess"
      PROVE  Counted'
  <2>1. \A v \in Workers, m \in Messages : Confirmed(v, m)' => Confirmed(v, m)
    BY <1>5 DEF Confirmed
  <2>2. QED BY <1>0, <1>5, <2>1, FewerConfirm
<1>6. ASSUME NEW w \in Workers,
             \/ DequeueNothing(w) \/ LoopStopped(w) \/ NotDue(w) \/ AlreadyHandled(w)
             \/ NotYetHandled(w) \/ CheckThrows(w) \/ Route(w) \/ Connect(w) \/ SessionFails(w)
             \/ LogDeferral(w) \/ Ack(w) \/ DelayMessage(w) \/ Requeue(w) \/ SettleDelivery(w)
             \/ PublishThrows(w) \/ AckThrows(w)
      PROVE  Counted'
  BY <1>5, <1>6 DEF IInv, TypeOK, DequeueNothing, LoopStopped, NotDue, AlreadyHandled, NotYetHandled,
     CheckThrows, Route, Connect, SessionFails, LogDeferral, Ack, DelayMessage, Requeue,
     SettleDelivery, PublishThrows, AckThrows, Step, Goto
<1>7. ASSUME NEW w \in Workers, LogDeferralThrows(w) PROVE Counted'
  BY <1>5, <1>7 DEF IInv, TypeOK, LogDeferralThrows, AfterException, Step, Goto
<1>8. ASSUME NEW w \in Workers, NEW m \in Messages, Dequeue(w, m) PROVE Counted'
  BY <1>5, <1>8 DEF IInv, TypeOK, Dequeue, Goto
<1>9. CASE Restart
  <2>1. \A v \in Workers, m \in Messages : ~Confirmed(v, m)'
    BY <1>9 DEF Restart, Confirmed
  <2>2. QED BY <1>0, <1>9, <2>1, FewerConfirm DEF Restart
<1>10. ASSUME NEW w \in Workers, WorkerStep(w) PROVE Counted'
  <2>1. CASE LogFinalThrows(w)
    <3>1. LogFinalRow(w) \/ UNCHANGED logVars
      BY <2>1 DEF LogFinalThrows
    <3>2. QED BY <1>1, <1>2, <2>1, <3>1
  <2>2. CASE RemoteAccepts(w)
    BY <2>2, RemoteAcceptsCounted
  <2>3. CASE LogFinal(w) \/ SessionEndThrows(w)
    BY <1>1, <2>3
  <2>4. CASE ReplyLost(w)
    BY <1>3, <2>4
  <2>5. CASE LogDeferralThrows(w)
    BY <1>7, <2>5
  <2>6. CASE \E m \in Messages : Dequeue(w, m)
    BY <1>8, <2>6
  <2>7. QED BY <1>6, <1>10, <2>1, <2>2, <2>3, <2>4, <2>5, <2>6 DEF WorkerStep, SendStep
<1>11. ASSUME NEW s \in Stagers, StagerStep(s) PROVE Counted'
  BY <1>4, <1>11 DEF StagerStep, StagerDequeue, StagerPublishInbound, StagerPublishOutbound, StagerAck
<1>12. QED
  BY <1>4, <1>9, <1>10, <1>11 DEF Next, vars, Enqueue, Expire, Stop

-----------------------------------------------------------------------------
(* The theorems                                                            *)

\* Every step of the relay keeps one live copy at most of an undisturbed message.
LEMMA OnceKept == ASSUME IInv, OnceInv, Deferring, [Next]_vars PROVE OnceInv'
<1>1. ASSUME NEW s \in Stagers, StagerStep(s) PROVE OnceInv'
  BY <1>1, StagerDequeueOnce, StagerQuietOnce, StagerPublishOutboundOnce DEF StagerStep
<1>2. ASSUME NEW w \in Workers, WorkerStep(w) PROVE OnceInv'
  BY <1>2, DequeueOnce, QuietActionsOnce, PutOffOnce, SettleDeliveryOnce,
     PublishThrowsOnce, RemoteAcceptsOnce, ReplyLostOnce, LogFinalOnce DEF WorkerStep, SendStep
<1>3. CASE UNCHANGED <<staging, outbound, waiting, spc, smsg, wpc, wmsg, handled, logVars, disturbed>>
  BY <1>3, NothingMoves DEF KeepsRows, KeepsCopies, Confirmed, Attempting, LiveStager, LiveWorker
<1>4. QED
  BY <1>1, <1>2, <1>3, EnqueueOnce, ExpireOnce, RestartOnce DEF Next, vars, Stop

\* Nothing was sent at first.
LEMMA OutcomeInit == ASSUME Init PROVE OnceInv /\ Deferring /\ Counted
<1>1. OnceInv
  BY NoneAssumption DEF Init, OnceInv, Once, Settled, NotYet, Alone, Queued, LiveStager, LiveWorker,
     Confirmed
<1>2. Deferring
  BY DEF Init, Deferring, DeferLog
<1>3. Counted
  <2>1. \A m \in Messages : Confirming(m) = {}
    BY DEF Init, Confirming, Confirmed
  <2>2. QED BY <2>1, FS_EmptySet DEF Init, Counted
<1>4. QED BY <1>1, <1>2, <1>3

\* Copies, rows and counts agree in every state.
LEMMA Outcome == Spec => [](IInv /\ OnceInv /\ Deferring /\ Counted)
<1>1. Init => IInv /\ OnceInv /\ Deferring /\ Counted
  BY InitIInv, OutcomeInit
<1>2. IInv /\ OnceInv /\ Deferring /\ Counted /\ [Next]_vars
        => (IInv /\ OnceInv /\ Deferring /\ Counted)'
  BY NextKeeps, OnceKept, DeferringKept, CountedKept
<1>3. QED BY <1>1, <1>2, PTL DEF Spec

\* MessageSender gives an undisturbed message to a remote MX at most once and writes one final row
\* at most, for every number of workers: the log is read before the attempt and written after it
\* without a lock, and one live copy makes up for that.
THEOREM OneAttempt == Spec => []AtMostOnce
<1>1. IInv /\ OnceInv => AtMostOnce
  <2> SUFFICES ASSUME IInv, OnceInv, NEW m \in Messages \ disturbed
               PROVE  delivered[m] <= 1 /\ success[m] + rejected[m] <= 1
    BY DEF AtMostOnce
  <2>1. Once(m)
    BY DEF OnceInv
  <2>2. success[m] \in Nat /\ rejected[m] \in Nat /\ delivered[m] \in Nat
    BY DEF IInv, TypeOK
  <2>3. QED BY <2>1, <2>2 DEF Once, RowIsRight, NotYet, Settled
<1>2. QED BY <1>1, Outcome, PTL

\* HandleDeliverySuccessAsync is called for confirmed deliveries only, each counted once, and a
\* message that was delivered undisturbed has no other row.
THEOREM RowsTellTheTruth == Spec => []TruthfulOutcome
<1>1. IInv /\ OnceInv /\ Counted => TruthfulOutcome
  <2> SUFFICES ASSUME IInv, OnceInv, Counted, NEW m \in Messages
               PROVE  /\ success[m] <= delivered[m]
                      /\ m \notin disturbed => rejected[m] = 0 \/ delivered[m] = 0
    BY DEF TruthfulOutcome
  <2>1. success[m] \in Nat /\ rejected[m] \in Nat /\ delivered[m] \in Nat
    BY DEF IInv, TypeOK
  <2>2. success[m] <= delivered[m]
    BY <2>1, ConfirmingFinite DEF Counted
  <2>3. ASSUME m \notin disturbed PROVE rejected[m] = 0 \/ delivered[m] = 0
    <3>1. Once(m)
      BY <2>3 DEF OnceInv
    <3>2. QED BY <2>1, <3>1 DEF Once, RowIsRight, NotYet, Settled
  <2>4. QED BY <2>2, <2>3
<1>2. QED BY <1>1, Outcome, PTL

-----------------------------------------------------------------------------
(***************************************************************************)
(* Proof that MessageRelay implements RelayContract, for every instance.   *)
(*                                                                         *)
(* A step of the relay can do four things to the contract: nothing, accept *)
(* a message, settle one, or refuse a publish; and the acknowledgement of  *)
(* the last copy of a message can lose it.  One lemma for each says what   *)
(* the step has to leave alone; the lemmas after them show it per action.  *)
(***************************************************************************)

USE DEF Contract!contractVars

\* The step does not touch what the contract sees of the messages in S.
KeepsStanding(S) ==
  /\ accepted' = accepted
  /\ \A m \in S : (Settled(m)' <=> Settled(m)) /\ (Held(m)' <=> Held(m))

\* A message that is settled, and held, as before has the same standing.
LEMMA StandingKept ==
  ASSUME NEW S \in SUBSET Messages, KeepsStanding(S)
  PROVE  \A m \in S : StandingOf(m)' = StandingOf(m)
  BY DEF KeepsStanding, StandingOf

\* A step that keeps all standings and refusals is a stuttering step of the contract.
LEMMA ContractStutters ==
  ASSUME KeepsStanding(Messages), refused' = refused
  PROVE  UNCHANGED Contract!contractVars
  BY StandingKept

\* A step that only adds a refusal is a Refuse of the contract.
LEMMA ContractRefuses ==
  ASSUME KeepsStanding(Messages), NEW m \in Messages, m \in accepted, Held(m),
         refused' = refused \cup {m}
  PROVE  Contract!Refuse(m)
<1>1. StandingOf(m) \in {"owed", "settled"}
  BY DEF StandingOf
<1>2. [n \in Messages |-> StandingOf(n)]' = [n \in Messages |-> StandingOf(n)]
  BY StandingKept
<1>3. QED BY <1>1, <1>2 DEF Contract!Refuse

\* A step that only adds a row is a Settle of the contract, or a stutter if there was
\* one.
LEMMA ContractSettles ==
  ASSUME NEW m \in Messages, m \in accepted, Held(m), KeepsStanding(Messages \ {m}),
         Settled(m)', refused' = refused
  PROVE  Contract!Settle(m) \/ UNCHANGED Contract!contractVars
<1>1. \A n \in Messages \ {m} : StandingOf(n)' = StandingOf(n)
  BY StandingKept
<1>2. StandingOf(m) \in {"owed", "settled"} /\ StandingOf(m)' = "settled"
  BY DEF StandingOf, KeepsStanding
<1>3. QED BY <1>1, <1>2 DEF Contract!Settle

\* A step that lets go of one copy keeps the standing of its message, or is a Lose
\* after a refusal.
LEMMA ContractDrops ==
  ASSUME IInv', NEW m \in Messages, m \in accepted, Held(m), KeepsStanding(Messages \ {m}),
         (Settled(m)' <=> Settled(m)), refused' = refused
  PROVE  Contract!Lose(m) \/ UNCHANGED Contract!contractVars
<1>1. \A n \in Messages \ {m} : StandingOf(n)' = StandingOf(n)
  BY StandingKept
<1>2. StandingOf(m)' = StandingOf(m)
      \/ (StandingOf(m) = "owed" /\ StandingOf(m)' = "lost" /\ m \in refused)
  BY DEF StandingOf, KeepsStanding, IInv, Custody, Queued, Carried, Held
<1>3. QED BY <1>1, <1>2 DEF Contract!Lose

\* The final rows are only ever added to.
LEMMA RowAdded ==
  ASSUME IInv, NEW w \in Workers, NEW m \in Messages, wmsg[w] = m, LogFinalRow(w)
  PROVE  /\ Settled(m)'
         /\ \A n \in Messages \ {m} : (Settled(n)' <=> Settled(n))
<1>1. success \in [Messages -> Nat] /\ rejected \in [Messages -> Nat]
  BY DEF IInv, TypeOK
<1>2. \/ success' = Put(success, m) /\ rejected' = rejected
      \/ success' = success /\ rejected' = Put(rejected, m)
  BY DEF LogFinalRow
<1>3. QED BY <1>1, <1>2 DEF Settled, Put

-----------------------------------------------------------------------------

\* A message accepted by QueueManager.Enqueue is owed from then on.
LEMMA EnqueueRefines ==
  ASSUME IInv, NEW m \in Messages, Enqueue(m) PROVE Contract!Accept(m)
<1>1. StandingOf(m) = "new" /\ StandingOf(m)' = "owed"
  BY DEF IInv, TypeOK, OnlyAccepted, StandingOf, Settled, Held, Enqueue, Put
<1>2. \A n \in Messages \ {m} : StandingOf(n)' = StandingOf(n)
  BY DEF IInv, TypeOK, StandingOf, Settled, Held, Enqueue, Put
<1>3. QED BY <1>1, <1>2 DEF Contract!Accept, Enqueue

\* Dead-lettering is a stutter of the contract.
LEMMA ExpireRefines ==
  ASSUME IInv, NEW m \in Messages, Expire(m) PROVE UNCHANGED Contract!contractVars
<1>1. KeepsStanding(Messages)
  BY DEF IInv, TypeOK, KeepsStanding, Settled, Held, Expire, Put, Take
<1>2. QED BY <1>1, ContractStutters DEF Expire

\* A staging thread moves copies, and may only add a refusal.
LEMMA StagerRefines ==
  ASSUME IInv, IInv', NEW s \in Stagers, StagerStep(s)
  PROVE  [Contract!ContractNext]_Contract!contractVars
<1>1. ASSUME NEW m \in Messages, StagerDequeue(s, m) PROVE UNCHANGED Contract!contractVars
  <2>1. KeepsStanding(Messages)
    BY <1>1, NoneAssumption DEF IInv, TypeOK, Holding, KeepsStanding, Settled, Held, StagerDequeue, Take
  <2>2. QED BY <1>1, <2>1, ContractStutters DEF StagerDequeue
<1>2. ASSUME StagerPublishInbound(s) PROVE UNCHANGED Contract!contractVars
  <2>1. KeepsStanding(Messages)
    BY <1>2 DEF KeepsStanding, Settled, Held, StagerPublishInbound
  <2>2. QED BY <1>2, <2>1, ContractStutters DEF StagerPublishInbound
<1>3. ASSUME StagerPublishOutbound(s) PROVE [Contract!ContractNext]_Contract!contractVars
  <2>1. smsg[s] \in Messages /\ smsg[s] \in accepted /\ Held(smsg[s])
    BY <1>3 DEF IInv, TypeOK, Holding, OnlyAccepted, Held, StagerPublishOutbound
  <2>2. KeepsStanding(Messages)
    BY <1>3, <2>1 DEF IInv, TypeOK, KeepsStanding, Settled, Held, StagerPublishOutbound, Put
  <2>3. CASE refused' = refused
    BY <2>2, <2>3, ContractStutters
  <2>4. CASE refused' = refused \cup {smsg[s]}
    BY <2>1, <2>2, <2>4, ContractRefuses DEF Contract!ContractNext
  <2>5. QED BY <1>3, <2>3, <2>4 DEF StagerPublishOutbound
<1>4. ASSUME StagerAck(s) PROVE [Contract!ContractNext]_Contract!contractVars
  <2>1. PICK m \in Messages : smsg[s] = m /\ m \in accepted /\ Held(m)
    BY <1>4 DEF IInv, TypeOK, Holding, OnlyAccepted, Held, StagerAck
  <2>2. KeepsStanding(Messages \ {m}) /\ (Settled(m)' <=> Settled(m))
    BY <1>4, <2>1, NoneAssumption DEF IInv, TypeOK, KeepsStanding, Settled, Held, StagerAck
  <2>3. QED BY <1>4, <2>1, <2>2, ContractDrops DEF StagerAck, Contract!ContractNext
<1>5. QED BY <1>1, <1>2, <1>3, <1>4 DEF StagerStep

\* Steps of a worker that only move it, or dequeue a message that nobody held.
LEMMA WorkerMovesRefine ==
  ASSUME IInv, NEW w \in Workers,
         \/ \E m \in Messages : Dequeue(w, m)
         \/ DequeueNothing(w)
         \/ \E from, to \in WorkerPc : Step(w, from, to) /\ UNCHANGED refused
         \/ RemoteAccepts(w)
         \/ ReplyLost(w)
  PROVE  UNCHANGED Contract!contractVars
<1>1. ASSUME NEW m \in Messages, Dequeue(w, m) PROVE UNCHANGED Contract!contractVars
  <2>1. KeepsStanding(Messages)
    BY <1>1, NoneAssumption
    DEF IInv, TypeOK, Holding, KeepsStanding, Settled, Held, Dequeue, Take
  <2>2. QED BY <1>1, <2>1, ContractStutters DEF Dequeue
<1>2. CASE DequeueNothing(w)
  <2>1. KeepsStanding(Messages)
    BY <1>2 DEF KeepsStanding, Settled, Held, DequeueNothing
  <2>2. QED BY <1>2, <2>1, ContractStutters DEF DequeueNothing
<1>3. CASE \E from, to \in WorkerPc : Step(w, from, to) /\ UNCHANGED refused
  <2>1. KeepsStanding(Messages)
    BY <1>3 DEF KeepsStanding, Settled, Held, Step
  <2>2. QED BY <1>3, <2>1, ContractStutters
<1>4. CASE RemoteAccepts(w)
  <2>1. KeepsStanding(Messages)
    BY <1>4 DEF KeepsStanding, Settled, Held, RemoteAccepts
  <2>2. QED BY <1>4, <2>1, ContractStutters DEF RemoteAccepts
<1>5. CASE ReplyLost(w)
  <2>1. KeepsStanding(Messages)
    BY <1>5 DEF KeepsStanding, Settled, Held, ReplyLost
  <2>2. QED BY <1>5, <2>1, ContractStutters DEF ReplyLost
<1>6. QED BY <1>1, <1>2, <1>3, <1>4, <1>5

\* The three places that publish the message in hand to a wait queue, and the throw of each.
LEMMA RequeueRefines ==
  ASSUME IInv, NEW w \in Workers,
         DelayMessage(w) \/ Requeue(w) \/ SettleDelivery(w) \/ PublishThrows(w)
  PROVE  [Contract!ContractNext]_Contract!contractVars
<1>1. wmsg[w] \in Messages /\ wmsg[w] \in accepted /\ Held(wmsg[w])
  BY DEF IInv, TypeOK, Holding, OnlyAccepted, Held, DelayMessage, Requeue, SettleDelivery,
     PublishThrows
<1>2. /\ waiting' = waiting \/ waiting' = Put(waiting, wmsg[w])
      /\ refused' = refused \/ refused' = refused \cup {wmsg[w]}
      /\ UNCHANGED <<accepted, staging, outbound, smsg, wmsg, success, rejected>>
  BY DEF DelayMessage, Requeue, SettleDelivery, PublishThrows, Requeued
<1>3. KeepsStanding(Messages)
  BY <1>1, <1>2 DEF IInv, TypeOK, KeepsStanding, Settled, Held, Put
<1>4. QED BY <1>1, <1>2, <1>3, ContractStutters, ContractRefuses DEF Contract!ContractNext

\* The three places that write a final row.
LEMMA LogRefines ==
  ASSUME IInv, NEW w \in Workers, LogFinal(w) \/ LogFinalThrows(w) \/ SessionEndThrows(w)
  PROVE  [Contract!ContractNext]_Contract!contractVars
<1>1. PICK m \in Messages : wmsg[w] = m /\ m \in accepted /\ Held(m)
  BY DEF IInv, TypeOK, Holding, OnlyAccepted, Held, LogFinal, LogFinalThrows, SessionEndThrows,
         FinalLog
<1>2. /\ LogFinalRow(w) \/ UNCHANGED <<success, rejected>>
      /\ UNCHANGED <<accepted, staging, outbound, waiting, smsg, wmsg, refused>>
  BY DEF LogFinal, LogFinalThrows, SessionEndThrows
<1>3. accepted' = accepted /\ \A n \in Messages : (Held(n)' <=> Held(n))
  BY <1>2 DEF Held
<1>4. CASE LogFinalRow(w)
  <2>1. KeepsStanding(Messages \ {m}) /\ Settled(m)'
    BY <1>1, <1>3, <1>4, RowAdded DEF KeepsStanding
  <2>2. QED BY <1>1, <1>2, <2>1, ContractSettles DEF Contract!ContractNext
<1>5. CASE UNCHANGED <<success, rejected>>
  <2>1. KeepsStanding(Messages)
    BY <1>3, <1>5 DEF KeepsStanding, Settled
  <2>2. QED BY <1>2, <2>1, ContractStutters
<1>6. QED BY <1>2, <1>4, <1>5

\* The acknowledgement of a worker is the one step that can let go of a last copy.
LEMMA AckRefines ==
  ASSUME IInv, IInv', NEW w \in Workers, Ack(w)
  PROVE  [Contract!ContractNext]_Contract!contractVars
<1>1. PICK m \in Messages : wmsg[w] = m /\ m \in accepted /\ Held(m)
  BY DEF IInv, TypeOK, Holding, OnlyAccepted, Held, Ack
<1>2. KeepsStanding(Messages \ {m}) /\ (Settled(m)' <=> Settled(m))
  BY <1>1, NoneAssumption DEF IInv, TypeOK, KeepsStanding, Settled, Held, Ack
<1>3. QED BY <1>1, <1>2, ContractDrops DEF Ack, Contract!ContractNext

\* Every step of a worker is a step of the contract or a stutter.
LEMMA WorkerRefines ==
  ASSUME IInv, IInv', NEW w \in Workers, WorkerStep(w)
  PROVE  [Contract!ContractNext]_Contract!contractVars
<1>1. CASE \/ LoopStopped(w) \/ NotDue(w) \/ AlreadyHandled(w) \/ NotYetHandled(w)
           \/ CheckThrows(w) \/ Route(w) \/ Connect(w) \/ SessionFails(w) \/ LogDeferral(w)
           \/ LogDeferralThrows(w) \/ AckThrows(w)
  <2>1. \E from, to \in WorkerPc : Step(w, from, to) /\ UNCHANGED refused
    BY <1>1 DEF LoopStopped, NotDue, AlreadyHandled, NotYetHandled, CheckThrows, Route,
                Connect, SessionFails, LogDeferral, LogDeferralThrows, AckThrows, AfterException,
                WorkerPc, FinalLog, DeferLog
  <2>2. QED BY <2>1, WorkerMovesRefine
<1>2. CASE \/ \E m \in Messages : Dequeue(w, m)
           \/ DequeueNothing(w) \/ RemoteAccepts(w) \/ ReplyLost(w)
  BY <1>2, WorkerMovesRefine
<1>3. QED BY <1>1, <1>2, RequeueRefines, LogRefines, AckRefines DEF WorkerStep, SendStep

\* After a restart exactly what was held is queued.
LEMMA RestartRefines == ASSUME IInv, Restart PROVE UNCHANGED Contract!contractVars
<1>1. \A m \in Messages : (Held(m)' <=> Held(m))
  BY RestartRequeues, NoneAssumption DEF Held, Restart
<1>2. KeepsStanding(Messages)
  BY <1>1 DEF KeepsStanding, Settled, Restart
<1>3. QED BY <1>2, ContractStutters DEF Restart

\* The stop flag is not part of the contract.
LEMMA StopRefines == ASSUME Stop \/ UNCHANGED vars PROVE UNCHANGED Contract!contractVars
<1>1. KeepsStanding(Messages)
  BY DEF KeepsStanding, Settled, Held, Stop, vars
<1>2. QED BY <1>1, ContractStutters DEF Stop, vars

-----------------------------------------------------------------------------

\* Every behaviour of the relay is one of the contract: whatever the interleaving, a
\* message goes from owed to settled and stays there, and is let go of without an outcome
\* only after a publish of it was refused.
THEOREM ImplementsContract == Spec => KeepsContract
<1>1. Init => Contract!ContractInit
  BY DEF Init, Contract!ContractInit, StandingOf
<1>2. ASSUME IInv, IInv', [Next]_vars PROVE [Contract!ContractNext]_Contract!contractVars
  <2>1. ASSUME NEW m \in Messages, Enqueue(m) PROVE Contract!ContractNext
    BY <1>2, <2>1, EnqueueRefines DEF Contract!ContractNext
  <2>2. ASSUME NEW m \in Messages, Expire(m) PROVE UNCHANGED Contract!contractVars
    BY <1>2, <2>2, ExpireRefines
  <2>3. QED BY <1>2, <2>1, <2>2, StagerRefines, WorkerRefines, RestartRefines, StopRefines DEF Next
<1>3. QED BY <1>1, <1>2, Inductive, PTL DEF Spec, KeepsContract, Contract!ContractSpec

=============================================================================
