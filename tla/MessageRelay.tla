---------------------------- MODULE MessageRelay ----------------------------
(***************************************************************************)
(* The path of a relayed message through MantaMTA:                         *)
(*                                                                         *)
(*   SMTP session --Enqueue--> InboundStaging --staging threads-->         *)
(*     Inbound (to be recorded in SQL)  and  OutboundWaiting               *)
(*   OutboundWaiting --sender workers--> remote MX, or a wait queue that   *)
(*     dead-letters back into OutboundWaiting                              *)
(*                                                                         *)
(* A RabbitMQ queue is a bag of copies of messages: of each message, the   *)
(* number of copies that are ready for delivery.  A copy that has been     *)
(* delivered and not yet acknowledged is held by the thread that dequeued  *)
(* it and becomes ready again when the process dies.  Payload, timing and  *)
(* the choice among the four wait queues are left out: whether a dequeued  *)
(* copy is due is a choice of the environment.                             *)
(***************************************************************************)
EXTENDS Naturals, FiniteSets

CONSTANTS
  Messages,   \* message ids (Guids) that SMTP sessions queue for relaying
  Stagers,    \* threads of RabbitMqInboundStagingHandler
  Workers,    \* tasks of MessageSender, at most MAX_SENDING_WORKER_TASKS
  MaxFaults,  \* bound on crashes, refused publishes, failed SQL writes, ...
  None        \* no message

ASSUME NoneAssumption == None \notin Messages
ASSUME ThreadsAssumption == IsFiniteSet(Stagers) /\ IsFiniteSet(Workers)
ASSUME FaultsAssumption == MaxFaults \in Nat

VARIABLES
  accepted,   \* messages whose Enqueue answered true
  staging,    \* ready copies in InboundStaging
  inbound,    \* messages published to Inbound
  outbound,   \* ready copies in OutboundWaiting
  waiting,    \* copies in OutboundWait1, 10, 60 and 300
  spc, smsg,  \* staging threads: control and the copy held
  wpc, wmsg,  \* sender workers: control and the copy held (qMsg)
  handled,    \* sender workers: qMsg.IsHandled
  stopping,   \* MessageSender._IsStopping
  delivered,  \* how often a remote MX took responsibility for the message
  success,    \* Success rows of man_mta_transaction = mta_send_accepted
  rejected,   \* Failed and Discarded rows           = mta_send_rejected
  refused,    \* history: messages with a publish refused by the broker
  unrecorded, \* history: messages whose publish to Inbound was refused
  disturbed,  \* history: messages hit by a fault that leaves two live copies
  faults      \* number of faults so far

queueVars   == <<accepted, staging, inbound, outbound, waiting>>
stagerVars  == <<spc, smsg>>
workerVars  == <<wpc, wmsg, handled, stopping>>
logVars     == <<delivered, success, rejected>>
historyVars == <<refused, unrecorded, disturbed, faults>>
vars == <<queueVars, stagerVars, workerVars, logVars, historyVars>>

StagerPc == {"idle", "inbound", "outbound", "ack"}

\* "check" is the top of the loop in taskWorker; "route", "connect", "session", the "log"
\* points, "enqueue" and "requeue" are inside SendMessageAsync; "settle" and "ack" are
\* the end of the loop body, and of the finally block.  "stuck": the finally block threw,
\* so the task ended with its delivery unacknowledged and its place in runningTasks kept.
FinalLog == {"logDiscard", "logFail", "logReject", "logSuccess"}
DeferLog == {"logWait", "logDefer", "abrupt"}
WorkerPc == FinalLog \cup DeferLog \cup
  {"idle", "check", "route", "connect", "session", "enqueue", "requeue", "settle", "ack",
   "next", "stuck"}

TypeOK ==
  /\ accepted \in SUBSET Messages
  /\ staging \in [Messages -> Nat]
  /\ inbound \in SUBSET Messages
  /\ outbound \in [Messages -> Nat]
  /\ waiting \in [Messages -> Nat]
  /\ spc \in [Stagers -> StagerPc]
  /\ smsg \in [Stagers -> Messages \cup {None}]
  /\ wpc \in [Workers -> WorkerPc]
  /\ wmsg \in [Workers -> Messages \cup {None}]
  /\ handled \in [Workers -> BOOLEAN]
  /\ stopping \in BOOLEAN
  /\ delivered \in [Messages -> Nat]
  /\ success \in [Messages -> Nat]
  /\ rejected \in [Messages -> Nat]
  /\ refused \in SUBSET Messages
  /\ unrecorded \in SUBSET Messages
  /\ disturbed \in SUBSET Messages
  /\ faults \in 0..MaxFaults

Init ==
  /\ accepted = {}
  /\ staging = [m \in Messages |-> 0]
  /\ inbound = {}
  /\ outbound = [m \in Messages |-> 0]
  /\ waiting = [m \in Messages |-> 0]
  /\ spc = [s \in Stagers |-> "idle"]
  /\ smsg = [s \in Stagers |-> None]
  /\ wpc = [w \in Workers |-> "idle"]
  /\ wmsg = [w \in Workers |-> None]
  /\ handled = [w \in Workers |-> FALSE]
  /\ stopping = FALSE
  /\ delivered = [m \in Messages |-> 0]
  /\ success = [m \in Messages |-> 0]
  /\ rejected = [m \in Messages |-> 0]
  /\ refused = {}
  /\ unrecorded = {}
  /\ disturbed = {}
  /\ faults = 0

-----------------------------------------------------------------------------
(* Helpers                                                                 *)

Put(queue, m) == [queue EXCEPT ![m] = @ + 1]
Take(queue, m) == [queue EXCEPT ![m] = @ - 1]

\* A fault happens: it counts against the bound.
Fault == faults < MaxFaults /\ faults' = faults + 1

\* m has a row with status Failed, TimedOut, Success or Discarded.
Settled(m) == success[m] + rejected[m] > 0

\* HasBeenHandledAsync reads with readuncommitted: it sees the committed rows and,
\* if it comes late enough, the row that another worker is about to commit.
UncommittedRow(m) == \E v \in Workers : wpc[v] \in FinalLog /\ wmsg[v] = m

Goto(w, pc) == wpc' = [wpc EXCEPT ![w] = pc]
SetHandled(w, b) == handled' = [handled EXCEPT ![w] = b]

-----------------------------------------------------------------------------
(* SMTP side: QueueManager.Enqueue.  A refused publish makes it answer     *)
(* false, which is a 421 to the client and leaves no trace.                *)

Enqueue(m) ==
  /\ m \notin accepted
  /\ accepted' = accepted \cup {m}
  /\ staging' = Put(staging, m)
  /\ UNCHANGED <<inbound, outbound, waiting, stagerVars, workerVars, logVars, historyVars>>

-----------------------------------------------------------------------------
(* RabbitMqInboundStagingHandler.HandleDequeue, one step per call          *)

StagerDequeue(s, m) ==
  /\ spc[s] = "idle"
  /\ staging[m] > 0
  /\ staging' = Take(staging, m)
  /\ spc' = [spc EXCEPT ![s] = "inbound"]
  /\ smsg' = [smsg EXCEPT ![s] = m]
  /\ UNCHANGED <<accepted, inbound, outbound, waiting, workerVars, logVars, historyVars>>

\* The result of Publish is not looked at: refused or not, the thread goes on.
StagerPublishInbound(s) ==
  /\ spc[s] = "inbound"
  /\ spc' = [spc EXCEPT ![s] = "outbound"]
  /\ \/ /\ inbound' = inbound \cup {smsg[s]}
        /\ UNCHANGED <<unrecorded, faults>>
     \/ /\ Fault
        /\ unrecorded' = unrecorded \cup {smsg[s]}
        /\ UNCHANGED inbound
  /\ UNCHANGED <<accepted, staging, outbound, waiting, smsg, workerVars, logVars,
                 refused, disturbed>>

\* Variant: a refused second publish throws, and with it the thread ends.
StagerPublishOutboundEndsThread(s) ==
  /\ spc[s] = "outbound"
  /\ \/ /\ spc' = [spc EXCEPT ![s] = "ack"]
        /\ outbound' = Put(outbound, smsg[s])
        /\ UNCHANGED <<refused, faults>>
     \/ /\ spc' = [spc EXCEPT ![s] = "ended"]
        /\ Fault
        /\ refused' = refused \cup {smsg[s]}
        /\ UNCHANGED outbound
  /\ UNCHANGED <<accepted, staging, inbound, waiting, smsg, workerVars, logVars,
                 unrecorded, disturbed>>

StagerPublishOutbound(s) ==
  /\ spc[s] = "outbound"
  /\ spc' = [spc EXCEPT ![s] = "ack"]
  /\ \/ /\ outbound' = Put(outbound, smsg[s])
        /\ UNCHANGED <<refused, faults>>
     \/ /\ Fault
        /\ refused' = refused \cup {smsg[s]}
        /\ UNCHANGED outbound
  /\ UNCHANGED <<accepted, staging, inbound, waiting, smsg, workerVars, logVars,
                 unrecorded, disturbed>>

StagerAck(s) ==
  /\ spc[s] = "ack"
  /\ spc' = [spc EXCEPT ![s] = "idle"]
  /\ smsg' = [smsg EXCEPT ![s] = None]
  /\ UNCHANGED <<queueVars, workerVars, logVars, historyVars>>

-----------------------------------------------------------------------------
(* MessageSender.Start: the dispatcher and the loop of taskWorker          *)

\* The dispatcher starts a task for a dequeued message (unless stopping), or a task
\* that has acknowledged its message dequeues the next one, before it looks at
\* _IsStopping again.
Dequeue(w, m) ==
  /\ \/ wpc[w] = "idle" /\ ~stopping
     \/ wpc[w] = "next"
  /\ outbound[m] > 0
  /\ outbound' = Take(outbound, m)
  /\ wmsg' = [wmsg EXCEPT ![w] = m]
  /\ SetHandled(w, FALSE)
  /\ Goto(w, "check")
  /\ UNCHANGED <<accepted, staging, inbound, waiting, stagerVars, stopping, logVars, historyVars>>

\* Dequeue timed out: the task ends.
DequeueNothing(w) ==
  /\ wpc[w] = "next"
  /\ Goto(w, "idle")
  /\ UNCHANGED <<queueVars, stagerVars, wmsg, handled, stopping, logVars, historyVars>>

Step(w, from, to) ==
  /\ wpc[w] = from
  /\ Goto(w, to)
  /\ UNCHANGED <<queueVars, stagerVars, wmsg, stopping, logVars>>

\* The loop ends with a message in hand: the finally block takes it.
LoopStopped(w) ==
  /\ Step(w, "check", "settle")
  /\ stopping
  /\ UNCHANGED <<handled, historyVars>>

\* Publish the message in hand to a wait queue: accepted, or refused by the broker.
\* Enqueue sets IsHandled when the publish is accepted.
Requeued(w) ==
  /\ waiting' = Put(waiting, wmsg[w])
  /\ SetHandled(w, TRUE)
  /\ UNCHANGED <<refused, faults>>

\* Variant: the message is queued again without asking whether it is handled.
SettleAlwaysRequeues(w) ==
  /\ wpc[w] = "settle"
  /\ Goto(w, "ack")
  /\ Requeued(w)
  /\ UNCHANGED <<accepted, staging, inbound, outbound, stagerVars, wmsg, stopping, logVars,
                 unrecorded, disturbed>>

\* Variant: the finally block acknowledges the message without queueing it again.
SettleForgetsRequeue(w) ==
  /\ wpc[w] = "settle"
  /\ Goto(w, "ack")
  /\ UNCHANGED <<queueVars, stagerVars, wmsg, handled, stopping, logVars, historyVars>>

\* Lines after the call of SendMessageAsync, and the finally block: a message that is
\* not handled is queued again; the result of Enqueue is not looked at.
SettleDelivery(w) ==
  /\ wpc[w] = "settle"
  /\ Goto(w, "ack")
  /\ \/ handled[w] /\ UNCHANGED <<waiting, handled, refused, faults>>
     \/ ~handled[w] /\ Requeued(w)
     \/ /\ ~handled[w]
        /\ Fault
        /\ refused' = refused \cup {wmsg[w]}
        /\ UNCHANGED <<waiting, handled>>
  /\ UNCHANGED <<accepted, staging, inbound, outbound, stagerVars, wmsg, stopping, logVars,
                 unrecorded, disturbed>>

\* Publish throws, before or after the broker has the copy (the channel closes before the
\* confirm is read).  At "requeue" inside a session the catch block defers the message
\* again; elsewhere the task goes to its finally block, which queues and acknowledges it
\* like the loop; a throw of the finally block itself is caught by nobody.
PublishThrows(w) ==
  /\ \/ wpc[w] = "enqueue" /\ Goto(w, "settle")
     \/ wpc[w] = "requeue" /\ \E to \in {"abrupt", "settle"} : Goto(w, to)
     \/ wpc[w] = "settle" /\ ~handled[w] /\ \E to \in {"settle", "stuck"} : Goto(w, to)
  /\ Fault
  /\ \/ UNCHANGED <<waiting, disturbed>>
     \/ waiting' = Put(waiting, wmsg[w]) /\ disturbed' = disturbed \cup {wmsg[w]}
  /\ UNCHANGED <<accepted, staging, inbound, outbound, stagerVars, wmsg, handled, stopping,
                 logVars, refused, unrecorded>>

\* The acknowledgement throws: in the loop the finally block starts over, in the finally
\* block nothing does.
AckThrows(w) ==
  /\ \E to \in {"settle", "stuck"} : Step(w, "ack", to)
  /\ Fault
  /\ UNCHANGED <<handled, refused, unrecorded, disturbed>>

Ack(w) ==
  /\ wpc[w] = "ack"
  /\ Goto(w, "next")
  /\ wmsg' = [wmsg EXCEPT ![w] = None]
  /\ SetHandled(w, FALSE)
  /\ UNCHANGED <<queueVars, stagerVars, stopping, logVars, historyVars>>

-----------------------------------------------------------------------------
(* MessageSender.SendMessageAsync                                          *)

\* AttemptSendAfterUtc has not passed: back to a wait queue.
NotDue(w) ==
  /\ Step(w, "check", "enqueue")
  /\ ~stopping
  /\ UNCHANGED <<handled, historyVars>>

AlreadyHandled(w) ==
  /\ Step(w, "check", "settle")
  /\ ~stopping
  /\ Settled(wmsg[w]) \/ UncommittedRow(wmsg[w])
  /\ SetHandled(w, TRUE)
  /\ UNCHANGED historyVars

NotYetHandled(w) ==
  /\ Step(w, "check", "route")
  /\ ~stopping
  /\ ~Settled(wmsg[w])
  /\ UNCHANGED <<handled, historyVars>>

\* The query throws: the exception ends the task through its finally block.
CheckThrows(w) ==
  /\ Step(w, "check", "settle")
  /\ ~stopping
  /\ UNCHANGED <<handled, historyVars>>

\* What the send status, the time in queue, DNS and the client pool make of the message:
\*   logDiscard  the send is discarding        requeue  the send is paused
\*   logFail     timed out, no MX, blacklisted, or an A record that does not answer
\*   logWait     throttled, service unavailable, or an MX that does not answer
\*   enqueue     unknown send status, or at the maximum of connections
\*   settle      no client for another reason, or an exception (no such send,
\*               an address that does not parse)
\*   connect     the pool opens a connection to an MX
\*   session     the pool has a connected client that idles
Route(w) ==
  /\ \E to \in {"logDiscard", "requeue", "logFail", "logWait", "enqueue", "settle", "connect",
                "session"} :
       Step(w, "route", to)
  /\ UNCHANGED <<handled, historyVars>>

\* The connection is open and its greeting read, or the attempt failed: an MX or an A record
\* that does not answer, the maximum of connections, or something else.
Connect(w) ==
  /\ \E to \in {"session", "logWait", "logFail", "enqueue", "settle"} : Step(w, "connect", to)
  /\ UNCHANGED <<handled, historyVars>>

\* Variant: a message that is not due is kept and looked at again.
DelayInPlace(w) ==
  /\ Step(w, "enqueue", "check")
  /\ UNCHANGED <<handled, historyVars>>

\* Enqueue called directly: IsHandled stays false when the publish is refused.
DelayMessage(w) ==
  /\ wpc[w] = "enqueue"
  /\ Goto(w, "settle")
  /\ \/ Requeued(w)
     \/ Fault /\ UNCHANGED <<waiting, handled, refused>>
  /\ UNCHANGED <<accepted, staging, inbound, outbound, stagerVars, wmsg, stopping, logVars,
                 unrecorded, disturbed>>

\* MtaQueuedMessage.Requeue: IsHandled is set whatever Enqueue answers.
Requeue(w) ==
  /\ wpc[w] = "requeue"
  /\ Goto(w, "settle")
  /\ \/ Requeued(w)
     \/ /\ Fault
        /\ refused' = refused \cup {wmsg[w]}
        /\ SetHandled(w, TRUE)
        /\ UNCHANGED waiting
  /\ UNCHANGED <<accepted, staging, inbound, outbound, stagerVars, wmsg, stopping, logVars,
                 unrecorded, disturbed>>

\* The remote MX answers 250 after the data: it is responsible from now on.
RemoteAccepts(w) ==
  /\ wpc[w] = "session"
  /\ Goto(w, "logSuccess")
  /\ delivered' = Put(delivered, wmsg[w])
  /\ UNCHANGED <<queueVars, stagerVars, wmsg, handled, stopping, success, rejected, historyVars>>

\* 5xx: the failed callback logs a failure; any other refusal, and a read that failed (its
\* exception is swallowed and the reply is empty): it logs a deferral; an exception: the catch
\* block logs a deferral; a client that is not connected: the commands return false and
\* nothing is logged.
SessionFails(w) ==
  /\ \E to \in {"logReject", "logDefer", "abrupt", "settle"} : Step(w, "session", to)
  /\ UNCHANGED <<handled, historyVars>>

\* The connection breaks after the remote MX has taken the message and before its 250
\* is read: ReadAllLinesAsync swallows the exception of a read and answers "", which the
\* failed callback logs as a deferral; a reply cut off before its fourth character makes it
\* throw, outside that catch.
ReplyLost(w) ==
  /\ wpc[w] = "session"
  /\ \E to \in {"logDefer", "abrupt"} : Goto(w, to)
  /\ Fault
  /\ delivered' = Put(delivered, wmsg[w])
  /\ disturbed' = disturbed \cup {wmsg[w]}
  /\ UNCHANGED <<queueVars, stagerVars, wmsg, handled, stopping, success, rejected,
                 refused, unrecorded>>

\* Variant: a 5xx answer is counted as accepted.
LogRejectAsSuccess(w) ==
  /\ IF wpc[w] \in {"logSuccess", "logReject"}
       THEN success' = Put(success, wmsg[w]) /\ UNCHANGED rejected
       ELSE rejected' = Put(rejected, wmsg[w]) /\ UNCHANGED success
  /\ UNCHANGED delivered

\* The row and the counter of the send are written in one SQL transaction.
LogFinalRow(w) ==
  /\ IF wpc[w] = "logSuccess"
       THEN success' = Put(success, wmsg[w]) /\ UNCHANGED rejected
       ELSE rejected' = Put(rejected, wmsg[w]) /\ UNCHANGED success
  /\ UNCHANGED delivered

\* HandleDeliverySuccessAsync, HandleDeliveryFailAsync, HandleMessageDiscardAsync.
LogFinal(w) ==
  /\ wpc[w] \in FinalLog
  /\ LogFinalRow(w)
  /\ SetHandled(w, TRUE)
  /\ Goto(w, "settle")
  /\ UNCHANGED <<queueVars, stagerVars, wmsg, stopping, historyVars>>

\* Where an exception at a log point goes: inside the SMTP session to the catch block
\* that defers the message, outside it to the end of the task.
AfterException(pc) == IF pc \in {"logReject", "logSuccess", "logDefer"} THEN "abrupt" ELSE "settle"

\* LogTransactionAsync throws, before or after the server committed the row.
LogFinalThrows(w) ==
  /\ wpc[w] \in FinalLog
  /\ Fault
  /\ Goto(w, AfterException(wpc[w]))
  /\ \/ LogFinalRow(w) /\ UNCHANGED disturbed
     \/ /\ UNCHANGED logVars
        /\ disturbed' = IF wpc[w] = "logSuccess" THEN disturbed \cup {wmsg[w]} ELSE disturbed
  /\ UNCHANGED <<queueVars, stagerVars, wmsg, handled, stopping, refused, unrecorded>>

\* The Success row is written, IsHandled is set, and then ending the session throws: QUIT
\* after the last message of a connection, or the return of the client to the pool.
SessionEndThrows(w) ==
  /\ wpc[w] = "logSuccess"
  /\ Fault
  /\ LogFinalRow(w)
  /\ SetHandled(w, TRUE)
  /\ Goto(w, "abrupt")
  /\ UNCHANGED <<queueVars, stagerVars, wmsg, stopping, refused, unrecorded, disturbed>>

\* Variant: the deferral is logged and the message counts as handled, but is not queued.
LogDeferralForgetsRequeue(w) ==
  /\ wpc[w] \in DeferLog
  /\ Step(w, wpc[w], "settle")
  /\ SetHandled(w, TRUE)
  /\ UNCHANGED historyVars

\* HandleDeliveryDeferralAsync, HandleDeliveryThrottleAsync, HandleServiceUnavailableAsync.
LogDeferral(w) ==
  /\ wpc[w] \in DeferLog
  /\ Step(w, wpc[w], "requeue")
  /\ UNCHANGED <<handled, historyVars>>

LogDeferralThrows(w) ==
  /\ wpc[w] \in DeferLog
  /\ Fault
  /\ Step(w, wpc[w], AfterException(wpc[w]))
  /\ UNCHANGED <<handled, refused, unrecorded, disturbed>>

-----------------------------------------------------------------------------
(* RabbitMQ and the process                                                *)

\* The time to live of a copy in a wait queue ends: dead-lettered to OutboundWaiting.
Expire(m) ==
  /\ waiting[m] > 0
  /\ waiting' = Take(waiting, m)
  /\ outbound' = Put(outbound, m)
  /\ UNCHANGED <<accepted, staging, inbound, stagerVars, workerVars, logVars, historyVars>>

Stop ==
  /\ ~stopping
  /\ stopping' = TRUE
  /\ UNCHANGED <<queueVars, stagerVars, wpc, wmsg, handled, logVars, historyVars>>

StagersWith(m) == {s \in Stagers : smsg[s] = m}
WorkersWith(m) == {w \in Workers : wmsg[w] = m}

\* Messages of which a thread has published another copy, or which a remote MX has
\* taken, without a row that says so: a redelivery makes a second live copy of them.
HalfDone ==
  {smsg[s] : s \in {t \in Stagers : spc[t] = "ack"}} \cup
  {wmsg[w] : w \in {v \in Workers : wpc[v] = "logSuccess" \/ (handled[v] /\ ~Settled(wmsg[v]))}}

\* The process ends (a crash, a lost connection to RabbitMQ, which the dispatcher does
\* not survive, an exception of Publish or Ack in a staging thread, which nothing catches,
\* or the exit after Stop) and starts again: RabbitMQ makes every unacknowledged copy
\* ready again.
Restart ==
  /\ Fault
  /\ staging' = [m \in Messages |-> staging[m] + Cardinality(StagersWith(m))]
  /\ outbound' = [m \in Messages |-> outbound[m] + Cardinality(WorkersWith(m))]
  /\ spc' = [s \in Stagers |-> "idle"]
  /\ smsg' = [s \in Stagers |-> None]
  /\ wpc' = [w \in Workers |-> "idle"]
  /\ wmsg' = [w \in Workers |-> None]
  /\ handled' = [w \in Workers |-> FALSE]
  /\ stopping' = FALSE
  /\ disturbed' = disturbed \cup HalfDone
  /\ UNCHANGED <<accepted, inbound, waiting, logVars, refused, unrecorded>>

-----------------------------------------------------------------------------

StagerStep(s) ==
  \/ \E m \in Messages : StagerDequeue(s, m)
  \/ StagerPublishInbound(s)
  \/ StagerPublishOutbound(s)
  \/ StagerAck(s)

SendStep(w) ==
  \/ LoopStopped(w) \/ NotDue(w) \/ AlreadyHandled(w) \/ NotYetHandled(w) \/ CheckThrows(w)
  \/ Route(w) \/ Connect(w) \/ DelayMessage(w) \/ Requeue(w)
  \/ RemoteAccepts(w) \/ SessionFails(w) \/ ReplyLost(w)
  \/ LogFinal(w) \/ LogFinalThrows(w) \/ SessionEndThrows(w) \/ LogDeferral(w) \/ LogDeferralThrows(w)
  \/ SettleDelivery(w) \/ PublishThrows(w) \/ Ack(w) \/ AckThrows(w)

WorkerStep(w) ==
  \/ \E m \in Messages : Dequeue(w, m)
  \/ DequeueNothing(w)
  \/ SendStep(w)

Next ==
  \/ \E m \in Messages : Enqueue(m) \/ Expire(m)
  \/ \E s \in Stagers : StagerStep(s)
  \/ \E w \in Workers : WorkerStep(w)
  \/ Stop
  \/ Restart

Spec == Init /\ [][Next]_vars

\* Where a worker reads from a remote server: the greeting, and the replies of a session.
Waits == {"connect", "session"}

\* The threads run: a thread that can take its next step does so, which takes it that
\* RabbitMQ answers publishes and SQL Server answers commands.  Of a remote server nothing is
\* assumed: the reads of SmtpStreamHandler are asynchronous, to which ReceiveTimeout does not
\* apply, so a silent server keeps its worker for ever.  Nor is anything assumed of clients,
\* operators, faults, or of which outcome an attempt has.
Fairness ==
  /\ \A s \in Stagers : WF_vars(StagerStep(s))
  /\ \A w \in Workers : WF_vars(wpc[w] \notin Waits /\ SendStep(w))

FairSpec == Spec /\ Fairness

-----------------------------------------------------------------------------
(* Properties                                                              *)

\* Some queue or thread still has a copy of m.
Held(m) ==
  \/ staging[m] > 0 \/ outbound[m] > 0 \/ waiting[m] > 0
  \/ \E s \in Stagers : smsg[s] = m
  \/ \E w \in Workers : wmsg[w] = m

\* A message that QueueManager.Enqueue answered true for is never silently lost: until it
\* has a final row there is a copy of it, through restarts, dirty reads of the log,
\* failed SQL writes and stops, unless the broker refused a publish the code ignored.
NoSilentLoss == \A m \in accepted \ refused : Settled(m) \/ Held(m)

\* A message that no fault left with two live copies is given to a remote MX at most once
\* and gets at most one final row, whatever the staging threads, workers and wait queues
\* do: requeueing before acknowledging never makes two workers attempt it.
AtMostOnce ==
  \A m \in Messages \ disturbed : delivered[m] <= 1 /\ success[m] + rejected[m] <= 1

\* The final row tells the truth: mta_send_accepted never counts more deliveries than
\* remote servers confirmed, and an undisturbed message that was delivered is not also
\* reported as failed or discarded.
TruthfulOutcome ==
  \A m \in Messages :
    /\ success[m] <= delivered[m]
    /\ m \notin disturbed => rejected[m] = 0 \/ delivered[m] = 0

\* A message reaches the sender only after it was handed to the importer that gives it
\* its row in man_mta_msg: its transactions can be joined to it.
RecordedBeforeSent ==
  \A m \in Messages :
    outbound[m] + waiting[m] > 0 \/ m \in {wmsg[w] : w \in Workers} \/ delivered[m] > 0
      => m \in inbound \cup unrecorded

\* A delivery is not held for ever: a worker comes back again and again to where it holds
\* none, so the prefetch window of the channel (750 unacknowledged deliveries) does not fill
\* up.  The code lets two of its workers stay away: one that waits for a remote server
\* that never answers, and one whose finally block threw.
HeldIsReleased ==
  \A w \in Workers : []<>(wpc[w] \in {"idle", "next"}) \/ <>[](wpc[w] \in Waits \cup {"stuck"})

\* Every accepted message leaves InboundStaging for good: from some time on it was
\* published to Inbound, every copy that was delivered to a staging thread has gone
\* through the publish to OutboundWaiting and was acknowledged, and none is redelivered.
StagingDrains ==
  \A m \in Messages :
    <>[](m \in accepted =>
           m \in inbound \cup unrecorded /\ staging[m] = 0 /\ StagersWith(m) = {})

-----------------------------------------------------------------------------
(* The relay keeps the contract                                            *)

StandingOf(m) ==
  IF m \notin accepted THEN "new"
  ELSE IF Settled(m) THEN "settled"
  ELSE IF Held(m) THEN "owed"
  ELSE "lost"

Contract == INSTANCE RelayContract WITH standing <- [m \in Messages |-> StandingOf(m)]

\* Every step of the relay is a step of the contract or none: a message goes from owed to
\* settled, once, and is let go of unsettled only after a refused publish.
KeepsContract == Contract!ContractSpec
=============================================================================
