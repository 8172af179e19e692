--------------------------- MODULE RetrySchedule ---------------------------
(***************************************************************************)
(* When a queued message is tried again, and when it is given up: the      *)
(* times MtaQueuedMessage and MessageSender set, and the wait queue        *)
(* RabbitMqOutboundQueueManager.Enqueue chooses for them.  One message;    *)
(* MessageRelay says what happens to its copies.                           *)
(*                                                                         *)
(* Time is counted in fractions of a second (Second of them), because      *)
(* Enqueue rounds the time left up to whole seconds; time 0 is             *)
(* QueuedTimestampUtc.  Time passes while the message is in a wait queue   *)
(* (its time to live), in OutboundWaiting (the backlog) and in a worker's  *)
(* hands.                                                                  *)
(***************************************************************************)
EXTENDS Naturals, Integers

CONSTANTS
  Second,           \* units of time per second
  MtaRetryInterval, \* minutes, from man_cfg_para
  MtaMaxTimeInQueue,\* minutes, from man_cfg_para
  Delays,           \* units of time that can pass in a backlog or a worker
  MaxBacklog,       \* bound on the sum of these delays
  MaxPauses         \* bound on the requeues that come before the check of the time in queue

ASSUME TimesAssumption ==
  /\ Second \in Nat \ {0}
  /\ MtaRetryInterval \in Nat \ {0}
  /\ MtaMaxTimeInQueue \in Nat
  /\ Delays \subseteq Nat
  /\ MaxBacklog \in Nat /\ MaxPauses \in Nat

VARIABLES
  clock,         \* DateTime.UtcNow
  attemptAfter,  \* AttemptSendAfterUtc
  deferredCount, \* DeferredCount
  place,         \* one of Place
  expiry,        \* end of the time to live in the wait queue
  outcome,       \* the final row of the log
  backlog,       \* sum of the delays so far
  pauses

scheduleVars == <<clock, attemptAfter, deferredCount, place, expiry, outcome, backlog, pauses>>

\* OutboundWaiting, a wait queue, a worker's hands, or acknowledged and logged.
Place == {"waiting", "wait", "held", "done"}
Outcome == {"none", "delivered", "failed", "timedOut", "discarded"}

ScheduleTypeOK ==
  /\ clock \in Nat
  /\ attemptAfter \in Nat
  /\ deferredCount \in Nat
  /\ place \in Place
  /\ expiry \in Nat
  /\ outcome \in Outcome
  /\ backlog \in 0..MaxBacklog
  /\ pauses \in 0..MaxPauses
  /\ (place = "done") <=> (outcome # "none")

\* MtaQueuedMessage.CreateNew: due at once.
ScheduleInit ==
  /\ clock = 0
  /\ attemptAfter = 0
  /\ deferredCount = 0
  /\ place = "waiting"
  /\ expiry = 0
  /\ outcome = "none"
  /\ backlog = 0
  /\ pauses = 0

-----------------------------------------------------------------------------

Minute == 60 * Second

\* (int)Math.Ceiling of a difference of times, in seconds.
SecondsUntil(time) == IF time <= clock THEN 0 ELSE (time - clock + Second - 1) \div Second

\* Variant: the next longer wait queue is taken.
WaitQueueTooLong(seconds) ==
  CASE seconds = 0 -> 0
    [] seconds \in 1..9    -> 10
    [] seconds \in 10..59  -> 60
    [] OTHER -> 300

\* The wait queue for a message due in so many seconds, named by its time to live in
\* seconds; 0 is OutboundWaiting.
WaitQueue(seconds) ==
  CASE seconds = 0 -> 0
    [] seconds \in 1..9    -> 1
    [] seconds \in 10..59  -> 10
    [] seconds \in 60..299 -> 60
    [] OTHER -> 300

\* RabbitMqOutboundQueueManager.Enqueue of the message, due at time.
Enqueue(time) ==
  LET ttl == WaitQueue(SecondsUntil(time))
  IN  /\ attemptAfter' = time
      /\ place' = IF ttl = 0 THEN "waiting" ELSE "wait"
      /\ expiry' = clock + ttl * Second

\* Doubled so many times; from the eighth on any interval is over three hours.
Doublings == <<1, 2, 4, 8, 16, 32, 64, 128>>

\* The retry interval in minutes: doubled for each earlier deferral, at most three hours.
Backoff(count) ==
  IF count \notin DOMAIN Doublings \/ MtaRetryInterval * Doublings[count] > 180 THEN 180
  ELSE MtaRetryInterval * Doublings[count]

-----------------------------------------------------------------------------
(* Time                                                                    *)

Delay ==
  /\ place \in {"waiting", "held"}
  /\ \E d \in Delays : /\ backlog + d <= MaxBacklog
                       /\ backlog' = backlog + d
                       /\ clock' = clock + d
  /\ UNCHANGED <<attemptAfter, deferredCount, place, expiry, outcome, pauses>>

\* Dead-lettered to OutboundWaiting.
Expire ==
  /\ place = "wait"
  /\ clock' = IF expiry > clock THEN expiry ELSE clock
  /\ place' = "waiting"
  /\ UNCHANGED <<attemptAfter, deferredCount, expiry, outcome, backlog, pauses>>

-----------------------------------------------------------------------------
(* MessageSender                                                           *)

Dequeue ==
  /\ place = "waiting"
  /\ place' = "held"
  /\ UNCHANGED <<clock, attemptAfter, deferredCount, expiry, outcome, backlog, pauses>>

NotDue ==
  /\ place = "held"
  /\ attemptAfter > clock
  /\ Enqueue(attemptAfter)
  /\ UNCHANGED <<clock, deferredCount, outcome, backlog, pauses>>

Due == place = "held" /\ attemptAfter <= clock

Done(o) ==
  /\ outcome' = o
  /\ place' = "done"
  /\ UNCHANGED <<clock, attemptAfter, deferredCount, expiry, backlog, pauses>>

\* Variant: requeued without a new due time.
RequeueAtOnce(units) ==
  /\ Enqueue(attemptAfter)
  /\ UNCHANGED <<clock, deferredCount, outcome, backlog, pauses>>

RequeueIn(units) ==
  /\ Enqueue(clock + units)
  /\ UNCHANGED <<clock, deferredCount, outcome, backlog, pauses>>

\* The send is discarded; before the time in queue is looked at.
Discard == Due /\ Done("discarded")

\* A minute, before the time in queue is looked at: HandleSendPaused, an unknown status, or
\* a check that throws.
Pause ==
  /\ Due
  /\ pauses < MaxPauses
  /\ pauses' = pauses + 1
  /\ Enqueue(clock + Minute)
  /\ UNCHANGED <<clock, deferredCount, outcome, backlog>>

\* Variant: the planned time may be a whole retry interval late.
TimedOutLater == attemptAfter > (MtaMaxTimeInQueue + MtaRetryInterval) * Minute

TimedOut == attemptAfter > MtaMaxTimeInQueue * Minute

GiveUp == Due /\ TimedOut /\ Done("timedOut")

Attempt == Due /\ ~TimedOut

Succeed == Attempt /\ Done("delivered")

\* No MX, a blacklisted one, an A record that does not answer, a 5xx.
Fail == Attempt /\ Done("failed")

\* HandleDeliveryThrottleAsync, or an attempt that ends without handling the message.
Throttle == Attempt /\ RequeueIn(Minute)

\* HandleServiceUnavailableAsync
ServiceUnavailable == Attempt /\ RequeueIn(15 * Second)

\* FailedMaxConnections
MaxConnections == Attempt /\ RequeueIn(2 * Second)

\* HandleDeliveryDeferralAsync with an interval in minutes.
DeferFor(minutes) ==
  /\ deferredCount' = deferredCount + 1
  /\ Enqueue(clock + minutes * Minute)
  /\ UNCHANGED <<clock, outcome, backlog, pauses>>

\* A refusal or a broken connection: back off.  421: a minute.  An MX that does not
\* answer: a quarter of an hour.
Defer == Attempt /\ \E minutes \in {Backoff(deferredCount + 1), 1, 15} : DeferFor(minutes)

Send ==
  \/ Dequeue \/ NotDue
  \/ Discard \/ Pause \/ GiveUp \/ Succeed \/ Fail
  \/ Throttle \/ ServiceUnavailable \/ MaxConnections \/ Defer

ScheduleNext == Delay \/ Expire \/ Send

ScheduleSpec == ScheduleInit /\ [][ScheduleNext]_scheduleVars

\* Workers take what is waiting, and RabbitMQ dead-letters what has expired.
FairSpec == ScheduleSpec /\ WF_scheduleVars(Send) /\ WF_scheduleVars(Expire)

-----------------------------------------------------------------------------
(* Properties                                                              *)

\* A message is never held back by its wait queue: it is in OutboundWaiting again less than a
\* second after it is due.
BackWhenDue == place = "wait" => expiry < attemptAfter + Second

\* However long it takes, a message is deferred a limited number of times: every deferral
\* costs a minute of its time in queue.
DeferralsAreLimited == deferredCount <= MtaMaxTimeInQueue + 1

\* Whatever the answers are, deferrals and full pools included, every message gets its
\* outcome: the time limit ends all retries (but those that pass it by, see MaxPauses).
EventuallyDone == <>(place = "done")

\* Nothing is delivered later than the maximum time in queue plus the time that it spent in
\* OutboundWaiting and with workers: the wait queues and the rounding add less than a second.
\* The backlog does add to it, since only the planned time is compared with the maximum.
LateOnlyByBacklog ==
  outcome = "delivered" => clock < MtaMaxTimeInQueue * Minute + Second + backlog
=============================================================================
