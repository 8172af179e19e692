# MantaMTA in TLA+

MantaMTA is a mail transfer agent for bulk mail, written in C#. It takes messages over SMTP,
keeps them in RabbitMQ queues, sends them to the MX of their recipient, tries again later when
that fails, and records every attempt in SQL Server. Bounces and complaints that come back by
mail are turned into events, which are posted to a web service.

This directory holds TLA+ specifications of its core (`src/MantaCore`), TLC configurations
that check them on small instances, and TLAPS proofs. Paths below are relative to
`src/MantaCore` unless they start with `src/`.

Contents: [the system](#the-system) · [modules](#modules-and-code) ·
[runs](#what-the-runs-check) · [bounds](#bounds-and-fairness) · [proofs](#what-is-proved) ·
[divergences](#where-the-code-and-its-comments-disagree) · [not covered](#what-is-not-modelled) ·
[plan](#plan)

## The system

```
 SMTP client                                                        remote MX
     |                                                                 ^
 SmtpServer  --local-->  drop folders --> EventsFileHandler            | SmtpOutboundClient
     | Enqueue                                  |                      |
 [InboundStaging] --staging threads-->  [OutboundWaiting] --> MessageSender tasks
                        |                       ^                |  |   |
                   [Inbound]                    | TTL            |  |   SmtpClientPool, DNS,
                        |               [OutboundWait 1,10,60,300]  |   rules, throttle, sends
                   QueueManager                                     |
                        v                                           v
                   man_mta_msg                              man_mta_transaction
                                       man_evn_event <-- EventsManager
                                            |
                                     EventHttpForwarder --> web service
```

Names in brackets are RabbitMQ queues; they survive a crash of the process and give a delivery
that was not acknowledged to the next consumer.

| Component | State it keeps | Operations | Talks to | What is hard | What makes it correct |
|---|---|---|---|---|---|
| Inbound staging (`RabbitMq/RabbitMqInboundStagingHandler.cs`) | the delivery in hand, per thread | dequeue, publish to Inbound, publish to OutboundWaiting, acknowledge | RabbitMQ | crash between the publishes, refused publishes | nothing accepted is lost; recorded before sent |
| Sender (`Client/MessageSender.cs`, `Client/BO/MtaQueuedMessage.cs`, `DAL/MtaTransaction.cs`) | tasks, the message of each, `IsHandled`, the log in SQL | dispatch, route, session, log, requeue, acknowledge, stop | RabbitMQ, SQL, pool, DNS, rules | many tasks, duplicates, dirty reads, exceptions at every call | no loss, no second delivery, true outcomes, the prefetch window stays open |
| Bulk import (`Server/QueueManager.cs`) | batch, staging table, prefetch window | dequeue a batch, bulk copy, MERGE and DELETE, acknowledge, stop | RabbitMQ, SQL | partial failure, cumulative acknowledgement, redelivery | every record gets its row; failures do not stop the import |
| Connection pool (`Smtp/SmtpClientPool.cs`) | queues of idle connections, in-use lists, counter of attempts | take, create, return, clean up | the sender's tasks, the network | unsynchronised lists and counters, removal under way | one session per connection, the maximum of the outbound rule, no place used up for ever |
| Retry timing (`RabbitMq/RabbitMqOutboundQueueManager.cs`, `MtaQueuedMessage.cs`) | due time, number of deferrals | choose a wait queue, defer, give up | RabbitMQ's TTLs | rounding, back-log | back when due, given up in time |
| SMTP server (`Server/SmtpServer.cs`, `Server/SmtpServerTransaction.cs`) | one transaction per connection | HELO, MAIL, RCPT, DATA, RSET, QUIT, save | client, drop folders, QueueManager | state carried between commands, failure after a partial save | the envelope that was answered for is the one stored; replies are true; no open relay |
| SMTP streams (`Smtp/SmtpStreamHandler.cs`) | two readers, transport encoding | read and write lines | sockets | pipelined input and two buffers | commands and data arrive in order, each once |
| SMTP client dialogue (`Smtp/SmtpOutboundClient.cs`) | connection, HELO sent or not, count of messages, the collector of idle connections | HELO or RSET, MAIL, RCPT, DATA, QUIT | remote MX | collector against session | no command out of order, QUIT only when idle |
| Events (`Events/EventsManager.cs`) | `man_evn_event` | classify bounces and complaints, save | SQL | text rules, no duplicates | an event per bounce |
| Drop folder handler (`Events/EventsFileHandler.cs`) | running flags, files | watch, process, move, delete, stop | file system, EventsManager | two handlers at a time, locked files, stop | each file processed once; stop ends |
| Event forwarder (`Events/EventHttpForwarder.cs`) | the batch of ten | fetch, post, save, stop | SQL, web service | head of line, repeated posts, stopping itself | every event is posted at least once |
| Outbound rules (`OutboundRules/OutboundRuleManager.cs`) | cache of matched patterns | match, read a rule | SQL | expiry | the rule that is used is the current one |
| Throttle (`OutboundRules/ThrottleManager.cs`) | send history per address and pattern | ask for permission, clean | the sender's tasks | shared histories | no more than the rule in an interval |
| Sends (`Sends/SendManager.cs`) | ten-second cache by two keys | get, clear, set status | SQL | stale status | a paused or discarded send stops soon |
| Virtual MTAs (`VirtualMTA/VirtualMtaManager.cs`, `VirtualMtaGroupClasses.cs`) | groups of addresses, with the sends of each address by host | get a group, choose an address | SQL, the sender's tasks | many tasks find a group too old, group objects that were replaced | one load at a time, addresses that are members, an even share |
| DNS (`DNS/DNSManager.cs`) | MX records by domain, until their time to live | look up | resolver, the sender's tasks | lookups that overlap, a resolver that fails | hosts that DNS named recently |
| Unavailable services (`Client/ServiceNotAvailableManager.cs`) | the latest failure by address and host | add, ask | pool, SMTP client, sender | failures noted out of order, the loop over the MXs | a host that refuses is left alone, the preference is kept |
| Start and stop (`MantaCoreEvents.cs`, `src/MantaService`) | list of parts | start, stop in order | all | a part that does not answer | the process ends, nothing is lost |

`PROJECT.json` lists the components with their status, and under `hazards` what can go wrong in
each, at the line where it would, with the property that would show it.

## Modules and code

| Module | Models | Extends / instances |
|---|---|---|
| `RelayContract` | what the MTA owes an accepted message: an outcome | – |
| `MessageRelay` | the relay pipeline, from `QueueManager.Enqueue` to the final row | instances `RelayContract` |
| `MessageRelayProofs` | in three parts: its inductive invariant, one live copy and a true row, the refinement of `RelayContract` | `MessageRelay`, TLAPS |
| `BulkImporter` | the thread of `QueueManager` | – |
| `BulkImporterProofs` | its invariants and theorems | `BulkImporter`, TLAPS |
| `ClientPool` | `SmtpClientPool` and its queue objects | – |
| `ClientPoolProofs` | its invariant and theorems | `ClientPool`, TLAPS |
| `RetrySchedule` | due times, wait queues and the limit on the time in queue | – |
| `OutboundRules` | `OutboundRuleManager`: which pattern a host and an address get | – |
| `Throttle` | `ThrottleManager`: messages per hour | – |
| `OutboundLimits` | the rules beside the limits they set | `OutboundRules`; instances `Throttle` |
| `OutboundProofs` | the rules; then the throttle: its intervals and the limit of an hour | `OutboundLimits`, TLAPS |
| `SmtpServerSession` | one SMTP connection and its transactions | – |
| `SmtpLines` | `SmtpStreamHandler` under the SMTP server: two readers over one stream | – |
| `SmtpServerProofs` | the session; then the two readers: that they behave as one | `SmtpServerSession`, `SmtpLines`, TLAPS |
| `SmtpDialogue` | `SmtpOutboundClient`: one connection to a remote server, and the idle thread | – |
| `SmtpDialogueProofs` | its invariant and theorems | `SmtpDialogue`, TLAPS |
| `EventTable` | `man_evn_event`, with what the next three share | – |
| `DropFolder` | `EventsFileHandler`: two folders, their watchers and handlers | `EventTable` |
| `EventForwarder` | `EventHttpForwarder` | `EventTable` |
| `EventPipeline` | the two composed over the table, the service's stop, crashes | `DropFolder`, `EventForwarder` |
| `EventPipelineProofs` | its invariant and theorems | `EventPipeline`, TLAPS |
| `SendCache` | `SendManager`: the status of a send behind two dictionaries | – |
| `MxRecords` | `DNSManager`: the MX records of a domain, cached and looked up | – |
| `MxRouting` | the loop of `DequeueAsync` over the MXs, with `ServiceNotAvailableManager` | – |
| `AddressGroups` | `VirtualMtaManager` and the choice of a sending address in a group | – |
| `SenderCaches` | the last four side by side: what is looked up for a message | `SendCache`; instances `MxRecords`, `MxRouting`, `AddressGroups` |
| `SenderProofs` | the four caches; then when a message is tried again | `SenderCaches`, `RetrySchedule`, TLAPS |
| `MC*` | the finite instances; each has a `.cfg` per run | their module; `MCThrottle` `OutboundLimits` |

Definitions marked *Variant* in a module are not part of its specification. Each is a definition
with a mistake put in, of a kind that could be made in the code, and is listed in `PROJECT.json`
under `mutants` with the property that finds it.

### MessageRelay

A queue is a bag of copies of messages: `staging`, `outbound` and `waiting` count the ready
copies, and a copy delivered to a thread is in `smsg` (staging threads) or `wmsg` (worker tasks)
until its acknowledgement. `inbound` is only a set: `BulkImporter` says what becomes of it.

* `spc` is where `HandleDequeue` is between its two publishes and its `Ack`. The answer of
  `Publish` is not looked at, as in the code; a refused publish is a fault, noted in `refused` or
  `unrecorded`.
* `wpc` follows `taskWorker` and `SendMessageAsync`. `check` is the top of the loop (stop flag,
  due time, `HasBeenHandledAsync`); `route` is everything from the status of the send to the
  pool, of which only where it leads is kept; `connect` the attempt to open a connection, up to the
  server's greeting; `session` the SMTP dialogue; `log...` the handlers of
  `MtaQueuedMessage` at the moment they write their row; `requeue` is `Requeue`, which counts the
  message as handled whatever happened, `enqueue` a direct `Enqueue`, which does not; `settle`
  the "Message not handled" code, which is the same in the loop and in `finally`; `ack`, and
  `next`, where a task dequeues again before it looks at the stop flag.
* Exceptions: one of the query goes to `settle`; one inside the session to the catch block
  (`abrupt`), which logs a deferral; one outside to the end of the task (`AfterException`). A publish may
  throw (`PublishThrows`) before or after the broker has the copy, and so may the acknowledgement
  (`AckThrows`): in the loop the `finally` block starts over, in the `finally` block itself nothing does. Then the task is
  `stuck`: its delivery is not acknowledged and its place among the tasks is kept, until the process restarts.
* The log is `success` and `rejected` per message. `HasBeenHandledAsync` reads uncommitted, so it
  may see the row of a worker that has not finished writing it (`UncommittedRow`), even if that
  write fails afterwards.
* `Restart` is every way the process ends, and starts again; one is an exception of `Publish` or `Ack` in a staging thread,
  which nothing there catches.

`delivered` counts what remote servers took; `disturbed` remembers messages that a crash or a lost
answer or a publish that threw too late left with two live copies, for which a second delivery cannot be excluded. Both are needed
to say what the code promises, and change nothing.

### BulkImporter

`inbound` is ordered; `unacked` is the window of deliveries in the order of their tags, and
`batch` its last part. `MergeAndDelete` is the MERGE on the unique message id and the DELETE of the
staging table, which has no key: a row left by an earlier failure is merged with the next batch.
`MergeDuplicateKey` is the MERGE that fails since the staging table has a message twice. `Ack`
acknowledges everything up to the last tag.

### ClientPool

Queue objects have an identity of their own: the pool maps a host to one, a worker keeps a
reference to the one it found, and the cleaner removes the mapping after it has looked. The steps
of a worker are cut at every lock boundary and at the accesses that are not under a lock:
`DecrementRead` and `DecrementWrite` are the counter's `--`, and two threads changing
`InUseConnections` at a time may lose a change (`ListRace`). `MaxRaces` bounds these.

### RetrySchedule

One message and a clock that counts fractions of a second, since `Enqueue` rounds up to seconds.
`WaitQueue` is the choice of the queue, `Enqueue` sets its end of life, `Expire` is the
dead-lettering, `Delay` the time a message spends in OutboundWaiting or with a worker. The answer to
an attempt is a free choice among all the handlers.

### OutboundRules

A collection of matched patterns has an identity, since two workers may each create the one of a host and
the second replaces the first (`CreateCollection`); the worker whose collection was replaced goes on with it.
`Cached` is `GetMatchedMxPattern` with its test the way the code has it: an entry of the address is
answered when it has *expired*, and `GetMxPatternID` then refuses it, so the address is searched for every
time, which is right but slow. The entry for all addresses is used while it is fresh and the address has none
of its own. Each entry has its age; the tables are constants, as the code never reads them again.

### Throttle

`current` is `_sendHistory`: an object per address with a list of sends per pattern (`sends`) and one interval
for all of them. The steps of `TryGetSendAuth` are cut where workers can get in between: finding or
creating the object (`AddHistory` replaces that of another worker), the two halves of the interval, and the locked
part. A pattern comes from `OutboundRules` as any pattern. A list of times is only ever shortened to those of the last
so many minutes, counted, and added to, so it is kept as the number of sends in the last `k` minutes, for each `k` (`Recent`,
`Count`, `OneMore`, `Older`). The interval of a rule is found by a loop in floating point in the code; for every rule up to
100000 messages an hour that loop finds what the division of whole numbers gives here. `allowed` remembers what was allowed in the last
hour, whatever object it was counted in; `replaced` and `mixed` the two ways in which the code forgets
or exceeds the limit.

### SmtpServerSession

The connection's variables in `HandleSmtpConnection` (`hasHello`, `mailTransaction`) and what a
`DATA` stored. Addresses are in two classes, mailboxes of a local domain and addresses elsewhere.
A command that is refused and changes nothing is no step; a refused `MAIL FROM` does change
something, as the new transaction is made before its address is looked at. `Close` is a client that
goes away, a timeout or an exception, at any point.

### SmtpLines

A line is known by its number. `filled` counts the lines that some reader has taken from the stream; `ascii` and
`utf8` are those that it keeps and that nobody has read. `Fill` is a read of the network: the reader in use takes any
number of the lines on the way. `mime` is `_CurrentTransportMIME`, which `ReadData` sets to what the transaction asks for
and `ReadDot` resets. The client writes whatever RFC 2920 allows before it waits. `ahead` remembers that it went on after
the dot of a UTF-8 message without waiting for the answer.

### SmtpDialogue

A record `pc` says which command the worker is at (`verb`) and where in it (`stage`): before the test of `Connected`,
before the write, before the read of one of up to three replies. A reply names the command it answers, which the
code cannot see; `InStep` is about just that. A failure calls back, which drops the connection with what is on the way left
there. The idle thread (`collector`) looks without a lock, writes QUIT, and closes. `Finally` is the block that
clears `IsActive` *after* the connection was enqueued for the next worker. The remote server is external: it keeps
to the protocol, answers as it likes, and may end the connection at any time. `cut` and `broken` name the messages whose
session one of the two ends came into; `unmarked` remembers that the mark was cleared by the worker before.

### EventPipeline

A file is `writing`, `dropped`, `done` (removed) or `aside` (moved to the folder of problems). A bounce is handled on the
thread that calls, the watcher's or the constructor's; complaints by tasks, which the calling thread starts and does
not wait for, so that it clears the flag at once. `nudges` counts raised events whose callback has not run. `hpc` is
where a run of `DirectoryHandler` is, `work` what it is doing with each file of the pass, all of them in parallel.
The text of a mail is abstracted to whether an event is found in it.

The table is a sequence of rows by id, each with its source and the `forwarded` mark. The forwarder
fetches the oldest that are not marked (`batch`: a set of ids, as the list is ordered by id), posts them one by one (`Post`), waits for the answer
(`answer`), and marks one when the service has answered with a
dot; any other answer, or an exception, leaves it for later. An answer that never comes is `NotAnswered`: the thread is `silent` until the
process ends. `Declined` are the events that the service never acknowledges.
The stop goes from the folders' handler to the forwarder and waits for each; a crash can come anywhere, and so can the
exit that the code itself makes when a file cannot be moved for ten seconds (`GivesUp`): it is gone, or the move fails
of itself (`MoveFails`), as it does when another process has it open or a right is missing.

Histories say which promise a fault took back: `again` and `together` for files, `unmovable` for files of which a move failed of itself, `doubted` for events, `missed` for
files nobody will be told of: those that come between the last listing and the watcher's return, and all that lie in a folder when an
exception ends the handling of it or when a callback finds the handler at its end.

### SendCache

The steps of `GetSendAsync` are cut at each access of the two dictionaries, `ClearSendsCache` under its lock included. A
call that began before a clearing may add what it loaded after it. The clock is a number; `seen` remembers for each
status when it was last the one in the database.

### MxRecords

One domain, whose MXs change (`ZoneChanges`). `records` is its entry in `_Records`, with the time since the constructor of `MXRecord`
took it (`Stamp`), which is after the resolver's answer and before the store. Times are ages that stop growing when they
no longer matter, so that no clock bounds the behaviours. `Query` has the three answers that the code tells apart: MX records,
null (no MX, no domain and *any* error, for which the domain itself is put), and an array without elements.
`Store` is `AddOrUpdate` for the second and `TryAdd` for the others. `seen` remembers for each answer when DNS could last give it; nothing
bounds a lookup, so `MaxQuery` is an assumption.

### MxRouting

The messages of one sending address. `place` is the loop's `i`; `lastFail` the log of the address, by age. A worker
notes the time of a failure (`ConnectFails`, `Refused`) and puts it on record later (`Add`), so that another may get in between. The
greeting with 421 and the reply 421 in the session are one action, as both end the call. Which of an idle connection, a new
one and the maximum the pool gives is `Connect`, a free choice: see `ClientPool`. The blacklist of MXs is left out, which fails a
message before the loop. `known` remembers the latest failure on record apart from the way the code updates it, `tried` the
hosts that did not answer in this call.

### AddressGroups

One group. A load makes a new object, numbered in `groups`, and a worker may still have one that was replaced, so that the
counts of an address (`SendsCounter`) start again with each object. `TryGetValue` is the look without the lock, `Enter` the one
under it; `Load` and `Fill` are the two queries, of which the first takes the time. `Choose` runs under the static lock
`_SyncLock` and is one step. `EditGroup` is the web interface. `used` counts the choices over all objects.

## What the runs check

| Run | Properties | Shows |
|---|---|---|
| `relay` | `NoSilentLoss` `AtMostOnce` `TruthfulOutcome` `KeepsContract` `HeldIsReleased` `StagingDrains` | a message is not lost unless a publish of it was refused; sent at most once unless a fault doubled it; the log does not lie; the relay implements its contract; a worker comes back from every delivery, unless a server stays silent or its `finally` block threw; InboundStaging drains for good, through both publishes and the acknowledgement |
| `bulk` | `NoRecordLost` `WipedOnlyByRepeats` `WindowReopens` `EventuallyImported` | which records can be lost and which not; the window; progress |
| `pool` | `ExclusiveUse` `LeftBehindByFailure` `AttemptsAreCounted` | one session per connection; only failures leave something in the in-use list; the counter is right but for races |
| `retry` | `BackWhenDue` `LateOnlyByBacklog` `EventuallyDone` | no wait queue holds a message past its due time; a delivery is late only by the backlog; every message gets an outcome |
| `rules` | `FirstOrGeneral` | which pattern an answer can name, whatever workers store for each other |
| `throttle` | `HourlyLimit` `RefusalIsJustified` | the limit per hour, by sliding windows; refusals have a reason |
| `session` | `EnvelopeAgrees` `AnsweredIsStored` `RefusedIsNotStored` `RelayOnlyForPermitted` | the envelope, the replies and the store agree over any sequence of commands; no relaying for others |
| `lines` | `OneStream` `LinesAreTakenAsMeant` | no line stays behind in the other reader and none is taken for what it is not, but after a client that goes on past the dot of a UTF-8 message |
| `dialogue` | `InStep` `OutcomeIsTrue` `InUseIsMarked` `ConnectionCloses` | replies are read for the command they answer; the outcome recorded is the one that happened, unless the connection ended in the session; the idle thread and a session keep apart; no connection stays open |
| `events` | `EventPerFile` `TakenOnce` `BouncesAtRest` `ExitHasCause` | one event for a file and one post of it but for named faults; no bounce is cut in two by the stop; the process exits over a file only if a move of it failed of itself or it is a complaint that two tasks had, so that no file is lost between the threads for bounces |
| `events_live` | `EventReachesService` `StopIsAnswered` | what is dropped is reported or put aside, and the stop is answered, but for the cases in which the code waits for ever: for a post that is never answered, for the rest of a list that is not read again, for itself |
| `caches` | `AnswersAreRecent` `AddressIsRecent` `SharedFairly` `RoutesAreCurrent` `MxsAreTriedInTurn` | what the sender looks up before a message: a paused or discarded send is soon no longer sent; an address that was taken out of its group is soon not used; the addresses share the messages to a host; no message goes to hosts that DNS no longer names, but for their time to live; a host on record as failing is left alone, in whatever order failures are recorded, and none is jumped over |

Each module has one type invariant, `TypeOK` (`LinesTypeOK` and `ScheduleTypeOK` in `SmtpLines` and `RetrySchedule`, whose
definitions are read beside those of another module). It is in no run's list, as it is proved of every component.
`RecordedBeforeSent` of `MessageRelay`, `DeferralsAreLimited` of `RetrySchedule`, `KnownIsRight` of `OutboundRules` and
`IntervalIsKnown` of `Throttle` are proved only.

`SendCache`, `MxRecords`, `MxRouting` and `AddressGroups` are composed in `SenderCaches`. They share no variable, so that a
behaviour of the four is an interleaving of one of each, and every property speaks of one of them: the run checks each while the
other three stay at their initial states, which is what `part` chooses. The proofs speak of the composition itself, in which any of the
four may take the next step. So it is with `OutboundLimits`, whose rules are at rest in `MCThrottle` and are checked by `rules`.

`tlc -config <cfg> <MC module>` repeats a run; the names are in `PROJECT.json` under `runs`. The configuration of a run is
`<MC module>.cfg`, for `events_live` it is `MCEventPipelineLive.cfg`.

## Bounds and fairness

The proofs have none of these bounds, so that for the safety properties they only say what the runs have seen.

* **Relay.** One message, as all the properties speak of one message at a time, while messages interact only through
  threads being busy. Two threads of each kind give two copies of it to two workers at once, and one fault at any
  point makes the second copy (a crash, a lost reply) or loses a row. Only a fault makes a second copy, so that the queues
  are bounded. The proofs lift all three bounds for the safety properties.
* **BulkImporter.** Batches of two in a window of three, four publishes of two messages: the window
  can be filled by two failed batches (300 by three of 100), a message can be in it twice, and a
  redelivered batch can be mixed with a new message.
* **ClientPool.** Two workers, one host, two queue objects, so that a second can take the place of one
  that is still referred to; two connections; one race.
* **RetrySchedule.** Half seconds, so that rounding matters; a limit of two minutes and an interval of
  one; delays of 0.5 s and 2.5 s up to 2.5 s in sum, which reach both sides of every border between
  wait queues near zero; requeues that pass the time limit by (`Pause`) at most once, since a send that stays
  paused is deferred for as long as it is.
* **OutboundRules.** Two workers, two hosts and three collections: a collection of each host, and one that was
  replaced and is still in use. Three patterns: one for an address, one for a host, the default. A cache time of
  one minute gives all three ages an entry can have: fresh, at the border, expired.
* **Throttle.** One address, whose history and interval is all that workers share; two history objects, so that one can
  replace the other; an hour of three minutes with rules of one message, whose interval is the hour, and of two,
  whose interval of two minutes does not divide it.
* **SmtpServerSession.** Two addresses of each class and three recipients: duplicates, both orders and
  a mixture in the middle. Any number of messages per connection.

* **SmtpLines.** Seven lines are a message with its envelope and dot, and the beginning of a second in the
  same group; the proof lifts the bound.
* **SmtpDialogue.** Three messages and a maximum of two per connection, so that the second ends with QUIT and a third
  may find the connection closed; one connection, as they share nothing.
* **EventPipeline.** A bounce and a complaint, two tasks for complaints and one fault: two threads for bounces exist in
  any case. `events_live` has one task, and the service declines the complaint: with batches of one, a single
  declined event is enough to hide another, as ten are with batches of ten.
* **SendCache.** One caller of each kind, a period of two and calls of up to one second, for six seconds: time
  for a late entry to be added, to expire and to be cleared. The proof lifts these bounds.
* **MxRecords.** Two workers, so that lookups overlap, and two MXs of different times to live, one of them at times the only
  one. Ages go past the longest time to live with a lookup (`RecordsAssumption`); the number of lookups has no bound.
* **MxRouting.** Two workers and two domains that share an MX, which one prefers and the other has second. An MX is left alone
  for two units: one in which a failure is recorded late, and one more.
* **AddressGroups.** A cached period of two minutes in three: two objects, both in use. Three choices of an address are more than two
  objects allow it ahead of another. One host, as each is counted for itself.

Fairness is of threads that the code runs in a loop: a staging thread, a worker between a dequeue and its acknowledgement,
the importing thread, RabbitMQ's dead-lettering of what has expired; the handlers of the folders, the callbacks of the
watchers, the forwarder, the stop; the worker that has a connection and the idle thread. It is weak, but for
one condition on the web service: an event that it does not decline, and that is posted again and again, is acknowledged
some time (strong). It is taken that RabbitMQ answers a publish, that SQL Server answers a command and that the file system does.

Of remote servers and of the web service no answer is assumed in `MessageRelay` and `EventPipeline`. The reads of `SmtpStreamHandler` are asynchronous
(`:132`, `:134`), to which the `ReceiveTimeout` of the connection (`SmtpOutboundClient.cs:165`) does not apply, also where `.Result` waits for them; so are the request and the
response of `EventHttpForwarder.cs:137-149`. A worker in `connect` or `session` is therefore under no fairness (`Waits`), and the forwarder
may go to `silent` instead of getting its answer; `HeldIsReleased`, `EventReachesService` and `StopIsAnswered` name these cases.

In `SmtpDialogue` the clock goes on, and the remote server answers or closes its end: this is assumed there, as `ConnectionCloses` is about what the idle thread and the
sessions do to each other. Nothing else is assumed of
clients, remote servers, operators, faults or the outcome of an attempt. That a free worker takes a waiting message
is assumed in `RetrySchedule` only, for its one message; in `MessageRelay` no liveness property needs it.

Deadlock is not checked (`CHECK_DEADLOCK FALSE`): clients may send nothing more, messages may all be settled, and
the bounds on faults, copies and races end behaviours that go on in the program. The liveness properties say where
the program must go on.

## What is proved

Every safety property and action property that a run checks, and the type invariant of every component, for every value of the
constants. The assumptions are those named at each table; TLC evaluates them in the runs.

For any set of messages, any finite sets of staging threads and workers and any number of faults
(`NoneAssumption`, `ThreadsAssumption`, `FaultsAssumption`):

| Theorem | States |
|---|---|
| `MessageRelayProofs!TypeCorrect` | `Spec => []TypeOK` |
| `MessageRelayProofs!AcceptedIsSettledOrHeld` | `Spec => []NoSilentLoss` |
| `MessageRelayProofs!RecordedFirst` | `Spec => []RecordedBeforeSent` |
| `MessageRelayProofs!Inductive` | the invariant `IInv` they rest on |
| `MessageRelayProofs!ImplementsContract` | `Spec => KeepsContract` |
| `MessageRelayProofs!OneAttempt` | `Spec => []AtMostOnce` |
| `MessageRelayProofs!RowsTellTheTruth` | `Spec => []TruthfulOutcome` |

`NoSilentLoss` is not inductive: a worker at its acknowledgement still holds a copy, so the
property is true there whatever the worker did before, and false after the next step if it did
nothing. `IInv` therefore says *who owes* the message. `Custody` is `NoSilentLoss` with only those copies
that will be dealt with: queued, or carried by a thread that has not passed its copy on.
To pass a step of `Custody` one has to know that the thread that acknowledges has passed it on, which is
`Holding` (a thread holds a message exactly between dequeue and acknowledgement) and `handled`.

The delicate step is `AlreadyHandled`: a worker drops its copy because it saw a row that another worker
may yet fail to write. `Unhandled` says that a worker about to write a final row is not handled, hence it
carries a copy itself, and `LogFinalThrows` leaves it so: the dirty read is harmless as long as the
writer keeps its copy until the row is there. A change to the code that sets `IsHandled` before the row is
written would break exactly this conjunct.

`OnlyAccepted` and `Recorded` follow copies along the pipeline. The refinement maps a message to `new`,
`owed`, `settled` or `lost`; each action of the relay is shown to be a step of the contract or a
stutter by four lemmas on what it may disturb, and only the last acknowledgement can be `Lose`, for which
`Custody` provides that the message was refused.

`AtMostOnce` and `TruthfulOutcome` rest on a second invariant over the first, `OnceInv`: while a message is undisturbed and
has no row, one copy of it at most is alive (`Alone`) — queued, with a staging thread that has not published it, or with
a worker that has not handled it — so that only one worker can be past the look into the log. Once it has a row, nobody is
(`RowIsRight`): a second copy finds the row. `Deferring` says that a worker that puts its message off has not
handled it, and `Counted` counts, for disturbed messages too, the confirmations whose row is still to be written. Most
actions touch the copies or the rows, not both, and have two lemmas to choose from (`KeepsRows`, `KeepsCopies`).

For any messages, any sizes of batch and window, and any number of copies and faults (`SizesAssumption`):

| Theorem | States |
|---|---|
| `BulkImporterProofs!TypeCorrect` | `Spec => []TypeOK` |
| `BulkImporterProofs!RecordsAreKept` | `Spec => []NoRecordLost` |
| `BulkImporterProofs!WindowIsGivenBack` | `Spec => []WindowReopens` |
| `BulkImporterProofs!WipedByRepeats` | `Spec => []WipedOnlyByRepeats` |

The acknowledgement covers more than the batch it is for, so `NoRecordLost` needs to know of every delivery before it that it
has been dealt with: recorded, staged, or lost to one of the named failures. That is `Covered`, with the one exception of the
batch that is about to be copied, and `BatchIsLast` says where in the window that batch is. `WindowReopens` is a sum: a batch
that is at work is the only part of the window that no failure accounts for. For `WipedOnlyByRepeats` a message that was published once
has to be followed along the line: it is in one place of it at most (`InLineOnce`), so it has one staging row at most, and a row
that is staged is of a delivery before the batch to be copied (`StagedOnce`): two rows of a message need a second
copy of it, or a row that a crash left over.

For any workers, hosts, queue objects, connections and limits, and any number of races (`PoolAssumption`):

| Theorem | States |
|---|---|
| `ClientPoolProofs!TypeCorrect` | `Spec => []TypeOK` |
| `ClientPoolProofs!ConnectionsHaveOneUser` | `Spec => []ExclusiveUse` |
| `ClientPoolProofs!OnlyFailuresStay` | `Spec => []LeftBehindByFailure` |
| `ClientPoolProofs!AttemptsGiveBack` | `Spec => []AttemptsAreCounted` |

`ExclusiveUse` counts the users and the places of a connection. The invariant says without counting what it forbids: two owners
(`OneOwner`), an owner of a connection that is in a queue (`OwnedIsNotIdle`), and two places in the queues (`OnePlace`). A worker that is
about to remove its connection from the list has given it back, so that it no longer owns it. For
`LeftBehindByFailure` one has to name who will take an entry out of a list (`EntriesAreHeld`): a worker at the same host that has it in
hand. It may have found *another* queue object when it gets there, and that this does no harm needs `OneHost`: objects
that were replaced serve the host that they served. `Counted` is the sum of attempts under way, as long as no
decrement has raced.

For any addresses and any number of recipients and messages of a connection:

| Theorem | States |
|---|---|
| `SmtpServerProofs!EnvelopeIsKept` | `Spec => []EnvelopeAgrees` |
| `SmtpServerProofs!RepliesAreTrue` | `Spec => []AnsweredIsStored` |
| `SmtpServerProofs!RefusalsAreTrue` | `Spec => []RefusedIsNotStored` |
| `SmtpServerProofs!NoRelayingForOthers` | `Spec => []RelayOnlyForPermitted` |

The code keeps one destination per transaction, overwritten by each recipient, so whether a client relays is decided by the last one.
That this is no open relay is `DestinationAgrees`: the destination is that of the last recipient, *and* a client that may not relay
has recipients of a local domain only, since any other was refused before it was added. `ToldAgrees` and `AtWork` carry the
recipients from the answers to `RCPT` to the end of `DATA`, over `RSET`, a second `MAIL FROM` and a failed one; `Stored` says how
far the saving has come, of files in the order of the recipients, or of the queue.

For connections of any length (`LinesAssumption`):

| Theorem | States |
|---|---|
| `SmtpServerProofs!LinesType` | `LinesSpec => []LinesTypeOK` |
| `SmtpServerProofs!ReadersAreOneStream` | `LinesSpec => []OneStream` |
| `SmtpServerProofs!LinesTakenAsMeant` | `LinesSpec => []LinesAreTakenAsMeant` |

The readers change only when the one in use is empty. That is so since DATA is the last line that a client writes before it
waits, and the dot of a UTF-8 message too, as long as `ahead` is false: `ClientAgrees` says, for each state of the
client, which lines are not read yet, and `MimeAgrees` that the server will choose the reader that the client meant.

For any messages and any number of them in a connection (`DialogueAssumption`):

| Theorem | States |
|---|---|
| `SmtpDialogueProofs!TypeCorrect` | `Spec => []TypeOK` |
| `SmtpDialogueProofs!RepliesAreInStep` | `Spec => []InStep` |
| `SmtpDialogueProofs!OutcomesAreTrue` | `Spec => []OutcomeIsTrue` |
| `SmtpDialogueProofs!MarksAreKept` | `Spec => []InUseIsMarked` |

`Awaited` names the commands whose replies the worker has still to read, from where it is in the code: up to three with PIPELINING. The replies
on the way are the first of them (`RepliesInOrder`) and the commands on the way the rest (`CommandsInOrder`). What could
come between is a QUIT of the idle thread, which the server does not get past, and the message that it cuts is on record
(`QuitsAreCut`). Commands stop while the server takes data, so worker and server have to agree when that is (`DataAgreed`): it waits for data
when the reply to DATA says so, and the body, its dot and nothing but a QUIT are what it is sent (`Empty`, `Whole`, `DotIsLast`). Then what
the server took is the message of the session (`TookWell`), and what is recorded of each message follows from the reply to its
dot, or the connection ended in its session (`Records`).

For any unit of time, retry interval, limit and backlog (`TimesAssumption` of `RetrySchedule`):

| Theorem | States |
|---|---|
| `SenderProofs!ScheduleType` | `ScheduleSpec => []ScheduleTypeOK` |
| `SenderProofs!NoWaitQueueHoldsLong` | `ScheduleSpec => []BackWhenDue` |
| `SenderProofs!DeferralsEnd` | `ScheduleSpec => []DeferralsAreLimited` |
| `SenderProofs!DeliveredInTime` | `ScheduleSpec => []LateOnlyByBacklog` |

The first rests on `RoundedUp` (rounding up to seconds adds less than one) and `WaitQueueIsShort`. The
others need two facts beside: time passes the due time only by rounding and backlog (`NearDue`), and each
deferral has moved the due time by a minute (`EachCostsAMinute`), so that a message that is still within its limit has
been deferred at most that often. `Backoff` is written with a table of doublings, as neither powers nor recursive
functions are within the provers' reach; from the eighth on any interval is cut to three hours.

For any tables, hosts, addresses and workers (`PatternsAssumption`: there is a default):

| Theorem | States |
|---|---|
| `OutboundProofs!TypeCorrect` | `Spec => []TypeOK` |
| `OutboundProofs!AnswerIsFirstOrGeneral` | `Spec => []FirstOrGeneral` |
| `OutboundProofs!KnownGetTheirOwn` | `Spec => []KnownIsRight` |

An answer is right since what a collection holds is right, and that can only be said if a collection has one host:
`OneOwner` says so of all who refer to it, replaced or not, and `EntriesAreRight` what it holds. That the loop finds
a *first* pattern is `Least`, from the library's theorem that `<` is well-founded.

For any rules, histories, workers and addresses, any length of the hour and of the cache time (`LimitsAssumption`), beside
the rules:

| Theorem | States |
|---|---|
| `OutboundProofs!LimitsType` | `LimitsSpec => []Limits!TypeOK` |
| `OutboundProofs!IntervalsAreKnown` | `LimitsSpec => []Limits!IntervalIsKnown` |
| `OutboundProofs!HoursStayWithinRule` | `LimitsSpec => []HourlyLimit` |
| `OutboundProofs!RefusalsHaveReason` | `LimitsSpec => RefusalIsJustified` |
| `OutboundProofs!IntervalsStayWithinRule` | so many intervals as begin in an hour allow no more than the rule |

The invariant of the limit is `HourInv`. The object in use counts every send that was allowed as far back as its interval reaches
(`Kept`), although it forgets older ones; hence no interval, whenever it begins, has more sends than its messages. `IntervalsAddUp` covers the hour
with such intervals, as many as it takes, and `IntervalsStayWithinRule` is the arithmetic: if the rule has more messages
than the hour has minutes, the interval is a minute; if not, it allows one message, since one minute less allows none. That the
object counts for one address needs `OneAddress`, and that a new one does not begin to count late, `NothingAllowed` and `NewIsEmpty`.
Refusals are the other way round: no object counts more than was allowed (`WereAllowed`).

For any files, any number of tasks, any batch and any number of faults (`FilesAssumption`, `TasksAssumption`,
`ForwarderAssumption`):

| Theorem | States |
|---|---|
| `EventPipelineProofs!TypeCorrect` | `Spec => []TypeOK` |
| `EventPipelineProofs!FilesHaveOneEvent` | `Spec => []EventPerFile` |
| `EventPipelineProofs!EventsAreTakenOnce` | `Spec => []TakenOnce` |
| `EventPipelineProofs!BouncesRest` | `Spec => []BouncesAtRest` |
| `EventPipelineProofs!ExitsHaveCause` | `Spec => []ExitHasCause` |

The flag for bounces is a lock that the constructor's thread and the watcher's take (`OneBounceThread`), so that a bounce is open to
one handler; a complaint is, unless two tasks had it at some time (`OneOpener`, `together`). A file that is open to one handler and whose
moves have not failed is still there for it to move, which is why `ExitHasCause` has two causes and no third: a failing move, or the second task of a complaint. Between the look and the
removal the file is where it was (`OpenIsDropped`). A file has an event exactly if it was handled to its end or its handler has yet
to remove it (`SavedHasEvent`, and but for files that were handled again `EventWasSaved`), so a file that is opened has none. An event is taken before it is marked
(`TakenIsKnown`), and the forwarder posts only what was unmarked when it fetched, which is still unmarked as it alone
marks (`Fetched`).

For any callers, tasks, addresses, hosts, zones and times, the four caches side by side (`CacheAssumption`, `CachesAssumption`):

| Theorem | States |
|---|---|
| `SenderProofs!CachesType` | the types of the four |
| `SenderProofs!RecentAnswers` | `CachesSpec => []AnswersAreRecent` |
| `SenderProofs!AddressesAreRecent` | `CachesSpec => []AddressIsRecent` |
| `SenderProofs!AddressesShareFairly` | `CachesSpec => []SharedFairly` |
| `SenderProofs!RoutesComeFromDns` | `CachesSpec => RoutesAreCurrent` |
| `SenderProofs!MxsComeInTurn` | `CachesSpec => MxsAreTriedInTurn` |

An entry of `SendCache` is at most two calls older than the last clearing (`EntriesAreYoung`): one call for the clearing, which empties one
dictionary before it notes the time, and one for a load that began before. The third is the call that answers.

A group object is made while its lock is held, and the time is taken before the members are read, so that an address
of it was a member then or later (`ObjectsAreTrue`); who has it in hand found it young enough when the call began (`HandsAreYoung`).
Objects are made `CacheMinutes` apart (`ObjectsAreApart`), which bounds how many there are; within each no address is ahead by more
than one (`ObjectsAreFair`), and a choice is counted by one object, also by one that was replaced (`ChoicesAddUp`). The sum over the objects is
given by the sequence of its partial sums, as recursion is out of the provers' reach.

What a lookup of `MxRecords` found DNS had while it lasted (`FoundIsTrue`), so that the hosts of a record were named not longer before its
time than a lookup takes (`RecordsAreTrue`). For `MxRouting` the record that the code keeps is the latest failure, in whatever order workers report
(`known = lastFail`), and a worker has tried the hosts before its place and no others (`TurnInv`).

Each proof has a lemma per action (`...Keeps`, `...Refines`, `...Inv`) and a step per conjunct.

Only model-checked are the liveness properties: `HeldIsReleased` and `StagingDrains` of the relay, `EventuallyImported`,
`EventuallyDone`, `EventReachesService`, `StopIsAnswered` and `ConnectionCloses`, since fairness and ENABLED are out of the provers' reach.
Nothing is proved by induction over data.

## Where the code and its comments disagree

Each is in a model, where it appears as an exception that a property has to make, or as a history variable.

1. **A refused publish loses the message.** `RabbitMqInboundStagingHandler.cs:46-48` and `MtaQueuedMessage.cs:244-248` ignore
   the answer of `Publish`, and the delivery is acknowledged: `NoSilentLoss` and the contract except `refused`.
2. **The acknowledgement of a batch covers failed batches.** `QueueManager.cs:155` acknowledges with `multiple`, and
   messages of a batch whose copy failed never get their row: `NoRecordLost` excepts `copyFailed`. Without a
   later success the failed batches keep the window: `EventuallyImported` needs the exception
   `Len(unacked) = Prefetch`, and three failed batches of 100 reach it.
3. **Connections of failed sessions are never removed from the in-use list.** The condition at `SmtpClientPool.cs:78`
   cannot be true, and each failure uses up one place of the maximum: `LeftBehindByFailure`.
4. **Mixed recipients.** The destination is that of the last recipient (`SmtpServerTransaction.cs:91`), and a queued message is
   sent to its first one only: `AnsweredIsStored` speaks of recipients of one kind.
5. **The maximum of connections can be exceeded.** `TakeIdle` has no such guard, and `AddTaken` counts the connection
   later, although "If the current connections count + current connection is less than the maximum
   connections then we can create a new connection otherwise we are maxed out" (`SmtpClientPool.cs:117-119`).
6. **The time limit is compared with the planned time**, not with the clock (`MessageSender.cs:270`), so `LateOnlyByBacklog` has
   the term `backlog`, although "The MAX_TIME_IN_QUEUE should always be enforced" (`:267-269`).
7. **The pattern for all addresses is used too often.** An address with a pattern of its own gets it as long
   as another address keeps it fresh (`OutboundRuleManager.cs:101-119`): `FirstOrGeneral` cannot be made `FirstMatch`.
8. **One interval for all patterns.** The interval of an address is that of the pattern that was asked for when it ran out,
   although it is "the maximum amount of messages that should be sent to this mx pattern in
   IntervalMinutes" (`ThrottleManager.cs:36-37`), and a history that two workers create at once is forgotten
   once (`:150`): `HourlyLimit` has to except both, `mixed` and `replaced`.
9. **Complaints are handled by several tasks.** The thread that starts the task clears the flag at once
   (`EventsFileHandler.cs:161`), although the lock is "to prevent more than one abuse/fbl processor task" (`:67`): two tasks
   may have one file open, and save two events (`together`).
10. **A file may be forgotten.** One that comes between the last listing and the moment at which the watcher is switched on again is found
    only when another comes (`:182-183` lists again only while it has found some), and so are all that lie in the folder when an exception ends
    the handling of it (`:118-122`): `missed`. A bounce of an unknown send throws in every pass (`EventsManager.cs:87`), and holds up those after it each time.
11. **The stop may not be answered.** A handler that had listed files loops over that list for ever once the service is
    stopping (`:296-302`); a forwarder whose query failed calls the stop that waits for itself
    (`EventHttpForwarder.cs:96`); a post that is never answered keeps `_IsRunning`, for which the stop waits (`:31-37`): the exceptions of
    `StopIsAnswered`.
12. **Declined events hold up others.** The oldest ten are fetched (`:66`), declined or not: `Behind`. One post that is never answered holds
    up all: it has no timeout (`:85`, `:137-149`), although "Most likly because the remote server didn't respond" (`:162`) has it end in the catch block.
13. **The connection in use may look unused.** The `finally` block after `Enqueue` clears the mark of
    the worker that has it next (`MessageSender.cs:364`, `:384`): `unmarked`. The idle thread looks without a lock, and
    may end a session: `cut`.
14. **Pipelining past the dot of a UTF-8 message.** The commands are in the buffer of the reader that is put away
    (`SmtpServer.cs:190`, `SmtpStreamHandler.cs:131`): `ahead`.
15. **A status may be older than the period** of the cache, by up to three calls.
16. **MX records that ran out are not replaced.** They are added with `TryAdd` (`DNSManager.cs:75`), although the cache is there "so we
    don't need to query the DNS API every time" (`:10`): from then on it is, unless the resolver fails, which replaces the entry.
17. **An array of MXs without elements is never dead** (`DNSManager.cs:32`): an answer of the resolver that holds no MX is kept, and fails
    the domain's mail with "550 Domain Not Found." (`MessageSender.cs:283`), until the service restarts. `RoutesAreCurrent` speaks of hosts,
    and there are none.
18. **Any error of the resolver is a domain without MX** (`DnsApiInterop.cs:61-66`): the mail is sent to the domain itself for
    five minutes, and fails for good if that does not answer (`MtaQueuedMessage.cs:153`). `Query` has it so, and `RoutesAreCurrent` takes the
    error for an answer.
19. **An MX is left alone for 25 seconds** (`ServiceNotAvailableManager.cs:55`), although "within the last 1 minute" (`:40`) and "for at least
    a minute" (`SmtpClientPool.cs:341`). `Away` is a parameter of `MxRouting`. One MX that is left alone stops the whole domain (`SmtpClientPool.cs:295-299`), as
    the comment there says.

20. **A silent server keeps a worker.** `ReceiveTimeout` does not apply to asynchronous reads, so that a server that accepts a connection
    and says nothing keeps a task, one of `MAX_SENDING_WORKER_TASKS`, and its delivery: the first exception of `HeldIsReleased`.
21. **An exception in the `finally` block keeps a task and its delivery** (`MessageSender.cs:159-177`): `TryRemove` comes after `Enqueue` and `Ack`,
    which may throw. The message is sent again after a restart only: the second exception of `HeldIsReleased`.
22. **A file that cannot be moved ends the process** (`EventsFileHandler.cs:264-291`), for whatever reason it fails for ten seconds; after the restart it is
    handled again: `unmovable`.

## What is not modelled

Text: parsing of messages, headers, bounces and SMTP replies, apart from what they decide. Pure input
and output: logging, the call of the Windows resolver, the SQL schema. The web interface, whose effect on the
service is the status of a send and the configuration, both free choices or constants here; the scripts under
`src/WebInterface/Scripts` are third-party libraries (jQuery, jqPlot, Bootstrap) and no code of the program, which is in C#.
The consoles and the reset tool.

In `VirtualMtaManager`: the list of addresses to listen on, which is read once when the service starts (`VirtualMtaManager.cs:59`), the list
of those to send from, which nobody asks for (`:77`), and the default group, which is read once and kept (`:94`).

In `MessageRelay`: an exception of `Dequeue` in a task that has just acknowledged (`MessageSender.cs:151`), and in
the dispatcher (`:184`): the first acknowledges the delivery again, which closes the channel, and the second ends the dispatcher, both of which
`Restart` follows when the operator notices.

Small things that the models simplify, and no property tells apart: in `SmtpDialogue` a connection is no longer in use after `Connect` whatever its greeting
was (`SmtpClientPool.cs:167`); in `RetrySchedule` a message that is not due when the service stops is queued for a minute later (`MessageSender.cs:164-168`), in the
model for its own time; in `ClientPool` the in-use list is a set; in `DropFolder` the end of the handling of bounces resets the flag and switches the watcher on in one
step; a query of `SendCache` does not fail; in `MxRouting` a greeting with 421 ends the call at once, not with the session; a bounce that throws in every pass
does so as often as faults are left.

In `SmtpDialogue`: the finalizer of a connection that the garbage collector finds. In the events: those of
rejections and time-outs, which the sender inserts in one command. At the service's end: `Dispose` of the SMTP
servers, which closes their listeners. In `RabbitMqManager`: the sharing of channels between threads and the reopening
of a connection, which are up to the client library.

## Plan

Each step is a module, its instance, a run, its variants and then its theorems.

1. *Done:* every module of the table, with its run and its variants.
2. *Done:* a proof of every safety property that a run checks, and of the type invariant of every component.
3. The channels of `RabbitMqManager`: deliveries and acknowledgements of many threads over one channel, and its loss.
