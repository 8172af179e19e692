---------------------------- MODULE SmtpDialogue ----------------------------
(***************************************************************************)
(* SmtpOutboundClient: one connection to a remote mail server, from the    *)
(* greeting to the end; the messages that the sender's workers pass over   *)
(* it one after another; and SmtpOutboundClientCollection, whose thread    *)
(* ends connections that look idle.                                        *)
(*                                                                         *)
(* A command is a record of its verb and of the message that it is about;  *)
(* a reply names the command that it answers, which the client cannot see. *)
(* The remote server is external: it keeps to the protocol and answers     *)
(* each command as it likes.  A write is one step; lines on the way are in *)
(* sent and replies.                                                       *)
(***************************************************************************)
EXTENDS Naturals, Sequences, FiniteSets

CONSTANTS
  Messages,
  MaxMessages,  \* GetMaxMessagesPerConnection
  None

ASSUME DialogueAssumption == MaxMessages \in Nat \ {0} /\ None \notin Messages

VARIABLES
  connected,    \* TcpClient.Connected, and not closed by this side
  active,       \* IsActive
  old,          \* LastActive is longer ago than the idle timeout
  helloed,      \* _HasHelloed
  canPipeline,  \* _CanPipeline
  dataCommands, \* _DataCommands
  pc,           \* the worker that has the connection: its command and where it is
  msg,          \* its message
  leaving,      \* workers that have enqueued the connection and not finished
  collector,    \* what the idle thread does with the connection
  sent, replies,  \* lines on the way
  server,       \* the transaction at the remote server
  ended,        \* the remote server has closed its end
  took,         \* messages that the server acknowledged or was about to
  outcome,      \* what was recorded for each message
  tried,        \* messages that had their session
  cut, broken,  \* history: messages in whose session this side's idle thread, or the
                \* remote end, closed the connection
  unmarked      \* history: IsActive was cleared by another worker during the command

clientVars == <<connected, active, old, helloed, canPipeline, dataCommands>>
workerVars == <<pc, msg, leaving, outcome, tried>>
serverVars == <<server, ended, took>>
history == <<cut, broken, unmarked>>
vars == <<clientVars, workerVars, collector, sent, replies, serverVars, history>>

Verbs == {"greeting", "EHLO", "HELO", "RSET", "MAIL", "RCPT", "DATA", "BODY", "DOT", "QUIT"}
Stages == {"begin", "write", "readMail", "readRcpt", "read", "end"}
Codes == {"2xx", "354", "421", "4xx", "5xx"}
Command == [verb : Verbs, about : Messages \cup {None}]
NoMail == [data |-> FALSE, from |-> None, to |-> None, body |-> <<>>]
Mail == [data : BOOLEAN, from : Messages \cup {None}, to : Messages \cup {None}, body : Seq(Command)]

At(verb, stage) == pc = [verb |-> verb, stage |-> stage]
Goto(verb, stage) == pc' = [verb |-> verb, stage |-> stage]
InSession == pc.verb \notin {"new", "pooled", "dropped"}

TypeOK ==
  /\ connected \in BOOLEAN /\ active \in BOOLEAN /\ old \in BOOLEAN
  /\ helloed \in BOOLEAN /\ canPipeline \in BOOLEAN
  /\ dataCommands \in 0..MaxMessages
  /\ pc \in [verb : Verbs \cup {"new", "pooled", "dropped"}, stage : Stages]
  /\ msg \in Messages \cup {None}
  /\ leaving \in Nat
  /\ collector \in {"looks", "quits", "closes", "disposes", "done"}
  /\ sent \in Seq(Command)
  /\ replies \in Seq([to : Command, code : Codes])
  /\ server \in Mail /\ ended \in BOOLEAN /\ took \in Seq(Mail)
  /\ outcome \in [Messages -> SUBSET {"success", "fail", "defer"}]
  /\ tried \in SUBSET Messages
  /\ cut \in SUBSET tried /\ broken \in SUBSET tried /\ unmarked \in BOOLEAN

Init ==
  /\ connected = TRUE /\ active = TRUE /\ old = FALSE
  /\ helloed = FALSE /\ canPipeline = FALSE /\ dataCommands = 0
  /\ pc = [verb |-> "new", stage |-> "end"]
  /\ msg = None /\ leaving = 0
  /\ collector = "looks"
  /\ sent = <<>>
  /\ \E code \in {"2xx", "421", "5xx"} :
       replies = <<[to |-> [verb |-> "greeting", about |-> None], code |-> code]>>
  /\ server = NoMail /\ ended = FALSE /\ took = <<>>
  /\ outcome = [m \in Messages |-> {}]
  /\ tried = {} /\ cut = {} /\ broken = {} /\ unmarked = FALSE

-----------------------------------------------------------------------------
(* Reading and writing                                                     *)

Cmd(verb) == [verb |-> verb, about |-> IF verb \in {"EHLO", "HELO", "RSET", "QUIT"} THEN None ELSE msg]

\* On a connection that this side has closed a write throws; on one that the other end has
\* closed it may.
Write(verb) == connected /\ sent' = IF ended THEN sent ELSE Append(sent, Cmd(verb))
WriteThrows == ~connected \/ ended

\* ReadAllLinesAsync: the next reply, or nothing of a connection that has ended (the exception
\* is swallowed).  It waits for as long as it takes.
Reads(code) ==
  \/ connected /\ replies # <<>> /\ code = Head(replies).code /\ replies' = Tail(replies)
  \/ (~connected \/ (ended /\ replies = <<>>)) /\ code = "none" /\ UNCHANGED replies

Answers == Codes \cup {"none"}

Touch == old' = FALSE
Free == active' = FALSE /\ Touch

\* Variant: no finally block.
DropMarked(result) ==
  /\ outcome' = [outcome EXCEPT ![msg] = @ \cup {result}]
  /\ pc' = [verb |-> "dropped", stage |-> "end"]
  /\ msg' = None
  /\ Touch
  /\ UNCHANGED <<active, leaving, tried>>

\* Back to the caller, which drops the connection: it stays out of the pool.
Drop(result) ==
  /\ outcome' = [outcome EXCEPT ![msg] = @ \cup {result}]
  /\ pc' = [verb |-> "dropped", stage |-> "end"]
  /\ msg' = None
  /\ Free
  /\ UNCHANGED <<leaving, tried>>

\* failedCallback, and the catch and finally blocks of SendMessageAsync.
FailedCallback(code) == Drop(IF code = "5xx" THEN "fail" ELSE "defer")

\* Another exception.
Broken == Drop("defer")

Stay == UNCHANGED <<msg, leaving, outcome, tried>>
Elsewhere == UNCHANGED <<collector, serverVars, history>>

-----------------------------------------------------------------------------
(* ConnectAsync, DequeueAsync and the beginning of a session               *)

\* The messages are alike, so any of those that remain will do.
NextMessage(m) == tried # Messages /\ m = CHOOSE x \in Messages \ tried : TRUE

Session(m) ==
  /\ NextMessage(m)
  /\ tried' = tried \cup {m}
  /\ msg' = m
  /\ Goto(IF helloed THEN "RSET" ELSE "EHLO", "begin")
  /\ UNCHANGED <<leaving, outcome, collector, sent, serverVars, cut, unmarked, helloed, canPipeline, dataCommands>>

BreaksIf(condition, m) == broken' = IF condition THEN broken \cup {m} ELSE broken

\* A greeting other than 2xx closes the connection, which stays marked, and ConnectAsync
\* answers false, which CreateNewConnectionAsync does not look at.
Connect(m) ==
  /\ pc.verb = "new"
  /\ \E code \in Answers :
       /\ Reads(code)
       /\ connected' = (code = "2xx")
       /\ active' = (code # "2xx")
  /\ Touch
  /\ BreaksIf(ended \/ ~connected', m)
  /\ Session(m)

\* A connection that was closed is not used again.
Dequeue(m) ==
  /\ pc.verb = "pooled"
  /\ connected
  /\ active' = TRUE /\ Touch
  /\ BreaksIf(ended, m)
  /\ UNCHANGED <<connected, replies>>
  /\ Session(m)

-----------------------------------------------------------------------------
(* The commands                                                            *)

After(verb) ==
  CASE verb \in {"EHLO", "HELO", "RSET"} -> "MAIL"
    [] verb = "MAIL" -> "RCPT"
    [] verb = "RCPT" -> "DATA"

\* ExecDataAsync is over, or was skipped, and the session with it: Enqueue.
Enqueue ==
  /\ pc' = [verb |-> "pooled", stage |-> "end"]
  /\ msg' = None
  /\ leaving' = leaving + 1

\* Variant: RCPT does not mark the connection.
BeginUnmarked ==
  /\ pc.stage = "begin" /\ connected
  /\ active' = (active \/ pc.verb # "RCPT")
  /\ unmarked' = FALSE
  /\ Touch
  /\ Goto(pc.verb, "write")
  /\ Stay
  /\ UNCHANGED <<connected, helloed, canPipeline, dataCommands, sent, replies, collector, serverVars, cut, broken>>

Begin ==
  /\ pc.stage = "begin" /\ connected
  /\ active' = TRUE
  /\ unmarked' = FALSE
  /\ IF pc.verb = "RSET" THEN UNCHANGED old ELSE Touch
  /\ Goto(pc.verb, "write")
  /\ Stay
  /\ UNCHANGED <<connected, helloed, canPipeline, dataCommands, sent, replies, collector, serverVars, cut, broken>>

\* Of a connection that is closed a command answers false, which nobody looks at; RSET throws.
BeginClosed ==
  /\ pc.stage = "begin" /\ ~connected
  /\ \/ /\ pc.verb \in {"EHLO", "MAIL", "RCPT"}
        /\ Goto(After(pc.verb), "begin") /\ Stay /\ UNCHANGED <<active, old>>
     \/ /\ pc.verb = "DATA"
        /\ Enqueue /\ UNCHANGED <<outcome, tried, active, old>>
     \/ pc.verb = "RSET" /\ Broken
  /\ UNCHANGED <<connected, helloed, canPipeline, dataCommands, sent, replies>> /\ Elsewhere

\* Variant: the reply to a recipient is not awaited.
WriteNoWaiting ==
  /\ pc.stage = "write"
  /\ \/ /\ Write(pc.verb)
        /\ IF pc.verb = "RCPT" \/ (pc.verb = "MAIL" /\ canPipeline)
             THEN Goto(After(pc.verb), "begin") /\ Free
             ELSE /\ Goto(pc.verb, IF pc.verb = "DATA" /\ canPipeline THEN "readMail" ELSE "read")
                  /\ UNCHANGED <<active, old>>
        /\ Stay
     \/ WriteThrows /\ Broken /\ UNCHANGED sent
  /\ UNCHANGED <<connected, helloed, canPipeline, dataCommands, replies>> /\ Elsewhere

\* The replies to MAIL and RCPT are awaited later if the server lets the client pipeline.
WriteCommand ==
  /\ pc.stage = "write" /\ pc.verb \notin {"HELO", "BODY", "DOT"}
  /\ \/ /\ Write(pc.verb)
        /\ IF pc.verb \in {"MAIL", "RCPT"} /\ canPipeline
             THEN Goto(After(pc.verb), "begin") /\ Free
             ELSE /\ Goto(pc.verb, IF pc.verb = "DATA" /\ canPipeline THEN "readMail" ELSE "read")
                  /\ UNCHANGED <<active, old>>
        /\ Stay
     \/ WriteThrows /\ Broken /\ UNCHANGED sent
  /\ UNCHANGED <<connected, helloed, canPipeline, dataCommands, replies>> /\ Elsewhere

Hello == helloed' = TRUE /\ Goto("MAIL", "begin") /\ Free /\ Stay

\* A 2xx answer to EHLO may list PIPELINING; 421 ends the session, another is followed by HELO.
ReadEhlo ==
  /\ At("EHLO", "read")
  /\ \E code \in Answers :
       /\ Reads(code)
       /\ \/ code = "2xx" /\ canPipeline' \in BOOLEAN /\ Hello
          \/ code = "421" /\ FailedCallback(code) /\ UNCHANGED <<helloed, canPipeline>>
          \/ /\ code \notin {"2xx", "421"}
             /\ Goto("HELO", "write") /\ Touch /\ Stay
             /\ UNCHANGED <<active, helloed, canPipeline>>
  /\ UNCHANGED <<connected, dataCommands, sent>> /\ Elsewhere

\* An IOException is swallowed, as if the server had answered.
WriteHelo ==
  /\ At("HELO", "write")
  /\ \/ Write("HELO") /\ Goto("HELO", "read") /\ Stay /\ UNCHANGED <<active, old, helloed>>
     \/ connected /\ ended /\ Hello /\ UNCHANGED sent
     \/ ~connected /\ Broken /\ UNCHANGED <<sent, helloed>>
  /\ UNCHANGED <<connected, canPipeline, dataCommands, replies>> /\ Elsewhere

ReadHelo ==
  /\ At("HELO", "read")
  /\ \E code \in Answers :
       /\ Reads(code)
       /\ IF code = "2xx" THEN Hello ELSE FailedCallback(code) /\ UNCHANGED helloed
  /\ UNCHANGED <<connected, canPipeline, dataCommands, sent>> /\ Elsewhere

\* What the server answers to RSET is not looked at.
ReadRset ==
  /\ At("RSET", "read")
  /\ \E code \in Answers : Reads(code)
  /\ Goto("MAIL", "begin") /\ Free /\ Stay
  /\ UNCHANGED <<connected, helloed, canPipeline, dataCommands, sent>> /\ Elsewhere

ReadEnvelope ==
  /\ pc.verb \in {"MAIL", "RCPT"} /\ pc.stage = "read"
  /\ \E code \in Answers :
       /\ Reads(code)
       /\ IF code = "2xx" THEN Goto(After(pc.verb), "begin") /\ Free /\ Stay
                          ELSE FailedCallback(code)
  /\ UNCHANGED <<connected, helloed, canPipeline, dataCommands, sent>> /\ Elsewhere

\* Variant: ExecDataAsync answers false without the callback.
ReadPipelinedQuietly(stage, next) ==
  /\ At("DATA", stage)
  /\ \E code \in Answers :
       /\ Reads(code)
       /\ IF code = "2xx" THEN Goto("DATA", next) /\ Stay
                          ELSE Enqueue /\ UNCHANGED <<outcome, tried>>
  /\ UNCHANGED <<active, old, connected, helloed, canPipeline, dataCommands, sent>> /\ Elsewhere

\* After DATA: the replies to MAIL and to RCPT that were not awaited.
ReadPipelined(stage, next) ==
  /\ At("DATA", stage)
  /\ \E code \in Answers :
       /\ Reads(code)
       /\ IF code = "2xx" THEN Goto("DATA", next) /\ Stay /\ UNCHANGED <<active, old>>
                          ELSE FailedCallback(code)
  /\ UNCHANGED <<connected, helloed, canPipeline, dataCommands, sent>> /\ Elsewhere

ReadData ==
  /\ At("DATA", "read")
  /\ \E code \in Answers :
       /\ Reads(code)
       /\ IF code = "354"
            THEN dataCommands' = dataCommands + 1 /\ Goto("BODY", "write") /\ Touch /\ Stay
                 /\ UNCHANGED active
            ELSE FailedCallback(code) /\ UNCHANGED dataCommands
  /\ UNCHANGED <<connected, helloed, canPipeline, sent>> /\ Elsewhere

\* Two writes: the data, and the line with the dot.
WriteData ==
  /\ pc.stage = "write" /\ pc.verb \in {"BODY", "DOT"}
  /\ \/ /\ Write(pc.verb)
        /\ IF pc.verb = "BODY" THEN Goto("DOT", "write") /\ UNCHANGED old
                               ELSE Goto("DOT", "read") /\ Touch
        /\ Stay /\ UNCHANGED active
     \/ WriteThrows /\ Broken /\ UNCHANGED sent
  /\ UNCHANGED <<connected, helloed, canPipeline, dataCommands, replies>> /\ Elsewhere

\* The callbacks.  (HandleDeliverySuccessAsync may throw too: see MessageRelay.)
ReadDot ==
  /\ At("DOT", "read")
  /\ \E code \in Answers :
       /\ Reads(code)
       /\ IF code = "2xx"
            THEN /\ outcome' = [outcome EXCEPT ![msg] = @ \cup {"success"}]
                 /\ Goto("QUIT", "end") /\ Free
                 /\ UNCHANGED <<msg, leaving, tried>>
            ELSE FailedCallback(code)
  /\ UNCHANGED <<connected, helloed, canPipeline, dataCommands, sent>> /\ Elsewhere

\* Fewer messages than the maximum, or the connection is closed already.
NoQuit ==
  /\ At("QUIT", "end")
  /\ dataCommands < MaxMessages \/ ~connected
  /\ Enqueue
  /\ UNCHANGED <<outcome, tried, clientVars, sent, replies>> /\ Elsewhere

\* After the last message: ExecQuitAsync, which does not read the reply.  If it throws, the
\* message that was delivered is deferred too.
Quit ==
  /\ At("QUIT", "end")
  /\ dataCommands >= MaxMessages
  /\ \/ /\ Write("QUIT")
        /\ connected' = FALSE /\ active' = FALSE
        /\ Enqueue /\ UNCHANGED <<outcome, tried, old>>
     \/ connected /\ ended /\ Broken /\ UNCHANGED <<connected, sent>>
  /\ UNCHANGED <<helloed, canPipeline, dataCommands, replies>> /\ Elsewhere

\* The finally block, after Enqueue: another worker may have the connection already.
Finally ==
  /\ leaving > 0
  /\ leaving' = leaving - 1
  /\ Free
  /\ unmarked' = (unmarked \/ InSession)
  /\ UNCHANGED <<connected, helloed, canPipeline, dataCommands, pc, msg, outcome, tried,
                 sent, replies, collector, serverVars, cut, broken>>

-----------------------------------------------------------------------------
(* The idle thread                                                         *)

CutNow == cut' = IF InSession THEN cut \cup {msg} ELSE cut

\* LastActive and the idle timeout.
TimePasses ==
  /\ ~old
  /\ old' = TRUE
  /\ UNCHANGED <<connected, active, helloed, canPipeline, dataCommands, workerVars, collector,
                 sent, replies, serverVars, history>>

\* It looks without a lock; what it saw may be over when it acts.
CollectorLooks ==
  /\ collector = "looks"
  /\ ~active /\ old
  /\ collector' = "quits"
  /\ UNCHANGED <<clientVars, workerVars, sent, replies, serverVars, history>>

\* ExecQuitAsync writes QUIT; if the connection is closed it does nothing, and if writing
\* throws it leaves the mark.
CollectorQuits ==
  /\ collector = "quits"
  /\ \/ Write("QUIT") /\ active' = TRUE /\ CutNow /\ collector' = "closes"
     \/ WriteThrows /\ active' = (active \/ connected) /\ collector' = "disposes" /\ UNCHANGED <<sent, cut>>
  /\ UNCHANGED <<connected, old, helloed, canPipeline, dataCommands, workerVars, replies,
                 serverVars, broken, unmarked>>

\* The stream is closed and the connection taken off the list.
CollectorCloses ==
  /\ collector \in {"closes", "disposes"}
  /\ collector' = "done"
  /\ connected' = FALSE
  /\ active' = (active /\ collector = "disposes")
  /\ IF connected THEN CutNow ELSE UNCHANGED cut
  /\ UNCHANGED <<old, helloed, canPipeline, dataCommands, workerVars, sent, replies,
                 serverVars, broken, unmarked>>

-----------------------------------------------------------------------------
(* The remote server                                                       *)

Answer(code) ==
  replies' = Append(replies, [to |-> Head(sent), code |-> code])

Refusals == {"421", "4xx", "5xx"}

\* The next line is a command, and one in order, which is obeyed or refused ...
ServerObeys ==
  LET c == Head(sent) IN
  /\ ~ended /\ sent # <<>> /\ ~server.data
  /\ \/ c.verb \in {"EHLO", "HELO", "RSET"} /\ Answer("2xx") /\ server' = NoMail
     \/ /\ c.verb = "MAIL" /\ server.from = None
        /\ Answer("2xx") /\ server' = [server EXCEPT !.from = c.about]
     \/ /\ c.verb = "RCPT" /\ server.from # None
        /\ Answer("2xx") /\ server' = [server EXCEPT !.to = c.about]
     \/ /\ c.verb = "DATA" /\ server.to # None
        /\ Answer("354") /\ server' = [server EXCEPT !.data = TRUE]
     \/ /\ c.verb # "QUIT"
        /\ \E code \in Refusals : Answer(code)
        /\ UNCHANGED server
  /\ sent' = Tail(sent)
  /\ UNCHANGED <<clientVars, workerVars, collector, ended, took, history>>

\* ... or a line of the data, or the dot, upon which the message is taken or refused.
ServerTakes ==
  LET c == Head(sent) IN
  /\ ~ended /\ sent # <<>> /\ server.data
  /\ IF c.verb # "DOT"
       THEN server' = [server EXCEPT !.body = Append(@, c)] /\ UNCHANGED <<replies, took>>
       ELSE /\ server' = NoMail
            /\ \/ Answer("2xx") /\ took' = Append(took, server)
               \/ \E code \in Refusals : Answer(code) /\ UNCHANGED took
  /\ sent' = Tail(sent)
  /\ UNCHANGED <<clientVars, workerVars, collector, ended, history>>

\* After QUIT, when it has read all that came from a closed connection, or at any time.  What
\* it had sent may be lost.
ServerEnds ==
  /\ ~ended
  /\ ended' = TRUE
  /\ sent' = <<>>
  /\ replies' \in {replies, <<>>}
  /\ broken' = IF InSession /\ connected THEN broken \cup {msg} ELSE broken
  /\ UNCHANGED <<clientVars, workerVars, collector, server, took, cut, unmarked>>

-----------------------------------------------------------------------------

WorkerStep ==
  \/ Begin \/ BeginClosed \/ WriteCommand \/ ReadEhlo \/ WriteHelo \/ ReadHelo \/ ReadRset \/ ReadEnvelope
  \/ ReadPipelined("readMail", "readRcpt") \/ ReadPipelined("readRcpt", "read")
  \/ ReadData \/ WriteData \/ ReadDot \/ NoQuit \/ Quit \/ Finally

CollectorStep == CollectorLooks \/ CollectorQuits \/ CollectorCloses

ServerStep == ServerObeys \/ ServerTakes \/ ServerEnds

Next ==
  \/ \E m \in Messages : Connect(m) \/ Dequeue(m)
  \/ WorkerStep \/ TimePasses \/ CollectorStep \/ ServerStep

Spec == Init /\ [][Next]_vars

\* Threads and the clock run on, and the server answers or closes: the reads of the client
\* have no timeout of their own.
Fairness ==
  /\ WF_vars(\E m \in Messages : Connect(m))
  /\ WF_vars(WorkerStep) /\ WF_vars(TimePasses) /\ WF_vars(CollectorStep)
  /\ WF_vars(ServerStep)

FairSpec == Spec /\ Fairness

-----------------------------------------------------------------------------
(* Properties                                                              *)

\* What the worker reads next answers the command that it reads it for: replies never get out
\* of step, with pipelining and without, from one message to the next, and with commands of a
\* session that failed half-way.
Expected ==
  [verb |-> CASE pc.stage = "readMail" -> "MAIL" [] pc.stage = "readRcpt" -> "RCPT" [] OTHER -> pc.verb,
   about |-> IF pc.verb \in {"EHLO", "HELO", "RSET"} THEN None ELSE msg]

InStep ==
  InSession /\ pc.stage \in {"read", "readMail", "readRcpt"} /\ replies # <<>> =>
    Head(replies).to = Expected

\* The data is that of the message, once; any other line is the QUIT of the idle thread.
OneBody(m, lines) ==
  \E i \in DOMAIN lines :
    /\ lines[i] = [verb |-> "BODY", about |-> m]
    /\ \A j \in DOMAIN lines \ {i} : lines[j].verb = "QUIT"

\* The message was taken with its own envelope, and nothing of another was in it; the QUIT of the
\* idle thread may be, if it came in the middle.
TakenAs(m, mail) ==
  /\ mail.from = m /\ mail.to = m
  /\ OneBody(m, mail.body)
  /\ m \notin cut => Len(mail.body) = 1

TakenCount(m) == Cardinality({i \in DOMAIN took : took[i].from = m})

\* What is recorded for a message is what the server did with it: a delivery only if it took
\* that very message, a failure only if it did not; a deferral of one that it took, and nothing
\* at all, only if an end of the connection came between.
OutcomeIsTrue ==
  /\ \A i \in DOMAIN took : TakenAs(took[i].from, took[i])
  /\ \A m \in tried \ {msg} :
       /\ "success" \in outcome[m] => TakenCount(m) = 1
       /\ "fail" \in outcome[m] => TakenCount(m) = 0
       /\ "defer" \in outcome[m] /\ TakenCount(m) > 0 => m \in cut \cup broken
       /\ outcome[m] = {} => m \in cut \cup broken

\* While a worker writes a command or waits for the reply, the connection is marked as in use
\* and the idle thread leaves it alone, unless the worker before it, which enqueues the
\* connection first and clears the mark then, came late.
InUseIsMarked ==
  InSession /\ pc.stage \notin {"begin", "end"} =>
    active \/ unmarked \/ collector = "done"

\* A connection is closed in the end: by the last of its messages, or by the idle thread when
\* it stays in the pool or was dropped after a failure.
ConnectionCloses == <>[](~connected)
=============================================================================
