------------------------- MODULE SmtpServerSession -------------------------
(***************************************************************************)
(* One connection to SmtpServer: HandleSmtpConnection, and the             *)
(* SmtpServerTransaction it fills and saves.  Connections share nothing    *)
(* but the drop folders and QueueManager.Enqueue, where MessageRelay takes *)
(* over.                                                                   *)
(*                                                                         *)
(* An address stands for its class: Mailboxes are the ones of a local      *)
(* domain that the server knows (abuse, postmaster, return-, feedback      *)
(* loops), Elsewhere those of other domains.  A command that is refused    *)
(* and changes nothing (NOOP, 500, 503, 550, 554 and most of 501) is a     *)
(* stuttering step.                                                        *)
(***************************************************************************)
EXTENDS Naturals, Sequences, SequencesExt

CONSTANTS
  Mailboxes, Elsewhere,
  MaxRcpt,    \* bound on the recipients of a transaction
  None

ASSUME AddressesAssumption == Mailboxes \cap Elsewhere = {}
ASSUME MaxRcptAssumption == MaxRcpt \in Nat

VARIABLES
  permitted, \* the client's address is in IPsToAllowRelaying
  pc,        \* the connection
  hasHello,
  mailTransaction, \* None or a record, see Transaction
  answer,    \* the reply to send, once the transaction is saved
  filed,     \* recipients of the last DATA for whom a file was written, in order
  queued,    \* RcptTo of the message the last DATA put in the queue
  reply,     \* history: the reply to the last DATA as the client received it
  told,      \* history: recipients the client was answered 250 for, since its MAIL FROM
  envelope   \* history: the same, of the last DATA

transactionVars == <<permitted, hasHello, mailTransaction>>
storeVars == <<filed, queued>>
historyVars == <<reply, told, envelope>>
vars == <<pc, transactionVars, answer, storeVars, historyVars>>

Addresses == Mailboxes \cup Elsewhere
Destination == {"unknown", "self", "relay"}
Transaction == [from : {"unset", "null", "address"}, rcptTo : Seq(Addresses), destination : Destination]
Reply == {"none", "250", "421", "554"}

TypeOK ==
  /\ permitted \in BOOLEAN
  /\ pc \in {"command", "data", "file", "queue", "reply", "closed"}
  /\ hasHello \in BOOLEAN
  /\ mailTransaction = None \/ mailTransaction \in Transaction
  /\ answer \in Reply
  /\ filed \in Seq(Addresses)
  /\ queued \in Seq(Addresses)
  /\ reply \in Reply
  /\ told \in Seq(Addresses)
  /\ envelope \in Seq(Addresses)
  /\ pc \in {"data", "file", "queue", "reply"} => mailTransaction # None

Init ==
  /\ permitted \in BOOLEAN
  /\ pc = "command"
  /\ hasHello = FALSE
  /\ mailTransaction = None
  /\ answer = "none"
  /\ filed = <<>>
  /\ queued = <<>>
  /\ reply = "none"
  /\ told = <<>>
  /\ envelope = <<>>

-----------------------------------------------------------------------------
(* Commands                                                                *)

Command(next) ==
  /\ pc = "command"
  /\ pc' = next
  /\ UNCHANGED <<answer, storeVars>>

NewTransaction(from) == [from |-> from, rcptTo |-> <<>>, destination |-> "unknown"]

Begun == mailTransaction # None /\ mailTransaction.from # "unset"

Quit == Command("closed") /\ UNCHANGED <<transactionVars, historyVars>>

\* Variant: the recipients are not forgotten.
RsetKeepsRecipients ==
  /\ Command("command")
  /\ told' = <<>>
  /\ UNCHANGED <<transactionVars, reply, envelope>>

Rset ==
  /\ Command("command")
  /\ mailTransaction' = None
  /\ told' = <<>>
  /\ UNCHANGED <<permitted, hasHello, reply, envelope>>

\* A second hello leaves the transaction as it is.
Hello ==
  /\ Command("command")
  /\ hasHello' = TRUE
  /\ UNCHANGED <<permitted, mailTransaction, historyVars>>

MailFrom ==
  /\ Command("command")
  /\ hasHello
  /\ \E from \in {"null", "address"} : mailTransaction' = NewTransaction(from)
  /\ told' = <<>>
  /\ UNCHANGED <<permitted, hasHello, reply, envelope>>

\* 501 for the address or the BODY parameter, when the transaction is already a new one.
MailFromRefused ==
  /\ Command("command")
  /\ hasHello
  /\ mailTransaction' = NewTransaction("unset")
  /\ UNCHANGED <<permitted, hasHello, historyVars>>

\* Variant: a client that may not relay can still add to a message for a mailbox.
MayAddToLocal(rcpt) == rcpt \in Mailboxes \/ permitted \/ mailTransaction.rcptTo # <<>>

MayDeliver(rcpt) == rcpt \in Mailboxes \/ permitted

\* The destination of the message is that of its last recipient.
RcptTo(rcpt) ==
  /\ Command("command")
  /\ hasHello
  /\ Begun
  /\ Len(mailTransaction.rcptTo) < MaxRcpt
  /\ MayDeliver(rcpt)
  /\ mailTransaction' = [mailTransaction EXCEPT
       !.rcptTo = Append(@, rcpt),
       !.destination = IF rcpt \in Mailboxes THEN "self" ELSE "relay"]
  /\ told' = Append(told, rcpt)
  /\ UNCHANGED <<permitted, hasHello, reply, envelope>>

\* 354 Go ahead.
Data ==
  /\ pc = "command"
  /\ hasHello
  /\ Begun
  /\ mailTransaction.rcptTo # <<>>
  /\ pc' = "data"
  /\ filed' = <<>>
  /\ queued' = <<>>
  /\ reply' = "none"
  /\ envelope' = told
  /\ UNCHANGED <<transactionVars, answer, told>>

-----------------------------------------------------------------------------
(* SmtpServerTransaction.SaveAsync                                         *)

\* The line with the dot arrives.
SaveAsync ==
  /\ pc = "data"
  /\ pc' = IF mailTransaction.destination = "self" THEN "file" ELSE "queue"
  /\ UNCHANGED <<transactionVars, answer, storeVars, historyVars>>

Answer(a) == answer' = a /\ pc' = "reply"

\* Variant: one copy for all recipients.
FileForFirst ==
  /\ filed' = <<Head(mailTransaction.rcptTo)>>
  /\ Answer("250")

\* SaveToLocalMailboxAsync writes a file for each recipient, in turn, whatever its domain.
FileForNext ==
  /\ filed' = Append(filed, mailTransaction.rcptTo[Len(filed) + 1])
  /\ IF Len(filed') = Len(mailTransaction.rcptTo)
       THEN Answer("250")
       ELSE UNCHANGED <<answer, pc>>

WriteFile ==
  /\ pc = "file"
  /\ FileForNext
  /\ UNCHANGED <<transactionVars, queued, historyVars>>

\* Variant: the send is looked up after the message is queued.
SendDiscardingSeenLate ==
  /\ pc = "queue"
  /\ queued' = mailTransaction.rcptTo
  /\ Answer("554")
  /\ UNCHANGED <<transactionVars, filed, historyVars>>

\* QueueForRelayingAsync: the send is being discarded.
SendDiscarding ==
  /\ pc = "queue"
  /\ Answer("554")
  /\ UNCHANGED <<transactionVars, storeVars, historyVars>>

Publish == queued' = mailTransaction.rcptTo

\* The null sender has no domain for the Message-ID: it never gets as far as this.
Enqueue ==
  /\ pc = "queue"
  /\ mailTransaction.from # "null"
  /\ Publish
  /\ Answer("250")
  /\ UNCHANGED <<transactionVars, filed, historyVars>>

EnqueueRefused ==
  /\ pc = "queue"
  /\ mailTransaction.from # "null"
  /\ Answer("421")
  /\ UNCHANGED <<transactionVars, storeVars, historyVars>>

Respond ==
  /\ pc = "reply"
  /\ reply' = answer
  /\ mailTransaction' = None
  /\ pc' = "command"
  /\ told' = <<>>
  /\ UNCHANGED <<permitted, hasHello, answer, storeVars, envelope>>

\* The client disconnects or times out, or the code throws: between two files, at the null
\* sender, in the lookup of the send, in Enqueue after RabbitMQ has the message, or before
\* the reply is out.  The connection is closed without a reply.
Close ==
  /\ pc # "closed"
  /\ pc' = "closed"
  /\ \/ UNCHANGED queued
     \/ pc = "queue" /\ mailTransaction.from # "null" /\ Publish
  /\ UNCHANGED <<transactionVars, answer, filed, historyVars>>

-----------------------------------------------------------------------------

Next ==
  \/ Quit \/ Rset \/ Hello \/ MailFrom \/ MailFromRefused \/ Data
  \/ \E rcpt \in Addresses : RcptTo(rcpt)
  \/ SaveAsync \/ WriteFile
  \/ SendDiscarding \/ Enqueue \/ EnqueueRefused
  \/ Respond \/ Close

Spec == Init /\ [][Next]_vars

-----------------------------------------------------------------------------
(* Properties                                                              *)

\* When the server takes the data, its recipients are those it told the client it had: no
\* sequence of MAIL FROM, refused or not, RSET, hello and earlier messages leaves a recipient
\* of another message, or drops one, without the client knowing.
EnvelopeAgrees ==
  pc \in {"data", "file", "queue", "reply"} => mailTransaction.rcptTo = envelope

\* "250 Message queued for delivery" is true of messages to one kind of recipient: each local
\* recipient has its file, once, and a message for other domains is in the queue.
AnsweredIsStored ==
  reply = "250" =>
    /\ ToSet(envelope) \subseteq Mailboxes => filed = envelope
    /\ ToSet(envelope) \subseteq Elsewhere => queued = envelope

\* A client that is told its message was refused can send it again: no copy of it is in the
\* queue or in a folder.
RefusedIsNotStored == reply \in {"421", "554"} => filed = <<>> /\ queued = <<>>

\* A client that may not relay gets nothing into the queue, and no file for an address of
\* another domain, whatever it mixes.
RelayOnlyForPermitted ==
  permitted \/ (queued = <<>> /\ ToSet(filed) \subseteq Mailboxes)
=============================================================================
