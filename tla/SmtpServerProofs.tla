-------------------------- MODULE SmtpServerProofs --------------------------
(***************************************************************************)
(* Proofs about the two parts of a connection to the server, for any       *)
(* addresses, any number of recipients and connections of any length.      *)
(*                                                                         *)
(* First SmtpServerSession: what is stored is what the client was answered *)
(* for.  Then SmtpLines: the two readers of the connection behave as one,  *)
(* so that no line of a message is taken for a command.                    *)
(***************************************************************************)
EXTENDS SmtpServerSession, SmtpLines, SequenceTheorems, TLAPS

USE DEF transactionVars, storeVars, historyVars

Rcpt == mailTransaction.rcptTo
LastIsLocal == Rcpt[Len(Rcpt)] \in Mailboxes
AllLocal == \A i \in 1..Len(Rcpt) : Rcpt[i] \in Mailboxes

\* The parts of TypeOK.
Connection ==
  /\ permitted \in BOOLEAN /\ hasHello \in BOOLEAN
  /\ pc \in {"command", "data", "file", "queue", "reply", "closed"}
OneTransaction == mailTransaction = None \/ mailTransaction \in Transaction
Replies == answer \in Reply /\ reply \in Reply
Lists == /\ filed \in Seq(Addresses) /\ queued \in Seq(Addresses)
         /\ told \in Seq(Addresses) /\ envelope \in Seq(Addresses)

Working == {"data", "file", "queue", "reply"}

\* Between DATA and the reply the transaction is the one that was answered for.
AtWork ==
  pc \in Working =>
    /\ mailTransaction # None
    /\ Rcpt = envelope /\ Rcpt # <<>>
    /\ reply = "none"

\* Before, the client knows its recipients as soon as it has a MAIL FROM.
ToldAgrees == pc = "command" /\ Begun => Rcpt = told

\* The destination is that of the last recipient, and a client that may not relay has no other.
DestinationAgrees ==
  mailTransaction # None /\ Rcpt # <<>> =>
    /\ mailTransaction.destination = "self" <=> LastIsLocal
    /\ permitted \/ AllLocal

\* What the transaction has stored so far.
Stored ==
  /\ pc = "data" => filed = <<>> /\ queued = <<>>
  /\ pc = "file" =>
       /\ LastIsLocal /\ queued = <<>>
       /\ Len(filed) < Len(Rcpt) /\ \A i \in 1..Len(filed) : filed[i] = Rcpt[i]
  /\ pc = "queue" => ~LastIsLocal /\ filed = <<>> /\ queued = <<>>
  /\ pc = "reply" =>
       /\ answer = "250" => (LastIsLocal /\ filed = Rcpt) \/ (~LastIsLocal /\ queued = Rcpt)
       /\ answer \in {"421", "554"} => filed = <<>> /\ queued = <<>>

Inv ==
  /\ TypeOK
  /\ AtWork /\ ToldAgrees /\ DestinationAgrees /\ Stored
  /\ AnsweredIsStored /\ RefusedIsNotStored /\ RelayOnlyForPermitted

USE DEF Inv

\* The type invariant in parts.
LEMMA TypeParts ==
  /\ TypeOK <=> Connection /\ OneTransaction /\ Replies /\ Lists
                /\ (pc \in Working => mailTransaction # None)
  /\ TypeOK' <=> Connection' /\ OneTransaction' /\ Replies' /\ Lists'
                 /\ (pc' \in Working => mailTransaction' # None)
  BY DEF TypeOK, Connection, OneTransaction, Replies, Lists, Working

\* What the invariant says of types.
LEMMA Types ==
  ASSUME Inv
  PROVE  /\ Connection /\ OneTransaction /\ Replies /\ Lists
         /\ mailTransaction # None => Rcpt \in Seq(Addresses) /\ Len(Rcpt) \in Nat
  BY TypeParts DEF OneTransaction, Transaction, Rcpt

\* The elements of a sequence.
LEMMA InToSet ==
  ASSUME NEW S, NEW seq \in Seq(S)
  PROVE  ToSet(seq) = {seq[i] : i \in 1..Len(seq)}
  BY LenProperties DEF ToSet

\* A transaction that has no recipient yet.
LEMMA NoRecipients == <<>> \in Seq(Addresses) /\ Len(<<>>) = 0 /\ ToSet(<<>>) = {}
<1>1. <<>> \in Seq(Addresses) /\ Len(<<>>) = 0
  OBVIOUS
<1>2. ToSet(<<>>) = {}
  <2>1. ToSet(<<>>) = {<<>>[i] : i \in 1..Len(<<>>)}
    BY <1>1, InToSet
  <2>2. 1..Len(<<>>) = {}
    BY <1>1
  <2>3. QED BY <2>1, <2>2
<1>3. QED BY <1>1, <1>2

\* It holds of a new connection.
LEMMA InitInv == Init => Inv
<1> SUFFICES ASSUME Init PROVE Inv
  OBVIOUS
<1>1. TypeOK
  <2>1. Connection /\ OneTransaction /\ Replies
    BY DEF Init, Connection, OneTransaction, Replies, Reply
  <2>2. Lists
    BY NoRecipients DEF Init, Lists
  <2>3. QED BY <2>1, <2>2, TypeParts DEF Init, Working
<1>2. AtWork /\ ToldAgrees /\ DestinationAgrees /\ Stored
  BY DEF Init, AtWork, ToldAgrees, DestinationAgrees, Stored, Begun, Working
<1>3. AnsweredIsStored /\ RefusedIsNotStored /\ RelayOnlyForPermitted
  BY NoRecipients DEF Init, AnsweredIsStored, RefusedIsNotStored, RelayOnlyForPermitted
<1>4. QED BY <1>1, <1>2, <1>3

-----------------------------------------------------------------------------
(* Each action                                                             *)

\* What was stored for earlier messages, and what their client was told, stays as it was.
LEMMA StoresKept ==
  ASSUME Inv, UNCHANGED <<permitted, storeVars, reply, envelope>>
  PROVE  AnsweredIsStored' /\ RefusedIsNotStored' /\ RelayOnlyForPermitted'
  BY DEF AnsweredIsStored, RefusedIsNotStored, RelayOnlyForPermitted

\* RSET, and the end: no transaction, or no more commands.
LEMMA EndInv ==
  ASSUME Inv, Quit \/ Rset \/ UNCHANGED vars
  PROVE  Inv'
<1>1. CASE Quit \/ Rset
  <2>1. TypeOK'
    <3>1. Connection' /\ OneTransaction' /\ Replies'
      BY <1>1, Types DEF Quit, Rset, Command, Connection, OneTransaction, Replies
    <3>2. Lists'
      BY <1>1, Types, NoRecipients DEF Quit, Rset, Command, Lists
    <3>3. QED BY <1>1, <3>1, <3>2, TypeParts DEF Quit, Rset, Command, Working
  <2>2. AtWork' /\ ToldAgrees' /\ Stored'
    BY <1>1 DEF Quit, Rset, Command, AtWork, ToldAgrees, Stored, Begun, Working
  <2>3. DestinationAgrees'
    BY <1>1 DEF Quit, Rset, Command, DestinationAgrees, Rcpt, LastIsLocal, AllLocal
  <2>4. UNCHANGED <<permitted, storeVars, reply, envelope>>
    BY <1>1 DEF Quit, Rset, Command
  <2>5. QED BY <2>1, <2>2, <2>3, <2>4, StoresKept
<1>2. CASE UNCHANGED vars
  <2>1. TypeOK'
    BY <1>2 DEF vars, TypeOK
  <2>2. AtWork' /\ ToldAgrees' /\ Stored' /\ DestinationAgrees'
    BY <1>2 DEF vars, AtWork, ToldAgrees, Stored, DestinationAgrees, Begun, Rcpt, LastIsLocal, AllLocal
  <2>3. QED BY <1>2, <2>1, <2>2, StoresKept DEF vars
<1>3. QED BY <1>1, <1>2

\* Hello keeps the invariant.
LEMMA HelloInv ==
  ASSUME Inv, Hello
  PROVE  Inv'
<1>1. TypeOK'
  <2>1. Connection' /\ OneTransaction' /\ Replies' /\ Lists'
    BY Types DEF Hello, Command, Connection, OneTransaction, Replies, Lists
  <2>2. QED BY <2>1, TypeParts DEF Hello, Command, Working
<1>2. AtWork' /\ ToldAgrees' /\ Stored'
  BY DEF Hello, Command, AtWork, ToldAgrees, Stored, Begun, Rcpt, Working
<1>3. DestinationAgrees'
  BY DEF Hello, DestinationAgrees, Rcpt, LastIsLocal, AllLocal
<1>4. UNCHANGED <<permitted, storeVars, reply, envelope>>
  BY DEF Hello, Command
<1>5. QED BY <1>1, <1>2, <1>3, <1>4, StoresKept

\* A new transaction has no recipient; one that was refused is not begun.
LEMMA MailInv ==
  ASSUME Inv, MailFrom \/ MailFromRefused
  PROVE  Inv'
<1>1. PICK from \in {"unset", "null", "address"} :
        /\ mailTransaction' = NewTransaction(from)
        /\ from # "unset" => told' = <<>>
        /\ told' = told \/ told' = <<>>
        /\ pc = "command" /\ pc' = "command"
        /\ UNCHANGED <<permitted, hasHello, answer, filed, queued, reply, envelope>>
  BY DEF MailFrom, MailFromRefused, Command
<1>2. /\ mailTransaction' \in Transaction /\ Rcpt' = <<>>
      /\ mailTransaction'.from = from
  BY <1>1, NoRecipients DEF NewTransaction, Transaction, Destination, Rcpt
<1>3. TypeOK'
  <2>1. Connection' /\ Replies'
    BY <1>1, Types DEF Connection, Replies
  <2>2. OneTransaction' /\ Lists'
    BY <1>1, <1>2, Types, NoRecipients DEF OneTransaction, Lists
  <2>3. QED BY <1>1, <2>1, <2>2, TypeParts DEF Working
<1>4. AtWork' /\ Stored'
  BY <1>1 DEF AtWork, Stored, Working
<1>5. ToldAgrees' /\ DestinationAgrees'
  BY <1>1, <1>2 DEF ToldAgrees, DestinationAgrees, Begun
<1>6. QED BY <1>1, <1>3, <1>4, <1>5, StoresKept

\* Rcpt keeps the invariant.
LEMMA RcptInv ==
  ASSUME Inv, NEW rcpt \in Addresses, RcptTo(rcpt)
  PROVE  Inv'
<1>1. /\ pc = "command" /\ pc' = "command"
      /\ UNCHANGED <<permitted, hasHello, answer, filed, queued, reply, envelope>>
      /\ Begun /\ mailTransaction # None
      /\ rcpt \in Mailboxes \/ permitted
      /\ told' = Append(told, rcpt)
  BY DEF RcptTo, Command, MayDeliver, Begun
<1>2. mailTransaction \in Transaction
  BY <1>1, Types DEF OneTransaction
<1>3. /\ mailTransaction' = [mailTransaction EXCEPT
           !.rcptTo = Append(@, rcpt),
           !.destination = IF rcpt \in Mailboxes THEN "self" ELSE "relay"]
  BY DEF RcptTo
<1>4. /\ mailTransaction' \in Transaction
      /\ Rcpt' = Append(Rcpt, rcpt) /\ mailTransaction'.from = mailTransaction.from
      /\ mailTransaction'.destination = IF rcpt \in Mailboxes THEN "self" ELSE "relay"
  <2>1. Append(Rcpt, rcpt) \in Seq(Addresses)
    BY <1>2 DEF Transaction, Rcpt
  <2>2. mailTransaction' = [from |-> mailTransaction.from, rcptTo |-> Append(Rcpt, rcpt),
                            destination |-> IF rcpt \in Mailboxes THEN "self" ELSE "relay"]
    BY <1>2, <1>3 DEF Transaction, Rcpt
  <2>3. mailTransaction.from \in {"unset", "null", "address"}
    BY <1>2 DEF Transaction
  <2>4. QED BY <2>1, <2>2, <2>3 DEF Transaction, Destination, Rcpt
<1>5. Rcpt \in Seq(Addresses) /\ Len(Rcpt) \in Nat
  BY <1>2 DEF Transaction, Rcpt
<1>6. /\ Len(Rcpt') = Len(Rcpt) + 1 /\ Rcpt'[Len(Rcpt')] = rcpt
      /\ \A i \in 1..Len(Rcpt') : (i \in 1..Len(Rcpt) /\ Rcpt'[i] = Rcpt[i]) \/ Rcpt'[i] = rcpt
  BY <1>4, <1>5
<1>7. TypeOK'
  <2>1. Connection' /\ Replies'
    BY <1>1, Types DEF Connection, Replies
  <2>2. OneTransaction'
    BY <1>4 DEF OneTransaction
  <2>3. Lists'
    BY <1>1, Types DEF Lists
  <2>4. QED BY <1>1, <2>1, <2>2, <2>3, TypeParts DEF Working
<1>8. AtWork' /\ Stored'
  BY <1>1 DEF AtWork, Stored, Working
<1>9. ToldAgrees'
  BY <1>1, <1>4 DEF ToldAgrees
<1>10. DestinationAgrees'
  <2>1. mailTransaction'.destination = "self" <=> LastIsLocal'
    BY <1>4, <1>6 DEF LastIsLocal
  <2>2. permitted \/ AllLocal'
    BY <1>1, <1>5, <1>6 DEF DestinationAgrees, AllLocal
  <2>3. QED BY <1>1, <2>1, <2>2 DEF DestinationAgrees
<1>11. QED BY <1>1, <1>7, <1>8, <1>9, <1>10, StoresKept

\* The transaction that the client was told of becomes the one at work.
LEMMA DataInv ==
  ASSUME Inv, Data
  PROVE  Inv'
<1>1. /\ pc = "command" /\ pc' = "data" /\ Begun /\ mailTransaction # None /\ Rcpt # <<>>
      /\ filed' = <<>> /\ queued' = <<>> /\ reply' = "none" /\ envelope' = told
      /\ UNCHANGED <<permitted, hasHello, mailTransaction, answer, told>>
  BY DEF Data, Begun, Rcpt
<1>2. TypeOK'
  <2>1. Connection' /\ OneTransaction' /\ Replies'
    BY <1>1, Types DEF Connection, OneTransaction, Replies, Reply
  <2>2. Lists'
    BY <1>1, Types, NoRecipients DEF Lists
  <2>3. QED BY <1>1, <2>1, <2>2, TypeParts
<1>3. AtWork' /\ ToldAgrees' /\ Stored'
  BY <1>1 DEF AtWork, ToldAgrees, Stored, Rcpt
<1>4. DestinationAgrees'
  BY <1>1 DEF DestinationAgrees, Rcpt, LastIsLocal, AllLocal
<1>5. AnsweredIsStored' /\ RefusedIsNotStored' /\ RelayOnlyForPermitted'
  BY <1>1, NoRecipients DEF AnsweredIsStored, RefusedIsNotStored, RelayOnlyForPermitted
<1>6. QED BY <1>2, <1>3, <1>4, <1>5

\* A step of SaveAsync, which changes the stores, the answer and where the connection is.
LEMMA SaveTypes ==
  ASSUME Inv, pc \in Working, pc' \in Working \cup {"closed"}, UNCHANGED <<transactionVars, historyVars>>,
         answer' \in Reply, filed' \in Seq(Addresses), queued' \in Seq(Addresses)
  PROVE  TypeOK' /\ AtWork' /\ ToldAgrees' /\ DestinationAgrees' /\ AnsweredIsStored' /\ RefusedIsNotStored'
<1>1. TypeOK'
  <2>1. Connection' /\ OneTransaction' /\ Replies' /\ Lists'
    BY Types DEF Connection, OneTransaction, Replies, Lists, Working
  <2>2. QED BY <2>1, TypeParts
<1>2. AtWork' /\ ToldAgrees' /\ AnsweredIsStored' /\ RefusedIsNotStored'
  BY DEF AtWork, ToldAgrees, AnsweredIsStored, RefusedIsNotStored, Rcpt, Working
<1>3. DestinationAgrees'
  BY DEF DestinationAgrees, Rcpt, LastIsLocal, AllLocal
<1>4. QED BY <1>1, <1>2, <1>3

\* Save keeps the invariant.
LEMMA SaveInv ==
  ASSUME Inv, SaveAsync
  PROVE  Inv'
<1>1. /\ pc = "data" /\ pc' = IF mailTransaction.destination = "self" THEN "file" ELSE "queue"
      /\ UNCHANGED <<transactionVars, answer, storeVars, historyVars>>
  BY DEF SaveAsync
<1>2. mailTransaction # None /\ Rcpt # <<>> /\ Rcpt \in Seq(Addresses) /\ filed = <<>> /\ queued = <<>>
  BY <1>1, Types DEF AtWork, Stored, Working
<1>3. TypeOK' /\ AtWork' /\ ToldAgrees' /\ DestinationAgrees' /\ AnsweredIsStored' /\ RefusedIsNotStored'
  BY <1>1, Types, SaveTypes DEF Working, Replies, Lists
<1>4. Stored'
  <2>1. Len(Rcpt) > 0
    BY <1>2, EmptySeq
  <2>2. mailTransaction.destination = "self" <=> LastIsLocal
    BY <1>2 DEF DestinationAgrees
  <2>3. QED BY <1>1, <1>2, <2>1, <2>2, NoRecipients DEF Stored, LastIsLocal, Rcpt
<1>5. RelayOnlyForPermitted'
  BY <1>1 DEF RelayOnlyForPermitted
<1>6. QED BY <1>3, <1>4, <1>5

\* WriteFile keeps the invariant.
LEMMA WriteFileInv ==
  ASSUME Inv, WriteFile
  PROVE  Inv'
<1> DEFINE n == Len(filed) + 1
<1>1. /\ pc = "file" /\ filed' = Append(filed, Rcpt[n])
      /\ IF Len(filed') = Len(Rcpt) THEN answer' = "250" /\ pc' = "reply" ELSE UNCHANGED <<answer, pc>>
      /\ UNCHANGED <<transactionVars, queued, historyVars>>
  BY DEF WriteFile, FileForNext, Answer, Rcpt
<1>2. /\ mailTransaction # None /\ Rcpt # <<>> /\ Rcpt \in Seq(Addresses) /\ Len(Rcpt) \in Nat
      /\ filed \in Seq(Addresses) /\ Len(filed) \in Nat
      /\ LastIsLocal /\ queued = <<>>
      /\ Len(filed) < Len(Rcpt) /\ \A i \in 1..Len(filed) : filed[i] = Rcpt[i]
  BY <1>1, Types DEF AtWork, Stored, Working, Lists
<1>3. n \in 1..Len(Rcpt) /\ Rcpt[n] \in Addresses
  BY <1>2
<1>4. /\ filed' \in Seq(Addresses) /\ Len(filed') = n
      /\ \A i \in 1..n : filed'[i] = Rcpt[i]
  BY <1>1, <1>2, <1>3
<1>5. Len(filed') = Len(Rcpt) => filed' = Rcpt
  BY <1>2, <1>4, SeqEqual
<1>6. TypeOK' /\ AtWork' /\ ToldAgrees' /\ DestinationAgrees' /\ AnsweredIsStored' /\ RefusedIsNotStored'
  <2>1. answer' \in Reply /\ queued' \in Seq(Addresses) /\ pc' \in Working
    BY <1>1, Types DEF Replies, Reply, Lists, Working
  <2>2. QED BY <1>1, <1>4, <2>1, SaveTypes DEF Working
<1>7. Stored'
  <2>1. Rcpt' = Rcpt /\ (LastIsLocal' <=> LastIsLocal)
    BY <1>1 DEF Rcpt, LastIsLocal
  <2>2. CASE Len(filed') = Len(Rcpt)
    BY <1>1, <1>2, <1>5, <2>1, <2>2 DEF Stored
  <2>3. CASE Len(filed') # Len(Rcpt)
    <3>1. Len(filed') < Len(Rcpt)
      BY <1>2, <1>3, <1>4, <2>3
    <3>2. QED BY <1>1, <1>2, <1>4, <2>1, <2>3, <3>1 DEF Stored
  <2>4. QED BY <2>2, <2>3
<1>8. RelayOnlyForPermitted'
  <2>1. permitted \/ AllLocal
    BY <1>2 DEF DestinationAgrees
  <2>2. AllLocal => ToSet(filed') \subseteq Mailboxes
    BY <1>3, <1>4, InToSet DEF AllLocal
  <2>3. QED BY <1>1, <1>2, <2>1, <2>2 DEF RelayOnlyForPermitted
<1>9. QED BY <1>6, <1>7, <1>8

\* Only a message whose last recipient is elsewhere gets here: its client may relay.
LEMMA QueueInv ==
  ASSUME Inv, SendDiscarding \/ Enqueue \/ EnqueueRefused
  PROVE  Inv'
<1>1. /\ pc = "queue" /\ pc' = "reply" /\ filed' = filed
      /\ UNCHANGED <<transactionVars, historyVars>>
      /\ \/ answer' \in {"421", "554"} /\ queued' = queued
         \/ answer' = "250" /\ queued' = Rcpt
  BY DEF SendDiscarding, Enqueue, EnqueueRefused, Publish, Answer, Rcpt
<1>2. /\ mailTransaction # None /\ Rcpt # <<>> /\ Rcpt \in Seq(Addresses) /\ Len(Rcpt) \in Nat
      /\ ~LastIsLocal /\ filed = <<>> /\ queued = <<>>
  BY <1>1, Types DEF AtWork, Stored, Working
<1>3. permitted
  <2>1. Len(Rcpt) \in 1..Len(Rcpt)
    BY <1>2, EmptySeq
  <2>2. ~AllLocal
    BY <1>2, <2>1 DEF AllLocal, LastIsLocal
  <2>3. QED BY <1>2, <2>2 DEF DestinationAgrees
<1>4. TypeOK' /\ AtWork' /\ ToldAgrees' /\ DestinationAgrees' /\ AnsweredIsStored' /\ RefusedIsNotStored'
  <2>1. answer' \in Reply /\ queued' \in Seq(Addresses) /\ filed' \in Seq(Addresses)
    BY <1>1, <1>2, Types DEF Reply, Lists
  <2>2. QED BY <1>1, <2>1, SaveTypes DEF Working
<1>5. Stored'
  <2>1. Rcpt' = Rcpt /\ (LastIsLocal' <=> LastIsLocal)
    BY <1>1 DEF Rcpt, LastIsLocal
  <2>2. QED BY <1>1, <1>2, <2>1 DEF Stored
<1>6. RelayOnlyForPermitted'
  BY <1>1, <1>3 DEF RelayOnlyForPermitted
<1>7. QED BY <1>4, <1>5, <1>6

\* Respond keeps the invariant.
LEMMA RespondInv ==
  ASSUME Inv, Respond
  PROVE  Inv'
<1>1. /\ pc = "reply" /\ pc' = "command" /\ reply' = answer
      /\ mailTransaction' = None /\ told' = <<>>
      /\ UNCHANGED <<permitted, hasHello, answer, filed, queued, envelope>>
  BY DEF Respond
<1>2. TypeOK'
  <2>1. Connection' /\ OneTransaction' /\ Replies'
    BY <1>1, Types DEF Connection, OneTransaction, Replies
  <2>2. Lists'
    BY <1>1, Types, NoRecipients DEF Lists
  <2>3. QED BY <1>1, <2>1, <2>2, TypeParts DEF Working
<1>3. AtWork' /\ ToldAgrees' /\ DestinationAgrees' /\ Stored'
  BY <1>1 DEF AtWork, ToldAgrees, DestinationAgrees, Stored, Begun, Working
<1>4. /\ Rcpt = envelope /\ envelope # <<>> /\ envelope \in Seq(Addresses) /\ Len(envelope) \in Nat
  BY <1>1, Types DEF AtWork, Working, Lists
<1>5. AnsweredIsStored'
  <2>1. envelope[Len(envelope)] \in ToSet(envelope)
    <3>1. Len(envelope) \in 1..Len(envelope)
      BY <1>4, EmptySeq
    <3>2. QED BY <1>4, <3>1, InToSet
  <2>2. ToSet(envelope) \subseteq Mailboxes => LastIsLocal
    BY <1>4, <2>1 DEF LastIsLocal
  <2>3. ToSet(envelope) \subseteq Elsewhere => ~LastIsLocal
    BY <1>4, <2>1, AddressesAssumption DEF LastIsLocal, AddressesAssumption
  <2>4. QED BY <1>1, <1>4, <2>2, <2>3 DEF Stored, AnsweredIsStored
<1>6. RefusedIsNotStored' /\ RelayOnlyForPermitted'
  BY <1>1 DEF Stored, RefusedIsNotStored, RelayOnlyForPermitted
<1>7. QED BY <1>2, <1>3, <1>5, <1>6

\* Close keeps the invariant.
LEMMA CloseInv ==
  ASSUME Inv, Close
  PROVE  Inv'
<1>1. /\ pc # "closed" /\ pc' = "closed"
      /\ queued' = queued \/ (pc = "queue" /\ queued' = Rcpt)
      /\ UNCHANGED <<permitted, hasHello, mailTransaction, answer, filed, reply, told, envelope>>
  BY DEF Close, Publish, Rcpt
<1>2. CASE queued' = queued
  <2>1. TypeOK'
    <3>1. Connection' /\ OneTransaction' /\ Replies' /\ Lists'
      BY <1>1, <1>2, Types DEF Connection, OneTransaction, Replies, Lists
    <3>2. QED BY <1>1, <3>1, TypeParts DEF Working
  <2>2. AtWork' /\ ToldAgrees' /\ Stored'
    BY <1>1 DEF AtWork, ToldAgrees, Stored, Working
  <2>3. DestinationAgrees'
    BY <1>1 DEF DestinationAgrees, Rcpt, LastIsLocal, AllLocal
  <2>4. QED BY <1>1, <1>2, <2>1, <2>2, <2>3, StoresKept
<1>3. CASE pc = "queue" /\ queued' = Rcpt
  <2>1. Rcpt \in Seq(Addresses) /\ Rcpt # <<>> /\ Len(Rcpt) \in Nat /\ ~LastIsLocal /\ mailTransaction # None
    BY <1>3, Types DEF AtWork, Stored, Working
  <2>2. permitted
    <3>1. Len(Rcpt) \in 1..Len(Rcpt)
      BY <2>1, EmptySeq
    <3>2. ~AllLocal
      BY <2>1, <3>1 DEF AllLocal, LastIsLocal
    <3>3. QED BY <2>1, <3>2 DEF DestinationAgrees
  <2>3. TypeOK' /\ AtWork' /\ ToldAgrees' /\ DestinationAgrees' /\ AnsweredIsStored' /\ RefusedIsNotStored'
    <3>1. answer' \in Reply /\ queued' \in Seq(Addresses) /\ filed' \in Seq(Addresses)
      BY <1>1, <1>3, <2>1, Types DEF Replies, Lists
    <3>2. QED BY <1>1, <1>3, <3>1, SaveTypes DEF Working
  <2>4. Stored'
    BY <1>1 DEF Stored
  <2>5. RelayOnlyForPermitted'
    BY <1>1, <2>2 DEF RelayOnlyForPermitted
  <2>6. QED BY <2>3, <2>4, <2>5
<1>4. QED BY <1>1, <1>2, <1>3

-----------------------------------------------------------------------------

\* Every step keeps the invariant.
LEMMA NextInv == Inv /\ [Next]_vars => Inv'
  BY EndInv, HelloInv, MailInv, RcptInv, DataInv, SaveInv, WriteFileInv, QueueInv, RespondInv, CloseInv
     DEF Next

\* The invariant holds in every state.
THEOREM Inductive == Spec => []Inv
  BY InitInv, NextInv, PTL DEF Spec

\* The state of a connection is of its type whatever its client sends: SaveAsync has a transaction
\* whenever it runs.
THEOREM SessionType == Spec => []TypeOK
  BY Inductive, PTL

\* Over any sequence of commands, of any length, the recipients that are stored are those that
\* the client was answered for.
THEOREM EnvelopeIsKept == Spec => []EnvelopeAgrees
<1>1. Inv => EnvelopeAgrees
  BY DEF AtWork, EnvelopeAgrees, Working, Rcpt
<1>2. QED BY <1>1, Inductive, PTL

\* For any number of recipients of one kind, "250" means that each has its file, in order, or that
\* the message is in the queue with all of them.
THEOREM RepliesAreTrue == Spec => []AnsweredIsStored
  BY Inductive, PTL

\* Nothing of a message that was refused after its data is kept.
THEOREM RefusalsAreTrue == Spec => []RefusedIsNotStored
  BY Inductive, PTL

\* Whatever a client mixes that may not relay, nothing of it reaches the queue, and no file is for
\* an address of another domain.
THEOREM NoRelayingForOthers == Spec => []RelayOnlyForPermitted
  BY Inductive, PTL

-----------------------------------------------------------------------------
(***************************************************************************)
(* The lines of a connection: neither reader leaves a line behind in the   *)
(* other, and no line of a message is taken for a command, as long as the  *)
(* client waits for the answer to the dot of a UTF-8 transaction.          *)
(*                                                                         *)
(* What has to be known besides is where, among the lines not read yet,    *)
(* the data can be and what the client is doing meanwhile: DATA is the     *)
(* last line it wrote, and the dot of a UTF-8 transaction too.             *)
(***************************************************************************)

LastLine == Len(written)
Unread == (read + 1)..LastLine
Mails == {"mail7", "mail8"}

\* The lines not read yet are those of a message, its dot, and the commands behind the dot, which
\* only the reader of commands may find there.
DotWaits(d) ==
  /\ d \in Unread /\ written[d] = "dot"
  /\ \A i \in Unread : (i < d => written[i] = "text") /\ (i > d => written[i] \in Commands)

\* What each state of the client says of the server.
Free ==
  /\ dataReply = "none"
  /\ \A i \in Unread : written[i] # "data"
  /\ phase = "data" => mime = "ascii" /\ \E d \in Unread : DotWaits(d)

Waits ==
  \/ /\ dataReply = "none" /\ LastLine \in Unread /\ written[LastLine] = "data"
     /\ \A i \in Unread : i # LastLine => written[i] # "data"
     /\ phase = "data" => mime = "ascii" /\ \E d \in Unread : DotWaits(d)
  \/ dataReply = "354" /\ read = LastLine /\ phase = "data" /\ mime = clientMime
  \/ dataReply = "503" /\ read = LastLine /\ phase = "command"

Writes ==
  /\ dataReply = "none" /\ phase = "data" /\ mime = clientMime
  /\ \A i \in Unread : written[i] = "text"

Done ==
  /\ dataReply = "none"
  /\ phase = "command" => read = LastLine
  /\ phase = "data" => mime = clientMime /\ ~stored /\ LastLine \in Unread /\ DotWaits(LastLine)

ClientAgrees ==
  /\ client = "free" => Free
  /\ client = "waits" => Waits
  /\ client = "writes" => Writes
  /\ client = "done" => Done

\* The body type that the server will know once it has read everything is the client's.
NoMailAfter(i) == \A j \in Unread : j > i => written[j] \notin Mails
MimeAgrees ==
  /\ \A i \in Unread : written[i] \in Mails /\ NoMailAfter(i) => Mime(written[i]) = clientMime
  /\ NoMailAfter(read) => transport \in {"none", clientMime}

Agrees ==
  /\ Reader = (read + 1)..filled /\ OtherReader = {}
  /\ phase = "command" => mime = "ascii" /\ \A i \in Unread : written[i] \in Commands
  /\ ClientAgrees
  /\ MimeAgrees

IInv == LinesTypeOK /\ (ahead \/ Agrees)

-----------------------------------------------------------------------------

\* A line of the client has the type of one and leaves the server alone.
LEMMA WriteLineType ==
  ASSUME LinesTypeOK, NEW line \in Commands \cup DataLines,
         NEW then \in {"free", "waits", "writes", "done"}, WriteLine(line, then)
  PROVE  /\ written' \in Seq(Commands \cup DataLines) /\ client' = then
         /\ filled \in 0..Len(written') /\ ahead' = ahead /\ dataReply' = dataReply
         /\ <<filled, ascii, utf8, mime, transport, phase, read>>'
              = <<filled, ascii, utf8, mime, transport, phase, read>>
<1> QED
  BY DEF LinesTypeOK, WriteLine, serverVars

\* ReadLineAsync keeps the types of what it touches.
LEMMA ReadLineType ==
  ASSUME LinesTypeOK, NEW i \in Reader, ReadLine(i)
  PROVE  /\ read' \in 0..filled /\ ascii' \in SUBSET (1..filled) /\ utf8' \in SUBSET (1..filled)
         /\ filled' = filled /\ written' = written
         /\ client' = client /\ clientMime' = clientMime /\ ahead' = ahead
<1>1. ascii \in SUBSET (1..filled) /\ utf8 \in SUBSET (1..filled) /\ filled \in Nat
  BY DEF LinesTypeOK
<1>2. i \in 1..filled
  BY <1>1 DEF Reader
<1>3. ascii' \in SUBSET (1..filled) /\ utf8' \in SUBSET (1..filled)
  BY <1>1 DEF ReadLine
<1> QED
  BY <1>1, <1>2, <1>3 DEF ReadLine, clientVars

\* Every step keeps the types: SmtpStreamHandler and the client's side of its stream.
LEMMA TypeStep == LinesTypeOK /\ [LinesNext]_linesVars => LinesTypeOK'
<1> SUFFICES ASSUME LinesTypeOK, [LinesNext]_linesVars PROVE LinesTypeOK'
  OBVIOUS
<1> USE DEF LinesTypeOK, Commands, DataLines
<1>1. CASE WriteMail
  <2>1. CASE WriteLine("mail7", "free") /\ clientMime' = "ascii"
    BY <1>1, <2>1, WriteLineType DEF WriteMail
  <2>2. CASE WriteLine("mail8", "free") /\ clientMime' = "utf8"
    BY <1>1, <2>2, WriteLineType DEF WriteMail
  <2> QED
    BY <1>1, <2>1, <2>2 DEF WriteMail
<1>2. CASE WriteRset
  BY <1>2 DEF WriteRset, WriteLine, serverVars
<1>3. CASE WriteData
  BY <1>3 DEF WriteData, WriteLine, serverVars
<1>4. CASE GetReply
  BY <1>4 DEF GetReply, serverVars
<1>5. CASE WriteText
  BY <1>5 DEF WriteText, WriteLine, serverVars
<1>6. CASE WriteDot
  BY <1>6, WriteLineType DEF WriteDot
<1>7. CASE GoOn
  BY <1>7 DEF GoOn, serverVars
<1>8. CASE Fill
  <2>1. PICK upTo \in (filled + 1)..Len(written) :
          /\ IF mime = "ascii" THEN ascii' = (filled + 1)..upTo /\ UNCHANGED utf8
                               ELSE utf8' = (filled + 1)..upTo /\ UNCHANGED ascii
          /\ filled' = upTo
    BY <1>8 DEF Fill
  <2>2. filled \in Nat /\ Len(written) \in Nat /\ (filled + 1)..upTo \subseteq 1..upTo
    OBVIOUS
  <2>3. ascii \subseteq 1..upTo /\ utf8 \subseteq 1..upTo
    BY <2>2
  <2>4. ascii' \in SUBSET (1..filled') /\ utf8' \in SUBSET (1..filled')
    BY <2>1, <2>2, <2>3
  <2> QED
    BY <1>8, <2>1, <2>2, <2>4 DEF Fill, clientVars
<1>9. CASE ReadMail
  BY <1>9, ReadLineType DEF ReadMail, Mime
<1>10. CASE ReadOther
  BY <1>10, ReadLineType DEF ReadOther
<1>11. CASE ReadData
  BY <1>11, ReadLineType DEF ReadData
<1>12. CASE ReadText
  BY <1>12, ReadLineType DEF ReadText
<1>13. CASE ReadDot
  BY <1>13, ReadLineType DEF ReadDot
<1>14. CASE UNCHANGED linesVars
  BY <1>14 DEF linesVars, clientVars, serverVars
<1> QED
  BY <1>1, <1>2, <1>3, <1>4, <1>5, <1>6, <1>7, <1>8, <1>9, <1>10, <1>11, <1>12, <1>13, <1>14
     DEF LinesNext

\* A line that the client writes is behind those that are there, which stay as they are.
LEMMA Appended ==
  ASSUME LinesTypeOK, NEW line \in Commands \cup DataLines, NEW then, WriteLine(line, then)
  PROVE  /\ LastLine' = LastLine + 1 /\ written'[LastLine'] = line
         /\ \A i \in 1..LastLine : written'[i] = written[i]
         /\ Unread' = Unread \cup {LastLine + 1} /\ LastLine + 1 \notin Unread
         /\ Unread \subseteq 1..LastLine
         /\ LastLine \in Nat
<1>1. written \in Seq(Commands \cup DataLines) /\ read \in 0..LastLine /\ filled \in 0..LastLine
  BY DEF LinesTypeOK, LastLine
<1>2. written' = Append(written, line) /\ read' = read
  BY DEF WriteLine, serverVars
<1> QED
  BY <1>1, <1>2 DEF LastLine, Unread

\* The line that a reader returns is the next of those not read, and it is on its way out.
LEMMA Returned ==
  ASSUME LinesTypeOK, Agrees, NEW i \in Reader, ReadLine(i)
  PROVE  /\ i = read + 1 /\ i \in Unread /\ read' = i /\ Unread' = Unread \ {i}
         /\ \A j \in Unread' : i < j
         /\ LastLine' = LastLine /\ written' = written /\ filled' = filled
         /\ (mime = "ascii" => ascii' = (read' + 1)..filled' /\ utf8' = {})
         /\ (mime # "ascii" => utf8' = (read' + 1)..filled' /\ ascii' = {})
         /\ Unread \subseteq 1..LastLine /\ LastLine \in Nat
<1>1. read \in 0..filled /\ filled \in 0..LastLine /\ LastLine \in Nat
  BY DEF LinesTypeOK, LastLine
<1>2. Reader = (read + 1)..filled /\ OtherReader = {}
  BY DEF Agrees
<1>3. i = read + 1
  BY <1>1, <1>2 DEF ReadLine, First
<1>4. written' = written /\ filled' = filled /\ read' = i
  BY DEF ReadLine, clientVars
<1>5. (read' + 1)..filled' = ((read + 1)..filled) \ {i}
  BY <1>1, <1>3, <1>4
<1>6. CASE mime = "ascii"
  <2>1. ascii' = Reader \ {i} /\ utf8' = OtherReader
    BY <1>6 DEF ReadLine, Reader, OtherReader
  <2> QED
    BY <2>1, <1>2, <1>3, <1>4, <1>5, <1>6, <1>1 DEF Unread, LastLine
<1>7. CASE mime # "ascii"
  <2>1. utf8' = Reader \ {i} /\ ascii' = OtherReader
    BY <1>7 DEF ReadLine, Reader, OtherReader
  <2> QED
    BY <2>1, <1>2, <1>3, <1>4, <1>5, <1>7, <1>1 DEF Unread, LastLine
<1> QED
  BY <1>6, <1>7

-----------------------------------------------------------------------------
(* The lines of the client                                                 *)

\* What a new line leaves as it was: the readers, and the types known once all is read.
LEMMA LineAgrees ==
  ASSUME LinesTypeOK, Agrees, NEW line \in Commands \cup DataLines, NEW then,
         WriteLine(line, then),
         phase = "command" => line \in Commands,
         IF line \in Mails THEN Mime(line) = clientMime' ELSE clientMime' = clientMime
  PROVE  /\ Reader' = ((read + 1)..filled)' /\ OtherReader' = {}
         /\ phase' = "command" => mime' = "ascii" /\ \A i \in Unread' : written'[i] \in Commands
         /\ MimeAgrees'
<1>1. /\ LastLine' = LastLine + 1 /\ written'[LastLine'] = line
      /\ \A i \in 1..LastLine : written'[i] = written[i]
      /\ Unread' = Unread \cup {LastLine + 1} /\ LastLine + 1 \notin Unread
      /\ Unread \subseteq 1..LastLine
      /\ LastLine \in Nat
  BY Appended
<1>2. <<filled, ascii, utf8, mime, transport, phase, read>>'
        = <<filled, ascii, utf8, mime, transport, phase, read>>
  BY DEF WriteLine, serverVars
<1>3. Reader' = ((read + 1)..filled)' /\ OtherReader' = {}
  BY <1>2 DEF Agrees, Reader, OtherReader
<1>4. phase' = "command" => mime' = "ascii" /\ \A i \in Unread' : written'[i] \in Commands
  BY <1>1, <1>2 DEF Agrees
<1>5. MimeAgrees'
  <2>0. read \in Nat /\ read < LastLine + 1
    BY DEF LinesTypeOK, LastLine
  <2>1. CASE line \in Mails
    <3>1. \A i \in Unread \cup {read} : ~NoMailAfter(i)'
      BY <1>1, <2>0, <2>1 DEF NoMailAfter
    <3> QED
      BY <3>1, <1>1, <1>2, <2>0, <2>1 DEF MimeAgrees
  <2>2. CASE line \notin Mails
    <3>1. \A i \in Unread \cup {read} : NoMailAfter(i)' => NoMailAfter(i)
      BY <1>1, <2>0, <2>2 DEF NoMailAfter
    <3> QED
      BY <3>1, <1>1, <1>2, <2>0, <2>2 DEF MimeAgrees, Agrees
  <2> QED
    BY <2>1, <2>2
<1> QED
  BY <1>3, <1>4, <1>5

\* A dot that waits still waits behind a further command.
LEMMA DotStill ==
  ASSUME LinesTypeOK, NEW line \in Commands, NEW then, WriteLine(line, then),
         NEW d \in Unread, DotWaits(d)
  PROVE  d \in Unread' /\ DotWaits(d)'
<1>1. /\ written'[LastLine + 1] = line
      /\ \A i \in 1..LastLine : written'[i] = written[i]
      /\ Unread' = Unread \cup {LastLine + 1}
      /\ Unread \subseteq 1..LastLine
      /\ LastLine \in Nat
  BY Appended
<1> QED
  BY <1>1 DEF DotWaits

\* A command written by a client that is free to do so: MAIL FROM, RSET and the like, or DATA.
LEMMA CommandAgrees ==
  ASSUME LinesTypeOK, Agrees, client = "free", NEW line \in Commands,
         WriteLine(line, IF line = "data" THEN "waits" ELSE "free"),
         IF line \in Mails THEN Mime(line) = clientMime' ELSE clientMime' = clientMime
  PROVE  Agrees'
<1>0. /\ LastLine' = LastLine + 1 /\ written'[LastLine'] = line
      /\ \A i \in 1..LastLine : written'[i] = written[i]
      /\ Unread' = Unread \cup {LastLine + 1} /\ LastLine + 1 \notin Unread
      /\ Unread \subseteq 1..LastLine
      /\ LastLine \in Nat
  BY Appended
<1>1. Free
  BY DEF Agrees, ClientAgrees
<1>2. dataReply' = "none" /\ mime' = mime /\ phase' = phase
  BY <1>1 DEF Free, WriteLine, serverVars
<1>3. phase = "data" => mime' = "ascii" /\ \E d \in Unread' : DotWaits(d)'
  BY <1>1, <1>2, DotStill DEF Free
<1>4. CASE line = "data"
  <2>1. Waits'
    BY <1>0, <1>1, <1>2, <1>3, <1>4 DEF Waits, Free
  <2>2. client' = "waits"
    BY <1>4 DEF WriteLine
  <2> QED
    BY <2>1, <2>2, LineAgrees DEF Agrees, ClientAgrees
<1>5. CASE line # "data"
  <2>1. Free'
    BY <1>0, <1>1, <1>2, <1>3, <1>5 DEF Free
  <2>2. client' = "free"
    BY <1>5 DEF WriteLine
  <2> QED
    BY <2>1, <2>2, LineAgrees DEF Agrees, ClientAgrees
<1> QED
  BY <1>4, <1>5

\* MAIL is written while no data are on the way.
LEMMA MailAgrees == LinesTypeOK /\ Agrees /\ WriteMail => Agrees'
<1> SUFFICES ASSUME LinesTypeOK, Agrees, WriteMail PROVE Agrees'
  OBVIOUS
<1>1. CASE WriteLine("mail7", "free") /\ clientMime' = "ascii"
  BY <1>1, CommandAgrees DEF WriteMail, Commands, Mails, Mime
<1>2. CASE WriteLine("mail8", "free") /\ clientMime' = "utf8"
  BY <1>2, CommandAgrees DEF WriteMail, Commands, Mails, Mime
<1> QED
  BY <1>1, <1>2 DEF WriteMail

\* So are RSET and DATA.
LEMMA RsetAgrees == LinesTypeOK /\ Agrees /\ (WriteRset \/ WriteData) => Agrees'
<1> SUFFICES ASSUME LinesTypeOK, Agrees, WriteRset \/ WriteData PROVE Agrees'
  OBVIOUS
<1>1. CASE WriteRset
  BY <1>1, CommandAgrees DEF WriteRset, Commands, Mails
<1>2. CASE WriteData
  BY <1>2, CommandAgrees DEF WriteData, Commands, Mails
<1> QED
  BY <1>1, <1>2

\* A reply tells the client what the server has read.
LEMMA ReplyAgrees == LinesTypeOK /\ Agrees /\ GetReply => Agrees'
<1> SUFFICES ASSUME LinesTypeOK, Agrees, GetReply PROVE Agrees'
  OBVIOUS
<1>1. Waits /\ dataReply # "none"
  BY DEF GetReply, Agrees, ClientAgrees
<1>2. /\ <<written, clientMime, filled, ascii, utf8, mime, transport, phase, read, stored>>'
           = <<written, clientMime, filled, ascii, utf8, mime, transport, phase, read, stored>>
      /\ dataReply' = "none" /\ client' = IF dataReply = "354" THEN "writes" ELSE "free"
  BY DEF GetReply, serverVars
<1>3. read \in Nat
  BY DEF LinesTypeOK
<1>4. Unread' = {} /\ read = LastLine
  BY <1>1, <1>2, <1>3 DEF Waits, Unread, LastLine
<1>5. Unread' = Unread /\ LastLine' = LastLine
  BY <1>2 DEF Unread, LastLine
<1>6. ClientAgrees'
  BY <1>1, <1>2, <1>4 DEF Waits, ClientAgrees, Writes, Free
<1>7. MimeAgrees'
  BY <1>2, <1>5 DEF Agrees, MimeAgrees, NoMailAfter
<1> QED
  BY <1>2, <1>5, <1>6, <1>7 DEF Agrees, Reader, OtherReader

\* Text is written after DATA was answered.
LEMMA TextAgrees == LinesTypeOK /\ Agrees /\ WriteText => Agrees'
<1> SUFFICES ASSUME LinesTypeOK, Agrees, WriteText PROVE Agrees'
  OBVIOUS
<1>0. "text" \in Commands \cup DataLines /\ WriteLine("text", "writes") /\ clientMime' = clientMime
      /\ "text" \notin Mails
  BY DEF DataLines, WriteText, Mails
<1>1. /\ LastLine' = LastLine + 1 /\ written'[LastLine'] = "text"
      /\ \A i \in 1..LastLine : written'[i] = written[i]
      /\ Unread' = Unread \cup {LastLine + 1} /\ LastLine + 1 \notin Unread
      /\ Unread \subseteq 1..LastLine
      /\ LastLine \in Nat
  BY <1>0, Appended
<1>2. Writes
  BY DEF WriteText, Agrees, ClientAgrees
<1>3. Writes' /\ client' = "writes"
  BY <1>0, <1>1, <1>2 DEF Writes, WriteLine, serverVars
<1> QED
  BY <1>0, <1>2, <1>3, LineAgrees DEF Agrees, ClientAgrees, Writes

\* The dot ends the text.
LEMMA WriteDotAgrees == LinesTypeOK /\ Agrees /\ WriteDot => Agrees'
<1> SUFFICES ASSUME LinesTypeOK, Agrees, WriteDot PROVE Agrees'
  OBVIOUS
<1>0. "dot" \in Commands \cup DataLines /\ WriteLine("dot", "done") /\ clientMime' = clientMime
      /\ stored' = FALSE /\ "dot" \notin Mails
  BY DEF DataLines, WriteDot, Mails
<1>1. /\ LastLine' = LastLine + 1 /\ written'[LastLine'] = "dot"
      /\ \A i \in 1..LastLine : written'[i] = written[i]
      /\ Unread' = Unread \cup {LastLine + 1} /\ LastLine + 1 \notin Unread
      /\ Unread \subseteq 1..LastLine
      /\ LastLine \in Nat
  BY <1>0, Appended
<1>2. Writes
  BY DEF WriteDot, Agrees, ClientAgrees
<1>3. DotWaits(LastLine)'
  BY <1>1, <1>2 DEF DotWaits, Writes
<1>4. Done' /\ client' = "done"
  BY <1>0, <1>1, <1>2, <1>3 DEF Writes, Done, WriteLine, serverVars
<1> QED
  BY <1>0, <1>2, <1>4, LineAgrees DEF Agrees, ClientAgrees, Writes

\* With the answer to the dot everything is read; without it the transaction must be an ASCII one.
LEMMA GoOnAgrees == LinesTypeOK /\ Agrees /\ GoOn /\ ~ahead' => Agrees'
<1> SUFFICES ASSUME LinesTypeOK, Agrees, GoOn, ~ahead' PROVE Agrees'
  OBVIOUS
<1>1. Done
  BY DEF GoOn, Agrees, ClientAgrees
<1>2. /\ <<written, clientMime, filled, ascii, utf8, mime, transport, phase, read, stored, dataReply>>'
           = <<written, clientMime, filled, ascii, utf8, mime, transport, phase, read, stored, dataReply>>
      /\ client' = "free" /\ (stored \/ clientMime = "ascii")
  BY DEF GoOn, serverVars, LinesTypeOK
<1>3. Unread' = Unread /\ LastLine' = LastLine
  BY <1>2 DEF Unread, LastLine
<1>4. read \in Nat /\ phase \in {"command", "data"} /\ LastLine \in Nat
  BY DEF LinesTypeOK, LastLine
<1>5. Free'
  <2>1. CASE phase = "command"
    BY <1>1, <1>2, <1>3, <1>4, <2>1 DEF Done, Free, Unread
  <2>2. CASE phase = "data"
    <3>1. DotWaits(LastLine) /\ LastLine \in Unread /\ mime = "ascii" /\ dataReply = "none"
      BY <1>1, <1>2, <2>2 DEF Done
    <3>2. \A i \in Unread : written[i] # "data"
      BY <3>1, <1>4 DEF DotWaits, Unread
    <3>3. DotWaits(LastLine)'
      BY <3>1, <1>2, <1>3 DEF DotWaits
    <3> QED
      BY <3>1, <3>2, <3>3, <1>2, <1>3 DEF Free
  <2> QED
    BY <1>4, <2>1, <2>2
<1>6. MimeAgrees'
  BY <1>2, <1>3 DEF Agrees, MimeAgrees, NoMailAfter
<1> QED
  BY <1>2, <1>3, <1>5, <1>6 DEF Agrees, ClientAgrees, Reader, OtherReader

-----------------------------------------------------------------------------
(* The lines that the server reads                                         *)

\* A reader that has nothing takes what comes next in the stream.
LEMMA FillAgrees == LinesTypeOK /\ Agrees /\ Fill => Agrees'
<1> SUFFICES ASSUME LinesTypeOK, Agrees, Fill PROVE Agrees'
  OBVIOUS
<1>1. PICK upTo \in (filled + 1)..Len(written) :
        /\ IF mime = "ascii" THEN ascii' = (filled + 1)..upTo /\ UNCHANGED utf8
                             ELSE utf8' = (filled + 1)..upTo /\ UNCHANGED ascii
        /\ filled' = upTo
  BY DEF Fill
<1>2. <<written, client, clientMime, mime, transport, phase, read, dataReply, stored>>'
        = <<written, client, clientMime, mime, transport, phase, read, dataReply, stored>>
  BY DEF Fill, clientVars
<1>3. read = filled
  BY DEF Agrees, Fill, LinesTypeOK
<1>4. Reader' = (filled + 1)..upTo /\ OtherReader' = OtherReader
  BY <1>1, <1>2 DEF Reader, OtherReader
<1>5. Unread' = Unread /\ LastLine' = LastLine
  BY <1>2 DEF Unread, LastLine
<1>6. ClientAgrees'
  BY <1>2, <1>5 DEF Agrees, ClientAgrees, Free, Waits, Writes, Done, DotWaits
<1>7. MimeAgrees'
  BY <1>2, <1>5 DEF Agrees, MimeAgrees, NoMailAfter
<1> QED
  BY <1>1, <1>2, <1>3, <1>4, <1>5, <1>6, <1>7 DEF Agrees

\* The type of the body that will be known once all is read, over one line read.
LEMMA ReadMimeAgrees ==
  ASSUME LinesTypeOK, Agrees, NEW i \in Reader, ReadLine(i),
         IF written[i] \in Mails THEN transport' = Mime(written[i])
                                 ELSE transport' \in {"none", transport}
  PROVE  MimeAgrees'
<1>1. /\ i = read + 1 /\ i \in Unread /\ read' = i /\ Unread' = Unread \ {i}
      /\ \A j \in Unread' : i < j
      /\ LastLine' = LastLine /\ written' = written /\ filled' = filled
      /\ (mime = "ascii" => ascii' = (read' + 1)..filled' /\ utf8' = {})
      /\ (mime # "ascii" => utf8' = (read' + 1)..filled' /\ ascii' = {})
      /\ Unread \subseteq 1..LastLine /\ LastLine \in Nat
  BY Returned
<1>2. clientMime' = clientMime
  BY DEF ReadLine, clientVars
<1>3. \A j \in Unread : j # i => j > i
  BY <1>1
<1>4. ASSUME NEW j \in Unread', written'[j] \in Mails, NoMailAfter(j)'
      PROVE  Mime(written'[j]) = clientMime'
  <2>1. NoMailAfter(j)
    BY <1>1, <1>3, <1>4 DEF NoMailAfter
  <2> QED
    BY <2>1, <1>1, <1>2, <1>4 DEF Agrees, MimeAgrees
<1>5. ASSUME NoMailAfter(read)' PROVE transport' \in {"none", clientMime'}
  <2>1. NoMailAfter(i)
    BY <1>1, <1>5 DEF NoMailAfter
  <2>2. CASE written[i] \in Mails
    BY <2>1, <2>2, <1>1, <1>2 DEF Agrees, MimeAgrees
  <2>3. CASE written[i] \notin Mails
    <3>1. NoMailAfter(read)
      BY <2>1, <2>3, <1>1, <1>3 DEF NoMailAfter
    <3> QED
      BY <3>1, <2>3, <1>2 DEF Agrees, MimeAgrees
  <2> QED
    BY <2>2, <2>3
<1> QED
  BY <1>4, <1>5 DEF MimeAgrees

\* A command is read while no data is expected: by ReadMail and ReadOther, not yet DATA.
LEMMA CommandRead ==
  ASSUME LinesTypeOK, Agrees, phase = "command", NEW i \in Reader, ReadLine(i),
         written[i] # "data",
         UNCHANGED <<mime, phase, dataReply, stored>>,
         IF written[i] \in Mails THEN transport' = Mime(written[i])
                                 ELSE transport' \in {"none", transport}
  PROVE  Agrees'
<1>1. /\ i = read + 1 /\ i \in Unread /\ read' = i /\ Unread' = Unread \ {i}
      /\ \A j \in Unread' : i < j
      /\ LastLine' = LastLine /\ written' = written /\ filled' = filled
      /\ (mime = "ascii" => ascii' = (read' + 1)..filled' /\ utf8' = {})
      /\ (mime # "ascii" => utf8' = (read' + 1)..filled' /\ ascii' = {})
      /\ Unread \subseteq 1..LastLine /\ LastLine \in Nat
  BY Returned
<1>2. client' = client /\ clientMime' = clientMime
  BY DEF ReadLine, clientVars
<1>3. read # LastLine /\ (LastLine \in Unread /\ written[LastLine] = "data" => LastLine \in Unread')
  BY <1>1 DEF LinesTypeOK
<1>4. ClientAgrees'
  BY <1>1, <1>2, <1>3 DEF Agrees, ClientAgrees, Free, Waits, Writes, Done
<1>5. Reader' = ((read + 1)..filled)' /\ OtherReader' = {}
  BY <1>1 DEF Reader, OtherReader
<1>6. mime' = "ascii" /\ \A j \in Unread' : written'[j] \in Commands
  BY <1>1 DEF Agrees
<1> QED
  BY <1>4, <1>5, <1>6, ReadMimeAgrees DEF Agrees

\* The server reads commands as such.
LEMMA ReadMailAgrees == LinesTypeOK /\ Agrees /\ (ReadMail \/ ReadOther) => Agrees'
<1> SUFFICES ASSUME LinesTypeOK, Agrees, ReadMail \/ ReadOther PROVE Agrees'
  OBVIOUS
<1>1. CASE ReadMail
  BY <1>1, CommandRead DEF ReadMail, Mails
<1>2. CASE ReadOther
  BY <1>2, CommandRead DEF ReadOther, DataLines, Mails
<1> QED
  BY <1>1, <1>2

\* DATA is the last line there is: both readers are empty when the reader changes.
LEMMA ReadDataAgrees == LinesTypeOK /\ Agrees /\ ReadData => Agrees'
<1> SUFFICES ASSUME LinesTypeOK, Agrees, ReadData PROVE Agrees'
  OBVIOUS
<1>0. PICK i \in Reader : ReadLine(i) /\ written[i] = "data"
  BY DEF ReadData
<1>1. /\ i = read + 1 /\ i \in Unread /\ read' = i /\ Unread' = Unread \ {i}
      /\ \A j \in Unread' : i < j
      /\ LastLine' = LastLine /\ written' = written /\ filled' = filled
      /\ (mime = "ascii" => ascii' = (read' + 1)..filled' /\ utf8' = {})
      /\ (mime # "ascii" => utf8' = (read' + 1)..filled' /\ ascii' = {})
      /\ Unread \subseteq 1..LastLine /\ LastLine \in Nat
  BY <1>0, Returned
<1>2. client' = client /\ clientMime' = clientMime
  BY <1>0 DEF ReadLine, clientVars
<1>3. phase = "command" /\ mime = "ascii" /\ transport' = transport /\ stored' = stored
  BY DEF ReadData, Agrees
<1>4. client = "waits" /\ i = LastLine
  BY <1>0, <1>1, <1>3 DEF Agrees, ClientAgrees, Free, Waits, Writes, Done, LinesTypeOK
<1>5. Unread' = {} /\ read' = LastLine'
  BY <1>1, <1>4 DEF Unread
<1>6. ascii' = {} /\ utf8' = {} /\ (read' + 1)..filled' = {}
  BY <1>1, <1>3, <1>4 DEF LinesTypeOK, LastLine
<1>7. Reader' = ((read + 1)..filled)' /\ OtherReader' = {}
  BY <1>6 DEF Reader, OtherReader
<1>8. MimeAgrees'
  BY <1>0, <1>3, ReadMimeAgrees DEF Mails
<1>9. CASE dataReply' = "503" /\ mime' = mime /\ phase' = phase
  BY <1>2, <1>3, <1>4, <1>5, <1>7, <1>8, <1>9 DEF Agrees, ClientAgrees, Waits
<1>10. CASE transport # "none" /\ dataReply' = "354" /\ mime' = transport /\ phase' = "data"
  <2>1. NoMailAfter(read)'
    BY <1>5 DEF NoMailAfter
  <2>2. mime' = clientMime'
    BY <2>1, <1>3, <1>8, <1>10 DEF MimeAgrees
  <2> QED
    BY <2>2, <1>2, <1>4, <1>5, <1>7, <1>8, <1>10 DEF Agrees, ClientAgrees, Waits
<1> QED
  BY <1>9, <1>10 DEF ReadData

\* It reads text as such.
LEMMA ReadTextAgrees == LinesTypeOK /\ Agrees /\ ReadText => Agrees'
<1> SUFFICES ASSUME LinesTypeOK, Agrees, ReadText PROVE Agrees'
  OBVIOUS
<1>0. PICK i \in Reader : ReadLine(i) /\ written[i] # "dot"
  BY DEF ReadText
<1>1. /\ i = read + 1 /\ i \in Unread /\ read' = i /\ Unread' = Unread \ {i}
      /\ \A j \in Unread' : i < j
      /\ LastLine' = LastLine /\ written' = written /\ filled' = filled
      /\ (mime = "ascii" => ascii' = (read' + 1)..filled' /\ utf8' = {})
      /\ (mime # "ascii" => utf8' = (read' + 1)..filled' /\ ascii' = {})
      /\ Unread \subseteq 1..LastLine /\ LastLine \in Nat
  BY <1>0, Returned
<1>2. client' = client /\ clientMime' = clientMime
  BY <1>0 DEF ReadLine, clientVars
<1>3. phase = "data" /\ <<mime, transport, phase, dataReply, stored>>'
                           = <<mime, transport, phase, dataReply, stored>>
  BY DEF ReadText
<1>4. \A d \in Unread : DotWaits(d) => d \in Unread' /\ DotWaits(d)'
  BY <1>0, <1>1 DEF DotWaits
<1>5. read # LastLine
  BY <1>1
<1>6. written[i] \notin Mails
  <2>1. CASE written[i] = "text"
    BY <2>1 DEF Mails
  <2>2. CASE written[i] # "text"
    <3>1. \A d \in Unread : ~DotWaits(d)
      BY <1>0, <1>1, <2>2 DEF DotWaits
    <3>2. client \in {"free", "waits", "writes", "done"}
      BY DEF LinesTypeOK
    <3> QED
      BY <3>1, <3>2, <2>2, <1>1, <1>3, <1>5 DEF Agrees, ClientAgrees, Free, Waits, Writes, Done
  <2> QED
    BY <2>1, <2>2
<1>7. ClientAgrees'
  BY <1>1, <1>2, <1>3, <1>4, <1>5 DEF Agrees, ClientAgrees, Free, Waits, Writes, Done
<1>8. Reader' = ((read + 1)..filled)' /\ OtherReader' = {}
  BY <1>1, <1>3 DEF Reader, OtherReader
<1>9. MimeAgrees'
  BY <1>0, <1>3, <1>6, ReadMimeAgrees
<1> QED
  BY <1>3, <1>7, <1>8, <1>9 DEF Agrees

\* Behind the dot there is nothing, or the reader stays the same one.
LEMMA ReadDotAgrees == LinesTypeOK /\ Agrees /\ ReadDot => Agrees'
<1> SUFFICES ASSUME LinesTypeOK, Agrees, ReadDot PROVE Agrees'
  OBVIOUS
<1>0. PICK i \in Reader : ReadLine(i) /\ written[i] = "dot"
  BY DEF ReadDot
<1>1. /\ i = read + 1 /\ i \in Unread /\ read' = i /\ Unread' = Unread \ {i}
      /\ \A j \in Unread' : i < j
      /\ LastLine' = LastLine /\ written' = written /\ filled' = filled
      /\ (mime = "ascii" => ascii' = (read' + 1)..filled' /\ utf8' = {})
      /\ (mime # "ascii" => utf8' = (read' + 1)..filled' /\ ascii' = {})
      /\ Unread \subseteq 1..LastLine /\ LastLine \in Nat
  BY <1>0, Returned
<1>2. client' = client /\ clientMime' = clientMime
  BY <1>0 DEF ReadLine, clientVars
<1>3. phase = "data" /\ mime' = "ascii" /\ transport' = "none" /\ phase' = "command"
      /\ dataReply' = dataReply
  BY DEF ReadDot
<1>4. \A d \in Unread : DotWaits(d) => d = i /\ \A j \in Unread' : written'[j] \in Commands
  BY <1>0, <1>1 DEF DotWaits
<1>5. read # LastLine /\ client \in {"free", "waits", "writes", "done"} /\ filled \in 0..LastLine
  BY <1>1 DEF LinesTypeOK, LastLine
<1>6. CASE client \in {"free", "waits"}
  <2>1. mime = "ascii" /\ \E d \in Unread : DotWaits(d)
    BY <1>3, <1>5, <1>6 DEF Agrees, ClientAgrees, Free, Waits
  <2>2. Reader' = ((read + 1)..filled)' /\ OtherReader' = {}
    BY <2>1, <1>1, <1>3 DEF Reader, OtherReader
  <2>3. \A j \in Unread' : written'[j] \in Commands
    BY <2>1, <1>4
  <2>4. ClientAgrees'
    BY <1>0, <1>1, <1>2, <1>3, <1>5, <1>6 DEF Agrees, ClientAgrees, Free, Waits
  <2> QED
    BY <2>2, <2>3, <2>4, <1>0, <1>3, ReadMimeAgrees DEF Agrees, Mails
<1>7. CASE client = "done"
  <2>1. i = LastLine /\ dataReply = "none"
    BY <1>3, <1>4, <1>7 DEF Agrees, ClientAgrees, Done
  <2>2. Unread' = {} /\ read' = LastLine'
    <3>1. Unread = {i}
      BY <2>1, <1>1 DEF Unread
    <3> QED
      BY <3>1, <2>1, <1>1
  <2>5. (read' + 1)..filled' = {}
    BY <2>1, <1>1, <1>5
  <2>3. Reader' = ((read + 1)..filled)' /\ OtherReader' = {}
    BY <2>5, <1>1 DEF Reader, OtherReader
  <2>4. ClientAgrees'
    BY <2>1, <2>2, <1>2, <1>3, <1>7 DEF ClientAgrees, Done
  <2> QED
    BY <2>2, <2>3, <2>4, <1>0, <1>3, ReadMimeAgrees DEF Agrees, Mails
<1>8. CASE client = "writes"
  BY <1>0, <1>1, <1>8 DEF Agrees, ClientAgrees, Writes
<1> QED
  BY <1>5, <1>6, <1>7, <1>8

-----------------------------------------------------------------------------
(* The theorems                                                            *)

\* Once the client has gone on too early it has done so for good.
LEMMA AheadStays == LinesTypeOK /\ ahead /\ [LinesNext]_linesVars => ahead'
<1> SUFFICES ASSUME ahead, [LinesNext]_linesVars PROVE ahead'
  OBVIOUS
<1> QED
  BY DEF LinesNext, linesVars, clientVars, WriteMail, WriteRset, WriteData, WriteText,
         WriteDot, WriteLine, GetReply, GoOn, Fill, ReadMail, ReadOther,
         ReadData, ReadText, ReadDot, ReadLine

\* The inductive invariant is kept by every line written and every line read.
LEMMA LinesInductive == IInv /\ [LinesNext]_linesVars => IInv'
<1> SUFFICES ASSUME IInv, [LinesNext]_linesVars PROVE IInv'
  OBVIOUS
<1>1. LinesTypeOK /\ LinesTypeOK'
  BY TypeStep DEF IInv
<1>2. CASE ahead
  BY <1>1, <1>2, AheadStays DEF IInv
<1>3. CASE ahead'
  BY <1>1, <1>3 DEF IInv
<1>4. CASE ~ahead /\ ~ahead'
  <2>1. Agrees
    BY <1>4 DEF IInv
  <2>2. ASSUME UNCHANGED linesVars PROVE Agrees'
    BY <2>1, <2>2 DEF linesVars, clientVars, serverVars, Agrees, ClientAgrees, Free, Waits, Writes, Done,
       DotWaits, MimeAgrees, NoMailAfter, Reader, OtherReader, Unread, LastLine
  <2>3. Agrees'
    BY <1>1, <1>4, <2>1, <2>2, MailAgrees, RsetAgrees, ReplyAgrees, TextAgrees, WriteDotAgrees,
       GoOnAgrees, FillAgrees, ReadMailAgrees, ReadDataAgrees, ReadTextAgrees, ReadDotAgrees
       DEF LinesNext
  <2> QED
    BY <1>1, <2>3 DEF IInv
<1> QED
  BY <1>2, <1>3, <1>4

\* Nothing is written yet.
LEMMA LinesInitial == LinesInit => IInv
<1> SUFFICES ASSUME LinesInit PROVE IInv
  OBVIOUS
<1>1. written = <<>> /\ Len(written) = 0 /\ Unread = {} /\ 1..0 = {}
  BY DEF LinesInit, Unread, LastLine
<1>2. LinesTypeOK
  <2>1. written \in Seq(Commands \cup DataLines)
    BY <1>1
  <2>2. filled = 0 /\ read = 0 /\ ascii = {} /\ utf8 = {} /\ 0 \in 0..0
    BY DEF LinesInit
  <2> QED
    BY <1>1, <2>1, <2>2 DEF LinesInit, LinesTypeOK
<1>3. Agrees
  BY <1>1 DEF LinesInit, Agrees, ClientAgrees, Free, MimeAgrees, NoMailAfter, Reader, OtherReader
<1> QED
  BY <1>2, <1>3 DEF IInv

\* The invariant holds in every state.
LEMMA LinesInvariant == LinesSpec => []IInv
  BY LinesInitial, LinesInductive, PTL DEF LinesSpec

\* The lines of a connection, of any number, and the state of the reading loop have their types.
THEOREM LinesType == LinesSpec => []LinesTypeOK
<1>1. IInv => LinesTypeOK
  BY DEF IInv
<1> QED
  BY <1>1, LinesInvariant, PTL

\* ReadLineAsync with its two readers takes the lines of one stream, none left behind in the
\* reader that is not in use.
THEOREM ReadersAreOneStream == LinesSpec => []OneStream
<1>1. IInv => OneStream
  BY DEF IInv, Agrees, OneStream
<1> QED
  BY <1>1, LinesInvariant, PTL

\* The line that HandleSmtpConnection reads next is one of the message if and only if it is in the
\* loop over the data.
THEOREM LinesTakenAsMeant == LinesSpec => []LinesAreTakenAsMeant
<1>1. IInv => LinesAreTakenAsMeant
  <2> SUFFICES ASSUME IInv, ~ahead, read < Len(written)
               PROVE  written[read + 1] \in DataLines <=> phase = "data"
    BY DEF LinesAreTakenAsMeant
  <2>1. LinesTypeOK /\ Agrees /\ read + 1 \in Unread /\ read # LastLine
    BY DEF IInv, LinesTypeOK, Unread, LastLine
  <2>2. CASE phase = "command"
    BY <2>1, <2>2 DEF Agrees, Commands, DataLines
  <2>3. CASE phase = "data"
    <3>1. \A d \in Unread : DotWaits(d) => written[read + 1] \in DataLines
      BY <2>1 DEF DotWaits, DataLines, Unread, LinesTypeOK
    <3>2. client \in {"free", "waits", "writes", "done"}
      BY <2>1 DEF LinesTypeOK
    <3> QED
      BY <3>1, <3>2, <2>1, <2>3 DEF Agrees, ClientAgrees, Free, Waits, Writes, Done, DataLines
  <2> QED
    BY <2>1, <2>2, <2>3 DEF LinesTypeOK
<1> QED
  BY <1>1, LinesInvariant, PTL

=============================================================================
