------------------------- MODULE SmtpDialogueProofs -------------------------
(***************************************************************************)
(* One connection to a remote server, for any messages and any number of   *)
(* them that it may carry: replies never get out of step with the          *)
(* commands, what is recorded for a message is what the server did with    *)
(* it, and a connection in use is marked.                                  *)
(***************************************************************************)
EXTENDS SmtpDialogue, FiniteSetTheorems, TLAPS

Body(m) == [verb |-> "BODY", about |-> m]
Reading == {"read", "readMail", "readRcpt"}
Live == pc.verb # "dropped" /\ (connected \/ pc.stage \in Reading)
Lost(m) == m \in cut \cup broken
Taken(m) == \E i \in DOMAIN took : took[i].from = m
OtherThanQuit(lines) == \A i \in 1..Len(lines) : lines[i].verb # "QUIT"
OtherThanDot(lines) == \A i \in 1..Len(lines) : lines[i].verb # "DOT"
OnlyQuits(lines) == \A i \in DOMAIN lines : lines[i].verb = "QUIT"

\* Where the worker can be.
Control ==
  /\ pc.stage = "begin" => pc.verb \in {"EHLO", "RSET", "MAIL", "RCPT", "DATA"}
  /\ pc.stage = "write" => pc.verb \in Verbs \ {"greeting", "QUIT"}
  /\ pc.stage = "read" => pc.verb \in Verbs \ {"greeting", "BODY", "QUIT"}
  /\ pc.stage \in {"readMail", "readRcpt"} => pc.verb = "DATA"
  /\ pc.stage = "end" <=> pc.verb \in {"new", "pooled", "dropped", "QUIT"}
  /\ pc.stage = "read" /\ pc.verb \in {"MAIL", "RCPT"} => ~canPipeline
  /\ IF InSession THEN msg \in tried ELSE msg = None
  /\ connected /\ pc.verb \notin {"BODY", "DOT", "QUIT", "dropped"} => dataCommands < MaxMessages
  /\ pc.verb = "new" => active /\ collector = "looks" /\ leaving = 0 /\ sent = <<>> /\ server = NoMail

\* The commands whose replies the worker has not read.
Awaited ==
  CASE pc.verb = "new" -> <<[verb |-> "greeting", about |-> None]>>
    [] pc.stage = "read" -> <<Cmd(pc.verb)>>
    [] pc.stage = "readMail" -> <<Cmd("MAIL"), Cmd("RCPT"), Cmd("DATA")>>
    [] pc.stage = "readRcpt" -> <<Cmd("RCPT"), Cmd("DATA")>>
    [] canPipeline /\ pc.verb = "RCPT" /\ pc.stage \in {"begin", "write"} -> <<Cmd("MAIL")>>
    [] canPipeline /\ pc.verb = "DATA" /\ pc.stage \in {"begin", "write"} -> <<Cmd("MAIL"), Cmd("RCPT")>>
    [] OTHER -> <<>>

\* The replies on the way are the first of those, in order ...
RepliesInOrder ==
  Live => /\ Len(replies) <= Len(Awaited)
          /\ \A i \in 1..Len(replies) : replies[i].to = Awaited[i]

\* ... and the commands on the way are the rest, up to a QUIT of the idle thread, which the
\* server does not get past.
RestOnTheWay ==
  /\ \A i \in 1..Len(sent) :
       \/ \E j \in 1..i : sent[j].verb = "QUIT"
       \/ /\ Len(replies) + i <= Len(Awaited)
          /\ sent[i] = Awaited[Len(replies) + i]
  /\ OtherThanQuit(sent) => Len(replies) + Len(sent) = Len(Awaited)

CommandsInOrder == Live /\ ~server.data /\ ~ended => RestOnTheWay

DataIsLast ==
  Live => \A k \in 1..Len(sent) : sent[k].verb = "DATA" =>
    /\ pc.verb = "DATA" /\ pc.stage \in Reading
    /\ \A j \in 1..Len(sent) : j > k => sent[j].verb = "QUIT"

\* A QUIT that is not of the session stops the server before it.
QuitsAreCut ==
  Live /\ InSession /\ msg \notin cut =>
    \A i \in 1..Len(sent) : sent[i].verb = "QUIT" => ~server.data /\ sent[1].verb = "QUIT"

\* The transaction at the server is that of the session.
Envelope ==
  /\ ~server.data => server.body = <<>>
  /\ Live /\ InSession /\ ~server.data =>
       /\ server.from \in {None, msg} /\ server.to \in {None, msg}
       /\ server.to # None => server.from # None
  /\ connected /\ pc.verb \in {"pooled", "QUIT"} => server = NoMail
  /\ connected /\ At("DOT", "read") /\ replies # <<>> => server = NoMail

\* The server waits for the data, and none has been sent.
Empty(m) ==
  /\ server.data /\ server.from = m /\ server.to = m
  /\ OnlyQuits(server.body) /\ OnlyQuits(sent)
  /\ m \notin cut => server.body = <<>> /\ sent = <<>>

\* The data was sent: the server has it, or it is one of the first n lines on the way.
Whole(m, n) ==
  /\ server.data /\ server.from = m /\ server.to = m
  /\ \/ /\ OneBody(m, server.body)
        /\ \A j \in 1..n : sent[j].verb = "QUIT"
     \/ /\ OnlyQuits(server.body)
        /\ \E i \in 1..n : /\ sent[i] = Body(m)
                           /\ \A j \in 1..n : j # i => sent[j].verb = "QUIT"
  /\ m \notin cut => Len(server.body) + n = 1

\* The server and the worker agree that it is the data that comes.
DataAgreed ==
  Live /\ ~ended =>
    /\ server.data =>
         \/ pc.verb \in {"BODY", "DOT"} /\ replies = <<>>
         \/ /\ pc.verb = "DATA" /\ pc.stage \in Reading
            /\ Len(replies) = Len(Awaited)
            /\ Empty(msg)
    /\ replies # <<>> /\ replies[Len(replies)].code = "354" => server.data
    /\ pc.verb = "BODY" => Empty(msg)
    /\ At("DOT", "write") => Whole(msg, Len(sent))

DotIsLast ==
  \A k \in 1..Len(sent) : sent[k].verb = "DOT" =>
    /\ Whole(sent[k].about, k - 1)
    /\ \A j \in 1..Len(sent) : j > k => sent[j].verb = "QUIT"
    /\ sent[k].about \in tried /\ ~Taken(sent[k].about)
    /\ \/ At("DOT", "read") /\ msg = sent[k].about
       \/ /\ pc.verb = "dropped"
          /\ outcome[sent[k].about] = {"defer"} /\ Lost(sent[k].about)

\* What the server took.
TookWell ==
  /\ \A i \in DOMAIN took : TakenAs(took[i].from, took[i]) /\ took[i].from \in tried
  /\ \A i, j \in DOMAIN took : took[i].from = took[j].from => i = j

\* What is recorded of messages that are still to come, of the one in session, and of others.
Records ==
  /\ \A m \in Messages \ tried : outcome[m] = {}
  /\ InSession /\ pc.verb # "QUIT" => outcome[msg] = {}
  /\ InSession /\ pc.verb # "QUIT" /\ ~At("DOT", "read") => ~Taken(msg)
  /\ At("DOT", "read") /\ connected =>
       IF replies = <<>> THEN Taken(msg) => ended
                         ELSE Taken(msg) <=> Head(replies).code = "2xx"
  /\ pc.verb = "QUIT" => outcome[msg] = {"success"} /\ Taken(msg)
  /\ InSession /\ (ended \/ ~connected) => Lost(msg)
  /\ \A m \in tried \ {msg} :
       /\ "success" \in outcome[m] => Taken(m)
       /\ "fail" \in outcome[m] => ~Taken(m)
       /\ "defer" \in outcome[m] /\ Taken(m) => Lost(m)
       /\ outcome[m] = {} => Lost(m)

Silent == ended => sent = <<>>

Inv ==
  /\ TypeOK /\ Control /\ Silent /\ RepliesInOrder /\ CommandsInOrder /\ DataIsLast
  /\ QuitsAreCut /\ Envelope /\ DataAgreed /\ DotIsLast /\ TookWell /\ Records

-----------------------------------------------------------------------------
(* Facts about single states                                               *)

\* Commands have their type.
LEMMA CmdType ==
  ASSUME TypeOK, NEW verb \in Verbs
  PROVE  Cmd(verb) \in Command
  BY DEF TypeOK, Cmd, Command

\* What is awaited are commands.
LEMMA AwaitedType ==
  ASSUME TypeOK, Control
  PROVE  Awaited \in Seq(Command)
  <1>1. \A verb \in Verbs : Cmd(verb) \in Command
    BY CmdType
  <1>2. [verb |-> "greeting", about |-> None] \in Command
    BY DEF Command, Verbs
  <1>3. pc.stage = "read" => pc.verb \in Verbs
    BY DEF Control
  <1>4. {"MAIL", "RCPT", "DATA"} \subseteq Verbs
    BY DEF Verbs
  <1> HIDE DEF Command
  <1> QED  BY <1>1, <1>2, <1>3, <1>4, Z3 DEF Awaited

\* A sequence of one element.
LEMMA OneElement ==
  ASSUME NEW S, NEW s \in Seq(S), s # <<>>, Len(s) <= 1
  PROVE  Len(s) = 1 /\ Head(s) = s[1] /\ Tail(s) = <<>>
  <1>1. PICK n \in Nat : n = Len(s)
    OBVIOUS
  <1>2. n # 0
    BY <1>1
  <1>3. n = 1
    BY <1>1, <1>2
  <1>4. Len(s) = 1
    BY <1>1, <1>3
  <1>5. Len(Tail(s)) = n - 1 /\ Tail(s) \in Seq(S) /\ Head(s) = s[1]
    BY <1>1, <1>2
  <1>6. Len(Tail(s)) = 0
    BY <1>3, <1>5
  <1>7. Tail(s) = <<>>
    BY <1>5, <1>6
  <1> QED  BY <1>4, <1>5, <1>7

\* A dot is on the way only while its reply is awaited, or after that was given up.
LEMMA NoDot ==
  ASSUME DotIsLast, ~At("DOT", "read"), pc.verb # "dropped"
  PROVE  \A k \in 1..Len(sent) : sent[k].verb # "DOT"
  BY DEF DotIsLast

\* Nor is it once its reply has come.
LEMMA NoDotAfterReply ==
  ASSUME DotIsLast, DataAgreed, Silent, Live, At("DOT", "read"), replies # <<>>
  PROVE  OtherThanDot(sent)
  <1> SUFFICES ASSUME NEW k \in 1..Len(sent), sent[k].verb = "DOT"
               PROVE  FALSE
    BY DEF OtherThanDot
  <1>1. server.data
    BY DEF DotIsLast, Whole
  <1>2. ~ended
    BY DEF Silent
  <1> QED  BY <1>1, <1>2 DEF DataAgreed, At

-----------------------------------------------------------------------------
(* What kinds of steps preserve                                            *)

\* A reply is read, or there is none to come.
LEMMA ReadsInOrder ==
  ASSUME TypeOK, RepliesInOrder, CommandsInOrder, Silent, NEW code \in Answers, Reads(code),
         UNCHANGED <<sent, server, connected, ended>>, pc.verb # "dropped",
         code = "none" => pc'.stage \notin Reading,
         Awaited \in Seq(Command), Awaited # <<>>, Awaited' = Tail(Awaited)
  PROVE  RepliesInOrder' /\ CommandsInOrder'
  <1>1. CASE connected /\ replies # <<>> /\ replies' = Tail(replies)
    <2> DEFINE R == [to : Command, code : Codes]
    <2>1. replies \in Seq(R) /\ sent \in Seq(Command)
      BY DEF TypeOK
    <2>2. Live
      BY <1>1 DEF Live
    <2> HIDE DEF R
    <2>3. /\ Len(replies') = Len(replies) - 1
          /\ \A i \in 1..Len(replies') : replies'[i] = replies[i + 1]
      BY <1>1, <2>1
    <2>4. /\ Len(Awaited') = Len(Awaited) - 1
          /\ \A i \in 1..Len(Awaited') : Awaited'[i] = Awaited[i + 1]
      OBVIOUS
    <2>5. RepliesInOrder'
      BY <2>1, <2>2, <2>3, <2>4 DEF RepliesInOrder
    <2>6. RestOnTheWay => RestOnTheWay'
      <3>1. Len(replies) \in Nat \ {0} /\ Len(Awaited) \in Nat /\ Len(sent) \in Nat /\ UNCHANGED sent
        BY <1>1, <2>1
      <3>2. ASSUME NEW i \in 1..Len(sent), Len(replies) + i <= Len(Awaited), sent[i] = Awaited[Len(replies) + i]
            PROVE  Len(replies') + i <= Len(Awaited') /\ sent[i] = Awaited'[Len(replies') + i]
        <4>1. Len(replies') + i \in 1..Len(Awaited')
          BY <2>3, <2>4, <3>1, <3>2
        <4>2. Awaited'[Len(replies') + i] = Awaited[(Len(replies') + i) + 1]
          BY <2>4, <4>1
        <4>3. (Len(replies') + i) + 1 = Len(replies) + i
          BY <2>3, <3>1
        <4> QED  BY <3>2, <4>1, <4>2, <4>3, <3>1
      <3>3. ASSUME Len(replies) + Len(sent) = Len(Awaited)
            PROVE  Len(replies') + Len(sent) = Len(Awaited')
        <4>1. Len(replies') = Len(replies) - 1 /\ Len(Awaited') = Len(Awaited) - 1
          BY <2>3, <2>4
        <4> QED  BY <3>1, <3>3, <4>1
      <3> QED  BY <3>1, <3>2, <3>3 DEF RestOnTheWay, OtherThanQuit
    <2> QED  BY <2>2, <2>5, <2>6 DEF CommandsInOrder
  <1>2. CASE ~connected
    BY <1>2 DEF RepliesInOrder, CommandsInOrder, Live, Reads
  <1>3. CASE ended /\ replies = <<>> /\ UNCHANGED replies
    <2>1. Len(replies') = 0
      BY <1>3
    <2>2. Len(Awaited') >= 0
      OBVIOUS
    <2> QED  BY <1>3, <2>1, <2>2 DEF RepliesInOrder, CommandsInOrder
  <1> QED  BY <1>1, <1>2, <1>3 DEF Reads

\* A command is written, and its reply awaited.
LEMMA WritesInOrder ==
  ASSUME TypeOK, RepliesInOrder, CommandsInOrder, Silent, NEW c \in Command,
         sent' = IF ended THEN sent ELSE Append(sent, c),
         UNCHANGED <<replies, server, connected, ended>>, pc.verb # "dropped", connected,
         Awaited \in Seq(Command), Awaited' = Append(Awaited, c)
  PROVE  RepliesInOrder' /\ CommandsInOrder'
  <1> DEFINE R == [to : Command, code : Codes]
  <1>1. replies \in Seq(R) /\ sent \in Seq(Command)
    BY DEF TypeOK
  <1> HIDE DEF R
  <1>2. /\ Len(Awaited') = Len(Awaited) + 1
        /\ Awaited'[Len(Awaited) + 1] = c
        /\ \A i \in 1..Len(Awaited) : Awaited'[i] = Awaited[i]
    OBVIOUS
  <1>3. Live' => Live
    BY DEF Live
  <1>4. RepliesInOrder'
    BY <1>1, <1>2, <1>3 DEF RepliesInOrder
  <1>5. CASE ended
    BY <1>4, <1>5 DEF Silent, CommandsInOrder
  <1>6. CASE ~ended
    <2>1. /\ Len(sent') = Len(sent) + 1 /\ sent'[Len(sent) + 1] = c
          /\ \A i \in 1..Len(sent) : sent'[i] = sent[i]
      BY <1>1, <1>6
    <2> SUFFICES ASSUME RestOnTheWay
                 PROVE  RestOnTheWay'
      BY <1>3, <1>4 DEF CommandsInOrder
    <2>2. ASSUME NEW i \in 1..Len(sent'), \A j \in 1..i : sent'[j].verb # "QUIT"
          PROVE  Len(replies) + i <= Len(Awaited') /\ sent'[i] = Awaited'[Len(replies) + i]
      <3>1. CASE i <= Len(sent)
        <4>1. i \in 1..Len(sent) /\ \A j \in 1..i : sent[j].verb # "QUIT"
          BY <2>1, <2>2, <3>1, <1>1
        <4>2. Len(replies) + i <= Len(Awaited) /\ sent[i] = Awaited[Len(replies) + i]
          BY <4>1 DEF RestOnTheWay
        <4> QED  BY <1>1, <1>2, <2>1, <4>1, <4>2
      <3>2. CASE i = Len(sent) + 1
        <4>1. OtherThanQuit(sent)
          BY <2>1, <2>2, <3>2, <1>1 DEF OtherThanQuit
        <4>2. Len(replies) + Len(sent) = Len(Awaited)
          BY <4>1 DEF RestOnTheWay
        <4> QED  BY <1>1, <1>2, <2>1, <3>2, <4>2
      <3>3. Len(sent) \in Nat /\ i \in 1..(Len(sent) + 1)
        BY <1>1, <2>1, <2>2
      <3>4. i <= Len(sent) \/ i = Len(sent) + 1
        BY <3>3
      <3> QED  BY <3>1, <3>2, <3>4
    <2>3. OtherThanQuit(sent') => Len(replies) + Len(sent') = Len(Awaited')
      <3>1. OtherThanQuit(sent') => OtherThanQuit(sent)
        BY <2>1, <1>1 DEF OtherThanQuit
      <3>2. OtherThanQuit(sent) => Len(replies) + Len(sent) = Len(Awaited)
        BY DEF RestOnTheWay
      <3> QED  BY <3>1, <3>2, <2>1, <1>1, <1>2
    <2>4. UNCHANGED replies
      OBVIOUS
    <2> QED  BY <2>2, <2>3, <2>4 DEF RestOnTheWay
  <1> QED  BY <1>4, <1>5, <1>6


\* The worker goes on with the session: it may have written a line, or read one.
LEMMA StayInv ==
  ASSUME TypeOK, Control, Silent, QuitsAreCut, Envelope, DotIsLast, TookWell, Records,
         pc.verb # "dropped", ~At("DOT", "read"), pc.verb # "QUIT", InSession,
         pc'.verb # "dropped", ~At("DOT", "read")', pc'.verb # "QUIT", InSession',
         pc'.verb # "pooled", Live' => Live,
         UNCHANGED <<connected, msg, outcome, tried, server, ended, took, cut, broken>>,
         \/ UNCHANGED sent
         \/ ~ended /\ \E c \in Command : c.verb \notin {"DOT", "QUIT"} /\ sent' = Append(sent, c)
  PROVE  Silent' /\ QuitsAreCut' /\ Envelope' /\ DotIsLast' /\ TookWell' /\ Records'
  <1>1. sent \in Seq(Command)
    BY DEF TypeOK
  <1>2. /\ \A k \in 1..Len(sent') :
             \/ sent'[k].verb \notin {"DOT", "QUIT"}
             \/ k \in 1..Len(sent) /\ sent'[k] = sent[k]
        /\ sent # <<>> => sent'[1] = sent[1]
    <2>1. CASE UNCHANGED sent
      BY <2>1, <1>1
    <2>2. ASSUME NEW c \in Command, c.verb \notin {"DOT", "QUIT"}, sent' = Append(sent, c)
          PROVE  /\ \A k \in 1..Len(sent') :
                      \/ sent'[k].verb \notin {"DOT", "QUIT"}
                      \/ k \in 1..Len(sent) /\ sent'[k] = sent[k]
                 /\ sent # <<>> => sent'[1] = sent[1]
      <3> HIDE DEF Command
      <3> QED  BY <2>2, <1>1
    <2> QED  BY <2>1, <2>2
  <1>3. Silent'
    BY DEF Silent
  <1>4. QuitsAreCut'
    BY <1>1, <1>2 DEF QuitsAreCut
  <1>5. Envelope'
    BY DEF Envelope
  <1>6. DotIsLast'
    BY <1>2, NoDot DEF DotIsLast
  <1>7. TookWell'
    BY DEF TookWell, TakenAs
  <1>8. Records'
    BY DEF Records, Taken, Lost
  <1> QED  BY <1>3, <1>4, <1>5, <1>6, <1>7, <1>8

\* The worker gives the message up: whatever it records is so, and stays so.
LEMMA DropInv ==
  ASSUME Inv, InSession, NEW result \in {"fail", "defer"}, Drop(result),
         UNCHANGED <<connected, helloed, canPipeline, dataCommands, sent, server, ended, took,
                     collector, cut, broken, unmarked>>,
         replies' \in Seq([to : Command, code : Codes]),
         result = "fail" => ~Taken(msg),
         Taken(msg) => Lost(msg),
         ~OtherThanDot(sent) => result = "defer" /\ Lost(msg)
  PROVE  Inv'
  <1>0. TypeOK /\ Control /\ Silent /\ Envelope /\ DotIsLast /\ TookWell /\ Records
    BY DEF Inv
  <1>1. /\ msg \in tried /\ tried \subseteq Messages /\ msg' = None /\ tried' = tried
        /\ pc' = [verb |-> "dropped", stage |-> "end"] /\ active' = FALSE /\ old' = FALSE
        /\ outcome' = [outcome EXCEPT ![msg] = @ \cup {result}]
    BY <1>0 DEF Drop, Free, Touch, TypeOK, Control
  <1>2. TypeOK'
    <2>1. outcome' \in [Messages -> SUBSET {"success", "fail", "defer"}]
      BY <1>0, <1>1 DEF TypeOK
    <2>2. pc' \in [verb : Verbs \cup {"new", "pooled", "dropped"}, stage : Stages]
      BY <1>1 DEF Stages
    <2>3. leaving' \in Nat /\ msg' \in Messages \cup {None} /\ active' \in BOOLEAN /\ old' \in BOOLEAN
      BY <1>0, <1>1 DEF Drop, TypeOK
    <2> HIDE DEF Mail, Command
    <2> QED  BY <1>0, <1>1, <2>1, <2>2, <2>3 DEF TypeOK
  <1>3. Control'
    BY <1>0, <1>1 DEF Control, InSession
  <1>4. ~Live' /\ ~InSession'
    BY <1>1 DEF Live, InSession
  <1>5. /\ Silent' /\ RepliesInOrder' /\ CommandsInOrder' /\ DataIsLast' /\ QuitsAreCut'
        /\ DataAgreed'
    BY <1>0, <1>4 DEF Silent, RepliesInOrder, CommandsInOrder, DataIsLast, QuitsAreCut, DataAgreed
  <1>6. Envelope'
    BY <1>0, <1>1, <1>4 DEF Envelope, At
  <1>7. DotIsLast'
    <2> SUFFICES ASSUME NEW k \in 1..Len(sent), sent[k].verb = "DOT"
                 PROVE  /\ Whole(sent[k].about, k - 1)'
                        /\ \A j \in 1..Len(sent) : j > k => sent[j].verb = "QUIT"
                        /\ sent[k].about \in tried /\ ~Taken(sent[k].about)'
                        /\ outcome'[sent[k].about] = {"defer"} /\ Lost(sent[k].about)'
      BY <1>1 DEF DotIsLast
    <2>1. /\ Whole(sent[k].about, k - 1)
          /\ \A j \in 1..Len(sent) : j > k => sent[j].verb = "QUIT"
          /\ sent[k].about \in tried /\ ~Taken(sent[k].about)
          /\ At("DOT", "read") /\ msg = sent[k].about
      BY <1>0 DEF DotIsLast, InSession
    <2>2. Whole(sent[k].about, k - 1)' /\ ~Taken(sent[k].about)'
      BY <2>1 DEF Whole, Taken
    <2>3. result = "defer" /\ Lost(msg)
      BY DEF OtherThanDot
    <2>4. outcome[msg] = {}
      BY <1>0, <2>1 DEF Records, At
    <2>5. outcome'[msg] = {"defer"}
      BY <1>0, <1>1, <2>3, <2>4 DEF TypeOK
    <2> QED  BY <2>1, <2>2, <2>3, <2>5 DEF Lost
  <1>8. TookWell'
    BY <1>0, <1>1 DEF TookWell, TakenAs
  <1>9. Records'
    <2>1. ASSUME NEW m \in tried PROVE
            /\ "success" \in outcome'[m] => Taken(m)
            /\ "fail" \in outcome'[m] => ~Taken(m)
            /\ "defer" \in outcome'[m] /\ Taken(m) => Lost(m)
            /\ outcome'[m] = {} => Lost(m)
      <3>1. CASE m = msg
        <4>1. outcome'[m] = outcome[m] \cup {result}
          BY <1>0, <1>1, <3>1 DEF TypeOK
        <4>2. outcome[m] = {} \/ (outcome[m] = {"success"} /\ Taken(m))
          BY <1>0, <3>1 DEF Records
        <4> QED  BY <3>1, <4>1, <4>2
      <3>2. CASE m # msg
        <4>1. outcome'[m] = outcome[m]
          BY <1>0, <1>1, <3>2 DEF TypeOK
        <4> QED  BY <1>0, <3>2, <4>1 DEF Records
      <3> QED  BY <3>1, <3>2
    <2>2. \A m \in Messages \ tried : outcome'[m] = {}
      BY <1>0, <1>1 DEF Records, TypeOK
    <2>3. ~At("DOT", "read")'
      BY <1>1 DEF At
    <2>4. \A m : (Taken(m)' <=> Taken(m)) /\ (Lost(m)' <=> Lost(m))
      BY DEF Taken, Lost
    <2> QED  BY <1>1, <1>4, <2>1, <2>2, <2>3, <2>4 DEF Records
  <1> QED  BY <1>2, <1>3, <1>5, <1>6, <1>7, <1>8, <1>9 DEF Inv

\* Marks, the age of the last activity, and the idle thread's looks are no part of this.
LEMMA QuietInv ==
  ASSUME Inv, TypeOK', Control',
         UNCHANGED <<connected, canPipeline, pc, msg, outcome, tried, sent, replies, server,
                     ended, took, cut, broken>>
  PROVE  Inv'
  <1>1. UNCHANGED Awaited
    BY DEF Awaited, Cmd
  <1> QED
    BY <1>1 DEF Inv, Silent, RepliesInOrder, CommandsInOrder, RestOnTheWay, OtherThanQuit, DataIsLast, QuitsAreCut,
                Envelope, DataAgreed, Empty, OnlyQuits, Whole, OneBody, DotIsLast, TookWell, TakenAs,
                Records, Taken, Lost, Live, Reading, InSession, At


-----------------------------------------------------------------------------
(* The steps of the worker                                                 *)

\* Reading a reply leaves replies.
LEMMA ReadsType ==
  ASSUME TypeOK, NEW code, Reads(code)
  PROVE  replies' \in Seq([to : Command, code : Codes])
  <1> DEFINE R == [to : Command, code : Codes]
  <1>1. replies \in Seq(R)
    BY DEF TypeOK
  <1> HIDE DEF R
  <1>2. replies' \in Seq(R)
    BY <1>1 DEF Reads
  <1> QED  BY <1>2 DEF R

\* A line is written, or lost on the way to a server that has ended.
LEMMA WriteType ==
  ASSUME TypeOK, NEW verb \in Verbs, Write(verb)
  PROVE  /\ sent' \in Seq(Command)
         /\ connected /\ sent' = (IF ended THEN sent ELSE Append(sent, Cmd(verb)))
         /\ Cmd(verb) \in Command /\ Cmd(verb).verb = verb
  <1>1. Cmd(verb) \in Command /\ sent \in Seq(Command)
    BY CmdType DEF TypeOK
  <1>2. Cmd(verb).verb = verb
    BY DEF Cmd
  <1> HIDE DEF Command
  <1> QED  BY <1>1, <1>2 DEF Write

\* Begin keeps the invariant.
LEMMA BeginInv ==
  ASSUME Inv, Begin
  PROVE  Inv'
  <1> USE DEF Begin, Goto, Stay, Touch, InSession, serverVars
  <1>0. /\ TypeOK /\ Control /\ Silent /\ RepliesInOrder /\ CommandsInOrder /\ DataIsLast
        /\ QuitsAreCut /\ Envelope /\ DataAgreed /\ DotIsLast /\ TookWell /\ Records
    BY DEF Inv
  <1>1. TypeOK'
    BY <1>0 DEF TypeOK, Stages
  <1>2. Control'
    BY <1>0 DEF Control, Verbs
  <1>3. Silent' /\ QuitsAreCut' /\ Envelope' /\ DotIsLast' /\ TookWell' /\ Records'
    BY <1>0, StayInv DEF Control, At, Live
  <1>4. Awaited' = Awaited
    BY <1>0 DEF Awaited, Control, Cmd
  <1>5. RepliesInOrder' /\ CommandsInOrder'
    BY <1>0, <1>4 DEF RepliesInOrder, CommandsInOrder, RestOnTheWay, OtherThanQuit, Live, Control
  <1>6. DataIsLast'
    BY <1>0 DEF DataIsLast, Live, Reading, Control
  <1>7. DataAgreed'
    BY <1>0 DEF DataAgreed, Live, Reading, Control, At
  <1> QED  BY <1>1, <1>2, <1>3, <1>5, <1>6, <1>7 DEF Inv

\* The session is over, with its outcome or because the connection was closed.
LEMMA EnqueueInv ==
  ASSUME Inv, TypeOK', InSession, Enqueue,
         \/ pc.verb = "QUIT"
         \/ pc.verb = "DATA" /\ pc.stage = "begin" /\ ~connected,
         UNCHANGED <<outcome, tried, server, ended, took, cut, broken, replies, canPipeline>>,
         connected' => connected /\ UNCHANGED <<sent, dataCommands>> /\ dataCommands < MaxMessages,
         \/ UNCHANGED sent
         \/ ~ended /\ \E c \in Command : c.verb # "DOT" /\ sent' = Append(sent, c)
  PROVE  Inv'
  <1>0. /\ TypeOK /\ Control /\ Silent /\ RepliesInOrder /\ CommandsInOrder /\ DataIsLast
        /\ QuitsAreCut /\ Envelope /\ DataAgreed /\ DotIsLast /\ TookWell /\ Records
    BY DEF Inv
  <1>1. pc' = [verb |-> "pooled", stage |-> "end"] /\ msg' = None /\ ~InSession'
    BY DEF Enqueue, InSession
  <1>2. Control'
    BY <1>0, <1>1 DEF Control
  <1>3. /\ connected' => Live /\ Live' /\ pc.verb = "QUIT" /\ UNCHANGED sent
        /\ Live' => connected'
    BY <1>0, <1>1 DEF Live, InSession, Reading
  <1>4. Silent'
    BY <1>0 DEF Silent
  <1>5. connected' => Awaited = <<>> /\ Awaited' = <<>>
    BY <1>0, <1>1, <1>3 DEF Awaited, Control
  <1>6. RepliesInOrder' /\ CommandsInOrder'
    BY <1>0, <1>3, <1>5 DEF RepliesInOrder, CommandsInOrder, RestOnTheWay, OtherThanQuit
  <1>7. DataIsLast'
    BY <1>0, <1>3 DEF DataIsLast
  <1>8. QuitsAreCut' /\ Envelope'
    BY <1>0, <1>1, <1>3 DEF QuitsAreCut, Envelope, At
  <1>9. DataAgreed'
    BY <1>0, <1>1, <1>3 DEF DataAgreed, At
  <1>10. OtherThanDot(sent')
    <2>1. OtherThanDot(sent) /\ sent \in Seq(Command)
      BY <1>0, NoDot DEF OtherThanDot, At, InSession, TypeOK
    <2>2. ASSUME NEW c \in Command, c.verb # "DOT", sent' = Append(sent, c)
          PROVE  OtherThanDot(sent')
      <3> HIDE DEF Command
      <3> QED  BY <2>1, <2>2 DEF OtherThanDot
    <2> QED  BY <2>1, <2>2
  <1>11. DotIsLast'
    BY <1>10 DEF DotIsLast, OtherThanDot
  <1>12. TookWell'
    BY <1>0 DEF TookWell, TakenAs
  <1>13. Records'
    <2>1. msg \in tried /\ /\ "success" \in outcome[msg] => Taken(msg)
                           /\ "fail" \in outcome[msg] => ~Taken(msg)
                           /\ "defer" \in outcome[msg] /\ Taken(msg) => Lost(msg)
                           /\ outcome[msg] = {} => Lost(msg)
      BY <1>0 DEF Records, InSession, Control
    <2> QED  BY <1>0, <1>1, <2>1 DEF Records, Taken, Lost, At
  <1> QED  BY <1>1, <1>2, <1>4, <1>6, <1>7, <1>8, <1>9, <1>11, <1>12, <1>13 DEF Inv

\* BeginClosed keeps the invariant.
LEMMA BeginClosedInv ==
  ASSUME Inv, BeginClosed
  PROVE  Inv'
  <1> USE DEF BeginClosed, Elsewhere
  <1>0. /\ TypeOK /\ Control /\ Silent /\ RepliesInOrder /\ CommandsInOrder /\ DataIsLast
        /\ QuitsAreCut /\ Envelope /\ DataAgreed /\ DotIsLast /\ TookWell /\ Records
    BY DEF Inv
  <1>1. InSession
    BY <1>0 DEF Control, InSession
  <1>2. CASE pc.verb \in {"EHLO", "MAIL", "RCPT"} /\ Goto(After(pc.verb), "begin") /\ Stay /\ UNCHANGED <<active, old>>
    <2> DEFINE next == After(pc.verb)
    <2>1. next \in {"MAIL", "RCPT", "DATA"}
      BY <1>2 DEF After
    <2> HIDE DEF next
    <2>2. pc' = [verb |-> next, stage |-> "begin"] /\ Stay
      BY <1>2 DEF Goto, next
    <2>3. TypeOK'
      BY <1>0, <1>2, <2>1, <2>2 DEF TypeOK, Stages, Verbs, Stay, serverVars, history
    <2>4. Control'
      BY <1>0, <1>1, <2>1, <2>2 DEF Control, Stay, InSession, serverVars, history
    <2>5. Silent' /\ QuitsAreCut' /\ Envelope' /\ DotIsLast' /\ TookWell' /\ Records'
      BY <1>0, <1>1, <1>2, <2>1, <2>2, StayInv DEF InSession, At, Stay, serverVars, history, Live, Reading
    <2>6. ~Live'
      BY <2>2 DEF Live, Reading
    <2> QED  BY <2>3, <2>4, <2>5, <2>6 DEF Inv, RepliesInOrder, CommandsInOrder, DataIsLast, DataAgreed
  <1>3. CASE pc.verb = "DATA" /\ Enqueue /\ UNCHANGED <<outcome, tried, active, old>>
    <2>1. TypeOK'
      BY <1>0, <1>3 DEF TypeOK, Enqueue, Stages, serverVars, history
    <2> QED  BY <1>1, <1>3, <2>1, EnqueueInv DEF serverVars, history
  <1>4. CASE pc.verb = "RSET" /\ Broken
    <2>1. OtherThanDot(sent)
      BY <1>0, <1>1, <1>4, NoDot DEF OtherThanDot, At, InSession
    <2>2. Lost(msg) /\ replies' \in Seq([to : Command, code : Codes])
      BY <1>0, <1>1 DEF Records, TypeOK
    <2> QED  BY <1>1, <1>4, <2>1, <2>2, DropInv DEF Broken, serverVars, history
  <1> QED  BY <1>2, <1>3, <1>4


\* A reply lets the session go on.
LEMMA SessionReadInv ==
  ASSUME Inv, TypeOK', Control', InSession, NEW code \in Answers, Reads(code),
         UNCHANGED <<connected, msg, outcome, tried, sent, server, ended, took, cut, broken>>,
         pc.stage \in Reading, pc.verb # "DOT", code = "none" => pc'.stage \notin Reading,
         pc'.verb \in {"MAIL", "RCPT", "DATA", "HELO"},
         Awaited # <<>>, Awaited' = Tail(Awaited),
         pc.verb = "DATA" => pc'.verb = "DATA" /\ pc'.stage \in Reading
  PROVE  Inv'
  <1>0. /\ TypeOK /\ Control /\ Silent /\ RepliesInOrder /\ CommandsInOrder /\ DataIsLast
        /\ QuitsAreCut /\ Envelope /\ DataAgreed /\ DotIsLast /\ TookWell /\ Records
    BY DEF Inv
  <1>1. /\ pc.verb \notin {"dropped", "QUIT", "pooled", "new", "BODY"} /\ ~At("DOT", "read")
        /\ ~At("DOT", "read")' /\ InSession' /\ (Live' => Live)
    BY <1>0 DEF Control, Reading, At, InSession, Live
  <1>2. Silent' /\ QuitsAreCut' /\ Envelope' /\ DotIsLast' /\ TookWell' /\ Records'
    BY <1>0, <1>1, StayInv
  <1>3. RepliesInOrder' /\ CommandsInOrder'
    BY <1>0, <1>1, AwaitedType, ReadsInOrder
  <1>4. DataIsLast'
    BY <1>0, <1>1 DEF DataIsLast, Live
  <1>5. DataAgreed'
    <2> SUFFICES ASSUME Live', ~ended
                 PROVE  DataAgreed'
      BY DEF DataAgreed
    <2>1. Live /\ replies # <<>> /\ replies' = Tail(replies)
      BY <1>1 DEF Live, Reads
    <2> DEFINE R == [to : Command, code : Codes]
    <2>2. replies \in Seq(R) /\ Awaited \in Seq(Command)
      BY <1>0, AwaitedType DEF TypeOK
    <2> HIDE DEF R
    <2>3. /\ Len(replies') = Len(replies) - 1 /\ Len(Awaited') = Len(Awaited) - 1
          /\ replies' # <<>> => replies'[Len(replies')] = replies[Len(replies)]
      BY <2>1, <2>2
    <2>4. server.data =>
            pc.verb = "DATA" /\ Len(replies) = Len(Awaited) /\ Empty(msg)
      BY <1>0, <1>1, <2>1 DEF DataAgreed
    <2>5. Empty(msg) => Empty(msg)'
      BY DEF Empty, OnlyQuits
    <2>6. replies[Len(replies)].code = "354" => server.data
      BY <1>0, <2>1 DEF DataAgreed
    <2>7. pc'.verb \notin {"BODY", "DOT"} /\ ~At("DOT", "write")'
      BY DEF At
    <2>8. server'.data => pc'.verb = "DATA" /\ pc'.stage \in Reading /\ Len(replies') = Len(Awaited') /\ Empty(msg)'
      BY <2>3, <2>4, <2>5
    <2>9. replies' # <<>> /\ replies'[Len(replies')].code = "354" => server'.data
      BY <2>3, <2>6
    <2> QED  BY <2>7, <2>8, <2>9 DEF DataAgreed
  <1> QED  BY <1>2, <1>3, <1>4, <1>5 DEF Inv

\* A reply ends it, or the end of the connection does.
LEMMA FailedReadInv ==
  ASSUME Inv, InSession, pc.verb # "QUIT", NEW code \in Answers, Reads(code), FailedCallback(code),
         UNCHANGED <<connected, helloed, canPipeline, dataCommands, sent, server, ended, took,
                     collector, cut, broken, unmarked>>,
         At("DOT", "read") => code # "2xx"
  PROVE  Inv'
  <1>0. TypeOK /\ Control /\ Silent /\ DotIsLast /\ DataAgreed /\ Records
    BY DEF Inv
  <1> DEFINE result == IF code = "5xx" THEN "fail" ELSE "defer"
  <1>1. result \in {"fail", "defer"} /\ Drop(result)
    BY DEF FailedCallback
  <1>2. replies' \in Seq([to : Command, code : Codes])
    BY <1>0, ReadsType
  <1>3. CASE ~At("DOT", "read")
    <2>1. ~Taken(msg) /\ OtherThanDot(sent)
      BY <1>0, <1>3, NoDot DEF Records, OtherThanDot, InSession
    <2> QED  BY <1>1, <1>2, <2>1, DropInv
  <1>4. CASE At("DOT", "read") /\ ~(~connected \/ (ended /\ replies = <<>>))
    <2>1. connected /\ replies # <<>> /\ code = Head(replies).code /\ Live
      BY <1>4 DEF Reads, Live, InSession
    <2>2. ~Taken(msg)
      BY <1>0, <1>4, <2>1 DEF Records
    <2>3. OtherThanDot(sent)
      BY <1>0, <1>4, <2>1, NoDotAfterReply
    <2> QED  BY <1>1, <1>2, <2>2, <2>3, DropInv
  <1>5. CASE ~connected \/ (ended /\ replies = <<>>)
    <2>1. code = "none"
      BY <1>5 DEF Reads
    <2>2. Lost(msg)
      BY <1>0, <1>5 DEF Records
    <2> QED  BY <1>1, <1>2, <2>1, <2>2, DropInv
  <1> QED  BY <1>3, <1>4, <1>5

\* A command is written, and the session goes on.
LEMMA SessionWriteInv ==
  ASSUME Inv, TypeOK', Control', InSession, NEW verb \in Verbs \ {"greeting", "BODY", "DOT", "QUIT"},
         Write(verb), pc.verb = verb, pc.stage = "write",
         UNCHANGED <<connected, msg, outcome, tried, replies, server, ended, took, cut, broken>>,
         pc'.verb \in Verbs \ {"greeting", "BODY", "DOT", "QUIT"},
         Awaited' = Append(Awaited, Cmd(verb)),
         verb = "DATA" => pc'.verb = "DATA" /\ pc'.stage \in Reading
  PROVE  Inv'
  <1>0. /\ TypeOK /\ Control /\ Silent /\ RepliesInOrder /\ CommandsInOrder /\ DataIsLast
        /\ QuitsAreCut /\ Envelope /\ DataAgreed /\ DotIsLast /\ TookWell /\ Records
    BY DEF Inv
  <1>1. /\ sent' = (IF ended THEN sent ELSE Append(sent, Cmd(verb)))
        /\ Cmd(verb) \in Command /\ Cmd(verb).verb = verb
        /\ Awaited \in Seq(Command) /\ sent \in Seq(Command) /\ connected
    BY <1>0, WriteType, AwaitedType DEF TypeOK
  <1>2. /\ pc.verb \notin {"dropped", "QUIT"} /\ ~At("DOT", "read")
        /\ ~At("DOT", "read")' /\ InSession' /\ pc'.verb \notin {"dropped", "QUIT", "pooled"}
        /\ connected /\ Live
    BY <1>0, <1>1 DEF Control, At, InSession, Verbs, Live
  <1> HIDE DEF Command
  <1>3. Silent' /\ QuitsAreCut' /\ Envelope' /\ DotIsLast' /\ TookWell' /\ Records'
    <2>1. verb \notin {"DOT", "QUIT"}
      OBVIOUS
    <2>2. UNCHANGED sent \/ (~ended /\ \E c \in Command : c.verb \notin {"DOT", "QUIT"} /\ sent' = Append(sent, c))
      BY <1>1, <2>1
    <2> QED  BY <1>0, <1>2, <2>2, StayInv
  <1>4. RepliesInOrder' /\ CommandsInOrder'
    BY <1>0, <1>1, <1>2, WritesInOrder
  <1>5. DataIsLast'
    <2> SUFFICES ASSUME Live', NEW k \in 1..Len(sent'), sent'[k].verb = "DATA"
                 PROVE  /\ pc'.verb = "DATA" /\ pc'.stage \in Reading
                        /\ \A j \in 1..Len(sent') : j > k => sent'[j].verb = "QUIT"
      BY DEF DataIsLast
    <2>1. \A j \in 1..Len(sent) : sent[j].verb # "DATA"
      BY <1>0, <1>2 DEF DataIsLast, Live, Reading
    <2>2. ~ended /\ k = Len(sent) + 1 /\ Len(sent') = Len(sent) + 1 /\ verb = "DATA"
      BY <1>1, <2>1
    <2> QED  BY <1>1, <2>2
  <1>6. DataAgreed'
    BY <1>0, <1>2 DEF DataAgreed, Live, Reading, At, Verbs
  <1> QED  BY <1>3, <1>4, <1>5, <1>6 DEF Inv

\* Writing throws.
LEMMA WriteThrowsInv ==
  ASSUME Inv, InSession, pc.stage # "read", WriteThrows, Broken,
         UNCHANGED <<connected, helloed, canPipeline, dataCommands, sent, replies, server, ended,
                     took, collector, cut, broken, unmarked>>
  PROVE  Inv'
  <1>1. TypeOK /\ DotIsLast /\ Records
    BY DEF Inv
  <1>2. OtherThanDot(sent)
    BY <1>1, NoDot DEF OtherThanDot, At, InSession
  <1>3. Lost(msg) /\ replies' \in Seq([to : Command, code : Codes])
    BY <1>1 DEF Records, WriteThrows, TypeOK
  <1> QED  BY <1>2, <1>3, DropInv DEF Broken


\* WriteCommand keeps the invariant.
LEMMA WriteCommandInv ==
  ASSUME Inv, WriteCommand
  PROVE  Inv'
  <1>0. TypeOK /\ Control
    BY DEF Inv
  <1>1. InSession /\ pc.verb \in {"EHLO", "RSET", "MAIL", "RCPT", "DATA"} /\ pc.stage = "write"
    BY <1>0 DEF WriteCommand, InSession, Control, Verbs
  <1>2. CASE WriteThrows /\ Broken /\ UNCHANGED sent
    BY <1>1, <1>2, WriteThrowsInv DEF WriteCommand, Elsewhere, serverVars, history
  <1>3. CASE Write(pc.verb) /\ Stay /\ ~(WriteThrows /\ Broken /\ UNCHANGED sent)
    <2> DEFINE next == After(pc.verb)
    <2>1. /\ UNCHANGED <<connected, helloed, canPipeline, dataCommands, msg, leaving, outcome, tried,
                         replies, collector, server, ended, took, cut, broken, unmarked>>
          /\ pc.verb \in Verbs \ {"greeting", "BODY", "DOT", "QUIT"}
      BY <1>1, <1>3 DEF WriteCommand, Elsewhere, serverVars, history, Stay, Verbs
    <2>2. sent' \in Seq(Command)
      BY <1>0, <1>3, <2>1, WriteType
    <2>3. CASE pc.verb \in {"MAIL", "RCPT"} /\ canPipeline /\ Goto(next, "begin") /\ Free
      <3>1. pc' = [verb |-> next, stage |-> "begin"] /\ next = (IF pc.verb = "MAIL" THEN "RCPT" ELSE "DATA")
        BY <2>3 DEF After, Goto
      <3> HIDE DEF next
      <3>2. TypeOK'
        BY <1>0, <2>1, <2>2, <2>3, <3>1 DEF TypeOK, Free, Touch, Verbs, Stages
      <3>3. Control'
        BY <1>0, <1>1, <2>1, <2>3, <3>1 DEF Control, InSession
      <3>4. Awaited' = Append(Awaited, Cmd(pc.verb))
        <4>1. Cmd("MAIL")' = Cmd("MAIL") /\ Cmd("RCPT")' = Cmd("RCPT")
          BY <2>1 DEF Cmd
        <4>2. CASE pc.verb = "MAIL"
          <5>1. Awaited = <<>> /\ Awaited' = <<Cmd("MAIL")>>
            BY <1>1, <2>1, <2>3, <3>1, <4>1, <4>2 DEF Awaited
          <5> QED  BY <4>2, <5>1
        <4>3. CASE pc.verb = "RCPT"
          <5>1. Awaited = <<Cmd("MAIL")>> /\ Awaited' = <<Cmd("MAIL"), Cmd("RCPT")>>
            BY <1>1, <2>1, <2>3, <3>1, <4>1, <4>3 DEF Awaited
          <5> QED  BY <4>3, <5>1
        <4> QED  BY <2>3, <4>2, <4>3
      <3> QED  BY <1>0, <1>1, <1>3, <2>1, <2>3, <3>1, <3>2, <3>3, <3>4, SessionWriteInv DEF Verbs
    <2>4. CASE /\ ~(pc.verb \in {"MAIL", "RCPT"} /\ canPipeline)
               /\ Goto(pc.verb, IF pc.verb = "DATA" /\ canPipeline THEN "readMail" ELSE "read")
               /\ UNCHANGED <<active, old>>
      <3>1. pc' = [verb |-> pc.verb, stage |-> IF pc.verb = "DATA" /\ canPipeline THEN "readMail" ELSE "read"]
        BY <2>4 DEF Goto
      <3>2. TypeOK'
        BY <1>0, <2>1, <2>2, <2>4, <3>1 DEF TypeOK, Stages
      <3>3. Control'
        BY <1>0, <1>1, <2>1, <2>4, <3>1 DEF Control, InSession, Verbs
      <3>4. Awaited' = Append(Awaited, Cmd(pc.verb))
        <4>1. \A verb \in Verbs : Cmd(verb)' = Cmd(verb)
          BY <2>1 DEF Cmd
        <4>2. CASE pc.verb = "DATA" /\ canPipeline
          <5>1. Cmd("MAIL")' = Cmd("MAIL") /\ Cmd("RCPT")' = Cmd("RCPT") /\ Cmd("DATA")' = Cmd("DATA")
            BY <4>1 DEF Verbs
          <5>2. /\ Awaited = <<Cmd("MAIL"), Cmd("RCPT")>>
                /\ Awaited' = <<Cmd("MAIL"), Cmd("RCPT"), Cmd("DATA")>>
            BY <1>1, <2>1, <3>1, <4>2, <5>1 DEF Awaited
          <5> QED  BY <4>2, <5>2
        <4>3. CASE ~(pc.verb = "DATA" /\ canPipeline)
          <5>1. Cmd(pc.verb)' = Cmd(pc.verb) /\ pc'.verb = pc.verb /\ pc'.stage = "read"
            BY <1>1, <2>1, <3>1, <4>1, <4>3
          <5>2. Awaited = <<>> /\ Awaited' = <<Cmd(pc.verb)>>
            BY <1>1, <2>1, <2>4, <4>3, <5>1 DEF Awaited
          <5> QED  BY <5>2
        <4> QED  BY <4>2, <4>3
      <3> QED  BY <1>0, <1>1, <1>3, <2>1, <2>4, <3>1, <3>2, <3>3, <3>4, SessionWriteInv DEF Reading
    <2> QED  BY <1>3, <2>3, <2>4 DEF WriteCommand
  <1> QED  BY <1>2, <1>3 DEF WriteCommand

\* The parts of a step that reads.
LEMMA HelloInv ==
  ASSUME Inv, InSession, pc.verb \in {"EHLO", "HELO"}, Hello, canPipeline' \in BOOLEAN,
         UNCHANGED <<connected, dataCommands, sent, collector, server, ended, took, cut, broken, unmarked>>,
         \/ pc.stage = "read" /\ \E code \in Answers : Reads(code)
         \/ pc.stage = "write" /\ ended /\ UNCHANGED replies
  PROVE  Inv'
  <1>0. TypeOK /\ Control
    BY DEF Inv
  <1>1. /\ pc' = [verb |-> "MAIL", stage |-> "begin"] /\ helloed' = TRUE /\ active' = FALSE /\ old' = FALSE
        /\ UNCHANGED <<msg, leaving, outcome, tried>>
    BY DEF Hello, Goto, Free, Touch, Stay
  <1>2. replies' \in Seq([to : Command, code : Codes])
    BY <1>0, ReadsType DEF TypeOK
  <1>3. TypeOK'
    BY <1>0, <1>1, <1>2 DEF TypeOK, Verbs, Stages
  <1>4. Control'
    BY <1>0, <1>1 DEF Control, InSession
  <1>5. Awaited' = <<>>
    BY <1>1 DEF Awaited
  <1>6. CASE pc.stage = "read" /\ \E code \in Answers : Reads(code)
    <2>1. Awaited = <<Cmd(pc.verb)>>
      BY <1>6 DEF Awaited
    <2>2. Awaited # <<>> /\ Awaited' = Tail(Awaited)
      BY <1>5, <2>1
    <2> QED  BY <1>1, <1>3, <1>4, <1>6, <2>2, SessionReadInv DEF Reading
  <1>7. CASE pc.stage = "write" /\ ended /\ UNCHANGED replies
    <2>0. /\ Silent /\ RepliesInOrder /\ CommandsInOrder /\ DataIsLast
          /\ QuitsAreCut /\ Envelope /\ DataAgreed /\ DotIsLast /\ TookWell /\ Records
      BY DEF Inv
    <2>1. Silent' /\ QuitsAreCut' /\ Envelope' /\ DotIsLast' /\ TookWell' /\ Records'
      BY <1>0, <1>1, <1>7, <2>0, StayInv DEF InSession, At, Live, Reading
    <2>2. Awaited = <<>>
      BY <1>7 DEF Awaited
    <2>3. sent' = <<>> /\ RepliesInOrder'
      BY <1>1, <1>5, <1>7, <2>0, <2>2 DEF RepliesInOrder, Silent, Live, Reading
    <2> QED  BY <1>3, <1>4, <1>7, <2>1, <2>3 DEF Inv, CommandsInOrder, DataIsLast, DataAgreed
  <1> QED  BY <1>6, <1>7

\* ReadEhlo keeps the invariant.
LEMMA ReadEhloInv ==
  ASSUME Inv, ReadEhlo
  PROVE  Inv'
  <1>0. TypeOK /\ Control /\ InSession /\ At("EHLO", "read") /\ pc.verb = "EHLO" /\ pc.stage = "read"
    BY DEF Inv, ReadEhlo, At, InSession
  <1>1. UNCHANGED <<connected, dataCommands, sent, collector, server, ended, took, cut, broken, unmarked>>
    BY DEF ReadEhlo, Elsewhere, serverVars, history
  <1>2. PICK code \in Answers :
          /\ Reads(code)
          /\ \/ code = "2xx" /\ canPipeline' \in BOOLEAN /\ Hello
             \/ code = "421" /\ FailedCallback(code) /\ UNCHANGED <<helloed, canPipeline>>
             \/ /\ code \notin {"2xx", "421"}
                /\ Goto("HELO", "write") /\ Touch /\ Stay
                /\ UNCHANGED <<active, helloed, canPipeline>>
    BY DEF ReadEhlo
  <1>3. CASE canPipeline' \in BOOLEAN /\ Hello
    BY <1>0, <1>1, <1>2, <1>3, HelloInv
  <1>4. CASE FailedCallback(code) /\ UNCHANGED <<helloed, canPipeline>>
    <2>1. ~At("DOT", "read")
      BY <1>0 DEF At
    <2> QED  BY <1>0, <1>1, <1>2, <1>4, <2>1, FailedReadInv
  <1>5. CASE Goto("HELO", "write") /\ Touch /\ Stay /\ UNCHANGED <<active, helloed, canPipeline>>
    <2>1. /\ pc' = [verb |-> "HELO", stage |-> "write"] /\ old' = FALSE
          /\ UNCHANGED <<msg, leaving, outcome, tried>>
      BY <1>5 DEF Goto, Touch, Stay
    <2>2. TypeOK'
      BY <1>0, <1>1, <1>2, <1>5, <2>1, ReadsType DEF TypeOK, Verbs, Stages
    <2>3. Control'
      BY <1>0, <1>1, <1>5, <2>1 DEF Control, InSession, Verbs
    <2>4. Awaited' = <<>> /\ Awaited = <<Cmd("EHLO")>>
      BY <1>0, <2>1 DEF Awaited
    <2>5. Awaited # <<>> /\ Awaited' = Tail(Awaited)
      BY <2>4
    <2> QED  BY <1>0, <1>1, <1>2, <2>1, <2>2, <2>3, <2>5, SessionReadInv DEF Reading
  <1> QED  BY <1>2, <1>3, <1>4, <1>5


\* WriteHelo keeps the invariant.
LEMMA WriteHeloInv ==
  ASSUME Inv, WriteHelo
  PROVE  Inv'
  <1>0. /\ TypeOK /\ Control /\ InSession /\ pc.verb = "HELO" /\ pc.stage = "write"
        /\ UNCHANGED <<connected, canPipeline, dataCommands, replies, collector, server, ended, took,
                       cut, broken, unmarked>>
    BY DEF Inv, WriteHelo, At, InSession, Elsewhere, serverVars, history
  <1>1. CASE Write("HELO") /\ Goto("HELO", "read") /\ Stay /\ UNCHANGED <<active, old, helloed>>
    <2>1. pc' = [verb |-> "HELO", stage |-> "read"] /\ UNCHANGED <<msg, leaving, outcome, tried>>
      BY <1>1 DEF Goto, Stay
    <2>2. "HELO" \in Verbs \ {"greeting", "BODY", "DOT", "QUIT"} /\ "read" \in Stages
      BY DEF Verbs, Stages
    <2>3. TypeOK'
      BY <1>0, <1>1, <2>1, <2>2, WriteType DEF TypeOK
    <2>4. Control'
      BY <1>0, <2>1, <2>2 DEF Control, InSession
    <2>5. Awaited = <<>> /\ Awaited' = <<Cmd("HELO")>>
      BY <1>0, <2>1 DEF Awaited, Cmd
    <2>6. Awaited' = Append(Awaited, Cmd("HELO"))
      BY <2>5
    <2> QED  BY <1>0, <1>1, <2>1, <2>2, <2>3, <2>4, <2>6, SessionWriteInv
  <1>2. CASE connected /\ ended /\ Hello /\ UNCHANGED sent
    <2>1. canPipeline' \in BOOLEAN
      BY <1>0 DEF TypeOK
    <2> QED  BY <1>0, <1>2, <2>1, HelloInv
  <1>3. CASE ~connected /\ Broken /\ UNCHANGED <<sent, helloed>>
    BY <1>0, <1>3, WriteThrowsInv DEF WriteThrows
  <1> QED  BY <1>1, <1>2, <1>3 DEF WriteHelo

\* ReadHelo keeps the invariant.
LEMMA ReadHeloInv ==
  ASSUME Inv, ReadHelo
  PROVE  Inv'
  <1>0. /\ TypeOK /\ Control /\ InSession /\ pc.verb = "HELO" /\ pc.stage = "read" /\ ~At("DOT", "read")
        /\ UNCHANGED <<connected, canPipeline, dataCommands, sent, collector, server, ended, took,
                       cut, broken, unmarked>>
    BY DEF Inv, ReadHelo, At, InSession, Elsewhere, serverVars, history
  <1>1. PICK code \in Answers :
          Reads(code) /\ IF code = "2xx" THEN Hello ELSE FailedCallback(code) /\ UNCHANGED helloed
    BY DEF ReadHelo
  <1>2. CASE Hello
    <2>1. canPipeline' \in BOOLEAN
      BY <1>0 DEF TypeOK
    <2> QED  BY <1>0, <1>1, <1>2, <2>1, HelloInv
  <1>3. CASE FailedCallback(code) /\ UNCHANGED helloed
    BY <1>0, <1>1, <1>3, FailedReadInv
  <1> QED  BY <1>1, <1>2, <1>3

\* The next command, after the reply to one that was awaited alone.
LEMMA NextCommandInv ==
  ASSUME Inv, InSession, pc.stage = "read", pc.verb \in {"RSET", "MAIL", "RCPT"},
         NEW code \in Answers, Reads(code), Goto(After(pc.verb), "begin"), Free, Stay,
         UNCHANGED <<connected, helloed, canPipeline, dataCommands, sent, collector, server, ended,
                     took, cut, broken, unmarked>>
  PROVE  Inv'
  <1>0. TypeOK /\ Control
    BY DEF Inv
  <1>1. /\ pc' = [verb |-> After(pc.verb), stage |-> "begin"] /\ active' = FALSE /\ old' = FALSE
        /\ UNCHANGED <<msg, leaving, outcome, tried>>
    BY DEF Goto, Free, Touch, Stay
  <1>2. After(pc.verb) = IF pc.verb = "RSET" THEN "MAIL" ELSE IF pc.verb = "MAIL" THEN "RCPT" ELSE "DATA"
    BY DEF After
  <1>3. TypeOK'
    <2>1. pc' \in [verb : Verbs \cup {"new", "pooled", "dropped"}, stage : Stages]
      BY <1>1, <1>2 DEF Verbs, Stages
    <2>2. replies' \in Seq([to : Command, code : Codes])
      BY <1>0, ReadsType DEF TypeOK
    <2> QED  BY <1>0, <1>1, <2>1, <2>2 DEF TypeOK
  <1>4. Control'
    BY <1>0, <1>1, <1>2 DEF Control, InSession
  <1>5. Awaited = <<Cmd(pc.verb)>> /\ Awaited' = <<>>
    BY <1>0, <1>1, <1>2 DEF Awaited, Control
  <1>6. Awaited # <<>> /\ Awaited' = Tail(Awaited)
    BY <1>5
  <1> QED  BY <1>1, <1>2, <1>3, <1>4, <1>6, SessionReadInv DEF Reading

\* ReadRset keeps the invariant.
LEMMA ReadRsetInv ==
  ASSUME Inv, ReadRset
  PROVE  Inv'
  <1>1. /\ InSession /\ pc.stage = "read" /\ pc.verb = "RSET" /\ After(pc.verb) = "MAIL"
        /\ \E code \in Answers : Reads(code)
        /\ UNCHANGED <<connected, helloed, canPipeline, dataCommands, sent, collector, server, ended,
                       took, cut, broken, unmarked>>
    BY DEF ReadRset, At, InSession, After, Elsewhere, serverVars, history
  <1> QED  BY <1>1, NextCommandInv DEF ReadRset

\* ReadEnvelope keeps the invariant.
LEMMA ReadEnvelopeInv ==
  ASSUME Inv, ReadEnvelope
  PROVE  Inv'
  <1>0. /\ InSession /\ pc.stage = "read" /\ pc.verb \in {"MAIL", "RCPT"} /\ ~At("DOT", "read")
        /\ UNCHANGED <<connected, helloed, canPipeline, dataCommands, sent, collector, server, ended,
                       took, cut, broken, unmarked>>
    BY DEF ReadEnvelope, At, InSession, Elsewhere, serverVars, history
  <1>1. PICK code \in Answers :
          /\ Reads(code)
          /\ IF code = "2xx" THEN Goto(After(pc.verb), "begin") /\ Free /\ Stay ELSE FailedCallback(code)
    BY DEF ReadEnvelope
  <1>2. CASE Goto(After(pc.verb), "begin") /\ Free /\ Stay
    BY <1>0, <1>1, <1>2, NextCommandInv
  <1>3. CASE FailedCallback(code)
    BY <1>0, <1>1, <1>3, FailedReadInv
  <1> QED  BY <1>1, <1>2, <1>3

\* ReadPipelined keeps the invariant.
LEMMA ReadPipelinedInv ==
  ASSUME Inv, NEW stage, NEW next, ReadPipelined(stage, next),
         \/ stage = "readMail" /\ next = "readRcpt"
         \/ stage = "readRcpt" /\ next = "read"
  PROVE  Inv'
  <1>0. /\ TypeOK /\ Control /\ InSession /\ pc.stage = stage /\ pc.verb = "DATA" /\ ~At("DOT", "read")
        /\ UNCHANGED <<connected, helloed, canPipeline, dataCommands, sent, collector, server, ended,
                       took, cut, broken, unmarked>>
    BY DEF Inv, ReadPipelined, At, InSession, Elsewhere, serverVars, history
  <1>1. PICK code \in Answers :
          /\ Reads(code)
          /\ IF code = "2xx" THEN Goto("DATA", next) /\ Stay /\ UNCHANGED <<active, old>>
                             ELSE FailedCallback(code)
    BY DEF ReadPipelined
  <1>2. CASE code = "2xx"
    <2>1. pc' = [verb |-> "DATA", stage |-> next] /\ UNCHANGED <<msg, leaving, outcome, tried>>
      BY <1>1, <1>2 DEF Goto, Stay
    <2>2. TypeOK'
      <3>1. next \in Stages /\ "DATA" \in Verbs
        BY DEF Stages, Verbs
      <3>2. replies' \in Seq([to : Command, code : Codes])
        BY <1>0, <1>1, ReadsType
      <3> QED  BY <1>0, <1>1, <1>2, <2>1, <3>1, <3>2 DEF TypeOK
    <2>3. Control'
      BY <1>0, <2>1 DEF Control, InSession, Verbs
    <2>4. Awaited # <<>> /\ Awaited' = Tail(Awaited)
      <3>1. Cmd("RCPT")' = Cmd("RCPT") /\ Cmd("DATA")' = Cmd("DATA")
        BY <2>1 DEF Cmd
      <3>2. CASE stage = "readMail"
        <4>1. /\ Awaited = <<Cmd("MAIL"), Cmd("RCPT"), Cmd("DATA")>>
              /\ Awaited' = <<Cmd("RCPT"), Cmd("DATA")>>
          BY <1>0, <2>1, <3>1, <3>2 DEF Awaited
        <4> QED  BY <4>1
      <3>3. CASE stage = "readRcpt"
        <4>1. Awaited = <<Cmd("RCPT"), Cmd("DATA")>> /\ Awaited' = <<Cmd("DATA")>>
          BY <1>0, <2>1, <3>1, <3>3 DEF Awaited
        <4> QED  BY <4>1
      <3> QED  BY <3>2, <3>3
    <2> QED  BY <1>0, <1>1, <1>2, <2>1, <2>2, <2>3, <2>4, SessionReadInv DEF Reading
  <1>3. CASE code # "2xx"
    BY <1>0, <1>1, <1>3, FailedReadInv
  <1> QED  BY <1>1, <1>2, <1>3


\* ReadData keeps the invariant.
LEMMA ReadDataInv ==
  ASSUME Inv, ReadData
  PROVE  Inv'
  <1>0. /\ TypeOK /\ Control /\ Silent /\ RepliesInOrder /\ CommandsInOrder /\ DataIsLast
        /\ QuitsAreCut /\ Envelope /\ DataAgreed /\ DotIsLast /\ TookWell /\ Records
    BY DEF Inv
  <1>1. /\ InSession /\ pc.stage = "read" /\ pc.verb = "DATA" /\ ~At("DOT", "read")
        /\ UNCHANGED <<connected, helloed, canPipeline, sent, collector, server, ended,
                       took, cut, broken, unmarked>>
    BY DEF ReadData, At, InSession, Elsewhere, serverVars, history
  <1>2. PICK code \in Answers :
          /\ Reads(code)
          /\ IF code = "354"
               THEN dataCommands' = dataCommands + 1 /\ Goto("BODY", "write") /\ Touch /\ Stay
                    /\ UNCHANGED active
               ELSE FailedCallback(code) /\ UNCHANGED dataCommands
    BY DEF ReadData
  <1>3. CASE code # "354"
    BY <1>1, <1>2, <1>3, FailedReadInv
  <1>4. CASE code = "354"
    <2>1. /\ pc' = [verb |-> "BODY", stage |-> "write"] /\ old' = FALSE
          /\ dataCommands' = dataCommands + 1
          /\ UNCHANGED <<msg, leaving, outcome, tried, active>>
      BY <1>2, <1>4 DEF Goto, Touch, Stay
    <2>2. /\ connected /\ Live /\ replies # <<>> /\ replies' = Tail(replies)
          /\ Head(replies).code = "354"
      BY <1>1, <1>2, <1>4 DEF Reads, Live
    <2>3. TypeOK'
      <3>1. dataCommands' \in 0..MaxMessages
        BY <1>0, <1>1, <2>1, <2>2, DialogueAssumption DEF TypeOK, Control
      <3>2. replies' \in Seq([to : Command, code : Codes])
        BY <1>0, <1>2, ReadsType
      <3> QED  BY <1>0, <1>1, <2>1, <3>1, <3>2 DEF TypeOK, Verbs, Stages
    <2>4. Control'
      BY <1>0, <1>1, <2>1 DEF Control, InSession, Verbs
    <2>5. Silent' /\ QuitsAreCut' /\ Envelope' /\ DotIsLast' /\ TookWell' /\ Records'
      BY <1>0, <1>1, <2>1, <2>2, StayInv DEF InSession, At
    <2>6. Awaited = <<Cmd("DATA")>> /\ Awaited' = <<>>
      BY <1>1, <2>1 DEF Awaited
    <2>7. RepliesInOrder' /\ CommandsInOrder'
      <3>1. Awaited # <<>> /\ Awaited' = Tail(Awaited)
        BY <2>6
      <3> QED  BY <1>0, <1>1, <1>2, <2>1, <3>1, AwaitedType, ReadsInOrder DEF Reading
    <2>8. ~ended => server.data /\ Empty(msg) /\ replies' = <<>>
      <3> DEFINE R == [to : Command, code : Codes]
      <3>1. replies \in Seq(R) /\ Len(replies) <= 1
        BY <1>0, <2>2, <2>6 DEF TypeOK, RepliesInOrder
      <3> HIDE DEF R
      <3>2. replies # <<>>
        BY <2>2
      <3>3. Len(replies) = 1 /\ Head(replies) = replies[1] /\ Tail(replies) = <<>>
        BY <3>1, <3>2, OneElement
      <3>4. replies' = <<>>
        BY <2>2, <3>3
      <3> QED  BY <1>0, <1>1, <2>2, <3>3, <3>4 DEF DataAgreed
    <2>9. Empty(msg)' <=> Empty(msg)
      BY <1>1, <2>1 DEF Empty, OnlyQuits
    <2>10. DataAgreed'
      BY <1>1, <2>1, <2>8, <2>9 DEF DataAgreed, At
    <2>11. DataIsLast'
      <3>1. sent = <<>> \/ OnlyQuits(sent)
        BY <1>0, <2>8 DEF Silent, Empty
      <3>2. \A k \in 1..Len(sent) : sent[k].verb # "DATA"
        BY <3>1 DEF OnlyQuits
      <3> QED  BY <1>1, <3>2 DEF DataIsLast
    <2> QED  BY <2>3, <2>4, <2>5, <2>7, <2>10, <2>11 DEF Inv
  <1> QED  BY <1>3, <1>4

\* The data, and the dot.
LEMMA WriteDataInv ==
  ASSUME Inv, WriteData
  PROVE  Inv'
  <1>0. /\ TypeOK /\ Control /\ Silent /\ RepliesInOrder /\ CommandsInOrder /\ DataIsLast
        /\ QuitsAreCut /\ Envelope /\ DataAgreed /\ DotIsLast /\ TookWell /\ Records
    BY DEF Inv
  <1>1. /\ InSession /\ pc.stage = "write" /\ pc.verb \in {"BODY", "DOT"} /\ ~At("DOT", "read")
        /\ UNCHANGED <<connected, helloed, canPipeline, dataCommands, replies, collector, server, ended,
                       took, cut, broken, unmarked>>
    BY DEF WriteData, At, InSession, Elsewhere, serverVars, history
  <1>2. CASE WriteThrows /\ Broken /\ UNCHANGED sent
    BY <1>1, <1>2, WriteThrowsInv
  <1>3. CASE /\ Write(pc.verb)
             /\ IF pc.verb = "BODY" THEN Goto("DOT", "write") /\ UNCHANGED old
                                    ELSE Goto("DOT", "read") /\ Touch
             /\ Stay /\ UNCHANGED active
    <2>1. /\ pc' = [verb |-> "DOT", stage |-> IF pc.verb = "BODY" THEN "write" ELSE "read"]
          /\ old' \in BOOLEAN
          /\ UNCHANGED <<msg, leaving, outcome, tried, active>>
      BY <1>0, <1>3 DEF Goto, Touch, Stay, TypeOK
    <2>2. /\ sent' \in Seq(Command) /\ connected /\ Live /\ msg \in tried
          /\ sent' = (IF ended THEN sent ELSE Append(sent, [verb |-> pc.verb, about |-> msg]))
      <3>1. pc.verb \in Verbs /\ Cmd(pc.verb) = [verb |-> pc.verb, about |-> msg]
        BY <1>1 DEF Cmd, Verbs
      <3> QED  BY <1>0, <1>1, <1>3, <3>1, WriteType DEF Live, Control
    <2>3. TypeOK'
      BY <1>0, <1>1, <2>1, <2>2 DEF TypeOK, Verbs, Stages
    <2>4. Control'
      BY <1>0, <1>1, <2>1 DEF Control, InSession, Verbs
    <2>5. Awaited = <<>> /\ (pc.verb = "BODY" => Awaited' = <<>>)
      BY <1>1, <2>1 DEF Awaited
    <2>6. replies = <<>>
      <3>1. replies \in Seq([to : Command, code : Codes]) /\ Len(replies) <= 0
        BY <1>0, <2>2, <2>5 DEF RepliesInOrder, TypeOK
      <3> QED  BY <3>1
    <2>7. RepliesInOrder'
      <3>1. Len(Awaited') >= 0
        BY <2>3, <2>4, AwaitedType
      <3> QED  BY <1>1, <2>6, <3>1 DEF RepliesInOrder
    <2>10. /\ ~ended /\ pc.verb = "BODY" => Empty(msg)
           /\ ~ended /\ pc.verb = "DOT" => Whole(msg, Len(sent))
      <3>1. pc.verb = "DOT" => At("DOT", "write")
        BY <1>0, <1>1 DEF At, TypeOK
      <3> QED  BY <1>0, <2>2, <3>1 DEF DataAgreed
    <2>8. ~ended => server.data
      BY <1>1, <2>10 DEF Empty, Whole
    <2>9. CommandsInOrder'
      BY <1>1, <2>8 DEF CommandsInOrder
    <2>11. sent \in Seq(Command) /\ \A k \in 1..Len(sent) : sent[k].verb \in {"QUIT", "BODY"}
      <3>1. CASE ended
        BY <1>0, <3>1 DEF TypeOK, Silent
      <3>2. Empty(msg) => \A k \in 1..Len(sent) : sent[k].verb = "QUIT"
        BY DEF Empty, OnlyQuits
      <3>3. Body(msg).verb = "BODY"
        BY DEF Body
      <3>4. Whole(msg, Len(sent)) => \A k \in 1..Len(sent) : sent[k].verb \in {"QUIT", "BODY"}
        BY <3>3 DEF Whole
      <3> QED  BY <1>0, <1>1, <2>10, <3>1, <3>2, <3>4 DEF TypeOK
    <2>12. ~ended => /\ Len(sent') = Len(sent) + 1
                     /\ sent'[Len(sent) + 1] = [verb |-> pc.verb, about |-> msg]
                     /\ \A k \in 1..Len(sent) : sent'[k] = sent[k]
      <3> HIDE DEF Command
      <3> QED  BY <2>2, <2>11
    <2>13. DataIsLast'
      BY <1>0, <1>1, <2>2, <2>11, <2>12 DEF DataIsLast, Silent
    <2>14. Silent'
      BY <1>0, <1>1, <2>2 DEF Silent
    <2>15. CASE pc.verb = "BODY"
      <3>1. QuitsAreCut' /\ Envelope' /\ DotIsLast' /\ TookWell' /\ Records'
        <4>1. UNCHANGED sent \/ (~ended /\ \E c \in Command : c.verb \notin {"DOT", "QUIT"} /\ sent' = Append(sent, c))
          <5>1. [verb |-> "BODY", about |-> msg] \in Command
            BY <1>0 DEF Command, Verbs, TypeOK
          <5> QED  BY <2>2, <2>15, <5>1
        <4> QED  BY <1>0, <1>1, <2>1, <2>2, <2>15, <4>1, StayInv DEF InSession, At
      <3>2. DataAgreed'
        <4> SUFFICES ASSUME ~ended
                     PROVE  Whole(msg, Len(sent))'
          BY <1>1, <2>1, <2>6, <2>8 DEF DataAgreed, At
        <4>1. Empty(msg)
          BY <2>10, <2>15
        <4>2. msg \notin cut => Len(server.body) + Len(sent') = 1
          <5>1. msg \notin cut => Len(server.body) = 0 /\ Len(sent) = 0
            BY <4>1 DEF Empty
          <5>2. Len(sent') = Len(sent) + 1
            BY <2>12
          <5> QED  BY <5>1, <5>2
        <4>3. \A k \in 1..Len(sent) : sent'[k].verb = "QUIT"
          BY <2>12, <4>1 DEF Empty, OnlyQuits
        <4>4. Len(sent') = Len(sent) + 1 /\ sent'[Len(sent) + 1] = Body(msg) /\ Len(sent) \in Nat
          BY <2>11, <2>12, <2>15 DEF Body
        <4>5. \E i \in 1..Len(sent') : /\ sent'[i] = Body(msg)
                                       /\ \A j \in 1..Len(sent') : j # i => sent'[j].verb = "QUIT"
          BY <4>3, <4>4
        <4> QED  BY <1>1, <2>1, <4>1, <4>2, <4>5 DEF Whole, Empty, OnlyQuits, Body
      <3> QED  BY <2>3, <2>4, <2>7, <2>9, <2>13, <2>14, <3>1, <3>2 DEF Inv
    <2>16. CASE pc.verb = "DOT"
      <3>1. DataAgreed'
        BY <1>1, <2>1, <2>6, <2>8, <2>16 DEF DataAgreed, At
      <3>2. Envelope' /\ TookWell'
        BY <1>0, <1>1, <2>1, <2>2, <2>6, <2>16 DEF Envelope, TookWell, TakenAs, Live, InSession
      <3>3. QuitsAreCut'
        BY <1>0, <1>1, <2>1, <2>2, <2>11, <2>12, <2>16 DEF QuitsAreCut, Silent, Live, InSession
      <3>4. Records'
        BY <1>0, <1>1, <2>1, <2>6, <2>16 DEF Records, Taken, Lost, At, InSession
      <3>5. DotIsLast'
        <4> SUFFICES ASSUME ~ended, NEW k \in 1..Len(sent'), sent'[k].verb = "DOT"
                     PROVE  /\ Whole(sent[k].about, k - 1)'
                            /\ \A j \in 1..Len(sent') : j > k => sent'[j].verb = "QUIT"
                            /\ sent'[k].about \in tried' /\ ~Taken(sent[k].about)'
                            /\ At("DOT", "read")' /\ msg' = sent'[k].about
          BY <2>2, <2>14, <1>1 DEF DotIsLast, Silent
        <4>1. k = Len(sent) + 1 /\ sent'[k].about = msg /\ k - 1 = Len(sent) /\ Len(sent) \in Nat
          BY <2>11, <2>12, <2>16
        <4>2. PICK n \in Nat : n = Len(sent)
          BY <4>1
        <4>3. Whole(msg, n)'
          <5>1. Whole(msg, n)
            BY <2>10, <2>16, <4>2
          <5>2. \A j \in 1..n : sent'[j] = sent[j]
            BY <2>12, <4>2
          <5> QED  BY <1>1, <2>1, <5>1, <5>2 DEF Whole, OneBody, OnlyQuits, Body
        <4>4. ~Taken(msg)
          BY <1>0, <1>1, <2>16 DEF Records
        <4>5. Taken(msg)' <=> Taken(msg)
          BY <1>1, <2>1 DEF Taken
        <4>6. sent'[k].about = msg' /\ k - 1 = n
          BY <2>1, <4>1, <4>2
        <4>7. Whole(sent[k].about, k - 1)' /\ ~Taken(sent[k].about)'
          BY <2>1, <4>3, <4>4, <4>5, <4>6
        <4>8. \A j \in 1..Len(sent') : j > k => sent'[j].verb = "QUIT"
          BY <2>12, <4>1
        <4>9. At("DOT", "read")' /\ msg' = sent'[k].about /\ sent'[k].about \in tried'
          BY <2>1, <2>2, <2>16, <4>1 DEF At
        <4> QED  BY <4>7, <4>8, <4>9
      <3> QED  BY <2>3, <2>4, <2>7, <2>9, <2>13, <2>14, <3>1, <3>2, <3>3, <3>4, <3>5 DEF Inv
    <2> QED  BY <1>1, <2>15, <2>16
  <1> QED  BY <1>2, <1>3 DEF WriteData


\* ReadDot keeps the invariant.
LEMMA ReadDotInv ==
  ASSUME Inv, ReadDot
  PROVE  Inv'
  <1>0. /\ TypeOK /\ Control /\ Silent /\ RepliesInOrder /\ CommandsInOrder /\ DataIsLast
        /\ QuitsAreCut /\ Envelope /\ DataAgreed /\ DotIsLast /\ TookWell /\ Records
    BY DEF Inv
  <1>1. /\ InSession /\ At("DOT", "read") /\ pc.stage = "read" /\ pc.verb = "DOT"
        /\ UNCHANGED <<connected, helloed, canPipeline, dataCommands, sent, collector, server, ended,
                       took, cut, broken, unmarked>>
    BY DEF ReadDot, At, InSession, Elsewhere, serverVars, history
  <1>2. PICK code \in Answers :
          /\ Reads(code)
          /\ IF code = "2xx"
               THEN /\ outcome' = [outcome EXCEPT ![msg] = @ \cup {"success"}]
                    /\ Goto("QUIT", "end") /\ Free
                    /\ UNCHANGED <<msg, leaving, tried>>
               ELSE FailedCallback(code)
    BY DEF ReadDot
  <1>3. CASE code # "2xx"
    BY <1>1, <1>2, <1>3, FailedReadInv
  <1>4. CASE code = "2xx"
    <2>1. /\ pc' = [verb |-> "QUIT", stage |-> "end"] /\ active' = FALSE /\ old' = FALSE
          /\ outcome' = [outcome EXCEPT ![msg] = @ \cup {"success"}]
          /\ UNCHANGED <<msg, leaving, tried>>
      BY <1>2, <1>4 DEF Goto, Free, Touch
    <2>2. connected /\ Live /\ Live' /\ replies # <<>> /\ Head(replies).code = "2xx"
      BY <1>1, <1>2, <1>4, <2>1 DEF Reads, Live
    <2>3. msg \in tried /\ tried \subseteq Messages /\ Taken(msg) /\ outcome[msg] = {}
      BY <1>0, <1>1, <2>2 DEF Records, Control, TypeOK
    <2>4. /\ outcome'[msg] = {"success"} /\ \A m \in Messages : m # msg => outcome'[m] = outcome[m]
          /\ outcome' \in [Messages -> SUBSET {"success", "fail", "defer"}]
      BY <1>0, <2>1, <2>3 DEF TypeOK
    <2>5. TypeOK'
      <3>1. replies' \in Seq([to : Command, code : Codes])
        BY <1>0, <1>2, ReadsType
      <3> QED  BY <1>0, <1>1, <2>1, <2>4, <3>1 DEF TypeOK, Verbs, Stages
    <2>6. Control'
      BY <1>0, <1>1, <2>1 DEF Control, InSession, Verbs
    <2>7. Awaited = <<Cmd("DOT")>> /\ Awaited' = <<>>
      BY <1>1, <2>1 DEF Awaited
    <2>8. RepliesInOrder' /\ CommandsInOrder'
      <3>1. Awaited # <<>> /\ Awaited' = Tail(Awaited)
        BY <2>7
      <3> QED  BY <1>0, <1>1, <1>2, <2>1, <3>1, AwaitedType, ReadsInOrder DEF Reading
    <2>9. OtherThanDot(sent)
      BY <1>0, <1>1, <2>2, NoDotAfterReply
    <2>10. Silent' /\ DataIsLast' /\ QuitsAreCut' /\ TookWell'
      BY <1>0, <1>1, <2>1, <2>2 DEF Silent, DataIsLast, QuitsAreCut, InSession, TookWell, TakenAs
    <2>11. server = NoMail
      BY <1>0, <1>1, <2>2 DEF Envelope
    <2>12. Envelope'
      BY <1>0, <1>1, <2>1, <2>11 DEF Envelope, NoMail
    <2>13. DotIsLast'
      BY <1>1, <2>9 DEF DotIsLast, OtherThanDot
    <2>14. DataAgreed'
      <3>1. replies' = <<>>
        <4>1. replies' \in Seq([to : Command, code : Codes]) /\ Len(replies') <= 0
          BY <2>2, <2>5, <2>7, <2>8 DEF RepliesInOrder, TypeOK
        <4> QED  BY <4>1
      <3> QED  BY <1>1, <2>1, <2>11, <3>1 DEF DataAgreed, NoMail, At
    <2>15. Records'
      <3>1. /\ Taken(msg)' /\ (\A m : Taken(m)' <=> Taken(m)) /\ (\A m : Lost(m)' <=> Lost(m))
        BY <1>1, <2>1, <2>3 DEF Taken, Lost
      <3>2. \A m \in tried \ {msg} : m \in Messages /\ outcome'[m] = outcome[m]
        BY <2>3, <2>4
      <3>3. \A m \in Messages \ tried : outcome'[m] = {}
        BY <1>0, <2>3, <2>4 DEF Records
      <3> QED  BY <1>0, <1>1, <2>1, <2>4, <3>1, <3>2, <3>3 DEF Records, InSession, At
    <2> QED  BY <2>5, <2>6, <2>8, <2>10, <2>12, <2>13, <2>14, <2>15 DEF Inv
  <1> QED  BY <1>3, <1>4

\* NoQuit keeps the invariant.
LEMMA NoQuitInv ==
  ASSUME Inv, NoQuit
  PROVE  Inv'
  <1>0. TypeOK /\ Control /\ InSession /\ pc.verb = "QUIT"
    BY DEF Inv, NoQuit, At, InSession
  <1>1. TypeOK'
    BY <1>0 DEF NoQuit, Enqueue, TypeOK, Stages, Elsewhere, clientVars, serverVars, history
  <1>2. connected' => connected /\ UNCHANGED <<sent, dataCommands>> /\ dataCommands < MaxMessages
    BY DEF NoQuit, clientVars
  <1> QED  BY <1>0, <1>1, <1>2, EnqueueInv DEF NoQuit, Elsewhere, clientVars, serverVars, history

\* Quit keeps the invariant.
LEMMA QuitInv ==
  ASSUME Inv, Quit
  PROVE  Inv'
  <1>0. /\ TypeOK /\ Control /\ InSession /\ pc.verb = "QUIT" /\ pc.stage = "end"
        /\ UNCHANGED <<helloed, canPipeline, dataCommands, replies, collector, server, ended, took,
                       cut, broken, unmarked>>
    BY DEF Inv, Quit, At, InSession, Elsewhere, serverVars, history
  <1>1. CASE Write("QUIT") /\ connected' = FALSE /\ active' = FALSE /\ Enqueue /\ UNCHANGED <<outcome, tried, old>>
    <2>1. "QUIT" \in Verbs
      BY DEF Verbs
    <2>2. sent' \in Seq(Command) /\ Cmd("QUIT") \in Command /\ Cmd("QUIT").verb = "QUIT"
          /\ sent' = (IF ended THEN sent ELSE Append(sent, Cmd("QUIT")))
      BY <1>0, <1>1, <2>1, WriteType
    <2>3. TypeOK'
      <3>1. /\ pc' \in [verb : Verbs \cup {"new", "pooled", "dropped"}, stage : Stages]
            /\ msg' \in Messages \cup {None} /\ leaving' \in Nat
        BY <1>0, <1>1 DEF TypeOK, Enqueue, Stages
      <3>2. connected' \in BOOLEAN /\ active' \in BOOLEAN /\ old' \in BOOLEAN
        BY <1>0, <1>1 DEF TypeOK
      <3> HIDE DEF Command
      <3> QED  BY <1>0, <1>1, <2>2, <3>1, <3>2 DEF TypeOK
    <2>4. UNCHANGED sent \/ (~ended /\ \E c \in Command : c.verb # "DOT" /\ sent' = Append(sent, c))
      BY <2>2
    <2> QED  BY <1>0, <1>1, <2>3, <2>4, EnqueueInv
  <1>2. CASE connected /\ ended /\ Broken /\ UNCHANGED <<connected, sent>>
    BY <1>0, <1>2, WriteThrowsInv DEF WriteThrows
  <1> QED  BY <1>1, <1>2 DEF Quit

\* A message is taken up, with a new connection or with one of the pool.
LEMMA SessionInv ==
  ASSUME Inv, NEW m \in Messages, Session(m), TypeOK', pc.verb \in {"new", "pooled"},
         connected' => connected /\ replies' = <<>>,
         pc.verb = "new" \/ connected, UNCHANGED ended,
         broken' = (IF ended \/ ~connected' THEN broken \cup {m} ELSE broken)
  PROVE  Inv'
  <1>0. /\ TypeOK /\ Control /\ Silent /\ RepliesInOrder /\ CommandsInOrder /\ DataIsLast
        /\ QuitsAreCut /\ Envelope /\ DataAgreed /\ DotIsLast /\ TookWell /\ Records
    BY DEF Inv
  <1>1. m \in Messages \ tried
    BY <1>0 DEF Session, NextMessage, TypeOK
  <1>2. /\ pc' = [verb |-> IF helloed THEN "RSET" ELSE "EHLO", stage |-> "begin"]
        /\ msg' = m /\ tried' = tried \cup {m} /\ msg = None /\ ~InSession /\ InSession'
        /\ UNCHANGED <<leaving, outcome, collector, sent, server, took, cut, dataCommands, canPipeline, helloed>>
    BY <1>0 DEF Session, Goto, serverVars, Control, InSession
  <1>3. server = NoMail /\ ~server.data /\ server.body = <<>>
    BY <1>0 DEF Control, Envelope, NoMail
  <1>4. Control'
    BY <1>0, <1>2 DEF Control
  <1>5. Awaited' = <<>>
    BY <1>2 DEF Awaited
  <1>6. RepliesInOrder'
    BY <1>2, <1>5 DEF RepliesInOrder, Live, Reading
  <1>7. Live' => connected' /\ Live
    BY <1>2 DEF Live, Reading
  <1>8. Live' /\ ~ended => sent = <<>> \/ sent[1].verb = "QUIT"
    <2>1. CASE pc.verb = "new"
      BY <1>0, <2>1 DEF Control
    <2>2. CASE pc.verb = "pooled"
      <3>1. Awaited = <<>>
        BY <1>0, <2>2 DEF Awaited, Control
      <3> SUFFICES ASSUME Live, ~ended, sent # <<>>
                   PROVE  sent[1].verb = "QUIT"
        BY <1>7
      <3>2. Len(sent) >= 1 /\ Len(replies) \in Nat
        BY <1>0 DEF TypeOK
      <3>3. \/ \E j \in 1..1 : sent[j].verb = "QUIT"
            \/ Len(replies) + 1 <= Len(Awaited)
        BY <1>0, <1>3, <3>2 DEF CommandsInOrder, RestOnTheWay
      <3> QED  BY <3>1, <3>2, <3>3
    <2> QED  BY <2>1, <2>2
  <1>9. CommandsInOrder'
    <2>1. Live' /\ ~ended => RestOnTheWay'
      <3> SUFFICES ASSUME Live', ~ended
                   PROVE  RestOnTheWay'
        OBVIOUS
      <3>1. sent' = sent /\ replies' = <<>> /\ Awaited' = <<>> /\ Len(sent) \in Nat
        BY <1>0, <1>2, <1>5, <1>7 DEF TypeOK
      <3>2. CASE sent = <<>>
        BY <3>1, <3>2 DEF RestOnTheWay
      <3>3. CASE Len(sent) >= 1 /\ sent[1].verb = "QUIT"
        BY <3>1, <3>3 DEF RestOnTheWay, OtherThanQuit
      <3>4. sent = <<>> \/ Len(sent) >= 1
        BY <1>0 DEF TypeOK
      <3> QED  BY <1>8, <3>2, <3>3, <3>4
    <2> QED  BY <1>2, <2>1 DEF CommandsInOrder
  <1>10. DataIsLast'
    BY <1>0, <1>2, <1>7 DEF DataIsLast
  <1>11. Silent' /\ QuitsAreCut'
    BY <1>0, <1>2, <1>3, <1>7, <1>8 DEF QuitsAreCut, Silent
  <1>12. Envelope'
    BY <1>2, <1>3 DEF Envelope, NoMail, At
  <1>13. DataAgreed'
    BY <1>2, <1>3, <1>7 DEF DataAgreed, At
  <1>14. DotIsLast'
    <2>1. \A k \in 1..Len(sent) : sent[k].verb # "DOT"
      BY <1>0, NoDot DEF At
    <2> QED  BY <1>2, <2>1 DEF DotIsLast
  <1>15. TookWell' /\ ~Taken(m)'
    BY <1>0, <1>1, <1>2 DEF TookWell, TakenAs, Taken
  <1>16. Records'
    <2>1. \A x : (Taken(x)' <=> Taken(x)) /\ (Lost(x) => Lost(x)')
      BY <1>2 DEF Taken, Lost
    <2>2. outcome[m] = {}
      BY <1>0, <1>1 DEF Records
    <2>3. ended \/ ~connected' => Lost(m)'
      BY DEF Lost
    <2>4. tried' \ {msg'} = tried \ {msg}
      BY <1>0, <1>1, <1>2, DialogueAssumption DEF TypeOK
    <2> QED  BY <1>0, <1>2, <1>15, <2>1, <2>2, <2>3, <2>4 DEF Records, At
  <1> QED  BY <1>4, <1>6, <1>9, <1>10, <1>11, <1>12, <1>13, <1>14, <1>15, <1>16 DEF Inv


\* Connect keeps the invariant.
LEMMA ConnectInv ==
  ASSUME Inv, NEW m \in Messages, Connect(m)
  PROVE  Inv'
  <1>0. TypeOK /\ Control /\ RepliesInOrder /\ pc.verb = "new"
    BY DEF Inv, Connect
  <1>1. PICK code \in Answers : /\ Reads(code)
                                /\ connected' = (code = "2xx")
                                /\ active' = (code # "2xx")
    BY DEF Connect
  <1>2. replies' \in Seq([to : Command, code : Codes])
    BY <1>0, <1>1, ReadsType
  <1>3. connected' => connected /\ replies' = <<>>
    <2> SUFFICES ASSUME connected'
                 PROVE  connected /\ replies' = <<>>
      OBVIOUS
    <2>1. connected /\ replies # <<>> /\ replies' = Tail(replies) /\ Live
      BY <1>0, <1>1 DEF Reads, Live
    <2>2. Awaited = <<[verb |-> "greeting", about |-> None]>>
      BY <1>0 DEF Awaited, Control
    <2> DEFINE R == [to : Command, code : Codes]
    <2>3. replies \in Seq(R) /\ Len(replies) <= 1
      BY <1>0, <2>1, <2>2 DEF TypeOK, RepliesInOrder
    <2>4. replies # <<>>
      BY <2>1
    <2> HIDE DEF R
    <2>5. Tail(replies) = <<>>
      BY <2>3, <2>4, OneElement
    <2> QED  BY <2>1, <2>5
  <1>4. /\ Session(m) /\ old' = FALSE /\ UNCHANGED ended
        /\ broken' = (IF ended \/ ~connected' THEN broken \cup {m} ELSE broken)
    BY DEF Connect, Touch, BreaksIf, Session, serverVars
  <1>5. TypeOK'
    <2>1. /\ pc' \in [verb : Verbs \cup {"new", "pooled", "dropped"}, stage : Stages]
          /\ msg' \in Messages \cup {None} /\ tried' \in SUBSET Messages
          /\ cut' \in SUBSET tried' /\ broken' \in SUBSET tried'
      BY <1>0, <1>4 DEF Session, Goto, TypeOK, Verbs, Stages
    <2>2. connected' \in BOOLEAN /\ active' \in BOOLEAN
      BY <1>1
    <2> QED  BY <1>0, <1>2, <1>4, <2>1, <2>2 DEF Session, TypeOK, serverVars
  <1> QED  BY <1>0, <1>3, <1>4, <1>5, SessionInv

\* Dequeue keeps the invariant.
LEMMA DequeueInv ==
  ASSUME Inv, NEW m \in Messages, Dequeue(m)
  PROVE  Inv'
  <1>0. TypeOK /\ Control /\ RepliesInOrder /\ pc.verb = "pooled" /\ connected
    BY DEF Inv, Dequeue
  <1>1. /\ Session(m) /\ active' = TRUE /\ old' = FALSE /\ UNCHANGED <<ended, connected, replies>>
        /\ broken' = (IF ended \/ ~connected' THEN broken \cup {m} ELSE broken)
    BY <1>0 DEF Dequeue, Touch, BreaksIf, Session, serverVars
  <1>2. replies = <<>>
    <2>1. Awaited = <<>> /\ Live
      BY <1>0 DEF Awaited, Control, Live
    <2>2. replies \in Seq([to : Command, code : Codes]) /\ Len(replies) <= 0
      BY <1>0, <2>1 DEF RepliesInOrder, TypeOK
    <2> QED  BY <2>2
  <1>3. TypeOK'
    <2>1. /\ pc' \in [verb : Verbs \cup {"new", "pooled", "dropped"}, stage : Stages]
          /\ msg' \in Messages \cup {None} /\ tried' \in SUBSET Messages
          /\ cut' \in SUBSET tried' /\ broken' \in SUBSET tried'
      BY <1>0, <1>1 DEF Session, Goto, TypeOK, Verbs, Stages
    <2> QED  BY <1>0, <1>1, <2>1 DEF Session, TypeOK, serverVars
  <1> QED  BY <1>0, <1>1, <1>2, <1>3, SessionInv

\* Finally keeps the invariant.
LEMMA FinallyInv ==
  ASSUME Inv, Finally
  PROVE  Inv'
  <1>0. /\ TypeOK /\ Control /\ leaving > 0 /\ leaving' = leaving - 1 /\ active' = FALSE /\ old' = FALSE
        /\ unmarked' \in BOOLEAN
        /\ UNCHANGED <<connected, helloed, canPipeline, dataCommands, pc, msg, outcome, tried,
                       sent, replies, collector, server, ended, took, cut, broken>>
    BY DEF Inv, Finally, Free, Touch, serverVars, TypeOK, InSession
  <1>1. TypeOK'
    <2>1. leaving' \in Nat
      BY <1>0 DEF TypeOK
    <2>2. old' \in BOOLEAN /\ active' \in BOOLEAN
      BY <1>0
    <2> HIDE DEF Mail, Command
    <2> QED  BY <1>0, <2>1, <2>2 DEF TypeOK
  <1>2. Control'
    BY <1>0 DEF Control, InSession
  <1> QED  BY <1>0, <1>1, <1>2, QuietInv

-----------------------------------------------------------------------------
(* The steps of the idle thread                                            *)

\* Looks keeps the invariant.
LEMMA LooksInv ==
  ASSUME Inv, TimePasses \/ CollectorLooks
  PROVE  Inv'
  <1>0. /\ TypeOK /\ Control /\ old' \in BOOLEAN /\ collector' \in {collector, "quits"}
        /\ collector' # collector => ~active
        /\ UNCHANGED <<connected, active, helloed, canPipeline, dataCommands, pc, msg, leaving, outcome,
                       tried, sent, replies, server, ended, took, cut, broken, unmarked>>
    BY DEF Inv, TimePasses, CollectorLooks, TypeOK, workerVars, serverVars, history, clientVars
  <1>1. TypeOK'
    BY <1>0 DEF TypeOK
  <1>2. Control'
    BY <1>0 DEF Control, InSession
  <1> QED  BY <1>0, <1>1, <1>2, QuietInv

\* CollectorCloses keeps the invariant.
LEMMA CollectorClosesInv ==
  ASSUME Inv, CollectorCloses
  PROVE  Inv'
  <1>0. /\ TypeOK /\ Control /\ Silent /\ RepliesInOrder /\ CommandsInOrder /\ DataIsLast
        /\ QuitsAreCut /\ Envelope /\ DataAgreed /\ DotIsLast /\ TookWell /\ Records
    BY DEF Inv
  <1>1. /\ collector \in {"closes", "disposes"} /\ collector' = "done" /\ connected' = FALSE
        /\ active' \in BOOLEAN
        /\ cut' = IF connected /\ InSession THEN cut \cup {msg} ELSE cut
        /\ UNCHANGED <<old, helloed, canPipeline, dataCommands, pc, msg, leaving, outcome, tried, sent,
                       replies, server, ended, took, broken, unmarked>>
    BY <1>0 DEF CollectorCloses, CutNow, workerVars, serverVars, TypeOK
  <1>2. TypeOK'
    BY <1>0, <1>1 DEF TypeOK, Control
  <1>3. Control'
    BY <1>0, <1>1 DEF Control, InSession
  <1>4. /\ Live' => Live
        /\ (Taken(msg)' <=> Taken(msg)) /\ \A m : (Taken(m)' <=> Taken(m)) /\ (Lost(m) => Lost(m)')
        /\ UNCHANGED Awaited
    BY <1>1 DEF Live, Taken, Lost, Awaited, Cmd
  <1>5. /\ Silent' /\ RepliesInOrder' /\ DataIsLast' /\ QuitsAreCut' /\ Envelope'
    BY <1>0, <1>1, <1>4 DEF Silent, RepliesInOrder, DataIsLast, QuitsAreCut, Envelope, InSession, At
  <1>9. CommandsInOrder'
    BY <1>0, <1>1, <1>4 DEF CommandsInOrder, RestOnTheWay, OtherThanQuit
  <1>6. DotIsLast'
    <2>1. \A m, n : Whole(m, n) => Whole(m, n)'
      BY <1>1 DEF Whole, OneBody, OnlyQuits, Body
    <2> QED  BY <1>0, <1>1, <1>4, <2>1 DEF DotIsLast, At
  <1>10. DataAgreed'
    <2>1. \A m, n : Whole(m, n) => Whole(m, n)'
      BY <1>1 DEF Whole, OneBody, OnlyQuits, Body
    <2>2. \A m : Empty(m) => Empty(m)'
      BY <1>1 DEF Empty, OnlyQuits
    <2> QED  BY <1>0, <1>1, <1>4, <2>1, <2>2 DEF DataAgreed, At
  <1>7. TookWell'
    BY <1>0, <1>1 DEF TookWell, TakenAs, OneBody
  <1>8. Records'
    <2>1. InSession => Lost(msg)'
      BY <1>0, <1>1 DEF Records, Lost
    <2> QED  BY <1>0, <1>1, <1>4, <2>1 DEF Records, InSession, At
  <1> QED  BY <1>2, <1>3, <1>5, <1>6, <1>7, <1>8, <1>9, <1>10 DEF Inv


\* CollectorQuits keeps the invariant.
LEMMA CollectorQuitsInv ==
  ASSUME Inv, CollectorQuits
  PROVE  Inv'
  <1>0. /\ TypeOK /\ Control /\ Silent /\ RepliesInOrder /\ CommandsInOrder /\ DataIsLast
        /\ QuitsAreCut /\ Envelope /\ DataAgreed /\ DotIsLast /\ TookWell /\ Records
    BY DEF Inv
  <1>1. /\ collector = "quits" /\ collector' \in {"closes", "disposes"} /\ pc.verb # "new"
        /\ UNCHANGED <<connected, old, helloed, canPipeline, dataCommands, pc, msg, leaving, outcome, tried,
                       replies, server, ended, took, broken, unmarked>>
    BY <1>0 DEF CollectorQuits, workerVars, serverVars, Control
  <1>2. CASE WriteThrows /\ active' = (active \/ connected) /\ UNCHANGED <<sent, cut>>
    <2>1. TypeOK'
      BY <1>0, <1>1, <1>2 DEF TypeOK
    <2>2. Control'
      BY <1>0, <1>1, <1>2 DEF Control, InSession
    <2> QED  BY <1>1, <1>2, <2>1, <2>2, QuietInv
  <1>3. CASE Write("QUIT") /\ active' = TRUE /\ CutNow
    <2>1. /\ sent' \in Seq(Command) /\ sent \in Seq(Command) /\ Cmd("QUIT") \in Command
          /\ Cmd("QUIT").verb = "QUIT" /\ sent' = IF ended THEN sent ELSE Append(sent, Cmd("QUIT"))
      <3>1. "QUIT" \in Verbs
        BY DEF Verbs
      <3> QED  BY <1>0, <1>3, <3>1, WriteType DEF TypeOK
    <2>2. ~ended => /\ Len(sent') = Len(sent) + 1 /\ sent'[Len(sent) + 1].verb = "QUIT"
                    /\ \A k \in 1..Len(sent) : sent'[k] = sent[k]
      <3> HIDE DEF Command
      <3> QED  BY <2>1
    <2>3. cut' = IF InSession THEN cut \cup {msg} ELSE cut
      BY <1>3 DEF CutNow
    <2>4. TypeOK'
      BY <1>0, <1>1, <1>3, <2>1, <2>3 DEF TypeOK, Control
    <2>5. Control'
      BY <1>0, <1>1, <1>3 DEF Control, InSession
    <2>6. Silent'
      BY <1>0, <1>1, <2>1 DEF Silent
    <2>7. Awaited' = Awaited /\ Live' = Live /\ InSession' = InSession
      BY <1>1 DEF Awaited, Cmd, Live, InSession
    <2>8. RepliesInOrder'
      BY <1>0, <1>1, <2>7 DEF RepliesInOrder
    <2>9. CommandsInOrder'
      <3>1. ~ended /\ RestOnTheWay => RestOnTheWay'
        <4> SUFFICES ASSUME ~ended, RestOnTheWay
                     PROVE  RestOnTheWay'
          OBVIOUS
        <4>1. Len(sent) \in Nat /\ ~OtherThanQuit(sent')
          BY <2>1, <2>2 DEF OtherThanQuit
        <4>2. ASSUME NEW i \in 1..Len(sent')
              PROVE  \/ \E j \in 1..i : sent'[j].verb = "QUIT"
                     \/ Len(replies) + i <= Len(Awaited) /\ sent'[i] = Awaited[Len(replies) + i]
          <5>1. CASE i \in 1..Len(sent)
            BY <2>2, <5>1, <4>1 DEF RestOnTheWay
          <5>2. CASE i = Len(sent) + 1
            BY <2>2, <5>2, <4>1
          <5> QED  BY <5>1, <5>2, <2>2, <4>1
        <4> QED  BY <1>1, <2>7, <4>1, <4>2 DEF RestOnTheWay
      <3> QED  BY <1>0, <1>1, <2>7, <3>1 DEF CommandsInOrder
    <2>10. DataIsLast'
      <3> SUFFICES ASSUME Live, NEW k \in 1..Len(sent'), sent'[k].verb = "DATA"
                   PROVE  /\ pc.verb = "DATA" /\ pc.stage \in Reading
                          /\ \A j \in 1..Len(sent') : j > k => sent'[j].verb = "QUIT"
        BY <1>1, <2>7 DEF DataIsLast
      <3>1. ~ended /\ k \in 1..Len(sent) /\ sent[k].verb = "DATA"
        BY <1>0, <1>1, <2>1, <2>2, <2>6 DEF Silent
      <3> QED  BY <1>0, <2>1, <2>2, <3>1 DEF DataIsLast
    <2>11. QuitsAreCut'
      BY <1>1, <2>3, <2>7 DEF QuitsAreCut
    <2>12. Envelope'
      BY <1>0, <1>1, <2>7 DEF Envelope, At
    <2>13. DataAgreed'
      <3> SUFFICES ASSUME Live, ~ended
                   PROVE  DataAgreed'
        BY <1>1, <2>7 DEF DataAgreed
      <3>1. InSession /\ Empty(msg) => Empty(msg)'
        BY <1>1, <2>1, <2>2, <2>3 DEF Empty, OnlyQuits
      <3>2. InSession /\ Whole(msg, Len(sent)) => Whole(msg, Len(sent))'
        <4> SUFFICES ASSUME InSession, Whole(msg, Len(sent))
                     PROVE  Whole(msg, Len(sent))'
          OBVIOUS
        <4>1. Len(sent) \in Nat /\ Len(sent') = Len(sent) + 1 /\ msg' \in cut' /\ msg' = msg
          BY <1>1, <2>1, <2>2, <2>3
        <4>2. CASE /\ OneBody(msg, server.body)
                   /\ \A j \in 1..Len(sent) : sent[j].verb = "QUIT"
          <5>1. \A j \in 1..Len(sent') : sent'[j].verb = "QUIT"
            BY <2>2, <4>1, <4>2
          <5> QED  BY <1>1, <4>1, <4>2, <5>1 DEF Whole, OneBody
        <4>3. CASE /\ OnlyQuits(server.body)
                   /\ \E i \in 1..Len(sent) : /\ sent[i] = Body(msg)
                                              /\ \A j \in 1..Len(sent) : j # i => sent[j].verb = "QUIT"
          <5>1. PICK i \in 1..Len(sent) : /\ sent[i] = Body(msg)
                                          /\ \A j \in 1..Len(sent) : j # i => sent[j].verb = "QUIT"
            BY <4>3
          <5>2. i \in 1..Len(sent') /\ sent'[i] = Body(msg)
            BY <2>2, <4>1, <5>1
          <5>3. \A j \in 1..Len(sent') : j # i => sent'[j].verb = "QUIT"
            BY <2>2, <4>1, <5>1
          <5> QED  BY <1>1, <4>1, <4>3, <5>2, <5>3 DEF Whole, OnlyQuits, Body
        <4> QED  BY <4>2, <4>3 DEF Whole
      <3>3. pc.verb \in {"DATA", "BODY", "DOT"} => InSession
        BY DEF InSession
      <3> QED  BY <1>0, <1>1, <2>7, <3>1, <3>2, <3>3 DEF DataAgreed, At
    <2>14. \A m : (Taken(m)' <=> Taken(m)) /\ (Lost(m) => Lost(m)')
      BY <1>1, <2>3 DEF Taken, Lost
    <2>15. DotIsLast'
      <3> SUFFICES ASSUME NEW k \in 1..Len(sent'), sent'[k].verb = "DOT"
                   PROVE  /\ Whole(sent[k].about, k - 1)'
                          /\ \A j \in 1..Len(sent') : j > k => sent'[j].verb = "QUIT"
                          /\ sent'[k].about \in tried' /\ ~Taken(sent[k].about)'
                          /\ \/ At("DOT", "read") /\ msg = sent'[k].about
                             \/ /\ pc.verb = "dropped"
                                /\ outcome[sent'[k].about] = {"defer"} /\ Lost(sent[k].about)'
        BY <1>1 DEF DotIsLast, At
      <3>1. ~ended /\ k \in 1..Len(sent) /\ sent[k].verb = "DOT" /\ sent'[k] = sent[k] /\ Len(sent) \in Nat
        BY <1>0, <1>1, <2>1, <2>2, <2>6 DEF Silent
      <3>2. \A m : \A n \in 0..Len(sent) : Whole(m, n) => Whole(m, n)'
        <4>1. server' = server /\ \A m : m \in cut => m \in cut'
          BY <1>1, <2>3
        <4>2. \A n \in 0..Len(sent) : \A j \in 1..n : sent'[j] = sent[j]
          BY <2>2, <3>1
        <4>3. ASSUME NEW m, NEW n \in 0..Len(sent), Whole(m, n) PROVE Whole(m, n)'
          BY <4>1, <4>2, <4>3 DEF Whole, OneBody, OnlyQuits, Body
        <4> QED  BY <4>3
      <3>3. k - 1 \in 0..Len(sent)
        BY <3>1
      <3>4. Whole(sent[k].about, k - 1)'
        BY <1>0, <3>1, <3>2, <3>3 DEF DotIsLast
      <3>5. \A j \in 1..Len(sent') : j > k => sent'[j].verb = "QUIT"
        BY <1>0, <2>2, <3>1 DEF DotIsLast
      <3>6. sent'[k].about \in tried' /\ ~Taken(sent[k].about)'
        BY <1>0, <1>1, <2>14, <3>1 DEF DotIsLast
      <3>7. \/ At("DOT", "read") /\ msg = sent'[k].about
            \/ /\ pc.verb = "dropped"
               /\ outcome[sent'[k].about] = {"defer"} /\ Lost(sent[k].about)'
        BY <1>0, <2>14, <3>1 DEF DotIsLast
      <3> QED  BY <3>4, <3>5, <3>6, <3>7
    <2>16. TookWell'
      BY <1>0, <1>1, <2>3 DEF TookWell, TakenAs, OneBody
    <2>17. Records'
      BY <1>0, <1>1, <2>7, <2>14 DEF Records, At
    <2> QED  BY <2>4, <2>5, <2>6, <2>8, <2>9, <2>10, <2>11, <2>12, <2>13, <2>15, <2>16, <2>17 DEF Inv
  <1> QED  BY <1>2, <1>3 DEF CollectorQuits

-----------------------------------------------------------------------------
(* The steps of the server                                                 *)

\* ServerEnds keeps the invariant.
LEMMA ServerEndsInv ==
  ASSUME Inv, ServerEnds
  PROVE  Inv'
  <1>0. /\ TypeOK /\ Control /\ Silent /\ RepliesInOrder /\ CommandsInOrder /\ DataIsLast
        /\ QuitsAreCut /\ Envelope /\ DataAgreed /\ DotIsLast /\ TookWell /\ Records
    BY DEF Inv
  <1>1. /\ ended' = TRUE /\ sent' = <<>> /\ replies' \in {replies, <<>>}
        /\ broken' = IF InSession /\ connected THEN broken \cup {msg} ELSE broken
        /\ UNCHANGED <<connected, active, old, helloed, canPipeline, dataCommands, pc, msg, leaving, outcome,
                       tried, collector, server, took, cut, unmarked>>
    BY DEF ServerEnds, clientVars, workerVars
  <1>2. TypeOK'
    <2>1. replies' \in Seq([to : Command, code : Codes]) /\ sent' \in Seq(Command)
      <3> DEFINE R == [to : Command, code : Codes]
      <3>1. replies \in Seq(R)
        BY <1>0 DEF TypeOK
      <3> HIDE DEF R, Command
      <3>2. <<>> \in Seq(R) /\ <<>> \in Seq(Command)
        OBVIOUS
      <3>3. replies' \in Seq(R) /\ sent' \in Seq(Command)
        BY <1>1, <3>1, <3>2
      <3> QED  BY <3>3 DEF R
    <2>2. broken' \in SUBSET tried
      BY <1>0, <1>1 DEF TypeOK, Control
    <2> HIDE DEF Mail, Command
    <2> QED  BY <1>0, <1>1, <2>1, <2>2 DEF TypeOK
  <1>3. Control'
    BY <1>0, <1>1 DEF Control, InSession
  <1>4. Awaited' = Awaited /\ Live' = Live /\ InSession' = InSession
    BY <1>1 DEF Awaited, Cmd, Live, InSession
  <1>5. RepliesInOrder'
    <2>1. Awaited \in Seq(Command)
      BY <1>0, AwaitedType
    <2>2. Len(Awaited) >= 0
      BY <2>1
    <2>3. CASE replies' = <<>>
      BY <1>4, <2>2, <2>3 DEF RepliesInOrder
    <2>4. CASE replies' = replies
      BY <1>0, <1>4, <2>4 DEF RepliesInOrder
    <2> QED  BY <1>1, <2>3, <2>4
  <1>6. Silent' /\ CommandsInOrder' /\ DataIsLast' /\ QuitsAreCut' /\ DataAgreed' /\ DotIsLast'
    BY <1>1 DEF Silent, CommandsInOrder, DataIsLast, QuitsAreCut, DataAgreed, DotIsLast
  <1>7. Envelope'
    BY <1>0, <1>1, <1>4 DEF Envelope, At
  <1>8. TookWell'
    BY <1>0, <1>1 DEF TookWell, TakenAs, OneBody
  <1>9. Records'
    <2>1. (\A m : (Taken(m)' <=> Taken(m)) /\ (Lost(m) => Lost(m)')) /\ (InSession => Lost(msg)')
      BY <1>0, <1>1 DEF Taken, Lost, Records
    <2> QED  BY <1>0, <1>1, <1>4, <2>1 DEF Records, At
  <1> QED  BY <1>2, <1>3, <1>5, <1>6, <1>7, <1>8, <1>9 DEF Inv


\* What a session awaits are answers to its own commands.
LEMMA AwaitedIsOfSession ==
  ASSUME TypeOK, Control, NEW i \in 1..Len(Awaited)
  PROVE  /\ Awaited[i].verb \in Verbs
         /\ pc.verb # "new" => InSession /\ Awaited[i] = Cmd(Awaited[i].verb)
         /\ Awaited[i].verb \in {"MAIL", "RCPT", "DATA", "DOT"} => Awaited[i].about = msg
         /\ Awaited[i].verb = "DATA" => i = Len(Awaited)
  <1>1. \A verb \in Verbs : Cmd(verb) = Cmd(Cmd(verb).verb) /\ Cmd(verb).verb = verb
                            /\ (verb \in {"MAIL", "RCPT", "DATA", "DOT"} => Cmd(verb).about = msg)
    BY DEF Cmd
  <1>2. {"MAIL", "RCPT", "DATA", "greeting"} \subseteq Verbs
    BY DEF Verbs
  <1>3. CASE pc.verb = "new"
    <2>1. Awaited = <<[verb |-> "greeting", about |-> None]>>
      BY <1>3 DEF Awaited, Control
    <2> QED  BY <1>2, <1>3, <2>1
  <1>4. CASE pc.stage = "read"
    <2>1. Awaited = <<Cmd(pc.verb)>> /\ pc.verb \in Verbs /\ InSession
      BY <1>4 DEF Awaited, Control, InSession
    <2> QED  BY <1>1, <1>4, <2>1
  <1>5. CASE pc.stage = "readMail"
    <2>1. Awaited = <<Cmd("MAIL"), Cmd("RCPT"), Cmd("DATA")>> /\ InSession
      BY <1>5 DEF Awaited, Control, InSession
    <2>2. Len(Awaited) = 3
      BY <2>1
    <2>3. i \in {1, 2, 3}
      BY <2>2
    <2>4. "MAIL" \in Verbs /\ "RCPT" \in Verbs /\ "DATA" \in Verbs
      BY <1>2
    <2> QED  BY <1>1, <2>1, <2>2, <2>3, <2>4
  <1>6. CASE pc.stage = "readRcpt"
    <2>1. Awaited = <<Cmd("RCPT"), Cmd("DATA")>> /\ InSession
      BY <1>6 DEF Awaited, Control, InSession
    <2>2. Len(Awaited) = 2
      BY <2>1
    <2>3. i \in {1, 2}
      BY <2>2
    <2>4. "MAIL" \in Verbs /\ "RCPT" \in Verbs /\ "DATA" \in Verbs
      BY <1>2
    <2> QED  BY <1>1, <2>1, <2>2, <2>3, <2>4
  <1>7. CASE canPipeline /\ pc.verb = "RCPT" /\ pc.stage \in {"begin", "write"}
    <2>1. Awaited = <<Cmd("MAIL")>> /\ InSession /\ "MAIL" \in Verbs
      BY <1>2, <1>7 DEF Awaited, InSession
    <2> QED  BY <1>1, <1>7, <2>1
  <1>8. CASE canPipeline /\ pc.verb = "DATA" /\ pc.stage \in {"begin", "write"}
    <2>1. Awaited = <<Cmd("MAIL"), Cmd("RCPT")>> /\ InSession
      BY <1>8 DEF Awaited, InSession
    <2>2. Len(Awaited) = 2
      BY <2>1
    <2>3. i \in {1, 2}
      BY <2>2
    <2>4. "MAIL" \in Verbs /\ "RCPT" \in Verbs
      BY <1>2
    <2> QED  BY <1>1, <2>1, <2>2, <2>3, <2>4
  <1>9. CASE Awaited = <<>>
    BY <1>9
  <1> QED  BY <1>3, <1>4, <1>5, <1>6, <1>7, <1>8, <1>9 DEF Awaited

\* ServerObeys keeps the invariant.
LEMMA ServerObeysInv ==
  ASSUME Inv, ServerObeys
  PROVE  Inv'
  <1>0. /\ TypeOK /\ Control /\ Silent /\ RepliesInOrder /\ CommandsInOrder /\ DataIsLast
        /\ QuitsAreCut /\ Envelope /\ DataAgreed /\ DotIsLast /\ TookWell /\ Records
    BY DEF Inv
  <1> DEFINE c == Head(sent)
             R == [to : Command, code : Codes]
  <1>1. /\ ~ended /\ sent # <<>> /\ ~server.data /\ sent' = Tail(sent)
        /\ UNCHANGED <<connected, active, old, helloed, canPipeline, dataCommands, pc, msg, leaving, outcome,
                       tried, collector, ended, took, cut, broken, unmarked>>
    BY DEF ServerObeys, clientVars, workerVars, history
  <1>2. PICK code \in Codes :
          /\ Answer(code)
          /\ \/ /\ c.verb \in {"EHLO", "HELO", "RSET"} /\ code = "2xx" /\ server' = NoMail
             \/ /\ c.verb = "MAIL" /\ server.from = None /\ code = "2xx"
                /\ server' = [server EXCEPT !.from = c.about]
             \/ /\ c.verb = "RCPT" /\ server.from # None /\ code = "2xx"
                /\ server' = [server EXCEPT !.to = c.about]
             \/ /\ c.verb = "DATA" /\ server.to # None /\ code = "354"
                /\ server' = [server EXCEPT !.data = TRUE]
             \/ c.verb # "QUIT" /\ code \in Refusals /\ UNCHANGED server
    BY DEF ServerObeys, Codes, Refusals
  <1>3. /\ sent \in Seq(Command) /\ c \in Command /\ c = sent[1] /\ c.verb # "QUIT"
        /\ sent' \in Seq(Command) /\ Len(sent') = Len(sent) - 1 /\ Len(sent) \in Nat \ {0}
        /\ \A i \in 1..Len(sent') : sent'[i] = sent[i + 1]
    <2>1. sent \in Seq(Command)
      BY <1>0 DEF TypeOK
    <2>2. c.verb # "QUIT"
      BY <1>2
    <2> HIDE DEF Command
    <2> QED  BY <1>1, <2>1, <2>2
  <1>4. /\ replies \in Seq(R) /\ replies' \in Seq(R) /\ Len(replies') = Len(replies) + 1
        /\ replies' # <<>> /\ replies'[Len(replies')] = [to |-> c, code |-> code]
        /\ \A i \in 1..Len(replies) : replies'[i] = replies[i]
        /\ Len(replies) \in Nat
    <2>1. replies \in Seq(R) /\ [to |-> c, code |-> code] \in R
      BY <1>0, <1>3 DEF TypeOK
    <2>2. replies' = Append(replies, [to |-> c, code |-> code])
      BY <1>2 DEF Answer
    <2> HIDE DEF R
    <2>3. [to |-> c, code |-> code].code = code
      OBVIOUS
    <2> QED  BY <2>1, <2>2
  <1>5. server \in Mail /\ c.about \in Messages \cup {None} /\ server.body \in Seq(Command)
    BY <1>0, <1>3 DEF TypeOK, Command, Mail
  <1> HIDE DEF c, R, Command
  <1>6. TypeOK'
    <2>1. server' \in Mail
      <3>1. NoMail \in Mail
        BY DEF Mail, NoMail
      <3>2. /\ [server EXCEPT !.from = c.about] \in Mail
            /\ [server EXCEPT !.to = c.about] \in Mail
            /\ [server EXCEPT !.data = TRUE] \in Mail
        BY <1>5 DEF Mail
      <3> QED  BY <1>2, <1>5, <3>1, <3>2
    <2> QED  BY <1>0, <1>1, <1>3, <1>4, <2>1 DEF TypeOK, R
  <1>7. Control'
    <2>1. pc.verb # "new"
      BY <1>0, <1>1 DEF Control
    <2> QED  BY <1>0, <1>1, <2>1 DEF Control, InSession
  <1>8. Silent'
    BY <1>1 DEF Silent
  <1>9. Awaited' = Awaited /\ Live' = Live /\ InSession' = InSession
    BY <1>1 DEF Awaited, Cmd, Live, InSession
  <1>10. Live => /\ Len(replies) + 1 <= Len(Awaited) /\ c = Awaited[Len(replies) + 1]
                 /\ Len(replies) + 1 \in 1..Len(Awaited) /\ InSession
    <2> SUFFICES ASSUME Live
                 PROVE  /\ Len(replies) + 1 <= Len(Awaited) /\ c = Awaited[Len(replies) + 1]
                        /\ Len(replies) + 1 \in 1..Len(Awaited) /\ InSession
      OBVIOUS
    <2>1. 1 \in 1..Len(sent) /\ ~\E j \in 1..1 : sent[j].verb = "QUIT"
      BY <1>3
    <2>2. Len(replies) + 1 <= Len(Awaited) /\ c = Awaited[Len(replies) + 1]
      BY <1>0, <1>1, <1>3, <2>1 DEF CommandsInOrder, RestOnTheWay
    <2>3. Awaited \in Seq(Command)
      BY <1>0, AwaitedType
    <2>4. Len(replies) + 1 \in 1..Len(Awaited)
      BY <1>4, <2>2, <2>3
    <2>5. pc.verb # "new"
      BY <1>0, <1>1 DEF Control
    <2>6. InSession
      BY <1>0, <2>4, <2>5, AwaitedIsOfSession
    <2> QED  BY <2>2, <2>4, <2>6
  <1>11. RepliesInOrder'
    <2> SUFFICES ASSUME Live
                 PROVE  RepliesInOrder'
      BY <1>9 DEF RepliesInOrder
    <2>1. \A i \in 1..Len(replies) : replies'[i].to = Awaited[i]
      BY <1>0, <1>4 DEF RepliesInOrder
    <2>2. replies'[Len(replies) + 1].to = c
      BY <1>4
    <2>3. \A i \in 1..Len(replies') : i \in 1..Len(replies) \/ i = Len(replies) + 1
      BY <1>4
    <2> QED  BY <1>4, <1>9, <1>10, <2>1, <2>2, <2>3 DEF RepliesInOrder
  <1>12. CommandsInOrder'
    <2> SUFFICES ASSUME Live, RestOnTheWay
                 PROVE  RestOnTheWay'
      BY <1>0, <1>1, <1>9 DEF CommandsInOrder
    <2>1. ASSUME NEW i \in 1..Len(sent')
          PROVE  \/ \E j \in 1..i : sent'[j].verb = "QUIT"
                 \/ Len(replies') + i <= Len(Awaited) /\ sent'[i] = Awaited[Len(replies') + i]
      <3>1. i + 1 \in 1..Len(sent) /\ i \in Nat
        BY <1>3
      <3>2. CASE \E j \in 1..(i + 1) : sent[j].verb = "QUIT"
        <4>1. PICK j \in 1..(i + 1) : sent[j].verb = "QUIT"
          BY <3>2
        <4>2. j - 1 \in 1..i /\ j - 1 \in 1..Len(sent') /\ (j - 1) + 1 = j
          BY <1>3, <3>1, <4>1
        <4>3. sent'[j - 1] = sent[(j - 1) + 1]
          BY <1>3, <4>2
        <4> QED  BY <4>1, <4>2, <4>3
      <3>3. CASE Len(replies) + (i + 1) <= Len(Awaited) /\ sent[i + 1] = Awaited[Len(replies) + (i + 1)]
        <4>1. Len(replies') + i = Len(replies) + (i + 1)
          BY <1>4, <3>1
        <4> QED  BY <1>3, <3>3, <4>1
      <3> QED  BY <3>1, <3>2, <3>3 DEF RestOnTheWay
    <2>2. OtherThanQuit(sent') => Len(replies') + Len(sent') = Len(Awaited)
      <3>1. OtherThanQuit(sent') => OtherThanQuit(sent)
        <4> SUFFICES ASSUME OtherThanQuit(sent'), NEW i \in 1..Len(sent)
                     PROVE  sent[i].verb # "QUIT"
          BY DEF OtherThanQuit
        <4>1. CASE i = 1
          BY <1>3, <4>1
        <4>2. CASE i # 1
          <5>1. i - 1 \in 1..Len(sent') /\ (i - 1) + 1 = i
            BY <1>3, <4>2
          <5> QED  BY <1>3, <5>1 DEF OtherThanQuit
        <4> QED  BY <4>1, <4>2
      <3>2. OtherThanQuit(sent) => Len(replies) + Len(sent) = Len(Awaited)
        BY DEF RestOnTheWay
      <3>3. Len(replies') + Len(sent') = Len(replies) + Len(sent)
        BY <1>3, <1>4
      <3> QED  BY <3>1, <3>2, <3>3
    <2> QED  BY <1>9, <2>1, <2>2 DEF RestOnTheWay
  <1>13. DataIsLast'
    <2> SUFFICES ASSUME Live, NEW k \in 1..Len(sent'), sent'[k].verb = "DATA"
                 PROVE  /\ pc.verb = "DATA" /\ pc.stage \in Reading
                        /\ \A j \in 1..Len(sent') : j > k => sent'[j].verb = "QUIT"
      BY <1>1, <1>9 DEF DataIsLast
    <2>1. k + 1 \in 1..Len(sent) /\ sent[k + 1].verb = "DATA"
      BY <1>3
    <2>2. /\ pc.verb = "DATA" /\ pc.stage \in Reading
          /\ \A j \in 1..Len(sent) : j > k + 1 => sent[j].verb = "QUIT"
      BY <1>0, <2>1 DEF DataIsLast
    <2>3. ASSUME NEW j \in 1..Len(sent'), j > k
          PROVE  sent'[j].verb = "QUIT"
      BY <1>3, <2>2, <2>3
    <2> QED  BY <2>2, <2>3
  <1>14. Live /\ msg \notin cut => OtherThanQuit(sent)
    BY <1>0, <1>3, <1>10 DEF QuitsAreCut, OtherThanQuit
  <1>15. QuitsAreCut'
    <2> SUFFICES ASSUME Live, msg \notin cut, NEW i \in 1..Len(sent')
                 PROVE  sent'[i].verb # "QUIT"
      BY <1>1, <1>9 DEF QuitsAreCut
    <2>1. i + 1 \in 1..Len(sent)
      BY <1>3
    <2> QED  BY <1>3, <1>14, <2>1 DEF OtherThanQuit
  <1>16. Live /\ c.verb \in {"MAIL", "RCPT", "DATA", "DOT"} => c.about = msg
    BY <1>0, <1>10, AwaitedIsOfSession
  <1>17. \A k \in 1..Len(sent) : sent[k].verb # "DOT"
    BY <1>0, <1>1 DEF DotIsLast, Whole
  <1>18. Live => ~At("DOT", "read") /\ pc.verb \notin {"pooled", "QUIT"}
    <2> SUFFICES ASSUME Live
                 PROVE  ~At("DOT", "read") /\ pc.verb \notin {"pooled", "QUIT"}
      OBVIOUS
    <2>1. c.verb # "DOT"
      BY <1>3, <1>17
    <2>2. ASSUME At("DOT", "read") PROVE FALSE
      <3>1. Awaited = <<Cmd("DOT")>>
        BY <2>2 DEF Awaited, At
      <3>2. Len(replies) + 1 = 1
        BY <1>4, <1>10, <3>1
      <3>3. c = Cmd("DOT")
        BY <1>10, <3>1, <3>2
      <3> QED  BY <2>1, <3>3 DEF Cmd
    <2>3. pc.verb # "pooled"
      BY <1>10 DEF InSession
    <2>4. ASSUME pc.verb = "QUIT" PROVE FALSE
      <3>1. Awaited = <<>>
        BY <1>0, <2>4 DEF Awaited, Control
      <3> QED  BY <1>4, <1>10, <3>1
    <2> QED  BY <2>2, <2>3, <2>4
  <1>19. Envelope'
    <2>1. ~server'.data => server'.body = <<>>
      BY <1>0, <1>1, <1>2, <1>5 DEF Envelope, NoMail, Mail
    <2>2. ASSUME Live, ~server'.data
          PROVE  /\ server'.from \in {None, msg} /\ server'.to \in {None, msg}
                 /\ server'.to # None => server'.from # None
      <3>1. /\ server.from \in {None, msg} /\ server.to \in {None, msg}
            /\ server.to # None => server.from # None
        BY <1>0, <1>1, <1>10, <2>2 DEF Envelope
      <3>2. msg # None
        BY <1>0, <1>10, <2>2, DialogueAssumption DEF Control, TypeOK
      <3> QED  BY <1>2, <1>5, <1>16, <2>2, <3>1, <3>2 DEF NoMail, Mail
    <2>3. connected => Live \/ pc.verb = "dropped"
      BY DEF Live
    <2>4. ~(connected /\ (pc.verb \in {"pooled", "QUIT"} \/ At("DOT", "read")))
      BY <1>18, <2>3 DEF At
    <2> QED  BY <1>1, <1>9, <2>1, <2>2, <2>4 DEF Envelope, At
  <1>20. DataAgreed'
    <2> SUFFICES ASSUME Live
                 PROVE  DataAgreed'
      BY <1>9 DEF DataAgreed
    <2>1. ASSUME server'.data
          PROVE  /\ pc.verb = "DATA" /\ pc.stage \in Reading
                 /\ Len(replies') = Len(Awaited)
                 /\ Empty(msg)'
      <3>1. c.verb = "DATA" /\ server.to # None /\ server' = [server EXCEPT !.data = TRUE]
        BY <1>1, <1>2, <1>5, <2>1 DEF NoMail, Mail
      <3>2. pc.verb = "DATA" /\ pc.stage \in Reading /\ OnlyQuits(sent')
        <4>1. 1 \in 1..Len(sent) /\ sent[1].verb = "DATA"
          BY <1>3, <3>1
        <4>2. pc.verb = "DATA" /\ pc.stage \in Reading /\ \A j \in 1..Len(sent) : j > 1 => sent[j].verb = "QUIT"
          BY <1>0, <4>1 DEF DataIsLast
        <4>3. \A j \in 1..Len(sent') : j + 1 \in 1..Len(sent) /\ j + 1 > 1
          BY <1>3
        <4> QED  BY <1>3, <4>2, <4>3 DEF OnlyQuits
      <3>3. Len(replies') = Len(Awaited)
        BY <1>0, <1>4, <1>10, <3>1, AwaitedIsOfSession
      <3>4. server.from = msg /\ server.to = msg /\ server.body = <<>>
        BY <1>0, <1>1, <1>10, <3>1 DEF Envelope
      <3>5. msg \notin cut => sent' = <<>>
        <4> SUFFICES ASSUME msg \notin cut, sent' # <<>>
                     PROVE  FALSE
          OBVIOUS
        <4>1. 1 \in 1..Len(sent') /\ 2 \in 1..Len(sent)
          BY <1>3
        <4>2. sent'[1] = sent[1 + 1] /\ sent'[1].verb = "QUIT" /\ sent[2].verb # "QUIT"
          BY <1>3, <1>14, <3>2, <4>1 DEF OnlyQuits, OtherThanQuit
        <4> QED  BY <4>2
      <3>6. OnlyQuits(server'.body) /\ server'.body = <<>> /\ server'.from = msg /\ server'.to = msg
        BY <1>5, <3>1, <3>4 DEF OnlyQuits, Mail
      <3> QED  BY <1>1, <2>1, <3>2, <3>3, <3>5, <3>6 DEF Empty
    <2>2. code = "354" => server'.data
      BY <1>2, <1>5 DEF Refusals, Mail
    <2>3. pc.verb # "BODY" /\ ~At("DOT", "write")
      BY <1>0, <1>1 DEF DataAgreed, Empty, Whole
    <2>4. replies'[Len(replies')].code = code
      BY <1>4
    <2> QED  BY <1>1, <1>9, <2>1, <2>2, <2>3, <2>4 DEF DataAgreed, At
  <1>21. DotIsLast'
    <2>1. \A k \in 1..Len(sent') : sent'[k].verb # "DOT"
      BY <1>3, <1>17
    <2> QED  BY <2>1 DEF DotIsLast
  <1>22. TookWell'
    BY <1>0, <1>1 DEF TookWell, TakenAs, OneBody
  <1>23. Records'
    <2>1. \A m : (Taken(m)' <=> Taken(m)) /\ (Lost(m)' <=> Lost(m))
      BY <1>1 DEF Taken, Lost
    <2>2. ~(At("DOT", "read")' /\ connected')
      BY <1>1, <1>18 DEF Live, At
    <2> QED  BY <1>0, <1>1, <1>9, <2>1, <2>2 DEF Records, At
  <1> QED  BY <1>6, <1>7, <1>8, <1>11, <1>12, <1>13, <1>15, <1>19, <1>20, <1>21, <1>22, <1>23 DEF Inv


\* The server takes the first of the lines.
LEMMA TakeLine ==
  ASSUME NEW m, NEW n \in Nat, n # 0, Whole(m, n), sent \in Seq(Command), n <= Len(sent), server \in Mail,
         server' = [server EXCEPT !.body = Append(@, Head(sent))], sent' = Tail(sent), UNCHANGED cut
  PROVE  Whole(m, n - 1)'
  <1> DEFINE body == server.body
             c == Head(sent)
  <1>1. body \in Seq(Command) /\ c = sent[1] /\ c \in Command
    <2>1. body \in Seq(Command)
      BY DEF Mail
    <2> HIDE DEF Command
    <2> QED  BY <2>1
  <1>2. server'.data = server.data /\ server'.from = server.from /\ server'.to = server.to
        /\ server'.body = Append(body, c)
    BY DEF Mail
  <1> HIDE DEF Command, body, c
  <1>3. /\ Len(server'.body) = Len(body) + 1 /\ server'.body[Len(body) + 1] = c /\ Len(body) \in Nat
        /\ \A i \in 1..Len(body) : server'.body[i] = body[i]
        /\ DOMAIN body = 1..Len(body) /\ DOMAIN server'.body = 1..(Len(body) + 1)
    BY <1>1, <1>2
  <1>4. /\ \A j \in 1..(n - 1) : j + 1 \in 1..n /\ sent'[j] = sent[j + 1]
        /\ n - 1 \in Nat /\ 1 \in 1..n
    OBVIOUS
  <1>5. m \notin cut' => Len(server'.body) + (n - 1) = 1
    BY <1>3 DEF Whole, body
  <1>6. CASE OneBody(m, body) /\ \A j \in 1..n : sent[j].verb = "QUIT"
    <2>1. OneBody(m, server'.body)
      <3>1. PICK i \in 1..Len(body) : /\ body[i] = [verb |-> "BODY", about |-> m]
                                      /\ \A j \in 1..Len(body) : j # i => body[j].verb = "QUIT"
        BY <1>3, <1>6 DEF OneBody
      <3>2. c.verb = "QUIT"
        BY <1>1, <1>4, <1>6
      <3>3. i \in DOMAIN server'.body /\ server'.body[i] = [verb |-> "BODY", about |-> m]
        BY <1>3, <3>1
      <3>4. \A j \in DOMAIN server'.body \ {i} : server'.body[j].verb = "QUIT"
        BY <1>3, <3>1, <3>2
      <3> QED  BY <3>3, <3>4 DEF OneBody
    <2>2. \A j \in 1..(n - 1) : sent'[j].verb = "QUIT"
      BY <1>4, <1>6
    <2> QED  BY <1>2, <1>5, <2>1, <2>2 DEF Whole, OneBody
  <1>7. CASE /\ OnlyQuits(body)
             /\ \E i \in 1..n : /\ sent[i] = Body(m)
                                /\ \A j \in 1..n : j # i => sent[j].verb = "QUIT"
    <2>1. PICK i \in 1..n : /\ sent[i] = Body(m)
                            /\ \A j \in 1..n : j # i => sent[j].verb = "QUIT"
      BY <1>7
    <2>2. CASE i = 1
      <3>1. OneBody(m, server'.body)
        <4>1. \A j \in DOMAIN server'.body \ {Len(body) + 1} : server'.body[j].verb = "QUIT"
          BY <1>3, <1>7 DEF OnlyQuits
        <4>2. Len(body) + 1 \in DOMAIN server'.body /\ server'.body[Len(body) + 1] = [verb |-> "BODY", about |-> m]
          BY <1>1, <1>3, <2>1, <2>2 DEF Body
        <4> QED  BY <4>1, <4>2 DEF OneBody
      <3>2. \A j \in 1..(n - 1) : sent'[j].verb = "QUIT"
        BY <1>4, <2>1, <2>2
      <3> QED  BY <1>2, <1>5, <3>1, <3>2 DEF Whole, OneBody
    <2>3. CASE i # 1
      <3>1. c.verb = "QUIT"
        BY <1>1, <1>4, <2>1, <2>3
      <3>2. OnlyQuits(server'.body)
        BY <1>3, <1>7, <3>1 DEF OnlyQuits
      <3>3. i - 1 \in 1..(n - 1) /\ sent'[i - 1] = Body(m)
        <4>1. i - 1 \in 1..(n - 1) /\ (i - 1) + 1 = i
          BY <2>3
        <4> QED  BY <1>4, <2>1, <4>1
      <3>4. \A j \in 1..(n - 1) : j # i - 1 => sent'[j].verb = "QUIT"
        BY <1>4, <2>1
      <3> QED  BY <1>2, <1>5, <3>2, <3>3, <3>4 DEF Whole, OnlyQuits, Body
    <2> QED  BY <2>2, <2>3
  <1> QED  BY <1>6, <1>7 DEF Whole, body

\* A line of the data, or a QUIT that has come into it.
LEMMA ServerTakesLineInv ==
  ASSUME Inv, ServerTakes, Head(sent).verb # "DOT"
  PROVE  Inv'
  <1>0. /\ TypeOK /\ Control /\ Silent /\ RepliesInOrder /\ CommandsInOrder /\ DataIsLast
        /\ QuitsAreCut /\ Envelope /\ DataAgreed /\ DotIsLast /\ TookWell /\ Records
    BY DEF Inv
  <1> DEFINE c == Head(sent)
  <1>1. /\ ~ended /\ sent # <<>> /\ server.data /\ sent' = Tail(sent)
        /\ server' = [server EXCEPT !.body = Append(@, c)]
        /\ UNCHANGED <<connected, active, old, helloed, canPipeline, dataCommands, pc, msg, leaving, outcome,
                       tried, collector, replies, ended, took, cut, broken, unmarked>>
    BY DEF ServerTakes, clientVars, workerVars, history
  <1>2. /\ sent \in Seq(Command) /\ c \in Command /\ c = sent[1] /\ c.verb # "DOT"
        /\ sent' \in Seq(Command) /\ Len(sent') = Len(sent) - 1 /\ Len(sent) \in Nat \ {0}
        /\ \A i \in 1..Len(sent') : sent'[i] = sent[i + 1] /\ i + 1 \in 1..Len(sent)
    <2>1. sent \in Seq(Command)
      BY <1>0 DEF TypeOK
    <2> HIDE DEF Command
    <2> QED  BY <1>1, <2>1
  <1>3. server \in Mail
    BY <1>0 DEF TypeOK
  <1> HIDE DEF c
  <1>4. /\ server'.data /\ server'.from = server.from /\ server'.to = server.to
        /\ server'.body = Append(server.body, c) /\ server' \in Mail
    <2>1. server.body \in Seq(Command)
      BY <1>3 DEF Mail
    <2>2. Append(server.body, c) \in Seq(Command)
      <3> HIDE DEF Command
      <3> QED  BY <1>2, <2>1
    <2> QED  BY <1>1, <1>3, <2>2 DEF Mail
  <1> HIDE DEF Command
  <1>5. TypeOK'
    BY <1>0, <1>1, <1>2, <1>4 DEF TypeOK
  <1>6. Control'
    <2>1. pc.verb # "new"
      BY <1>0, <1>1 DEF Control
    <2> QED  BY <1>0, <1>1, <2>1 DEF Control, InSession
  <1>7. Awaited' = Awaited /\ Live' = Live /\ InSession' = InSession
    BY <1>1 DEF Awaited, Cmd, Live, InSession
  <1>8. Silent' /\ RepliesInOrder' /\ CommandsInOrder'
    BY <1>0, <1>1, <1>4, <1>7 DEF Silent, RepliesInOrder, CommandsInOrder
  <1>9. DataIsLast'
    <2> SUFFICES ASSUME Live, NEW k \in 1..Len(sent'), sent'[k].verb = "DATA"
                 PROVE  /\ pc.verb = "DATA" /\ pc.stage \in Reading
                        /\ \A j \in 1..Len(sent') : j > k => sent'[j].verb = "QUIT"
      BY <1>1, <1>7 DEF DataIsLast
    <2>1. k + 1 \in 1..Len(sent) /\ sent[k + 1].verb = "DATA"
      BY <1>2
    <2>2. /\ pc.verb = "DATA" /\ pc.stage \in Reading
          /\ \A j \in 1..Len(sent) : j > k + 1 => sent[j].verb = "QUIT"
      BY <1>0, <2>1 DEF DataIsLast
    <2>3. ASSUME NEW j \in 1..Len(sent'), j > k
          PROVE  sent'[j].verb = "QUIT"
      BY <1>2, <2>2, <2>3
    <2> QED  BY <2>2, <2>3
  <1>10. QuitsAreCut'
    <2> SUFFICES ASSUME Live, InSession, msg \notin cut, NEW i \in 1..Len(sent')
                 PROVE  sent'[i].verb # "QUIT"
      BY <1>1, <1>7 DEF QuitsAreCut
    <2> QED  BY <1>0, <1>1, <1>2 DEF QuitsAreCut
  <1>11. Envelope'
    <2>1. server # NoMail
      BY <1>1 DEF NoMail
    <2> QED  BY <1>0, <1>1, <1>4, <1>7, <2>1 DEF Envelope, At
  <1>12. DataAgreed'
    <2> SUFFICES ASSUME Live
                 PROVE  DataAgreed'
      BY <1>7 DEF DataAgreed
    <2>1. Empty(msg) => Empty(msg)'
      <3> SUFFICES ASSUME Empty(msg)
                   PROVE  Empty(msg)'
        OBVIOUS
      <3>1. OnlyQuits(sent') /\ c.verb = "QUIT"
        <4>1. \A j \in 1..Len(sent) : sent[j].verb = "QUIT"
          BY <1>2 DEF Empty, OnlyQuits
        <4>2. 1 \in 1..Len(sent)
          BY <1>2
        <4> QED  BY <1>2, <4>1, <4>2 DEF OnlyQuits
      <3>2. OnlyQuits(server'.body)
        <4>1. server.body \in Seq(Command)
          BY <1>3 DEF Mail
        <4> QED  BY <1>4, <3>1, <4>1, <1>2 DEF Empty, OnlyQuits
      <3> QED  BY <1>1, <1>4, <3>1, <3>2 DEF Empty
    <2>2. At("DOT", "write") => Whole(msg, Len(sent))'
      <3> SUFFICES ASSUME At("DOT", "write")
                   PROVE  Whole(msg, Len(sent))'
        OBVIOUS
      <3>1. PICK n \in Nat : n = Len(sent) /\ n # 0
        BY <1>2
      <3>2. Whole(msg, n)
        BY <1>0, <1>1, <3>1 DEF DataAgreed
      <3>3. Whole(msg, n - 1)'
        <4>1. PICK m : m = msg
          OBVIOUS
        <4>2. Whole(m, n - 1)'
          BY <1>1, <1>2, <1>3, <3>1, <3>2, <4>1, TakeLine DEF c
        <4> QED  BY <1>1, <4>1, <4>2
      <3>4. n - 1 = Len(sent')
        BY <1>2, <3>1
      <3> QED  BY <3>3, <3>4
    <2>3. server.data
      BY <1>1
    <2> QED  BY <1>0, <1>1, <1>4, <1>7, <2>1, <2>2, <2>3 DEF DataAgreed, At
  <1>13. \A m : (Taken(m)' <=> Taken(m)) /\ (Lost(m)' <=> Lost(m))
    BY <1>1 DEF Taken, Lost
  <1>14. DotIsLast'
    <2> SUFFICES ASSUME NEW k \in 1..Len(sent'), sent'[k].verb = "DOT"
                 PROVE  /\ Whole(sent[k].about, k - 1)'
                        /\ \A j \in 1..Len(sent') : j > k => sent'[j].verb = "QUIT"
                        /\ sent'[k].about \in tried /\ ~Taken(sent'[k].about)
                        /\ \/ At("DOT", "read") /\ msg = sent'[k].about
                           \/ /\ pc.verb = "dropped"
                              /\ outcome[sent'[k].about] = {"defer"} /\ Lost(sent'[k].about)
      BY <1>1, <1>13 DEF DotIsLast, At
    <2>1. PICK n \in Nat : n = k + 1
      BY <1>2
    <2>2. n \in 1..Len(sent) /\ sent[n] = sent'[k] /\ n - 1 = k /\ k \in Nat /\ k # 0 /\ k <= Len(sent)
      BY <1>2, <2>1
    <2>3. PICK m : m = sent[n].about
      OBVIOUS
    <2>4. /\ Whole(m, k)
          /\ \A j \in 1..Len(sent) : j > n => sent[j].verb = "QUIT"
          /\ m \in tried /\ ~Taken(m)
          /\ \/ At("DOT", "read") /\ msg = m
             \/ pc.verb = "dropped" /\ outcome[m] = {"defer"} /\ Lost(m)
      BY <1>0, <2>2, <2>3 DEF DotIsLast
    <2>5. Whole(m, k - 1)'
      BY <1>1, <1>2, <1>3, <2>2, <2>4, TakeLine DEF c
    <2>6. ASSUME NEW j \in 1..Len(sent'), j > k
          PROVE  sent'[j].verb = "QUIT"
      <3>1. j + 1 \in 1..Len(sent) /\ j + 1 > n /\ sent'[j] = sent[j + 1]
        BY <1>2, <2>1, <2>6
      <3> QED  BY <2>4, <3>1
    <2> QED  BY <2>2, <2>3, <2>4, <2>5, <2>6
  <1>15. TookWell'
    BY <1>0, <1>1 DEF TookWell, TakenAs, OneBody
  <1>16. Records'
    BY <1>0, <1>1, <1>7, <1>13 DEF Records, At
  <1> QED  BY <1>5, <1>6, <1>8, <1>9, <1>10, <1>11, <1>12, <1>14, <1>15, <1>16 DEF Inv


\* The dot: the message is taken, or refused.
LEMMA ServerTakesDotInv ==
  ASSUME Inv, ServerTakes, Head(sent).verb = "DOT"
  PROVE  Inv'
  <1>0. /\ TypeOK /\ Control /\ Silent /\ RepliesInOrder /\ CommandsInOrder /\ DataIsLast
        /\ QuitsAreCut /\ Envelope /\ DataAgreed /\ DotIsLast /\ TookWell /\ Records
    BY DEF Inv
  <1> DEFINE c == Head(sent)
             m == c.about
             R == [to : Command, code : Codes]
  <1>1. /\ ~ended /\ sent # <<>> /\ server.data /\ sent' = Tail(sent) /\ server' = NoMail
        /\ UNCHANGED <<connected, active, old, helloed, canPipeline, dataCommands, pc, msg, leaving, outcome,
                       tried, collector, ended, cut, broken, unmarked>>
    BY DEF ServerTakes, clientVars, workerVars, history
  <1>2. PICK code \in Codes :
          /\ replies' = Append(replies, [to |-> c, code |-> code])
          /\ code # "354"
          /\ took' = IF code = "2xx" THEN Append(took, server) ELSE took
    BY DEF ServerTakes, Answer, Codes, Refusals
  <1>3. /\ sent \in Seq(Command) /\ c \in Command /\ c = sent[1]
        /\ sent' \in Seq(Command) /\ Len(sent') = Len(sent) - 1 /\ Len(sent) \in Nat \ {0}
        /\ \A i \in 1..Len(sent') : sent'[i] = sent[i + 1] /\ i + 1 \in 1..Len(sent) /\ i + 1 > 1
    <2>1. sent \in Seq(Command)
      BY <1>0 DEF TypeOK
    <2> HIDE DEF Command
    <2> QED  BY <1>1, <2>1
  <1>4. c = [verb |-> "DOT", about |-> m]
    BY <1>3 DEF Command
  <1>5. /\ Whole(m, 0) /\ m \in tried /\ ~Taken(m)
        /\ \A j \in 1..Len(sent') : sent'[j].verb = "QUIT"
        /\ \/ At("DOT", "read") /\ msg = m
           \/ pc.verb = "dropped" /\ outcome[m] = {"defer"} /\ Lost(m)
    <2>1. 1 \in 1..Len(sent) /\ sent[1].verb = "DOT" /\ 1 - 1 = 0
      BY <1>3
    <2>2. /\ Whole(m, 1 - 1) /\ m \in tried /\ ~Taken(m)
          /\ \A j \in 1..Len(sent) : j > 1 => sent[j].verb = "QUIT"
          /\ \/ At("DOT", "read") /\ msg = m
             \/ pc.verb = "dropped" /\ outcome[m] = {"defer"} /\ Lost(m)
      BY <1>0, <1>3, <2>1 DEF DotIsLast
    <2> QED  BY <1>3, <2>1, <2>2
  <1> HIDE DEF c, m
  <1>6. replies \in Seq(R) /\ [to |-> c, code |-> code] \in R
    BY <1>0, <1>3 DEF TypeOK
  <1> HIDE DEF Command, R
  <1>7. /\ replies' \in Seq(R) /\ Len(replies') = Len(replies) + 1
        /\ replies' # <<>> /\ replies'[Len(replies) + 1] = [to |-> c, code |-> code]
    BY <1>2, <1>6
  <1>8. server \in Mail /\ NoMail \in Mail /\ took \in Seq(Mail)
    BY <1>0 DEF TypeOK, Mail, NoMail
  <1>9. /\ took' \in Seq(Mail)
        /\ code = "2xx" => /\ Len(took') = Len(took) + 1 /\ took'[Len(took) + 1] = server
                           /\ \A i \in 1..Len(took) : took'[i] = took[i]
        /\ Len(took) \in Nat /\ DOMAIN took = 1..Len(took) /\ DOMAIN took' = 1..Len(took')
    <2> HIDE DEF Mail
    <2> QED  BY <1>2, <1>8
  <1>10. server.from = m /\ server.to = m /\ OneBody(m, server.body) /\ (m \notin cut => Len(server.body) = 1)
    <2>1. Len(server.body) \in Nat
      BY <1>8 DEF Mail
    <2> QED  BY <1>5, <2>1 DEF Whole
  <1>11. \A x : /\ Taken(x) => Taken(x)'
                /\ Lost(x)' <=> Lost(x)
                /\ x # m => (Taken(x)' => Taken(x))
                /\ x = m => (Taken(x)' <=> code = "2xx")
    <2>1. \A x : Lost(x)' <=> Lost(x)
      BY <1>1 DEF Lost
    <2>2. CASE code = "2xx"
      <3>1. \A i \in 1..Len(took') : i \in 1..Len(took) \/ i = Len(took) + 1
        BY <1>9, <2>2
      <3>2. Len(took) + 1 \in DOMAIN took' /\ 1..Len(took) \subseteq DOMAIN took'
        BY <1>9, <2>2
      <3>3. \A i \in DOMAIN took' : \/ i \in DOMAIN took /\ took'[i] = took[i]
                                    \/ took'[i].from = m
        BY <1>9, <1>10, <2>2, <3>1
      <3>4. took'[Len(took) + 1].from = m
        BY <1>9, <1>10, <2>2
      <3> QED  BY <1>9, <2>1, <2>2, <3>2, <3>3, <3>4 DEF Taken
    <2>3. CASE code # "2xx"
      <3>1. took' = took
        BY <1>2, <2>3
      <3> QED  BY <1>5, <2>1, <2>3, <3>1 DEF Taken
    <2> QED  BY <2>2, <2>3
  <1>12. TypeOK'
    <2>1. server' \in Mail /\ took' \in Seq(Mail)
      BY <1>0, <1>1, <1>7, <1>8, <1>9 DEF TypeOK
    <2>2. replies' \in Seq([to : Command, code : Codes])
      BY <1>7 DEF R
    <2>3. sent' \in Seq(Command)
      BY <1>3
    <2> QED  BY <1>0, <1>1, <2>1, <2>2, <2>3 DEF TypeOK
  <1>13. Control'
    <2>1. pc.verb # "new"
      BY <1>0, <1>1 DEF Control
    <2> QED  BY <1>0, <1>1, <2>1 DEF Control, InSession
  <1>14. Awaited' = Awaited /\ Live' = Live /\ InSession' = InSession
    BY <1>1 DEF Awaited, Cmd, Live, InSession
  <1>15. Live => replies = <<>> /\ Awaited = <<c>> /\ msg = m /\ At("DOT", "read")
    <2> SUFFICES ASSUME Live
                 PROVE  replies = <<>> /\ Awaited = <<c>> /\ msg = m /\ At("DOT", "read")
      OBVIOUS
    <2>1. msg = m /\ At("DOT", "read")
      BY <1>5 DEF Live
    <2>2. replies = <<>>
      BY <1>0, <1>1, <2>1 DEF DataAgreed, At
    <2>3. Awaited = <<Cmd("DOT")>>
      BY <2>1 DEF Awaited, At
    <2>4. Cmd("DOT") = [verb |-> "DOT", about |-> msg]
      BY DEF Cmd
    <2> QED  BY <1>4, <2>1, <2>2, <2>3, <2>4
  <1>16. Live => /\ Len(replies') = 1 /\ Len(Awaited') = 1
                 /\ replies'[1] = [to |-> c, code |-> code] /\ Awaited'[1] = c
    <2>1. Len(<<>>) = 0 /\ Len(<<c>>) = 1 /\ <<c>>[1] = c /\ 0 + 1 = 1
      OBVIOUS
    <2> QED  BY <1>7, <1>14, <1>15, <2>1
  <1>17. Silent' /\ RepliesInOrder'
    <2>1. Live => \A i \in 1..Len(replies') : i = 1
      <3>1. \A n : n = 1 => \A i \in 1..n : i = 1
        OBVIOUS
      <3> QED  BY <1>16, <3>1
    <2>2. [to |-> c, code |-> code].to = c
      OBVIOUS
    <2> QED  BY <1>1, <1>14, <1>16, <2>1, <2>2 DEF Silent, RepliesInOrder
  <1>18. CommandsInOrder'
    <2> SUFFICES ASSUME Live
                 PROVE  RestOnTheWay'
      BY <1>14 DEF CommandsInOrder
    <2>1. \A i \in 1..Len(sent') : \E j \in 1..i : sent'[j].verb = "QUIT"
      BY <1>3, <1>5
    <2>2. OtherThanQuit(sent') => Len(sent') = 0
      BY <1>3, <1>5 DEF OtherThanQuit
    <2>3. \A a, b, n : a = 1 /\ b = 1 /\ n = 0 => a + n = b
      OBVIOUS
    <2>4. OtherThanQuit(sent') => Len(replies') + Len(sent') = Len(Awaited')
      BY <1>16, <2>2, <2>3
    <2> QED  BY <2>1, <2>4 DEF RestOnTheWay
  <1>19. DataIsLast' /\ DotIsLast'
    BY <1>5 DEF DataIsLast, DotIsLast
  <1>20. QuitsAreCut'
    <2> SUFFICES ASSUME Live, InSession, msg \notin cut, NEW i \in 1..Len(sent')
                 PROVE  sent'[i].verb # "QUIT"
      BY <1>1, <1>14 DEF QuitsAreCut
    <2> QED  BY <1>0, <1>1, <1>3 DEF QuitsAreCut
  <1>21. Envelope'
    BY <1>1 DEF Envelope, NoMail
  <1>22. DataAgreed'
    <2> SUFFICES ASSUME Live
                 PROVE  DataAgreed'
      BY <1>14 DEF DataAgreed
    <2>1. replies'[Len(replies')].code # "354"
      BY <1>2, <1>16
    <2>2. pc.verb # "BODY" /\ ~At("DOT", "write")
      BY <1>15 DEF At
    <2> QED  BY <1>1, <2>1, <2>2 DEF DataAgreed, At, NoMail
  <1>23. TookWell'
    <2>1. CASE code = "2xx"
      <3>1. \A i \in DOMAIN took' : \/ i \in DOMAIN took /\ took'[i] = took[i]
                                    \/ i = Len(took) + 1 /\ took'[i] = server
        BY <1>9, <2>1
      <3>2. \A i \in DOMAIN took : took[i].from # m
        BY <1>5 DEF Taken
      <3>3. TakenAs(m, server)
        BY <1>10 DEF TakenAs
      <3>4. ASSUME NEW i \in DOMAIN took'
            PROVE  TakenAs(took[i].from, took[i])' /\ took'[i].from \in tried'
        <4>1. CASE i \in DOMAIN took /\ took'[i] = took[i]
          BY <1>0, <1>1, <4>1 DEF TookWell, TakenAs
        <4>2. CASE took'[i] = server
          BY <1>1, <1>5, <1>10, <3>3, <4>2 DEF TakenAs
        <4> QED  BY <3>1, <4>1, <4>2
      <3>5. ASSUME NEW i \in DOMAIN took', NEW j \in DOMAIN took', took'[i].from = took'[j].from
            PROVE  i = j
        BY <1>0, <1>10, <3>1, <3>2, <3>5 DEF TookWell
      <3> QED  BY <3>4, <3>5 DEF TookWell
    <2>2. CASE code # "2xx"
      BY <1>0, <1>1, <1>2, <2>2 DEF TookWell, TakenAs
    <2> QED  BY <2>1, <2>2
  <1>24. Records'
    <2>1. (At("DOT", "read") /\ connected)' => (Taken(msg)' <=> Head(replies').code = "2xx")
      <3> SUFFICES ASSUME At("DOT", "read"), connected
                   PROVE  Taken(msg)' <=> Head(replies').code = "2xx"
        BY <1>1 DEF At
      <3>1. Live /\ msg = m /\ msg' = m
        BY <1>1, <1>15 DEF Live, At
      <3>2. Head(replies').code = code
        BY <1>7, <1>16, <3>1
      <3> QED  BY <1>11, <3>1, <3>2
    <2>2. InSession => At("DOT", "read") /\ msg = m
      BY <1>5 DEF InSession
    <2>3. \A x \in tried \ {msg} : x = m => outcome[x] = {"defer"} /\ Lost(x)
      BY <1>5
    <2> QED  BY <1>0, <1>1, <1>7, <1>11, <1>14, <2>1, <2>2, <2>3 DEF Records, At
  <1> QED  BY <1>12, <1>13, <1>17, <1>18, <1>19, <1>20, <1>21, <1>22, <1>23, <1>24 DEF Inv


-----------------------------------------------------------------------------
(* Theorems                                                                *)

\* It holds before the first session.
LEMMA InitInv ==
  ASSUME Init
  PROVE  Inv
  <1> DEFINE R == [to : Command, code : Codes]
             greeting == [verb |-> "greeting", about |-> None]
  <1>1. PICK code \in {"2xx", "421", "5xx"} : replies = <<[to |-> greeting, code |-> code]>>
    BY DEF Init
  <1>2. /\ greeting \in Command /\ [to |-> greeting, code |-> code] \in R
        /\ [to |-> greeting, code |-> code].to = greeting /\ [to |-> greeting, code |-> code].code # "354"
    BY DEF Command, Verbs, Codes
  <1>3. NoMail \in Mail
    BY DEF Mail, NoMail
  <1> HIDE DEF greeting, R, Command
  <1>4. replies \in Seq(R) /\ Len(replies) = 1 /\ replies[1].to = greeting /\ replies[1].code # "354"
    BY <1>1, <1>2
  <1>5. TypeOK
    <2>1. sent \in Seq(Command) /\ took \in Seq(Mail)
      <3> HIDE DEF Mail
      <3> QED  BY DEF Init
    <2>2. dataCommands \in 0..MaxMessages
      BY DialogueAssumption DEF Init
    <2>3. outcome \in [Messages -> SUBSET {"success", "fail", "defer"}]
      BY DEF Init
    <2> HIDE DEF Mail
    <2> QED  BY <1>3, <1>4, <2>1, <2>2, <2>3 DEF Init, TypeOK, R, Stages
  <1>6. Control
    BY DialogueAssumption DEF Init, Control, InSession
  <1>7. Awaited = <<greeting>>
    BY DEF Init, Awaited, greeting
  <1>8. Len(Awaited) = 1 /\ Awaited[1] = greeting /\ Len(sent) = 0
    BY <1>7 DEF Init
  <1>9. \A n : n = 1 => n <= n /\ n + 0 = n /\ \A i \in 1..n : i = 1
    OBVIOUS
  <1>10. RepliesInOrder /\ CommandsInOrder
    BY <1>4, <1>8, <1>9 DEF RepliesInOrder, CommandsInOrder, RestOnTheWay
  <1>11. DataAgreed
    BY <1>4 DEF Init, DataAgreed, NoMail, At
  <1>12. Silent /\ DataIsLast /\ QuitsAreCut /\ DotIsLast
    BY <1>8 DEF Init, Silent, DataIsLast, QuitsAreCut, DotIsLast
  <1>13. Envelope
    BY DEF Init, Envelope, NoMail, InSession, At
  <1>14. TookWell /\ Records
    BY DEF Init, TookWell, Records, InSession, At
  <1> QED  BY <1>5, <1>6, <1>10, <1>11, <1>12, <1>13, <1>14 DEF Inv

\* Every step keeps the invariant.
LEMMA NextInv ==
  ASSUME Inv, [Next]_vars
  PROVE  Inv'
  <1>1. ASSUME NEW m \in Messages, Connect(m) \/ Dequeue(m) PROVE Inv'
    BY <1>1, ConnectInv, DequeueInv
  <1>2. CASE WorkerStep
    <2>1. CASE ReadPipelined("readMail", "readRcpt") \/ ReadPipelined("readRcpt", "read")
      BY <2>1, ReadPipelinedInv
    <2> QED
      BY <1>2, <2>1, BeginInv, BeginClosedInv, WriteCommandInv, ReadEhloInv, WriteHeloInv, ReadHeloInv,
         ReadRsetInv, ReadEnvelopeInv, ReadDataInv, WriteDataInv, ReadDotInv, NoQuitInv, QuitInv,
         FinallyInv
      DEF WorkerStep
  <1>3. CASE TimePasses \/ CollectorStep
    BY <1>3, LooksInv, CollectorQuitsInv, CollectorClosesInv DEF CollectorStep
  <1>4. CASE ServerStep
    BY <1>4, ServerObeysInv, ServerTakesLineInv, ServerTakesDotInv, ServerEndsInv DEF ServerStep
  <1>5. CASE UNCHANGED vars
    <2>1. TypeOK /\ Control
      BY DEF Inv
    <2>2. TypeOK'
      BY <1>5, <2>1 DEF TypeOK, vars, clientVars, workerVars, serverVars, history
    <2>3. Control'
      BY <1>5, <2>1 DEF Control, InSession, vars, clientVars, workerVars, serverVars, history
    <2> QED  BY <1>5, <2>2, <2>3, QuietInv DEF vars, clientVars, workerVars, serverVars, history
  <1> QED  BY <1>1, <1>2, <1>3, <1>4, <1>5 DEF Next

\* The invariant from which the others follow.
THEOREM Inductive == Spec => []Inv
  BY InitInv, NextInv, PTL DEF Spec

\* What SmtpOutboundClient keeps has its types; it takes no more messages than it may.
THEOREM TypeCorrect == Spec => []TypeOK
  <1>1. Inv => TypeOK
    BY DEF Inv
  <1> QED  BY <1>1, Inductive, PTL

\* A reply that is read answers the command for which it is read, with pipelining and without,
\* whichever sessions of the connection failed half-way and whenever either side closed it.
THEOREM RepliesAreInStep == Spec => []InStep
  <1>1. ASSUME Inv PROVE InStep
    <2> SUFFICES ASSUME InSession, pc.stage \in Reading, replies # <<>>
                 PROVE  Head(replies).to = Expected
      BY DEF InStep, Reading
    <2>1. TypeOK /\ Control /\ RepliesInOrder /\ Live
      BY <1>1 DEF Inv, Live, InSession
    <2>2. Head(replies) = replies[1] /\ 1 \in 1..Len(replies)
      <3> DEFINE R == [to : Command, code : Codes]
      <3>1. replies \in Seq(R)
        BY <2>1 DEF TypeOK
      <3> HIDE DEF R
      <3> QED  BY <3>1
    <2>3. Head(replies).to = Awaited[1]
      BY <2>1, <2>2 DEF RepliesInOrder
    <2>4. Awaited[1] = Expected
      <3>1. CASE pc.stage = "read"
        <4>1. Awaited = <<Cmd(pc.verb)>>
          BY <3>1 DEF Awaited, InSession
        <4> QED  BY <2>1, <3>1, <4>1 DEF Expected, Cmd, Control, Verbs
      <3>2. CASE pc.stage = "readMail"
        <4>1. Awaited[1] = Cmd("MAIL")
          BY <3>2 DEF Awaited, InSession
        <4> QED  BY <2>1, <3>2, <4>1 DEF Expected, Cmd, Control
      <3>3. CASE pc.stage = "readRcpt"
        <4>1. Awaited[1] = Cmd("RCPT")
          BY <3>3 DEF Awaited, InSession
        <4> QED  BY <2>1, <3>3, <4>1 DEF Expected, Cmd, Control
      <3> QED  BY <3>1, <3>2, <3>3 DEF Reading
    <2> QED  BY <2>3, <2>4
  <1> QED  BY <1>1, Inductive, PTL


\* How often the server took a message: never, or once.
LEMMA TakenOnce ==
  ASSUME TypeOK, TookWell, NEW m
  PROVE  TakenCount(m) = IF Taken(m) THEN 1 ELSE 0
  <1> DEFINE I == {i \in DOMAIN took : took[i].from = m}
  <1>1. TakenCount(m) = Cardinality(I)
    BY DEF TakenCount
  <1>2. CASE ~Taken(m)
    <2>1. I = {}
      BY <1>2 DEF Taken
    <2> QED  BY <1>1, <1>2, <2>1, FS_EmptySet
  <1>3. CASE Taken(m)
    <2>1. PICK i \in DOMAIN took : took[i].from = m
      BY <1>3 DEF Taken
    <2>2. I = {i}
      BY <2>1 DEF TookWell
    <2>3. Cardinality({i}) = 1
      BY FS_Singleton
    <2> QED  BY <1>1, <1>3, <2>2, <2>3
  <1> QED  BY <1>2, <1>3

\* A delivery is recorded of a message only if the server took it, once and with its own
\* envelope and data, a failure only if the server did not; of a message that was deferred
\* although it was taken, or left without an outcome, the connection was ended in between.
THEOREM OutcomesAreTrue == Spec => []OutcomeIsTrue
  <1>1. ASSUME Inv PROVE OutcomeIsTrue
    <2>1. TypeOK /\ TookWell /\ Records
      BY <1>1 DEF Inv
    <2>2. \A m : TakenCount(m) = IF Taken(m) THEN 1 ELSE 0
      BY <2>1, TakenOnce
    <2> HIDE DEF TakenCount
    <2> QED  BY <2>1, <2>2 DEF OutcomeIsTrue, TookWell, Records, Lost
  <1> QED  BY <1>1, Inductive, PTL

\* A connection that a worker writes to or reads from is marked, so that the idle thread leaves
\* it alone, except where a worker that had enqueued it before cleared the mark.
THEOREM MarksAreKept == Spec => []InUseIsMarked
  <1>1. Init => InUseIsMarked
    BY DEF Init, InUseIsMarked, InSession
  <1>2. ASSUME InUseIsMarked, [Next]_vars PROVE InUseIsMarked'
    <2> USE <1>2 DEF InUseIsMarked, InSession, clientVars, workerVars, serverVars, history, Elsewhere, Stay,
                    Touch, Free, Goto, Enqueue, Broken, FailedCallback, Drop
    <2>1. ASSUME NEW m \in Messages, Connect(m) \/ Dequeue(m) PROVE InUseIsMarked'
      BY <2>1 DEF Connect, Dequeue, Session
    <2>2. CASE Begin \/ BeginClosed
      BY <2>2 DEF Begin, BeginClosed
    <2>3. CASE WriteCommand
      BY <2>3 DEF WriteCommand
    <2>4. CASE ReadEhlo
      BY <2>4 DEF ReadEhlo, Hello, At
    <2>5. CASE WriteHelo \/ ReadHelo
      BY <2>5 DEF WriteHelo, ReadHelo, Hello, At
    <2>6. CASE ReadRset \/ ReadEnvelope
      BY <2>6 DEF ReadRset, ReadEnvelope, At
    <2>7. CASE ReadPipelined("readMail", "readRcpt") \/ ReadPipelined("readRcpt", "read")
      BY <2>7 DEF ReadPipelined, At
    <2>8. CASE ReadData \/ ReadDot
      BY <2>8 DEF ReadData, ReadDot, At
    <2>9. CASE WriteData
      BY <2>9 DEF WriteData
    <2>10. CASE NoQuit \/ Quit
      BY <2>10 DEF NoQuit, Quit, At
    <2>11. CASE Finally
      BY <2>11 DEF Finally
    <2>12. CASE TimePasses \/ CollectorStep
      BY <2>12 DEF TimePasses, CollectorStep, CollectorLooks, CollectorQuits, CollectorCloses
    <2>13. CASE ServerStep
      BY <2>13 DEF ServerStep, ServerObeys, ServerTakes, ServerEnds
    <2>14. CASE UNCHANGED vars
      BY <2>14 DEF vars
    <2> QED
      BY <2>1, <2>2, <2>3, <2>4, <2>5, <2>6, <2>7, <2>8, <2>9, <2>10, <2>11, <2>12, <2>13, <2>14
      DEF Next, WorkerStep
  <1> QED  BY <1>1, <1>2, PTL DEF Spec

=============================================================================
