------------------------------ MODULE SmtpLines ------------------------------
(***************************************************************************)
(* SmtpStreamHandler under SmtpServer: one stream of lines, two readers    *)
(* that each take from it as much as there is and keep what they do not    *)
(* need yet, and the choice between them: the ASCII reader for commands,   *)
(* the reader that the transaction asks for, which is UTF-8 unless MAIL    *)
(* FROM says BODY=7BIT, for the data.                                      *)
(*                                                                         *)
(* A line is known by its number, the place at which the client wrote it.  *)
(* The client is external; the server announces PIPELINING, so that it     *)
(* need not wait for replies, except for the one to DATA.                  *)
(***************************************************************************)
EXTENDS Integers, Sequences

CONSTANT MaxLines  \* bound on the lines of a connection

ASSUME LinesAssumption == MaxLines \in Nat

VARIABLES
  written,     \* what each line is, in the order in which the client wrote them
  client,      \* what the client is about to write, or waits for
  clientMime,  \* BODY of its last MAIL FROM
  filled,      \* lines that a reader has taken from the stream
  ascii, utf8, \* the lines that each reader has and that are not read yet
  mime,        \* _CurrentTransportMIME
  transport,   \* TransportMIME of the transaction, or "none" without one
  phase,       \* HandleSmtpConnection: commands, or the loop over the data
  read,        \* the number of the last line read
  dataReply,   \* the reply to DATA, until the client has it
  stored,      \* the last dot was answered
  ahead        \* history: the client went on after the dot of a UTF-8 transaction without
               \* the answer

clientVars == <<written, client, clientMime, ahead>>
serverVars == <<filled, ascii, utf8, mime, transport, phase, read>>
linesVars == <<clientVars, serverVars, dataReply, stored>>

Commands == {"mail7", "mail8", "rset", "data"}
DataLines == {"text", "dot"}

LinesTypeOK ==
  /\ written \in Seq(Commands \cup DataLines)
  /\ client \in {"free", "waits", "writes", "done"}
  /\ clientMime \in {"ascii", "utf8"}
  /\ filled \in 0..Len(written)
  /\ ascii \in SUBSET (1..filled) /\ utf8 \in SUBSET (1..filled)
  /\ mime \in {"ascii", "utf8"}
  /\ transport \in {"none", "ascii", "utf8"}
  /\ phase \in {"command", "data"}
  /\ read \in 0..filled
  /\ dataReply \in {"none", "354", "503"}
  /\ stored \in BOOLEAN /\ ahead \in BOOLEAN

LinesInit ==
  /\ written = <<>> /\ client = "free" /\ clientMime = "ascii" /\ ahead = FALSE
  /\ filled = 0 /\ ascii = {} /\ utf8 = {}
  /\ mime = "ascii" /\ transport = "none" /\ phase = "command"
  /\ read = 0
  /\ dataReply = "none" /\ stored = FALSE

-----------------------------------------------------------------------------
(* The client                                                              *)

WriteLine(line, then) ==
  /\ Len(written) < MaxLines
  /\ written' = Append(written, line)
  /\ client' = then
  /\ UNCHANGED <<serverVars, dataReply, ahead>>

WriteMail ==
  /\ client = "free"
  /\ \/ WriteLine("mail7", "free") /\ clientMime' = "ascii"
     \/ WriteLine("mail8", "free") /\ clientMime' = "utf8"
  /\ UNCHANGED stored

\* RSET, or another command of the sort.
WriteRset == client = "free" /\ WriteLine("rset", "free") /\ UNCHANGED <<clientMime, stored>>

\* The last command of a group.
WriteData == client = "free" /\ WriteLine("data", "waits") /\ UNCHANGED <<clientMime, stored>>

GetReply ==
  /\ client = "waits" /\ dataReply # "none"
  /\ client' = IF dataReply = "354" THEN "writes" ELSE "free"
  /\ dataReply' = "none"
  /\ UNCHANGED <<written, clientMime, ahead, serverVars, stored>>

WriteText == client = "writes" /\ WriteLine("text", "writes") /\ UNCHANGED <<clientMime, stored>>

WriteDot ==
  /\ client = "writes"
  /\ WriteLine("dot", "done")
  /\ stored' = FALSE
  /\ UNCHANGED clientMime

\* The next message, after the answer to the dot, or in one group with the dot.
GoOn ==
  /\ client = "done"
  /\ client' = "free"
  /\ ahead' = (ahead \/ (~stored /\ clientMime = "utf8"))
  /\ UNCHANGED <<written, clientMime, serverVars, dataReply, stored>>

-----------------------------------------------------------------------------
(* ReadLineAsync and the loop of HandleSmtpConnection                      *)

Reader == IF mime = "ascii" THEN ascii ELSE utf8
OtherReader == IF mime = "ascii" THEN utf8 ELSE ascii

\* The reader in use has no line: it takes what has arrived, some of the lines on the way.
Fill ==
  /\ Reader = {}
  /\ \E upTo \in (filled + 1)..Len(written) :
       /\ IF mime = "ascii" THEN ascii' = (filled + 1)..upTo /\ UNCHANGED utf8
                            ELSE utf8' = (filled + 1)..upTo /\ UNCHANGED ascii
       /\ filled' = upTo
  /\ UNCHANGED <<clientVars, mime, transport, phase, read, dataReply, stored>>

First(lines) == CHOOSE i \in lines : \A j \in lines : i <= j

\* ReadLineAsync returns line i.
ReadLine(i) ==
  /\ Reader # {}
  /\ i = First(Reader)
  /\ read' = i
  /\ IF mime = "ascii" THEN ascii' = ascii \ {i} /\ UNCHANGED utf8
                       ELSE utf8' = utf8 \ {i} /\ UNCHANGED ascii
  /\ UNCHANGED <<clientVars, filled>>

Mime(mail) == IF mail = "mail7" THEN "ascii" ELSE "utf8"

\* Variant: the reader is chosen as soon as MAIL FROM names it.
ReadMailAndSwitch ==
  /\ phase = "command"
  /\ \E i \in Reader : /\ ReadLine(i)
                       /\ written[i] \in {"mail7", "mail8"}
                       /\ transport' = Mime(written[i])
                       /\ mime' = Mime(written[i])
  /\ UNCHANGED <<phase, dataReply, stored>>

ReadMail ==
  /\ phase = "command"
  /\ \E i \in Reader : /\ ReadLine(i)
                       /\ written[i] \in {"mail7", "mail8"}
                       /\ transport' = Mime(written[i])
  /\ UNCHANGED <<mime, phase, dataReply, stored>>

\* RSET forgets the transaction; a line of data that is read as a command is an unknown one.
ReadOther ==
  /\ phase = "command"
  /\ \E i \in Reader : /\ ReadLine(i)
                       /\ written[i] \in DataLines \cup {"rset"}
                       /\ transport' = IF written[i] = "rset" THEN "none" ELSE transport
  /\ UNCHANGED <<mime, phase, dataReply, stored>>

\* Variant: the refusal does not keep the loop over the data from being entered.
ReadDataInAnyCase ==
  /\ phase = "command"
  /\ \E i \in Reader : ReadLine(i) /\ written[i] = "data"
  /\ \/ dataReply' = "503" /\ phase' = "data" /\ UNCHANGED mime
     \/ transport # "none" /\ dataReply' = "354" /\ mime' = transport /\ phase' = "data"
  /\ UNCHANGED <<transport, stored>>

\* DATA is refused without MAIL FROM or recipients.
ReadData ==
  /\ phase = "command"
  /\ \E i \in Reader : ReadLine(i) /\ written[i] = "data"
  /\ \/ dataReply' = "503" /\ UNCHANGED <<mime, phase>>
     \/ transport # "none" /\ dataReply' = "354" /\ mime' = transport /\ phase' = "data"
  /\ UNCHANGED <<transport, stored>>

\* Whatever it is, until the dot.
ReadText ==
  /\ phase = "data"
  /\ \E i \in Reader : ReadLine(i) /\ written[i] # "dot"
  /\ UNCHANGED <<mime, transport, phase, dataReply, stored>>

ReadDot ==
  /\ phase = "data"
  /\ \E i \in Reader : ReadLine(i) /\ written[i] = "dot"
  /\ mime' = "ascii" /\ transport' = "none" /\ phase' = "command"
  /\ stored' = TRUE
  /\ UNCHANGED dataReply

-----------------------------------------------------------------------------

LinesNext ==
  \/ WriteMail \/ WriteRset \/ WriteData \/ GetReply \/ WriteText \/ WriteDot \/ GoOn
  \/ Fill \/ ReadMail \/ ReadOther \/ ReadData \/ ReadText \/ ReadDot

LinesSpec == LinesInit /\ [][LinesNext]_linesVars

-----------------------------------------------------------------------------
(* Properties                                                              *)

\* The two readers are as good as one: what was taken from the stream and not read is with the
\* reader in use, none of it left behind in the other, whatever a client puts into one group.
\* Except for the group that RFC 2920 allows and the UTF-8 reader breaks: the commands after
\* the dot.
OneStream ==
  ahead \/ (Reader = (read + 1)..filled /\ OtherReader = {})

\* No line of a message is taken for a command and no command for a line of a message.
LinesAreTakenAsMeant ==
  ahead \/ (read < Len(written) => (written[read + 1] \in DataLines <=> phase = "data"))
=============================================================================
