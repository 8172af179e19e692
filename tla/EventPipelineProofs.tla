------------------------- MODULE EventPipelineProofs -------------------------
(***************************************************************************)
(* Proofs about EventPipeline for any files, any number of tasks for       *)
(* complaints, any size of batch and any number of faults: a mail becomes  *)
(* one event, the web service takes an event once, and the ends of the     *)
(* process do not cut a bounce in two.                                     *)
(***************************************************************************)
EXTENDS EventPipeline, SequenceTheorems, FiniteSetTheorems, WellFoundedInduction, TLAPS

USE DEF folderVars, forwarderVars

-----------------------------------------------------------------------------
(* Handlers and files                                                      *)

\* A handler has files in hand only within a pass, and only of its folder.
WorkOfPass ==
  \A h \in Handlers, f \in Files :
    work[h][f] # "no" => f \in FilesOf(FolderOf(h)) /\ hpc[h] \in {"pass", "failing"}

\* _BounceProcessingRunning is a lock: of the constructor's thread and the watcher's one at most
\* is at work, and the flag is set while it is.
OneBounceThread ==
  /\ \A h \in BounceThreads : hpc[h] # "off" => running["bounce"]
  /\ \A g, h \in BounceThreads : hpc[g] # "off" /\ hpc[h] # "off" => g = h

\* Between the test of the lock on a file and its removal, the file is open to one handler and
\* is where it was dropped, unless two tasks had it at some time.
Opens(h, f) == work[h][f] \in {"read", "saved", "problem"}
OneOpener ==
  \A f \in Files \ together : \A g, h \in Handlers : Opens(g, f) /\ Opens(h, f) => g = h
OpenIsDropped ==
  \A f \in Files \ together : \A h \in Handlers : Opens(h, f) => place[f] = "dropped"
BouncesAreNotShared == together \cap Bounces = {}

Handling == WorkOfPass /\ OneBounceThread /\ OneOpener /\ OpenIsDropped /\ BouncesAreNotShared

-----------------------------------------------------------------------------
(* Files and events                                                        *)

\* An event was saved of a file that was handled to its end, or that its handler has yet to remove.
Handled(f) == place[f] = "done" \/ \E h \in Handlers : work[h][f] = "saved"
SavedHasEvent == \A f \in Files : Handled(f) => RowsOf(f) # {}

\* The other way round, but for the files that may leave a second event; so a file that is about
\* to be read has none.
EventWasSaved ==
  \A f \in Files \ (again \cup together) : RowsOf(f) # {} => Handled(f)
OneEvent ==
  \A f \in Files \ (again \cup together) : \A i, j \in RowsOf(f) : i = j

Events == SavedHasEvent /\ EventWasSaved /\ OneEvent

-----------------------------------------------------------------------------
(* Events and the web service                                              *)

Fetched ==
  /\ fpc \in {"post", "answer", "silent", "save"} => batch # {}
  /\ \A i \in batch : ~rows[i].forwarded
  /\ fpc = "save" => Current \in taken

\* An event that was taken is marked, or about to be, or the loss of the answer or of the mark
\* is on record.
TakenIsKnown ==
  \A i \in taken : rows[i].forwarded \/ i \in doubted \/ (fpc = "save" /\ i = Current)

Inv == TypeOK /\ Handling /\ Events /\ Fetched /\ TakenIsKnown /\ TakenOnce /\ BouncesAtRest
-----------------------------------------------------------------------------
(* The table                                                               *)

Row == [source : Files, forwarded : BOOLEAN]

\* An event that is saved is the last of the table.
LEMMA InsertedRow ==
  ASSUME rows \in Seq(Row), NEW f \in Files, Insert(f)
  PROVE  /\ rows' \in Seq(Row)
         /\ DOMAIN rows' = DOMAIN rows \cup {Len(rows) + 1} /\ Len(rows) + 1 \notin DOMAIN rows
         /\ \A i \in DOMAIN rows : rows'[i] = rows[i]
         /\ rows'[Len(rows) + 1] = [source |-> f, forwarded |-> FALSE]
<1> DEFINE r == [source |-> f, forwarded |-> FALSE]
<1>1. r \in Row /\ rows' = Append(rows, r)
  BY DEF Insert, Row
<1> HIDE DEF r
<1>2. /\ Append(rows, r) \in Seq(Row) /\ Len(Append(rows, r)) = Len(rows) + 1
      /\ \A i \in 1..Len(rows) : Append(rows, r)[i] = rows[i]
      /\ Append(rows, r)[Len(rows) + 1] = r
  BY <1>1, AppendProperties
<1>3. DOMAIN rows' = 1..(Len(rows) + 1) /\ DOMAIN rows = 1..Len(rows) /\ Len(rows) \in Nat
  BY <1>1, <1>2, LenProperties
<1> QED BY <1>1, <1>2, <1>3 DEF r

\* It is one more of its file.
LEMMA InsertedRowsOf ==
  ASSUME rows \in Seq(Row), NEW f \in Files, Insert(f)
  PROVE  /\ \A g \in Files \ {f} : RowsOf(g)' = RowsOf(g)
         /\ RowsOf(f)' = RowsOf(f) \cup {Len(rows) + 1}
<1>1. ASSUME NEW i \in DOMAIN rows PROVE rows'[i].source = rows[i].source
  BY <1>1, InsertedRow
<1>2. rows'[Len(rows) + 1].source = f
  <2>1. rows'[Len(rows) + 1] = [source |-> f, forwarded |-> FALSE]
    BY InsertedRow
  <2> QED BY <2>1
<1> QED BY <1>1, <1>2, InsertedRow DEF RowsOf

\* An update changes one event, and its mark only.
LEMMA UpdatedRow ==
  ASSUME rows \in Seq(Row), NEW i \in DOMAIN rows, Update(i)
  PROVE  /\ rows' \in Seq(Row) /\ DOMAIN rows' = DOMAIN rows
         /\ rows'[i].forwarded
         /\ \A j \in DOMAIN rows : rows'[j].source = rows[j].source
         /\ \A j \in DOMAIN rows \ {i} : rows'[j] = rows[j]
<1>1. /\ rows \in [1..Len(rows) -> Row] /\ DOMAIN rows = 1..Len(rows)
  BY LenProperties
<1>2. rows[i] \in Row
  BY <1>1
<1>3. [rows[i] EXCEPT !.forwarded = TRUE] \in Row /\ [rows[i] EXCEPT !.forwarded = TRUE].source = rows[i].source
  BY <1>2 DEF Row
<1>4. rows' = [rows EXCEPT ![i] = [rows[i] EXCEPT !.forwarded = TRUE]]
  BY DEF Update
<1>5. rows' \in Seq(Row)
  BY <1>1, <1>3, <1>4, ExceptSeq
<1>6. [rows[i] EXCEPT !.forwarded = TRUE].forwarded
  BY <1>2 DEF Row
<1> QED BY <1>1, <1>3, <1>4, <1>5, <1>6

\* It leaves alone which events are of a file.
LEMMA UpdatedRowsOf ==
  ASSUME rows \in Seq(Row), NEW i \in DOMAIN rows, Update(i), NEW f
  PROVE  RowsOf(f)' = RowsOf(f)
  BY UpdatedRow DEF RowsOf

-----------------------------------------------------------------------------
(* The event that the forwarder is at                                      *)

\* The event that the forwarder is at is one of those it fetched.
LEMMA CurrentIsFetched ==
  ASSUME batch \in SUBSET Nat, batch # {}
  PROVE  Current \in batch
<1> DEFINE Less == {ss \in Nat \X Nat : ss[1] < ss[2]}
<1>1. IsWellFoundedOn(Less, Nat)
  BY NatLessThanWellFounded DEF OpToRel
<1>2. PICK x \in batch : \A y \in batch : ~ (<<y, x>> \in Less)
  <2> HIDE DEF Less
  <2> QED BY <1>1, WFMin
<1>3. ASSUME NEW y \in batch PROVE x =< y
  <2>1. ~ (<<y, x>> \in Less) /\ x \in Nat /\ y \in Nat
    BY <1>2
  <2> QED BY <2>1
<1> QED BY <1>3 DEF Current, Min

-----------------------------------------------------------------------------
(* Types                                                                   *)

\* Setting one flag of a function of flags leaves one.
LEMMA FlagSet ==
  ASSUME NEW S, NEW flag \in [S -> BOOLEAN], NEW k, NEW b \in BOOLEAN
  PROVE  [flag EXCEPT ![k] = b] \in [S -> BOOLEAN]
OBVIOUS

\* No file and no event exists at first.
LEMMA InitInv == Init => Inv
<1> SUFFICES ASSUME Init PROVE Inv
  OBVIOUS
<1> USE DEF Init, TableInit, FolderInit, ForwarderInit
<1>1. rows \in Seq(Row) /\ DOMAIN rows = {}
  BY DEF Row
<1>2. TypeOK
  <2>1. TableTypeOK /\ ForwarderTypeOK
    BY <1>1, FilesAssumption DEF TableTypeOK, ForwarderTypeOK, Row
  <2>2. FolderTypeOK
    BY DEF FolderTypeOK, NoWork
  <2> QED BY <2>1, <2>2 DEF TypeOK
<1>3. Handling
  BY DEF Handling, WorkOfPass, OneBounceThread, OneOpener, OpenIsDropped, BouncesAreNotShared, Opens, NoWork,
     Handlers
<1>4. RowsOf(0) = {} /\ \A f \in Files : RowsOf(f) = {}
  BY <1>1 DEF RowsOf
<1>5. Events
  BY <1>4 DEF Events, SavedHasEvent, EventWasSaved, OneEvent, Handled, NoWork
<1>6. Fetched /\ TakenIsKnown /\ TakenOnce /\ BouncesAtRest
  BY <1>1 DEF Fetched, TakenIsKnown, TakenOnce, BouncesAtRest, ForwarderStopping
<1> QED BY <1>2, <1>3, <1>5, <1>6 DEF Inv
\* A handler's state and the work it has in hand stay within their sets.
LEMMA FolderTypeStep ==
  ASSUME TypeOK, FolderStep \/ FolderFault
  PROVE  FolderTypeOK'
<1> USE FilesAssumption, TasksAssumption
    DEF FolderTypeOK, Goto, Mark, Put, HandlerStep, FileStep, Kinds, Handlers, BounceThreads
<1>0. FolderTypeOK /\ \A f \in Files : KindOf(f) \in Kinds
  BY DEF TypeOK, KindOf
<1>1. ASSUME NEW f \in Files, Create(f) PROVE FolderTypeOK'
  <2>1. nudges' \in [Kinds -> Nat]
    BY <1>0, <1>1 DEF Create
  <2>2. missed' \in SUBSET Files
    BY <1>0, <1>1 DEF Create
  <2> QED BY <1>0, <1>1, <2>1, <2>2 DEF Create
<1>2. ASSUME NEW f \in Files, Close(f) PROVE FolderTypeOK'
  BY <1>0, <1>2 DEF Close
<1>3. ASSUME NEW h \in BounceThreads, DoBounceFileProcessing(h) PROVE FolderTypeOK'
  <2>1. nudges' \in [Kinds -> Nat] /\ startup' \in {"bounces", "complaints", "over"}
    BY <1>0, <1>3 DEF DoBounceFileProcessing, CallOver, Called
  <2>2. missed' \in SUBSET Files
    BY <1>0, <1>3 DEF DoBounceFileProcessing, ReturnAtOnce, Present, FilesOf, Files
  <2>3. \/ running' = running /\ watching' = watching
        \/ running' = [running EXCEPT !["bounce"] = TRUE] /\ watching' = [watching EXCEPT !["bounce"] = FALSE]
    BY <1>3 DEF DoBounceFileProcessing
  <2>4. hpc' = hpc \/ hpc' = [hpc EXCEPT ![h] = "list"]
    BY <1>3 DEF DoBounceFileProcessing
  <2>5. UNCHANGED <<place, work, again, together, unmovable>>
    BY <1>3 DEF DoBounceFileProcessing
  <2>6. hpc' \in [Handlers -> {"off", "list", "pass", "empty", "failing", "end"}]
    <3>1. h \in Handlers /\ hpc \in [Handlers -> {"off", "list", "pass", "empty", "failing", "end"}]
      BY <1>0
    <3> HIDE DEF Handlers
    <3> QED BY <2>4, <3>1
  <2>7. running' \in [Kinds -> BOOLEAN] /\ watching' \in [Kinds -> BOOLEAN]
    <3>1. running \in [Kinds -> BOOLEAN] /\ watching \in [Kinds -> BOOLEAN]
      BY <1>0
    <3> HIDE DEF Kinds
    <3> QED BY <2>3, <3>1, FlagSet
  <2> QED BY <1>0, <2>1, <2>2, <2>5, <2>6, <2>7
<1>4. CASE DoAbuseFileProcessing
  <2>1. nudges' \in [Kinds -> Nat] /\ startup' \in {"bounces", "complaints", "over"}
    BY <1>0, <1>4 DEF DoAbuseFileProcessing, CalledForComplaints
  <2>2. missed' \in SUBSET Files
    BY <1>0, <1>4 DEF DoAbuseFileProcessing, ReturnAtOnce, Present, FilesOf, Files
  <2>3. running' \in [Kinds -> BOOLEAN] /\ watching' \in [Kinds -> BOOLEAN]
    <3>1. \/ running' = running /\ watching' = watching
          \/ running' = [running EXCEPT !["complaint"] = TRUE]
             /\ watching' = [watching EXCEPT !["complaint"] = FALSE]
      BY <1>4 DEF DoAbuseFileProcessing
    <3>2. running \in [Kinds -> BOOLEAN] /\ watching \in [Kinds -> BOOLEAN]
      BY <1>0
    <3> HIDE DEF Kinds
    <3> QED BY <3>1, <3>2, FlagSet
  <2>4. hpc' \in [Handlers -> {"off", "list", "pass", "empty", "failing", "end"}]
    BY <1>0, <1>4 DEF DoAbuseFileProcessing
  <2> QED BY <1>0, <1>4, <2>1, <2>2, <2>3, <2>4 DEF DoAbuseFileProcessing
<1>5. CASE EndOfAbuseCall
  BY <1>0, <1>5 DEF EndOfAbuseCall
<1>6. ASSUME NEW h \in Handlers, EndOfBounces(h) \/ EndOfTask(h) PROVE FolderTypeOK'
  <2>1. hpc' = [hpc EXCEPT ![h] = "off"] /\ startup' \in {startup, "complaints"}
    BY <1>6 DEF EndOfBounces, EndOfTask
  <2>2. \/ running' = running /\ watching' = watching
        \/ running' = [running EXCEPT !["bounce"] = FALSE] /\ watching' = [watching EXCEPT !["bounce"] = TRUE]
    BY <1>6 DEF EndOfBounces, EndOfTask
  <2>3. running' \in [Kinds -> BOOLEAN] /\ watching' \in [Kinds -> BOOLEAN]
    <3>1. running \in [Kinds -> BOOLEAN] /\ watching \in [Kinds -> BOOLEAN]
      BY <1>0
    <3> HIDE DEF Kinds
    <3> QED BY <2>2, <3>1, FlagSet
  <2>4. UNCHANGED <<place, nudges, work, again, together, missed, unmovable>>
    BY <1>6 DEF EndOfBounces, EndOfTask
  <2> QED BY <1>0, <2>1, <2>3, <2>4
<1>7. ASSUME NEW h \in Handlers, List(h) \/ Relist(h) PROVE FolderTypeOK'
  <2>1. work' \in [Handlers -> [Files -> {"no", "todo", "read", "saved", "problem"}]]
    <3>1. PICK todo \in [Files -> {"no", "todo"}] : work' = [work EXCEPT ![h] = todo]
      BY <1>7 DEF List, Relist, TodoAll
    <3> QED BY <1>0, <3>1
  <2>2. \E to \in {"pass", "empty", "end"} : hpc' = [hpc EXCEPT ![h] = to]
    BY <1>7 DEF List, Relist, Listed
  <2> QED BY <1>0, <1>7, <2>1, <2>2 DEF List, Relist
<1>8. ASSUME NEW h \in Handlers, EndEmpty(h) \/ PassFailed(h) PROVE FolderTypeOK'
  BY <1>0, <1>8 DEF EndEmpty, PassFailed
<1>9. ASSUME NEW h \in Handlers, NEW f \in Files, Skip(h, f) \/ Read(h, f) \/ Process(h, f)
                                                  \/ Remove(h, f) \/ MoveAside(h, f)
      PROVE  FolderTypeOK'
  <2>1. \E to \in {"no", "read", "saved", "problem"} : work' = [work EXCEPT ![h][f] = to]
    BY <1>9 DEF Skip, Read, Process, Remove, MoveAside
  <2>2. work' \in [Handlers -> [Files -> {"no", "todo", "read", "saved", "problem"}]]
    BY <1>0, <2>1
  <2>3. place' = place \/ \E to \in {"done", "aside"} : place' = [place EXCEPT ![f] = to]
    BY <1>9 DEF Skip, Read, Process, Remove, MoveAside
  <2>4. together' \in SUBSET Files
    BY <1>0, <1>9 DEF Skip, Read, Process, Remove, MoveAside
  <2>5. UNCHANGED <<running, watching, nudges, startup, hpc, again, missed, unmovable>>
    BY <1>9 DEF Skip, Read, Process, Remove, MoveAside
  <2> QED BY <1>0, <2>2, <2>3, <2>4, <2>5
<1>10. ASSUME NEW h \in Handlers, NEW f \in Files, Throw(h, f),
              again' \in SUBSET Files, together' \in SUBSET Files, UNCHANGED unmovable
       PROVE  FolderTypeOK'
  <2>1. work' \in [Handlers -> [Files -> {"no", "todo", "read", "saved", "problem"}]]
    BY <1>0, <1>10 DEF Throw
  <2>2. missed' \in SUBSET Files
    BY <1>0, <1>10 DEF Throw, Present, FilesOf, Files
  <2> QED BY <1>0, <1>10, <2>1, <2>2 DEF Throw
<1>11. ASSUME NEW h \in Handlers, NEW f \in Files, Disturbed(h, f) PROVE FolderTypeOK'
  <2>1. again' \in SUBSET Files /\ together' \in SUBSET Files /\ Throw(h, f) /\ UNCHANGED unmovable
    BY <1>0, <1>11 DEF Disturbed
  <2> QED BY <1>10, <2>1
<1>12. ASSUME NEW h \in Handlers, NEW f \in Files,
              SaveFails(h, f) \/ RemoveFails(h, f) \/ MoveFails(h, f)
       PROVE  FolderTypeOK'
  <2>1. /\ again' \in SUBSET Files /\ together' \in SUBSET Files /\ unmovable' \in SUBSET Files
        /\ MoveFails(h, f) \/ UNCHANGED unmovable
    BY <1>0, <1>12 DEF SaveFails, RemoveFails, MoveFails
  <2>2. CASE Throw(h, f) /\ UNCHANGED unmovable
    BY <1>10, <2>1, <2>2
  <2>3. CASE /\ \E from, to \in {"read", "problem"} : FileStep(h, f, from, to)
             /\ UNCHANGED <<place, hpc>>
    <3>1. \E to \in {"read", "problem"} : work' = [work EXCEPT ![h][f] = to]
      BY <2>3
    <3>2. work' \in [Handlers -> [Files -> {"no", "todo", "read", "saved", "problem"}]]
      BY <1>0, <3>1
    <3>3. UNCHANGED <<running, watching, nudges, startup, missed>>
      BY <2>3
    <3> QED BY <1>0, <2>1, <2>3, <3>2, <3>3
  <2> QED BY <1>12, <2>1, <2>2, <2>3 DEF SaveFails, RemoveFails, MoveFails
<1>13. \A h \in Handlers : FilesOf(FolderOf(h)) \subseteq Files
  BY DEF FilesOf, Files
<1> QED
  BY <1>1, <1>2, <1>3, <1>4, <1>5, <1>6, <1>7, <1>8, <1>9, <1>11, <1>12, <1>13
  DEF FolderStep, FolderFault, DirectoryHandler
\* What a step can do to the table.
LEMMA RowsStep ==
  ASSUME TypeOK, Fetched, [Next]_vars
  PROVE  \/ UNCHANGED rows
         \/ \E f \in Files : Insert(f)
         \/ fpc = "save" /\ Current \in batch /\ Update(Current) /\ NextEvent
<1>1. CASE FolderStep \/ FolderFault
  <2>1. \A h \in Handlers : FilesOf(FolderOf(h)) \subseteq Files
    BY DEF FilesOf, Files
  <2> QED
    BY <1>1, <2>1
    DEF FolderStep, FolderFault, DirectoryHandler, Create, Close, DoBounceFileProcessing, DoAbuseFileProcessing,
      EndOfAbuseCall, EndOfBounces, EndOfTask, List, Relist, EndEmpty, PassFailed, HandlerStep, Skip, Read,
      Process, Remove, MoveAside, Disturbed, SaveFails, RemoveFails, MoveFails
<1>2. CASE ForwardEvents \/ ServiceSilent \/ ForwarderFault
  <2>1. fpc = "save" => Current \in batch
    <3>1. batch \in SUBSET Nat
      <4>1. DOMAIN rows = 1..Len(rows)
        BY LenProperties DEF TypeOK, TableTypeOK
      <4> QED BY <4>1 DEF TypeOK, ForwarderTypeOK
    <3> QED BY <3>1, CurrentIsFetched DEF Fetched
  <2> QED
    BY <1>2, <2>1 DEF ForwardEvents, ServiceSilent, ForwarderFault, Fetch, FetchFails, End, SkipEvent, Post,
       Acknowledged, NotAcknowledged, NotAnswered, Doubtful, SaveForwarded, SaveForwardedFails
<1> QED
  BY <1>1, <1>2
  DEF Next, FolderNext, ForwarderNext, OnStop, FolderStopped, ForwarderStopped, Restart, vars

\* Every step keeps the types.
LEMMA TypeStep ==
  ASSUME Inv, [Next]_vars
  PROVE  TypeOK'
<1>0. TypeOK /\ Fetched /\ rows \in Seq(Row)
  BY DEF Inv, TypeOK, TableTypeOK, Row
<1>1. rows' \in Seq(Row) /\ DOMAIN rows \subseteq DOMAIN rows'
  <2>1. CASE \E f \in Files : Insert(f)
    BY <1>0, <2>1, InsertedRow
  <2>2. CASE Current \in batch /\ Update(Current)
    <3>1. Current \in DOMAIN rows
      BY <1>0, <2>2 DEF TypeOK, ForwarderTypeOK
    <3> QED BY <1>0, <2>2, <3>1, UpdatedRow
  <2> QED BY <1>0, <2>1, <2>2, RowsStep
<1>2. stop' \in {"no", "folder", "forwarder", "done"} /\ faults' \in 0..MaxFaults
  BY <1>0, FilesAssumption
  DEF TypeOK, TableTypeOK, Next, FolderNext, FolderStep, FolderFault, ForwarderNext, ForwardEvents, ForwarderFault,
    ServiceSilent, FetchFails, OnStop, FolderStopped, ForwarderStopped, Restart, Fault, vars
<1>3. TableTypeOK'
  BY <1>1, <1>2 DEF TableTypeOK, Row
<1>4. FolderTypeOK'
  <2>1. CASE FolderStep \/ FolderFault
    BY <1>0, <2>1, FolderTypeStep
  <2>2. CASE UNCHANGED folderVars
    BY <1>0, <2>2 DEF TypeOK, FolderTypeOK
  <2>3. CASE Restart
    <3>1. FolderRestart /\ FolderTypeOK
      BY <1>0, <2>3 DEF TypeOK, Restart
    <3>2. place' \in [Files -> {"none", "writing", "dropped", "done", "aside"}]
      BY <3>1 DEF FolderRestart, FolderTypeOK
    <3>3. again' \in SUBSET Files /\ together' \in SUBSET Files
      BY <3>1 DEF FolderRestart, FolderTypeOK
    <3> QED BY <3>1, <3>2, <3>3 DEF FolderRestart, FolderTypeOK, NoWork
  <2> QED BY <2>1, <2>2, <2>3
          DEF Next, FolderNext, ForwarderNext, OnStop, FolderStopped, ForwarderStopped, vars
<1>5. ForwarderTypeOK'
  <2>0. /\ batch \subseteq DOMAIN rows /\ taken \subseteq DOMAIN rows /\ retaken \subseteq taken
        /\ doubted \subseteq taken
        /\ fpc \in {"fetch", "post", "answer", "silent", "save", "failed", "ended"}
        /\ fpc \in {"post", "answer", "silent", "save"} => Current \in batch
    <3>1. batch \in SUBSET Nat
      <4>1. DOMAIN rows = 1..Len(rows)
        BY <1>0, LenProperties
      <4> QED BY <1>0, <4>1 DEF TypeOK, ForwarderTypeOK
    <3> QED BY <1>0, <3>1, CurrentIsFetched DEF Fetched, TypeOK, ForwarderTypeOK
  <2>1. CASE ForwardEvents \/ ServiceSilent \/ ForwarderFault
    <3>1. fpc' \in {"fetch", "post", "answer", "silent", "save", "failed", "ended"}
      BY <2>0, <2>1 DEF ForwardEvents, ServiceSilent, ForwarderFault, Fetch, FetchFails, End, SkipEvent, Post,
         Acknowledged, NotAcknowledged, NotAnswered, Doubtful, SaveForwarded, SaveForwardedFails, NextEvent
    <3>2. batch' \subseteq DOMAIN rows
      BY <2>0, <2>1 DEF ForwardEvents, ServiceSilent, ForwarderFault, Fetch, FetchFails, End, SkipEvent, Post,
         Acknowledged, NotAcknowledged, NotAnswered, Doubtful, SaveForwarded, SaveForwardedFails, NextEvent, GetEventsForForwarding, Unforwarded
    <3>3. taken' \subseteq DOMAIN rows /\ retaken' \subseteq taken' /\ doubted' \subseteq taken'
      BY <1>0, <2>0, <2>1 DEF ForwardEvents, ServiceSilent, ForwarderFault, Fetch, FetchFails, End, SkipEvent, Post,
         Acknowledged, NotAcknowledged, NotAnswered, Doubtful, SaveForwarded, SaveForwardedFails, Takes, Fetched
    <3> QED BY <1>1, <3>1, <3>2, <3>3 DEF ForwarderTypeOK
  <2>2. CASE UNCHANGED forwarderVars
    BY <1>1, <2>0, <2>2 DEF ForwarderTypeOK
  <2>3. CASE Restart
    BY <1>0, <1>1, <2>0, <2>3 DEF Restart, ForwarderRestart, Doubtful, Takes, ForwarderTypeOK, Fetched
  <2> QED BY <2>1, <2>2, <2>3
          DEF Next, FolderNext, ForwarderNext, OnStop, FolderStopped, ForwarderStopped, vars
<1> QED BY <1>3, <1>4, <1>5 DEF TypeOK
-----------------------------------------------------------------------------
(* Who is at work                                                          *)

Works == {"no", "todo", "read", "saved", "problem"}
Places == {"off", "list", "pass", "empty", "failing", "end"}

\* The functions and sets that the following steps are about.
LEMMA FolderTypes ==
  ASSUME Inv
  PROVE  /\ work \in [Handlers -> [Files -> Works]] /\ hpc \in [Handlers -> Places]
         /\ running \in [Kinds -> BOOLEAN]
         /\ place \in [Files -> {"none", "writing", "dropped", "done", "aside"}]
         /\ \A h \in Handlers : FilesOf(FolderOf(h)) \subseteq Files /\ Present(FolderOf(h)) \subseteq FilesOf(FolderOf(h))
         /\ BounceThreads \subseteq Handlers /\ Tasks \subseteq Handlers /\ BounceThreads \cap Tasks = {}
<1>1. FolderTypeOK
  BY DEF Inv, TypeOK
<1>2. \A h \in Handlers : FilesOf(FolderOf(h)) \subseteq Files /\ Present(FolderOf(h)) \subseteq FilesOf(FolderOf(h))
  BY DEF FilesOf, Files, Present
<1>3. BounceThreads \subseteq Handlers /\ Tasks \subseteq Handlers /\ BounceThreads \cap Tasks = {}
  BY TasksAssumption DEF Handlers, BounceThreads
<1> QED BY <1>1, <1>2, <1>3 DEF FolderTypeOK, Works, Places

\* A file of the bounce folder is in the list of one handler.
LEMMA BounceHasOneHandler ==
  ASSUME WorkOfPass, OneBounceThread, NEW f \in Bounces, NEW g \in Handlers, NEW h \in Handlers,
         work[g][f] # "no", work[h][f] # "no"
  PROVE  g = h
<1>1. f \in Files /\ f \notin Complaints
  BY FilesAssumption DEF Files
<1>2. g \in BounceThreads /\ h \in BounceThreads
  BY <1>1 DEF WorkOfPass, FilesOf, FolderOf
<1> QED BY <1>1, <1>2 DEF WorkOfPass, OneBounceThread

\* A handler goes on in its call.
LEMMA GoesOn ==
  ASSUME Inv, NEW h \in Handlers, NEW to \in Places \ {"off"}, hpc[h] # "off",
         hpc' = [hpc EXCEPT ![h] = to], UNCHANGED running
  PROVE  OneBounceThread'
<1>1. \A g \in Handlers : hpc'[g] # "off" <=> hpc[g] # "off"
  BY FolderTypes
<1> QED BY <1>1, FolderTypes DEF Inv, Handling, OneBounceThread

\* A pass begins: the work of the handler is what is present in its folder.
LEMMA ListFlags ==
  ASSUME Inv, NEW h \in Handlers, List(h) \/ Relist(h)
  PROVE  WorkOfPass' /\ OneBounceThread'
<1> DEFINE present == Present(FolderOf(h))
           todo == [f \in Files |-> IF f \in present THEN "todo" ELSE "no"]
<1>1. PICK to \in {"pass", "empty", "end"} : hpc' = [hpc EXCEPT ![h] = to] /\ (to # "pass" => present = {})
  BY DEF List, Relist, HandlerStep, Goto, Listed
<1>2. hpc[h] \in {"list", "pass", "empty"} /\ UNCHANGED running /\ work' = [work EXCEPT ![h] = todo]
  BY DEF List, Relist, HandlerStep, TodoAll
<1> HIDE DEF todo
<1>3. OneBounceThread'
  BY <1>1, <1>2, GoesOn DEF Places
<1>4. \A f \in Files : todo[f] # "no" => f \in FilesOf(FolderOf(h)) /\ to = "pass"
  BY <1>1, FolderTypes DEF todo
<1>5. /\ hpc'[h] = to /\ work'[h] = todo
      /\ \A g \in Handlers \ {h} : hpc'[g] = hpc[g] /\ work'[g] = work[g]
  BY <1>1, <1>2, FolderTypes
<1>6. WorkOfPass'
  BY <1>4, <1>5 DEF Inv, Handling, WorkOfPass
<1> QED BY <1>3, <1>6

\* The handling of a file goes on, or an exception ends the pass.
LEMMA FileFlags ==
  ASSUME Inv, NEW h \in Handlers, NEW f \in Files,
         \/ \E from \in Works \ {"no"}, to \in Works : FileStep(h, f, from, to) /\ UNCHANGED hpc
         \/ Throw(h, f)
  PROVE  WorkOfPass' /\ OneBounceThread'
<1>1. CASE \E from \in Works \ {"no"}, to \in Works : FileStep(h, f, from, to) /\ UNCHANGED hpc
  <2>1. PICK to \in Works : /\ work[h][f] # "no" /\ work' = [work EXCEPT ![h][f] = to]
                            /\ UNCHANGED <<hpc, running>>
    BY <1>1 DEF FileStep, Mark
  <2>2. \A g \in Handlers, x \in Files : work'[g][x] # "no" => work[g][x] # "no"
    BY <2>1, FolderTypes
  <2> QED BY <2>1, <2>2 DEF Inv, Handling, WorkOfPass, OneBounceThread
<1>2. CASE Throw(h, f)
  <2>1. hpc[h] \in {"pass", "failing"} /\ hpc' = [hpc EXCEPT ![h] = "failing"] /\ UNCHANGED running
    BY <1>2 DEF Throw, Goto
  <2>2. OneBounceThread'
    BY <2>1, GoesOn DEF Places
  <2>3. \A g \in Handlers, x \in Files : work'[g][x] # "no" => work[g][x] # "no"
    BY <1>2, FolderTypes DEF Throw
  <2>4. \A g \in Handlers : hpc[g] \in {"pass", "failing"} => hpc'[g] \in {"pass", "failing"}
    BY <2>1, FolderTypes
  <2> QED BY <2>2, <2>3, <2>4 DEF Inv, Handling, WorkOfPass
<1> QED BY <1>1, <1>2

\* A call begins, ends, or finds that there is nothing to do: no file is in hand.
LEMMA CallFlags ==
  ASSUME Inv,
         \/ \E h \in BounceThreads : DoBounceFileProcessing(h) \/ EndOfBounces(h)
         \/ DoAbuseFileProcessing \/ EndOfAbuseCall
         \/ \E h \in Tasks : EndOfTask(h)
         \/ \E h \in Handlers : EndEmpty(h) \/ PassFailed(h)
  PROVE  WorkOfPass' /\ OneBounceThread'
<1> USE DEF Goto
<1>0. WorkOfPass /\ OneBounceThread
  BY DEF Inv, Handling
<1>1. ASSUME NEW h \in Handlers, NEW to \in Places, hpc' = [hpc EXCEPT ![h] = to], UNCHANGED work,
             \A f \in Files : work[h][f] = "no"
      PROVE  WorkOfPass'
  BY <1>0, <1>1, FolderTypes DEF WorkOfPass
<1>2. ASSUME NEW h \in BounceThreads, DoBounceFileProcessing(h) PROVE WorkOfPass' /\ OneBounceThread'
  <2>1. CASE UNCHANGED <<running, hpc>>
    BY <1>0, <1>2, <2>1 DEF DoBounceFileProcessing, WorkOfPass, OneBounceThread
  <2>2. CASE /\ ~running["bounce"] /\ running' = [running EXCEPT !["bounce"] = TRUE]
             /\ hpc' = [hpc EXCEPT ![h] = "list"]
    <3>1. \A f \in Files : work[h][f] = "no"
      BY <1>0, <1>2, FolderTypes DEF WorkOfPass, DoBounceFileProcessing
    <3>2. WorkOfPass'
      BY <1>1, <1>2, <2>2, <3>1, FolderTypes DEF DoBounceFileProcessing, Places
    <3>3. running'["bounce"]
      BY <2>2, FolderTypes DEF Kinds
    <3>4. \A g \in BounceThreads : hpc'[g] # "off" => g = h
      BY <1>0, <2>2, FolderTypes DEF OneBounceThread
    <3> QED BY <3>2, <3>3, <3>4 DEF OneBounceThread
  <2> QED BY <1>2, <2>1, <2>2 DEF DoBounceFileProcessing
<1>3. ASSUME NEW h \in BounceThreads, EndOfBounces(h) PROVE WorkOfPass' /\ OneBounceThread'
  <2>1. \A f \in Files : work[h][f] = "no"
    BY <1>0, <1>3, FolderTypes DEF WorkOfPass, EndOfBounces
  <2>2. WorkOfPass'
    BY <1>1, <1>3, <2>1, FolderTypes DEF EndOfBounces, Places
  <2>3. \A g \in BounceThreads : hpc'[g] = "off"
    BY <1>0, <1>3, FolderTypes DEF OneBounceThread, EndOfBounces
  <2> QED BY <2>2, <2>3 DEF OneBounceThread
<1>4. CASE DoAbuseFileProcessing
  <2>1. running'["bounce"] = running["bounce"] /\ UNCHANGED work
    BY <1>4, FolderTypes DEF DoAbuseFileProcessing, Kinds
  <2>2. CASE UNCHANGED hpc
    BY <1>0, <2>1, <2>2 DEF WorkOfPass, OneBounceThread
  <2>3. ASSUME NEW h \in Tasks, hpc[h] = "off", hpc' = [hpc EXCEPT ![h] = "list"]
        PROVE  WorkOfPass' /\ OneBounceThread'
    <3>1. \A f \in Files : work[h][f] = "no"
      BY <1>0, <2>3, FolderTypes DEF WorkOfPass
    <3>2. WorkOfPass'
      BY <1>1, <2>1, <2>3, <3>1, FolderTypes DEF Places
    <3>3. \A g \in BounceThreads : hpc'[g] = hpc[g]
      BY <2>3, FolderTypes
    <3> QED BY <1>0, <2>1, <3>2, <3>3 DEF OneBounceThread
  <2> QED BY <1>4, <2>2, <2>3 DEF DoAbuseFileProcessing
<1>5. CASE EndOfAbuseCall
  <2>1. running'["bounce"] = running["bounce"] /\ UNCHANGED <<work, hpc>>
    BY <1>5, FolderTypes DEF EndOfAbuseCall, Kinds
  <2> QED BY <1>0, <2>1 DEF WorkOfPass, OneBounceThread
<1>6. ASSUME NEW h \in Tasks, EndOfTask(h) PROVE WorkOfPass' /\ OneBounceThread'
  <2>1. \A f \in Files : work[h][f] = "no"
    BY <1>0, <1>6, FolderTypes DEF WorkOfPass, EndOfTask
  <2>2. WorkOfPass'
    BY <1>1, <1>6, <2>1, FolderTypes DEF EndOfTask, Places
  <2>3. \A g \in BounceThreads : hpc'[g] = hpc[g]
    BY <1>6, FolderTypes DEF EndOfTask
  <2> QED BY <1>0, <1>6, <2>2, <2>3 DEF OneBounceThread, EndOfTask
<1>7. ASSUME NEW h \in Handlers, EndEmpty(h) \/ PassFailed(h) PROVE WorkOfPass' /\ OneBounceThread'
  <2>1. \A f \in Files : work[h][f] = "no"
    BY <1>0, <1>7 DEF WorkOfPass, EndEmpty, PassFailed, HandlerStep, Busy
  <2>2. hpc[h] # "off" /\ hpc' = [hpc EXCEPT ![h] = "end"] /\ UNCHANGED <<work, running>>
    BY <1>7 DEF EndEmpty, PassFailed, HandlerStep
  <2>3. "end" \in Places \ {"off"}
    BY DEF Places
  <2> QED BY <1>1, <2>1, <2>2, <2>3, GoesOn
<1> QED BY <1>2, <1>3, <1>4, <1>5, <1>6, <1>7
-----------------------------------------------------------------------------
(* Who has a file open                                                     *)

Openers == OneOpener /\ OpenIsDropped /\ BouncesAreNotShared

\* No file is opened, and none moves that stays open.
LEMMA NothingOpened ==
  ASSUME Inv, together \subseteq together', together' \cap Bounces = {},
         \A h \in Handlers, f \in Files : Opens(h, f)' => Opens(h, f),
         \A f \in Files \ together', h \in Handlers : Opens(h, f)' => place'[f] = place[f]
  PROVE  Openers'
<1>1. OneOpener /\ OpenIsDropped
  BY DEF Inv, Handling
<1>2. OneOpener'
  BY <1>1 DEF OneOpener
<1>3. OpenIsDropped'
  BY <1>1 DEF OpenIsDropped
<1> QED BY <1>2, <1>3 DEF Openers, BouncesAreNotShared

\* A file of which another handler has the file open is of no bounce.
LEMMA SharedIsComplaint ==
  ASSUME Inv, NEW h \in Handlers, NEW g \in Handlers \ {h}, NEW f \in Files, work[g][f] # "no", work[h][f] # "no"
  PROVE  f \notin Bounces
  BY BounceHasOneHandler DEF Inv, Handling

\* An exception in one handler leaves the files of the others with them.
LEMMA ThrowOpens ==
  ASSUME Inv, NEW h \in Handlers, NEW f \in Files, Throw(h, f),
         together' \in {together, together \cup {f}}, f \in together' \ together => f \notin Bounces
  PROVE  Openers'
<1>1. \A g \in Handlers, x \in Files : Opens(g, x)' => Opens(g, x)
  BY FolderTypes DEF Throw, Opens
<1>2. together' \cap Bounces = {} /\ together \subseteq together' /\ UNCHANGED place
  BY DEF Inv, Handling, BouncesAreNotShared, Throw
<1> QED BY <1>1, <1>2, NothingOpened

\* Reading a file opens it, and says so of a file that another has open.
LEMMA ReadOpens ==
  ASSUME Inv, NEW h \in Handlers, NEW f \in Files, Read(h, f)
  PROVE  Openers'
<1>1. /\ work' = [work EXCEPT ![h][f] = "read"] /\ work[h][f] = "todo" /\ place[f] = "dropped"
      /\ UNCHANGED place /\ together' = IF Open(h, f) THEN together \cup {f} ELSE together
  BY DEF Read, FileStep, Mark
<1>2. /\ work'[h][f] = "read"
      /\ \A g \in Handlers, x \in Files : g # h \/ x # f => work'[g][x] = work[g][x]
  BY <1>1, FolderTypes
<1>3. ASSUME f \notin together', NEW g \in Handlers \ {h} PROVE ~Opens(g, f)
  BY <1>1, <1>3 DEF Open, Opens
<1>4. OneOpener'
  BY <1>1, <1>2, <1>3 DEF Inv, Handling, OneOpener, Opens
<1>5. OpenIsDropped'
  BY <1>1, <1>2 DEF Inv, Handling, OpenIsDropped, Opens
<1>6. Open(h, f) => f \notin Bounces
  BY <1>1, SharedIsComplaint DEF Open
<1>7. BouncesAreNotShared'
  BY <1>1, <1>6 DEF Inv, Handling, BouncesAreNotShared
<1> QED BY <1>4, <1>5, <1>7 DEF Openers

\* Of a file that was not shared, whoever removes it or moves it was the one to have it open.
LEMMA MoveOpens ==
  ASSUME Inv, NEW h \in Handlers, NEW f \in Files, Remove(h, f) \/ MoveAside(h, f)
  PROVE  Openers'
<1>1. /\ work' = [work EXCEPT ![h][f] = "no"] /\ Opens(h, f) /\ UNCHANGED together
      /\ place' = place \/ \E where \in {"done", "aside"} : place' = [place EXCEPT ![f] = where]
  BY DEF Remove, MoveAside, FileStep, Mark, Put, Opens
<1>2. \A g \in Handlers, x \in Files : Opens(g, x)' => Opens(g, x) /\ (g # h \/ x # f)
  BY <1>1, FolderTypes DEF Opens
<1>3. \A x \in Files \ {f} : place'[x] = place[x]
  BY <1>1, FolderTypes
<1>4. \A x \in Files \ together, g \in Handlers : Opens(g, x)' => x # f
  BY <1>1, <1>2 DEF Inv, Handling, OneOpener
<1> QED BY <1>1, <1>2, <1>3, <1>4, NothingOpened DEF Inv, Handling, BouncesAreNotShared

\* No step of the folders opens a file for a second handler, unless two were told of it.
LEMMA FolderOpens ==
  ASSUME Inv, FolderStep \/ FolderFault
  PROVE  Openers'
<1>0. together \cap Bounces = {}
  BY DEF Inv, Handling, BouncesAreNotShared
<1>1. ASSUME UNCHANGED <<work, together>>,
             \A f \in Files \ together, h \in Handlers : Opens(h, f) => place'[f] = place[f]
      PROVE  Openers'
  BY <1>0, <1>1, NothingOpened DEF Opens
<1>2. ASSUME NEW f \in Files, Create(f) \/ Close(f) PROVE Openers'
  <2>1. /\ UNCHANGED <<work, together>> /\ place[f] # "dropped"
        /\ \A x \in Files \ {f} : place'[x] = place[x]
    BY <1>2, FolderTypes DEF Create, Close, Put
  <2> QED BY <1>1, <2>1 DEF Inv, Handling, OpenIsDropped
<1>3. ASSUME \/ \E h \in BounceThreads : DoBounceFileProcessing(h) \/ EndOfBounces(h)
             \/ DoAbuseFileProcessing \/ EndOfAbuseCall
             \/ \E h \in Tasks : EndOfTask(h)
             \/ \E h \in Handlers : EndEmpty(h) \/ PassFailed(h)
      PROVE  Openers'
  BY <1>1, <1>3 DEF DoBounceFileProcessing, EndOfBounces, DoAbuseFileProcessing, EndOfAbuseCall, EndOfTask,
     EndEmpty, PassFailed, HandlerStep
<1>4. ASSUME NEW h \in Handlers, List(h) \/ Relist(h) PROVE Openers'
  <2>1. UNCHANGED <<place, together>>
        /\ \E todo \in [Files -> {"todo", "no"}] : work' = [work EXCEPT ![h] = todo]
    BY <1>4 DEF List, Relist, HandlerStep, TodoAll
  <2>2. \A g \in Handlers, f \in Files : Opens(g, f)' => Opens(g, f)
    BY <2>1, FolderTypes DEF Opens
  <2> QED BY <1>0, <2>1, <2>2, NothingOpened
<1>5. ASSUME NEW h \in Handlers, NEW f \in Files,
             UNCHANGED <<place, together>>,
             \E from \in Works, to \in Works : /\ FileStep(h, f, from, to)
                                               /\ to = "no" \/ from \notin {"no", "todo"}
      PROVE  Openers'
  <2>1. \A g \in Handlers, x \in Files : Opens(g, x)' => Opens(g, x)
    BY <1>5, FolderTypes DEF FileStep, Mark, Opens, Works
  <2> QED BY <1>0, <1>5, <2>1, NothingOpened
<1>6. ASSUME NEW h \in Handlers, NEW f \in Files, Skip(h, f) \/ Process(h, f) PROVE Openers'
  <2>1. UNCHANGED <<place, together>>
        /\ \/ FileStep(h, f, "todo", "no") \/ FileStep(h, f, "read", "saved")
           \/ FileStep(h, f, "read", "problem")
    BY <1>6 DEF Skip, Process
  <2> QED BY <1>5, <2>1 DEF Works
<1>7. ASSUME NEW h \in Handlers, NEW f \in Files, Disturbed(h, f) PROVE Openers'
  <2>1. /\ Throw(h, f) /\ together' \in {together, together \cup {f}}
        /\ \E g \in Handlers \ {h} : work[g][f] # "no" /\ work[h][f] # "no"
    BY <1>7 DEF Disturbed
  <2> QED BY <2>1, ThrowOpens, SharedIsComplaint
<1>8. ASSUME NEW h \in Handlers, NEW f \in Files,
             SaveFails(h, f) \/ RemoveFails(h, f) \/ MoveFails(h, f)
      PROVE  Openers'
  <2>1. CASE Throw(h, f) /\ UNCHANGED together
    BY <2>1, ThrowOpens
  <2>2. CASE /\ \E from, to \in {"read", "problem"} : FileStep(h, f, from, to)
             /\ UNCHANGED <<place, together>>
    BY <1>5, <2>2 DEF Works
  <2> QED BY <1>8, <2>1, <2>2 DEF SaveFails, RemoveFails, MoveFails
<1> QED
  BY <1>2, <1>3, <1>4, <1>6, <1>7, <1>8, ReadOpens, MoveOpens, FolderTypes
  DEF FolderStep, FolderFault, DirectoryHandler

\* The flags say which handlers are at work.
LEMMA FolderFlags ==
  ASSUME Inv, FolderStep \/ FolderFault
  PROVE  WorkOfPass' /\ OneBounceThread'
<1>1. ASSUME NEW f \in Files, Create(f) \/ Close(f) PROVE WorkOfPass' /\ OneBounceThread'
  BY <1>1 DEF Create, Close, Inv, Handling, WorkOfPass, OneBounceThread
<1>2. ASSUME NEW h \in Handlers, NEW f \in Files, Skip(h, f) \/ Read(h, f) \/ Process(h, f)
                                                  \/ Remove(h, f) \/ MoveAside(h, f)
      PROVE  WorkOfPass' /\ OneBounceThread'
  <2>1. \E from \in Works \ {"no"}, to \in Works : FileStep(h, f, from, to) /\ UNCHANGED hpc
    BY <1>2 DEF Skip, Read, Process, Remove, MoveAside, Works
  <2> QED BY <2>1, FileFlags
<1>3. ASSUME NEW h \in Handlers, NEW f \in Files, Disturbed(h, f) \/ SaveFails(h, f) \/ RemoveFails(h, f)
                                                  \/ MoveFails(h, f)
      PROVE  WorkOfPass' /\ OneBounceThread'
  <2>1. \/ Throw(h, f)
        \/ \E from \in Works \ {"no"}, to \in Works : FileStep(h, f, from, to) /\ UNCHANGED hpc
    BY <1>3 DEF Disturbed, SaveFails, RemoveFails, MoveFails, Works
  <2> QED BY <2>1, FileFlags
<1> QED
  BY <1>1, <1>2, <1>3, ListFlags, CallFlags, FolderTypes
  DEF FolderStep, FolderFault, DirectoryHandler

\* Every step keeps what is known of the handlers.
LEMMA HandlingStep ==
  ASSUME Inv, [Next]_vars
  PROVE  Handling'
<1>1. CASE FolderStep \/ FolderFault
  BY <1>1, FolderFlags, FolderOpens DEF Handling, Openers
<1>2. CASE UNCHANGED folderVars
  BY <1>2 DEF Inv, Handling, WorkOfPass, OneBounceThread, OneOpener, OpenIsDropped, BouncesAreNotShared, Opens
<1>3. CASE FolderRestart
  <2>1. \A h \in Handlers : hpc'[h] = "off" /\ \A f \in Files : work'[h][f] = "no"
    BY <1>3 DEF FolderRestart, NoWork
  <2>2. UNCHANGED together
    BY <1>3 DEF FolderRestart
  <2> QED BY <2>1, <2>2, FolderTypes
          DEF Inv, Handling, WorkOfPass, OneBounceThread, OneOpener, OpenIsDropped, BouncesAreNotShared, Opens
<1> QED
  BY <1>1, <1>2, <1>3
  DEF Next, FolderNext, ForwarderNext, OnStop, FolderStopped, ForwarderStopped, Restart, vars
-----------------------------------------------------------------------------
(* The events of a file                                                    *)

\* What was read and not yet saved has no event.
LEMMA ReadHasNone ==
  ASSUME Inv, NEW h \in Handlers, NEW f \in Files \ (again \cup together), work[h][f] = "read"
  PROVE  RowsOf(f) = {}
<1>1. place[f] = "dropped"
  BY DEF Inv, Handling, OpenIsDropped, Opens
<1>2. ASSUME NEW g \in Handlers, work[g][f] = "saved" PROVE FALSE
  <2>1. g = h
    BY <1>2 DEF Inv, Handling, OneOpener, Opens
  <2> QED BY <1>2, <2>1
<1>3. ~Handled(f)
  BY <1>1, <1>2 DEF Handled
<1> QED BY <1>3 DEF Inv, Events, EventWasSaved

\* No event is added, and the files that have one are the same.
LEMMA QuietEvents ==
  ASSUME Inv, again \subseteq again', together \subseteq together',
         \A f \in Files : RowsOf(f)' = RowsOf(f) /\ (Handled(f)' => Handled(f)),
         \A f \in Files \ (again' \cup together') : Handled(f) => Handled(f)'
  PROVE  Events'
<1>1. SavedHasEvent /\ EventWasSaved /\ OneEvent
  BY DEF Inv, Events
<1>2. SavedHasEvent' /\ EventWasSaved'
  BY <1>1 DEF SavedHasEvent, EventWasSaved
<1>3. OneEvent'
  BY <1>1 DEF OneEvent
<1> QED BY <1>2, <1>3 DEF Events

\* Nothing of this kind happens.
LEMMA SameEvents ==
  ASSUME Inv, UNCHANGED rows, again \subseteq again', together \subseteq together',
         \A f \in Files : (Handled(f)' => Handled(f)) /\ (Handled(f) => Handled(f)')
  PROVE  Events'
  BY QuietEvents DEF RowsOf

\* An event is only saved for a file that is read, or for one that is read again.
LEMMA InsertEvents ==
  ASSUME Inv, NEW f \in Files, Insert(f), again \subseteq again', together \subseteq together',
         \/ f \in again'
         \/ Handled(f)' /\ \E h \in Handlers : work[h][f] = "read",
         \A g \in Files \ {f} : (Handled(g)' => Handled(g)) /\ (Handled(g) => Handled(g)')
  PROVE  Events'
<1>1. /\ \A g \in Files \ {f} : RowsOf(g)' = RowsOf(g)
      /\ RowsOf(f)' = RowsOf(f) \cup {Len(rows) + 1}
  BY InsertedRowsOf DEF Inv, TypeOK, TableTypeOK, Row
<1>2. SavedHasEvent'
  BY <1>1 DEF Inv, Events, SavedHasEvent
<1>3. EventWasSaved'
  BY <1>1 DEF Inv, Events, EventWasSaved
<1>4. OneEvent'
  <2> SUFFICES ASSUME NEW g \in Files \ (again' \cup together'), NEW i \in RowsOf(g)', NEW j \in RowsOf(g)'
               PROVE  i = j
    BY DEF OneEvent
  <2>1. CASE g # f
    BY <1>1, <2>1 DEF Inv, Events, OneEvent
  <2>2. CASE g = f
    <3>1. RowsOf(f) = {}
      BY <2>2, ReadHasNone
    <3> QED BY <1>1, <2>2, <3>1
  <2> QED BY <2>1, <2>2
<1> QED BY <1>2, <1>3, <1>4 DEF Events

\* One entry of the work changes.
LEMMA Marked ==
  ASSUME Inv, NEW h \in Handlers, NEW f \in Files, NEW from \in Works, NEW to \in Works, FileStep(h, f, from, to)
  PROVE  /\ work[h][f] = from /\ work'[h][f] = to
         /\ \A g \in Handlers, x \in Files : g # h \/ x # f => work'[g][x] = work[g][x]
  BY FolderTypes DEF FileStep, Mark

\* An exception makes the handler let go of this file and of those that it has not begun.
LEMMA Thrown ==
  ASSUME Inv, NEW h \in Handlers, NEW f \in Files, Throw(h, f)
  PROVE  /\ UNCHANGED place
         /\ \A g \in Files \ {f} : (Handled(g)' => Handled(g)) /\ (Handled(g) => Handled(g)')
         /\ Handled(f)' => Handled(f)
         /\ work[h][f] # "saved" /\ Handled(f) => Handled(f)'
<1>1. UNCHANGED place
  BY DEF Throw
<1>2. \A g \in Handlers, x \in Files : work'[g][x] = "saved" <=> work[g][x] = "saved" /\ (g # h \/ x # f)
  BY FolderTypes DEF Throw
<1> QED BY <1>1, <1>2 DEF Handled

\* What a handler does with a file keeps its events true.
LEMMA FileEvents ==
  ASSUME Inv, NEW h \in Handlers, NEW f \in Files,
         \/ Skip(h, f) \/ Read(h, f) \/ Process(h, f) \/ Remove(h, f) \/ MoveAside(h, f)
         \/ Disturbed(h, f) \/ SaveFails(h, f) \/ RemoveFails(h, f) \/ MoveFails(h, f)
  PROVE  Events'
<1> USE DEF Works
\* A step that neither saves the event of f nor removes f.
<1>1. ASSUME NEW from \in Works \ {"saved"}, NEW to \in Works \ {"saved"}, FileStep(h, f, from, to),
             \A x \in Files : place'[x] = "done" <=> place[x] = "done"
      PROVE  \A x \in Files : (Handled(x)' => Handled(x)) /\ (Handled(x) => Handled(x)')
  <2>1. \A g \in Handlers, x \in Files : work'[g][x] = "saved" <=> work[g][x] = "saved"
    BY <1>1, Marked
  <2> QED BY <1>1, <2>1 DEF Handled
<1>2. CASE \/ Skip(h, f) \/ Read(h, f) \/ MoveFails(h, f)
           \/ FileStep(h, f, "read", "problem") /\ UNCHANGED <<rows, place, again, together>>
  <2>1. UNCHANGED <<rows, place, again>> /\ together \subseteq together'
        /\ \/ FileStep(h, f, "todo", "no") \/ FileStep(h, f, "todo", "read") \/ FileStep(h, f, "read", "problem")
           \/ FileStep(h, f, "problem", "problem")
    BY <1>2 DEF Skip, Read, MoveFails
  <2>2. \A x \in Files : (Handled(x)' => Handled(x)) /\ (Handled(x) => Handled(x)')
    BY <1>1, <2>1
  <2> QED BY <2>1, <2>2, SameEvents
<1>3. CASE FileStep(h, f, "read", "saved") /\ Insert(f) /\ UNCHANGED <<place, again, together>>
  <2>1. /\ work[h][f] = "read" /\ work'[h][f] = "saved"
        /\ \A g \in Handlers, x \in Files : g # h \/ x # f => work'[g][x] = work[g][x]
    BY <1>3, Marked
  <2>2. Handled(f)'
    BY <2>1 DEF Handled
  <2>3. \A x \in Files \ {f} : (Handled(x)' => Handled(x)) /\ (Handled(x) => Handled(x)')
    BY <1>3, <2>1 DEF Handled
  <2> QED BY <1>3, <2>1, <2>2, <2>3, InsertEvents
<1>4. CASE Remove(h, f)
  <2>1. FileStep(h, f, "saved", "no") /\ UNCHANGED <<rows, again, together>>
    BY <1>4 DEF Remove
  <2>2. /\ work[h][f] = "saved" /\ work'[h][f] = "no"
        /\ \A g \in Handlers, x \in Files : g # h \/ x # f => work'[g][x] = work[g][x]
    BY <2>1, Marked
  <2>3. /\ \A x \in Files \ {f} : place'[x] = place[x]
        /\ place[f] = "dropped" => place'[f] = "done"
    BY <1>4, FolderTypes DEF Remove, Put
  <2>4. \A x \in Files \ {f} : (Handled(x)' => Handled(x)) /\ (Handled(x) => Handled(x)')
    BY <2>2, <2>3 DEF Handled
  <2>5. Handled(f)
    BY <2>2 DEF Handled
  <2>6. f \notin together => Handled(f)'
    BY <2>2, <2>3 DEF Inv, Handling, OpenIsDropped, Opens, Handled
  <2>7. \A x \in Files : RowsOf(x)' = RowsOf(x)
    BY <2>1 DEF RowsOf
  <2> QED BY <2>1, <2>4, <2>5, <2>6, <2>7, QuietEvents
<1>5. CASE MoveAside(h, f)
  <2>1. /\ FileStep(h, f, "problem", "no") /\ UNCHANGED <<rows, again, together>>
        /\ \A x \in Files : place'[x] = "done" <=> place[x] = "done"
    BY <1>5, FolderTypes DEF MoveAside, Put
  <2>2. \A x \in Files : (Handled(x)' => Handled(x)) /\ (Handled(x) => Handled(x)')
    BY <1>1, <2>1
  <2> QED BY <2>1, <2>2, SameEvents
<1>6. CASE Disturbed(h, f) \/ RemoveFails(h, f)
  <2>1. /\ Throw(h, f) /\ UNCHANGED rows /\ again \subseteq again' /\ together \subseteq together'
        /\ work[h][f] = "saved" => f \in again' \cup together'
    BY <1>6 DEF Disturbed, RemoveFails
  <2>2. \A x \in Files : RowsOf(x)' = RowsOf(x)
    BY <2>1 DEF RowsOf
  <2> QED BY <2>1, <2>2, Thrown, QuietEvents
<1>7. CASE SaveFails(h, f)
  <2>1. work[h][f] = "read" /\ UNCHANGED together
    BY <1>7 DEF SaveFails
  <2>2. \A x \in Files : (Handled(x)' => Handled(x)) /\ (Handled(x) => Handled(x)')
    <3>1. CASE Throw(h, f)
      BY <2>1, <3>1, Thrown
    <3>2. CASE (\E to \in {"read", "problem"} : FileStep(h, f, "read", to)) /\ UNCHANGED place
      BY <1>1, <3>2
    <3> QED BY <1>7, <3>1, <3>2 DEF SaveFails
  <2>3. CASE Insert(f) /\ again' = again \cup {f}
    BY <2>1, <2>2, <2>3, InsertEvents
  <2>4. CASE UNCHANGED <<rows, again>>
    BY <2>1, <2>2, <2>4, SameEvents
  <2> QED BY <1>7, <2>3, <2>4 DEF SaveFails
<1> QED
  BY <1>2, <1>3, <1>4, <1>5, <1>6, <1>7 DEF Process

\* Calls and listings leave every file as handled as it was.
LEMMA CallEvents ==
  ASSUME Inv,
         \/ \E h \in BounceThreads : DoBounceFileProcessing(h) \/ EndOfBounces(h)
         \/ DoAbuseFileProcessing \/ EndOfAbuseCall
         \/ \E h \in Tasks : EndOfTask(h)
         \/ \E h \in Handlers : List(h) \/ Relist(h) \/ EndEmpty(h) \/ PassFailed(h)
         \/ \E f \in Files : Create(f) \/ Close(f)
  PROVE  Events'
<1>0. UNCHANGED <<rows, again, together>>
  BY DEF DoBounceFileProcessing, EndOfBounces, DoAbuseFileProcessing, EndOfAbuseCall, EndOfTask, List, Relist,
     EndEmpty, PassFailed, HandlerStep, Create, Close
<1>1. CASE UNCHANGED <<work, place>>
  BY <1>0, <1>1, SameEvents DEF Handled
<1>2. ASSUME NEW h \in Handlers, List(h) \/ Relist(h) PROVE Events'
  <2>1. \A f \in Files : work[h][f] = "no"
    BY <1>2 DEF List, Relist, HandlerStep, Busy, Inv, Handling, WorkOfPass
  <2>2. UNCHANGED place /\ \E todo \in [Files -> {"todo", "no"}] : work' = [work EXCEPT ![h] = todo]
    BY <1>2 DEF List, Relist, HandlerStep, TodoAll
  <2>3. \A g \in Handlers, f \in Files : work'[g][f] = "saved" <=> work[g][f] = "saved"
    BY <2>1, <2>2, FolderTypes
  <2> QED BY <1>0, <2>2, <2>3, SameEvents DEF Handled
<1>3. ASSUME NEW f \in Files, Create(f) \/ Close(f) PROVE Events'
  <2>1. UNCHANGED work /\ \A x \in Files : place'[x] = "done" <=> place[x] = "done"
    BY <1>3, FolderTypes DEF Create, Close, Put
  <2> QED BY <1>0, <2>1, SameEvents DEF Handled
<1> QED
  BY <1>1, <1>2, <1>3
  DEF DoBounceFileProcessing, EndOfBounces, DoAbuseFileProcessing, EndOfAbuseCall, EndOfTask, EndEmpty, PassFailed,
    HandlerStep

\* Every step does.
LEMMA EventsStep ==
  ASSUME Inv, [Next]_vars
  PROVE  Events'
<1>0. rows \in Seq(Row) /\ TypeOK /\ Fetched
  BY DEF Inv, TypeOK, TableTypeOK, Row
<1>1. CASE FolderStep \/ FolderFault
  BY <1>1, FileEvents, CallEvents, FolderTypes DEF FolderStep, FolderFault, DirectoryHandler
<1>2. CASE ForwarderNext \/ OnStop \/ FolderStopped \/ ForwarderStopped \/ UNCHANGED vars
  <2>1. UNCHANGED folderVars /\ (UNCHANGED rows \/ (Update(Current) /\ fpc = "save"))
    BY <1>2 DEF ForwarderNext, ForwardEvents, ServiceSilent, ForwarderFault, Fetch, FetchFails, End, SkipEvent, Post,
       Acknowledged, NotAcknowledged, NotAnswered, Doubtful, SaveForwarded, SaveForwardedFails, OnStop, FolderStopped, ForwarderStopped, vars
  <2>2. \A f \in Files : RowsOf(f)' = RowsOf(f)
    <3>1. CASE UNCHANGED rows
      BY <3>1 DEF RowsOf
    <3>2. CASE Update(Current) /\ fpc = "save"
      <4>1. Current \in DOMAIN rows
        BY <1>0, <3>2 DEF Fetched, TypeOK, ForwarderTypeOK
      <4> QED BY <1>0, <3>2, <4>1, UpdatedRowsOf
    <3> QED BY <2>1, <3>1, <3>2
  <2> QED BY <2>1, <2>2, QuietEvents DEF Handled
<1>3. CASE Restart
  <2>1. UNCHANGED <<rows, together>> /\ FolderRestart
    BY <1>3 DEF Restart, FolderRestart
  <2>2. \A f \in Files : place'[f] = "done" <=> place[f] = "done"
    BY <2>1 DEF FolderRestart
  <2>3. \A h \in Handlers, f \in Files : work'[h][f] = "no"
    BY <2>1 DEF FolderRestart, NoWork
  <2>4. again \subseteq again' /\ \A h \in Handlers, f \in Files : work[h][f] = "saved" => f \in again'
    BY <2>1 DEF FolderRestart
  <2>5. \A f \in Files : RowsOf(f)' = RowsOf(f) /\ (Handled(f)' => Handled(f))
    BY <2>1, <2>2, <2>3 DEF RowsOf, Handled
  <2>6. \A f \in Files \ (again' \cup together') : Handled(f) => Handled(f)'
    BY <2>2, <2>4 DEF Handled
  <2> QED BY <2>1, <2>4, <2>5, <2>6, QuietEvents
<1> QED
  BY <1>1, <1>2, <1>3
  DEF Next, FolderNext, ForwarderNext, OnStop, FolderStopped, ForwarderStopped, vars

-----------------------------------------------------------------------------
(* The web service                                                         *)

\* A new event is not forwarded.
LEMMA RowsAdded ==
  ASSUME Inv, [Next]_vars, NEW i \in DOMAIN rows' \ DOMAIN rows
  PROVE  rows'[i].forwarded = FALSE
<1>0. rows \in Seq(Row) /\ TypeOK /\ Fetched
  BY DEF Inv, TypeOK, TableTypeOK, Row
<1>1. CASE \E f \in Files : Insert(f)
  <2>1. PICK f \in Files : Insert(f)
    BY <1>1
  <2>2. rows'[i] = [source |-> f, forwarded |-> FALSE]
    BY <1>0, <2>1, InsertedRow
  <2> QED BY <2>2
<1>2. CASE Current \in batch /\ Update(Current)
  <2>1. Current \in DOMAIN rows
    BY <1>0, <1>2 DEF TypeOK, ForwarderTypeOK
  <2> QED BY <1>0, <1>2, <2>1, UpdatedRow
<1> QED BY <1>0, <1>1, <1>2, RowsStep

\* What a step does to the forwarder's own state.
LEMMA ForwarderMoves ==
  ASSUME Inv, [Next]_vars
  PROVE  \/ /\ UNCHANGED forwarderVars
            /\ \A i \in DOMAIN rows : i \in DOMAIN rows' /\ rows'[i].forwarded = rows[i].forwarded
         \/ ForwardEvents \/ ServiceSilent \/ ForwarderFault
         \/ ForwarderRestart /\ UNCHANGED rows
<1>1. CASE FolderNext
  <2>1. UNCHANGED rows \/ \E f \in Files : Insert(f)
    BY <1>1, FolderTypes
    DEF FolderNext, FolderStep, FolderFault, DirectoryHandler, Create, Close, DoBounceFileProcessing,
      DoAbuseFileProcessing, EndOfAbuseCall, EndOfBounces, EndOfTask, List, Relist, EndEmpty, PassFailed, HandlerStep,
      Skip, Read, Process, Remove, MoveAside, Disturbed, SaveFails, RemoveFails, MoveFails
  <2>2. rows \in Seq(Row)
    BY DEF Inv, TypeOK, TableTypeOK, Row
  <2> QED BY <1>1, <2>1, <2>2, InsertedRow DEF FolderNext
<1>2. CASE Restart
  BY <1>2 DEF Restart
<1>3. CASE OnStop \/ FolderStopped \/ ForwarderStopped \/ UNCHANGED vars
  BY <1>3 DEF OnStop, FolderStopped, ForwarderStopped, vars
<1> QED
  BY <1>1, <1>2, <1>3 DEF Next, ForwarderNext

\* The forwarder goes on to the next event, with no change to the table.
LEMMA NextFetched ==
  ASSUME Inv, NextEvent, UNCHANGED rows, fpc \in {"post", "answer", "save"}
  PROVE  Fetched'
  BY DEF Inv, Fetched, NextEvent

\* The forwarder takes an event once, of those that it fetched.
LEMMA FetchedStep ==
  ASSUME Inv, [Next]_vars
  PROVE  Fetched' /\ TakenIsKnown' /\ TakenOnce'
<1>0. /\ Fetched /\ TakenIsKnown /\ TakenOnce
      /\ batch \subseteq DOMAIN rows /\ taken \subseteq DOMAIN rows /\ rows \in Seq(Row)
      /\ fpc \in {"post", "answer", "silent", "save"} => Current \in batch
  <2>1. batch \in SUBSET Nat
    <3>1. DOMAIN rows = 1..Len(rows)
      BY LenProperties DEF Inv, TypeOK, TableTypeOK
    <3> QED BY <3>1 DEF Inv, TypeOK, ForwarderTypeOK
  <2> QED BY <2>1, CurrentIsFetched DEF Inv, TypeOK, TableTypeOK, ForwarderTypeOK, Fetched, Row
<1>1. CASE /\ UNCHANGED forwarderVars
           /\ \A i \in DOMAIN rows : i \in DOMAIN rows' /\ rows'[i].forwarded = rows[i].forwarded
  <2>1. Current' = Current
    BY <1>1 DEF Current, Min
  <2>2. Fetched' /\ TakenIsKnown'
    BY <1>0, <1>1, <2>1 DEF Fetched, TakenIsKnown
  <2>3. TakenOnce'
    BY <1>0, <1>1, RowsAdded DEF TakenOnce
  <2> QED BY <2>2, <2>3
<1>2. CASE Fetch
  <2>1. UNCHANGED <<rows, taken, retaken, doubted>> /\ fpc = "fetch" /\ fpc' = "post" /\ batch' # {}
        /\ \A i \in batch' : ~rows[i].forwarded
    BY <1>2 DEF Fetch, GetEventsForForwarding, Unforwarded
  <2> QED BY <1>0, <2>1 DEF Fetched, TakenIsKnown, TakenOnce
<1>3. CASE FetchFails \/ End
  <2>1. /\ UNCHANGED <<rows, batch, taken, retaken, doubted>> /\ fpc = "fetch" /\ fpc' \in {"failed", "ended"}
    BY <1>3 DEF FetchFails, End
  <2> QED BY <1>0, <2>1 DEF Fetched, TakenIsKnown, TakenOnce
<1>4. CASE SkipEvent
  <2>1. fpc = "post" /\ NextEvent /\ UNCHANGED <<rows, taken, retaken, doubted>>
    BY <1>4 DEF SkipEvent
  <2> QED BY <1>0, <2>1, NextFetched DEF TakenIsKnown, TakenOnce, NextEvent
<1>5. CASE Acknowledged
  <2>1. /\ fpc = "answer" /\ fpc' = "save" /\ UNCHANGED <<rows, batch, doubted>> /\ taken' = taken \cup {Current}
        /\ retaken' = IF Current \in taken THEN retaken \cup {Current} ELSE retaken
    BY <1>5 DEF Acknowledged, Takes
  <2>2. Current' = Current
    BY <2>1 DEF Current, Min
  <2>3. Current \in taken => Current \in doubted
    BY <1>0, <2>1 DEF Fetched, TakenIsKnown
  <2> QED BY <1>0, <2>1, <2>2, <2>3 DEF Fetched, TakenIsKnown, TakenOnce
<1>6. CASE NotAcknowledged
  <2>1. fpc = "answer" /\ NextEvent /\ UNCHANGED rows
        /\ \/ UNCHANGED <<taken, retaken, doubted>>
           \/ /\ taken' = taken \cup {Current} /\ doubted' = doubted \cup {Current}
              /\ retaken' = IF Current \in taken THEN retaken \cup {Current} ELSE retaken
    BY <1>6 DEF NotAcknowledged, Doubtful, Takes
  <2> QED BY <1>0, <2>1, NextFetched DEF TakenIsKnown, TakenOnce
<1>7. CASE fpc = "save" /\ Update(Current) /\ NextEvent /\ UNCHANGED <<taken, retaken, doubted>>
  <2>1. Current \in DOMAIN rows /\ Current \in taken /\ Current \in batch
    BY <1>0, <1>7 DEF Fetched
  <2>2. /\ DOMAIN rows' = DOMAIN rows /\ rows'[Current].forwarded
        /\ \A j \in DOMAIN rows \ {Current} : rows'[j].forwarded = rows[j].forwarded
    BY <1>0, <1>7, <2>1, UpdatedRow
  <2>3. batch' = batch \ {Current} /\ fpc' = IF batch' = {} THEN "fetch" ELSE "post"
    BY <1>7 DEF NextEvent
  <2>4. Fetched'
    BY <1>0, <2>2, <2>3 DEF Fetched
  <2>5. TakenIsKnown'
    BY <1>0, <1>7, <2>2, <2>3 DEF TakenIsKnown
  <2>6. TakenOnce'
    BY <1>0, <1>7, <2>1, <2>2 DEF TakenOnce
  <2> QED BY <2>4, <2>5, <2>6
<1>8. CASE fpc = "save" /\ doubted' = doubted \cup {Current} /\ NextEvent /\ UNCHANGED <<rows, taken, retaken>>
  BY <1>0, <1>8, NextFetched DEF TakenIsKnown, TakenOnce
<1>9. CASE ForwarderRestart /\ UNCHANGED rows
  <2>1. /\ fpc' = "fetch" /\ batch' = {} /\ UNCHANGED rows
        /\ \/ UNCHANGED <<taken, retaken, doubted>> /\ fpc # "save"
           \/ doubted' = doubted \cup {Current} /\ UNCHANGED <<taken, retaken>>
           \/ /\ taken' = taken \cup {Current} /\ doubted' = doubted \cup {Current}
              /\ retaken' = IF Current \in taken THEN retaken \cup {Current} ELSE retaken
    BY <1>9 DEF ForwarderRestart, Doubtful, Takes
  <2> QED BY <1>0, <2>1 DEF Fetched, TakenIsKnown, TakenOnce
<1>10. SaveForwarded \/ SaveForwardedFails =>
         \/ fpc = "save" /\ Update(Current) /\ NextEvent /\ UNCHANGED <<taken, retaken, doubted>>
         \/ fpc = "save" /\ doubted' = doubted \cup {Current} /\ NextEvent /\ UNCHANGED <<rows, taken, retaken>>
  BY DEF SaveForwarded, SaveForwardedFails
<1>11. CASE Post \/ NotAnswered
  <2>1. /\ fpc \in {"post", "answer"} /\ fpc' \in {"answer", "silent"}
        /\ UNCHANGED <<rows, batch, taken, retaken, doubted>>
    BY <1>11 DEF Post, NotAnswered
  <2> QED BY <1>0, <2>1 DEF Fetched, TakenIsKnown, TakenOnce
<1> QED
  BY <1>1, <1>2, <1>3, <1>4, <1>5, <1>6, <1>7, <1>8, <1>9, <1>10, <1>11, ForwarderMoves
  DEF ForwardEvents, ServiceSilent, ForwarderFault

-----------------------------------------------------------------------------
(* The stop                                                                *)

\* No step makes the files of a bounce thread be in hand while the forwarder is told to stop.
LEMMA RestStep ==
  ASSUME Inv, [Next]_vars
  PROVE  BouncesAtRest'
<1> DEFINE Rest == \A h \in BounceThreads, f \in Files : work[h][f] \in {"no", "todo"}
<1>0. /\ WorkOfPass /\ OneBounceThread /\ (ForwarderStopping => Rest)
      /\ work \in [Handlers -> [Files -> Works]] /\ BounceThreads \subseteq Handlers
  BY FolderTypes DEF Inv, Handling, BouncesAtRest
<1>1. CASE FolderStep \/ FolderFault
  <2> SUFFICES ASSUME ForwarderStopping' PROVE Rest'
    BY DEF BouncesAtRest
  <2>1. ForwarderStopping /\ Rest
    BY <1>0, <1>1 DEF FolderStep, FolderFault, ForwarderStopping
  <2>2. ASSUME NEW h \in Handlers, List(h) \/ Relist(h) PROVE Rest'
    <3>1. \E todo \in [Files -> {"todo", "no"}] : work' = [work EXCEPT ![h] = todo]
      BY <2>2 DEF List, Relist, TodoAll
    <3> QED BY <1>0, <2>1, <3>1
  <2>3. ASSUME NEW h \in Handlers, NEW f \in Files, NEW from \in Works, NEW to \in Works,
               FileStep(h, f, from, to), to = "no" \/ from \notin {"no", "todo"}
        PROVE  Rest'
    <3>1. work[h][f] = from /\ work' = [work EXCEPT ![h][f] = to]
      BY <2>3 DEF FileStep, Mark
    <3> QED BY <1>0, <2>1, <2>3, <3>1
  <2>4. ASSUME NEW h \in Handlers, NEW f \in Files, Throw(h, f) PROVE Rest'
    BY <1>0, <2>1, <2>4 DEF Throw
  <2>5. ASSUME NEW h \in Handlers, NEW f \in Files,
               \/ Skip(h, f) \/ Read(h, f) \/ Process(h, f) \/ Remove(h, f) \/ MoveAside(h, f)
               \/ Disturbed(h, f) \/ SaveFails(h, f) \/ RemoveFails(h, f) \/ MoveFails(h, f)
        PROVE  Rest'
    <3>1. \/ FileStep(h, f, "todo", "no") \/ FileStep(h, f, "read", "saved") \/ FileStep(h, f, "read", "problem")
          \/ FileStep(h, f, "saved", "no") \/ FileStep(h, f, "problem", "no") \/ Throw(h, f)
          \/ FileStep(h, f, "read", "read") \/ FileStep(h, f, "problem", "problem")
      BY <2>1, <2>5 DEF Skip, Read, Process, Remove, MoveAside, Disturbed, SaveFails, RemoveFails, MoveFails,
         ForwarderStopping, FolderStopping
    <3> QED BY <2>3, <2>4, <3>1 DEF Works
  <2>6. CASE UNCHANGED work
    BY <2>1, <2>6
  <2> QED
    BY <1>1, <2>2, <2>5, <2>6, FolderTypes
    DEF FolderStep, FolderFault, DirectoryHandler, Create, Close, DoBounceFileProcessing, DoAbuseFileProcessing,
      EndOfAbuseCall, EndOfBounces, EndOfTask, EndEmpty, PassFailed, HandlerStep
<1>2. CASE FolderStopped
  <2>1. \A h \in BounceThreads, f \in Files : work[h][f] = "no"
    BY <1>0, <1>2 DEF FolderStopped, WorkOfPass, OneBounceThread
  <2> QED BY <1>2, <2>1 DEF FolderStopped, BouncesAtRest
<1>3. CASE ForwarderNext \/ OnStop \/ ForwarderStopped \/ UNCHANGED vars
  <2>1. UNCHANGED work
    BY <1>3 DEF ForwarderNext, OnStop, ForwarderStopped, vars
  <2>2. ForwarderStopping' => ForwarderStopping
    BY <1>3 DEF ForwarderNext, ForwardEvents, ForwarderFault, ServiceSilent, FetchFails, OnStop, ForwarderStopped,
       vars, ForwarderStopping
  <2> QED BY <1>0, <2>1, <2>2 DEF BouncesAtRest
<1>4. CASE Restart
  BY <1>4 DEF Restart, BouncesAtRest, ForwarderStopping
<1> QED
  BY <1>1, <1>2, <1>3, <1>4 DEF Next, FolderNext

-----------------------------------------------------------------------------
(* The theorems                                                            *)

\* However handlers, watchers, the forwarder, faults and restarts interleave, the invariant
\* that the theorems below rest on holds.
THEOREM Invariance == Spec => []Inv
<1>1. Inv /\ [Next]_vars => Inv'
  BY TypeStep, HandlingStep, EventsStep, FetchedStep, RestStep DEF Inv
<1> QED BY InitInv, <1>1, PTL DEF Spec

\* The state of the folders, of the table and of the forwarder is of its type: every batch is of
\* ids in the table, as are the events that the web service took.
THEOREM TypeCorrect == Spec => []TypeOK
<1>1. Inv => TypeOK
  BY DEF Inv
<1> QED BY Invariance, <1>1, PTL

\* A set whose elements are equal has at most one.
LEMMA AtMostOne ==
  ASSUME NEW S, \A i, j \in S : i = j
  PROVE  Cardinality(S) <= 1
<1>1. CASE S = {}
  BY <1>1, FS_EmptySet
<1>2. CASE S # {}
  <2>1. PICK i \in S : TRUE
    BY <1>2
  <2>2. S = {i} /\ Cardinality({i}) = 1
    BY <2>1, FS_Singleton
  <2> QED BY <2>2
<1> QED BY <1>1, <1>2

\* DirectoryHandler makes an event of each file that it handles to the end, and one only: neither
\* the parallel bodies, nor the pass after pass over the folder, nor a callback while it is at work
\* makes a second one; only a removal that fails, the end of the process between
\* the saving and the removal, or two tasks at the same complaint can.
THEOREM FilesHaveOneEvent == Spec => []EventPerFile
<1>1. Inv => EventPerFile
  <2> SUFFICES ASSUME Inv, NEW f \in Files
               PROVE  /\ place[f] = "done" => RowsOf(f) # {}
                      /\ f \notin again \cup (together \cap Complaints) => Cardinality(RowsOf(f)) <= 1
    BY DEF EventPerFile
  <2>1. place[f] = "done" => RowsOf(f) # {}
    BY DEF Inv, Events, SavedHasEvent, Handled
  <2>2. ASSUME f \notin again \cup (together \cap Complaints) PROVE Cardinality(RowsOf(f)) <= 1
    <3>1. f \notin again \cup together
      BY <2>2 DEF Inv, Handling, BouncesAreNotShared, Files
    <3>2. \A i, j \in RowsOf(f) : i = j
      BY <3>1 DEF Inv, Events, OneEvent
    <3> QED BY <3>2, AtMostOne
  <2> QED BY <2>1, <2>2
<1> QED BY Invariance, <1>1, PTL

\* ForwardEvents marks only events that the web service took, and the web service gets one again
\* only if an answer or a mark was lost: restarts and new batches repeat nothing else.
THEOREM EventsAreTakenOnce == Spec => []TakenOnce
<1>1. Inv => TakenOnce
  BY DEF Inv
<1> QED BY Invariance, <1>1, PTL

\* The lock _BounceProcessingRunning makes EventsFileHandler.Stop wait for both bounce threads:
\* when the stop goes on to the forwarder, no bounce is between reading and removal.
THEOREM BouncesRest == Spec => []BouncesAtRest
<1>1. Inv => BouncesAtRest
  BY DEF Inv
<1> QED BY Invariance, <1>1, PTL

\* What the process exits over, for any number of handlers: a file whose move fails of itself, or a
\* complaint that two tasks had.  The files of bounces and those of one task are where they were
\* dropped until their handler moves them, so it can be about to lose none of them.
THEOREM ExitsHaveCause == Spec => []ExitHasCause
<1>1. Inv => ExitHasCause
  <2> SUFFICES ASSUME Inv, NEW h \in Handlers, NEW f \in Files, GivesUp(h, f), f \notin unmovable
               PROVE  f \in together \cap Complaints
    BY DEF ExitHasCause
  <2>1. Opens(h, f) /\ place[f] # "dropped"
    BY DEF GivesUp, Opens
  <2>2. f \in together
    BY <2>1 DEF Inv, Handling, OpenIsDropped
  <2>3. f \notin Bounces
    BY <2>2 DEF Inv, Handling, BouncesAreNotShared
  <2> QED BY <2>2, <2>3 DEF Files
<1> QED BY Invariance, <1>1, PTL
=============================================================================
