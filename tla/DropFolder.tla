------------------------------ MODULE DropFolder ------------------------------
(***************************************************************************)
(* EventsFileHandler: the two folders in which the SMTP server drops       *)
(* bounces and complaints, the watchers that notice new files, and         *)
(* DirectoryHandler, which turns files into events.                        *)
(*                                                                         *)
(* A bounce is handled on the thread that was called back, the watcher's   *)
(* or the one of the constructor; complaints are handled by tasks that the *)
(* called-back thread only starts.  Files of one pass are handled in       *)
(* parallel.  The reading of a mail is abstracted to whether an event is   *)
(* found in it.                                                            *)
(***************************************************************************)
EXTENDS EventTable

CONSTANTS
  Tasks  \* tasks for complaints: bounds how many can be at work at a time

ASSUME TasksAssumption == {"startup", "watcher"} \cap Tasks = {}

VARIABLES
  place,     \* where a file is
  running,   \* _BounceProcessingRunning and _AbuseProcessingRunning
  watching,  \* EnableRaisingEvents of the two watchers
  nudges,    \* raised events whose callback has not begun
  startup,   \* how far the constructor's thread is
  hpc,       \* handlers: where DirectoryHandler is
  work,      \* handlers: what is done with each file of the pass
  again,     \* history: files whose event may be saved twice after a fault
  together,  \* history: complaints that two tasks handled at the same time
  missed,    \* history: files that came when nobody would be told of them
  unmovable  \* history: files of which a move failed of itself

folderVars ==
  <<place, running, watching, nudges, startup, hpc, work, again, together, missed, unmovable>>

Kinds == {"bounce", "complaint"}
FilesOf(k) == IF k = "bounce" THEN Bounces ELSE Complaints
KindOf(f) == IF f \in Bounces THEN "bounce" ELSE "complaint"

BounceThreads == {"startup", "watcher"}
Handlers == BounceThreads \cup Tasks
FolderOf(h) == IF h \in BounceThreads THEN "bounce" ELSE "complaint"
HandlersOf(k) == IF k = "bounce" THEN BounceThreads ELSE Tasks

FolderTypeOK ==
  /\ place \in [Files -> {"none", "writing", "dropped", "done", "aside"}]
  /\ running \in [Kinds -> BOOLEAN]
  /\ watching \in [Kinds -> BOOLEAN]
  /\ nudges \in [Kinds -> Nat]
  /\ startup \in {"bounces", "complaints", "over"}
  /\ hpc \in [Handlers -> {"off", "list", "pass", "empty", "failing", "end"}]
  /\ work \in [Handlers -> [Files -> {"no", "todo", "read", "saved", "problem"}]]
  /\ again \in SUBSET Files
  /\ together \in SUBSET Files
  /\ missed \in SUBSET Files
  /\ unmovable \in SUBSET Files

NoWork == [f \in Files |-> "no"]

FolderInit ==
  /\ place = [f \in Files |-> "none"]
  /\ running = [k \in Kinds |-> FALSE]
  /\ watching = [k \in Kinds |-> TRUE]
  /\ nudges = [k \in Kinds |-> 0]
  /\ startup = "bounces"
  /\ hpc = [h \in Handlers |-> "off"]
  /\ work = [h \in Handlers |-> NoWork]
  /\ again = {} /\ together = {} /\ missed = {} /\ unmovable = {}

Goto(h, pc) == hpc' = [hpc EXCEPT ![h] = pc]
Mark(h, f, what) == work' = [work EXCEPT ![h][f] = what]
Put(f, where) == place' = [place EXCEPT ![f] = where]

Leaving == {"off", "failing", "end"}
Present(k) == {f \in FilesOf(k) : place[f] \in {"writing", "dropped"}}
Busy(h) == {f \in Files : work[h][f] # "no"}
FolderStopping == stop # "no"

-----------------------------------------------------------------------------
(* The SMTP server writes a file                                           *)

\* Nobody will look at f unless something else happens: the watcher is off, and the last
\* listing of the folder was made without f.
NobodyLooks(f) ==
  /\ ~watching[KindOf(f)]
  /\ \A h \in HandlersOf(KindOf(f)) : hpc[h] \in Leaving

Create(f) ==
  /\ place[f] = "none"
  /\ Put(f, "writing")
  /\ nudges' = IF watching[KindOf(f)] THEN [nudges EXCEPT ![KindOf(f)] = @ + 1] ELSE nudges
  /\ missed' = IF NobodyLooks(f) THEN missed \cup {f} ELSE missed
  /\ UNCHANGED <<rows, running, watching, startup, hpc, work, again, together, unmovable>>

Close(f) ==
  /\ place[f] = "writing"
  /\ Put(f, "dropped")
  /\ UNCHANGED <<rows, running, watching, nudges, startup, hpc, work, again, together, missed,
                 unmovable>>

-----------------------------------------------------------------------------
(* DoBounceFileProcessing and DoAbuseFileProcessing                        *)

Called(h) == IF h = "startup" THEN startup = "bounces" ELSE nudges["bounce"] > 0

\* The call of h is over: the next one, and the constructor's thread goes on to complaints.
CallOver(h) ==
  IF h = "startup" THEN startup' = "complaints" /\ UNCHANGED nudges
                   ELSE nudges' = [nudges EXCEPT !["bounce"] = @ - 1] /\ UNCHANGED startup

\* A callback finds the handler running and returns: what it was to tell is lost if the
\* handler will not list the folder again.
ReturnAtOnce(k) ==
  missed' = IF \A h \in HandlersOf(k) : hpc[h] \in Leaving
              THEN missed \cup Present(k) ELSE missed

\* Variant: nobody looks whether the handler is running already.
DoBounceUnguarded(h) ==
  /\ hpc[h] = "off" /\ Called(h)
  /\ running' = [running EXCEPT !["bounce"] = TRUE]
  /\ watching' = [watching EXCEPT !["bounce"] = FALSE]
  /\ Goto(h, "list")
  /\ IF h = "startup" THEN UNCHANGED nudges
                      ELSE nudges' = [nudges EXCEPT !["bounce"] = @ - 1]
  /\ UNCHANGED <<rows, place, startup, missed, work, again, together, unmovable>>

DoBounceFileProcessing(h) ==
  /\ hpc[h] = "off" /\ Called(h)
  /\ \/ /\ running["bounce"]
        /\ CallOver(h)
        /\ ReturnAtOnce("bounce")
        /\ UNCHANGED <<running, watching, hpc>>
     \/ /\ ~running["bounce"]
        /\ running' = [running EXCEPT !["bounce"] = TRUE]
        /\ watching' = [watching EXCEPT !["bounce"] = FALSE]
        /\ Goto(h, "list")
        /\ IF h = "startup" THEN UNCHANGED nudges
                            ELSE nudges' = [nudges EXCEPT !["bounce"] = @ - 1]
        /\ UNCHANGED <<startup, missed>>
  /\ UNCHANGED <<rows, place, work, again, together, unmovable>>

\* Variant: the flag is not cleared.
EndKeepsRunning(h) ==
  /\ hpc[h] = "end"
  /\ Goto(h, "off")
  /\ watching' = [watching EXCEPT !["bounce"] = TRUE]
  /\ startup' = IF h = "startup" THEN "complaints" ELSE startup
  /\ UNCHANGED <<rows, place, running, nudges, work, again, together, missed, unmovable>>

\* The finally block.
EndOfBounces(h) ==
  /\ hpc[h] = "end"
  /\ Goto(h, "off")
  /\ running' = [running EXCEPT !["bounce"] = FALSE]
  /\ watching' = [watching EXCEPT !["bounce"] = TRUE]
  /\ startup' = IF h = "startup" THEN "complaints" ELSE startup
  /\ UNCHANGED <<rows, place, nudges, work, again, together, missed, unmovable>>

CalledForComplaints ==
  \/ nudges["complaint"] > 0 /\ nudges' = [nudges EXCEPT !["complaint"] = @ - 1] /\ UNCHANGED startup
  \/ startup = "complaints" /\ startup' = "over" /\ UNCHANGED nudges

\* The handler is started as a task, which nobody waits for.
DoAbuseFileProcessing ==
  /\ CalledForComplaints
  /\ \/ /\ running["complaint"]
        /\ ReturnAtOnce("complaint")
        /\ UNCHANGED <<running, watching, hpc>>
     \/ /\ ~running["complaint"]
        /\ running' = [running EXCEPT !["complaint"] = TRUE]
        /\ watching' = [watching EXCEPT !["complaint"] = FALSE]
        /\ \E h \in Tasks : hpc[h] = "off" /\ Goto(h, "list")
        /\ UNCHANGED missed
  /\ UNCHANGED <<rows, place, work, again, together, unmovable>>

\* The finally block, which does not wait for the task.
EndOfAbuseCall ==
  /\ running["complaint"]
  /\ running' = [running EXCEPT !["complaint"] = FALSE]
  /\ watching' = [watching EXCEPT !["complaint"] = TRUE]
  /\ UNCHANGED <<rows, place, nudges, startup, hpc, work, again, together, missed, unmovable>>

EndOfTask(h) ==
  /\ hpc[h] = "end"
  /\ Goto(h, "off")
  /\ UNCHANGED <<rows, place, running, watching, nudges, startup, work, again, together, missed,
                 unmovable>>

-----------------------------------------------------------------------------
(* DirectoryHandler                                                        *)

TodoAll(h) == work' = [work EXCEPT ![h] = [f \in Files |-> IF f \in Present(FolderOf(h)) THEN "todo" ELSE "no"]]

HandlerStep(h, from, to) ==
  /\ hpc[h] = from
  /\ Goto(h, to)
  /\ UNCHANGED <<rows, place, running, watching, nudges, startup, again, together, missed,
                 unmovable>>

Listed(h, otherwise) == IF Present(FolderOf(h)) = {} THEN otherwise ELSE "pass"

List(h) ==
  /\ HandlerStep(h, "list", Listed(h, "empty"))
  /\ TodoAll(h)

\* Variant: one pass only.
RelistNever(h) ==
  /\ ~FolderStopping
  /\ Busy(h) = {}
  /\ \E from \in {"pass", "empty"} : HandlerStep(h, from, "end")
  /\ UNCHANGED work

\* A pass is over and the folder is listed again, the first time even if it was empty.
Relist(h) ==
  /\ ~FolderStopping
  /\ Busy(h) = {}
  /\ \E from \in {"pass", "empty"} : HandlerStep(h, from, Listed(h, "end"))
  /\ TodoAll(h)

\* While the service is stopping there is no further listing: a handler that had listed no
\* file ends, and one that had keeps looping over the files of its last pass for ever.
EndEmpty(h) ==
  /\ FolderStopping
  /\ HandlerStep(h, "empty", "end")
  /\ UNCHANGED work

\* What the body does with f ends; others of the pass go on.
FileStep(h, f, from, to) ==
  /\ hpc[h] \in {"pass", "failing"}
  /\ work[h][f] = from
  /\ Mark(h, f, to)
  /\ UNCHANGED <<running, watching, nudges, startup, missed>>

Open(h, f) == \E g \in Handlers \ {h} : work[g][f] \in {"read", "saved", "problem"}

\* Stopping, gone, or locked by whoever writes it or has it open.
Skip(h, f) ==
  /\ FileStep(h, f, "todo", "no")
  /\ FolderStopping \/ place[f] # "dropped" \/ Open(h, f)
  /\ UNCHANGED <<rows, place, hpc, again, together, unmovable>>

Read(h, f) ==
  /\ hpc[h] = "pass"
  /\ FileStep(h, f, "todo", "read")
  /\ ~FolderStopping /\ place[f] = "dropped"
  /\ together' = IF Open(h, f) THEN together \cup {f} ELSE together
  /\ UNCHANGED <<rows, place, hpc, again, unmovable>>

\* An exception ends the pass: bodies that have not begun do not begin.
Throw(h, f) ==
  /\ hpc[h] \in {"pass", "failing"}
  /\ Goto(h, "failing")
  /\ work' = [work EXCEPT ![h] = [g \in Files |-> IF g = f \/ @[g] = "todo" THEN "no" ELSE @[g]]]
  /\ missed' = missed \cup Present(FolderOf(h))
  /\ UNCHANGED <<place, running, watching, nudges, startup>>

\* Another task has the file open, or has removed it since the test of the lock; or it opens the
\* file that is to be deleted.
Disturbed(h, f) ==
  /\ \E g \in Handlers \ {h} : work[g][f] # "no"
  /\ \/ work[h][f] = "todo" /\ ~FolderStopping /\ UNCHANGED together
     \/ work[h][f] = "saved" /\ together' = together \cup {f}
  /\ Throw(h, f)
  /\ UNCHANGED <<rows, again, unmovable>>

\* ProcessBounceEmail or ProcessFeedbackLoop: an event is found and saved, or none is found.
Process(h, f) ==
  /\ \/ FileStep(h, f, "read", "saved") /\ Insert(f)
     \/ FileStep(h, f, "read", "problem") /\ UNCHANGED rows
  /\ UNCHANGED <<place, hpc, again, together, unmovable>>

\* Saving fails, before or after the row was written, or the bounce is of a send that is not in
\* the database.  The exception ends the handling of bounces.  ProcessFeedbackLoop swallows it:
\* that of the abuse report (step 1) to look for headers in what comes after it, which may save
\* after all; any other to report a mail it can make nothing of.
SaveFails(h, f) ==
  /\ work[h][f] = "read"
  /\ \/ Insert(f) /\ again' = again \cup {f}
     \/ UNCHANGED <<rows, again>>
  /\ IF h \in BounceThreads
       THEN Throw(h, f)
       ELSE (\E to \in {"read", "problem"} : FileStep(h, f, "read", to)) /\ UNCHANGED <<place, hpc>>
  /\ UNCHANGED <<together, unmovable>>

\* Delete the file, or move it to SuccessfullyProcessed; deleting a file that is gone is no error.
Remove(h, f) ==
  /\ FileStep(h, f, "saved", "no")
  /\ IF place[f] = "dropped" THEN Put(f, "done") ELSE UNCHANGED place
  /\ UNCHANGED <<rows, hpc, again, together, unmovable>>

RemoveFails(h, f) ==
  /\ work[h][f] = "saved"
  /\ Throw(h, f)
  /\ again' = again \cup {f}
  /\ UNCHANGED <<rows, together, unmovable>>

\* Variant: the loop that moves the file does not notice that it is moved.
MoveAsideAgain(h, f) ==
  /\ place[f] = "dropped"
  /\ FileStep(h, f, "problem", "problem")
  /\ Put(f, "aside")
  /\ UNCHANGED <<rows, hpc, again, together, unmovable>>

\* Move to UnableToProcess, under another name if there is a file of that name.
MoveAside(h, f) ==
  /\ place[f] = "dropped"
  /\ FileStep(h, f, "problem", "no")
  /\ Put(f, "aside")
  /\ UNCHANGED <<rows, hpc, again, together, unmovable>>

\* The move throws although the file is there: another process has it open, the disk is full,
\* the folder or a right to it is missing.  The loop tries again, under the next name.
MoveFails(h, f) ==
  /\ place[f] = "dropped"
  /\ FileStep(h, f, "problem", "problem")
  /\ unmovable' = unmovable \cup {f}
  /\ UNCHANGED <<rows, place, hpc, again, together>>

\* The move fails for ten seconds, since the file is gone or keeps failing to move:
\* Environment.Exit.
GivesUp(h, f) == work[h][f] = "problem" /\ (place[f] # "dropped" \/ f \in unmovable)

PassFailed(h) ==
  /\ Busy(h) = {}
  /\ HandlerStep(h, "failing", "end")
  /\ UNCHANGED work

-----------------------------------------------------------------------------

DirectoryHandler(h) ==
  \/ List(h) \/ Relist(h) \/ EndEmpty(h) \/ PassFailed(h)
  \/ h \in BounceThreads /\ EndOfBounces(h)
  \/ h \in Tasks /\ EndOfTask(h)
  \/ \E f \in FilesOf(FolderOf(h)) :
       Skip(h, f) \/ Read(h, f) \/ Process(h, f) \/ Remove(h, f) \/ MoveAside(h, f)

FolderStep ==
  /\ \/ \E f \in Files : Create(f) \/ Close(f)
     \/ \E h \in BounceThreads : DoBounceFileProcessing(h)
     \/ DoAbuseFileProcessing \/ EndOfAbuseCall
     \/ \E h \in Handlers : DirectoryHandler(h) \/ \E f \in Files : Disturbed(h, f)
  /\ UNCHANGED <<stop, faults>>

FolderFault ==
  /\ Fault
  /\ \E h \in Handlers, f \in Files : SaveFails(h, f) \/ RemoveFails(h, f) \/ MoveFails(h, f)
  /\ UNCHANGED stop

\* The process ends, and starts again: what was in memory is gone, the files stay.
FolderRestart ==
  /\ again' = again \cup {f \in Files : \E h \in Handlers : work[h][f] = "saved"}
  /\ place' = [f \in Files |-> IF place[f] = "writing" THEN "dropped" ELSE place[f]]
  /\ running' = [k \in Kinds |-> FALSE]
  /\ watching' = [k \in Kinds |-> TRUE]
  /\ nudges' = [k \in Kinds |-> 0]
  /\ startup' = "bounces"
  /\ hpc' = [h \in Handlers |-> "off"]
  /\ work' = [h \in Handlers |-> NoWork]
  /\ missed' = {} /\ unmovable' = {}
  /\ UNCHANGED together
=============================================================================
