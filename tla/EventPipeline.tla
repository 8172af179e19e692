---------------------------- MODULE EventPipeline ----------------------------
(***************************************************************************)
(* From a mail in a drop folder to the web service: the folders' handler   *)
(* and the forwarder over one table of events, the service's stop, which   *)
(* goes from part to part, and the ends of the process.                    *)
(***************************************************************************)
EXTENDS DropFolder, EventForwarder

vars == <<rows, stop, faults, folderVars, forwarderVars>>

TypeOK == TableTypeOK /\ FolderTypeOK /\ ForwarderTypeOK

Init == TableInit /\ FolderInit /\ ForwarderInit

-----------------------------------------------------------------------------
(* MantaCoreEvents.InvokeMantaCoreStopping                                 *)

\* The service is stopped.  Counted as a fault, to bound how often.
OnStop ==
  /\ stop = "no"
  /\ stop' = "folder"
  /\ Fault
  /\ UNCHANGED <<rows, folderVars, forwarderVars>>

\* Variant: Stop does not wait.
FolderStoppedAtOnce ==
  /\ stop = "folder"
  /\ stop' = "forwarder"
  /\ UNCHANGED <<rows, faults, folderVars, forwarderVars>>

\* EventsFileHandler.Stop returns.
FolderStopped ==
  /\ stop = "folder"
  /\ ~running["bounce"] /\ ~running["complaint"]
  /\ stop' = "forwarder"
  /\ UNCHANGED <<rows, faults, folderVars, forwarderVars>>

\* EventHttpForwarder.Stop returns.
ForwarderStopped ==
  /\ stop = "forwarder"
  /\ fpc = "ended"
  /\ stop' = "done"
  /\ UNCHANGED <<rows, faults, folderVars, forwarderVars>>

\* The process ends and is started again: it has stopped, it crashes, or it exits since a
\* file could not be moved for ten seconds.
Restart ==
  /\ \/ stop = "done" /\ UNCHANGED faults
     \/ Fault
     \/ (\E h \in Handlers, f \in Files : GivesUp(h, f)) /\ UNCHANGED faults
  /\ stop' = "no"
  /\ FolderRestart
  /\ ForwarderRestart
  /\ UNCHANGED rows

-----------------------------------------------------------------------------

FolderNext == (FolderStep \/ FolderFault) /\ UNCHANGED forwarderVars
ForwarderNext == (ForwardEvents \/ ServiceSilent \/ ForwarderFault) /\ UNCHANGED folderVars

Next ==
  \/ FolderNext \/ ForwarderNext
  \/ OnStop \/ FolderStopped \/ ForwarderStopped
  \/ Restart

Spec == Init /\ [][Next]_vars

Unshared == UNCHANGED <<stop, faults, forwarderVars>>

\* Threads run, watchers call back (as often as there were files, so that the calls need no
\* fairness each), whoever writes a file closes it, the stop goes on, and the file system and SQL
\* Server answer.  The web service need not answer a post (NotAnswered is as good as an answer to
\* ForwardEvents); of one that does: an event that it does not decline and that is posted again
\* and again is acknowledged some time.
Fairness ==
  /\ \A h \in Handlers : WF_vars(DirectoryHandler(h) /\ Unshared)
  /\ WF_vars((\E h \in BounceThreads : DoBounceFileProcessing(h)) /\ Unshared)
  /\ WF_vars((DoAbuseFileProcessing \/ EndOfAbuseCall) /\ Unshared)
  /\ WF_vars((\E f \in Files : Close(f)) /\ Unshared)
  /\ WF_vars(ForwardEvents /\ UNCHANGED folderVars)
  /\ \A f \in Files \ Declined :
       SF_vars(Acknowledged /\ rows[Current].source = f /\ UNCHANGED <<stop, faults, folderVars>>)
  /\ WF_vars(FolderStopped \/ ForwarderStopped)

FairSpec == Spec /\ Fairness

-----------------------------------------------------------------------------
(* Properties                                                              *)

\* A file that was handled left an event, and only one unless its removal failed or was
\* cut off, or two tasks had it open: handling a folder in parallel, listing it again and again and
\* being called back while at work make no second event.
EventPerFile ==
  \A f \in Files :
    /\ place[f] = "done" => RowsOf(f) # {}
    /\ f \notin again \cup (together \cap Complaints) => Cardinality(RowsOf(f)) <= 1

\* An event marked as forwarded was taken, and the web service gets an event twice only if its
\* first answer, or the mark, was lost.
TakenOnce ==
  /\ \A i \in DOMAIN rows : rows[i].forwarded => i \in taken
  /\ retaken \subseteq doubted

\* When the stop has gone on from the folders no bounce is in hand: the process can end
\* without cutting the handling of one in two.  (Of complaints this is not so.)
BouncesAtRest ==
  ForwarderStopping =>
    \A h \in BounceThreads, f \in Files : work[h][f] \in {"no", "todo"}

\* Where no move fails of itself, the process kills itself over a file only if it is a complaint
\* and two tasks had it, one of which took it away from the other: the two threads that handle
\* bounces, and the repeated listings of a folder, never lose a file to each other.
ExitHasCause ==
  \A h \in Handlers, f \in Files :
    GivesUp(h, f) => f \in unmovable \/ f \in together \cap Complaints

\* Ten events that are declined and come before i: the query never gets to i.
Behind(i) ==
  Cardinality({j \in DOMAIN rows : j < i /\ ~rows[j].forwarded /\ rows[j].source \in Declined})
    >= BatchSize

\* What is dropped is put aside or reported to the web service, whenever it comes: before the
\* watchers are on, while the folder is handled, while the forwarder is busy.  Except (missed): a
\* file that came between the last listing and the watcher's return, and every file that lay in
\* the folder when an exception ended the handling of it or a callback found the handler at its
\* end, waits for another file; a bounce of an unknown send throws in every pass, here as often as
\* faults allow.  Declined events can keep others from being fetched.  And one post that is never
\* answered stops all events after it.
EventReachesService ==
  \/ \A f \in Files \ Declined :
       place[f] = "dropped" ~>
         \/ place[f] = "aside"
         \/ \E i \in RowsOf(f) : rows[i].forwarded \/ Behind(i)
         \/ f \in missed
         \/ stop # "no"
  \/ <>[](fpc = "silent")

\* The stop gets an answer.  Except: a handler that had listed files goes on looping over them for
\* ever, a forwarder whose query failed waits for itself, and one whose post is never
\* answered keeps _IsRunning.
StopIsAnswered ==
  \/ stop = "folder" ~> stop \in {"done", "no"}
  \/ <>[](\E h \in BounceThreads : hpc[h] = "pass")
  \/ <>[](fpc \in {"failed", "silent"})
=============================================================================
