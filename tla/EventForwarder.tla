---------------------------- MODULE EventForwarder ----------------------------
(***************************************************************************)
(* EventHttpForwarder: one thread that posts events to a web service and   *)
(* marks those that the service acknowledges.                              *)
(*                                                                         *)
(* The web service is external: it takes an event or not, and answers with *)
(* a dot, with something else or never.                                    *)
(***************************************************************************)
EXTENDS EventTable, FiniteSetsExt

CONSTANTS
  BatchSize,  \* events that are fetched at a time, 10 in the code
  Declined    \* sources whose events the web service never acknowledges

ASSUME ForwarderAssumption == BatchSize \in Nat \ {0} /\ Declined \subseteq Files

VARIABLES
  fpc,      \* where ForwardEvents is; _IsRunning until "ended"
  batch,    \* events fetched and not yet dealt with: a list in the order of ids, so a set
  taken,    \* events that the web service took
  retaken,  \* events that it took more than once
  doubted   \* history: events that it took and that were not marked at that time

forwarderVars == <<fpc, batch, taken, retaken, doubted>>

ForwarderTypeOK ==
  /\ fpc \in {"fetch", "post", "answer", "silent", "save", "failed", "ended"}
  /\ batch \subseteq DOMAIN rows
  /\ taken \subseteq DOMAIN rows
  /\ retaken \subseteq taken
  /\ doubted \subseteq taken

ForwarderInit ==
  fpc = "fetch" /\ batch = {} /\ taken = {} /\ retaken = {} /\ doubted = {}

ForwarderStopping == stop \in {"forwarder", "done"}

\* TOP BatchSize of the events that are not forwarded, by id.
Unforwarded == {i \in DOMAIN rows : ~rows[i].forwarded}
GetEventsForForwarding == {i \in Unforwarded : Cardinality({j \in Unforwarded : j < i}) < BatchSize}

\* With none to forward the thread sleeps and looks again.
Fetch ==
  /\ fpc = "fetch" /\ ~ForwarderStopping
  /\ batch' = GetEventsForForwarding
  /\ batch' # {}
  /\ fpc' = "post"
  /\ UNCHANGED <<rows, taken, retaken, doubted>>

\* The query fails: every part is told to stop, this one included, by the thread that this
\* one's Stop waits for.
FetchFails ==
  /\ fpc = "fetch" /\ ~ForwarderStopping
  /\ fpc' = "failed"
  /\ stop' = IF stop = "no" THEN "folder" ELSE stop
  /\ UNCHANGED <<rows, batch, taken, retaken, doubted>>

End ==
  /\ fpc = "fetch" /\ ForwarderStopping
  /\ fpc' = "ended"
  /\ UNCHANGED <<rows, batch, taken, retaken, doubted>>

\* The loop over the list is at this event.
Current == Min(batch)
NextEvent == batch' = batch \ {Current} /\ fpc' = IF batch' = {} THEN "fetch" ELSE "post"

SkipEvent ==
  /\ fpc = "post" /\ ForwarderStopping
  /\ NextEvent
  /\ UNCHANGED <<rows, taken, retaken, doubted>>

Takes(i) ==
  /\ taken' = taken \cup {i}
  /\ retaken' = IF i \in taken THEN retaken \cup {i} ELSE retaken

\* The request is sent, and the thread waits for the answer.
Post ==
  /\ fpc = "post" /\ ~ForwarderStopping
  /\ fpc' = "answer"
  /\ UNCHANGED <<rows, batch, taken, retaken, doubted>>

\* The service takes the event and answers with a dot.
Acknowledged ==
  /\ fpc = "answer"
  /\ rows[Current].source \notin Declined
  /\ Takes(Current)
  /\ fpc' = "save"
  /\ UNCHANGED <<rows, batch, doubted>>

\* Variant: any answer counts as the dot.
AnyAnswer ==
  /\ fpc = "answer"
  /\ fpc' = "save"
  /\ UNCHANGED <<rows, batch, taken, retaken, doubted>>

\* Without the dot nobody knows whether the service took the event (which is not recorded of an
\* event that it never acknowledges).
Doubtful ==
  \/ /\ rows[Current].source \notin Declined
     /\ Takes(Current)
     /\ doubted' = doubted \cup {Current}
  \/ UNCHANGED <<taken, retaken, doubted>>

\* Another answer, or an exception: a broken connection, a status that is an error.
NotAcknowledged ==
  /\ fpc = "answer"
  /\ Doubtful
  /\ NextEvent
  /\ UNCHANGED rows

\* The service never answers: the request is made by the asynchronous methods, to which the
\* timeouts of HttpWebRequest do not apply, and ForwardEvents waits for it without a limit.
NotAnswered ==
  /\ fpc = "answer"
  /\ fpc' = "silent"
  /\ UNCHANGED <<rows, batch, taken, retaken, doubted>>

SaveForwarded ==
  /\ fpc = "save"
  /\ Update(Current)
  /\ NextEvent
  /\ UNCHANGED <<taken, retaken, doubted>>

SaveForwardedFails ==
  /\ fpc = "save"
  /\ \/ Update(Current) /\ UNCHANGED doubted
     \/ doubted' = doubted \cup {Current} /\ UNCHANGED rows
  /\ NextEvent
  /\ UNCHANGED <<taken, retaken>>

ForwardEvents ==
  /\ Fetch \/ End \/ SkipEvent \/ Post \/ Acknowledged \/ NotAcknowledged \/ SaveForwarded
  /\ UNCHANGED <<stop, faults>>

ServiceSilent == NotAnswered /\ UNCHANGED <<stop, faults>>

ForwarderFault ==
  /\ Fault
  /\ \/ FetchFails
     \/ SaveForwardedFails /\ UNCHANGED stop

ForwarderRestart ==
  /\ fpc' = "fetch" /\ batch' = {}
  /\ \/ fpc \in {"answer", "silent"} /\ Doubtful
     \/ fpc = "save" /\ doubted' = doubted \cup {Current} /\ UNCHANGED <<taken, retaken>>
     \/ fpc \notin {"answer", "silent", "save"} /\ UNCHANGED <<taken, retaken, doubted>>
=============================================================================
