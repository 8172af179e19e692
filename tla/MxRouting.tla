------------------------------ MODULE MxRouting ------------------------------
(***************************************************************************)
(* The way of messages from MX to MX, out of one address: DequeueAsync,    *)
(* with ServiceNotAvailableManager, which has MXs left alone for a while   *)
(* that did not answer, or answered 421.                                   *)
(*                                                                         *)
(* The hosts of a message are those MxRecords answers; whether a host      *)
(* answers is free, and so is what the pool makes of it (see ClientPool).  *)
(* Times are ages, in seconds, that no longer grow when they are too old   *)
(* to matter.                                                              *)
(***************************************************************************)
EXTENDS Integers, Sequences

CONSTANTS
  Workers,
  Mxs,     \* hosts that are an MX of some domain
  Domain,  \* a domain without MX: its only host is itself
  Lists,   \* arrays of MXs by preference
  Away     \* seconds for which an MX is left alone, 25 in the code

Hosts == Mxs \cup {Domain}

RoutingAssumption == Domain \notin Mxs /\ Lists \subseteq Seq(Mxs) /\ Away \in Nat

VARIABLES
  lastFail,  \* _ServiceUnavailableLog of the address: the age, by host
  known,     \* history: the age of the latest failure of a host that was put on record
  pc,        \* workers: where SendMessageAsync is
  mxs,       \* workers: the hosts of the message
  place,     \* workers: i, counted from one
  tried,     \* history, workers: hosts that did not answer in this call
  failed,    \* workers: the age of the failure that is to be put on record
  after      \* workers: where to go from there

logVars == <<lastFail, known>>
wayVars == <<mxs, place, tried, failed, after>>
vars == <<logVars, pc, wayVars>>

Ages == 0..Away

TypeOK ==
  /\ lastFail \in [Hosts -> Ages] /\ known \in [Hosts -> Ages]
  /\ pc \in [Workers -> {"idle", "route", "connect", "session", "add", "noConnect", "failed", "over"}]
  /\ mxs \in [Workers -> Seq(Hosts)]
  /\ place \in [Workers -> Nat \ {0}]
  /\ tried \in [Workers -> SUBSET Hosts]
  /\ failed \in [Workers -> Ages]
  /\ after \in [Workers -> {"next", "over"}]

Init ==
  /\ lastFail = [h \in Hosts |-> Away] /\ known = lastFail
  /\ pc = [w \in Workers |-> "idle"]
  /\ mxs = [w \in Workers |-> <<>>]
  /\ place = [w \in Workers |-> 1]
  /\ tried = [w \in Workers |-> {}]
  /\ failed = [w \in Workers |-> Away]
  /\ after = [w \in Workers |-> "over"]

Step(w, from, to) == pc[w] = from /\ pc' = [pc EXCEPT ![w] = to]

-----------------------------------------------------------------------------
(* SmtpClientPool.DequeueAsync                                             *)

Mx(w) == mxs[w][place[w]]

\* The hosts of the next message are known.
Begin(w) ==
  /\ Step(w, "idle", "route")
  /\ \E list \in Lists \cup {<<Domain>>, <<>>} : mxs' = [mxs EXCEPT ![w] = list]
  /\ UNCHANGED <<logVars, place, tried, failed, after>>

\* "550 Domain Not Found."
NoMxRecords(w) ==
  /\ Step(w, "route", "failed")
  /\ mxs[w] = <<>>
  /\ UNCHANGED <<logVars, wayVars>>

\* TryGetSendAuth, once and before the loop.
Throttled(w) ==
  /\ Step(w, "route", "over")
  /\ mxs[w] # <<>> /\ place[w] = 1
  /\ UNCHANGED <<logVars, wayVars>>

\* IsServiceUnavailable.
Unavailable(h) == lastFail[h] < Away

\* An MX that is left alone ends the call: the others are not tried.
Check(w) ==
  /\ pc[w] = "route" /\ mxs[w] # <<>>
  /\ Step(w, "route", IF Unavailable(Mx(w)) THEN "over" ELSE "connect")
  /\ UNCHANGED <<logVars, wayVars>>

\* An idle connection, or a new one; or the maximum is reached, or an exception of another
\* kind is thrown.
Connect(w) ==
  /\ \E to \in {"session", "over"} : Step(w, "connect", to)
  /\ UNCHANGED <<logVars, wayVars>>

\* A SocketException, noted with the time.
ConnectFails(w) ==
  /\ Step(w, "connect", "add")
  /\ tried' = [tried EXCEPT ![w] = @ \cup {Mx(w)}]
  /\ failed' = [failed EXCEPT ![w] = 0]
  /\ after' = [after EXCEPT ![w] = "next"]
  /\ UNCHANGED <<logVars, mxs, place>>

\* 421, in the greeting or in the session, which ends with it.
Refused(w) ==
  /\ \E at \in {"connect", "session"} : Step(w, at, "add")
  /\ failed' = [failed EXCEPT ![w] = 0]
  /\ after' = [after EXCEPT ![w] = "over"]
  /\ UNCHANGED <<logVars, mxs, place, tried>>

SessionEnds(w) ==
  /\ Step(w, "session", "over")
  /\ UNCHANGED <<logVars, wayVars>>

-----------------------------------------------------------------------------
(* ServiceNotAvailableManager                                              *)

\* Variant: the time that comes last stays.
LastOne(old, new) == new

\* The update of AddOrUpdate: the later of two times stays, in whichever order they come.
Later(old, new) == IF old < new THEN old ELSE new


\* Add, and then the next MX, if there is one.
Add(w) ==
  /\ pc[w] = "add"
  /\ LET last == place[w] = Len(mxs[w]) IN
       /\ Step(w, "add", IF after[w] = "over" THEN "over" ELSE IF last THEN "noConnect" ELSE "route")
       /\ place' = IF after[w] = "over" \/ last THEN place ELSE [place EXCEPT ![w] = @ + 1]
  /\ lastFail' = [lastFail EXCEPT ![Mx(w)] = Later(@, failed[w])]
  /\ known' = [known EXCEPT ![Mx(w)] = IF failed[w] < @ THEN failed[w] ELSE @]
  /\ failed' = [failed EXCEPT ![w] = Away]
  /\ after' = [after EXCEPT ![w] = "over"]
  /\ UNCHANGED <<mxs, tried>>

\* HandleFailedToConnectAsync: "550 Failed to connect" if the host was the domain itself.
FailedToConnect(w) ==
  /\ pc[w] = "noConnect"
  /\ Step(w, "noConnect", IF mxs[w][1] = Domain THEN "failed" ELSE "over")
  /\ UNCHANGED <<logVars, wayVars>>

\* The worker takes its next message.
Done(w) ==
  /\ \E at \in {"failed", "over"} : Step(w, at, "idle")
  /\ mxs' = [mxs EXCEPT ![w] = <<>>]
  /\ place' = [place EXCEPT ![w] = 1]
  /\ tried' = [tried EXCEPT ![w] = {}]
  /\ UNCHANGED <<logVars, failed, after>>

-----------------------------------------------------------------------------

Older(ages) == [x \in DOMAIN ages |-> IF ages[x] < Away THEN ages[x] + 1 ELSE Away]

Tick ==
  /\ lastFail' = Older(lastFail) /\ known' = Older(known) /\ failed' = Older(failed)
  /\ UNCHANGED <<pc, mxs, place, tried, after>>

Send(w) ==
  \/ Begin(w) \/ NoMxRecords(w) \/ Throttled(w) \/ Check(w) \/ Connect(w) \/ ConnectFails(w)
  \/ Refused(w) \/ SessionEnds(w) \/ Add(w) \/ FailedToConnect(w) \/ Done(w)

Next == (\E w \in Workers : Send(w)) \/ Tick

Spec == Init /\ [][Next]_vars

-----------------------------------------------------------------------------
(* Properties                                                              *)

\* A host whose failure is on record is not tried again before the time is up, although workers
\* put failures on record in another order than they happened in; and an MX is tried only after
\* all those before it did not answer in this call.  One that is left alone, or refuses, keeps the
\* message from the others too.
MxsAreTriedInTurn ==
  [][\A w \in Workers : pc[w] = "route" /\ pc'[w] = "connect" =>
       /\ known[Mx(w)] >= Away
       /\ {mxs[w][i] : i \in 1..(place[w] - 1)} = tried[w]]_vars

=============================================================================
