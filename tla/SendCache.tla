------------------------------ MODULE SendCache ------------------------------
(***************************************************************************)
(* SendManager: the status of one send, which the web interface sets in    *)
(* the database and which the SMTP server and the sender's workers look up *)
(* in two dictionaries that are cleared every so often.                    *)
(*                                                                         *)
(* The clock is a number.  Nothing in the code bounds how long a call      *)
(* takes (a load is a query): MaxCall stands for what it may take, so that *)
(* what follows for the age of an answer can be said.                      *)
(***************************************************************************)
EXTENDS Integers

CONSTANTS
  Workers,    \* callers of GetSendAsync(int): MessageSender
  Receivers,  \* callers of GetSendAsync(string): SmtpServerTransaction
  Period,     \* seconds after which the dictionaries are cleared, 10 in the code
  MaxCall,    \* seconds that a call takes at most
  MaxTime,    \* bound of the clock
  None

Callers == Workers \cup Receivers
Statuses == {"Active", "Paused", "Discard"}

ASSUME CacheAssumption ==
  /\ Workers \cap Receivers = {}
  /\ Period \in Nat /\ MaxCall \in Nat /\ MaxTime \in Nat
  /\ None \notin Callers \cup Statuses

VARIABLES
  now,          \* DateTime.UtcNow
  db,           \* mta_sendStatus_id, or None before the send is in the table
  seen,         \* history: when db was last of this status
  sends,        \* the status in _Sends, by ID
  internal,     \* the status in _SendsInternalID
  lastCleared,  \* _SendsLastCleared
  lock,         \* who holds _SendsLock
  pc, began,    \* callers: where the call is, and when it began
  snd           \* callers: the status of the send that is loaded or found

vars == <<now, db, seen, sends, internal, lastCleared, lock, pc, began, snd>>

Maybe == Statuses \cup {None}

TypeOK ==
  /\ now \in Nat
  /\ db \in Maybe
  /\ seen \in [Statuses -> Nat]
  /\ sends \in Maybe /\ internal \in Maybe
  /\ lastCleared \in Nat
  /\ lock \in Callers \cup {None}
  /\ pc \in [Callers -> {"idle", "lock", "clear", "clearInternal", "stamp", "look", "load", "add",
                         "addOther", "answer"}]
  /\ began \in [Callers -> Nat]
  /\ snd \in [Callers -> Maybe]

Init ==
  /\ now = 0
  /\ db = None
  /\ seen = [s \in Statuses |-> 0]
  /\ sends = None /\ internal = None
  /\ lastCleared = 0
  /\ lock = None
  /\ pc = [c \in Callers |-> "idle"]
  /\ began = [c \in Callers |-> 0]
  /\ snd = [c \in Callers |-> None]

Goto(c, to) == pc' = [pc EXCEPT ![c] = to]
Step(c, from, to) == pc[c] = from /\ Goto(c, to)

\* The dictionary that c looks into.
Own(c) == IF c \in Receivers THEN sends ELSE internal

TryAdd(entry, s) == IF entry = None THEN s ELSE entry

-----------------------------------------------------------------------------
(* GetSendAsync                                                            *)

Expired == lastCleared + Period < now

\* Variant: the time of the last clearing is not looked at.
BeginAnyway(c) ==
  /\ Step(c, "idle", "look")
  /\ c \in Workers => db # None
  /\ began' = [began EXCEPT ![c] = now]
  /\ UNCHANGED <<now, db, seen, sends, internal, lastCleared, lock, snd>>

\* A worker has the internal ID from a message, so that the send is in the table.
Begin(c) ==
  /\ Step(c, "idle", IF Expired THEN "lock" ELSE "look")
  /\ c \in Workers => db # None
  /\ began' = [began EXCEPT ![c] = now]
  /\ UNCHANGED <<now, db, seen, sends, internal, lastCleared, lock, snd>>

\* ClearSendsCache: two dictionaries one after the other, then the time.
Lock(c) ==
  /\ Step(c, "lock", "clear")
  /\ lock = None /\ lock' = c
  /\ UNCHANGED <<now, db, seen, sends, internal, lastCleared, began, snd>>

ClearSends(c) ==
  /\ Step(c, "clear", "clearInternal")
  /\ sends' = None
  /\ UNCHANGED <<now, db, seen, internal, lastCleared, lock, began, snd>>

ClearInternal(c) ==
  /\ Step(c, "clearInternal", "stamp")
  /\ internal' = None
  /\ UNCHANGED <<now, db, seen, sends, lastCleared, lock, began, snd>>

Stamp(c) ==
  /\ Step(c, "stamp", "look")
  /\ lastCleared' = now
  /\ lock' = None
  /\ UNCHANGED <<now, db, seen, sends, internal, began, snd>>

TryGetValue(c) ==
  /\ Step(c, "look", IF Own(c) = None THEN "load" ELSE "answer")
  /\ snd' = [snd EXCEPT ![c] = Own(c)]
  /\ UNCHANGED <<now, db, seen, sends, internal, lastCleared, lock, began>>

\* SendDB.GetSendAsync, or CreateAndGetInternalSendIDAsync, which inserts a send that is new.
Load(c) ==
  /\ Step(c, "load", "add")
  /\ db' = IF db = None THEN "Active" ELSE db
  /\ seen' = [seen EXCEPT ![db'] = now]
  /\ snd' = [snd EXCEPT ![c] = db']
  /\ UNCHANGED <<now, sends, internal, lastCleared, lock, began>>

\* First to the dictionary that was looked into, then to the other; an entry that is there
\* already stays, and the caller returns what it has loaded.
AddOwn(c) ==
  /\ Step(c, "add", "addOther")
  /\ IF c \in Receivers
       THEN sends' = TryAdd(sends, snd[c]) /\ UNCHANGED internal
       ELSE internal' = TryAdd(internal, snd[c]) /\ UNCHANGED sends
  /\ UNCHANGED <<now, db, seen, lastCleared, lock, began, snd>>

AddOther(c) ==
  /\ Step(c, "addOther", "answer")
  /\ IF c \in Receivers
       THEN internal' = TryAdd(internal, snd[c]) /\ UNCHANGED sends
       ELSE sends' = TryAdd(sends, snd[c]) /\ UNCHANGED internal
  /\ UNCHANGED <<now, db, seen, lastCleared, lock, began, snd>>

Answer(c) ==
  /\ Step(c, "answer", "idle")
  /\ snd' = [snd EXCEPT ![c] = None]
  /\ began' = [began EXCEPT ![c] = 0]
  /\ UNCHANGED <<now, db, seen, sends, internal, lastCleared, lock>>

GetSend(c) ==
  \/ Begin(c) \/ Lock(c) \/ ClearSends(c) \/ ClearInternal(c) \/ Stamp(c)
  \/ TryGetValue(c) \/ Load(c) \/ AddOwn(c) \/ AddOther(c) \/ Answer(c)

-----------------------------------------------------------------------------

\* SetSendStatus, by the web interface: another process, which changes no dictionary here.
SetSendStatus(s) ==
  /\ db \notin {None, s}
  /\ db' = s
  /\ seen' = [seen EXCEPT ![s] = now]
  /\ UNCHANGED <<now, sends, internal, lastCleared, lock, pc, began, snd>>

Tick ==
  /\ now < MaxTime
  /\ \A c \in Callers : pc[c] # "idle" => now < began[c] + MaxCall
  /\ now' = now + 1
  /\ seen' = IF db = None THEN seen ELSE [seen EXCEPT ![db] = now']
  /\ UNCHANGED <<db, sends, internal, lastCleared, lock, pc, began, snd>>

Next ==
  \/ \E c \in Callers : GetSend(c)
  \/ \E s \in Statuses : SetSendStatus(s)
  \/ Tick

Spec == Init /\ [][Next]_vars

-----------------------------------------------------------------------------
(* Properties                                                              *)

\* What a caller is told was the status of the send in the database not long before: within the
\* period, and three times what a call may take (a load that is added after the clearing it began
\* before, a clearing that takes its time, and the call itself).  So a send that is paused or
\* discarded is soon no longer sent, whichever of the dictionaries is asked.
AnswersAreRecent ==
  \A c \in Callers : pc[c] = "answer" => seen[snd[c]] >= now - Period - 3 * MaxCall

=============================================================================
