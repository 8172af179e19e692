----------------------------- MODULE ClientPool -----------------------------
(***************************************************************************)
(* SmtpClientPool and SmtpClientQueue: the connections from one outbound   *)
(* IP address to remote MX hosts, shared by the sender's workers.          *)
(*                                                                         *)
(* The pool maps a host to a queue object.  A queue object holds the idle  *)
(* connections and the list InUseConnections, which nothing guards; a      *)
(* worker keeps its reference to the object while the cleaner thread may   *)
(* take the object out of the map.  _ConnectionAttemptsInProgress is one   *)
(* counter for all queues: it is incremented under a lock and decremented  *)
(* without.                                                                *)
(*                                                                         *)
(* Left out: throttling and the list of unavailable services (they answer  *)
(* before a queue is looked at and change nothing here), and the second    *)
(* and later MX of a domain (the same steps at another host).              *)
(***************************************************************************)
EXTENDS Integers, Sequences, FiniteSets, SequencesExt

CONSTANTS
  Workers,     \* tasks of MessageSender
  Hosts,       \* MX hosts
  Queues,      \* SmtpClientQueue objects: bounds how many can be referenced at once
  Clients,     \* SmtpOutboundClient objects: bounds how many can be referenced at once
  MaxConnections, \* GetMaxConnectionsToDestination
  MaxAttempts, \* MAX_SIMULTANEOUS_CLIENT_CONNECT_ATTEMPTS
  MaxRaces,    \* bound on the races on the counter and on InUseConnections
  None

ASSUME PoolAssumption ==
  /\ MaxConnections \in Nat /\ MaxAttempts \in Nat /\ MaxRaces \in Nat
  /\ None \notin Queues \cup Clients \cup Hosts

VARIABLES
  queueOf,   \* the map from host to queue object
  idle,      \* per queue object: the connections waiting, in order
  inUse,     \* per queue object: InUseConnections
  connected, \* TcpClient.Connected
  greeted,   \* connections whose server greeted them with 2xx
  attempts,  \* _ConnectionAttemptsInProgress
  pc, host, queue, client, \* per worker: control, mxs[i].Host, clientQueue, smtpClient
  read,      \* per worker: the value of attempts read by the decrement
  cleaning,  \* the host whose queue the cleaner thread found empty
  failed,    \* history: connections whose session ended with an exception
  raced,     \* history: connections whose entry in InUseConnections met a race
  races

workerVars == <<pc, host, queue, client, read>>
vars == <<queueOf, idle, inUse, connected, greeted, attempts, workerVars, cleaning, failed, raced, races>>

Connecting == {"connect", "add", "decRead", "decWrite"}
Pc == {"idle", "look", "take", "create", "session", "return", "remove"} \cup Connecting

TypeOK ==
  /\ queueOf \in [Hosts -> Queues \cup {None}]
  /\ idle \in [Queues -> Seq(Clients)]
  /\ inUse \in [Queues -> SUBSET Clients]
  /\ connected \in [Clients -> BOOLEAN]
  /\ greeted \in SUBSET Clients
  /\ attempts \in Int
  /\ pc \in [Workers -> Pc]
  /\ host \in [Workers -> Hosts \cup {None}]
  /\ queue \in [Workers -> Queues \cup {None}]
  /\ client \in [Workers -> Clients \cup {None}]
  /\ read \in [Workers -> Int]
  /\ cleaning \in Hosts \cup {None}
  /\ failed \in SUBSET Clients
  /\ raced \in SUBSET Clients
  /\ races \in 0..MaxRaces

Init ==
  /\ queueOf = [h \in Hosts |-> None]
  /\ idle = [q \in Queues |-> <<>>]
  /\ inUse = [q \in Queues |-> {}]
  /\ connected = [c \in Clients |-> FALSE]
  /\ greeted = {}
  /\ attempts = 0
  /\ pc = [w \in Workers |-> "idle"]
  /\ host = [w \in Workers |-> None]
  /\ queue = [w \in Workers |-> None]
  /\ client = [w \in Workers |-> None]
  /\ read = [w \in Workers |-> 0]
  /\ cleaning = None
  /\ failed = {}
  /\ raced = {}
  /\ races = 0

-----------------------------------------------------------------------------

Goto(w, l) == pc' = [pc EXCEPT ![w] = l]
Hold(w, c) == client' = [client EXCEPT ![w] = c]
Race == races < MaxRaces /\ races' = races + 1

\* Objects that nothing refers to.
FreshQueues ==
  {q \in Queues : /\ \A h \in Hosts : queueOf[h] # q
                  /\ \A w \in Workers : queue[w] # q
                  /\ idle[q] = <<>> /\ inUse[q] = {}}
FreshClients ==
  {c \in Clients : /\ \A q \in Queues : c \notin inUse[q] \cup ToSet(idle[q])
                   /\ \A w \in Workers : client[w] # c}

\* TryGetValue, or TryAdd of a new object, under _ClientPoolLock: the worker has its
\* reference from then on.
FindQueue(w, h) ==
  /\ IF queueOf[h] # None
       THEN queue' = [queue EXCEPT ![w] = queueOf[h]] /\ UNCHANGED queueOf
       ELSE \E q \in FreshQueues : /\ queue' = [queue EXCEPT ![w] = q]
                                   /\ queueOf' = [queueOf EXCEPT ![h] = q]

\* Another thread is changing the same ArrayList.
ListRace(w) ==
  \E v \in Workers \ {w} : pc[v] \in {"take", "add", "remove"} /\ queue[v] = queue[w]

\* The worker sets the list of its queue object to members; one of two changes at the
\* same time can be lost.
SetInUse(w, members) ==
  \/ inUse' = [inUse EXCEPT ![queue[w]] = members] /\ UNCHANGED <<raced, races>>
  \/ /\ ListRace(w) /\ Race
     /\ raced' = raced \cup {client[w]}
     /\ UNCHANGED inUse

\* Another worker has read the counter and not yet written it back.
CounterRace == \E v \in Workers : pc[v] = "decWrite"
CountRace == (CounterRace /\ Race) \/ (~CounterRace /\ UNCHANGED races)

-----------------------------------------------------------------------------
(* SmtpClientPool.DequeueAsync                                             *)

Begin(w, h) ==
  /\ pc[w] = "idle"
  /\ FindQueue(w, h)
  /\ host' = [host EXCEPT ![w] = h]
  /\ Goto(w, "look")
  /\ UNCHANGED <<greeted, idle, inUse, connected, attempts, client, read, cleaning,
                 failed, raced, races>>

\* Variant: the connection is taken and stays in the queue.
TakeIdleKeepsIt(w) ==
  /\ pc[w] = "look"
  /\ idle[queue[w]] # <<>>
  /\ connected[Head(idle[queue[w]])]
  /\ Hold(w, Head(idle[queue[w]])) /\ Goto(w, "take")
  /\ UNCHANGED <<greeted, queueOf, idle, inUse, connected, attempts, host, queue, read,
                 cleaning, failed, raced, races>>

\* One round of the loop over the queue: a connection that broke while it waited is
\* dropped.
TakeIdle(w) ==
  /\ pc[w] = "look"
  /\ idle[queue[w]] # <<>>
  /\ idle' = [idle EXCEPT ![queue[w]] = Tail(@)]
  /\ IF connected[Head(idle[queue[w]])]
       THEN Hold(w, Head(idle[queue[w]])) /\ Goto(w, "take")
       ELSE UNCHANGED <<client, pc>>
  /\ UNCHANGED <<greeted, queueOf, inUse, connected, attempts, host, queue, read,
                 cleaning, failed, raced, races>>

\* No look at the maximum here.
AddTaken(w) ==
  /\ pc[w] = "take"
  /\ SetInUse(w, inUse[queue[w]] \cup {client[w]})
  /\ Goto(w, "session")
  /\ UNCHANGED <<greeted, queueOf, idle, connected, attempts, host, queue, client,
                 read, cleaning, failed>>

NothingIdle(w) ==
  /\ pc[w] = "look"
  /\ idle[queue[w]] = <<>>
  /\ Goto(w, "create")
  /\ UNCHANGED <<greeted, queueOf, idle, inUse, connected, attempts, host, queue, client, read,
                 cleaning, failed, raced, races>>

-----------------------------------------------------------------------------
(* SmtpClientQueue.CreateNewConnectionAsync                                *)

MaxedOut(w) ==
  \/ MaxConnections <= Cardinality(inUse[queue[w]]) + attempts
  \/ attempts >= MaxAttempts

Refuse(w) ==
  /\ pc[w] = "create"
  /\ MaxedOut(w)
  /\ queue' = [queue EXCEPT ![w] = None]
  /\ host' = [host EXCEPT ![w] = None]
  /\ Goto(w, "idle")
  /\ UNCHANGED <<greeted, queueOf, idle, inUse, connected, attempts, client, read,
                 cleaning, failed, raced, races>>

\* Under both locks.
StartAttempt(w) ==
  /\ pc[w] = "create"
  /\ ~MaxedOut(w)
  /\ CountRace
  /\ attempts' = attempts + 1
  /\ Goto(w, "connect")
  /\ UNCHANGED <<greeted, queueOf, idle, inUse, connected, host, queue, client, read,
                 cleaning, failed, raced>>

\* ConnectAsync succeeds, or the greeting is not 2xx: then the client is closed, answers
\* false, and the answer is not looked at.
Connect(w) ==
  /\ pc[w] = "connect"
  /\ \E c \in FreshClients, up \in BOOLEAN :
       /\ Hold(w, c)
       /\ connected' = [connected EXCEPT ![c] = up]
       /\ greeted' = IF up THEN greeted \cup {c} ELSE greeted \ {c}
       /\ failed' = failed \ {c}
       /\ raced' = raced \ {c}
  /\ Goto(w, "add")
  /\ UNCHANGED <<queueOf, idle, inUse, attempts, host, queue, read, cleaning, races>>

AddCreated(w) ==
  /\ pc[w] = "add"
  /\ SetInUse(w, inUse[queue[w]] \cup {client[w]})
  /\ Goto(w, "decRead")
  /\ UNCHANGED <<greeted, queueOf, idle, connected, attempts, host, queue, client,
                 read, cleaning, failed>>

\* Variant: an exception leaves without the finally block.
ConnectThrowsUncounted(w) ==
  /\ pc[w] = "connect"
  /\ queue' = [queue EXCEPT ![w] = None]
  /\ host' = [host EXCEPT ![w] = None]
  /\ Goto(w, "idle")
  /\ UNCHANGED <<greeted, queueOf, idle, inUse, connected, attempts, client, read,
                 cleaning, failed, raced, races>>

\* A SocketException or another exception: the client is closed and disposed.
ConnectThrows(w) ==
  /\ pc[w] = "connect"
  /\ Goto(w, "decRead")
  /\ UNCHANGED <<greeted, queueOf, idle, inUse, connected, attempts, host, queue, client, read,
                 cleaning, failed, raced, races>>

\* The finally block: a decrement that is not atomic.
DecrementRead(w) ==
  /\ pc[w] = "decRead"
  /\ CountRace
  /\ read' = [read EXCEPT ![w] = attempts]
  /\ Goto(w, "decWrite")
  /\ UNCHANGED <<greeted, queueOf, idle, inUse, connected, attempts, host, queue, client,
                 cleaning, failed, raced>>

\* Without a client the caller gets nothing and looks at it.
DecrementWrite(w) ==
  /\ pc[w] = "decWrite"
  /\ attempts' = read[w] - 1
  /\ read' = [read EXCEPT ![w] = 0]
  /\ IF client[w] # None
       THEN Goto(w, "session") /\ UNCHANGED <<host, queue>>
       ELSE /\ Goto(w, "idle")
            /\ queue' = [queue EXCEPT ![w] = None]
            /\ host' = [host EXCEPT ![w] = None]
  /\ UNCHANGED <<greeted, queueOf, idle, inUse, connected, client, cleaning, failed,
                 raced, races>>

-----------------------------------------------------------------------------
(* MessageSender.SendMessageAsync: the session, and SmtpClientPool.Enqueue *)

\* All commands are done, or were skipped because the client was not connected; after the
\* last message of a connection it is closed.
SessionEnds(w) ==
  /\ pc[w] = "session"
  /\ \E quit \in BOOLEAN :
       connected' = IF quit THEN [connected EXCEPT ![client[w]] = FALSE] ELSE connected
  /\ Goto(w, "return")
  /\ UNCHANGED <<greeted, queueOf, idle, inUse, attempts, host, queue, client, read,
                 cleaning, failed, raced, races>>

\* A command is refused or throws: the connection is let go of, not returned and not taken
\* out of InUseConnections.  The commands of a client whose greeting failed answer false.
SessionThrows(w) ==
  /\ pc[w] = "session"
  /\ client[w] \in greeted
  /\ failed' = failed \cup {client[w]}
  /\ Hold(w, None)
  /\ queue' = [queue EXCEPT ![w] = None]
  /\ host' = [host EXCEPT ![w] = None]
  /\ Goto(w, "idle")
  /\ UNCHANGED <<greeted, queueOf, idle, inUse, connected, attempts, read, cleaning,
                 raced, races>>

\* Enqueue looks the queue object up again: it need not be the one of DequeueAsync.
Return(w) ==
  /\ pc[w] = "return"
  /\ FindQueue(w, host[w])
  /\ idle' = [idle EXCEPT ![queue'[w]] = Append(@, client[w])]
  /\ Goto(w, "remove")
  /\ UNCHANGED <<greeted, inUse, connected, attempts, host, client, read, cleaning,
                 failed, raced, races>>

\* Variant: a connection that was closed is not taken out of the list.
RemoveIfConnected(w) ==
  /\ pc[w] = "remove"
  /\ IF connected[client[w]]
       THEN SetInUse(w, inUse[queue[w]] \ {client[w]})
       ELSE UNCHANGED <<inUse, raced, races>>
  /\ Hold(w, None)
  /\ queue' = [queue EXCEPT ![w] = None]
  /\ host' = [host EXCEPT ![w] = None]
  /\ Goto(w, "idle")
  /\ UNCHANGED <<greeted, queueOf, idle, connected, attempts, read, cleaning, failed>>

RemoveReturned(w) ==
  /\ pc[w] = "remove"
  /\ SetInUse(w, inUse[queue[w]] \ {client[w]})
  /\ Hold(w, None)
  /\ queue' = [queue EXCEPT ![w] = None]
  /\ host' = [host EXCEPT ![w] = None]
  /\ Goto(w, "idle")
  /\ UNCHANGED <<greeted, queueOf, idle, connected, attempts, read, cleaning, failed>>

-----------------------------------------------------------------------------
(* Other threads                                                           *)

\* The remote end closes, the network breaks, or the idle collector sends QUIT.
ConnectionDies(c) ==
  /\ connected[c]
  /\ connected' = [connected EXCEPT ![c] = FALSE]
  /\ UNCHANGED <<greeted, queueOf, idle, inUse, attempts, workerVars, cleaning, failed,
                 raced, races>>

\* SmtpClientQueue.RunInUseCleaner removes the z-th of the dead entries it found only if the
\* list has fewer than z entries.
InUseCleaner(q) ==
  LET dead      == {c \in inUse[q] : ~connected[c]}
      removable == {z \in 0..(Cardinality(dead) - 1) : Cardinality(inUse[q]) < z}
  IN  /\ \E gone \in SUBSET dead :
           /\ Cardinality(gone) = Cardinality(removable)
           /\ inUse' = [inUse EXCEPT ![q] = @ \ gone]
      /\ UNCHANGED <<greeted, queueOf, idle, connected, attempts, workerVars, cleaning,
                     failed, raced, races>>

\* The thread of SmtpClientPool finds a queue object empty and unused ...
CleanerLooks(h) ==
  /\ cleaning = None
  /\ queueOf[h] # None
  /\ idle[queueOf[h]] = <<>> /\ inUse[queueOf[h]] = {}
  /\ cleaning' = h
  /\ UNCHANGED <<greeted, queueOf, idle, inUse, connected, attempts, workerVars,
                 failed, raced, races>>

\* ... and removes the entry of its host, without the lock, whatever it has become.
CleanerRemoves ==
  /\ cleaning # None
  /\ queueOf' = [queueOf EXCEPT ![cleaning] = None]
  /\ cleaning' = None
  /\ UNCHANGED <<greeted, idle, inUse, connected, attempts, workerVars, failed, raced, races>>

-----------------------------------------------------------------------------

PoolStep(w) ==
  \/ TakeIdle(w) \/ AddTaken(w) \/ NothingIdle(w)
  \/ Refuse(w) \/ StartAttempt(w) \/ Connect(w) \/ AddCreated(w) \/ ConnectThrows(w)
  \/ DecrementRead(w) \/ DecrementWrite(w)
  \/ SessionEnds(w) \/ SessionThrows(w) \/ Return(w) \/ RemoveReturned(w)

Next ==
  \/ \E w \in Workers : PoolStep(w) \/ \E h \in Hosts : Begin(w, h)
  \/ \E c \in Clients : ConnectionDies(c)
  \/ \E q \in Queues : InUseCleaner(q)
  \/ \E h \in Hosts : CleanerLooks(h)
  \/ CleanerRemoves

Spec == Init /\ [][Next]_vars

-----------------------------------------------------------------------------
(* Properties                                                              *)

\* Between DequeueAsync and Enqueue the connection belongs to the worker.
Owns(w, c) == client[w] = c /\ pc[w] # "remove"

\* A connection has one user: no two workers own it, and while one does it waits in no
\* queue, at most once in one otherwise.  Two SMTP dialogues never mix on one connection.
ExclusiveUse ==
  \A c \in Clients :
    LET owners == {w \in Workers : Owns(w, c)}
        places == {p \in Queues \X (1..Cardinality(Clients)) :
                     p[2] \in DOMAIN idle[p[1]] /\ idle[p[1]][p[2]] = c}
    IN  Cardinality(owners) + Cardinality(places) <= 1

\* In the list of a queue object that the pool knows, only connections of failed sessions are
\* left behind: one that was returned, open or closed, no longer counts against the maximum
\* (but for two threads changing the list at the same time).
LeftBehindByFailure ==
  \A h \in Hosts : queueOf[h] # None =>
    \A c \in inUse[queueOf[h]] : c \in failed \cup raced \/ \E w \in Workers : client[w] = c

\* The counter of attempts is right whenever none overlapped with a decrement: every way
\* out of an attempt, exceptions included, gives its place back.
AttemptsAreCounted ==
  races = 0 => attempts = Cardinality({w \in Workers : pc[w] \in Connecting})
=============================================================================
