-------------------------- MODULE ClientPoolProofs --------------------------
(***************************************************************************)
(* Proofs about ClientPool for any workers, hosts, queue objects,          *)
(* connections and limits: a connection has one user, what is left in      *)
(* InUseConnections is left by failed sessions, and every attempt to       *)
(* connect gives its place back.                                           *)
(***************************************************************************)
EXTENDS ClientPool, SequenceTheorems, FiniteSetTheorems, TLAPS

Holding == {"take", "add", "session", "return", "remove"}
EmptyHanded == {"idle", "look", "create", "connect"}

\* What a worker has in hand at each place of the code.
Control ==
  \A w \in Workers :
    /\ pc[w] \in Holding => client[w] \in Clients
    /\ pc[w] \in EmptyHanded => client[w] = None
    /\ pc[w] # "idle" => queue[w] \in Queues /\ host[w] \in Hosts

\* A connection with two owners, in a queue while it is owned, or in two places is what
\* ExclusiveUse forbids, said without counting.
OneOwner ==
  \A v, w \in Workers :
    client[v] # None /\ client[v] = client[w] /\ pc[v] # "remove" /\ pc[w] # "remove" => v = w
OwnedIsNotIdle ==
  \A w \in Workers, q \in Queues : \A i \in DOMAIN idle[q] :
    idle[q][i] = client[w] => pc[w] = "remove"
OnePlace ==
  \A q, r \in Queues : \A i \in DOMAIN idle[q], j \in DOMAIN idle[r] :
    idle[q][i] = idle[r][j] => q = r /\ i = j

\* A queue object serves one host, also for those that only a worker still refers to.
OneHost ==
  /\ \A g, h \in Hosts : queueOf[g] # None /\ queueOf[g] = queueOf[h] => g = h
  /\ \A w \in Workers, h \in Hosts : queueOf[h] # None /\ queue[w] = queueOf[h] => host[w] = h

\* Whoever will take an entry out of the list of a queue object that the pool knows:
\* a worker at the same host, which will find this object again or has found it.
TakesOut(w, c, h) ==
  client[w] = c /\ host[w] = h /\ (pc[w] = "remove" => queue[w] = queueOf[h])
EntriesAreHeld ==
  \A h \in Hosts : queueOf[h] # None =>
    \A c \in inUse[queueOf[h]] : c \in failed \cup raced \/ \E w \in Workers : TakesOut(w, c, h)

\* While nothing has raced, one decrement at a time, of a counter that nobody changes.
Attempting == {w \in Workers : pc[w] \in Connecting}
Counted ==
  /\ IsFiniteSet(Attempting)
  /\ races = 0 =>
       /\ attempts = Cardinality(Attempting)
       /\ \A w \in Workers : pc[w] = "decWrite" =>
            read[w] = attempts /\ \A v \in Workers : pc[v] = "decWrite" => v = w

Inv == TypeOK /\ Control /\ OneOwner /\ OwnedIsNotIdle /\ OnePlace /\ OneHost /\ EntriesAreHeld /\ Counted

-----------------------------------------------------------------------------
(* The queues                                                              *)

\* What is left of a queue when its first connection is taken.
LEMMA TailOfSeq ==
  ASSUME NEW S, NEW s \in Seq(S), s # <<>>
  PROVE  /\ Head(s) = s[1] /\ 1 \in DOMAIN s /\ Head(s) \in S
         /\ Tail(s) \in Seq(S)
         /\ \A i \in DOMAIN Tail(s) : i \in Nat /\ i + 1 \in DOMAIN s /\ Tail(s)[i] = s[i + 1]
<1>1. Len(s) \in Nat \ {0} /\ DOMAIN s = 1..Len(s)
  BY LenProperties, EmptySeq
<1>2. /\ Head(s) \in S /\ Tail(s) \in Seq(S) /\ Len(Tail(s)) = Len(s) - 1
      /\ \A i \in 1..Len(Tail(s)) : Tail(s)[i] = s[i + 1]
  BY HeadTailProperties
<1>3. DOMAIN Tail(s) = 1..Len(Tail(s))
  BY <1>2, LenProperties
<1>4. Head(s) = s[1]
  OBVIOUS
<1> QED BY <1>1, <1>2, <1>3, <1>4

\* What a queue has more when a connection is returned.
LEMMA AppendToSeq ==
  ASSUME NEW S, NEW s \in Seq(S), NEW c \in S
  PROVE  /\ Append(s, c) \in Seq(S)
         /\ \A i \in DOMAIN Append(s, c) :
              Append(s, c)[i] = IF i = Len(s) + 1 THEN c ELSE s[i]
         /\ \A i \in DOMAIN Append(s, c) : i \in DOMAIN s \/ i = Len(s) + 1
<1>1. Len(s) \in Nat /\ DOMAIN s = 1..Len(s)
  BY LenProperties
<1>2. /\ Append(s, c) \in Seq(S) /\ Len(Append(s, c)) = Len(s) + 1
      /\ \A i \in 1..Len(s) : Append(s, c)[i] = s[i]
      /\ Append(s, c)[Len(s) + 1] = c
  BY AppendProperties
<1>3. DOMAIN Append(s, c) = 1..(Len(s) + 1)
  BY <1>1, <1>2, LenProperties
<1> QED BY <1>1, <1>2, <1>3

\* A connection in no queue and in no list, of which no worker has a reference.
LEMMA FreshIsNew ==
  ASSUME NEW c \in FreshClients
  PROVE  /\ c \in Clients
         /\ \A q \in Queues : c \notin inUse[q] /\ \A i \in DOMAIN idle[q] : idle[q][i] # c
         /\ \A w \in Workers : client[w] # c
  BY DEF FreshClients, ToSet

\* The queue object that a worker gets, and what becomes of the map.
LEMMA FoundQueue ==
  ASSUME TypeOK, NEW w \in Workers, NEW h \in Hosts, FindQueue(w, h)
  PROVE  \E q \in Queues :
           /\ queue' = [queue EXCEPT ![w] = q]
           /\ queueOf' = [queueOf EXCEPT ![h] = q]
           /\ \/ queueOf[h] = q
              \/ queueOf[h] = None /\ q \in FreshQueues
<1>1. CASE queueOf[h] # None
  <2>1. queueOf[h] \in Queues /\ queueOf' = [queueOf EXCEPT ![h] = queueOf[h]]
    BY <1>1 DEF TypeOK, FindQueue
  <2> QED BY <1>1, <2>1 DEF FindQueue
<1>2. CASE queueOf[h] = None
  BY <1>2 DEF FindQueue, FreshQueues
<1> QED BY <1>1, <1>2

-----------------------------------------------------------------------------
(* Types                                                                   *)

\* No connection and no queue object exists at first.
LEMMA InitInv == Init => Inv
<1> SUFFICES ASSUME Init PROVE Inv
  OBVIOUS
<1>1. TypeOK /\ Control
  BY PoolAssumption DEF Init, TypeOK, Control, Holding, EmptyHanded, Pc
<1>2. OneOwner /\ OwnedIsNotIdle /\ OnePlace /\ OneHost /\ EntriesAreHeld
  BY DEF Init, OneOwner, OwnedIsNotIdle, OnePlace, OneHost, EntriesAreHeld
<1>3. Counted
  <2>1. Attempting = {}
    BY DEF Init, Attempting, Connecting
  <2> QED BY <2>1, FS_EmptySet DEF Init, Counted
<1> QED BY <1>1, <1>2, <1>3 DEF Inv

\* Races are counted up to their bound, and never forgotten.
LEMMA RacesGrow ==
  ASSUME TypeOK, [Next]_vars
  PROVE  races' \in 0..MaxRaces /\ races <= races'
<1>1. races \in 0..MaxRaces /\ MaxRaces \in Nat
  BY PoolAssumption DEF TypeOK
<1>2. ASSUME NEW w \in Workers, Connect(w) \/ AddTaken(w) \/ AddCreated(w) \/ RemoveReturned(w)
      PROVE  races' = races \/ (races' = races + 1 /\ races < MaxRaces)
  BY <1>2 DEF Connect, AddTaken, AddCreated, RemoveReturned, SetInUse, CountRace, Race
<1>3. races' = races \/ (races' = races + 1 /\ races < MaxRaces)
  BY <1>2 DEF vars, workerVars, Next, PoolStep, Begin, TakeIdle, NothingIdle, Refuse, StartAttempt,
     ConnectThrows, DecrementRead, DecrementWrite, SessionEnds, SessionThrows, Return,
     ConnectionDies, InUseCleaner, CleanerLooks, CleanerRemoves, SetInUse, CountRace, Race
<1> QED BY <1>1, <1>3

\* A change of the list of connections in use keeps its type, whether or not it is lost.
LEMMA SetInUseType ==
  ASSUME TypeOK, NEW w \in Workers, NEW S \in SUBSET Clients, SetInUse(w, S),
         client[w] \in Clients
  PROVE  inUse' \in [Queues -> SUBSET Clients] /\ raced' \in SUBSET Clients
  BY DEF TypeOK, SetInUse

\* Every step keeps the types.
LEMMA TypeStep ==
  ASSUME Inv, [Next]_vars
  PROVE  TypeOK'
<1> USE PoolAssumption DEF Inv, Goto, Hold, Pc, Connecting
<1>0. TypeOK /\ Control /\ races' \in 0..MaxRaces
  BY RacesGrow
<1> USE DEF Control, Holding, EmptyHanded
<1>1. ASSUME NEW w \in Workers, NEW h \in Hosts, Begin(w, h) PROVE TypeOK'
  <2>1. PICK q \in Queues : queue' = [queue EXCEPT ![w] = q] /\ queueOf' = [queueOf EXCEPT ![h] = q]
    BY <1>0, <1>1, FoundQueue DEF Begin
  <2> QED BY <1>0, <1>1, <2>1 DEF TypeOK, Begin
<1>2. ASSUME NEW w \in Workers, TakeIdle(w) PROVE TypeOK'
  <2>1. queue[w] \in Queues /\ idle[queue[w]] \in Seq(Clients)
    BY <1>0, <1>2 DEF TypeOK, TakeIdle
  <2>2. Head(idle[queue[w]]) \in Clients /\ Tail(idle[queue[w]]) \in Seq(Clients)
    BY <1>2, <2>1, TailOfSeq DEF TakeIdle
  <2>3. idle' \in [Queues -> Seq(Clients)]
    <3>1. idle' = [idle EXCEPT ![queue[w]] = Tail(idle[queue[w]])]
      BY <1>2 DEF TakeIdle
    <3> QED BY <1>0, <2>1, <2>2, <3>1 DEF TypeOK
  <2>4. client' \in [Workers -> Clients \cup {None}]
    <3> DEFINE c == Head(idle[queue[w]])
    <3>1. client' = [client EXCEPT ![w] = c] \/ client' = client
      BY <1>2 DEF TakeIdle
    <3>2. c \in Clients
      BY <2>2
    <3> HIDE DEF c
    <3> QED BY <1>0, <3>1, <3>2 DEF TypeOK
  <2>5. pc' \in [Workers -> Pc]
    BY <1>0, <1>2 DEF TypeOK, TakeIdle
  <2> QED BY <1>0, <1>2, <2>3, <2>5, <2>4 DEF TypeOK, TakeIdle
<1>3. ASSUME NEW w \in Workers, AddTaken(w) \/ AddCreated(w) PROVE TypeOK'
  <2>1. client[w] \in Clients /\ inUse[queue[w]] \cup {client[w]} \in SUBSET Clients
    BY <1>0, <1>3 DEF TypeOK, AddTaken, AddCreated
  <2>2. inUse' \in [Queues -> SUBSET Clients] /\ raced' \in SUBSET Clients
    BY <1>0, <1>3, <2>1, SetInUseType DEF AddTaken, AddCreated
  <2> QED BY <1>0, <1>3, <2>2 DEF TypeOK, AddTaken, AddCreated
<1>4. ASSUME NEW w \in Workers, NothingIdle(w) \/ Refuse(w) \/ StartAttempt(w) \/ ConnectThrows(w)
      PROVE  TypeOK'
  <2>1. CASE NothingIdle(w) \/ ConnectThrows(w)
    BY <1>0, <2>1 DEF TypeOK, NothingIdle, ConnectThrows
  <2>2. CASE Refuse(w)
    BY <1>0, <2>2 DEF TypeOK, Refuse
  <2>3. CASE StartAttempt(w)
    BY <1>0, <2>3 DEF TypeOK, StartAttempt
  <2> QED BY <1>4, <2>1, <2>2, <2>3
<1>5. ASSUME NEW w \in Workers, Connect(w) PROVE TypeOK'
  BY <1>0, <1>5, FreshIsNew DEF TypeOK, Connect
<1>6. ASSUME NEW w \in Workers, DecrementRead(w) \/ DecrementWrite(w) PROVE TypeOK'
  <2>1. CASE DecrementRead(w)
    BY <1>0, <2>1 DEF TypeOK, DecrementRead
  <2>2. CASE DecrementWrite(w)
    <3>1. pc' \in [Workers -> Pc] /\ host' \in [Workers -> Hosts \cup {None}]
          /\ queue' \in [Workers -> Queues \cup {None}]
      BY <1>0, <2>2 DEF TypeOK, DecrementWrite
    <3> QED BY <1>0, <2>2, <3>1 DEF TypeOK, DecrementWrite
  <2> QED BY <1>6, <2>1, <2>2
<1>7. ASSUME NEW w \in Workers, SessionEnds(w) \/ SessionThrows(w) PROVE TypeOK'
  BY <1>0, <1>7 DEF TypeOK, SessionEnds, SessionThrows
<1>8. ASSUME NEW w \in Workers, Return(w) PROVE TypeOK'
  <2>1. PICK q \in Queues : queue' = [queue EXCEPT ![w] = q] /\ queueOf' = [queueOf EXCEPT ![host[w]] = q]
    BY <1>0, <1>8, FoundQueue DEF Return
  <2>2. queue'[w] = q /\ Append(idle[q], client[w]) \in Seq(Clients)
    BY <1>0, <1>8, <2>1, AppendToSeq DEF TypeOK, Return
  <2>3. idle' = [idle EXCEPT ![q] = Append(idle[q], client[w])]
    BY <1>8, <2>2 DEF Return
  <2> QED BY <1>0, <1>8, <2>1, <2>2, <2>3 DEF TypeOK, Return
<1>9. ASSUME NEW w \in Workers, RemoveReturned(w) PROVE TypeOK'
  <2>1. client[w] \in Clients /\ inUse[queue[w]] \ {client[w]} \in SUBSET Clients
    BY <1>0, <1>9 DEF TypeOK, RemoveReturned
  <2>2. inUse' \in [Queues -> SUBSET Clients] /\ raced' \in SUBSET Clients
    BY <1>0, <1>9, <2>1, SetInUseType DEF RemoveReturned
  <2> QED BY <1>0, <1>9, <2>2 DEF TypeOK, RemoveReturned
<1>10. ASSUME NEW c \in Clients, ConnectionDies(c) PROVE TypeOK'
  BY <1>0, <1>10 DEF TypeOK, ConnectionDies, workerVars
<1>11. ASSUME NEW q \in Queues, InUseCleaner(q) PROVE TypeOK'
  BY <1>0, <1>11 DEF TypeOK, InUseCleaner, workerVars
<1>12. ASSUME NEW h \in Hosts, CleanerLooks(h) PROVE TypeOK'
  BY <1>0, <1>12 DEF TypeOK, CleanerLooks, workerVars
<1>13. CASE CleanerRemoves
  BY <1>0, <1>13 DEF TypeOK, CleanerRemoves, workerVars
<1>14. CASE UNCHANGED vars
  BY <1>0, <1>14 DEF TypeOK, vars, workerVars
<1> QED
  BY <1>1, <1>2, <1>3, <1>4, <1>5, <1>6, <1>7, <1>8, <1>9, <1>10, <1>11, <1>12, <1>13, <1>14
  DEF Next, PoolStep

-----------------------------------------------------------------------------
(* What a worker has in hand                                               *)

\* Every step leaves a worker with what its next step needs.
LEMMA ControlStep ==
  ASSUME Inv, [Next]_vars
  PROVE  Control'
<1> USE PoolAssumption DEF Goto, Hold, Holding, EmptyHanded
<1>0. TypeOK /\ Control
  BY DEF Inv
<1>1. ASSUME NEW w \in Workers, NEW h \in Hosts, Begin(w, h) PROVE Control'
  <2>1. PICK q \in Queues : queue' = [queue EXCEPT ![w] = q]
    BY <1>0, <1>1, FoundQueue DEF Begin
  <2> QED BY <1>0, <1>1, <2>1 DEF TypeOK, Control, Begin
<1>2. ASSUME NEW w \in Workers, TakeIdle(w) PROVE Control'
  <2> DEFINE c == Head(idle[queue[w]])
  <2>1. c \in Clients
    BY <1>0, <1>2, TailOfSeq DEF TypeOK, Control, TakeIdle
  <2>2. \/ client' = [client EXCEPT ![w] = c] /\ pc' = [pc EXCEPT ![w] = "take"]
        \/ UNCHANGED <<client, pc>>
    BY <1>2 DEF TakeIdle
  <2>3. pc[w] = "look" /\ UNCHANGED <<queue, host>>
    BY <1>2 DEF TakeIdle
  <2> HIDE DEF c
  <2> QED BY <1>0, <2>1, <2>2, <2>3 DEF TypeOK, Control
<1>3. ASSUME NEW w \in Workers, AddTaken(w) \/ NothingIdle(w) \/ StartAttempt(w) \/ AddCreated(w)
                                \/ ConnectThrows(w) \/ DecrementRead(w) \/ SessionEnds(w)
      PROVE  Control'
  <2>1. /\ UNCHANGED <<client, queue, host>>
        /\ \E to \in Pc : /\ pc' = [pc EXCEPT ![w] = to] /\ pc[w] # "idle" /\ to # "idle"
                          /\ to \in Holding => pc[w] \in Holding
                          /\ to \in EmptyHanded => pc[w] \in EmptyHanded
    BY <1>3 DEF Pc, Connecting, AddTaken, NothingIdle, StartAttempt, AddCreated, ConnectThrows, DecrementRead,
       SessionEnds
  <2> QED BY <1>0, <2>1 DEF TypeOK, Control
<1>4. ASSUME NEW w \in Workers, Connect(w) PROVE Control'
  <2>1. PICK c \in FreshClients : client' = [client EXCEPT ![w] = c]
    BY <1>4 DEF Connect
  <2>2. c \in Clients
    BY FreshIsNew
  <2> QED BY <1>0, <1>4, <2>1, <2>2 DEF TypeOK, Control, Connect
<1>5. ASSUME NEW w \in Workers, DecrementWrite(w) PROVE Control'
  <2>1. UNCHANGED client /\ pc[w] = "decWrite"
    BY <1>5 DEF DecrementWrite
  <2>2. CASE client[w] # None
    BY <1>0, <1>5, <2>1, <2>2 DEF TypeOK, Control, DecrementWrite
  <2>3. CASE client[w] = None
    BY <1>0, <1>5, <2>1, <2>3 DEF TypeOK, Control, DecrementWrite
  <2> QED BY <2>2, <2>3
<1>6. ASSUME NEW w \in Workers, Refuse(w) \/ SessionThrows(w) \/ RemoveReturned(w) PROVE Control'
  <2>1. /\ client' = [client EXCEPT ![w] = None] \/ (client[w] = None /\ client' = client)
        /\ queue' = [queue EXCEPT ![w] = None] /\ host' = [host EXCEPT ![w] = None]
        /\ pc' = [pc EXCEPT ![w] = "idle"]
    BY <1>0, <1>6 DEF Control, Refuse, SessionThrows, RemoveReturned
  <2> QED BY <1>0, <2>1 DEF TypeOK, Control
<1>7. ASSUME NEW w \in Workers, Return(w) PROVE Control'
  <2>1. PICK q \in Queues : queue' = [queue EXCEPT ![w] = q]
    BY <1>0, <1>7, FoundQueue DEF Control, Return
  <2> QED BY <1>0, <1>7, <2>1 DEF TypeOK, Control, Return
<1>8. CASE UNCHANGED workerVars
  BY <1>0, <1>8 DEF Control, workerVars
<1> QED
  BY <1>1, <1>2, <1>3, <1>4, <1>5, <1>6, <1>7, <1>8
  DEF Next, PoolStep, ConnectionDies, InUseCleaner, CleanerLooks, CleanerRemoves, vars, workerVars

-----------------------------------------------------------------------------
(* One user of a connection                                                *)

Exclusive == OneOwner /\ OwnedIsNotIdle /\ OnePlace

\* No connection changes hands.
LEMMA QuietExclusive ==
  ASSUME Inv, UNCHANGED <<client, idle>>,
         \A w \in Workers : (pc'[w] = "remove") <=> (pc[w] = "remove")
  PROVE  Exclusive'
  BY DEF Inv, Exclusive, OneOwner, OwnedIsNotIdle, OnePlace

\* A worker lets go of its connection: that connection is nobody's.
LEMMA LetGoExclusive ==
  ASSUME Inv, NEW w \in Workers, UNCHANGED idle, client' = [client EXCEPT ![w] = None],
         \A v \in Workers \ {w} : pc'[v] = pc[v]
  PROVE  Exclusive'
<1>1. \A q \in Queues : \A i \in DOMAIN idle[q] : idle[q][i] # None
  <2> SUFFICES ASSUME NEW q \in Queues, NEW i \in DOMAIN idle[q] PROVE idle[q][i] # None
    OBVIOUS
  <2>1. idle[q] \in Seq(Clients)
    BY DEF Inv, TypeOK
  <2>2. idle[q][i] \in Clients
    BY <2>1, LenProperties, ElementOfSeq
  <2> QED BY <2>2, PoolAssumption
<1>2. client'[w] = None /\ \A v \in Workers \ {w} : client'[v] = client[v]
  BY DEF Inv, TypeOK
<1>3. OneOwner'
  BY <1>2 DEF Inv, OneOwner
<1>4. OwnedIsNotIdle'
  BY <1>1, <1>2 DEF Inv, OwnedIsNotIdle
<1> QED BY <1>3, <1>4 DEF Inv, Exclusive, OnePlace

\* A new connection is in no queue and in nobody's hands.
LEMMA ConnectExclusive ==
  ASSUME Inv, NEW w \in Workers, Connect(w)
  PROVE  Exclusive'
<1>1. PICK c \in FreshClients : client' = [client EXCEPT ![w] = c]
  BY DEF Connect, Hold
<1>2. client'[w] = c /\ \A v \in Workers \ {w} : client'[v] = client[v] /\ client[v] # c
  BY <1>1, FreshIsNew DEF Inv, TypeOK
<1>3. UNCHANGED idle /\ \A v \in Workers : (pc'[v] = "remove") <=> (pc[v] = "remove")
  BY DEF Inv, TypeOK, Connect, Goto
<1>4. OneOwner'
  BY <1>2, <1>3 DEF Inv, OneOwner
<1>5. OwnedIsNotIdle'
  BY <1>2, <1>3, FreshIsNew DEF Inv, OwnedIsNotIdle
<1> QED BY <1>3, <1>4, <1>5 DEF Inv, Exclusive, OnePlace

\* The first connection of a queue leaves it, with the worker or for good.
LEMMA TakeIdleExclusive ==
  ASSUME Inv, NEW w \in Workers, TakeIdle(w)
  PROVE  Exclusive'
<1> DEFINE q == queue[w]
           c == Head(idle[q])
<1>1. /\ q \in Queues /\ idle[q] \in Seq(Clients) /\ idle[q] # <<>>
      /\ c = idle[q][1] /\ 1 \in DOMAIN idle[q] /\ c \in Clients
      /\ \A i \in DOMAIN Tail(idle[q]) :
           i \in Nat /\ i + 1 \in DOMAIN idle[q] /\ Tail(idle[q])[i] = idle[q][i + 1]
  <2>1. q \in Queues /\ idle[q] \in Seq(Clients) /\ idle[q] # <<>>
    BY DEF Inv, TypeOK, Control, TakeIdle
  <2> QED BY <2>1, TailOfSeq
<1>2. idle' = [idle EXCEPT ![q] = Tail(idle[q])]
  BY DEF TakeIdle
<1>3. \A r \in Queues : IF r = q THEN idle'[r] = Tail(idle[q]) ELSE idle'[r] = idle[r]
  BY <1>1, <1>2 DEF Inv, TypeOK
\* What is left was there before, and c is not among it.
<1>4. \A r \in Queues : \A i \in DOMAIN idle'[r] : idle'[r][i] # c
  <2> SUFFICES ASSUME NEW r \in Queues, NEW i \in DOMAIN idle'[r], idle'[r][i] = c PROVE FALSE
    OBVIOUS
  <2>1. CASE r = q
    <3>1. i + 1 \in DOMAIN idle[q] /\ i \in Nat /\ idle[q][i + 1] = idle[q][1]
      BY <1>1, <1>3, <2>1
    <3>2. i + 1 = 1
      BY <1>1, <3>1 DEF Inv, OnePlace
    <3>3. i # 0
      <4>1. Tail(idle[q]) \in Seq(Clients) /\ i \in DOMAIN Tail(idle[q])
        BY <1>1, <1>3, <2>1, TailOfSeq
      <4> QED BY <4>1, LenProperties
    <3> QED BY <3>1, <3>2, <3>3
  <2>2. CASE r # q
    BY <1>1, <1>3, <2>2 DEF Inv, OnePlace
  <2> QED BY <2>1, <2>2
<1>5. OnePlace'
  <2> SUFFICES ASSUME NEW r \in Queues, NEW s \in Queues, NEW i \in DOMAIN idle'[r], NEW j \in DOMAIN idle'[s],
                      idle'[r][i] = idle'[s][j]
               PROVE  r = s /\ i = j
    BY DEF OnePlace
  <2> DEFINE was(x, k) == IF x = q THEN k + 1 ELSE k
  <2>0. ASSUME NEW x \in Queues, NEW k \in DOMAIN idle'[x]
        PROVE  was(x, k) \in DOMAIN idle[x] /\ idle[x][was(x, k)] = idle'[x][k]
    <3>1. CASE x = q
      <4>1. idle'[x] = Tail(idle[q]) /\ k \in DOMAIN Tail(idle[q]) /\ was(x, k) = k + 1
        BY <1>3, <3>1
      <4> QED BY <1>1, <3>1, <4>1
    <3>2. CASE x # q
      BY <1>3, <3>2
    <3> QED BY <3>1, <3>2
  <2>1. was(r, i) \in DOMAIN idle[r] /\ idle[r][was(r, i)] = idle'[r][i]
    BY <2>0
  <2>2. was(s, j) \in DOMAIN idle[s] /\ idle[s][was(s, j)] = idle'[s][j]
    BY <2>0
  <2>3. r = s /\ was(r, i) = was(s, j)
    <3> HIDE DEF was
    <3> QED BY <2>1, <2>2 DEF Inv, OnePlace
  <2>4. ASSUME r = q PROVE i \in Nat /\ j \in Nat
    <3>1. i \in DOMAIN Tail(idle[q]) /\ j \in DOMAIN Tail(idle[q])
      BY <1>3, <2>3, <2>4
    <3> QED BY <1>1, <3>1
  <2> QED BY <2>3, <2>4
<1>6. \A r \in Queues : \A i \in DOMAIN idle'[r], v \in Workers :
        idle'[r][i] = client[v] => pc[v] = "remove"
  <2> SUFFICES ASSUME NEW r \in Queues, NEW i \in DOMAIN idle'[r], NEW v \in Workers, idle'[r][i] = client[v]
               PROVE  pc[v] = "remove"
    OBVIOUS
  <2>1. \E k \in DOMAIN idle[r] : idle[r][k] = client[v]
    <3>1. CASE r = q
      <4>1. i \in DOMAIN Tail(idle[q]) /\ Tail(idle[q])[i] = client[v]
        BY <1>3, <3>1
      <4>2. i + 1 \in DOMAIN idle[q] /\ idle[q][i + 1] = client[v]
        BY <1>1, <4>1
      <4> QED BY <3>1, <4>2
    <3>2. CASE r # q
      BY <1>3, <3>2
    <3> QED BY <3>1, <3>2
  <2> QED BY <2>1 DEF Inv, OwnedIsNotIdle
<1>7. \A v \in Workers : client[v] = c => pc[v] = "remove"
  BY <1>1 DEF Inv, OwnedIsNotIdle
<1>8. \/ client' = [client EXCEPT ![w] = c] /\ pc' = [pc EXCEPT ![w] = "take"]
      \/ UNCHANGED <<client, pc>>
  BY DEF TakeIdle, Hold, Goto
<1> HIDE DEF c, q
<1>9. OneOwner'
  <2>1. CASE client' = [client EXCEPT ![w] = c] /\ pc' = [pc EXCEPT ![w] = "take"]
    <3>1. \A v \in Workers : IF v = w THEN client'[v] = c ELSE client'[v] = client[v] /\ pc'[v] = pc[v]
      BY <2>1 DEF Inv, TypeOK
    <3> QED BY <1>7, <3>1 DEF Inv, OneOwner
  <2>2. CASE UNCHANGED <<client, pc>>
    BY <2>2 DEF Inv, OneOwner
  <2> QED BY <1>8, <2>1, <2>2
<1>10. OwnedIsNotIdle'
  BY <1>4, <1>6, <1>8 DEF Inv, TypeOK, OwnedIsNotIdle
<1> QED BY <1>5, <1>9, <1>10 DEF Exclusive

\* The connection of the worker, which is in no queue, gets its one place.
LEMMA ReturnExclusive ==
  ASSUME Inv, NEW w \in Workers, Return(w)
  PROVE  Exclusive'
<1> DEFINE c == client[w]
<1>1. pc[w] = "return" /\ c \in Clients /\ c # None /\ host[w] \in Hosts
  BY PoolAssumption DEF Inv, Control, Holding, Return
<1>2. PICK q \in Queues : queue' = [queue EXCEPT ![w] = q]
  BY <1>1, FoundQueue DEF Inv, Return
<1>3. idle' = [idle EXCEPT ![q] = Append(idle[q], c)]
  BY <1>2 DEF Inv, TypeOK, Return
<1>4. UNCHANGED client /\ pc' = [pc EXCEPT ![w] = "remove"]
  BY DEF Return, Goto
<1>5. \A r \in Queues : \A i \in DOMAIN idle[r] : idle[r][i] # c
  BY <1>1 DEF Inv, OwnedIsNotIdle
<1>6. idle[q] \in Seq(Clients)
  BY DEF Inv, TypeOK
\* A place is an old one, or the new one.
<1>7. \A r \in Queues : \A i \in DOMAIN idle'[r] :
        \/ i \in DOMAIN idle[r] /\ idle'[r][i] = idle[r][i]
        \/ r = q /\ i = Len(idle[q]) + 1 /\ idle'[r][i] = c
  <2> SUFFICES ASSUME NEW r \in Queues, NEW i \in DOMAIN idle'[r]
               PROVE  \/ i \in DOMAIN idle[r] /\ idle'[r][i] = idle[r][i]
                      \/ r = q /\ i = Len(idle[q]) + 1 /\ idle'[r][i] = c
    OBVIOUS
  <2>1. CASE r = q
    <3>1. idle'[r] = Append(idle[q], c)
      BY <1>3, <2>1 DEF Inv, TypeOK
    <3>2. Len(idle[q]) + 1 \notin DOMAIN idle[q]
      BY <1>6, LenProperties
    <3> QED BY <1>1, <1>6, <2>1, <3>1, <3>2, AppendToSeq
  <2>2. CASE r # q
    BY <1>3, <2>2 DEF Inv, TypeOK
  <2> QED BY <2>1, <2>2
<1> HIDE DEF c
<1>8. OneOwner'
  BY <1>4 DEF Inv, TypeOK, OneOwner
<1>9. OwnedIsNotIdle'
  <2> SUFFICES ASSUME NEW v \in Workers, NEW r \in Queues, NEW i \in DOMAIN idle'[r], idle'[r][i] = client[v]
               PROVE  pc'[v] = "remove"
    BY <1>4 DEF OwnedIsNotIdle
  <2>1. CASE idle'[r][i] = c
    <3>1. v # w /\ pc[v] # "remove" => FALSE
      BY <1>1, <2>1 DEF c, Inv, OneOwner
    <3> QED BY <1>4, <3>1 DEF Inv, TypeOK
  <2>2. CASE i \in DOMAIN idle[r] /\ idle'[r][i] = idle[r][i]
    BY <1>4, <2>2 DEF Inv, TypeOK, OwnedIsNotIdle
  <2> QED BY <1>7, <2>1, <2>2
<1>10. OnePlace'
  BY <1>5, <1>7 DEF Inv, OnePlace
<1> QED BY <1>8, <1>9, <1>10 DEF Exclusive

\* No step gives a connection to a second user.
LEMMA ExclusiveStep ==
  ASSUME Inv, [Next]_vars
  PROVE  Exclusive'
<1> USE DEF Goto, Hold
<1>1. ASSUME NEW w \in Workers,
             \/ \E h \in Hosts : Begin(w, h)
             \/ AddTaken(w) \/ NothingIdle(w) \/ Refuse(w) \/ StartAttempt(w) \/ AddCreated(w)
             \/ ConnectThrows(w) \/ DecrementRead(w) \/ DecrementWrite(w) \/ SessionEnds(w)
      PROVE  Exclusive'
  <2>1. /\ UNCHANGED <<client, idle>>
        /\ \E to \in Pc : pc' = [pc EXCEPT ![w] = to] /\ pc[w] # "remove" /\ to # "remove"
    BY <1>1 DEF Pc, Connecting, Begin, AddTaken, NothingIdle, Refuse, StartAttempt, AddCreated, ConnectThrows,
       DecrementRead, DecrementWrite, SessionEnds
  <2>2. \A v \in Workers : (pc'[v] = "remove") <=> (pc[v] = "remove")
    BY <2>1 DEF Inv, TypeOK
  <2> QED BY <2>1, <2>2, QuietExclusive
<1>2. ASSUME NEW w \in Workers, SessionThrows(w) \/ RemoveReturned(w) PROVE Exclusive'
  <2>1. /\ UNCHANGED idle /\ client' = [client EXCEPT ![w] = None]
        /\ \A v \in Workers \ {w} : pc'[v] = pc[v]
    BY <1>2 DEF Inv, TypeOK, SessionThrows, RemoveReturned
  <2> QED BY <2>1, LetGoExclusive
<1>3. CASE UNCHANGED <<client, idle, pc>>
  BY <1>3, QuietExclusive
<1> QED
  BY <1>1, <1>2, <1>3, ConnectExclusive, TakeIdleExclusive, ReturnExclusive
  DEF Next, PoolStep, ConnectionDies, InUseCleaner, CleanerLooks, CleanerRemoves, vars, workerVars

-----------------------------------------------------------------------------
(* One host of a queue object                                              *)

\* A queue object that is found or made is that of its host only.
LEMMA FindQueueOneHost ==
  ASSUME Inv, NEW w \in Workers, NEW h \in Hosts, FindQueue(w, h), host' = [host EXCEPT ![w] = h]
  PROVE  OneHost'
<1>1. PICK q \in Queues :
        /\ queue' = [queue EXCEPT ![w] = q] /\ queueOf' = [queueOf EXCEPT ![h] = q]
        /\ queueOf[h] = q \/ (queueOf[h] = None /\ q \in FreshQueues)
  BY FoundQueue DEF Inv
<1>2. /\ queue'[w] = q /\ host'[w] = h /\ queueOf'[h] = q
      /\ \A v \in Workers \ {w} : queue'[v] = queue[v] /\ host'[v] = host[v]
      /\ \A g \in Hosts \ {h} : queueOf'[g] = queueOf[g]
  BY <1>1 DEF Inv, TypeOK
<1>3. /\ \A g \in Hosts : queueOf[g] = q => g = h
      /\ \A v \in Workers : queue[v] = q => host[v] = h
      /\ q # None
  BY <1>1, PoolAssumption DEF Inv, OneHost, FreshQueues
<1> QED BY <1>2, <1>3 DEF Inv, OneHost

\* No step gives a queue object to a second host.
LEMMA OneHostStep ==
  ASSUME Inv, [Next]_vars
  PROVE  OneHost'
<1>1. ASSUME NEW w \in Workers, NEW h \in Hosts, Begin(w, h) PROVE OneHost'
  BY <1>1, FindQueueOneHost DEF Begin
<1>2. ASSUME NEW w \in Workers, Return(w) PROVE OneHost'
  <2>1. host[w] \in Hosts /\ host' = [host EXCEPT ![w] = host[w]]
    BY <1>2 DEF Inv, TypeOK, Control, Return
  <2> QED BY <1>2, <2>1, FindQueueOneHost DEF Return
<1>3. ASSUME NEW w \in Workers, UNCHANGED queueOf, queue' = [queue EXCEPT ![w] = None],
             host' = [host EXCEPT ![w] = None]
      PROVE  OneHost'
  BY <1>3 DEF Inv, TypeOK, OneHost
<1>4. CASE CleanerRemoves
  BY <1>4 DEF Inv, TypeOK, OneHost, CleanerRemoves, workerVars
<1>5. CASE UNCHANGED <<queueOf, queue, host>>
  BY <1>5 DEF Inv, OneHost
<1>6. ASSUME NEW w \in Workers,
             \/ TakeIdle(w) \/ AddTaken(w) \/ NothingIdle(w) \/ StartAttempt(w) \/ Connect(w)
             \/ AddCreated(w) \/ ConnectThrows(w) \/ DecrementRead(w) \/ SessionEnds(w)
      PROVE  OneHost'
  BY <1>5, <1>6 DEF TakeIdle, AddTaken, NothingIdle, StartAttempt, Connect, AddCreated, ConnectThrows,
     DecrementRead, SessionEnds
<1>7. ASSUME NEW w \in Workers, Refuse(w) \/ SessionThrows(w) \/ RemoveReturned(w) \/ DecrementWrite(w)
      PROVE  OneHost'
  BY <1>3, <1>5, <1>7 DEF Refuse, SessionThrows, RemoveReturned, DecrementWrite
<1> QED
  BY <1>1, <1>2, <1>4, <1>5, <1>6, <1>7
  DEF Next, PoolStep, ConnectionDies, InUseCleaner, CleanerLooks, vars, workerVars

-----------------------------------------------------------------------------
(* What is left in InUseConnections                                        *)

Excused(c) == c \in failed \cup raced
Held(c, h) == Excused(c) \/ \E w \in Workers : TakesOut(w, c, h)

\* An entry that was there, of a host whose queue object is the same, and of a connection
\* that no worker lets go of.
LEMMA StillHeld ==
  ASSUME Inv, NEW h \in Hosts, queueOf[h] # None, queueOf'[h] = queueOf[h],
         NEW c \in inUse[queueOf[h]],
         Excused(c) => Excused(c)',
         \A v \in Workers : TakesOut(v, c, h) => TakesOut(v, c, h)'
  PROVE  Held(c, h)'
<1>1. Held(c, h)
  BY DEF Inv, EntriesAreHeld, Held, Excused
<1> QED BY <1>1 DEF Held

\* No worker has a connection and loses it, or changes its host, or returns it.
LEMMA QuietHeld ==
  ASSUME Inv, NEW h \in Hosts, queueOf[h] # None, queueOf'[h] = queueOf[h],
         NEW c \in inUse[queueOf[h]],
         Excused(c) => Excused(c)',
         \A v \in Workers : \/ client[v] = None
                            \/ /\ client'[v] = client[v] /\ host'[v] = host[v] /\ queue'[v] = queue[v]
                               /\ pc'[v] = "remove" => pc[v] = "remove"
  PROVE  Held(c, h)'
<1>1. c # None
  BY PoolAssumption DEF Inv, TypeOK
<1>2. \A v \in Workers : TakesOut(v, c, h) => TakesOut(v, c, h)'
  BY <1>1 DEF TakesOut
<1> QED BY <1>2, StillHeld

\* A worker puts its connection into the list, or meets a race.
LEMMA AddHeld ==
  ASSUME Inv, NEW w \in Workers, SetInUse(w, inUse[queue[w]] \cup {client[w]}),
         NEW to \in {"session", "decRead"}, pc' = [pc EXCEPT ![w] = to],
         UNCHANGED <<queueOf, host, queue, client, failed>>, pc[w] \in {"take", "add"}
  PROVE  EntriesAreHeld'
<1> SUFFICES ASSUME NEW h \in Hosts, queueOf'[h] # None, NEW c \in inUse'[queueOf'[h]]
             PROVE  Held(c, h)'
  BY DEF EntriesAreHeld, Held, Excused
<1>1. Excused(c) => Excused(c)'
  BY DEF Excused, SetInUse
<1>2. \A v \in Workers : pc'[v] = "remove" => pc[v] = "remove"
  BY DEF Inv, TypeOK
<1>3. CASE c \in inUse[queueOf[h]]
  BY <1>1, <1>2, <1>3, QuietHeld
<1>4. CASE c \notin inUse[queueOf[h]]
  <2>1. queue[w] \in Queues /\ queueOf[h] \in Queues
    BY DEF Inv, TypeOK, Control
  <2>2. queueOf[h] = queue[w] /\ c = client[w]
    <3>1. c \in inUse'[queueOf[h]] /\ inUse \in [Queues -> SUBSET Clients]
      BY DEF Inv, TypeOK
    <3>2. inUse' = [inUse EXCEPT ![queue[w]] = inUse[queue[w]] \cup {client[w]}]
      BY <1>4, <3>1 DEF SetInUse
    <3> QED BY <1>4, <2>1, <3>1, <3>2
  <2>3. host[w] = h /\ pc'[w] # "remove"
    BY <2>2 DEF Inv, TypeOK, OneHost
  <2> QED BY <2>2, <2>3 DEF Held, TakesOut
<1> QED BY <1>3, <1>4

\* The worker takes its entry out of the list of the object that it found for its host.
LEMMA RemoveHeld ==
  ASSUME Inv, NEW w \in Workers, RemoveReturned(w)
  PROVE  EntriesAreHeld'
<1> SUFFICES ASSUME NEW h \in Hosts, queueOf'[h] # None, NEW c \in inUse'[queueOf'[h]]
             PROVE  Held(c, h)'
  BY DEF EntriesAreHeld, Held, Excused
<1>1. queue[w] \in Queues /\ queueOf[h] \in Queues /\ UNCHANGED queueOf /\ pc[w] = "remove"
  BY DEF Inv, TypeOK, Control, RemoveReturned
<1>2. /\ \A v \in Workers \ {w} : /\ client'[v] = client[v] /\ host'[v] = host[v]
                                  /\ queue'[v] = queue[v] /\ pc'[v] = pc[v]
      /\ SetInUse(w, inUse[queue[w]] \ {client[w]})
      /\ UNCHANGED failed
  BY DEF Inv, TypeOK, RemoveReturned, Goto, Hold
<1>3. Excused(c) => Excused(c)'
  BY <1>2 DEF Excused, SetInUse
<1>4. c \in inUse[queueOf[h]]
  BY <1>1, <1>2 DEF SetInUse, Inv, TypeOK
<1>5. CASE Excused(c)
  BY <1>3, <1>5 DEF Held
<1>6. CASE \E v \in Workers \ {w} : TakesOut(v, c, h)
  BY <1>1, <1>2, <1>6 DEF Held, TakesOut
<1>7. CASE TakesOut(w, c, h)
  <2>1. client[w] = c /\ queue[w] = queueOf[h]
    BY <1>1, <1>7 DEF TakesOut
  <2>2. c \in raced'
    BY <1>1, <1>2, <2>1 DEF SetInUse, Inv, TypeOK
  <2> QED BY <2>2 DEF Held, Excused
<1> QED BY <1>1, <1>4, <1>5, <1>6, <1>7 DEF Inv, EntriesAreHeld, Excused
\* Every connection in the lists stays accounted for.
LEMMA HeldStep ==
  ASSUME Inv, [Next]_vars
  PROVE  EntriesAreHeld'
<1> USE DEF Goto, Hold
<1>0. TypeOK /\ Control
  BY DEF Inv
<1>1. ASSUME NEW w \in Workers, NEW h0 \in Hosts, Begin(w, h0) PROVE EntriesAreHeld'
  <2> SUFFICES ASSUME NEW h \in Hosts, queueOf'[h] # None, NEW c \in inUse'[queueOf'[h]]
               PROVE  Held(c, h)'
    BY DEF EntriesAreHeld, Held, Excused
  <2>1. PICK q \in Queues :
          /\ queue' = [queue EXCEPT ![w] = q] /\ queueOf' = [queueOf EXCEPT ![h0] = q]
          /\ queueOf[h0] = q \/ (queueOf[h0] = None /\ q \in FreshQueues)
    BY <1>0, <1>1, FoundQueue DEF Begin
  <2>2. queueOf'[h] = queueOf[h] \/ (queueOf'[h] = q /\ q \in FreshQueues)
    BY <1>0, <2>1 DEF TypeOK
  <2>3. queueOf'[h] = queueOf[h]
    BY <1>1, <2>2 DEF Begin, FreshQueues
  <2>4. \A v \in Workers : \/ client[v] = None
                           \/ /\ client'[v] = client[v] /\ host'[v] = host[v] /\ queue'[v] = queue[v]
                              /\ pc'[v] = "remove" => pc[v] = "remove"
    BY <1>0, <1>1, <2>1 DEF TypeOK, Control, EmptyHanded, Begin
  <2> QED BY <1>1, <2>3, <2>4, QuietHeld DEF Begin, Excused
<1>2. ASSUME NEW w \in Workers, AddTaken(w) \/ AddCreated(w) PROVE EntriesAreHeld'
  BY <1>2, AddHeld DEF AddTaken, AddCreated
<1>3. ASSUME NEW w \in Workers, NEW to \in Pc \ {"remove"}, UNCHANGED <<queueOf, inUse, failed, raced>>,
             client[w] = None \/ (client' = client /\ host' = host /\ queue' = queue),
             \A v \in Workers \ {w} : client'[v] = client[v] /\ host'[v] = host[v] /\ queue'[v] = queue[v],
             pc' = [pc EXCEPT ![w] = to] \/ pc' = pc
      PROVE  EntriesAreHeld'
  <2> SUFFICES ASSUME NEW h \in Hosts, queueOf'[h] # None, NEW c \in inUse'[queueOf'[h]]
               PROVE  Held(c, h)'
    BY DEF EntriesAreHeld, Held, Excused
  <2> QED BY <1>0, <1>3, QuietHeld DEF TypeOK, Excused
<1>4. ASSUME NEW w \in Workers, TakeIdle(w) PROVE EntriesAreHeld'
  <2>1. client[w] = None /\ "take" \in Pc \ {"remove"}
    BY <1>0, <1>4 DEF Control, EmptyHanded, TakeIdle, Pc
  <2>2. /\ pc' = [pc EXCEPT ![w] = "take"] \/ pc' = pc
        /\ \A v \in Workers \ {w} : client'[v] = client[v]
    BY <1>0, <1>4 DEF TakeIdle, TypeOK
  <2> QED BY <1>3, <1>4, <2>1, <2>2 DEF TakeIdle
<1>5. ASSUME NEW w \in Workers, \/ NothingIdle(w) \/ StartAttempt(w) \/ ConnectThrows(w) \/ DecrementRead(w)
                                \/ SessionEnds(w)
      PROVE  EntriesAreHeld'
  <2>1. /\ UNCHANGED <<queueOf, inUse, failed, raced, client, host, queue>>
        /\ \E to \in Pc \ {"remove"} : pc' = [pc EXCEPT ![w] = to]
    BY <1>5 DEF NothingIdle, StartAttempt, ConnectThrows, DecrementRead, SessionEnds, Pc, Connecting
  <2> QED BY <1>3, <2>1
<1>6. ASSUME NEW w \in Workers, Refuse(w) \/ DecrementWrite(w) PROVE EntriesAreHeld'
  <2>1. /\ UNCHANGED <<queueOf, inUse, failed, raced, client>>
        /\ \E to \in Pc \ {"remove"} : pc' = [pc EXCEPT ![w] = to]
    BY <1>6 DEF Refuse, DecrementWrite, Pc
  <2>2. client[w] = None \/ (client' = client /\ host' = host /\ queue' = queue)
    BY <1>0, <1>6 DEF Refuse, DecrementWrite, Control, EmptyHanded
  <2>3. \A v \in Workers \ {w} : host'[v] = host[v] /\ queue'[v] = queue[v]
    BY <1>0, <1>6 DEF Refuse, DecrementWrite, TypeOK
  <2> QED BY <1>3, <2>1, <2>2, <2>3
<1>7. ASSUME NEW w \in Workers, Connect(w) PROVE EntriesAreHeld'
  <2>1. PICK f \in FreshClients : /\ client' = [client EXCEPT ![w] = f]
                                  /\ failed' = failed \ {f} /\ raced' = raced \ {f}
    BY <1>7 DEF Connect
  <2> SUFFICES ASSUME NEW h \in Hosts, queueOf'[h] # None, NEW c \in inUse'[queueOf'[h]]
               PROVE  Held(c, h)'
    BY DEF EntriesAreHeld, Held, Excused
  <2>2. c # f /\ c \in inUse[queueOf[h]] /\ queueOf'[h] = queueOf[h]
    BY <1>0, <1>7, FreshIsNew DEF Connect, TypeOK
  <2>3. \A v \in Workers : \/ client[v] = None
                           \/ /\ client'[v] = client[v] /\ host'[v] = host[v] /\ queue'[v] = queue[v]
                              /\ pc'[v] = "remove" => pc[v] = "remove"
    BY <1>0, <1>7, <2>1 DEF TypeOK, Control, EmptyHanded, Connect
  <2> QED BY <2>1, <2>2, <2>3, QuietHeld DEF Excused
<1>8. ASSUME NEW w \in Workers, SessionThrows(w) PROVE EntriesAreHeld'
  <2> SUFFICES ASSUME NEW h \in Hosts, queueOf'[h] # None, NEW c \in inUse'[queueOf'[h]]
               PROVE  Held(c, h)'
    BY DEF EntriesAreHeld, Held, Excused
  <2>1. Excused(c) => Excused(c)'
    BY <1>8 DEF SessionThrows, Excused
  <2>2. CASE c = client[w]
    BY <1>8, <2>2 DEF SessionThrows, Held, Excused
  <2>3. CASE c # client[w]
    <3>1. \A v \in Workers : TakesOut(v, c, h) => TakesOut(v, c, h)'
      BY <1>0, <1>8, <2>3 DEF SessionThrows, TypeOK, TakesOut
    <3> QED BY <1>8, <2>1, <3>1, StillHeld DEF SessionThrows
  <2> QED BY <2>2, <2>3
<1>9. ASSUME NEW w \in Workers, Return(w) PROVE EntriesAreHeld'
  <2> SUFFICES ASSUME NEW h \in Hosts, queueOf'[h] # None, NEW c \in inUse'[queueOf'[h]]
               PROVE  Held(c, h)'
    BY DEF EntriesAreHeld, Held, Excused
  <2>0. host[w] \in Hosts
    BY <1>0, <1>9 DEF Control, Return
  <2>1. PICK q \in Queues :
          /\ queue' = [queue EXCEPT ![w] = q] /\ queueOf' = [queueOf EXCEPT ![host[w]] = q]
          /\ queueOf[host[w]] = q \/ (queueOf[host[w]] = None /\ q \in FreshQueues)
    BY <1>0, <1>9, <2>0, FoundQueue DEF Return
  <2>2. queueOf'[h] = queueOf[h] \/ (queueOf'[h] = q /\ q \in FreshQueues)
    BY <1>0, <2>1 DEF TypeOK
  <2>3. queueOf'[h] = queueOf[h]
    BY <1>9, <2>2 DEF Return, FreshQueues
  \* The worker itself has found the object of its host.
  <2>4. \A v \in Workers : TakesOut(v, c, h) => TakesOut(v, c, h)'
    <3> SUFFICES ASSUME NEW v \in Workers, TakesOut(v, c, h) PROVE TakesOut(v, c, h)'
      OBVIOUS
    <3>1. CASE v = w
      <4>1. host[w] = h /\ client[w] = c
        BY <3>1 DEF TakesOut
      <4>2. queue'[w] = q /\ queueOf'[h] = q
        BY <1>0, <2>1, <4>1 DEF TypeOK
      <4> QED BY <1>9, <3>1, <4>1, <4>2 DEF TakesOut, Return
    <3>2. CASE v # w
      <4>1. queue'[v] = queue[v] /\ pc'[v] = pc[v] /\ host'[v] = host[v] /\ client'[v] = client[v]
        BY <1>0, <1>9, <2>1, <3>2 DEF TypeOK, Return
      <4> QED BY <2>3, <4>1 DEF TakesOut
    <3> QED BY <3>1, <3>2
  <2> QED BY <1>9, <2>3, <2>4, StillHeld DEF Return, Excused
<1>10. ASSUME UNCHANGED <<workerVars, failed, raced>>,
              \A h \in Hosts : queueOf'[h] \in {queueOf[h], None},
              \A q \in Queues : inUse'[q] \subseteq inUse[q]
       PROVE  EntriesAreHeld'
  <2> SUFFICES ASSUME NEW h \in Hosts, queueOf'[h] # None, NEW c \in inUse'[queueOf'[h]]
               PROVE  Held(c, h)'
    BY DEF EntriesAreHeld, Held, Excused
  <2>1. queueOf'[h] = queueOf[h] /\ queueOf[h] # None /\ queueOf[h] \in Queues
    BY <1>0, <1>10 DEF TypeOK
  <2>2. c \in inUse[queueOf[h]]
    BY <1>10, <2>1
  <2> QED BY <1>10, <2>1, <2>2, QuietHeld DEF workerVars, Excused
<1>11. ASSUME NEW q \in Queues, InUseCleaner(q) PROVE EntriesAreHeld'
  <2>1. \A r \in Queues : inUse'[r] \subseteq inUse[r]
    BY <1>0, <1>11 DEF TypeOK, InUseCleaner
  <2> QED BY <1>10, <1>11, <2>1 DEF InUseCleaner
<1>12. ASSUME \/ \E c \in Clients : ConnectionDies(c)
              \/ \E h \in Hosts : CleanerLooks(h)
              \/ UNCHANGED vars
       PROVE  EntriesAreHeld'
  BY <1>10, <1>12 DEF ConnectionDies, CleanerLooks, vars
<1>13. CASE CleanerRemoves
  <2>1. \A h \in Hosts : queueOf'[h] \in {queueOf[h], None}
    BY <1>0, <1>13 DEF TypeOK, CleanerRemoves
  <2> QED BY <1>10, <1>13, <2>1 DEF CleanerRemoves
<1> QED
  BY <1>1, <1>2, <1>4, <1>5, <1>6, <1>7, <1>8, <1>9, <1>11, <1>12, <1>13, RemoveHeld
  DEF Next, PoolStep
-----------------------------------------------------------------------------
(* The counter of attempts                                                 *)

\* No attempt begins or ends, and no decrement begins.
LEMMA QuietCounted ==
  ASSUME Inv, races \in Nat, races' \in Nat, races <= races', UNCHANGED <<attempts, read>>,
         \A w \in Workers : /\ pc'[w] \in Connecting <=> pc[w] \in Connecting
                            /\ pc'[w] = "decWrite" => pc[w] = "decWrite"
  PROVE  Counted'
<1>1. Attempting' = Attempting
  BY DEF Attempting
<1>2. races' = 0 => races = 0
  OBVIOUS
<1> QED BY <1>1, <1>2 DEF Inv, Counted

\* The counter keeps the number of attempts, but for changes that were lost.
LEMMA CountedStep ==
  ASSUME Inv, [Next]_vars
  PROVE  Counted'
<1> USE DEF Goto
<1>0. TypeOK /\ Control /\ Counted
  BY DEF Inv
<1>1. races \in Nat /\ races' \in Nat /\ races <= races'
  BY <1>0, RacesGrow, PoolAssumption DEF TypeOK
<1>2. ASSUME NEW w \in Workers, NEW to \in Pc, UNCHANGED <<attempts, read>>, pc' = [pc EXCEPT ![w] = to],
             to \in Connecting <=> pc[w] \in Connecting, to # "decWrite"
      PROVE  Counted'
  BY <1>0, <1>1, <1>2, QuietCounted DEF TypeOK
<1>3. CASE UNCHANGED <<attempts, read, pc>>
  BY <1>1, <1>3, QuietCounted
<1>4. ASSUME NEW w \in Workers,
             \/ \E h \in Hosts : Begin(w, h)
             \/ TakeIdle(w) \/ AddTaken(w) \/ NothingIdle(w) \/ Refuse(w) \/ Connect(w) \/ AddCreated(w)
             \/ ConnectThrows(w) \/ SessionEnds(w) \/ SessionThrows(w) \/ Return(w) \/ RemoveReturned(w)
      PROVE  Counted'
  <2>1. /\ UNCHANGED <<attempts, read>>
        /\ \/ UNCHANGED pc
           \/ \E to \in Pc \ {"decWrite"} :
                pc' = [pc EXCEPT ![w] = to] /\ (to \in Connecting <=> pc[w] \in Connecting)
    BY <1>4 DEF Pc, Connecting, Begin, TakeIdle, AddTaken, NothingIdle, Refuse, Connect, AddCreated,
       ConnectThrows, SessionEnds, SessionThrows, Return, RemoveReturned
  <2> QED BY <1>2, <1>3, <2>1
<1>5. ASSUME NEW w \in Workers, StartAttempt(w) PROVE Counted'
  <2>1. pc' = [pc EXCEPT ![w] = "connect"] /\ pc[w] = "create" /\ attempts' = attempts + 1
    BY <1>5 DEF StartAttempt
  <2>2. Attempting' = Attempting \cup {w} /\ w \notin Attempting
    BY <1>0, <2>1 DEF TypeOK, Attempting, Connecting
  <2>3. IsFiniteSet(Attempting') /\ Cardinality(Attempting') = Cardinality(Attempting) + 1
    BY <1>0, <2>2, FS_AddElement DEF Counted
  <2>4. ASSUME races' = 0 PROVE races = 0 /\ \A v \in Workers : pc[v] # "decWrite"
    BY <1>1, <1>5, <2>4 DEF StartAttempt, CountRace, CounterRace, Race
  <2>5. \A v \in Workers : pc[v] # "decWrite" => pc'[v] # "decWrite"
    BY <1>0, <2>1 DEF TypeOK
  <2> QED BY <1>0, <2>1, <2>3, <2>4, <2>5 DEF Counted
<1>6. ASSUME NEW w \in Workers, DecrementRead(w) PROVE Counted'
  <2>1. /\ pc' = [pc EXCEPT ![w] = "decWrite"] /\ pc[w] = "decRead"
        /\ read' = [read EXCEPT ![w] = attempts] /\ UNCHANGED attempts
    BY <1>6 DEF DecrementRead
  <2>2. Attempting' = Attempting
    BY <1>0, <2>1 DEF TypeOK, Attempting, Connecting
  <2>3. ASSUME races' = 0 PROVE races = 0 /\ \A v \in Workers : pc[v] # "decWrite"
    BY <1>1, <1>6, <2>3 DEF DecrementRead, CountRace, CounterRace, Race
  <2>4. read'[w] = attempts /\ \A v \in Workers : pc[v] # "decWrite" /\ pc'[v] = "decWrite" => v = w
    BY <1>0, <2>1 DEF TypeOK
  <2> QED BY <1>0, <2>1, <2>2, <2>3, <2>4 DEF Counted
<1>7. ASSUME NEW w \in Workers, DecrementWrite(w) PROVE Counted'
  <2>1. pc[w] = "decWrite" /\ attempts' = read[w] - 1 /\ read' = [read EXCEPT ![w] = 0]
    BY <1>7 DEF DecrementWrite
  <2>2. pc' = [pc EXCEPT ![w] = "session"] \/ pc' = [pc EXCEPT ![w] = "idle"]
    BY <1>7 DEF DecrementWrite
  <2>3. Attempting' = Attempting \ {w} /\ w \in Attempting
    BY <1>0, <2>1, <2>2 DEF TypeOK, Attempting, Connecting
  <2>4. IsFiniteSet(Attempting') /\ Cardinality(Attempting') = Cardinality(Attempting) - 1
    BY <1>0, <2>3, FS_RemoveElement DEF Counted
  <2>5. ASSUME races' = 0
        PROVE  /\ races = 0 /\ read[w] = attempts /\ attempts = Cardinality(Attempting)
               /\ \A v \in Workers : pc[v] = "decWrite" => v = w
    BY <1>0, <1>1, <2>1, <2>5 DEF Counted
  <2>6. \A v \in Workers : pc'[v] = "decWrite" => v # w /\ pc[v] = "decWrite"
    BY <1>0, <2>2 DEF TypeOK
  <2> QED BY <2>1, <2>4, <2>5, <2>6 DEF Counted
<1> QED
  BY <1>3, <1>4, <1>5, <1>6, <1>7
  DEF Next, PoolStep, ConnectionDies, InUseCleaner, CleanerLooks, CleanerRemoves, vars, workerVars

-----------------------------------------------------------------------------
(* Results                                                                 *)

\* The invariant holds in every state.
THEOREM Invariance == Spec => []Inv
<1>1. Inv /\ [Next]_vars => Inv'
  BY TypeStep, ControlStep, ExclusiveStep, OneHostStep, HeldStep, CountedStep DEF Inv, Exclusive
<1> QED BY InitInv, <1>1, PTL DEF Spec

\* Every variable keeps its type: in particular a queue holds connections and nothing else.
THEOREM TypeCorrect == Spec => []TypeOK
<1>1. Inv => TypeOK
  BY DEF Inv
<1> QED BY Invariance, <1>1, PTL

\* A set with no two elements.
LEMMA AtMostOne ==
  ASSUME NEW S, \A x, y \in S : x = y
  PROVE  IF S = {} THEN Cardinality(S) = 0 ELSE Cardinality(S) = 1
<1>1. CASE S = {}
  BY <1>1, FS_EmptySet
<1>2. CASE S # {}
  <2>1. PICK x \in S : TRUE
    BY <1>2
  <2>2. S = {x}
    BY <2>1
  <2> QED BY <1>2, <2>2, FS_Singleton
<1> QED BY <1>1, <1>2

\* However workers, the cleaner threads and broken connections interleave, no two SMTP
\* dialogues are ever on one connection: DequeueAsync, MessageSender and Enqueue hand it on.
THEOREM ConnectionsHaveOneUser == Spec => []ExclusiveUse
<1>1. ASSUME Inv PROVE ExclusiveUse
  <2> SUFFICES ASSUME NEW c \in Clients
               PROVE  LET owners == {w \in Workers : Owns(w, c)}
                          places == {p \in Queues \X (1..Cardinality(Clients)) :
                                       p[2] \in DOMAIN idle[p[1]] /\ idle[p[1]][p[2]] = c}
                      IN  Cardinality(owners) + Cardinality(places) <= 1
    BY DEF ExclusiveUse
  <2> DEFINE owners == {w \in Workers : Owns(w, c)}
             places == {p \in Queues \X (1..Cardinality(Clients)) :
                          p[2] \in DOMAIN idle[p[1]] /\ idle[p[1]][p[2]] = c}
  <2>1. c # None
    BY PoolAssumption
  <2>2. \A v, w \in owners : v = w
    BY <1>1, <2>1 DEF Inv, OneOwner, Owns
  <2>3. \A p, r \in places : p = r
    BY <1>1 DEF Inv, OnePlace
  <2>4. owners = {} \/ places = {}
    BY <1>1 DEF Inv, OwnedIsNotIdle, Owns
  <2>5. /\ IF owners = {} THEN Cardinality(owners) = 0 ELSE Cardinality(owners) = 1
        /\ IF places = {} THEN Cardinality(places) = 0 ELSE Cardinality(places) = 1
    <3> HIDE DEF owners, places
    <3> QED BY <2>2, <2>3, AtMostOne
  <2> HIDE DEF owners, places
  <2>6. Cardinality(owners) + Cardinality(places) <= 1
    BY <2>4, <2>5
  <2> QED BY <2>6 DEF owners, places
<1> QED BY Invariance, <1>1, PTL

\* What stays in InUseConnections and eats up the maximum of a destination was left there by a
\* session that ended with an exception, or by two changes of the list at the same time:
\* Enqueue takes every other connection out, also when the cleaner thread has meanwhile
\* replaced the queue object of the host.
THEOREM OnlyFailuresStay == Spec => []LeftBehindByFailure
<1>1. Inv => LeftBehindByFailure
  BY DEF Inv, EntriesAreHeld, TakesOut, LeftBehindByFailure
<1> QED BY Invariance, <1>1, PTL

\* Without overlaps on _ConnectionAttemptsInProgress it is the number of workers that are
\* connecting: the finally block gives back a place on every way out.
THEOREM AttemptsGiveBack == Spec => []AttemptsAreCounted
<1>1. Inv => AttemptsAreCounted
  BY DEF Inv, Counted, Attempting, AttemptsAreCounted
<1> QED BY Invariance, <1>1, PTL
=============================================================================
