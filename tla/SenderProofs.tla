---------------------------- MODULE SenderProofs ----------------------------
(***************************************************************************)
(* What a message is looked up for and when it is tried again, proved for  *)
(* any number of callers, tasks, hosts, addresses and messages, any        *)
(* periods and all time: how old an answer of SendManager can be; how      *)
(* VirtualMtaManager's groups share the messages; that a route is one that *)
(* DNS gave; that the hosts of a route are tried in turn; and when a       *)
(* message is tried again.  The invariants of the groups, the records and  *)
(* the routing are of these parts alone: the last section of the caches    *)
(* takes them to SenderCaches, of which each is one.                       *)
(***************************************************************************)
EXTENDS SenderCaches, RetrySchedule, SequenceTheorems, WellFoundedInduction, TLAPS

Clearing == {"clear", "clearInternal", "stamp"}

\* The clock, and what is known of the times that are kept.
Times ==
  /\ lastCleared <= now
  /\ \A s \in Statuses : seen[s] <= now
  /\ db # None => seen[db] = now
  /\ \A c \in Callers : pc[c] # "idle" => began[c] <= now /\ now <= began[c] + MaxCall

\* One caller clears at a time.
OneClears == \A c \in Callers : pc[c] \in Clearing => lock = c

\* An entry was loaded by a call that was at work at the last clearing, or later; while a
\* clearing is under way, by one that was at work when the clearing began, or later.
EntriesAreYoung ==
  /\ sends # None => seen[sends] >= lastCleared - 2 * MaxCall
  /\ internal # None => seen[internal] >= lastCleared - 2 * MaxCall
  /\ \A c \in Callers :
       /\ pc[c] \in {"clearInternal", "stamp"} /\ sends # None =>
            seen[sends] >= began[c] - MaxCall
       /\ pc[c] = "stamp" /\ internal # None => seen[internal] >= began[c] - MaxCall

\* What a call has in hand.
InHand ==
  \A c \in Callers :
    /\ pc[c] = "look" => began[c] <= lastCleared + Period
    /\ pc[c] \in {"add", "addOther"} => snd[c] \in Statuses /\ seen[snd[c]] >= began[c]
    /\ pc[c] = "answer" =>
         snd[c] \in Statuses /\ seen[snd[c]] >= began[c] - Period - 2 * MaxCall

Inv == TypeOK /\ Times /\ OneClears /\ EntriesAreYoung /\ InHand

-----------------------------------------------------------------------------

\* It holds of empty caches.
LEMMA InitInv == Init => Inv
  BY CacheAssumption DEF Init, Inv, TypeOK, Times, OneClears, EntriesAreYoung, InHand, Maybe, Statuses,
                         Clearing

\* Begin keeps it.
LEMMA BeginInv ==
  ASSUME Inv, NEW c \in Callers, Begin(c)
  PROVE  Inv'
  <1> USE CacheAssumption DEF Begin, Expired, Step, Goto
  <1>0. TypeOK /\ Times /\ OneClears /\ EntriesAreYoung /\ InHand
    BY DEF Inv
  <1>1. TypeOK'
    BY <1>0 DEF TypeOK, Maybe, Statuses, Times
  <1>2. Times'
    BY <1>0 DEF TypeOK, Times, Maybe, Statuses
  <1>3. OneClears'
    BY <1>0 DEF TypeOK, OneClears, Clearing
  <1>4. EntriesAreYoung'
    BY <1>0, <1>1 DEF TypeOK, Times, OneClears, Clearing, EntriesAreYoung, InHand, Maybe, Statuses
  <1>5. InHand'
    BY <1>0, <1>1 DEF TypeOK, Times, EntriesAreYoung, InHand, Maybe, Statuses
  <1> QED
    BY <1>1, <1>2, <1>3, <1>4, <1>5 DEF Inv

\* Lock keeps it.
LEMMA LockInv ==
  ASSUME Inv, NEW c \in Callers, Lock(c)
  PROVE  Inv'
  <1> USE CacheAssumption DEF Lock, Step, Goto
  <1>0. TypeOK /\ Times /\ OneClears /\ EntriesAreYoung /\ InHand
    BY DEF Inv
  <1>1. TypeOK'
    BY <1>0 DEF TypeOK, Maybe, Statuses, Times
  <1>2. Times'
    BY <1>0 DEF TypeOK, Times, Maybe, Statuses
  <1>3. OneClears'
    BY <1>0 DEF TypeOK, OneClears, Clearing
  <1>4. EntriesAreYoung'
    BY <1>0, <1>1 DEF TypeOK, Times, OneClears, Clearing, EntriesAreYoung, InHand, Maybe, Statuses
  <1>5. InHand'
    BY <1>0, <1>1 DEF TypeOK, Times, EntriesAreYoung, InHand, Maybe, Statuses
  <1> QED
    BY <1>1, <1>2, <1>3, <1>4, <1>5 DEF Inv

\* ClearSends keeps it.
LEMMA ClearSendsInv ==
  ASSUME Inv, NEW c \in Callers, ClearSends(c)
  PROVE  Inv'
  <1> USE CacheAssumption DEF ClearSends, Step, Goto
  <1>0. TypeOK /\ Times /\ OneClears /\ EntriesAreYoung /\ InHand
    BY DEF Inv
  <1>1. TypeOK'
    BY <1>0 DEF TypeOK, Maybe, Statuses, Times
  <1>2. Times'
    BY <1>0 DEF TypeOK, Times, Maybe, Statuses
  <1>3. OneClears'
    BY <1>0 DEF TypeOK, OneClears, Clearing
  <1>4. EntriesAreYoung'
    BY <1>0, <1>1 DEF TypeOK, Times, OneClears, Clearing, EntriesAreYoung, InHand, Maybe, Statuses
  <1>5. InHand'
    BY <1>0, <1>1 DEF TypeOK, Times, EntriesAreYoung, InHand, Maybe, Statuses
  <1> QED
    BY <1>1, <1>2, <1>3, <1>4, <1>5 DEF Inv

\* ClearInternal keeps it.
LEMMA ClearInternalInv ==
  ASSUME Inv, NEW c \in Callers, ClearInternal(c)
  PROVE  Inv'
  <1> USE CacheAssumption DEF ClearInternal, Step, Goto
  <1>0. TypeOK /\ Times /\ OneClears /\ EntriesAreYoung /\ InHand
    BY DEF Inv
  <1>1. TypeOK'
    BY <1>0 DEF TypeOK, Maybe, Statuses, Times
  <1>2. Times'
    BY <1>0 DEF TypeOK, Times, Maybe, Statuses
  <1>3. OneClears'
    BY <1>0 DEF TypeOK, OneClears, Clearing
  <1>4. EntriesAreYoung'
    BY <1>0, <1>1 DEF TypeOK, Times, OneClears, Clearing, EntriesAreYoung, InHand, Maybe, Statuses
  <1>5. InHand'
    BY <1>0, <1>1 DEF TypeOK, Times, EntriesAreYoung, InHand, Maybe, Statuses
  <1> QED
    BY <1>1, <1>2, <1>3, <1>4, <1>5 DEF Inv

\* Stamp keeps it.
LEMMA StampInv ==
  ASSUME Inv, NEW c \in Callers, Stamp(c)
  PROVE  Inv'
  <1> USE CacheAssumption DEF Stamp, Step, Goto
  <1>0. TypeOK /\ Times /\ OneClears /\ EntriesAreYoung /\ InHand
    BY DEF Inv
  <1>1. TypeOK'
    BY <1>0 DEF TypeOK, Maybe, Statuses, Times
  <1>2. Times'
    BY <1>0 DEF TypeOK, Times, Maybe, Statuses
  <1>3. OneClears'
    BY <1>0 DEF TypeOK, OneClears, Clearing
  <1>4. EntriesAreYoung'
    BY <1>0, <1>1 DEF TypeOK, Times, OneClears, Clearing, EntriesAreYoung, InHand, Maybe, Statuses
  <1>5. InHand'
    BY <1>0, <1>1 DEF TypeOK, Times, EntriesAreYoung, InHand, Maybe, Statuses
  <1> QED
    BY <1>1, <1>2, <1>3, <1>4, <1>5 DEF Inv

\* TryGetValue keeps it.
LEMMA TryGetValueInv ==
  ASSUME Inv, NEW c \in Callers, TryGetValue(c)
  PROVE  Inv'
  <1> USE CacheAssumption DEF TryGetValue, Own, Step, Goto
  <1>0. TypeOK /\ Times /\ OneClears /\ EntriesAreYoung /\ InHand
    BY DEF Inv
  <1>1. TypeOK'
    BY <1>0 DEF TypeOK, Maybe, Statuses, Times
  <1>2. Times'
    BY <1>0 DEF TypeOK, Times, Maybe, Statuses
  <1>3. OneClears'
    BY <1>0 DEF TypeOK, OneClears, Clearing
  <1>4. EntriesAreYoung'
    BY <1>0, <1>1 DEF TypeOK, Times, OneClears, Clearing, EntriesAreYoung, InHand, Maybe, Statuses
  <1>5. InHand'
    BY <1>0, <1>1 DEF TypeOK, Times, EntriesAreYoung, InHand, Maybe, Statuses
  <1> QED
    BY <1>1, <1>2, <1>3, <1>4, <1>5 DEF Inv

\* Load keeps it.
LEMMA LoadInv ==
  ASSUME Inv, NEW c \in Callers, Load(c)
  PROVE  Inv'
  <1> USE CacheAssumption DEF Load, Step, Goto
  <1>0. TypeOK /\ Times /\ OneClears /\ EntriesAreYoung /\ InHand
    BY DEF Inv
  <1>1. TypeOK'
    BY <1>0 DEF TypeOK, Maybe, Statuses, Times
  <1>2. Times'
    BY <1>0 DEF TypeOK, Times, Maybe, Statuses
  <1>3. OneClears'
    BY <1>0 DEF TypeOK, OneClears, Clearing
  <1>4. EntriesAreYoung'
    BY <1>0, <1>1 DEF TypeOK, Times, OneClears, Clearing, EntriesAreYoung, InHand, Maybe, Statuses
  <1>5. InHand'
    BY <1>0, <1>1 DEF TypeOK, Times, EntriesAreYoung, InHand, Maybe, Statuses
  <1> QED
    BY <1>1, <1>2, <1>3, <1>4, <1>5 DEF Inv

\* AddOwn keeps it.
LEMMA AddOwnInv ==
  ASSUME Inv, NEW c \in Callers, AddOwn(c)
  PROVE  Inv'
  <1> USE CacheAssumption DEF AddOwn, TryAdd, Step, Goto
  <1>0. TypeOK /\ Times /\ OneClears /\ EntriesAreYoung /\ InHand
    BY DEF Inv
  <1>1. TypeOK'
    BY <1>0 DEF TypeOK, Maybe, Statuses, Times
  <1>2. Times'
    BY <1>0 DEF TypeOK, Times, Maybe, Statuses
  <1>3. OneClears'
    BY <1>0 DEF TypeOK, OneClears, Clearing
  <1>4. EntriesAreYoung'
    BY <1>0, <1>1 DEF TypeOK, Times, OneClears, Clearing, EntriesAreYoung, InHand, Maybe, Statuses
  <1>5. InHand'
    BY <1>0, <1>1 DEF TypeOK, Times, EntriesAreYoung, InHand, Maybe, Statuses
  <1> QED
    BY <1>1, <1>2, <1>3, <1>4, <1>5 DEF Inv

\* AddOther keeps it.
LEMMA AddOtherInv ==
  ASSUME Inv, NEW c \in Callers, AddOther(c)
  PROVE  Inv'
  <1> USE CacheAssumption DEF AddOther, TryAdd, Step, Goto
  <1>0. TypeOK /\ Times /\ OneClears /\ EntriesAreYoung /\ InHand
    BY DEF Inv
  <1>1. TypeOK'
    BY <1>0 DEF TypeOK, Maybe, Statuses, Times
  <1>2. Times'
    BY <1>0 DEF TypeOK, Times, Maybe, Statuses
  <1>3. OneClears'
    BY <1>0 DEF TypeOK, OneClears, Clearing
  <1>4. EntriesAreYoung'
    BY <1>0, <1>1 DEF TypeOK, Times, OneClears, Clearing, EntriesAreYoung, InHand, Maybe, Statuses
  <1>5. InHand'
    BY <1>0, <1>1 DEF TypeOK, Times, EntriesAreYoung, InHand, Maybe, Statuses
  <1> QED
    BY <1>1, <1>2, <1>3, <1>4, <1>5 DEF Inv

\* Answer keeps it.
LEMMA AnswerInv ==
  ASSUME Inv, NEW c \in Callers, Answer(c)
  PROVE  Inv'
  <1> USE CacheAssumption DEF Answer, Step, Goto
  <1>0. TypeOK /\ Times /\ OneClears /\ EntriesAreYoung /\ InHand
    BY DEF Inv
  <1>1. TypeOK'
    BY <1>0 DEF TypeOK, Maybe, Statuses, Times
  <1>2. Times'
    BY <1>0 DEF TypeOK, Times, Maybe, Statuses
  <1>3. OneClears'
    BY <1>0 DEF TypeOK, OneClears, Clearing
  <1>4. EntriesAreYoung'
    BY <1>0, <1>1 DEF TypeOK, Times, OneClears, Clearing, EntriesAreYoung, InHand, Maybe, Statuses
  <1>5. InHand'
    BY <1>0, <1>1 DEF TypeOK, Times, EntriesAreYoung, InHand, Maybe, Statuses
  <1> QED
    BY <1>1, <1>2, <1>3, <1>4, <1>5 DEF Inv

\* SetSendStatus keeps it.
LEMMA SetSendStatusInv ==
  ASSUME Inv, NEW s \in Statuses, SetSendStatus(s)
  PROVE  Inv'
  <1> USE CacheAssumption DEF SetSendStatus
  <1>0. TypeOK /\ Times /\ OneClears /\ EntriesAreYoung /\ InHand
    BY DEF Inv
  <1>1. TypeOK'
    BY <1>0 DEF TypeOK, Maybe, Statuses
  <1>2. Times'
    BY <1>0, <1>1 DEF TypeOK, Times, Maybe, Statuses
  <1>3. OneClears'
    BY <1>0 DEF OneClears, Clearing
  <1>4. EntriesAreYoung'
    BY <1>0, <1>1 DEF TypeOK, Times, EntriesAreYoung, Maybe, Statuses
  <1>5. InHand'
    BY <1>0, <1>1 DEF TypeOK, Times, InHand, Maybe, Statuses
  <1> QED
    BY <1>1, <1>2, <1>3, <1>4, <1>5 DEF Inv

\* Tick keeps it.
LEMMA TickInv ==
  ASSUME Inv, Tick
  PROVE  Inv'
  <1> USE CacheAssumption DEF Tick
  <1>0. TypeOK /\ Times /\ OneClears /\ EntriesAreYoung /\ InHand
    BY DEF Inv
  <1>1. TypeOK'
    BY <1>0 DEF TypeOK, Maybe, Statuses
  <1>2. Times'
    BY <1>0, <1>1 DEF TypeOK, Times, Maybe, Statuses
  <1>3. OneClears'
    BY <1>0 DEF OneClears, Clearing
  <1>4. EntriesAreYoung'
    BY <1>0, <1>1 DEF TypeOK, Times, EntriesAreYoung, Maybe, Statuses
  <1>5. InHand'
    BY <1>0, <1>1 DEF TypeOK, Times, InHand, Maybe, Statuses
  <1> QED
    BY <1>1, <1>2, <1>3, <1>4, <1>5 DEF Inv

\* Every step keeps it.
LEMMA NextInv == Inv /\ [Next]_vars => Inv'
  <1> SUFFICES ASSUME Inv, [Next]_vars PROVE Inv'
    OBVIOUS
  <1>1. CASE \E c \in Callers : GetSend(c)
    <2>1. PICK c \in Callers : GetSend(c)
      BY <1>1
    <2> QED
      BY <2>1, BeginInv, LockInv, ClearSendsInv, ClearInternalInv, StampInv, TryGetValueInv,
         LoadInv, AddOwnInv, AddOtherInv, AnswerInv DEF GetSend
  <1>2. CASE \E s \in Statuses : SetSendStatus(s)
    BY <1>2, SetSendStatusInv
  <1>3. CASE Tick
    BY <1>3, TickInv
  <1>4. CASE UNCHANGED vars
    BY <1>4 DEF vars, Inv, TypeOK, Times, OneClears, EntriesAreYoung, InHand, Clearing
  <1> QED
    BY <1>1, <1>2, <1>3, <1>4 DEF Next

\* The invariant holds in every state.
LEMMA SpecInv == Spec => []Inv
  BY InitInv, NextInv, PTL DEF Spec

\* The dictionaries, the lock and the calls keep their types.
LEMMA SendCacheType == Spec => []TypeOK
  <1>1. Inv => TypeOK
    BY DEF Inv
  <1> QED
    BY <1>1, SpecInv, PTL

\* An answer of either lookup of SendManager was the status in the database at most a period and three
\* calls ago.
LEMMA SendsAreRecent == Spec => []AnswersAreRecent
  <1>1. Inv => AnswersAreRecent
    BY CacheAssumption DEF Inv, TypeOK, Times, InHand, AnswersAreRecent, Statuses
  <1> QED
    BY <1>1, SpecInv, PTL

-----------------------------------------------------------------------------
(***************************************************************************)
(* What a group of addresses promises: AddressGroups, with a clock, a lock *)
(* and calls of its own.                                                   *)
(***************************************************************************)

UnderLock == {"load", "fill", "store"}
Newest == groups[Len(groups)].created

\* A group is loaded under the lock, and chosen from when it is at hand.
GroupPlaces ==
  /\ \A w \in Tasks : groupPc[w] \in UnderLock <=> groupLock = w
  /\ \A w \in Tasks : groupPc[w] \in {"fill", "store"} => loading \in Groups!Group
  /\ \A w \in Tasks : groupPc[w] = "choose" => group[w] # 0

\* The clock, and what is known of the times that are kept.
GroupTimes ==
  /\ \A a \in Addresses : left[a] <= groupNow
  /\ \A a \in members : left[a] = groupNow
  /\ \A w \in Tasks : groupPc[w] # "idle" =>
       groupBegan[w] <= groupNow /\ groupNow <= groupBegan[w] + MaxGroupCall
  /\ \A w \in Tasks : groupPc[w] \in {"fill", "store"} =>
       groupBegan[w] <= loading.created /\ loading.created <= groupNow

\* The addresses of an object were in the group when it was made, or later.
ObjectsAreTrue ==
  /\ \A i \in 1..Len(groups) : \A a \in groups[i].addresses : groups[i].created <= left[a]
  /\ \A w \in Tasks : groupPc[w] \in {"fill", "store"} =>
       \A a \in loading.addresses : loading.created <= left[a]

\* The object in hand was young enough when the call began.
HandsAreYoung ==
  \A w \in Tasks : groupPc[w] = "choose" => groups[group[w]].created + CacheMinutes > groupBegan[w]

GroupInv == Groups!TypeOK /\ GroupPlaces /\ GroupTimes /\ ObjectsAreTrue /\ HandsAreYoung

\* The objects were made CacheMinutes apart, and the next one will be.
ObjectsAreApart ==
  /\ cached = Len(groups)
  /\ Len(groups) # 0 => (Len(groups) - 1) * CacheMinutes <= Newest /\ Newest <= groupNow
  /\ \A w \in Tasks : Len(groups) # 0 =>
       /\ groupPc[w] = "load" => Newest + CacheMinutes <= groupNow
       /\ groupPc[w] \in {"fill", "store"} => Newest + CacheMinutes <= loading.created

\* Within an object no address is ahead of another by more than one.
ObjectsAreFair ==
  /\ \A i \in 1..Len(groups) : \A a, b \in groups[i].addresses : \A h \in Destinations :
       groups[i].sends[a][h] <= groups[i].sends[b][h] + 1
  /\ \A w \in Tasks : groupPc[w] \in {"fill", "store"} => loading.sends = Groups!NoSends

\* p[i] is what the first i objects counted; all of them counted every choice.
AddsUp(p, a, h) ==
  /\ p[0] = 0 /\ p[Len(groups)] = used[a][h]
  /\ \A i \in 1..Len(groups) : p[i] = p[i - 1] + groups[i].sends[a][h]

\* The choices of an address are the sum of those in all objects.
ChoicesAddUp ==
  \A a \in Addresses, h \in Destinations : \E p \in [0..Len(groups) -> 0..used[a][h]] : AddsUp(p, a, h)

FairInv == GroupInv /\ ObjectsAreApart /\ ObjectsAreFair /\ ChoicesAddUp

\* The group's invariant holds before the first object.
LEMMA GroupInit ==
  ASSUME Groups!GroupAssumption, Groups!Init
  PROVE  GroupInv
  BY DEF Groups!GroupAssumption, Groups!Init, GroupInv, Groups!TypeOK, GroupPlaces, GroupTimes,
         ObjectsAreTrue, HandsAreYoung, Groups!NoSends, UnderLock

\* What the lock is for.
LEMMA TryGetValueGroup ==
  ASSUME Groups!GroupAssumption, GroupInv, NEW w \in Tasks, Groups!TryGetValue(w)
  PROVE  GroupInv'
  <1> USE DEF Groups!TryGetValue, Groups!Fresh, Groups!Step, Groups!sqlVars
  <1>0. Groups!TypeOK /\ GroupPlaces /\ GroupTimes /\ ObjectsAreTrue /\ HandsAreYoung
    BY DEF GroupInv
  <1>1. Groups!TypeOK'
    BY <1>0 DEF Groups!TypeOK
  <1>2. GroupPlaces'
    BY <1>0 DEF Groups!TypeOK, GroupPlaces, UnderLock
  <1>3. GroupTimes'
    BY <1>0 DEF Groups!GroupAssumption, Groups!TypeOK, GroupTimes
  <1>4. ObjectsAreTrue'
    BY <1>0 DEF Groups!TypeOK, ObjectsAreTrue
  <1>5. HandsAreYoung'
    BY <1>0 DEF Groups!TypeOK, HandsAreYoung
  <1> QED  BY <1>1, <1>2, <1>3, <1>4, <1>5 DEF GroupInv

\* Enter keeps the group's invariant.
LEMMA EnterGroup ==
  ASSUME Groups!GroupAssumption, GroupInv, NEW w \in Tasks, Groups!Enter(w)
  PROVE  GroupInv'
  <1> USE DEF Groups!Enter, Groups!Fresh, Groups!Step, Groups!sqlVars
  <1>0. Groups!TypeOK /\ GroupPlaces /\ GroupTimes /\ ObjectsAreTrue /\ HandsAreYoung
    BY DEF GroupInv
  <1>1. Groups!TypeOK'
    BY <1>0 DEF Groups!TypeOK
  <1>2. GroupPlaces'
    BY <1>0 DEF Groups!GroupAssumption, Groups!TypeOK, GroupPlaces, UnderLock
  <1>3. GroupTimes'
    BY <1>0 DEF Groups!GroupAssumption, Groups!TypeOK, GroupTimes
  <1>4. ObjectsAreTrue'
    BY <1>0 DEF Groups!TypeOK, ObjectsAreTrue
  <1>5. HandsAreYoung'
    <2>1. Groups!Fresh => groups[cached].created + CacheMinutes > groupBegan[w]
      <3>1. Groups!Fresh => groups[cached] \in Groups!Group
        BY <1>0 DEF Groups!TypeOK
      <3>2. groupBegan[w] <= groupNow
        BY <1>0 DEF GroupTimes
      <3> QED  BY <1>0, <3>1, <3>2 DEF Groups!TypeOK, Groups!Group, Groups!GroupAssumption
    <2> QED  BY <1>0, <2>1 DEF Groups!TypeOK, HandsAreYoung
  <1> QED  BY <1>1, <1>2, <1>3, <1>4, <1>5 DEF GroupInv

\* Load keeps the group's invariant.
LEMMA LoadGroup ==
  ASSUME Groups!GroupAssumption, GroupInv, NEW w \in Tasks, Groups!Load(w)
  PROVE  GroupInv'
  <1> USE DEF Groups!Load, Groups!Step, Groups!sqlVars
  <1>0. Groups!TypeOK /\ GroupPlaces /\ GroupTimes /\ ObjectsAreTrue /\ HandsAreYoung
    BY DEF GroupInv
  <1>1. loading' \in Groups!Group /\ loading'.created = groupNow /\ loading'.addresses = {}
    BY <1>0 DEF Groups!TypeOK, Groups!Group, Groups!NoSends
  <1>2. Groups!TypeOK'
    BY <1>0, <1>1 DEF Groups!TypeOK
  <1>3. GroupPlaces'
    BY <1>0, <1>1 DEF Groups!GroupAssumption, Groups!TypeOK, GroupPlaces, UnderLock
  <1>4. GroupTimes'
    BY <1>0, <1>1 DEF Groups!GroupAssumption, Groups!TypeOK, GroupTimes, GroupPlaces, UnderLock
  <1>5. ObjectsAreTrue'
    BY <1>0, <1>1 DEF Groups!TypeOK, ObjectsAreTrue, GroupPlaces, UnderLock
  <1>6. HandsAreYoung'
    BY <1>0 DEF Groups!TypeOK, HandsAreYoung
  <1> QED  BY <1>2, <1>3, <1>4, <1>5, <1>6 DEF GroupInv

\* Fill keeps the group's invariant.
LEMMA FillGroup ==
  ASSUME Groups!GroupAssumption, GroupInv, NEW w \in Tasks, Groups!Fill(w)
  PROVE  GroupInv'
  <1> USE DEF Groups!Fill, Groups!Step, Groups!sqlVars
  <1>0. Groups!TypeOK /\ GroupPlaces /\ GroupTimes /\ ObjectsAreTrue /\ HandsAreYoung
    BY DEF GroupInv
  <1>1. /\ loading \in Groups!Group /\ loading' \in Groups!Group
        /\ loading'.created = loading.created /\ loading'.addresses = members
    BY <1>0 DEF Groups!TypeOK, Groups!Group, GroupPlaces
  <1>2. Groups!TypeOK'
    BY <1>0, <1>1 DEF Groups!TypeOK
  <1>3. GroupPlaces'
    BY <1>0, <1>1 DEF Groups!TypeOK, GroupPlaces, UnderLock
  <1>4. GroupTimes'
    BY <1>0, <1>1 DEF Groups!TypeOK, GroupTimes, GroupPlaces, UnderLock
  <1>5. ObjectsAreTrue'
    BY <1>0, <1>1 DEF Groups!TypeOK, ObjectsAreTrue, GroupPlaces, GroupTimes, UnderLock
  <1>6. HandsAreYoung'
    BY <1>0 DEF Groups!TypeOK, HandsAreYoung
  <1> QED  BY <1>2, <1>3, <1>4, <1>5, <1>6 DEF GroupInv

\* The object comes last.
LEMMA Stored ==
  ASSUME GroupInv, NEW w \in Tasks, Groups!Store(w)
  PROVE  /\ loading \in Groups!Group /\ groups' \in Seq(Groups!Group)
         /\ Len(groups') = Len(groups) + 1 /\ cached' = Len(groups) + 1
         /\ groups'[Len(groups) + 1] = loading
         /\ \A i \in 1..Len(groups) : groups'[i] = groups[i]
         /\ group' = [group EXCEPT ![w] = Len(groups) + 1]
         /\ Len(groups) \in Nat
  <1>1. groups \in Seq(Groups!Group) /\ loading \in Groups!Group /\ groups' = Append(groups, loading)
    BY DEF GroupInv, Groups!TypeOK, GroupPlaces, Groups!Store, Groups!Step
  <1> HIDE DEF Groups!Group
  <1>2. /\ groups' \in Seq(Groups!Group) /\ Len(groups') = Len(groups) + 1
        /\ groups'[Len(groups) + 1] = loading
        /\ \A i \in 1..Len(groups) : groups'[i] = groups[i]
        /\ Len(groups) \in Nat
    BY <1>1, AppendProperties, LenProperties
  <1> QED  BY <1>1, <1>2 DEF Groups!Store

\* Store keeps the group's invariant.
LEMMA StoreGroup ==
  ASSUME Groups!GroupAssumption, GroupInv, NEW w \in Tasks, Groups!Store(w)
  PROVE  GroupInv'
  <1>0. Groups!TypeOK /\ GroupPlaces /\ GroupTimes /\ ObjectsAreTrue /\ HandsAreYoung
    BY DEF GroupInv
  <1> DEFINE n == Len(groups) + 1
  <1>1. /\ loading \in Groups!Group /\ groups' \in Seq(Groups!Group) /\ Len(groups') = n /\ cached' = n
        /\ groups'[n] = loading /\ \A i \in 1..Len(groups) : groups'[i] = groups[i]
        /\ group' = [group EXCEPT ![w] = n] /\ n \in Nat \ {0} /\ Len(groups) \in Nat
    BY Stored
  <1>2. /\ groupPc[w] = "store" /\ groupPc' = [groupPc EXCEPT ![w] = "choose"]
           /\ groupLock' = None /\ loading' = None
        /\ UNCHANGED <<groupNow, members, left, groupBegan, used>>
    BY DEF Groups!Store, Groups!Step, Groups!sqlVars
  <1>3. \A i \in 1..n : i = n \/ i \in 1..Len(groups)
    BY <1>1
  <1>9. \A x \in Tasks : group[x] \in 0..Len(groups) /\ group[x] # n
    BY <1>0, <1>1 DEF Groups!TypeOK
  <1> HIDE DEF n
  <1>4. Groups!TypeOK'
    <2>1. \A x \in Tasks : group'[x] \in 0..n
      BY <1>0, <1>1, <1>9 DEF Groups!TypeOK, n
    <2>2. group' \in [Tasks -> 0..n]
      BY <1>0, <1>1, <2>1 DEF Groups!TypeOK
    <2> QED  BY <1>0, <1>1, <1>2, <2>2 DEF Groups!TypeOK
  <1>5. GroupPlaces'
    BY <1>0, <1>1, <1>2 DEF Groups!GroupAssumption, Groups!TypeOK, GroupPlaces, UnderLock
  <1>6. GroupTimes'
    BY <1>0, <1>1, <1>2 DEF Groups!TypeOK, GroupTimes, GroupPlaces, UnderLock
  <1>7. ObjectsAreTrue'
    BY <1>0, <1>1, <1>2, <1>3 DEF Groups!TypeOK, ObjectsAreTrue, GroupPlaces, UnderLock
  <1>8. HandsAreYoung'
    <2> SUFFICES ASSUME NEW x \in Tasks, groupPc'[x] = "choose"
                 PROVE  groups'[group'[x]].created + CacheMinutes > groupBegan[x]
      BY <1>2 DEF HandsAreYoung
    <2>1. CASE x = w
      <3>1. groups'[group'[x]] = loading
        BY <1>0, <1>1, <2>1 DEF Groups!TypeOK
      <3> QED  BY <1>0, <1>1, <1>2, <2>1, <3>1 DEF GroupTimes, Groups!GroupAssumption, Groups!TypeOK,
                                                   Groups!Group
    <2>2. CASE x # w
      <3>1. groupPc[x] = "choose" /\ group'[x] = group[x] /\ group[x] \in 1..Len(groups)
        BY <1>0, <1>1, <1>2, <2>2 DEF Groups!TypeOK, GroupPlaces
      <3> QED  BY <1>0, <1>1, <3>1 DEF HandsAreYoung
    <2> QED  BY <2>1, <2>2
  <1> QED  BY <1>4, <1>5, <1>6, <1>7, <1>8 DEF GroupInv

\* LoadFails keeps the group's invariant.
LEMMA LoadFailsGroup ==
  ASSUME Groups!GroupAssumption, GroupInv, NEW w \in Tasks, Groups!LoadFails(w)
  PROVE  GroupInv'
  <1> USE DEF Groups!LoadFails, Groups!Step, Groups!sqlVars
  <1>0. Groups!TypeOK /\ GroupPlaces /\ GroupTimes /\ ObjectsAreTrue /\ HandsAreYoung
    BY DEF GroupInv
  <1>1. Groups!TypeOK'
    BY <1>0 DEF Groups!TypeOK, Groups!GroupAssumption
  <1>2. GroupPlaces'
    BY <1>0 DEF Groups!GroupAssumption, Groups!TypeOK, GroupPlaces, UnderLock
  <1>3. GroupTimes'
    BY <1>0 DEF Groups!TypeOK, GroupTimes, GroupPlaces, UnderLock
  <1>4. ObjectsAreTrue'
    BY <1>0 DEF Groups!TypeOK, ObjectsAreTrue, GroupPlaces, UnderLock
  <1>5. HandsAreYoung'
    BY <1>0 DEF Groups!TypeOK, HandsAreYoung
  <1> QED  BY <1>1, <1>2, <1>3, <1>4, <1>5 DEF GroupInv

\* An address is counted in the object in hand.
LEMMA Chosen ==
  ASSUME GroupInv, NEW w \in Tasks, groupPc[w] = "choose", NEW h \in Destinations, NEW a \in Addresses,
         groups' = [groups EXCEPT ![group[w]].sends = Groups!Plus(@, a, h)]
  PROVE  /\ groups' \in Seq(Groups!Group) /\ Len(groups') = Len(groups) /\ Len(groups) \in Nat
         /\ group[w] \in 1..Len(groups)
         /\ \A i \in 1..Len(groups) :
              /\ groups'[i].created = groups[i].created /\ groups'[i].addresses = groups[i].addresses
              /\ groups'[i].sends = IF i = group[w] THEN Groups!Plus(groups[i].sends, a, h)
                                                    ELSE groups[i].sends
  <1> DEFINE g == groups[group[w]]
             e == [g EXCEPT !.sends = Groups!Plus(@, a, h)]
  <1>1. groups \in Seq(Groups!Group) /\ Len(groups) \in Nat
    BY LenProperties DEF GroupInv, Groups!TypeOK
  <1>2. group[w] \in 1..Len(groups)
    BY <1>1 DEF GroupInv, Groups!TypeOK, GroupPlaces
  <1>3. g \in Groups!Group
    BY <1>1, <1>2
  <1>4. e \in Groups!Group /\ e.created = g.created /\ e.addresses = g.addresses
        /\ e.sends = Groups!Plus(g.sends, a, h)
    <2>1. Groups!Plus(g.sends, a, h) \in [Addresses -> [Destinations -> Nat]]
      BY <1>3 DEF Groups!Group, Groups!Plus
    <2> QED  BY <1>3, <2>1 DEF Groups!Group
  <1>5. groups' = [groups EXCEPT ![group[w]] = e]
    OBVIOUS
  <1> HIDE DEF e, Groups!Group
  <1>6. /\ groups' \in Seq(Groups!Group) /\ Len(groups') = Len(groups)
        /\ \A i \in 1..Len(groups) : groups'[i] = IF i = group[w] THEN e ELSE groups[i]
    BY <1>1, <1>2, <1>4, <1>5, ExceptSeq
  <1> QED  BY <1>1, <1>2, <1>4, <1>6

\* Done keeps the group's invariant.
LEMMA DoneGroup ==
  ASSUME Groups!GroupAssumption, GroupInv, NEW w \in Tasks, Groups!Choose(w) \/ Groups!Leave(w)
  PROVE  GroupInv'
  <1>0. Groups!TypeOK /\ GroupPlaces /\ GroupTimes /\ ObjectsAreTrue /\ HandsAreYoung
    BY DEF GroupInv
  <1>1. /\ groupPc[w] = "choose" /\ groupPc' = [groupPc EXCEPT ![w] = "idle"]
        /\ group' = [group EXCEPT ![w] = 0] /\ groupBegan' = [groupBegan EXCEPT ![w] = 0]
        /\ UNCHANGED <<groupNow, members, left, cached, groupLock, loading>>
    BY DEF Groups!Choose, Groups!Leave, Groups!Done, Groups!Step, Groups!sqlVars
  <1>2. /\ groups' \in Seq(Groups!Group) /\ Len(groups') = Len(groups)
        /\ \A i \in 1..Len(groups) :
             groups'[i].created = groups[i].created /\ groups'[i].addresses = groups[i].addresses
        /\ used' \in [Addresses -> [Destinations -> Nat]]
    <2>1. CASE Groups!Leave(w)
      BY <1>0, <2>1 DEF Groups!Leave, Groups!TypeOK
    <2>2. CASE Groups!Choose(w)
      <3>0. PICK h \in Destinations : \E a \in Groups!Least(groups[group[w]], h) :
              /\ groups' = [groups EXCEPT ![group[w]].sends = Groups!Plus(@, a, h)]
              /\ used' = Groups!Plus(used, a, h)
        BY <2>2 DEF Groups!Choose
      <3>1. PICK a \in Groups!Least(groups[group[w]], h) :
              /\ groups' = [groups EXCEPT ![group[w]].sends = Groups!Plus(@, a, h)]
              /\ used' = Groups!Plus(used, a, h)
        BY <3>0
      <3>2. a \in Addresses
        <4>1. group[w] \in 1..Len(groups)
          BY <1>0, <1>1 DEF Groups!TypeOK, GroupPlaces
        <4>2. groups[group[w]] \in Groups!Group
          BY <1>0, <4>1, ElementOfSeq DEF Groups!TypeOK
        <4> QED  BY <3>1, <4>2 DEF Groups!Least, Groups!Group
      <3>3. used' \in [Addresses -> [Destinations -> Nat]]
        BY <1>0, <3>1, <3>2 DEF Groups!TypeOK, Groups!Plus
      <3> QED  BY <1>1, <3>1, <3>2, <3>3, Chosen
    <2> QED  BY <2>1, <2>2
  <1>3. Groups!TypeOK'
    BY <1>0, <1>1, <1>2 DEF Groups!TypeOK, Groups!GroupAssumption
  <1>4. GroupPlaces'
    BY <1>0, <1>1 DEF Groups!TypeOK, GroupPlaces, UnderLock
  <1>5. GroupTimes'
    BY <1>0, <1>1 DEF Groups!TypeOK, GroupTimes
  <1>6. ObjectsAreTrue'
    BY <1>0, <1>1, <1>2 DEF Groups!TypeOK, ObjectsAreTrue
  <1>7. HandsAreYoung'
    <2> SUFFICES ASSUME NEW x \in Tasks, groupPc'[x] = "choose"
                 PROVE  groups'[group'[x]].created + CacheMinutes > groupBegan'[x]
      BY DEF HandsAreYoung
    <2>1. x # w /\ groupPc[x] = "choose" /\ group'[x] = group[x] /\ groupBegan'[x] = groupBegan[x]
          /\ group[x] \in 1..Len(groups)
      BY <1>0, <1>1 DEF Groups!TypeOK, GroupPlaces
    <2> QED  BY <1>0, <1>2, <2>1 DEF HandsAreYoung
  <1> QED  BY <1>3, <1>4, <1>5, <1>6, <1>7 DEF GroupInv

\* EditGroup keeps the group's invariant.
LEMMA EditGroupGroup ==
  ASSUME Groups!GroupAssumption, GroupInv, Groups!EditGroup
  PROVE  GroupInv'
  <1>0. Groups!TypeOK /\ GroupPlaces /\ GroupTimes /\ ObjectsAreTrue /\ HandsAreYoung
    BY DEF GroupInv
  <1>1. PICK a \in Addresses :
          /\ members' = IF a \in members THEN members \ {a} ELSE members \cup {a}
          /\ left' = [left EXCEPT ![a] = groupNow]
    BY DEF Groups!EditGroup
  <1>2. UNCHANGED <<groupNow, groups, cached, groupLock, loading, groupPc, groupBegan, group, used>>
    BY DEF Groups!EditGroup
  <1>3. Groups!TypeOK'
    BY <1>0, <1>1, <1>2 DEF Groups!TypeOK
  <1>4. \A b \in Addresses : left'[b] \in Nat /\ left[b] <= left'[b] /\ left'[b] <= groupNow
    BY <1>0, <1>1 DEF Groups!TypeOK, GroupTimes, Groups!GroupAssumption
  <1>5. GroupPlaces' /\ HandsAreYoung'
    BY <1>0, <1>2 DEF GroupPlaces, HandsAreYoung
  <1>6. GroupTimes'
    BY <1>0, <1>1, <1>2, <1>4 DEF Groups!TypeOK, GroupTimes
  <1>7. ObjectsAreTrue'
    <2>1. \A i \in 1..Len(groups) : groups[i].addresses \subseteq Addresses /\ groups[i].created \in Nat
      <3>1. \A i \in 1..Len(groups) : groups[i] \in Groups!Group
        BY <1>0, ElementOfSeq DEF Groups!TypeOK
      <3> QED  BY <3>1 DEF Groups!Group, Groups!GroupAssumption
    <2>2. \A x \in Tasks : groupPc[x] \in {"fill", "store"} =>
            loading.addresses \subseteq Addresses /\ loading.created \in Nat
      BY <1>0 DEF GroupPlaces, Groups!Group, Groups!GroupAssumption
    <2>3. \A b \in Addresses : left[b] \in Nat
      BY <1>0 DEF Groups!TypeOK, Groups!GroupAssumption
    <2> QED  BY <1>0, <1>2, <1>4, <2>1, <2>2, <2>3 DEF ObjectsAreTrue
  <1> QED  BY <1>3, <1>5, <1>6, <1>7 DEF GroupInv

\* Tick keeps the group's invariant.
LEMMA TickGroup ==
  ASSUME Groups!GroupAssumption, GroupInv, Groups!Tick
  PROVE  GroupInv'
  <1>0. Groups!TypeOK /\ GroupPlaces /\ GroupTimes /\ ObjectsAreTrue /\ HandsAreYoung
    BY DEF GroupInv
  <1>1. /\ groupNow' = groupNow + 1 /\ groupNow \in Nat /\ groupNow' \in 0..MaxGroupTime
        /\ left' = [a \in Addresses |-> IF a \in members THEN groupNow' ELSE left[a]]
        /\ UNCHANGED <<members, groups, cached, groupLock, loading, groupPc, groupBegan, group, used>>
        /\ \A w \in Tasks : groupPc[w] # "idle" => groupNow < groupBegan[w] + MaxGroupCall
    BY <1>0 DEF Groups!Tick, Groups!TypeOK, Groups!GroupAssumption
  <1>2. Groups!TypeOK'
    BY <1>0, <1>1 DEF Groups!TypeOK, Groups!GroupAssumption
  <1>4. \A b \in Addresses : left'[b] \in Nat /\ left[b] \in Nat /\ left[b] <= left'[b]
        /\ left'[b] <= groupNow'
    BY <1>0, <1>1 DEF Groups!TypeOK, GroupTimes, Groups!GroupAssumption
  <1>5. GroupPlaces' /\ HandsAreYoung'
    BY <1>0, <1>1 DEF GroupPlaces, HandsAreYoung
  <1>6. GroupTimes'
    BY <1>0, <1>1, <1>4 DEF Groups!TypeOK, GroupTimes, GroupPlaces, Groups!Group, Groups!GroupAssumption
  <1>7. ObjectsAreTrue'
    <2>1. \A i \in 1..Len(groups) : groups[i].addresses \subseteq Addresses /\ groups[i].created \in Nat
      <3>1. \A i \in 1..Len(groups) : groups[i] \in Groups!Group
        BY <1>0, ElementOfSeq DEF Groups!TypeOK
      <3> QED  BY <3>1 DEF Groups!Group, Groups!GroupAssumption
    <2>2. \A x \in Tasks : groupPc[x] \in {"fill", "store"} =>
            loading.addresses \subseteq Addresses /\ loading.created \in Nat
      BY <1>0 DEF GroupPlaces, Groups!Group, Groups!GroupAssumption
    <2> QED  BY <1>0, <1>1, <1>4, <2>1, <2>2 DEF ObjectsAreTrue
  <1> QED  BY <1>2, <1>5, <1>6, <1>7 DEF GroupInv

\* Every step of a group keeps its invariant.
LEMMA GroupNext ==
  ASSUME Groups!GroupAssumption, GroupInv, [Groups!Next]_(Groups!vars)
  PROVE  GroupInv'
  <1>1. ASSUME NEW w \in Tasks, Groups!GetAddress(w) PROVE GroupInv'
    BY <1>1, TryGetValueGroup, EnterGroup, LoadGroup, FillGroup, StoreGroup, LoadFailsGroup, DoneGroup
       DEF Groups!GetAddress
  <1>2. CASE UNCHANGED Groups!vars
    BY <1>2 DEF Groups!vars, Groups!sqlVars, GroupInv, Groups!TypeOK, GroupPlaces, GroupTimes,
                ObjectsAreTrue, HandsAreYoung
  <1> QED  BY <1>1, <1>2, EditGroupGroup, TickGroup DEF Groups!Next

\* An address that GetAddress may choose was a member of its group at most the time for which a group
\* is cached and that of a call ago, however many workers load the group and whoever edits it.
LEMMA GroupsAreRecent ==
  ASSUME Groups!GroupAssumption
  PROVE  Groups!Spec => [](Groups!TypeOK /\ Groups!AddressIsRecent)
  <1>1. GroupInv => Groups!AddressIsRecent
    <2> SUFFICES ASSUME GroupInv, NEW w \in Tasks, groupPc[w] = "choose",
                        NEW a \in groups[group[w]].addresses
                 PROVE  left[a] > groupNow - CacheMinutes - MaxGroupCall
      BY DEF Groups!AddressIsRecent
    <2>1. Groups!TypeOK /\ GroupPlaces /\ GroupTimes /\ ObjectsAreTrue /\ HandsAreYoung
      BY DEF GroupInv
    <2> DEFINE g == groups[group[w]]
    <2>2. group[w] \in 1..Len(groups)
      BY <2>1 DEF Groups!TypeOK, GroupPlaces
    <2>3. g \in Groups!Group
      BY <2>1, <2>2 DEF Groups!TypeOK
    <2>4. a \in Addresses /\ g.created <= left[a] /\ g.created + CacheMinutes > groupBegan[w]
          /\ groupNow <= groupBegan[w] + MaxGroupCall
      BY <2>1, <2>2, <2>3 DEF ObjectsAreTrue, HandsAreYoung, GroupTimes, Groups!Group
    <2>5. g.created \in Nat /\ left[a] \in Nat /\ groupNow \in Nat /\ groupBegan[w] \in Nat
      BY <2>1, <2>3, <2>4 DEF Groups!TypeOK, Groups!Group, Groups!GroupAssumption
    <2> HIDE DEF g
    <2> QED  BY <2>4, <2>5 DEF Groups!GroupAssumption
  <1>2. Groups!Init => GroupInv
    BY GroupInit
  <1>3. GroupInv /\ [Groups!Next]_(Groups!vars) => GroupInv'
    BY GroupNext
  <1>4. GroupInv => Groups!TypeOK
    BY DEF GroupInv
  <1> QED  BY <1>1, <1>2, <1>3, <1>4, PTL DEF Groups!Spec

-----------------------------------------------------------------------------
(* The addresses of a group share the messages                             *)

\* Some number of a set is the least.
LEMMA LeastNumber ==
  ASSUME NEW T \in SUBSET Nat, T # {}
  PROVE  \E x \in T : \A y \in T : x <= y
  <1> DEFINE R == {ss \in Nat \X Nat : ss[1] < ss[2]}
  <1>1. IsWellFoundedOn(R, Nat)
    BY NatLessThanWellFounded DEF OpToRel
  <1>2. PICK x \in T : \A y \in T : ~ (<<y, x>> \in R)
    <2> HIDE DEF R
    <2> QED  BY <1>1, WFMin
  <1>3. ASSUME NEW y \in T PROVE x <= y
    <2>1. ~ (<<y, x>> \in R)
      BY <1>2
    <2> QED  BY <1>2, <1>3, <2>1
  <1> QED  BY <1>3

\* Sums whose terms differ by one at most differ by their number at most.
LEMMA SumsStayClose ==
  ASSUME NEW n \in Nat, NEW p \in [0..n -> Nat], NEW q \in [0..n -> Nat],
         p[0] = 0, q[0] = 0,
         \A i \in 1..n : p[i] - p[i - 1] <= q[i] - q[i - 1] + 1
  PROVE  p[n] - q[n] <= n
  <1> DEFINE T == {i \in 0..n : p[i] - q[i] > i}
  <1> SUFFICES T = {}
    <2>1. n \in 0..n /\ p[n] \in Nat /\ q[n] \in Nat
      OBVIOUS
    <2>2. ~(p[n] - q[n] > n)
      BY <2>1
    <2>3. \A x, y \in Nat : ~(x - y > n) => x - y <= n
      OBVIOUS
    <2> QED  BY <2>1, <2>2, <2>3
  <1> SUFFICES ASSUME T # {} PROVE FALSE
    OBVIOUS
  <1>1. PICK x \in T : \A y \in T : x <= y
    <2>1. T \in SUBSET Nat
      OBVIOUS
    <2> HIDE DEF T
    <2> QED  BY <2>1, LeastNumber
  <1>2. x \in 0..n /\ p[x] - q[x] > x /\ x # 0
    BY <1>1
  <1>3. x \in 1..n /\ x - 1 \in 0..n /\ x - 1 \notin T
    BY <1>1, <1>2
  <1>4. p[x - 1] - q[x - 1] <= x - 1 /\ p[x - 1] \in Nat /\ q[x - 1] \in Nat /\ p[x] \in Nat
        /\ q[x] \in Nat
    BY <1>3
  <1>5. p[x] - p[x - 1] <= q[x] - q[x - 1] + 1
    BY <1>3
  <1>6. \A a, b, c, d \in Nat : ~(a - b > x /\ c - d <= x - 1 /\ a - c <= b - d + 1)
    BY <1>2
  <1> QED  BY <1>2, <1>4, <1>5, <1>6

\* One more, and the others as they were.
LEMMA PlusCounts ==
  ASSUME NEW s \in [Addresses -> [Destinations -> Nat]], NEW a \in Addresses, NEW h \in Destinations
  PROVE  /\ Groups!Plus(s, a, h)[a][h] = s[a][h] + 1
         /\ \A b \in Addresses, g \in Destinations : b # a \/ g # h => Groups!Plus(s, a, h)[b][g] = s[b][g]
  BY DEF Groups!Plus

\* A choice counts in the object in hand, and in the sums from there on.
LEMMA ChosenAddsUp ==
  ASSUME FairInv, NEW w \in Tasks, groupPc[w] = "choose", NEW h \in Destinations, NEW a \in Addresses,
         groups' = [groups EXCEPT ![group[w]].sends = Groups!Plus(@, a, h)],
         used' = Groups!Plus(used, a, h)
  PROVE  ChoicesAddUp'
  <1>0. Groups!TypeOK /\ GroupInv /\ ChoicesAddUp
    BY DEF FairInv, GroupInv
  <1>9. /\ groups' \in Seq(Groups!Group) /\ Len(groups') = Len(groups) /\ Len(groups) \in Nat
        /\ group[w] \in 1..Len(groups)
        /\ \A i \in 1..Len(groups) :
             /\ groups'[i].created = groups[i].created /\ groups'[i].addresses = groups[i].addresses
             /\ groups'[i].sends = IF i = group[w] THEN Groups!Plus(groups[i].sends, a, h)
                                                   ELSE groups[i].sends
    BY <1>0, Chosen
  <1> DEFINE n == Len(groups)
             k == group[w]
  <1>1. /\ Len(groups') = n /\ n \in Nat /\ k \in 1..n
        /\ \A i \in 1..n :
             groups'[i].sends = IF i = k THEN Groups!Plus(groups[i].sends, a, h) ELSE groups[i].sends
    BY <1>9
  <1>2. \A i \in 1..n : groups[i].sends \in [Addresses -> [Destinations -> Nat]]
    <2>1. \A i \in 1..n : groups[i] \in Groups!Group
      BY <1>0, ElementOfSeq DEF Groups!TypeOK
    <2> QED  BY <2>1 DEF Groups!Group
  <1>3. used \in [Addresses -> [Destinations -> Nat]]
    BY <1>0 DEF Groups!TypeOK
  <1> HIDE DEF n, k
  <1> SUFFICES ASSUME NEW b \in Addresses, NEW g \in Destinations
               PROVE  \E p \in [0..n -> 0..used'[b][g]] : AddsUp(p, b, g)'
    BY <1>1 DEF ChoicesAddUp, n
  <1>4. PICK p \in [0..n -> 0..used[b][g]] : AddsUp(p, b, g)
    BY <1>0 DEF ChoicesAddUp, n
  <1>5. /\ p[0] = 0 /\ p[n] = used[b][g]
        /\ \A i \in 1..n : p[i] = p[i - 1] + groups[i].sends[b][g]
    BY <1>4 DEF AddsUp, n
  <1>6. used[b][g] \in Nat /\ \A i \in 0..n : p[i] \in 0..used[b][g]
    BY <1>3
  <1>7. CASE b = a /\ g = h
    <2>0. PICK q : q = [i \in 0..n |-> IF i >= k THEN p[i] + 1 ELSE p[i]]
      OBVIOUS
    <2>1. used'[b][g] = used[b][g] + 1
      BY <1>3, <1>7, PlusCounts
    <2>2. q \in [0..n -> 0..used'[b][g]]
      BY <1>1, <1>6, <2>0, <2>1
    <2>3. q[0] = 0 /\ q[n] = used'[b][g]
      BY <1>1, <1>5, <1>6, <2>0, <2>1
    <2>4. ASSUME NEW i \in 1..n
          PROVE  q[i] = q[i - 1] + groups'[i].sends[b][g]
      <3>1. groups'[i].sends[b][g] = IF i = k THEN groups[i].sends[b][g] + 1 ELSE groups[i].sends[b][g]
        <4>1. CASE i = k
          <5>1. groups'[i].sends = Groups!Plus(groups[i].sends, a, h)
                /\ groups[i].sends \in [Addresses -> [Destinations -> Nat]]
            BY <1>1, <1>2, <4>1
          <5>2. Groups!Plus(groups[i].sends, a, h)[a][h] = groups[i].sends[a][h] + 1
            BY <5>1, PlusCounts
          <5> QED  BY <1>7, <4>1, <5>1, <5>2
        <4>2. CASE i # k
          BY <1>1, <4>2
        <4> QED  BY <4>1, <4>2
      <3>2. p[i] = p[i - 1] + groups[i].sends[b][g] /\ i - 1 \in 0..n /\ i \in 0..n
        BY <1>1, <1>5
      <3>3. p[i] \in Nat /\ p[i - 1] \in Nat /\ groups[i].sends[b][g] \in Nat
        BY <1>2, <1>6, <3>2
      <3>4. q[i] = (IF i >= k THEN p[i] + 1 ELSE p[i])
            /\ q[i - 1] = IF i - 1 >= k THEN p[i - 1] + 1 ELSE p[i - 1]
        BY <2>0, <3>2
      <3>5. i \in Int /\ k \in Int
        BY <1>1
      <3>6. \A x, y, z \in Nat : x = y + z => x + 1 = y + (z + 1) /\ x + 1 = y + 1 + z
        OBVIOUS
      <3>7. CASE i = k
        <4>1. q[i] = p[i] + 1 /\ q[i - 1] = p[i - 1]
              /\ groups'[i].sends[b][g] = groups[i].sends[b][g] + 1
          BY <3>1, <3>4, <3>5, <3>7
        <4> QED  BY <3>2, <3>3, <3>6, <4>1
      <3>8. CASE i > k
        <4>1. q[i] = p[i] + 1 /\ q[i - 1] = p[i - 1] + 1
              /\ groups'[i].sends[b][g] = groups[i].sends[b][g]
          BY <3>1, <3>4, <3>5, <3>8
        <4> QED  BY <3>2, <3>3, <3>6, <4>1
      <3>9. CASE i < k
        <4>1. q[i] = p[i] /\ q[i - 1] = p[i - 1] /\ groups'[i].sends[b][g] = groups[i].sends[b][g]
          BY <3>1, <3>4, <3>5, <3>9
        <4> QED  BY <3>2, <4>1
      <3> QED  BY <3>5, <3>7, <3>8, <3>9
    <2>5. AddsUp(q, b, g)'
      BY <1>1, <2>3, <2>4 DEF AddsUp, n
    <2> QED  BY <2>2, <2>5
  <1>8. CASE ~(b = a /\ g = h)
    <2>1. used'[b][g] = used[b][g]
      BY <1>3, <1>8 DEF Groups!Plus
    <2>2. \A i \in 1..n : groups'[i].sends[b][g] = groups[i].sends[b][g]
      <3> SUFFICES ASSUME NEW i \in 1..n PROVE groups'[i].sends[b][g] = groups[i].sends[b][g]
        OBVIOUS
      <3>1. groups[i].sends \in [Addresses -> [Destinations -> Nat]]
        BY <1>2
      <3>2. Groups!Plus(groups[i].sends, a, h)[b][g] = groups[i].sends[b][g]
        BY <1>8, <3>1 DEF Groups!Plus
      <3>3. groups'[i].sends = Groups!Plus(groups[i].sends, a, h) \/ groups'[i].sends = groups[i].sends
        BY <1>1
      <3> QED  BY <3>2, <3>3
    <2>3. AddsUp(p, b, g)'
      BY <1>1, <1>5, <2>1, <2>2 DEF AddsUp, n
    <2> QED  BY <2>1, <2>3
  <1> QED  BY <1>7, <1>8

\* The one that has sent least is not ahead.
LEMMA ChooseFair ==
  ASSUME Groups!GroupAssumption, FairInv, NEW w \in Tasks, Groups!Choose(w)
  PROVE  FairInv'
  <1>0. Groups!TypeOK /\ GroupInv /\ ObjectsAreApart /\ ObjectsAreFair
    BY DEF FairInv, GroupInv
  <1>1. /\ groupPc[w] = "choose" /\ groupPc' = [groupPc EXCEPT ![w] = "idle"]
        /\ UNCHANGED <<groupNow, members, left, cached, groupLock, loading>>
    BY DEF Groups!Choose, Groups!Done, Groups!Step, Groups!sqlVars
  <1>2. PICK h \in Destinations : \E a \in Groups!Least(groups[group[w]], h) :
          /\ groups' = [groups EXCEPT ![group[w]].sends = Groups!Plus(@, a, h)]
          /\ used' = Groups!Plus(used, a, h)
    BY DEF Groups!Choose
  <1>3. PICK a \in Groups!Least(groups[group[w]], h) :
          /\ groups' = [groups EXCEPT ![group[w]].sends = Groups!Plus(@, a, h)]
          /\ used' = Groups!Plus(used, a, h)
    BY <1>2
  <1>4. group[w] \in 1..Len(groups)
    BY <1>0, <1>1 DEF Groups!TypeOK, GroupInv, GroupPlaces
  <1>5. \A i \in 1..Len(groups) : groups[i] \in Groups!Group
    BY <1>0, ElementOfSeq DEF Groups!TypeOK
  <1>6. a \in Addresses
    BY <1>3, <1>4, <1>5 DEF Groups!Least, Groups!Group
  <1>7. /\ Len(groups') = Len(groups) /\ Len(groups) \in Nat
        /\ \A i \in 1..Len(groups) :
             /\ groups'[i].created = groups[i].created /\ groups'[i].addresses = groups[i].addresses
             /\ groups'[i].sends = IF i = group[w] THEN Groups!Plus(groups[i].sends, a, h)
                                                   ELSE groups[i].sends
    BY <1>0, <1>1, <1>3, <1>6, Chosen
  <1>8. ObjectsAreApart'
    <2>1. \A x \in Tasks : groupPc'[x] \in UnderLock => groupPc[x] = groupPc'[x]
      BY <1>0, <1>1 DEF Groups!TypeOK, UnderLock
    <2>2. Len(groups) # 0 => Newest' = Newest
      BY <1>7 DEF Newest
    <2> QED  BY <1>0, <1>1, <1>7, <2>1, <2>2 DEF ObjectsAreApart, UnderLock
  <1>9. ObjectsAreFair'
    <2>1. ASSUME NEW i \in 1..Len(groups), NEW b \in groups[i].addresses,
                 NEW c \in groups[i].addresses, NEW g \in Destinations
          PROVE  groups'[i].sends[b][g] <= groups'[i].sends[c][g] + 1
      <3>1. b \in Addresses /\ c \in Addresses /\ groups[i].sends \in [Addresses -> [Destinations -> Nat]]
        BY <1>5 DEF Groups!Group
      <3>2. groups[i].sends[b][g] \in Nat /\ groups[i].sends[c][g] \in Nat
        BY <3>1
      <3>3. groups[i].sends[b][g] <= groups[i].sends[c][g] + 1
        BY <1>0 DEF ObjectsAreFair
      <3>4. CASE i = group[w]
        <4>1. groups[i].sends[a][h] <= groups[i].sends[c][h]
          BY <1>3, <3>4 DEF Groups!Least
        <4>2. groups'[i].sends = Groups!Plus(groups[i].sends, a, h)
          BY <1>7, <3>4
        <4>3. \A d \in Addresses : groups'[i].sends[d][g] =
                IF d = a /\ g = h THEN groups[i].sends[d][g] + 1 ELSE groups[i].sends[d][g]
          <5> SUFFICES ASSUME NEW d \in Addresses
                       PROVE  Groups!Plus(groups[i].sends, a, h)[d][g] =
                                IF d = a /\ g = h THEN groups[i].sends[d][g] + 1 ELSE groups[i].sends[d][g]
            BY <4>2
          <5>1. CASE d = a /\ g = h
            BY <3>1, <5>1, PlusCounts
          <5>2. CASE d # a \/ g # h
            BY <1>6, <3>1, <5>2 DEF Groups!Plus
          <5> QED  BY <5>1, <5>2
        <4>4. \A x, y \in Nat : /\ x <= y + 1 => x <= y + 1 + 1
                               /\ x <= y => x + 1 <= y + 1
                               /\ x + 1 <= x + 1 + 1
          OBVIOUS
        <4>5. CASE g # h
          BY <3>1, <3>3, <4>3, <4>5
        <4>6. CASE g = h /\ b = a
          <5>1. groups'[i].sends[b][g] = groups[i].sends[b][g] + 1
            BY <3>1, <4>3, <4>6
          <5>2. groups[i].sends[b][g] <= groups[i].sends[c][g]
            BY <4>1, <4>6
          <5>3. groups'[i].sends[c][g] = groups[i].sends[c][g] \/ c = b
            BY <3>1, <4>3, <4>6
          <5>4. CASE c = b
            <6>1. groups'[i].sends[c][g] = groups[i].sends[b][g] + 1
              BY <5>1, <5>4
            <6> QED  BY <3>2, <4>4, <5>1, <6>1
          <5> QED  BY <3>2, <4>4, <5>1, <5>2, <5>3, <5>4
        <4>7. CASE g = h /\ b # a
          <5>1. groups'[i].sends[b][g] = groups[i].sends[b][g]
            BY <3>1, <4>3, <4>7
          <5>2. \/ groups'[i].sends[c][g] = groups[i].sends[c][g]
                \/ groups'[i].sends[c][g] = groups[i].sends[c][g] + 1
            BY <3>1, <4>3, <4>7
          <5> QED  BY <3>2, <3>3, <4>4, <5>1, <5>2
        <4> QED  BY <4>5, <4>6, <4>7
      <3>5. CASE i # group[w]
        BY <1>7, <3>3, <3>5
      <3> QED  BY <3>4, <3>5
    <2>2. \A x \in Tasks : groupPc'[x] \in {"fill", "store"} => groupPc[x] = groupPc'[x]
      BY <1>0, <1>1 DEF Groups!TypeOK
    <2> QED  BY <1>0, <1>1, <1>7, <2>1, <2>2 DEF ObjectsAreFair
  <1>10. GroupInv'
    BY <1>0, DoneGroup
  <1> QED  BY <1>1, <1>3, <1>6, <1>8, <1>9, <1>10, ChosenAddsUp DEF FairInv

\* A new object has counted nothing.
LEMMA StoreFair ==
  ASSUME Groups!GroupAssumption, FairInv, NEW w \in Tasks, Groups!Store(w)
  PROVE  FairInv'
  <1>0. Groups!TypeOK /\ GroupInv /\ GroupPlaces /\ GroupTimes /\ ObjectsAreApart
        /\ ObjectsAreFair /\ ChoicesAddUp
    BY DEF FairInv, GroupInv
  <1> DEFINE n == Len(groups) + 1
  <1>1. /\ loading \in Groups!Group /\ groups' \in Seq(Groups!Group) /\ Len(groups') = n /\ cached' = n
        /\ groups'[n] = loading /\ \A i \in 1..Len(groups) : groups'[i] = groups[i]
        /\ n \in Nat \ {0} /\ Len(groups) \in Nat
    BY <1>0, Stored
  <1>2. /\ groupPc[w] = "store" /\ groupPc' = [groupPc EXCEPT ![w] = "choose"]
        /\ UNCHANGED <<groupNow, members, left, groupBegan, used>>
    BY DEF Groups!Store, Groups!Step, Groups!sqlVars
  <1>3. \A x \in Tasks : groupPc'[x] \notin UnderLock
    BY <1>0, <1>2 DEF Groups!TypeOK, GroupPlaces, UnderLock
  <1>4. loading.sends = Groups!NoSends /\ loading.created \in Nat /\ loading.created <= groupNow
        /\ loading.addresses \subseteq Addresses
    BY <1>0, <1>1, <1>2 DEF ObjectsAreFair, GroupTimes, Groups!Group, Groups!GroupAssumption
  <1>5. ObjectsAreApart'
    <2>1. Newest' = loading.created
      BY <1>1 DEF Newest
    <2>2. (n - 1) * CacheMinutes <= loading.created
      <3>1. CASE Len(groups) = 0
        BY <1>4, <3>1 DEF Groups!GroupAssumption
      <3>2. CASE Len(groups) # 0
        <4>1. PICK m \in Nat : m = Len(groups)
          BY <1>1
        <4>2. groups[m] \in Groups!Group
          BY <1>0, <3>2, <4>1, ElementOfSeq DEF Groups!TypeOK
        <4>3. Newest \in Nat
          BY <4>1, <4>2 DEF Newest, Groups!Group, Groups!GroupAssumption
        <4>4. (m - 1) * CacheMinutes <= Newest /\ Newest + CacheMinutes <= loading.created
          BY <1>0, <1>2, <3>2, <4>1 DEF ObjectsAreApart
        <4>5. m * CacheMinutes = (m - 1) * CacheMinutes + CacheMinutes
          BY <4>1 DEF Groups!GroupAssumption
        <4>6. (m - 1) * CacheMinutes \in Int /\ m * CacheMinutes \in Int /\ CacheMinutes \in Nat
          BY <4>1 DEF Groups!GroupAssumption
        <4>7. m * CacheMinutes <= loading.created
          BY <1>4, <4>3, <4>4, <4>5, <4>6
        <4> QED  BY <4>1, <4>7
      <3> QED  BY <3>1, <3>2
    <2> HIDE DEF n
    <2> QED  BY <1>1, <1>2, <1>3, <1>4, <2>1, <2>2 DEF ObjectsAreApart, UnderLock
  <1>6. ObjectsAreFair'
    <2>1. ASSUME NEW i \in 1..n, NEW a \in groups'[i].addresses, NEW b \in groups'[i].addresses,
                 NEW h \in Destinations
          PROVE  groups'[i].sends[a][h] <= groups'[i].sends[b][h] + 1
      <3>1. CASE i = n
        BY <1>1, <1>4, <3>1 DEF Groups!NoSends
      <3>2. CASE i # n
        <4>1. i \in 1..Len(groups)
          BY <1>1, <3>2
        <4> QED  BY <1>0, <1>1, <4>1 DEF ObjectsAreFair
      <3> QED  BY <3>1, <3>2
    <2> HIDE DEF n
    <2> QED  BY <1>1, <1>3, <2>1 DEF ObjectsAreFair, UnderLock
  <1>7. ChoicesAddUp'
    <2> SUFFICES ASSUME NEW a \in Addresses, NEW h \in Destinations
                 PROVE  \E q \in [0..n -> 0..used[a][h]] : AddsUp(q, a, h)'
      BY <1>1, <1>2 DEF ChoicesAddUp
    <2>1. PICK p \in [0..Len(groups) -> 0..used[a][h]] : AddsUp(p, a, h)
      BY <1>0 DEF ChoicesAddUp
    <2>2. used[a][h] \in Nat
      BY <1>0 DEF Groups!TypeOK
    <2>0. PICK q : q = [i \in 0..n |-> IF i = n THEN used[a][h] ELSE p[i]]
      OBVIOUS
    <2>3. q \in [0..n -> 0..used[a][h]]
      BY <1>1, <2>0, <2>2
    <2>4. q[0] = 0 /\ q[n] = used[a][h]
      BY <1>1, <2>0, <2>1 DEF AddsUp
    <2>5. ASSUME NEW i \in 1..n
          PROVE  q[i] = q[i - 1] + groups'[i].sends[a][h]
      <3>1. i - 1 \in 0..n /\ i - 1 # n /\ q[i - 1] = p[i - 1]
        BY <1>1, <2>0
      <3>2. CASE i = n
        <4>1. groups'[i].sends[a][h] = 0
          BY <1>1, <1>4, <3>2 DEF Groups!NoSends
        <4>2. p[i - 1] = used[a][h] /\ q[i] = used[a][h]
          BY <1>1, <2>0, <2>1, <3>2 DEF AddsUp
        <4> QED  BY <2>2, <3>1, <4>1, <4>2
      <3>3. CASE i # n
        <4>1. i \in 1..Len(groups) /\ q[i] = p[i]
          BY <1>1, <2>0, <3>3
        <4> QED  BY <1>1, <2>1, <3>1, <4>1 DEF AddsUp
      <3> QED  BY <3>2, <3>3
    <2>6. AddsUp(q, a, h)'
      BY <1>1, <1>2, <2>4, <2>5 DEF AddsUp
    <2> QED  BY <2>3, <2>6
  <1>8. GroupInv'
    BY <1>0, StoreGroup
  <1> QED  BY <1>5, <1>6, <1>7, <1>8 DEF FairInv

\* Nothing is counted: the other steps.
LEMMA OtherFair ==
  ASSUME Groups!GroupAssumption, FairInv, GroupInv', UNCHANGED <<groups, cached, used>>,
         \/ \E w \in Tasks : Groups!TryGetValue(w) \/ Groups!Enter(w) \/ Groups!Load(w)
            \/ Groups!Fill(w) \/ Groups!LoadFails(w) \/ Groups!Leave(w)
         \/ Groups!EditGroup \/ Groups!Tick \/ UNCHANGED Groups!vars
  PROVE  FairInv'
  <1>0. Groups!TypeOK /\ GroupInv /\ GroupPlaces /\ GroupTimes /\ ObjectsAreApart
        /\ ObjectsAreFair /\ ChoicesAddUp
    BY DEF FairInv, GroupInv
  <1>1. ChoicesAddUp'
    BY <1>0 DEF ChoicesAddUp, AddsUp
  <1>2. Len(groups) # 0 => Newest \in Nat /\ Newest' = Newest
    <2>1. Len(groups) # 0 => groups[Len(groups)] \in Groups!Group
      BY <1>0, LenProperties, ElementOfSeq DEF Groups!TypeOK
    <2> QED  BY <2>1 DEF Newest, Groups!Group, Groups!GroupAssumption
  <1>3. ASSUME NEW w \in Tasks,
               Groups!TryGetValue(w) \/ Groups!Enter(w) \/ Groups!Load(w) \/ Groups!Fill(w)
               \/ Groups!LoadFails(w) \/ Groups!Leave(w)
        PROVE  ObjectsAreApart' /\ ObjectsAreFair'
    <2>0. groupNow' = groupNow
      BY <1>3 DEF Groups!TryGetValue, Groups!Enter, Groups!Load, Groups!Fill, Groups!LoadFails,
                  Groups!Leave, Groups!Done
    <2>1. CASE Groups!TryGetValue(w) \/ Groups!LoadFails(w) \/ Groups!Leave(w)
      <3>1. \A x \in Tasks : groupPc'[x] \in UnderLock => groupPc[x] = groupPc'[x] /\ x # w
        BY <1>0, <2>1 DEF Groups!TryGetValue, Groups!LoadFails, Groups!Leave, Groups!Done, Groups!Step,
                          UnderLock, Groups!TypeOK
      <3>2. \A x \in Tasks : groupPc'[x] \in UnderLock => loading' = loading
        BY <1>0, <2>1, <3>1 DEF Groups!TryGetValue, Groups!LoadFails, Groups!Leave, Groups!Done,
                                Groups!Step, UnderLock, Groups!TypeOK, GroupPlaces
      <3> QED  BY <1>0, <1>2, <2>0, <3>1, <3>2 DEF ObjectsAreApart, ObjectsAreFair, UnderLock
    <2>2. CASE Groups!Enter(w)
      <3>1. /\ UNCHANGED loading /\ (groupPc'[w] = "load" => ~Groups!Fresh)
               /\ groupPc'[w] \in {"load", "choose"}
            /\ \A x \in Tasks \ {w} : groupPc'[x] = groupPc[x]
        BY <1>0, <2>2 DEF Groups!Enter, Groups!Step, Groups!TypeOK
      <3>2. Len(groups) # 0 /\ ~Groups!Fresh => Newest + CacheMinutes <= groupNow
        BY <1>0, <1>2 DEF Groups!Fresh, Newest, ObjectsAreApart, Groups!TypeOK, Groups!GroupAssumption
      <3> QED  BY <1>0, <1>2, <2>0, <3>1, <3>2 DEF ObjectsAreApart, ObjectsAreFair
    <2>3. CASE Groups!Load(w)
      <3>1. /\ groupPc[w] = "load" /\ loading'.created = groupNow
               /\ loading'.sends = Groups!NoSends /\ groupPc'[w] = "fill"
            /\ \A x \in Tasks \ {w} : groupPc'[x] = groupPc[x] /\ groupPc[x] \notin UnderLock
        BY <1>0, <2>3 DEF Groups!Load, Groups!Step, Groups!TypeOK, GroupPlaces, UnderLock
      <3> QED  BY <1>0, <1>2, <2>0, <3>1 DEF ObjectsAreApart, ObjectsAreFair, UnderLock
    <2>4. CASE Groups!Fill(w)
      <3>1. loading \in Groups!Group /\ groupPc[w] = "fill" /\ groupPc'[w] = "store"
            /\ \A x \in Tasks \ {w} : groupPc'[x] = groupPc[x] /\ groupPc[x] \notin UnderLock
        BY <1>0, <2>4 DEF Groups!Fill, Groups!Step, Groups!TypeOK, GroupPlaces, UnderLock
      <3>2. loading'.created = loading.created /\ loading'.sends = loading.sends
        BY <2>4, <3>1 DEF Groups!Fill, Groups!Group
      <3> QED  BY <1>0, <1>2, <2>0, <3>1, <3>2 DEF ObjectsAreApart, ObjectsAreFair, UnderLock
    <2> QED  BY <1>3, <2>1, <2>2, <2>3, <2>4
  <1>4. CASE Groups!EditGroup \/ Groups!Tick \/ UNCHANGED Groups!vars
    <2>1. UNCHANGED <<groupPc, loading>> /\ groupNow \in Nat /\ groupNow' \in Nat
          /\ groupNow <= groupNow'
      BY <1>0, <1>4 DEF Groups!EditGroup, Groups!Tick, Groups!vars, Groups!TypeOK,
                        Groups!GroupAssumption
    <2>2. \A x \in Nat : x <= groupNow => x <= groupNow'
      BY <2>1
    <2>3. UNCHANGED <<groups, cached>> /\ CacheMinutes \in Nat
      BY DEF Groups!GroupAssumption
    <2>4. Len(groups) # 0 => Newest + CacheMinutes \in Nat
      BY <1>2, <2>3
    <2>5. ObjectsAreApart'
      BY <1>0, <1>2, <2>1, <2>2, <2>3, <2>4 DEF ObjectsAreApart
    <2>6. ObjectsAreFair'
      BY <1>0, <2>1, <2>3 DEF ObjectsAreFair, Groups!NoSends
    <2> QED  BY <1>1, <2>5, <2>6 DEF FairInv
  <1> QED  BY <1>1, <1>3, <1>4 DEF FairInv

\* Every step keeps the sums.
LEMMA FairNext ==
  ASSUME Groups!GroupAssumption, FairInv, [Groups!Next]_(Groups!vars)
  PROVE  FairInv'
  <1>1. GroupInv'
    BY GroupNext DEF FairInv
  <1>2. ASSUME NEW w \in Tasks, Groups!GetAddress(w) PROVE FairInv'
    <2>1. CASE Groups!Store(w) \/ Groups!Choose(w)
      BY <2>1, StoreFair, ChooseFair
    <2>2. CASE Groups!TryGetValue(w) \/ Groups!Enter(w) \/ Groups!Load(w) \/ Groups!Fill(w)
               \/ Groups!LoadFails(w) \/ Groups!Leave(w)
      <3>1. UNCHANGED <<groups, cached, used>>
        BY <2>2 DEF Groups!TryGetValue, Groups!Enter, Groups!Load, Groups!Fill, Groups!LoadFails,
                    Groups!Leave, Groups!Done
      <3> QED  BY <1>1, <2>2, <3>1, OtherFair
    <2> QED  BY <1>2, <2>1, <2>2 DEF Groups!GetAddress
  <1>3. CASE Groups!EditGroup \/ Groups!Tick \/ UNCHANGED Groups!vars
    <2>1. UNCHANGED <<groups, cached, used>>
      BY <1>3 DEF Groups!EditGroup, Groups!Tick, Groups!vars
    <2> QED  BY <1>1, <1>3, <2>1, OtherFair
  <1> QED  BY <1>2, <1>3 DEF Groups!Next

\* Without an object the sums are empty.
LEMMA FairInit ==
  ASSUME Groups!GroupAssumption, Groups!Init
  PROVE  FairInv
  <1>1. Len(groups) = 0 /\ used = Groups!NoSends /\ cached = 0 /\ \A w \in Tasks : groupPc[w] = "idle"
    BY DEF Groups!Init
  <1>2. ObjectsAreApart /\ ObjectsAreFair
    BY <1>1 DEF ObjectsAreApart, ObjectsAreFair
  <1>3. ChoicesAddUp
    <2> SUFFICES ASSUME NEW a \in Addresses, NEW h \in Destinations
                 PROVE  \E p \in [0..Len(groups) -> 0..used[a][h]] : AddsUp(p, a, h)
      BY DEF ChoicesAddUp
    <2>1. used[a][h] = 0
      BY <1>1 DEF Groups!NoSends
    <2>2. [i \in 0..0 |-> 0] \in [0..0 -> 0..0] /\ [i \in 0..0 |-> 0][0] = 0
      OBVIOUS
    <2>3. AddsUp([i \in 0..0 |-> 0], a, h)
      BY <1>1, <2>1, <2>2 DEF AddsUp
    <2> QED  BY <1>1, <2>1, <2>2, <2>3
  <1> QED  BY <1>2, <1>3, GroupInit DEF FairInv

\* Two addresses that stay in a group differ in the messages they got for a host by one, and one more
\* for each period for which a group is cached, however the choices of workers interleave and although
\* workers go on with objects that were replaced.
LEMMA GroupsShareFairly ==
  ASSUME Groups!GroupAssumption
  PROVE  Groups!Spec => []Groups!SharedFairly
  <1>1. FairInv => Groups!SharedFairly
    <2> SUFFICES ASSUME FairInv, NEW a \in Addresses, NEW b \in Addresses, NEW h \in Destinations,
                        \A i \in 1..Len(groups) : {a, b} \subseteq groups[i].addresses
                 PROVE  used[a][h] - used[b][h] <= 1 + groupNow \div CacheMinutes
      BY DEF Groups!SharedFairly
    <2>0. Groups!TypeOK /\ ObjectsAreApart /\ ObjectsAreFair /\ ChoicesAddUp
      BY DEF FairInv, GroupInv
    <2>1. PICK n \in Nat : n = Len(groups)
      BY <2>0, LenProperties DEF Groups!TypeOK
    <2>2. used[a][h] \in Nat /\ used[b][h] \in Nat /\ groupNow \in Nat
      BY <2>0 DEF Groups!TypeOK, Groups!GroupAssumption
    <2>3. PICK p \in [0..n -> 0..used[a][h]] : AddsUp(p, a, h)
      BY <2>0, <2>1 DEF ChoicesAddUp
    <2>4. PICK q \in [0..n -> 0..used[b][h]] : AddsUp(q, b, h)
      BY <2>0, <2>1 DEF ChoicesAddUp
    <2>5. p \in [0..n -> Nat] /\ q \in [0..n -> Nat] /\ p[0] = 0 /\ q[0] = 0
          /\ p[n] = used[a][h] /\ q[n] = used[b][h]
      BY <2>1, <2>2, <2>3, <2>4 DEF AddsUp
    <2>6. ASSUME NEW i \in 1..n PROVE p[i] - p[i - 1] <= q[i] - q[i - 1] + 1
      <3>1. groups[i] \in Groups!Group
        BY <2>0, <2>1, ElementOfSeq DEF Groups!TypeOK
      <3>2. groups[i].sends[a][h] \in Nat /\ groups[i].sends[b][h] \in Nat
        BY <3>1 DEF Groups!Group
      <3>3. groups[i].sends[a][h] <= groups[i].sends[b][h] + 1
        BY <2>0, <2>1 DEF ObjectsAreFair
      <3>4. p[i] = p[i - 1] + groups[i].sends[a][h] /\ q[i] = q[i - 1] + groups[i].sends[b][h]
        BY <2>1, <2>3, <2>4 DEF AddsUp
      <3>5. i - 1 \in 0..n /\ p[i - 1] \in Nat /\ q[i - 1] \in Nat
        BY <2>1, <2>5
      <3>6. \A x, y, u, v \in Nat : x <= y + 1 => (u + x) - u <= (v + y) - v + 1
        OBVIOUS
      <3> QED  BY <3>2, <3>3, <3>4, <3>5, <3>6
    <2>7. used[a][h] - used[b][h] <= n
      BY <2>1, <2>5, <2>6, SumsStayClose
    <2>8. CacheMinutes \in Nat \ {0}
      BY DEF Groups!GroupAssumption
    <2>9. PICK t \in Nat : t = groupNow \div CacheMinutes
      <3>1. \A x \in Nat, c \in Nat \ {0} : x \div c \in Int /\ x < ((x \div c) + 1) * c
        OBVIOUS
      <3>2. groupNow \div CacheMinutes \in Int
            /\ groupNow < ((groupNow \div CacheMinutes) + 1) * CacheMinutes
        BY <2>2, <2>8, <3>1
      <3>3. PICK z \in Int : z = groupNow \div CacheMinutes
        BY <3>2
      <3>4. ASSUME z < 0 PROVE FALSE
        <4>1. PICK y \in Nat : y = -(z + 1)
          <5>1. -(z + 1) \in Nat
            BY <3>4
          <5> QED  BY <5>1
        <4>2. (z + 1) * CacheMinutes = -(y * CacheMinutes) /\ y * CacheMinutes \in Nat
          BY <2>8, <4>1
        <4> QED  BY <2>2, <3>2, <3>3, <4>2
      <3> QED  BY <3>3, <3>4
    <2>10. groupNow < (t + 1) * CacheMinutes
      <3>1. \A x \in Nat, c \in Nat \ {0} : x < ((x \div c) + 1) * c
        OBVIOUS
      <3> QED  BY <2>2, <2>8, <2>9, <3>1
    <2>11. n <= 1 + t
      <3> SUFFICES ASSUME n >= t + 2 PROVE FALSE
        BY <2>1, <2>9
      <3>1. groups[n] \in Groups!Group
        BY <2>0, <2>1, <2>9, ElementOfSeq DEF Groups!TypeOK
      <3>2. PICK newest \in Nat : newest = Newest
        BY <2>1, <3>1 DEF Newest, Groups!Group, Groups!GroupAssumption
      <3>3. (n - 1) * CacheMinutes <= newest /\ newest <= groupNow
        BY <2>0, <2>1, <2>9, <3>2 DEF ObjectsAreApart
      <3>4. (t + 1) * CacheMinutes <= (n - 1) * CacheMinutes
        <4>1. PICK d \in Nat : n - 1 = t + 1 + d
          <5>1. n - 2 - t \in Nat /\ n - 1 = t + 1 + (n - 2 - t)
            <6>1. \A x, y \in Nat : x >= y + 2 => x - 2 - y \in Nat /\ x - 1 = y + 1 + (x - 2 - y)
              OBVIOUS
            <6> QED  BY <2>1, <2>9, <6>1
          <5> QED  BY <5>1
        <4>2. (n - 1) * CacheMinutes = (t + 1) * CacheMinutes + d * CacheMinutes
          BY <2>8, <4>1
        <4>3. d * CacheMinutes \in Nat /\ (t + 1) * CacheMinutes \in Nat
          BY <2>8, <4>1
        <4> QED  BY <4>2, <4>3
      <3>5. (t + 1) * CacheMinutes \in Int /\ (n - 1) * CacheMinutes \in Int
        BY <2>8, <2>9
      <3> QED  BY <2>2, <2>10, <3>2, <3>3, <3>4, <3>5
    <2>12. \A x, y \in Nat : x - y <= n => x - y <= 1 + t
      BY <2>9, <2>11
    <2> QED  BY <2>2, <2>7, <2>9, <2>12
  <1>2. Groups!Init => FairInv
    BY FairInit
  <1>3. FairInv /\ [Groups!Next]_(Groups!vars) => FairInv'
    BY FairNext
  <1> QED  BY <1>1, <1>2, <1>3, PTL DEF Groups!Spec

-----------------------------------------------------------------------------
(***************************************************************************)
(* Where a message is sent to: MxRecords.                                  *)
(***************************************************************************)

\* What a worker found, and what is in the cache, was answered by the resolver: while the lookup
\* lasted, or not longer before the record was made than a lookup takes.
FoundIsTrue ==
  \A w \in Tasks : lookPc[w] \in {"stamp", "store"} /\ found[w] # <<>> =>
    Records!AnswerFor(found[w]) \in Zones /\ named[Records!AnswerFor(found[w])] <= took[w]

RecordsAreTrue ==
  records # None /\ records.mx # <<>> =>
    Records!AnswerFor(records.mx) \in Zones
    /\ named[Records!AnswerFor(records.mx)] <= records.age + MaxQuery

\* The time is taken after the lookup began.
StampIsLater == \A w \in Tasks : stamp[w] <= took[w]

RouteInv == Records!TypeOK /\ named[zone] = 0 /\ FoundIsTrue /\ RecordsAreTrue /\ StampIsLater

\* The invariant holds of an empty cache.
LEMMA RouteInit ==
  ASSUME Records!RecordsAssumption, Records!Init
  PROVE  RouteInv
  BY DEF Records!RecordsAssumption, Records!Init, RouteInv, Records!TypeOK, FoundIsTrue,
         RecordsAreTrue, StampIsLater, Records!Ages, Records!Hosts

\* Destinations that DNS has for the domain are an answer of the resolver as they are.
LEMMA ZoneIsOwnAnswer ==
  ASSUME Records!RecordsAssumption, NEW z \in Zones
  PROVE  Records!AnswerFor(z) = z /\ z \in Seq(Records!Hosts)
  <1>1. z \in Seq(Mxs)
    BY DEF Records!RecordsAssumption
  <1>2. z # <<Domain>>
    <2> SUFFICES ASSUME z = <<Domain>> PROVE FALSE
      OBVIOUS
    <2>1. z[1] = Domain /\ z[1] \in Mxs
      BY <1>1
    <2> QED  BY <2>1 DEF Records!RecordsAssumption
  <1>3. z \in Seq(Records!Hosts)
    BY <1>1 DEF Records!Hosts
  <1> QED  BY <1>2, <1>3 DEF Records!AnswerFor

\* Every step keeps it.
LEMMA RouteNext ==
  ASSUME Records!RecordsAssumption, RouteInv, [Records!Next]_(Records!vars)
  PROVE  RouteInv'
  <1>0. Records!TypeOK /\ named[zone] = 0 /\ FoundIsTrue /\ RecordsAreTrue /\ StampIsLater
    BY DEF RouteInv
  <1>a. MaxAge \in Nat /\ MaxQuery \in Nat /\ <<>> \in Zones /\ Domain \in Records!Hosts
    BY DEF Records!RecordsAssumption, Records!Hosts
  <1>1. ASSUME NEW w \in Tasks, Records!LookUp(w) \/ Records!Answer(w) PROVE RouteInv'
    <2>1. Records!TypeOK'
      <3>1. found' \in [Tasks -> Seq(Records!Hosts)]
        <4>1. CASE Records!LookUp(w) /\ found' = [found EXCEPT ![w] = records.mx] /\ records # None
          <5>1. records.mx \in Seq(Records!Hosts)
            BY <1>0, <4>1 DEF Records!TypeOK
          <5> QED  BY <1>0, <4>1, <5>1 DEF Records!TypeOK
        <4>2. CASE found' = found
          BY <1>0, <4>2 DEF Records!TypeOK
        <4>3. CASE found' = [found EXCEPT ![w] = <<>>]
          <5>1. <<>> \in Seq(Records!Hosts)
            OBVIOUS
          <5> QED  BY <1>0, <4>3, <5>1 DEF Records!TypeOK
        <4> QED  BY <1>1, <4>1, <4>2, <4>3 DEF Records!LookUp, Records!Answer
      <3>2. lookPc' = [lookPc EXCEPT ![w] = "answer"] \/ lookPc' = [lookPc EXCEPT ![w] = "query"]
            \/ lookPc' = [lookPc EXCEPT ![w] = "idle"]
        BY <1>1 DEF Records!LookUp, Records!Answer, Records!Step
      <3>3. UNCHANGED <<zone, named, records, took, stamp>>
        BY <1>1 DEF Records!LookUp, Records!Answer
      <3> QED  BY <1>0, <3>1, <3>2, <3>3 DEF Records!TypeOK
    <2>2. FoundIsTrue'
      BY <1>0, <1>1 DEF Records!LookUp, Records!Answer, Records!Step, Records!TypeOK, FoundIsTrue
    <2>3. UNCHANGED <<zone, named, records>>
      BY <1>1 DEF Records!LookUp, Records!Answer
    <2>4. StampIsLater'
      BY <1>0, <1>1 DEF Records!LookUp, Records!Answer, StampIsLater
    <2> QED  BY <1>0, <2>1, <2>2, <2>3, <2>4 DEF RouteInv, RecordsAreTrue
  <1>2. ASSUME NEW w \in Tasks, Records!Query(w) PROVE RouteInv'
    <2>1. lookPc[w] = "query" /\ lookPc' = [lookPc EXCEPT ![w] = "stamp"]
          /\ UNCHANGED <<zone, records, took, stamp>>
      BY <1>2 DEF Records!Query, Records!Step
    <2>2. /\ named' \in [Zones -> Records!Ages] /\ named'[zone] = 0
          /\ \A z \in Zones : named'[z] <= named[z]
      <3>1. named \in [Zones -> Records!Ages] /\ zone \in Zones /\ named[zone] = 0
            /\ \A z \in Zones : named[z] \in 0..MaxAge
        BY <1>0 DEF Records!TypeOK, Records!Ages
      <3>2. 0 \in Records!Ages /\ \A x \in 0..MaxAge : 0 <= x /\ x <= x
        BY <1>a DEF Records!Ages
      <3>3. CASE named' = named
        BY <3>1, <3>2, <3>3
      <3>4. CASE named' = [named EXCEPT ![<<>>] = 0]
        <4> DEFINE none == <<>>
        <4>1. none \in Zones /\ named' = [named EXCEPT ![none] = 0]
          BY <1>a, <3>4
        <4> HIDE DEF none
        <4> QED  BY <3>1, <3>2, <4>1
      <3> QED  BY <1>2, <3>3, <3>4 DEF Records!Query
    <2>3. PICK mx \in Seq(Records!Hosts) :
            /\ found' = [found EXCEPT ![w] = mx]
            /\ mx # <<>> => Records!AnswerFor(mx) \in Zones /\ named'[Records!AnswerFor(mx)] = 0
      <3>1. CASE found' = [found EXCEPT ![w] = IF zone = <<>> THEN <<Domain>> ELSE zone]
                 /\ named' = named
        <4>1. CASE zone = <<>>
          <5>1. <<Domain>> \in Seq(Records!Hosts) /\ Records!AnswerFor(<<Domain>>) = zone
            BY <1>a, <4>1 DEF Records!AnswerFor
          <5> QED  BY <1>0, <3>1, <4>1, <5>1 DEF Records!TypeOK
        <4>2. CASE zone # <<>>
          <5>1. zone \in Zones /\ zone \in Seq(Records!Hosts) /\ Records!AnswerFor(zone) = zone
            BY <1>0, ZoneIsOwnAnswer DEF Records!TypeOK
          <5> QED  BY <1>0, <3>1, <4>2, <5>1
        <4> QED  BY <4>1, <4>2
      <3>2. CASE found' = [found EXCEPT ![w] = <<Domain>>] /\ named' = [named EXCEPT ![<<>>] = 0]
        <4>1. <<Domain>> \in Seq(Records!Hosts) /\ Records!AnswerFor(<<Domain>>) = <<>>
          BY <1>a DEF Records!AnswerFor
        <4>2. named'[<<>>] = 0
          BY <1>0, <1>a, <3>2 DEF Records!TypeOK
        <4> QED  BY <1>a, <3>2, <4>1, <4>2
      <3>3. CASE found' = [found EXCEPT ![w] = <<>>]
        <4>1. <<>> \in Seq(Records!Hosts)
          OBVIOUS
        <4> QED  BY <3>3, <4>1
      <3> QED  BY <1>2, <3>1, <3>2, <3>3 DEF Records!Query, Records!Finds
    <2>4. Records!TypeOK'
      BY <1>0, <2>1, <2>2, <2>3 DEF Records!TypeOK
    <2>5. FoundIsTrue'
      <3> SUFFICES ASSUME NEW x \in Tasks, lookPc'[x] \in {"stamp", "store"}, found'[x] # <<>>
                   PROVE  Records!AnswerFor(found'[x]) \in Zones
                          /\ named'[Records!AnswerFor(found'[x])] <= took[x]
        BY <2>1 DEF FoundIsTrue, Records!AnswerFor
      <3>1. CASE x = w
        <4>1. found'[x] = mx /\ took[x] \in Nat
          BY <1>0, <2>3, <3>1, <1>a DEF Records!TypeOK
        <4> QED  BY <2>3, <4>1
      <3>2. CASE x # w
        <4>1. found'[x] = found[x] /\ lookPc'[x] = lookPc[x] /\ took[x] \in Nat
          BY <1>0, <2>1, <2>3, <3>2, <1>a DEF Records!TypeOK
        <4>2. Records!AnswerFor(found[x]) \in Zones /\ named[Records!AnswerFor(found[x])] <= took[x]
          BY <1>0, <4>1 DEF FoundIsTrue
        <4>3. named[Records!AnswerFor(found[x])] \in Nat /\ named'[Records!AnswerFor(found[x])] \in Nat
          BY <1>0, <1>a, <2>2, <4>2 DEF Records!TypeOK, Records!Ages
        <4> QED  BY <2>2, <4>1, <4>2, <4>3
      <3> QED  BY <3>1, <3>2
    <2>6. RecordsAreTrue'
      <3> SUFFICES ASSUME records # None, records.mx # <<>>
                   PROVE  Records!AnswerFor(records.mx) \in Zones
                          /\ named'[Records!AnswerFor(records.mx)] <= records.age + MaxQuery
        BY <2>1 DEF RecordsAreTrue, Records!AnswerFor
      <3>1. Records!AnswerFor(records.mx) \in Zones
            /\ named[Records!AnswerFor(records.mx)] <= records.age + MaxQuery
        BY <1>0 DEF RecordsAreTrue
      <3>2. records.age \in Nat /\ named[Records!AnswerFor(records.mx)] \in Nat
            /\ named'[Records!AnswerFor(records.mx)] \in Nat
        BY <1>0, <1>a, <2>2, <3>1 DEF Records!TypeOK, Records!Ages
      <3> QED  BY <1>a, <2>2, <3>1, <3>2
    <2>7. StampIsLater'
      BY <1>0, <2>1 DEF StampIsLater
    <2> QED  BY <2>1, <2>2, <2>4, <2>5, <2>6, <2>7 DEF RouteInv
  <1>3. ASSUME NEW w \in Tasks, Records!Stamp(w) PROVE RouteInv'
    <2>1. Records!TypeOK'
      BY <1>0, <1>3, <1>a DEF Records!Stamp, Records!Step, Records!TypeOK
    <2>2. StampIsLater'
      BY <1>0, <1>3, <1>a DEF Records!Stamp, StampIsLater, Records!TypeOK
    <2> QED  BY <1>0, <1>3, <2>1, <2>2 DEF Records!Stamp, Records!Step, Records!TypeOK, RouteInv,
                                           FoundIsTrue, RecordsAreTrue, Records!AnswerFor
  <1>4. ASSUME NEW w \in Tasks, Records!Store(w) PROVE RouteInv'
    <2>1. lookPc[w] = "store" /\ lookPc' = [lookPc EXCEPT ![w] = "answer"]
          /\ UNCHANGED <<zone, named, found>>
          /\ took' = [took EXCEPT ![w] = 0] /\ stamp' = [stamp EXCEPT ![w] = 0]
      BY <1>4 DEF Records!Store, Records!Step
    <2>2. stamp[w] \in Nat /\ stamp[w] \in Records!Ages /\ took[w] \in 0..MaxQuery
      <3>1. 0..MaxQuery \subseteq Records!Ages
        <4>1. CASE \E h \in Records!Hosts : TRUE
          <5>1. PICK h \in Records!Hosts : Ttl[h] \in Nat /\ Ttl[h] + MaxQuery < MaxAge
            BY <4>1 DEF Records!RecordsAssumption
          <5> QED  BY <1>a, <5>1 DEF Records!Ages
        <4> QED  BY <1>a, <4>1
      <3> QED  BY <1>0, <1>a, <3>1 DEF Records!TypeOK
    <2>3. \/ records' = records
          \/ records' = [mx |-> found[w], age |-> stamp[w]]
      BY <1>4 DEF Records!Store
    <2>4. Records!TypeOK'
      BY <1>0, <1>a, <2>1, <2>2, <2>3 DEF Records!TypeOK
    <2>5. FoundIsTrue'
      BY <1>0, <2>1 DEF Records!TypeOK, FoundIsTrue, Records!AnswerFor
    <2>6. RecordsAreTrue'
      <3>1. CASE records' = records
        BY <1>0, <2>1, <3>1 DEF RecordsAreTrue, Records!AnswerFor
      <3>2. CASE records' = [mx |-> found[w], age |-> stamp[w]]
        <4> SUFFICES ASSUME found[w] # <<>>
                     PROVE  Records!AnswerFor(found[w]) \in Zones
                            /\ named[Records!AnswerFor(found[w])] <= stamp[w] + MaxQuery
          BY <2>1, <3>2 DEF RecordsAreTrue, Records!AnswerFor
        <4>1. Records!AnswerFor(found[w]) \in Zones /\ named[Records!AnswerFor(found[w])] <= took[w]
          BY <1>0, <2>1 DEF FoundIsTrue
        <4>2. named[Records!AnswerFor(found[w])] \in Nat
          BY <1>0, <1>a, <4>1 DEF Records!TypeOK, Records!Ages
        <4> QED  BY <1>a, <2>2, <4>1, <4>2
      <3> QED  BY <2>3, <3>1, <3>2
    <2>7. StampIsLater'
      BY <1>0, <2>1 DEF StampIsLater, Records!TypeOK
    <2> QED  BY <1>0, <2>1, <2>4, <2>5, <2>6, <2>7 DEF RouteInv
  <1>5. CASE Records!ZoneChanges
    <2>1. /\ zone' \in Zones /\ named' = [named EXCEPT ![zone'] = 0]
          /\ UNCHANGED <<records, lookPc, found, took, stamp>>
      BY <1>5 DEF Records!ZoneChanges
    <2>2. /\ named' \in [Zones -> Records!Ages] /\ named'[zone'] = 0
          /\ \A z \in Zones : named'[z] <= named[z] /\ named'[z] \in Nat /\ named[z] \in Nat
      BY <1>0, <1>a, <2>1 DEF Records!TypeOK, Records!Ages
    <2>3. Records!TypeOK'
      BY <1>0, <2>1, <2>2 DEF Records!TypeOK
    <2>4. FoundIsTrue'
      <3> SUFFICES ASSUME NEW x \in Tasks, lookPc[x] \in {"stamp", "store"}, found[x] # <<>>
                   PROVE  Records!AnswerFor(found[x]) \in Zones
                          /\ named'[Records!AnswerFor(found[x])] <= took[x]
        BY <2>1 DEF FoundIsTrue, Records!AnswerFor
      <3>1. Records!AnswerFor(found[x]) \in Zones /\ named[Records!AnswerFor(found[x])] <= took[x]
            /\ took[x] \in Nat
        BY <1>0, <1>a DEF FoundIsTrue, Records!TypeOK
      <3> QED  BY <2>2, <3>1
    <2>5. RecordsAreTrue'
      <3> SUFFICES ASSUME records # None, records.mx # <<>>
                   PROVE  Records!AnswerFor(records.mx) \in Zones
                          /\ named'[Records!AnswerFor(records.mx)] <= records.age + MaxQuery
        BY <2>1 DEF RecordsAreTrue, Records!AnswerFor
      <3>1. Records!AnswerFor(records.mx) \in Zones
            /\ named[Records!AnswerFor(records.mx)] <= records.age + MaxQuery
            /\ records.age \in Nat
        BY <1>0, <1>a DEF RecordsAreTrue, Records!TypeOK, Records!Ages
      <3> QED  BY <1>a, <2>2, <3>1
    <2>6. StampIsLater'
      BY <1>0, <2>1 DEF StampIsLater
    <2> QED  BY <2>2, <2>3, <2>4, <2>5, <2>6 DEF RouteInv
  <1>6. CASE Records!Tick
    <2>1. /\ \A w \in Tasks : lookPc[w] \in {"query", "stamp", "store"} =>
               took[w] < MaxQuery /\ took'[w] = took[w] + 1
          /\ named' = [z \in Zones |-> IF z = zone THEN 0 ELSE Records!Older(named[z])]
          /\ records' = IF records = None THEN None ELSE [records EXCEPT !.age = Records!Older(@)]
          /\ UNCHANGED <<zone, lookPc, found>>
      BY <1>6 DEF Records!Tick, Records!LookingUp
    <2>2. \A age \in Records!Ages : Records!Older(age) \in Records!Ages /\ age \in Nat
      BY <1>a DEF Records!Older, Records!Ages
    <2>3. /\ named' \in [Zones -> Records!Ages] /\ named'[zone] = 0
          /\ \A z \in Zones : named[z] \in Nat /\ named'[z] \in Nat /\ named'[z] <= named[z] + 1
             /\ named'[z] <= MaxAge
      <3>1. named' \in [Zones -> Records!Ages] /\ named'[zone] = 0
        BY <1>0, <1>a, <2>1, <2>2 DEF Records!TypeOK, Records!Ages
      <3>2. ASSUME NEW z \in Zones
            PROVE  named[z] \in Nat /\ named'[z] \in Nat /\ named'[z] <= named[z] + 1
                   /\ named'[z] <= MaxAge
        <4>1. named[z] \in Nat /\ named'[z] \in Nat /\ named'[z] <= MaxAge /\ named[z] <= MaxAge
          BY <1>0, <1>a, <3>1 DEF Records!TypeOK, Records!Ages
        <4>2. named'[z] = 0 \/ named'[z] = Records!Older(named[z])
          BY <2>1
        <4> QED  BY <4>1, <4>2 DEF Records!Older
      <3> QED  BY <3>1, <3>2
    <2>4. took' \in [Tasks -> 0..MaxQuery] /\ stamp' \in [Tasks -> 0..MaxQuery]
      <3>1. \A w \in Tasks : took[w] \in Nat /\ took[w] <= MaxQuery /\ stamp[w] \in Nat
        BY <1>0, <1>a DEF Records!TypeOK
      <3>2. /\ \A w \in Records!LookingUp : took[w] < MaxQuery
            /\ took' = [w \in Tasks |-> IF w \in Records!LookingUp THEN took[w] + 1 ELSE 0]
            /\ stamp' = [w \in Tasks |-> IF lookPc[w] = "store" THEN stamp[w] + 1 ELSE 0]
        BY <1>6 DEF Records!Tick
      <3>3. \A w \in Tasks : stamp[w] <= took[w]
        BY <1>0 DEF StampIsLater
      <3>4. \A w \in Tasks : (IF w \in Records!LookingUp THEN took[w] + 1 ELSE 0) \in 0..MaxQuery
        BY <1>a, <3>1, <3>2
      <3>5. \A w \in Tasks : (IF lookPc[w] = "store" THEN stamp[w] + 1 ELSE 0) \in 0..MaxQuery
        <4>1. \A w \in Tasks : lookPc[w] = "store" => took[w] < MaxQuery
          BY <2>1
        <4> QED  BY <1>a, <3>1, <3>3, <4>1
      <3> QED  BY <3>2, <3>4, <3>5
    <2>5. records # None => /\ records' \in [mx : Seq(Records!Hosts), age : Records!Ages]
                            /\ records'.mx = records.mx /\ records'.age = Records!Older(records.age)
                            /\ records.age \in Records!Ages
      <3> SUFFICES ASSUME records # None
                   PROVE  /\ records' \in [mx : Seq(Records!Hosts), age : Records!Ages]
                          /\ records'.mx = records.mx /\ records'.age = Records!Older(records.age)
                          /\ records.age \in Records!Ages
        OBVIOUS
      <3>1. records \in [mx : Seq(Records!Hosts), age : Records!Ages]
        BY <1>0 DEF Records!TypeOK
      <3>2. PICK age \in Records!Ages : age = Records!Older(records.age)
        BY <2>2, <3>1
      <3>3. records' = [records EXCEPT !.age = age]
        BY <2>1, <3>2
      <3>4. records' \in [mx : Seq(Records!Hosts), age : Records!Ages] /\ records'.mx = records.mx
            /\ records'.age = age
        BY <3>1, <3>3
      <3> QED  BY <3>1, <3>2, <3>2, <3>4
    <2>6. Records!TypeOK'
      BY <1>0, <2>1, <2>3, <2>4, <2>5 DEF Records!TypeOK
    <2>7. FoundIsTrue'
      <3> SUFFICES ASSUME NEW x \in Tasks, lookPc[x] \in {"stamp", "store"}, found[x] # <<>>
                   PROVE  Records!AnswerFor(found[x]) \in Zones
                          /\ named'[Records!AnswerFor(found[x])] <= took'[x]
        BY <2>1 DEF FoundIsTrue, Records!AnswerFor
      <3>1. Records!AnswerFor(found[x]) \in Zones /\ named[Records!AnswerFor(found[x])] <= took[x]
            /\ took[x] \in Nat
        BY <1>0, <1>a DEF FoundIsTrue, Records!TypeOK
      <3>2. took'[x] = took[x] + 1
        BY <2>1
      <3> QED  BY <2>3, <3>1, <3>2
    <2>8. RecordsAreTrue'
      <3> SUFFICES ASSUME records # None, records.mx # <<>>
                   PROVE  Records!AnswerFor(records.mx) \in Zones
                          /\ named'[Records!AnswerFor(records.mx)] <= Records!Older(records.age) + MaxQuery
        BY <2>1, <2>5 DEF RecordsAreTrue, Records!AnswerFor
      <3>1. Records!AnswerFor(records.mx) \in Zones
            /\ named[Records!AnswerFor(records.mx)] <= records.age + MaxQuery
            /\ records.age \in 0..MaxAge
        BY <1>0, <2>5 DEF RecordsAreTrue, Records!Ages
      <3>2. CASE records.age < MaxAge
        <4>1. Records!Older(records.age) = records.age + 1
          BY <3>2 DEF Records!Older
        <4> QED  BY <1>a, <2>3, <3>1, <4>1
      <3>3. CASE records.age = MaxAge
        <4>1. Records!Older(records.age) = MaxAge
          BY <1>a, <3>3 DEF Records!Older
        <4> QED  BY <1>a, <2>3, <3>1, <4>1
      <3> QED  BY <1>a, <3>1, <3>2, <3>3
    <2>9. StampIsLater'
      <3>1. \A w \in Tasks : lookPc[w] = "store" => took'[w] = took[w] + 1 /\ stamp'[w] = stamp[w] + 1
        BY <1>6 DEF Records!Tick, Records!LookingUp
      <3>2. \A w \in Tasks : lookPc[w] # "store" => stamp'[w] = 0
        BY <1>6 DEF Records!Tick
      <3>3. \A w \in Tasks : took'[w] \in Nat /\ took[w] \in Nat /\ stamp[w] \in Nat
        BY <1>0, <1>a, <2>4 DEF Records!TypeOK
      <3> QED  BY <1>0, <3>1, <3>2, <3>3 DEF StampIsLater
    <2> QED  BY <2>1, <2>3, <2>6, <2>7, <2>8, <2>9 DEF RouteInv
  <1>7. CASE UNCHANGED Records!vars
    BY <1>0, <1>7 DEF Records!vars, RouteInv, Records!TypeOK, FoundIsTrue, RecordsAreTrue,
                      StampIsLater, Records!AnswerFor
  <1> QED  BY <1>1, <1>2, <1>3, <1>4, <1>5, <1>6, <1>7 DEF Records!Next, Records!GetMXRecords

\* What a step answers was named by the resolver recently enough.
LEMMA RouteStep ==
  ASSUME Records!RecordsAssumption, RouteInv, Records!Next, NEW w \in Tasks, lookPc[w] # "answer",
         lookPc'[w] = "answer",
         NEW i \in 1..Len(found'[w])
  PROVE  named[Records!AnswerFor(found'[w])] <= Ttl[found'[w][i]] + MaxQuery
  <1>0. Records!TypeOK /\ FoundIsTrue /\ RecordsAreTrue
    BY DEF RouteInv
  <1>a. MaxAge \in Nat /\ MaxQuery \in Nat /\ Ttl \in [Records!Hosts -> Nat]
    BY DEF Records!RecordsAssumption
  <1>1. Records!LookUp(w) \/ Records!Store(w)
    <2>1. ASSUME NEW x \in Tasks, Records!GetMXRecords(x)
          PROVE  x = w /\ (Records!LookUp(w) \/ Records!Store(w))
      <3>1. x = w
        BY <1>0, <2>1 DEF Records!GetMXRecords, Records!LookUp, Records!Query, Records!Stamp,
                          Records!Store, Records!Answer, Records!Step, Records!TypeOK
      <3> QED  BY <1>0, <2>1, <3>1 DEF Records!GetMXRecords, Records!Query, Records!Stamp,
                                       Records!Answer, Records!Step, Records!TypeOK
    <2> QED  BY <1>0, <2>1 DEF Records!Next, Records!ZoneChanges, Records!Tick
  <1>2. CASE Records!LookUp(w)
    <2>1. records # None /\ ~Records!Dead(records) /\ found' = [found EXCEPT ![w] = records.mx]
      BY <1>0, <1>2 DEF Records!LookUp, Records!Step, Records!TypeOK
    <2>2. found'[w] = records.mx /\ records.mx \in Seq(Records!Hosts) /\ records.age \in Nat
      BY <1>0, <1>a, <2>1 DEF Records!TypeOK, Records!Ages
    <2>3. records.mx # <<>> /\ records.mx[i] \in Records!Hosts
      BY <2>2
    <2>4. ~(Ttl[records.mx[i]] < records.age)
      BY <2>1, <2>2 DEF Records!Dead
    <2>5. Records!AnswerFor(records.mx) \in Zones
          /\ named[Records!AnswerFor(records.mx)] <= records.age + MaxQuery
      BY <1>0, <2>1, <2>3 DEF RecordsAreTrue
    <2>6. named[Records!AnswerFor(records.mx)] \in Nat /\ Ttl[records.mx[i]] \in Nat
      BY <1>0, <1>a, <2>3, <2>5 DEF Records!TypeOK, Records!Ages
    <2> QED  BY <1>a, <2>2, <2>4, <2>5, <2>6
  <1>3. CASE Records!Store(w)
    <2>1. found' = found /\ lookPc[w] = "store"
      BY <1>3 DEF Records!Store, Records!Step
    <2>2. found[w] \in Seq(Records!Hosts)
      BY <1>0 DEF Records!TypeOK
    <2>3. found[w] # <<>> /\ found[w][i] \in Records!Hosts
      BY <2>1, <2>2
    <2>4. Records!AnswerFor(found[w]) \in Zones /\ named[Records!AnswerFor(found[w])] <= took[w]
          /\ took[w] \in 0..MaxQuery
      BY <1>0, <2>1, <2>3 DEF FoundIsTrue, Records!TypeOK
    <2>5. named[Records!AnswerFor(found[w])] \in Nat /\ Ttl[found[w][i]] \in Nat
      BY <1>0, <1>a, <2>3, <2>4 DEF Records!TypeOK, Records!Ages
    <2> QED  BY <1>a, <2>1, <2>4, <2>5
  <1> QED  BY <1>1, <1>2, <1>3

\* The hosts that GetMXRecords returns were named by the resolver not longer ago than the shortest time
\* to live among them and the time of a lookup, in whatever order overlapping lookups are stored.
LEMMA RecordsAreCurrent ==
  ASSUME Records!RecordsAssumption
  PROVE  Records!Spec => []Records!TypeOK /\ Records!RoutesAreCurrent
  <1>1. Records!Init => RouteInv
    BY RouteInit
  <1>2. RouteInv /\ [Records!Next]_(Records!vars) => RouteInv'
    BY RouteNext
  <1>3. RouteInv /\ [Records!Next]_(Records!vars) =>
          [\A w \in Tasks :
             lookPc[w] # "answer" /\ lookPc'[w] = "answer" =>
               \A i \in 1..Len(found'[w]) :
                 named[Records!AnswerFor(found'[w])] <= Ttl[found'[w][i]] + MaxQuery]_(Records!vars)
    BY RouteStep
  <1>4. RouteInv => Records!TypeOK
    BY DEF RouteInv
  <1> QED  BY <1>1, <1>2, <1>3, <1>4, PTL DEF Records!Spec, Records!RoutesAreCurrent

-----------------------------------------------------------------------------
(***************************************************************************)
(* In which order its hosts are tried: MxRouting.                          *)
(***************************************************************************)

\* The hosts before the position.
Before(w) == {mxs[w][i] : i \in 1..(position[w] - 1)}

\* What a worker has tried are the hosts before the one it is at.
TurnInv ==
  /\ Routing!TypeOK /\ known = lastFail
  /\ \A w \in Tasks :
       /\ mxs[w] # <<>> => position[w] <= Len(mxs[w])
       /\ wayPc[w] \in {"connect", "session", "add"} => mxs[w] # <<>>
       /\ wayPc[w] = "idle" => position[w] = 1 /\ tried[w] = {}
       /\ wayPc[w] \in {"route", "connect", "session"} => tried[w] = Before(w)
       /\ wayPc[w] = "add" /\ after[w] = "next" => tried[w] = Before(w) \cup {Routing!Mx(w)}

\* No host was tried at first.
LEMMA TurnInit ==
  ASSUME Routing!RoutingAssumption, Routing!Init
  PROVE  TurnInv
  <1>1. Routing!TypeOK
    BY DEF Routing!RoutingAssumption, Routing!Init, Routing!TypeOK, Routing!Ages
  <1> QED  BY <1>1 DEF Routing!Init, TurnInv

\* Every step keeps the hosts before the position tried, and no others.
LEMMA TurnNext ==
  ASSUME Routing!RoutingAssumption, TurnInv, [Routing!Next]_(Routing!vars)
  PROVE  TurnInv'
  <1>0. Routing!TypeOK /\ known = lastFail
    BY DEF TurnInv
  <1>a. Away \in Nat /\ Domain \in Routing!Hosts
    BY DEF Routing!RoutingAssumption, Routing!Hosts
  <1>b. \A w \in Tasks : position[w] \in Nat \ {0} /\ mxs[w] \in Seq(Routing!Hosts)
        /\ Len(mxs[w]) \in Nat
    BY <1>0, LenProperties DEF Routing!TypeOK
  <1>1. ASSUME NEW w \in Tasks,
               Routing!NoMxRecords(w) \/ Routing!Throttled(w) \/ Routing!Check(w)
               \/ Routing!Connect(w) \/ Routing!SessionEnds(w) \/ Routing!FailedToConnect(w)
        PROVE  TurnInv'
    <2>1. UNCHANGED <<lastFail, known, mxs, position, tried, failed, after>>
      BY <1>1 DEF Routing!NoMxRecords, Routing!Throttled, Routing!Check, Routing!Connect,
                  Routing!SessionEnds, Routing!FailedToConnect, Routing!logVars, Routing!wayVars
    <2>2. PICK to \in {"failed", "over", "connect", "session"} :
            /\ wayPc' = [wayPc EXCEPT ![w] = to]
            /\ to \in {"connect", "session"} => mxs[w] # <<>> /\ wayPc[w] \in {"route", "connect"}
      BY <1>1 DEF Routing!NoMxRecords, Routing!Throttled, Routing!Check, Routing!Connect,
                  Routing!SessionEnds, Routing!FailedToConnect, Routing!Step, TurnInv
    <2>3. Routing!TypeOK'
      BY <1>0, <2>1, <2>2 DEF Routing!TypeOK
    <2>4. \A x \in Tasks : Before(x)' = Before(x) /\ Routing!Mx(x)' = Routing!Mx(x)
      BY <2>1 DEF Before, Routing!Mx
    <2>5. wayPc'[w] = to /\ \A x \in Tasks \ {w} : wayPc'[x] = wayPc[x]
      BY <1>0, <2>2 DEF Routing!TypeOK
    <2>6. to = "connect" \/ to = "session" => tried[w] = Before(w)
      BY <2>2 DEF TurnInv
    <2> QED  BY <1>0, <2>1, <2>2, <2>3, <2>4, <2>5, <2>6 DEF TurnInv
  <1>2. ASSUME NEW w \in Tasks, Routing!Begin(w) PROVE TurnInv'
    <2>1. UNCHANGED <<lastFail, known, position, tried, failed, after>>
      BY <1>2 DEF Routing!Begin, Routing!logVars
    <2>2. PICK list \in Seq(Routing!Hosts) : mxs' = [mxs EXCEPT ![w] = list]
      <3>1. \A list \in Lists \cup {<<Domain>>, <<>>} : list \in Seq(Routing!Hosts)
        <4>1. Lists \subseteq Seq(Routing!Hosts)
          BY DEF Routing!RoutingAssumption, Routing!Hosts
        <4>2. <<Domain>> \in Seq(Routing!Hosts) /\ <<>> \in Seq(Routing!Hosts)
          BY <1>a
        <4> QED  BY <4>1, <4>2
      <3> QED  BY <1>2, <3>1 DEF Routing!Begin
    <2>3. wayPc[w] = "idle" /\ wayPc' = [wayPc EXCEPT ![w] = "route"]
      BY <1>2 DEF Routing!Begin, Routing!Step
    <2>4. Routing!TypeOK'
      BY <1>0, <2>1, <2>2, <2>3 DEF Routing!TypeOK
    <2>5. position[w] = 1 /\ tried[w] = {} /\ mxs'[w] = list /\ (list # <<>> => 1 <= Len(list))
      BY <1>0, <2>2, <2>3 DEF TurnInv, Routing!TypeOK
    <2>6. Before(w)' = {}
      BY <2>1, <2>5 DEF Before
    <2>7. \A x \in Tasks \ {w} : wayPc'[x] = wayPc[x] /\ mxs'[x] = mxs[x]
          /\ Before(x)' = Before(x) /\ Routing!Mx(x)' = Routing!Mx(x)
      BY <1>0, <2>1, <2>2, <2>3 DEF Routing!TypeOK, Before, Routing!Mx
    <2>8. wayPc'[w] = "route"
      BY <1>0, <2>3 DEF Routing!TypeOK
    <2> QED  BY <1>0, <2>1, <2>4, <2>5, <2>6, <2>7, <2>8 DEF TurnInv
  <1>3. ASSUME NEW w \in Tasks, Routing!ConnectFails(w) PROVE TurnInv'
    <2>1. /\ wayPc[w] = "connect" /\ wayPc' = [wayPc EXCEPT ![w] = "add"]
          /\ tried' = [tried EXCEPT ![w] = @ \cup {Routing!Mx(w)}]
             /\ after' = [after EXCEPT ![w] = "next"]
          /\ failed' = [failed EXCEPT ![w] = 0]
          /\ UNCHANGED <<lastFail, known, mxs, position>>
      BY <1>3 DEF Routing!ConnectFails, Routing!Step, Routing!logVars
    <2>2. mxs[w] # <<>> /\ position[w] <= Len(mxs[w]) /\ tried[w] = Before(w)
      BY <2>1 DEF TurnInv
    <2>3. Routing!Mx(w) \in Routing!Hosts
      BY <1>b, <2>2, ElementOfSeq DEF Routing!Mx
    <2>4. Routing!TypeOK'
      BY <1>0, <1>a, <2>1, <2>3 DEF Routing!TypeOK, Routing!Ages
    <2> QED  BY <1>0, <2>1, <2>2, <2>4 DEF TurnInv, Routing!TypeOK, Before, Routing!Mx
  <1>4. ASSUME NEW w \in Tasks, Routing!Refused(w) PROVE TurnInv'
    <2>1. /\ wayPc[w] \in {"connect", "session"} /\ wayPc' = [wayPc EXCEPT ![w] = "add"]
          /\ after' = [after EXCEPT ![w] = "over"] /\ failed' = [failed EXCEPT ![w] = 0]
          /\ UNCHANGED <<lastFail, known, mxs, position, tried>>
      BY <1>4 DEF Routing!Refused, Routing!Step, Routing!logVars
    <2>2. Routing!TypeOK'
      BY <1>0, <1>a, <2>1 DEF Routing!TypeOK, Routing!Ages
    <2> QED  BY <1>0, <2>1, <2>2 DEF TurnInv, Routing!TypeOK, Before, Routing!Mx
  <1>5. ASSUME NEW w \in Tasks, Routing!Add(w) PROVE TurnInv'
    <2> DEFINE last == position[w] = Len(mxs[w])
    <2>1. /\ wayPc[w] = "add" /\ UNCHANGED <<mxs, tried>>
          /\ wayPc' = [wayPc EXCEPT ![w] = IF after[w] = "over" THEN "over"
                                           ELSE IF last THEN "noConnect" ELSE "route"]
          /\ position' = IF after[w] = "over" \/ last THEN position ELSE [position EXCEPT ![w] = @ + 1]
          /\ lastFail' = [lastFail EXCEPT ![Routing!Mx(w)] = Routing!Later(@, failed[w])]
          /\ known' = [known EXCEPT ![Routing!Mx(w)] = IF failed[w] < @ THEN failed[w] ELSE @]
          /\ failed' = [failed EXCEPT ![w] = Away] /\ after' = [after EXCEPT ![w] = "over"]
      BY <1>5 DEF Routing!Add, Routing!Step
    <2>2. mxs[w] # <<>> /\ position[w] <= Len(mxs[w])
          /\ (after[w] = "next" => tried[w] = Before(w) \cup {Routing!Mx(w)})
      BY <2>1 DEF TurnInv
    <2>3. Routing!Mx(w) \in Routing!Hosts
      BY <1>b, <2>2, ElementOfSeq DEF Routing!Mx
    <2>4. failed[w] \in Routing!Ages /\ lastFail[Routing!Mx(w)] \in Routing!Ages
      BY <1>0, <2>3 DEF Routing!TypeOK
    <2>5. Routing!Later(lastFail[Routing!Mx(w)], failed[w]) =
            (IF failed[w] < known[Routing!Mx(w)] THEN failed[w] ELSE known[Routing!Mx(w)])
          /\ Routing!Later(lastFail[Routing!Mx(w)], failed[w]) \in Routing!Ages
      BY <1>0, <1>a, <2>4 DEF Routing!Later, Routing!Ages
    <2>6. known' = lastFail' /\ lastFail' \in [Routing!Hosts -> Routing!Ages]
      BY <1>0, <2>1, <2>3, <2>5 DEF Routing!TypeOK
    <2>7. Routing!TypeOK'
      BY <1>0, <1>a, <1>b, <2>1, <2>6 DEF Routing!TypeOK, Routing!Ages
    <2>8. CASE after[w] = "over" \/ last
      <3>1. UNCHANGED <<mxs, position, tried>> /\ wayPc'[w] \in {"over", "noConnect"}
        BY <1>0, <2>1, <2>8 DEF Routing!TypeOK
      <3>2. \A x \in Tasks \ {w} : wayPc'[x] = wayPc[x] /\ after'[x] = after[x]
        BY <1>0, <2>1 DEF Routing!TypeOK
      <3>3. \A x \in Tasks : Before(x)' = Before(x) /\ Routing!Mx(x)' = Routing!Mx(x)
        BY <3>1 DEF Before, Routing!Mx
      <3> QED  BY <2>6, <2>7, <3>1, <3>2, <3>3 DEF TurnInv
    <2>9. CASE after[w] = "next" /\ ~last
      <3>1. wayPc'[w] = "route" /\ position'[w] = position[w] + 1 /\ position'[w] <= Len(mxs[w])
        BY <1>0, <1>b, <2>1, <2>2, <2>9 DEF Routing!TypeOK
      <3>2. Before(w)' = Before(w) \cup {Routing!Mx(w)}
        <4>1. 1..(position'[w] - 1) = 1..(position[w] - 1) \cup {position[w]}
          BY <1>b, <3>1
        <4> QED  BY <2>1, <4>1 DEF Before, Routing!Mx
      <3>3. \A x \in Tasks \ {w} : wayPc'[x] = wayPc[x] /\ after'[x] = after[x]
            /\ position'[x] = position[x]
        BY <1>0, <2>1 DEF Routing!TypeOK
      <3>4. \A x \in Tasks \ {w} : Before(x)' = Before(x) /\ Routing!Mx(x)' = Routing!Mx(x)
        BY <2>1, <3>3 DEF Before, Routing!Mx
      <3>5. UNCHANGED <<mxs, tried>> /\ tried[w] = Before(w) \cup {Routing!Mx(w)}
        BY <2>1, <2>2, <2>9
      <3> SUFFICES ASSUME NEW x \in Tasks
                   PROVE  /\ mxs'[x] # <<>> => position'[x] <= Len(mxs'[x])
                          /\ wayPc'[x] \in {"connect", "session", "add"} => mxs'[x] # <<>>
                          /\ wayPc'[x] = "idle" => position'[x] = 1 /\ tried'[x] = {}
                          /\ wayPc'[x] \in {"route", "connect", "session"} => tried'[x] = Before(x)'
                          /\ wayPc'[x] = "add" /\ after'[x] = "next" =>
                               tried'[x] = Before(x)' \cup {Routing!Mx(x)'}
        BY <2>6, <2>7 DEF TurnInv
      <3>6. CASE x = w
        BY <3>1, <3>2, <3>5, <3>6
      <3>7. CASE x # w
        <4>1. /\ mxs[x] # <<>> => position[x] <= Len(mxs[x])
              /\ wayPc[x] \in {"connect", "session", "add"} => mxs[x] # <<>>
              /\ wayPc[x] = "idle" => position[x] = 1 /\ tried[x] = {}
              /\ wayPc[x] \in {"route", "connect", "session"} => tried[x] = Before(x)
              /\ wayPc[x] = "add" /\ after[x] = "next" => tried[x] = Before(x) \cup {Routing!Mx(x)}
          BY DEF TurnInv
        <4> QED  BY <3>3, <3>4, <3>5, <3>7, <4>1
      <3> QED  BY <3>6, <3>7
    <2> QED  BY <1>0, <2>8, <2>9 DEF Routing!TypeOK
  <1>6. ASSUME NEW w \in Tasks, Routing!Done(w) PROVE TurnInv'
    <2>1. /\ wayPc' = [wayPc EXCEPT ![w] = "idle"] /\ mxs' = [mxs EXCEPT ![w] = <<>>]
          /\ position' = [position EXCEPT ![w] = 1] /\ tried' = [tried EXCEPT ![w] = {}]
          /\ UNCHANGED <<lastFail, known, failed, after>>
      BY <1>6 DEF Routing!Done, Routing!Step, Routing!logVars
    <2>2. Routing!TypeOK'
      BY <1>0, <2>1 DEF Routing!TypeOK
    <2>3. wayPc'[w] = "idle" /\ mxs'[w] = <<>> /\ position'[w] = 1 /\ tried'[w] = {}
      BY <1>0, <2>1 DEF Routing!TypeOK
    <2>4. \A x \in Tasks \ {w} : wayPc'[x] = wayPc[x] /\ mxs'[x] = mxs[x]
          /\ position'[x] = position[x] /\ tried'[x] = tried[x]
      BY <1>0, <2>1 DEF Routing!TypeOK
    <2>5. \A x \in Tasks \ {w} : Before(x)' = Before(x) /\ Routing!Mx(x)' = Routing!Mx(x)
      BY <2>4 DEF Before, Routing!Mx
    <2> QED  BY <1>0, <2>1, <2>2, <2>3, <2>4, <2>5 DEF TurnInv
  <1>7. CASE Routing!Tick
    <2>1. lastFail' = Routing!Older(lastFail) /\ known' = Routing!Older(known)
          /\ failed' = Routing!Older(failed)
          /\ UNCHANGED <<wayPc, mxs, position, tried, after>>
      BY <1>7 DEF Routing!Tick
    <2>2. ASSUME NEW S,
                 NEW ages \in [S -> Routing!Ages] PROVE Routing!Older(ages) \in [S -> Routing!Ages]
      BY <1>a, <2>2 DEF Routing!Older, Routing!Ages
    <2>3. Routing!TypeOK'
      BY <1>0, <2>1, <2>2 DEF Routing!TypeOK
    <2>4. \A x \in Tasks : Before(x)' = Before(x) /\ Routing!Mx(x)' = Routing!Mx(x)
      BY <2>1 DEF Before, Routing!Mx
    <2>5. known' = lastFail'
      BY <1>0, <2>1
    <2> QED  BY <2>1, <2>3, <2>4, <2>5 DEF TurnInv
  <1>8. CASE UNCHANGED Routing!vars
    <2>1. UNCHANGED <<lastFail, known, wayPc, mxs, position, tried, failed, after>>
      BY <1>8 DEF Routing!vars, Routing!logVars, Routing!wayVars
    <2> QED  BY <2>1 DEF TurnInv, Routing!TypeOK, Before, Routing!Mx
  <1> QED  BY <1>1, <1>2, <1>3, <1>4, <1>5, <1>6, <1>7, <1>8 DEF Routing!Next, Routing!Send

\* A host is only connected to when its turn has come.
LEMMA TurnStep ==
  ASSUME Routing!RoutingAssumption, TurnInv, Routing!Next, NEW w \in Tasks, wayPc[w] = "route",
         wayPc'[w] = "connect"
  PROVE  known[Routing!Mx(w)] >= Away /\ {mxs[w][i] : i \in 1..(position[w] - 1)} = tried[w]
  <1>0. Routing!TypeOK /\ known = lastFail
    BY DEF TurnInv
  <1>1. Routing!Check(w)
    <2>1. ASSUME NEW x \in Tasks, Routing!Send(x) PROVE Routing!Check(w)
      <3>1. x = w
        BY <1>0, <2>1 DEF Routing!Send, Routing!Begin, Routing!NoMxRecords, Routing!Throttled,
                          Routing!Check, Routing!Connect, Routing!ConnectFails, Routing!Refused,
                          Routing!SessionEnds, Routing!Add, Routing!FailedToConnect, Routing!Done,
                          Routing!Step, Routing!TypeOK
      <3> QED  BY <1>0, <2>1, <3>1 DEF Routing!Send, Routing!Begin, Routing!NoMxRecords,
                                       Routing!Throttled, Routing!Connect, Routing!ConnectFails,
                                       Routing!Refused,
                          Routing!SessionEnds, Routing!Add, Routing!FailedToConnect, Routing!Done,
                          Routing!Step, Routing!TypeOK
    <2> QED  BY <2>1 DEF Routing!Next, Routing!Tick
  <1>2. mxs[w] # <<>> /\ ~Routing!Unavailable(Routing!Mx(w))
    BY <1>0, <1>1 DEF Routing!Check, Routing!Step, Routing!TypeOK
  <1>3. position[w] <= Len(mxs[w]) /\ tried[w] = Before(w) /\ position[w] \in Nat \ {0}
        /\ mxs[w] \in Seq(Routing!Hosts)
    BY <1>0, <1>2 DEF TurnInv, Routing!TypeOK
  <1>4. Routing!Mx(w) \in Routing!Hosts
    BY <1>2, <1>3, ElementOfSeq, LenProperties DEF Routing!Mx
  <1>5. lastFail[Routing!Mx(w)] \in Nat /\ Away \in Nat
    BY <1>0, <1>4 DEF Routing!TypeOK, Routing!Ages, Routing!RoutingAssumption
  <1> QED  BY <1>0, <1>2, <1>3, <1>5 DEF Routing!Unavailable, Before

\* A host is only connected to when all those before it did not answer in this call, and no failure
\* of it within the time it is left alone is on record, whichever worker put it there.
LEMMA RoutingIsInTurn ==
  ASSUME Routing!RoutingAssumption
  PROVE  Routing!Spec => []Routing!TypeOK /\ Routing!MxsAreTriedInTurn
  <1>1. Routing!Init => TurnInv
    BY TurnInit
  <1>2. TurnInv /\ [Routing!Next]_(Routing!vars) => TurnInv'
    BY TurnNext
  <1>3. TurnInv /\ [Routing!Next]_(Routing!vars) =>
          [\A w \in Tasks : wayPc[w] = "route" /\ wayPc'[w] = "connect" =>
             /\ known[Routing!Mx(w)] >= Away
             /\ {mxs[w][i] : i \in 1..(position[w] - 1)} = tried[w]]_(Routing!vars)
    BY TurnStep
  <1>4. TurnInv => Routing!TypeOK
    BY DEF TurnInv
  <1> QED  BY <1>1, <1>2, <1>3, <1>4, PTL DEF Routing!Spec, Routing!MxsAreTriedInTurn

-----------------------------------------------------------------------------
(***************************************************************************)
(* The caches side by side                                                 *)
(***************************************************************************)

\* What one part does is a step of it or leaves it alone, whatever the others do.
LEMMA CachesHaveParts ==
  CachesSpec => Spec /\ Groups!Spec /\ Records!Spec /\ Routing!Spec
  <1>1. CachesInit => Init /\ Groups!Init /\ Records!Init /\ Routing!Init
    BY DEF CachesInit
  <1>2. [CachesNext]_cacheVars => [Next]_vars
    BY DEF CachesNext, cacheVars, StepOfSends, StepOfGroups, StepOfRecords, StepOfRouting
  <1>3. [CachesNext]_cacheVars => [Groups!Next]_(Groups!vars)
    BY DEF CachesNext, cacheVars, StepOfSends, StepOfGroups, StepOfRecords, StepOfRouting,
           groupVars, Groups!vars, Groups!sqlVars
  <1>4. [CachesNext]_cacheVars => [Records!Next]_(Records!vars)
    BY DEF CachesNext, cacheVars, StepOfSends, StepOfGroups, StepOfRecords, StepOfRouting,
           recordVars, Records!vars
  <1>5. [CachesNext]_cacheVars => [Routing!Next]_(Routing!vars)
    BY DEF CachesNext, cacheVars, StepOfSends, StepOfGroups, StepOfRecords, StepOfRouting,
           routingVars, Routing!vars, Routing!logVars, Routing!wayVars
  <1> QED
    BY <1>1, <1>2, <1>3, <1>4, <1>5, PTL
       DEF CachesSpec, Spec, Groups!Spec, Records!Spec, Routing!Spec

\* Every variable of the four keeps its type.
THEOREM CachesType ==
  CachesSpec => [](TypeOK /\ Groups!TypeOK /\ Records!TypeOK /\ Routing!TypeOK)
  <1>1. Groups!Spec => [](Groups!TypeOK /\ Groups!AddressIsRecent)
    BY GroupsAreRecent, CachesAssumption
  <1>2. Records!Spec => []Records!TypeOK /\ Records!RoutesAreCurrent
    BY RecordsAreCurrent, CachesAssumption
  <1>3. Routing!Spec => []Routing!TypeOK /\ Routing!MxsAreTriedInTurn
    BY RoutingIsInTurn, CachesAssumption
  <1> QED  BY <1>1, <1>2, <1>3, SendCacheType, CachesHaveParts, PTL

\* An answer of either lookup of SendManager was the status in the database at most a period and three
\* calls ago.
THEOREM RecentAnswers == CachesSpec => []AnswersAreRecent
  BY SendsAreRecent, CachesHaveParts, PTL

\* An address that GetAddress may choose was a member of its group at most the time for which a group
\* is cached and that of a call ago, however many workers load the group and whoever edits it.
THEOREM AddressesAreRecent == CachesSpec => []AddressIsRecent
  <1>1. Groups!Spec => [](Groups!TypeOK /\ Groups!AddressIsRecent)
    BY GroupsAreRecent, CachesAssumption
  <1> QED  BY <1>1, CachesHaveParts, PTL DEF AddressIsRecent

\* Two addresses that stay in a group differ in the messages they got for a host by one, and one more
\* for each period for which a group is cached, however the choices of workers interleave and although
\* workers go on with objects that were replaced.
THEOREM AddressesShareFairly == CachesSpec => []SharedFairly
  <1>1. Groups!Spec => []Groups!SharedFairly
    BY GroupsShareFairly, CachesAssumption
  <1> QED  BY <1>1, CachesHaveParts, PTL DEF SharedFairly

\* The hosts that GetMXRecords returns were named by the resolver not longer ago than the shortest time
\* to live among them and the time of a lookup, in whatever order overlapping lookups are stored.
THEOREM RoutesComeFromDns == CachesSpec => RoutesAreCurrent
  <1>1. Records!Spec => []Records!TypeOK /\ Records!RoutesAreCurrent
    BY RecordsAreCurrent, CachesAssumption
  <1> QED  BY <1>1, CachesHaveParts, PTL DEF RoutesAreCurrent

\* A host is only connected to when all those before it did not answer in this call, and no failure
\* of it within the time it is left alone is on record, whichever worker put it there.
THEOREM MxsComeInTurn == CachesSpec => MxsAreTriedInTurn
  <1>1. Routing!Spec => []Routing!TypeOK /\ Routing!MxsAreTriedInTurn
    BY RoutingIsInTurn, CachesAssumption
  <1> QED  BY <1>1, CachesHaveParts, PTL DEF MxsAreTriedInTurn

-----------------------------------------------------------------------------
(***************************************************************************)
(* When a message is tried again, and when it is given up: RetrySchedule.  *)
(* For any unit of time, retry interval, limit and backlog no wait queue   *)
(* keeps a message past its due time, deferrals are limited, and a         *)
(* delivery is late only by the backlog.                                   *)
(***************************************************************************)

\* A minute is some time, longer than a second.
LEMMA MinuteIsLong == Second \in Nat \ {0} /\ Minute \in Nat \ {0}
BY TimesAssumption DEF Minute

\* Rounding up to seconds adds less than a second.
LEMMA RoundedUp ==
  ASSUME NEW time \in Nat, clock \in Nat
  PROVE  /\ SecondsUntil(time) \in Nat
         /\ SecondsUntil(time) * Second < (IF time <= clock THEN 0 ELSE time - clock) + Second
<1>1. CASE time <= clock
  BY <1>1, MinuteIsLong DEF SecondsUntil
<1>2. CASE time > clock
  <2> DEFINE x == time - clock + Second - 1
             q == x \div Second
  <2>1. x \in Nat
    BY <1>2, MinuteIsLong
  <2>2. q \in Nat /\ Second * q <= x
    <3> HIDE DEF x
    <3> QED BY <2>1, MinuteIsLong
  <2>3. SecondsUntil(time) = q
    BY <1>2 DEF SecondsUntil
  <2> HIDE DEF q
  <2>4. q * Second = Second * q /\ Second * q \in Nat
    BY <2>2, MinuteIsLong
  <2>5. Second * q < time - clock + Second
    BY <2>1, <2>2, <2>4, MinuteIsLong
  <2> QED BY <1>2, <2>2, <2>3, <2>4, <2>5
<1> QED BY <1>1, <1>2

\* The chosen wait queue is not longer than the time left.
LEMMA WaitQueueIsShort ==
  ASSUME NEW s \in Nat
  PROVE  WaitQueue(s) \in Nat /\ WaitQueue(s) <= s
BY DEF WaitQueue

\* A message that is queued comes back less than a second after it is due.
LEMMA EnqueueInTime ==
  ASSUME NEW time \in Nat, clock \in Nat, Enqueue(time)
  PROVE  /\ attemptAfter' = time /\ place' \in {"waiting", "wait"} /\ expiry' \in Nat
         /\ place' = "wait" => expiry' < attemptAfter' + Second
<1> DEFINE s == SecondsUntil(time)
           ttl == WaitQueue(s)
<1>1. s \in Nat /\ s * Second < (IF time <= clock THEN 0 ELSE time - clock) + Second
  BY RoundedUp
<1> HIDE DEF s
<1>2. ttl \in Nat /\ ttl <= s
  BY <1>1, WaitQueueIsShort
<1>3. /\ attemptAfter' = time
      /\ place' = IF ttl = 0 THEN "waiting" ELSE "wait"
      /\ expiry' = clock + ttl * Second
  BY DEF Enqueue, s
<1> HIDE DEF ttl
<1>4. ttl * Second <= s * Second /\ ttl * Second \in Nat /\ s * Second \in Nat
  BY <1>1, <1>2, MinuteIsLong
<1>5. ttl # 0 => time > clock
  <2> SUFFICES ASSUME time <= clock PROVE ttl = 0
    OBVIOUS
  <2>1. s = 0
    BY DEF s, SecondsUntil
  <2> QED BY <1>2, <2>1
<1> QED BY <1>1, <1>3, <1>4, <1>5, MinuteIsLong

\* A deferral waits a minute or more.
LEMMA BackoffIsLong ==
  ASSUME NEW n \in Nat
  PROVE  Backoff(n) \in Nat \ {0}
BY TimesAssumption DEF Backoff, Doublings

-----------------------------------------------------------------------------
(* The invariant                                                           *)

\* Time has passed the due time by no more than the rounding and the backlog.
NearDue == clock < attemptAfter + Second + backlog

\* A delivered message was due in time.
DueInTime == outcome = "delivered" => attemptAfter <= MtaMaxTimeInQueue * Minute

\* Every deferral has moved the due time by a minute.
EachCostsAMinute == deferredCount * Minute <= attemptAfter

RInv ==
  /\ ScheduleTypeOK /\ BackWhenDue /\ NearDue /\ DueInTime /\ EachCostsAMinute
  /\ DeferralsAreLimited /\ LateOnlyByBacklog

\* A new message is due at once.
LEMMA InitRInv == ScheduleInit => RInv
BY TimesAssumption, MinuteIsLong
   DEF ScheduleInit, RInv, ScheduleTypeOK, Place, Outcome, BackWhenDue, NearDue, DueInTime, EachCostsAMinute,
       DeferralsAreLimited, LateOnlyByBacklog

\* Queueing a message again for a later time, which a deferral has paid for.
LEMMA EnqueueKeeps ==
  ASSUME RInv, place = "held", NEW time \in Nat, Enqueue(time), clock <= time,
         UNCHANGED <<clock, outcome, backlog>>, pauses' \in 0..MaxPauses,
         deferredCount' \in Nat, deferredCount' * Minute <= time,
         deferredCount' <= MtaMaxTimeInQueue + 1
  PROVE  RInv'
<1>1. /\ attemptAfter' = time /\ place' \in {"waiting", "wait"} /\ expiry' \in Nat
      /\ place' = "wait" => expiry' < attemptAfter' + Second
  BY EnqueueInTime DEF RInv, ScheduleTypeOK
<1>2. outcome = "none"
  BY DEF RInv, ScheduleTypeOK
<1>3. ScheduleTypeOK' /\ BackWhenDue'
  BY <1>1, <1>2 DEF RInv, ScheduleTypeOK, Place, BackWhenDue
<1>4. NearDue'
  BY <1>1, MinuteIsLong DEF RInv, ScheduleTypeOK, NearDue
<1>5. DueInTime' /\ LateOnlyByBacklog'
  BY <1>2 DEF DueInTime, LateOnlyByBacklog
<1>6. EachCostsAMinute' /\ DeferralsAreLimited'
  BY <1>1 DEF EachCostsAMinute, DeferralsAreLimited, Minute
<1> QED BY <1>3, <1>4, <1>5, <1>6 DEF RInv

\* Queueing a message again without a deferral, for a time that is not before its due time.
LEMMA RequeueKeeps ==
  ASSUME RInv, place = "held", NEW time \in Nat, Enqueue(time), clock <= time, attemptAfter <= time,
         UNCHANGED <<clock, deferredCount, outcome, backlog>>, pauses' \in 0..MaxPauses
  PROVE  RInv'
<1>1. deferredCount' \in Nat /\ deferredCount' * Minute <= time /\ deferredCount' <= MtaMaxTimeInQueue + 1
  <2>1. deferredCount * Minute \in Nat
    BY MinuteIsLong DEF RInv, ScheduleTypeOK
  <2> QED BY <2>1 DEF RInv, ScheduleTypeOK, EachCostsAMinute, DeferralsAreLimited
<1> QED BY <1>1, EnqueueKeeps

\* A time later than now, of a message that is due.
LEMMA RequeueInKeeps ==
  ASSUME RInv, Due, NEW units \in Nat, RequeueIn(units)
  PROVE  RInv'
<1>1. clock + units \in Nat /\ clock <= clock + units /\ attemptAfter <= clock + units
  BY DEF RInv, ScheduleTypeOK, Due
<1> QED BY <1>1, RequeueKeeps DEF RequeueIn, Due, RInv, ScheduleTypeOK

\* Only messages that were due in time are deferred, so a message is deferred once more than
\* there are minutes at most.
LEMMA DeferForKeeps ==
  ASSUME RInv, Attempt, NEW minutes \in Nat \ {0}, DeferFor(minutes)
  PROVE  RInv'
<1> DEFINE d == deferredCount
           time == clock + minutes * Minute
<1>1. d \in Nat /\ clock \in Nat /\ attemptAfter \in Nat /\ attemptAfter <= clock
  BY DEF RInv, ScheduleTypeOK, Attempt, Due
<1>2. d * Minute \in Nat /\ MtaMaxTimeInQueue * Minute \in Nat /\ minutes * Minute \in Nat
  BY <1>1, MinuteIsLong, TimesAssumption
<1>3. d * Minute <= attemptAfter /\ attemptAfter <= MtaMaxTimeInQueue * Minute
  BY <1>1, <1>2 DEF RInv, EachCostsAMinute, Attempt, TimedOut
<1>4. d <= MtaMaxTimeInQueue
  <2> SUFFICES ASSUME d >= MtaMaxTimeInQueue + 1 PROVE FALSE
    BY <1>1, TimesAssumption
  <2>1. d * Minute >= (MtaMaxTimeInQueue + 1) * Minute
    BY <1>1, MinuteIsLong, TimesAssumption
  <2>2. (MtaMaxTimeInQueue + 1) * Minute = MtaMaxTimeInQueue * Minute + Minute
    BY MinuteIsLong, TimesAssumption
  <2> QED BY <1>1, <1>2, <1>3, <2>1, <2>2, MinuteIsLong
<1>5. minutes * Minute >= Minute
  BY MinuteIsLong
<1>6. (d + 1) * Minute = d * Minute + Minute
  BY <1>1, MinuteIsLong
<1>7. (d + 1) * Minute <= time /\ time \in Nat /\ clock <= time
  BY <1>1, <1>2, <1>3, <1>5, <1>6, MinuteIsLong
<1>8. /\ deferredCount' = d + 1 /\ Enqueue(time) /\ UNCHANGED <<clock, outcome, backlog>>
      /\ pauses' \in 0..MaxPauses /\ place = "held"
  BY DEF DeferFor, RInv, ScheduleTypeOK, Attempt, Due
<1>9. deferredCount' \in Nat /\ deferredCount' * Minute <= time /\ deferredCount' <= MtaMaxTimeInQueue + 1
  BY <1>1, <1>4, <1>7, <1>8, TimesAssumption
<1> HIDE DEF d, time
<1> QED BY <1>7, <1>8, <1>9, EnqueueKeeps

\* An outcome ends it; a delivery is of a message that was due in time.
LEMMA DoneKeeps ==
  ASSUME RInv, place = "held", NEW o \in Outcome \ {"none"}, Done(o),
         o = "delivered" => ~TimedOut
  PROVE  RInv'
<1>1. ScheduleTypeOK' /\ BackWhenDue' /\ NearDue'
  BY DEF Done, RInv, ScheduleTypeOK, Place, BackWhenDue, NearDue
<1>2. DueInTime' /\ LateOnlyByBacklog'
  <2>1. MtaMaxTimeInQueue * Minute \in Nat
    BY MinuteIsLong, TimesAssumption
  <2>2. o = "delivered" => attemptAfter <= MtaMaxTimeInQueue * Minute
    BY <2>1 DEF RInv, ScheduleTypeOK, TimedOut
  <2>3. o = "delivered" => clock < MtaMaxTimeInQueue * Minute + Second + backlog
    BY <2>1, <2>2, MinuteIsLong, TimesAssumption DEF RInv, ScheduleTypeOK, NearDue
  <2> QED BY <2>2, <2>3 DEF Done, DueInTime, LateOnlyByBacklog, Minute
<1>3. EachCostsAMinute' /\ DeferralsAreLimited'
  BY DEF Done, RInv, EachCostsAMinute, DeferralsAreLimited, Minute
<1> QED BY <1>1, <1>2, <1>3 DEF RInv

\* Each step of the schedule keeps the invariant.
LEMMA RStep == RInv /\ [ScheduleNext]_scheduleVars => RInv'
<1> SUFFICES ASSUME RInv, [ScheduleNext]_scheduleVars PROVE RInv'
  OBVIOUS
<1>1. CASE Delay
  <2>1. PICK d \in Delays : backlog + d <= MaxBacklog /\ backlog' = backlog + d /\ clock' = clock + d
    BY <1>1 DEF Delay
  <2>2. d \in Nat
    BY <2>1, TimesAssumption
  <2>3. UNCHANGED <<attemptAfter, deferredCount, place, expiry, outcome, pauses>> /\ place # "done"
    BY <1>1 DEF Delay
  <2>4. outcome = "none"
    BY <2>3 DEF RInv, ScheduleTypeOK
  <2>5. ScheduleTypeOK'
    BY <2>1, <2>2, <2>3, TimesAssumption DEF RInv, ScheduleTypeOK
  <2>6. NearDue' /\ BackWhenDue'
    BY <2>1, <2>2, <2>3, MinuteIsLong DEF RInv, ScheduleTypeOK, NearDue, BackWhenDue
  <2>7. DueInTime' /\ EachCostsAMinute' /\ DeferralsAreLimited' /\ LateOnlyByBacklog'
    BY <2>3, <2>4 DEF RInv, DueInTime, EachCostsAMinute, DeferralsAreLimited, LateOnlyByBacklog, Minute
  <2> QED BY <2>5, <2>6, <2>7 DEF RInv
<1>2. CASE Expire
  <2>1. outcome = "none"
    BY <1>2 DEF Expire, RInv, ScheduleTypeOK
  <2>2. ScheduleTypeOK' /\ NearDue' /\ BackWhenDue'
    BY <1>2, MinuteIsLong DEF Expire, RInv, ScheduleTypeOK, Place, NearDue, BackWhenDue
  <2>3. DueInTime' /\ EachCostsAMinute' /\ DeferralsAreLimited' /\ LateOnlyByBacklog'
    BY <1>2, <2>1 DEF Expire, RInv, DueInTime, EachCostsAMinute, DeferralsAreLimited, LateOnlyByBacklog, Minute
  <2> QED BY <2>2, <2>3 DEF RInv
<1>3. CASE Dequeue
  BY <1>3 DEF Dequeue, RInv, ScheduleTypeOK, Place, BackWhenDue, NearDue, DueInTime, EachCostsAMinute,
              DeferralsAreLimited, LateOnlyByBacklog, Minute
<1>4. CASE NotDue
  BY <1>4, RequeueKeeps DEF NotDue, RInv, ScheduleTypeOK
<1>5. CASE Discard
  BY <1>5, DoneKeeps DEF Discard, Due, Outcome
<1>6. CASE Pause
  <2>1. clock + Minute \in Nat /\ clock <= clock + Minute /\ attemptAfter <= clock + Minute
    BY <1>6, MinuteIsLong DEF Pause, Due, RInv, ScheduleTypeOK
  <2>2. pauses' \in 0..MaxPauses
    BY <1>6, TimesAssumption DEF Pause, RInv, ScheduleTypeOK
  <2> QED BY <1>6, <2>1, <2>2, RequeueKeeps DEF Pause, Due
<1>7. CASE GiveUp
  BY <1>7, DoneKeeps DEF GiveUp, Due, Outcome
<1>8. CASE Succeed
  BY <1>8, DoneKeeps DEF Succeed, Attempt, Due, Outcome
<1>9. CASE Fail
  BY <1>9, DoneKeeps DEF Fail, Attempt, Due, Outcome
<1>10. CASE Throttle
  BY <1>10, RequeueInKeeps, MinuteIsLong DEF Throttle, Attempt
<1>11. CASE ServiceUnavailable
  BY <1>11, RequeueInKeeps, MinuteIsLong DEF ServiceUnavailable, Attempt
<1>12. CASE MaxConnections
  BY <1>12, RequeueInKeeps, MinuteIsLong DEF MaxConnections, Attempt
<1>13. CASE Defer
  <2>1. deferredCount + 1 \in Nat
    BY DEF RInv, ScheduleTypeOK
  <2>2. \A m \in {Backoff(deferredCount + 1), 1, 15} : m \in Nat \ {0}
    BY <2>1, BackoffIsLong
  <2> QED BY <1>13, <2>2, DeferForKeeps DEF Defer
<1>14. CASE UNCHANGED scheduleVars
  BY <1>14 DEF scheduleVars, RInv, ScheduleTypeOK, BackWhenDue, NearDue, DueInTime, EachCostsAMinute,
               DeferralsAreLimited, LateOnlyByBacklog, Minute
<1> QED BY <1>1, <1>2, <1>3, <1>4, <1>5, <1>6, <1>7, <1>8, <1>9, <1>10, <1>11, <1>12, <1>13, <1>14
        DEF ScheduleNext, Send

\* The invariant holds in every state.
LEMMA RInductive == ScheduleSpec => []RInv
BY InitRInv, RStep, PTL DEF ScheduleSpec

-----------------------------------------------------------------------------
(* Theorems                                                                *)

\* The state is well-typed: a message has an outcome exactly when it is done.
THEOREM ScheduleType == ScheduleSpec => []ScheduleTypeOK
<1>1. RInv => ScheduleTypeOK
  BY DEF RInv
<1> QED BY <1>1, RInductive, PTL

\* For any due time and unit of time, the wait queue that Enqueue chooses gives the message back
\* less than a second after it is due.
THEOREM NoWaitQueueHoldsLong == ScheduleSpec => []BackWhenDue
<1>1. RInv => BackWhenDue
  BY DEF RInv
<1> QED BY <1>1, RInductive, PTL

\* A message is deferred at most once per minute of its maximum time in queue, and once more.
THEOREM DeferralsEnd == ScheduleSpec => []DeferralsAreLimited
<1>1. RInv => DeferralsAreLimited
  BY DEF RInv
<1> QED BY <1>1, RInductive, PTL

\* What a delivery can be late is what it spent in OutboundWaiting and with workers.
THEOREM DeliveredInTime == ScheduleSpec => []LateOnlyByBacklog
<1>1. RInv => LateOnlyByBacklog
  BY DEF RInv
<1> QED BY <1>1, RInductive, PTL

=============================================================================
