--------------------------- MODULE OutboundProofs ---------------------------
(***************************************************************************)
(* Proofs about the rules for outbound mail and the limits they set.       *)
(*                                                                         *)
(* First OutboundRules, for any tables, hosts, addresses, workers and      *)
(* cache time: which pattern an answer can name.  The invariant says to    *)
(* whom a collection belongs: all who refer to it do so for the same host, *)
(* and what it holds is right for that host.                               *)
(*                                                                         *)
(* Then the limits, beside the rules (OutboundLimits), for any rules,      *)
(* histories and workers, and any length of the hour and the cache time.   *)
(***************************************************************************)
EXTENDS OutboundLimits, WellFoundedInduction, TLAPS

-----------------------------------------------------------------------------
(* The loop over the patterns                                              *)

\* Some number of a set is the least: the order in which the loop stops.
LEMMA Least ==
  ASSUME NEW T \in SUBSET Nat, T # {}
  PROVE  \E x \in T : \A y \in T : x <= y
<1> DEFINE R == {ss \in Nat \X Nat : ss[1] < ss[2]}
<1>1. IsWellFoundedOn(R, Nat)
  BY NatLessThanWellFounded DEF OpToRel
<1>2. PICK x \in T : \A y \in T : ~ (<<y, x>> \in R)
  <2> HIDE DEF R
  <2> QED BY <1>1, WFMin
<1>3. ASSUME NEW y \in T PROVE x <= y
  <2>1. ~ (<<y, x>> \in R)
    BY <1>2
  <2>2. x \in Nat /\ y \in Nat
    BY <1>2, <1>3
  <2> QED BY <2>1, <2>2
<1> QED BY <1>3, <1>2

\* The identifiers are natural numbers.
LEMMA IdsAreNaturals == PatternIds \in SUBSET Nat
BY PatternsAssumption DEF PatternIds

\* The loop finds a pattern that applies, and the first such.
LEMMA FirstMatchFound ==
  ASSUME NEW h \in Hosts, NEW a \in Addresses
  PROVE  /\ FirstMatch(h, a) \in PatternIds
         /\ Applies(FirstMatch(h, a), h, a)
         /\ \A q \in PatternIds : Applies(q, h, a) => FirstMatch(h, a) <= q
<1> DEFINE T == {p \in PatternIds : Applies(p, h, a)}
<1>1. T \in SUBSET Nat /\ T # {}
  BY PatternsAssumption, IdsAreNaturals DEF Applies
<1>2. \E p \in T : \A q \in T : p <= q
  <2> HIDE DEF T
  <2> QED BY <1>1, Least
<1>3. \E p \in PatternIds : Applies(p, h, a) /\ \A q \in PatternIds : Applies(q, h, a) => p <= q
  BY <1>2
<1> QED BY <1>3, Zenon DEF FirstMatch

\* When the first match is not limited to the address, it is the first for all addresses.
LEMMA GeneralMatch ==
  ASSUME NEW h \in Hosts, NEW a \in Addresses, Patterns[FirstMatch(h, a)].limitedTo = None
  PROVE  FirstMatch(h, a) = FirstGeneral(h)
<1> DEFINE m == FirstMatch(h, a)
<1>1. m \in PatternIds /\ General(m, h) /\ \A q \in PatternIds : General(q, h) => m <= q
  <2>1. /\ m \in PatternIds
        /\ Applies(m, h, a)
        /\ \A q \in PatternIds : Applies(q, h, a) => m <= q
    BY FirstMatchFound
  <2>2. Patterns[m].limitedTo = None
    OBVIOUS
  <2> HIDE DEF m
  <2> QED BY <2>1, <2>2 DEF General, Applies
<1> HIDE DEF m
<1>2. \E p \in PatternIds : General(p, h) /\ \A q \in PatternIds : General(q, h) => p <= q
  BY <1>1
<1>3. /\ FirstGeneral(h) \in PatternIds /\ General(FirstGeneral(h), h)
      /\ \A q \in PatternIds : General(q, h) => FirstGeneral(h) <= q
  BY <1>2, Zenon DEF FirstGeneral
<1>4. m <= FirstGeneral(h) /\ FirstGeneral(h) <= m
  BY <1>1, <1>3
<1>5. m \in Nat /\ FirstGeneral(h) \in Nat
  BY <1>1, <1>3, IdsAreNaturals
<1>6. m = FirstGeneral(h)
  BY <1>4, <1>5
<1> QED BY <1>6 DEF m

-----------------------------------------------------------------------------
(* The invariant                                                           *)

Owners(c) == {h \in Hosts : current[h] = c \/ \E w \in Workers : collection[w] = c /\ host[w] = h}

\* All who refer to a collection do so for the same host.
OneOwner == \A c \in Collections : \A g, h \in Owners(c) : g = h

\* A collection holds what the table says for its host.
EntriesAreRight ==
  \A c \in Collections : \A h \in Owners(c) :
    /\ matched[c][None] # None => matched[c][None].id = FirstGeneral(h)
    /\ \A a \in Addresses : matched[c][a] # None => matched[c][a].id = FirstMatch(h, a)

\* A worker that is busy knows for whom.
BusyKnows ==
  \A w \in Workers : pc[w] # "idle" => host[w] \in Hosts /\ address[w] \in Addresses

IInv == TypeOK /\ OneOwner /\ EntriesAreRight /\ BusyKnows /\ FirstOrGeneral /\ KnownIsRight

\* Nothing is cached and nobody refers to a collection.
LEMMA InitIInv == Init => IInv
<1> SUFFICES ASSUME Init PROVE IInv
  OBVIOUS
<1>1. TypeOK
  BY DEF Init, TypeOK, Empty, Keys
<1>2. \A c \in Collections : Owners(c) = {}
  BY NoneAssumption DEF Init, Owners
<1>3. OneOwner /\ EntriesAreRight
  BY <1>2 DEF OneOwner, EntriesAreRight
<1>4. BusyKnows
  BY DEF Init, BusyKnows
<1>5. Answers = {}
  BY DEF Init, Answers
<1>6. FirstOrGeneral /\ KnownIsRight
  BY <1>5 DEF FirstOrGeneral, KnownIsRight
<1> QED BY <1>1, <1>3, <1>4, <1>6 DEF IInv

-----------------------------------------------------------------------------
(* Steps                                                                   *)

\* Whoever refers to an unchanged collection did so before: its host and entries stay right.
LEMMA SameOwners ==
  ASSUME OneOwner, EntriesAreRight,
         \A c \in Collections : Owners(c)' \subseteq Owners(c) /\ matched'[c] = matched[c]
  PROVE  OneOwner' /\ EntriesAreRight'
BY DEF OneOwner, EntriesAreRight

\* The first answers of others stay as they are.
LEMMA OneAnswer ==
  ASSUME FirstOrGeneral, KnownIsRight, NEW w \in Workers, NEW r,
         answer' = [answer EXCEPT ![w] = r],
         answer \in [Workers -> Answer \cup {None}],
         r = None \/ /\ r.id \in {FirstMatch(r.host, r.address), FirstGeneral(r.host)}
                     /\ r.known => r.id = FirstMatch(r.host, r.address)
  PROVE  FirstOrGeneral' /\ KnownIsRight'
<1>1. \A x \in Answers' : x \in Answers \/ (x = r /\ r # None)
  BY DEF Answers
<1> QED BY <1>1 DEF FirstOrGeneral, KnownIsRight

\* A call takes the collection of its host.
LEMMA BeginKeeps ==
  ASSUME IInv, NEW w \in Workers, NEW h \in Hosts, NEW a \in Addresses, Begin(w, h, a)
  PROVE  IInv'
<1> USE DEF IInv
<1>1. TypeOK'
  <2>1. UNCHANGED <<current, matched>>
    BY DEF Begin
  <2>2. /\ pc' \in [Workers -> {"idle", "create", "cached", "search"}]
        /\ host' \in [Workers -> Hosts \cup {None}]
        /\ address' \in [Workers -> Keys]
        /\ collection' \in [Workers -> Collections \cup {None}]
    BY DEF TypeOK, Begin, Goto, SetCollection, Keys
  <2>3. answer' \in [Workers -> Answer \cup {None}]
    BY DEF TypeOK, Begin
  <2>4. \A v \in Workers : (pc'[v] \in {"cached", "search"}) = (collection'[v] # None)
    BY DEF TypeOK, Begin, Goto, SetCollection
  <2> QED BY <2>1, <2>2, <2>3, <2>4 DEF TypeOK
<1>2. \A c \in Collections : Owners(c)' \subseteq Owners(c) /\ matched'[c] = matched[c]
  BY NoneAssumption DEF TypeOK, Begin, Owners, SetCollection
<1>3. OneOwner' /\ EntriesAreRight'
  BY <1>2, SameOwners
<1>4. BusyKnows'
  BY DEF TypeOK, Begin, BusyKnows, Goto
<1>5. FirstOrGeneral' /\ KnownIsRight'
  BY OneAnswer DEF TypeOK, Begin
<1> QED BY <1>1, <1>3, <1>4, <1>5

\* A new collection belongs to the host it is made for, whoever made one before.
LEMMA CreateCollectionKeeps ==
  ASSUME IInv, NEW w \in Workers, CreateCollection(w)
  PROVE  IInv'
<1> USE DEF IInv
<1>1. PICK c \in Collections \ Referenced :
        /\ SetCollection(w, c)
        /\ current' = [current EXCEPT ![host[w]] = c]
        /\ matched' = [matched EXCEPT ![c] = Empty]
  BY DEF CreateCollection
<1>2. host[w] \in Hosts
  BY DEF CreateCollection, BusyKnows
<1>3. TypeOK'
  <2>1. UNCHANGED <<host, address, answer>>
    BY DEF CreateCollection, callVars
  <2>2. /\ current' \in [Hosts -> Collections \cup {None}]
        /\ pc' \in [Workers -> {"idle", "create", "cached", "search"}]
        /\ collection' \in [Workers -> Collections \cup {None}]
    BY <1>1, <1>2 DEF TypeOK, CreateCollection, Goto, SetCollection
  <2>3. matched' \in [Collections -> [Keys -> Entry \cup {None}]]
    BY <1>1 DEF TypeOK, Empty
  <2>4. \A v \in Workers : (pc'[v] \in {"cached", "search"}) = (collection'[v] # None)
    BY <1>1, NoneAssumption DEF TypeOK, CreateCollection, Goto, SetCollection
  <2> QED BY <2>1, <2>2, <2>3, <2>4 DEF TypeOK
<1>4. Owners(c)' = {host[w]}
  BY <1>1, <1>2 DEF TypeOK, CreateCollection, SetCollection, callVars, Owners, Referenced
<1>5. \A d \in Collections \ {c} : Owners(d)' \subseteq Owners(d) /\ matched'[d] = matched[d]
  BY <1>1, <1>2 DEF TypeOK, CreateCollection, SetCollection, callVars, Owners
<1>6. matched'[c] = Empty
  BY <1>1 DEF TypeOK
<1>7. OneOwner'
  BY <1>4, <1>5 DEF OneOwner
<1>8. EntriesAreRight'
  BY <1>4, <1>5, <1>6 DEF EntriesAreRight, Empty, Keys
<1>9. BusyKnows' /\ FirstOrGeneral' /\ KnownIsRight'
  <2>1. UNCHANGED <<host, address, answer>>
    BY DEF CreateCollection, callVars
  <2>2. Answers' = Answers
    BY <2>1 DEF Answers
  <2>3. BusyKnows'
    BY <2>1 DEF TypeOK, CreateCollection, BusyKnows, Goto
  <2> QED BY <2>2, <2>3 DEF FirstOrGeneral, KnownIsRight
<1> QED BY <1>3, <1>7, <1>8, <1>9

\* What every end of a call keeps; the answer is named by the caller.
LEMMA ReturnKeeps ==
  ASSUME IInv, NEW w \in Workers, NEW id \in PatternIds, pc[w] \in {"cached", "search"},
         Return(w, id), UNCHANGED current,
         id \in {FirstMatch(host[w], address[w]), FirstGeneral(host[w])},
         matched[collection[w]][address[w]] # None => id = FirstMatch(host[w], address[w])
  PROVE  /\ \A c \in Collections : Owners(c)' \subseteq Owners(c)
         /\ BusyKnows' /\ FirstOrGeneral' /\ KnownIsRight'
         /\ matched' \in [Collections -> [Keys -> Entry \cup {None}]] => TypeOK'
<1> USE DEF IInv
<1> DEFINE r == [host |-> host[w], address |-> address[w], id |-> id,
                 known |-> (matched[collection[w]][address[w]] # None)]
<1>1. host[w] \in Hosts /\ address[w] \in Addresses
  BY DEF BusyKnows
<1>2. \A c \in Collections : Owners(c)' \subseteq Owners(c)
  BY NoneAssumption DEF TypeOK, Return, SetCollection, Owners
<1>3. BusyKnows'
  BY DEF TypeOK, Return, Goto, BusyKnows
<1>4. answer' = [answer EXCEPT ![w] = r]
  BY DEF Return
<1>5. FirstOrGeneral' /\ KnownIsRight'
  <2>1. /\ r.id \in {FirstMatch(r.host, r.address), FirstGeneral(r.host)}
        /\ r.known => r.id = FirstMatch(r.host, r.address)
    OBVIOUS
  <2>2. answer \in [Workers -> Answer \cup {None}]
    BY DEF TypeOK
  <2> HIDE DEF r
  <2> QED BY <1>4, <2>1, <2>2, OneAnswer
<1>6. ASSUME matched' \in [Collections -> [Keys -> Entry \cup {None}]] PROVE TypeOK'
  <2>1. r \in Answer
    BY <1>1 DEF Answer
  <2>2. answer' \in [Workers -> Answer \cup {None}]
    <3> HIDE DEF r
    <3> QED BY <1>4, <2>1 DEF TypeOK
  <2>3. current' \in [Hosts -> Collections \cup {None}]
    BY DEF TypeOK
  <2>4. /\ pc' \in [Workers -> {"idle", "create", "cached", "search"}]
        /\ host' \in [Workers -> Hosts \cup {None}]
        /\ address' \in [Workers -> Keys]
        /\ collection' \in [Workers -> Collections \cup {None}]
    BY DEF TypeOK, Return, Goto, SetCollection, Keys
  <2>5. \A v \in Workers : (pc'[v] \in {"cached", "search"}) = (collection'[v] # None)
    BY DEF TypeOK, Return, Goto, SetCollection
  <2> QED BY <1>6, <2>2, <2>3, <2>4, <2>5 DEF TypeOK
<1> QED BY <1>2, <1>3, <1>5, <1>6

\* A busy worker has a collection, which belongs to its host.
LEMMA WorkerOwns ==
  ASSUME IInv, NEW w \in Workers, pc[w] \in {"cached", "search"}
  PROVE  collection[w] \in Collections /\ host[w] \in Owners(collection[w])
BY DEF IInv, TypeOK, BusyKnows, Owners

\* An entry of its own is never what is used, since it is looked at only when it is old.
LEMMA UseCachedKeeps ==
  ASSUME IInv, NEW w \in Workers, UseCached(w)
  PROVE  IInv'
<1> DEFINE c == collection[w]
           a == address[w]
<1>1. c \in Collections /\ host[w] \in Owners(c) /\ a \in Addresses
  BY WorkerOwns DEF UseCached, IInv, BusyKnows
<1>2. matched[c][a] = None /\ matched[c][None] # None /\ Cached(c, a) = matched[c][None]
  <2>1. matched[c][a] \in Entry \cup {None}
    BY <1>1 DEF IInv, TypeOK, Keys
  <2>2. Fresh(Cached(c, a))
    BY DEF UseCached
  <2>3. ~ (matched[c][a] # None /\ Expired(matched[c][a]))
    <3> SUFFICES ASSUME matched[c][a] # None, Expired(matched[c][a]) PROVE FALSE
      OBVIOUS
    <3>1. Cached(c, a) = matched[c][a]
      BY DEF Cached
    <3>2. matched[c][a].age \in Int
      BY <2>1 DEF Entry, Old
    <3> QED BY <2>2, <3>1, <3>2, TimesAssumption DEF Fresh, Expired
  <2> QED BY <2>2, <2>3 DEF Cached, Fresh
<1>3. Cached(c, a).id = FirstGeneral(host[w]) /\ Cached(c, a).id \in PatternIds
  <2>1. matched[c][None] \in Entry
    BY <1>1, <1>2 DEF IInv, TypeOK, Keys
  <2> QED BY <1>1, <1>2, <2>1 DEF IInv, EntriesAreRight, Entry
<1>4. /\ \A d \in Collections : Owners(d)' \subseteq Owners(d)
      /\ BusyKnows' /\ FirstOrGeneral' /\ KnownIsRight'
      /\ matched' \in [Collections -> [Keys -> Entry \cup {None}]] => TypeOK'
  BY <1>2, <1>3, ReturnKeeps DEF UseCached
<1>5. TypeOK'
  BY <1>4 DEF UseCached, IInv, TypeOK
<1>6. OneOwner' /\ EntriesAreRight'
  BY <1>4, SameOwners DEF UseCached, IInv
<1> QED BY <1>4, <1>5, <1>6 DEF IInv

\* A worker that finds nothing goes on with the same collection.
LEMMA NothingCachedKeeps ==
  ASSUME IInv, NEW w \in Workers, NothingCached(w)
  PROVE  IInv'
<1> USE DEF IInv
<1>1. UNCHANGED <<current, matched, host, address, collection, answer>>
  BY DEF NothingCached, callVars
<1>2. TypeOK' /\ BusyKnows'
  BY <1>1 DEF NothingCached, Goto, TypeOK, BusyKnows
<1>3. \A c \in Collections : Owners(c)' \subseteq Owners(c) /\ matched'[c] = matched[c]
  BY <1>1 DEF Owners
<1>4. OneOwner' /\ EntriesAreRight'
  BY <1>3, SameOwners
<1>5. Answers' = Answers
  BY <1>1 DEF Answers
<1>6. FirstOrGeneral' /\ KnownIsRight'
  BY <1>5 DEF FirstOrGeneral, KnownIsRight
<1> QED BY <1>2, <1>4, <1>6

\* What is stored is right for the host, under the key it is stored at.
LEMMA SearchKeeps ==
  ASSUME IInv, NEW w \in Workers, Search(w)
  PROVE  IInv'
<1> DEFINE c == collection[w]
           a == address[w]
           found == FirstMatch(host[w], a)
           k == KeyFor(found, a)
           e == [id |-> found, age |-> 0]
<1>1. c \in Collections /\ host[w] \in Owners(c) /\ host[w] \in Hosts /\ a \in Addresses
  BY WorkerOwns DEF Search, IInv, BusyKnows
<1>2. found \in PatternIds /\ Applies(found, host[w], a)
  BY <1>1, FirstMatchFound
<1>3. k \in Keys /\ e \in Entry
  BY <1>1, <1>2, TimesAssumption DEF KeyFor, Keys, Entry, Old
<1>4. matched' = [matched EXCEPT ![c][k] = e]
  BY DEF Search
<1>5. /\ \A d \in Collections : Owners(d)' \subseteq Owners(d)
      /\ BusyKnows' /\ FirstOrGeneral' /\ KnownIsRight'
      /\ matched' \in [Collections -> [Keys -> Entry \cup {None}]] => TypeOK'
  BY <1>2, ReturnKeeps DEF Search
<1> HIDE DEF e, k
<1>6. TypeOK'
  BY <1>1, <1>3, <1>4, <1>5 DEF IInv, TypeOK
<1>7. OneOwner'
  BY <1>5 DEF IInv, OneOwner
<1>8. EntriesAreRight'
  <2> SUFFICES ASSUME NEW d \in Collections, NEW h \in Owners(d)', NEW b \in Keys, matched'[d][b] # None
               PROVE  matched'[d][b].id = IF b = None THEN FirstGeneral(h) ELSE FirstMatch(h, b)
    BY NoneAssumption DEF EntriesAreRight, Keys
  <2>1. h \in Owners(d)
    BY <1>5
  <2>2. CASE d = c /\ b = k
    <3>1. h = host[w]
      BY <1>1, <2>1, <2>2 DEF IInv, OneOwner
    <3>2. matched'[d][b].id = found
      BY <1>1, <1>3, <1>4, <2>2 DEF IInv, TypeOK, e
    <3>3. CASE Patterns[found].limitedTo = None
      BY <1>1, <2>2, <3>1, <3>2, <3>3, GeneralMatch DEF k, KeyFor
    <3>4. CASE Patterns[found].limitedTo # None
      BY <1>1, <2>2, <3>1, <3>2, <3>4, NoneAssumption DEF k, KeyFor
    <3> QED BY <3>3, <3>4
  <2>3. CASE ~ (d = c /\ b = k)
    <3>1. matched'[d][b] = matched[d][b]
      BY <1>1, <1>3, <1>4, <2>3 DEF IInv, TypeOK
    <3> QED BY <2>1, <3>1, NoneAssumption DEF IInv, EntriesAreRight, Keys
  <2> QED BY <2>2, <2>3
<1> QED BY <1>5, <1>6, <1>7, <1>8 DEF IInv

\* Growing older changes no pattern.
LEMMA MinuteKeeps ==
  ASSUME IInv, Minute
  PROVE  IInv'
<1> USE DEF IInv
<1>1. UNCHANGED <<current, pc, host, address, collection, answer>>
  BY DEF Minute, callVars
<1>2. \A c \in Collections, k \in Keys :
        /\ matched'[c][k] \in Entry \cup {None}
        /\ matched'[c][k] # None => matched[c][k] # None /\ matched'[c][k].id = matched[c][k].id
  <2> SUFFICES ASSUME NEW c \in Collections, NEW k \in Keys
               PROVE  /\ matched'[c][k] \in Entry \cup {None}
                      /\ matched'[c][k] # None =>
                           matched[c][k] # None /\ matched'[c][k].id = matched[c][k].id
    OBVIOUS
  <2>1. matched'[c][k] \in {Aged(matched[c][k]), None}
    BY DEF Minute, Empty
  <2>2. matched[c][k] \in Entry \cup {None}
    BY DEF TypeOK
  <2> QED BY <2>1, <2>2, TimesAssumption DEF Aged, Entry, Old
<1>3. matched' \in [Collections -> [Keys -> Entry \cup {None}]]
  <2>1. \A c \in Collections : matched'[c] = [k \in Keys |-> matched'[c][k]]
    BY DEF Minute, Empty
  <2>2. matched' = [c \in Collections |-> matched'[c]]
    BY DEF Minute
  <2> QED BY <1>2, <2>1, <2>2
<1>4. TypeOK' /\ BusyKnows'
  BY <1>1, <1>3 DEF TypeOK, BusyKnows
<1>5. \A c \in Collections : Owners(c)' = Owners(c)
  BY <1>1 DEF Owners
<1>6. OneOwner' /\ EntriesAreRight'
  BY <1>2, <1>5 DEF OneOwner, EntriesAreRight, Keys
<1>7. Answers' = Answers
  BY <1>1 DEF Answers
<1>8. FirstOrGeneral' /\ KnownIsRight'
  BY <1>7 DEF FirstOrGeneral, KnownIsRight
<1> QED BY <1>4, <1>6, <1>8

\* The invariant speaks of the variables only.
LEMMA StutterKeeps == IInv /\ UNCHANGED vars => IInv'
<1> SUFFICES ASSUME IInv, UNCHANGED vars PROVE IInv'
  OBVIOUS
<1>1. UNCHANGED <<current, matched, pc, host, address, collection, answer>>
  BY DEF vars, callVars
<1>2. \A c : Owners(c)' = Owners(c)
  BY <1>1 DEF Owners
<1>3. Answers' = Answers
  BY <1>1 DEF Answers
<1>4. TypeOK' /\ BusyKnows'
  BY <1>1 DEF IInv, TypeOK, BusyKnows
<1>5. OneOwner' /\ EntriesAreRight'
  BY <1>1, <1>2 DEF IInv, OneOwner, EntriesAreRight
<1>6. FirstOrGeneral' /\ KnownIsRight'
  BY <1>3 DEF IInv, FirstOrGeneral, KnownIsRight
<1> QED BY <1>4, <1>5, <1>6 DEF IInv

-----------------------------------------------------------------------------
(* Theorems                                                                *)

\* The invariant holds in every state.
THEOREM Inductive == Spec => []IInv
<1>1. IInv /\ [Next]_vars => IInv'
  <2> SUFFICES ASSUME IInv, [Next]_vars PROVE IInv'
    OBVIOUS
  <2>1. ASSUME NEW w \in Workers, NEW h \in Hosts, NEW a \in Addresses, Begin(w, h, a) PROVE IInv'
    BY <2>1, BeginKeeps
  <2>2. ASSUME NEW w \in Workers, CreateCollection(w) PROVE IInv'
    BY <2>2, CreateCollectionKeeps
  <2>3. ASSUME NEW w \in Workers, UseCached(w) PROVE IInv'
    BY <2>3, UseCachedKeeps
  <2>4. ASSUME NEW w \in Workers, NothingCached(w) PROVE IInv'
    BY <2>4, NothingCachedKeeps
  <2>5. ASSUME NEW w \in Workers, Search(w) PROVE IInv'
    BY <2>5, SearchKeeps
  <2>6. ASSUME Minute PROVE IInv'
    BY <2>6, MinuteKeeps
  <2>7. ASSUME UNCHANGED vars PROVE IInv'
    BY <2>7, StutterKeeps
  <2> QED BY <2>1, <2>2, <2>3, <2>4, <2>5, <2>6, <2>7 DEF Next
<1> QED BY <1>1, InitIInv, PTL DEF Spec

\* The state is well-typed; a busy worker has a collection.
THEOREM TypeCorrect == Spec => []TypeOK
<1>1. IInv => TypeOK
  BY DEF IInv
<1> QED BY <1>1, Inductive, PTL

\* An answer is the pattern of the table for host and address or the one for addresses without
\* a pattern of their own, for any tables and any number of workers that create, replace and
\* share the collections of OutboundRuleManager.
THEOREM AnswerIsFirstOrGeneral == Spec => []FirstOrGeneral
<1>1. IInv => FirstOrGeneral
  BY DEF IInv
<1> QED BY <1>1, Inductive, PTL

\* An address with an entry of its own gets the pattern of the table.
THEOREM KnownGetTheirOwn == Spec => []KnownIsRight
<1>1. IInv => KnownIsRight
  BY DEF IInv
<1> QED BY <1>1, Inductive, PTL

-----------------------------------------------------------------------------
(***************************************************************************)
(* What a rule of so many messages per hour allows: ThrottleManager, over  *)
(* the patterns that have such a rule.  Intervals that reach back an hour  *)
(* allow no more than the rule; no worker is judged by an interval that    *)
(* nobody has calculated; and the object in use counts all that was        *)
(* allowed from an address, so that no interval exceeds its messages.      *)
(***************************************************************************)

USE LimitsAssumption

\* At least one message fits into some minutes exactly when the hour does.
LEMMA EnoughIff ==
  ASSUME NEW h \in Nat, NEW i \in 1..Hour
  PROVE  i \in Limits!Enough(h) <=> Hour <= h * i
<1>1. h * i \in Nat /\ Hour \in Nat \ {0}
  BY DEF Limits!TimesAssumption
<1> DEFINE x == h * i
<1>2. (x \div Hour) >= 1 <=> Hour <= x
  <2> HIDE DEF x
  <2>1. x \in Nat
    BY <1>1 DEF x
  <2> QED BY <1>1, <2>1
<1> QED BY <1>2 DEF Limits!Enough, Limits!MessagesIn

\* The loop stops at the first such minute, or runs past the hour for a rule of 0.
LEMMA IntervalMinutesFound ==
  ASSUME NEW h \in Nat
  PROVE  /\ h = 0 => Limits!IntervalMinutes(h) = Hour + 1
         /\ h # 0 => /\ Limits!IntervalMinutes(h) \in Limits!Enough(h)
                     /\ \A j \in Limits!Enough(h) : Limits!IntervalMinutes(h) <= j
         /\ Limits!IntervalMinutes(h) \in 1..(Hour + 1)
<1>1. CASE h = 0
  <2>1. Limits!Enough(h) = {}
    <3> SUFFICES ASSUME NEW i \in 1..Hour PROVE i \notin Limits!Enough(h)
      BY DEF Limits!Enough
    <3> QED BY <1>1, EnoughIff DEF Limits!TimesAssumption
  <2> QED BY <1>1, <2>1 DEF Limits!IntervalMinutes, Limits!TimesAssumption
<1>2. CASE h # 0
  <2>1. Hour \in Limits!Enough(h)
    BY <1>2, EnoughIff DEF Limits!TimesAssumption
  <2>2. Limits!Enough(h) \in SUBSET Nat /\ Limits!Enough(h) \subseteq 1..Hour /\ Limits!Enough(h) # {}
    BY <2>1 DEF Limits!Enough, Limits!TimesAssumption
  <2>3. \E i \in Limits!Enough(h) : \A j \in Limits!Enough(h) : i <= j
    BY <2>2, Least
  <2>4. Limits!IntervalMinutes(h) \in Limits!Enough(h)
        /\ \A j \in Limits!Enough(h) : Limits!IntervalMinutes(h) <= j
    BY <2>2, <2>3, Zenon DEF Limits!IntervalMinutes
  <2> QED BY <1>2, <2>2, <2>4 DEF Limits!TimesAssumption
<1> QED BY <1>1, <1>2

\* If so many messages are sent in each interval, however many intervals begin within an hour,
\* no more are sent than the rule says.
THEOREM IntervalsStayWithinRule ==
  ASSUME NEW h \in Nat, NEW n \in Nat \ {0},
         (n - 1) * Limits!IntervalMinutes(h) < Hour
  PROVE  n * Limits!IntervalMessages(h) <= h
<1> DEFINE m == Limits!IntervalMinutes(h)
<1>0. Hour \in Nat \ {0} /\ m \in 1..(Hour + 1)
  BY IntervalMinutesFound DEF Limits!TimesAssumption
<1>1. CASE h = 0
  <2>1. Limits!MessagesIn(0, m) = 0
    BY <1>0 DEF Limits!MessagesIn
  <2> QED BY <1>1, <2>1 DEF Limits!IntervalMessages
<1>2. CASE h # 0 /\ Hour <= h
  <2>1. 1 \in Limits!Enough(h)
    BY <1>0, <1>2, EnoughIff
  <2>2. m = 1
    BY <1>0, <1>2, <2>1, IntervalMinutesFound
  <2>3. n <= Hour
    BY <1>0, <2>2
  <2>4. Limits!IntervalMessages(h) = h \div Hour
    BY <1>0, <2>2 DEF Limits!IntervalMessages, Limits!MessagesIn
  <2> DEFINE q == h \div Hour
  <2>5. q \in Nat /\ Hour * q <= h
    BY <1>0
  <2> HIDE DEF q
  <2>6. n * q <= Hour * q
    BY <1>0, <2>3, <2>5
  <2>7. n * q \in Nat /\ Hour * q \in Nat
    BY <1>0, <2>5
  <2>8. n * q <= h
    BY <2>5, <2>6, <2>7
  <2> QED BY <2>4, <2>8 DEF q
<1>3. CASE h # 0 /\ h < Hour
  <2>1. m \in Limits!Enough(h) /\ \A j \in Limits!Enough(h) : m <= j
    BY <1>3, IntervalMinutesFound
  <2>2. m \in 1..Hour
    BY <2>1 DEF Limits!Enough
  <2>3. Hour <= h * m
    BY <2>1, <2>2, EnoughIff
  <2>4. m # 1
    BY <1>0, <1>3, <2>3
  <2>5. m - 1 \in 1..Hour /\ m - 1 \notin Limits!Enough(h)
    BY <1>0, <2>1, <2>2, <2>4
  <2>6. h * (m - 1) < Hour
    BY <2>5, EnoughIff, <1>0
  <2> DEFINE p == h * m
  <2>7. p \in Nat /\ Hour <= p /\ p < 2 * Hour
    BY <1>0, <1>3, <2>2, <2>3, <2>6
  <2>8. p \div Hour = 1
    <3> HIDE DEF p
    <3> QED BY <1>0, <2>7
  <2>9. Limits!IntervalMessages(h) = 1
    BY <2>8 DEF Limits!IntervalMessages, Limits!MessagesIn
  <2>10. n - 1 < h
    <3> SUFFICES ASSUME h <= n - 1 PROVE FALSE
      OBVIOUS
    <3>1. h * m <= (n - 1) * m
      BY <2>2
    <3>2. h * m \in Int /\ (n - 1) * m \in Int
      BY <2>2
    <3> QED BY <1>0, <2>3, <3>1, <3>2
  <2> QED BY <2>9, <2>10
<1> QED BY <1>0, <1>1, <1>2, <1>3

-----------------------------------------------------------------------------
(* Who calculates the interval                                             *)

\* The types of all but the lists of sends, which do not matter here.
LimitTypes ==
  /\ maxMessages \in [Histories -> Nat \cup {-1}]
  /\ minutes \in [Histories -> 1..(Hour + 1) \cup {-1}]
  /\ recalcIn \in [Histories -> 0..CacheMinutes]
  /\ sendHistory \in [Addresses -> Histories \cup {None}]
  /\ object \in [Workers -> Histories \cup {None}]
  /\ step \in [Workers -> Limits!Pc]
  /\ from \in [Workers -> Addresses \cup {None}]
  /\ pattern \in [Workers -> Limited \cup {None}]
  /\ \A w \in Workers : step[w] # "idle" => from[w] \in Addresses /\ pattern[w] \in Limited
  /\ \A w \in Workers : step[w] \in {"idle", "find"} <=> object[w] = None
  /\ replaced \in SUBSET Addresses
  /\ mixed \in SUBSET (Addresses \X Limited)

\* An interval that need not be calculated yet has been calculated.
Calculated == \A o \in Histories : recalcIn[o] # 0 => maxMessages[o] # -1 /\ minutes[o] # -1

\* A worker that is about to set the minutes has set the messages.
MaxIsSet == \A w \in Workers : step[w] = "minutes" => maxMessages[object[w]] # -1

Known == LimitTypes /\ Calculated /\ MaxIsSet /\ Limits!IntervalIsKnown

\* What is calculated is never the -1 of a new history.
LEMMA IntervalCalculated ==
  ASSUME NEW h \in Nat
  PROVE  Limits!IntervalMinutes(h) \in Nat \ {0} /\ Limits!IntervalMessages(h) \in Nat
<1>1. Limits!IntervalMinutes(h) \in Nat \ {0}
  BY IntervalMinutesFound DEF Limits!TimesAssumption
<1> DEFINE x == h * Limits!IntervalMinutes(h)
<1>2. x \in Nat
  BY <1>1
<1>3. x \div Hour \in Nat
  <2> HIDE DEF x
  <2> QED BY <1>2 DEF Limits!TimesAssumption
<1> QED BY <1>1, <1>3 DEF Limits!IntervalMessages, Limits!MessagesIn

\* No worker has asked yet.
LEMMA InitKnown == Limits!Init => Known
BY DEF Limits!TimesAssumption, Limits!Init, Known, LimitTypes, Calculated, MaxIsSet,
       Limits!IntervalIsKnown, Limits!Pc, Limits!NoneAssumption

\* Each step of a call and each minute keeps the invariant.
LEMMA NextKnown ==
  ASSUME Known,
         [Limits!Next]_(Limits!vars)
  PROVE  Known'
<1> USE DEF Known, Limits!NoneAssumption, Limits!Goto, Limits!SetObject, Limits!intervalVars,
            Limits!callVars, Limits!historyVars
<1>1. ASSUME NEW w \in Workers, NEW a \in Addresses, NEW p \in Limited, Limits!Ask(w, a, p) PROVE Known'
  BY <1>1 DEF Limits!Ask, LimitTypes, Calculated, MaxIsSet, Limits!IntervalIsKnown, Limits!Pc
<1>2. ASSUME NEW w \in Workers, Limits!FindHistory(w) PROVE Known'
  BY <1>2 DEF Limits!FindHistory, LimitTypes, Calculated, MaxIsSet, Limits!IntervalIsKnown, Limits!Pc
<1>3. ASSUME NEW w \in Workers, Limits!NewHistory(w) PROVE Known'
  <2>1. PICK o \in Histories \ Limits!Referenced :
          /\ Limits!SetObject(w, o)
          /\ maxMessages' = [maxMessages EXCEPT ![o] = -1]
          /\ minutes' = [minutes EXCEPT ![o] = -1]
          /\ recalcIn' = [recalcIn EXCEPT ![o] = 0]
    BY <1>3 DEF Limits!NewHistory
  <2>2. \A v \in Workers : object[v] # o
    BY <2>1 DEF Limits!Referenced
  <2>3. UNCHANGED <<sendHistory, from, pattern, replaced, mixed>> /\ step[w] = "find"
        /\ step' = [step EXCEPT ![w] = "add"]
    BY <1>3 DEF Limits!NewHistory
  <2>4. LimitTypes'
    <3>1. /\ maxMessages' \in [Histories -> Nat \cup {-1}]
          /\ minutes' \in [Histories -> 1..(Hour + 1) \cup {-1}]
      BY <2>1 DEF LimitTypes
    <3>2. recalcIn' \in [Histories -> 0..CacheMinutes]
      BY <2>1 DEF LimitTypes, Limits!TimesAssumption
    <3>3. /\ object' \in [Workers -> Histories \cup {None}]
          /\ step' \in [Workers -> Limits!Pc]
      BY <2>1, <2>3 DEF LimitTypes, Limits!Pc
    <3>4. \A v \in Workers :
            /\ step'[v] # "idle" => from[v] \in Addresses /\ pattern[v] \in Limited
            /\ step'[v] \in {"idle", "find"} <=> object'[v] = None
      BY <2>1, <2>3 DEF LimitTypes
    <3> QED BY <2>3, <3>1, <3>2, <3>3, <3>4 DEF LimitTypes
  <2>5. Calculated'
    BY <2>1 DEF LimitTypes, Calculated
  <2>6. \A v \in Workers : v # w => object'[v] = object[v] /\ step'[v] = step[v]
    BY <2>1, <2>3 DEF LimitTypes
  <2>7. \A v \in Workers : step[v] \notin {"idle", "find"} =>
          maxMessages'[object[v]] = maxMessages[object[v]] /\ minutes'[object[v]] = minutes[object[v]]
    BY <2>1, <2>2 DEF LimitTypes
  <2>8. step'[w] = "add"
    BY <2>3 DEF LimitTypes
  <2>9. MaxIsSet' /\ Limits!IntervalIsKnown'
    BY <2>6, <2>7, <2>8 DEF MaxIsSet, Limits!IntervalIsKnown
  <2> QED BY <2>4, <2>5, <2>9
<1>4. ASSUME NEW w \in Workers, Limits!AddHistory(w) PROVE Known'
  BY <1>4 DEF Limits!AddHistory, LimitTypes, Calculated, MaxIsSet, Limits!IntervalIsKnown, Limits!Pc
<1>5. ASSUME NEW w \in Workers, Limits!CheckInterval(w) PROVE Known'
  BY <1>5 DEF Limits!CheckInterval, LimitTypes, Calculated, MaxIsSet, Limits!IntervalIsKnown, Limits!Pc
<1>6. ASSUME NEW w \in Workers, Limits!SetMaxMessages(w) PROVE Known'
  <2>1. Limits!IntervalMessages(Limits!PerHour(w)) \in Nat
    BY <1>6, IntervalCalculated DEF Limits!SetMaxMessages, LimitTypes, Limits!PerHour,
                                    Limits!RulesAssumption
  <2>2. object[w] \in Histories
    BY <1>6 DEF Limits!SetMaxMessages, LimitTypes
  <2> QED BY <1>6, <2>1
          DEF Limits!SetMaxMessages, LimitTypes, Calculated, MaxIsSet, Limits!IntervalIsKnown, Limits!Pc
<1>7. ASSUME NEW w \in Workers, Limits!SetMinutes(w) PROVE Known'
  <2>1. Limits!IntervalMinutes(Limits!PerHour(w)) \in 1..(Hour + 1)
    BY <1>7, IntervalMinutesFound DEF Limits!SetMinutes, LimitTypes, Limits!PerHour,
                                      Limits!RulesAssumption
  <2> QED BY <1>7, <2>1
          DEF Limits!SetMinutes, LimitTypes, Calculated, MaxIsSet, Limits!IntervalIsKnown, Limits!Pc,
              Limits!TimesAssumption
<1>8. ASSUME NEW w \in Workers, Limits!Judge(w) PROVE Known'
  BY <1>8 DEF Limits!Judge, LimitTypes, Calculated, MaxIsSet, Limits!IntervalIsKnown, Limits!Pc
<1>9. ASSUME Limits!Minute PROVE Known'
  <2>1. UNCHANGED <<sendHistory, maxMessages, minutes, step, from, pattern, object, replaced, mixed>>
    BY <1>9 DEF Limits!Minute
  <2>2. recalcIn' \in [Histories -> 0..CacheMinutes]
        /\ \A o \in Histories : recalcIn'[o] # 0 => recalcIn[o] # 0
    <3>1. recalcIn' = [o \in Histories |-> IF recalcIn[o] = 0 THEN 0 ELSE recalcIn[o] - 1]
      BY <1>9 DEF Limits!Minute
    <3>2. \A o \in Histories : recalcIn[o] \in 0..CacheMinutes
      BY DEF LimitTypes
    <3> QED BY <3>1, <3>2 DEF Limits!TimesAssumption
  <2>3. LimitTypes'
    BY <2>1, <2>2 DEF LimitTypes
  <2> QED BY <2>1, <2>2, <2>3 DEF Calculated, MaxIsSet, Limits!IntervalIsKnown
<1>10. ASSUME UNCHANGED Limits!vars PROVE Known'
  BY <1>10 DEF Limits!vars, LimitTypes, Calculated, MaxIsSet, Limits!IntervalIsKnown
<1>11. \A w \in Workers : Limits!Allow(w) \/ Limits!Deny(w) => Limits!Judge(w)
  BY DEF Limits!Allow, Limits!Deny
<1> QED BY <1>1, <1>2, <1>3, <1>4, <1>5, <1>6, <1>7, <1>8, <1>9, <1>10, <1>11 DEF Limits!Next

\* What the limits do beside the rules is a behaviour of Throttle.
LEMMA LimitsArePart == LimitsSpec => Limits!Spec
<1>1. LimitsInit => Limits!Init
  BY DEF LimitsInit
<1>2. [LimitsNext]_<<vars, limitVars>> => [Limits!Next]_(Limits!vars)
  BY DEF LimitsNext, StepOfRules, StepOfLimits, limitVars, Limits!vars, Limits!intervalVars,
         Limits!callVars, Limits!historyVars
<1> QED BY <1>1, <1>2, PTL DEF LimitsSpec, Limits!Spec

\* No worker compares its sends with an interval that nobody has calculated, whichever of the
\* workers that share a history calculates it: TryGetSendAuth writes the two values before the
\* time at which they expire.
THEOREM IntervalsAreKnown == LimitsSpec => []Limits!IntervalIsKnown
<1>1. Known => Limits!IntervalIsKnown
  BY DEF Known
<1>2. Limits!Init => Known
  BY InitKnown
<1>3. Known /\ [Limits!Next]_(Limits!vars) => Known'
  BY NextKnown
<1> QED BY <1>1, <1>2, <1>3, LimitsArePart, PTL DEF Limits!Spec

-----------------------------------------------------------------------------
(* The limit of an hour                                                    *)

\* Who refers to an object: an address that has it, or a worker for its address.
Owns(a, o) == sendHistory[a] = o \/ \E w \in Workers : object[w] = o /\ from[w] = a

OneAddress ==
  \A o \in Histories, a, b \in Addresses : Owns(a, o) /\ Owns(b, o) => a = b

ListTypes ==
  /\ sends \in [Histories -> [Limited -> Limits!Lists]]
  /\ allowed \in [Addresses -> [Limited -> [0..Hour -> Nat]]]

\* A new object is empty, and nobody else has it.
NewIsEmpty ==
  \A w \in Workers : step[w] = "add" =>
    /\ \A p \in Limited : sends[object[w]][p] = Limits!NoSends(Hour + 1)
    /\ \A a \in Addresses : sendHistory[a] # object[w]
    /\ \A v \in Workers : v # w => object[v] # object[w]

\* Workers count in the object of the address, unless it was replaced.
InCurrent ==
  \A w \in Workers : step[w] \notin {"idle", "find", "add"} =>
    /\ sendHistory[from[w]] # None
    /\ from[w] \in replaced \/ object[w] = sendHistory[from[w]]

NothingAllowed ==
  \A a \in Addresses : sendHistory[a] = None =>
    \A p \in Limited : allowed[a][p] = Limits!NoSends(Hour)

\* In a longer time no fewer were allowed.
Growing ==
  \A a \in Addresses, p \in Limited :
    /\ allowed[a][p][0] = 0
    /\ \A x, y \in 0..Hour : x <= y => allowed[a][p][x] <= allowed[a][p][y]

\* No object counts more than were allowed.
WereAllowed ==
  \A o \in Histories, a \in Addresses : Owns(a, o) =>
    \A p \in Limited, k \in 0..Hour : sends[o][p][k] <= allowed[a][p][k]

Minutes(p) == Limits!IntervalMinutes(MaxMessagesHour[p])
Messages(p) == Limits!IntervalMessages(MaxMessagesHour[p])

\* The object of an address counts all that were allowed, as far back as its interval reaches, and
\* no interval, whenever it begins, has more than its messages.
Kept(a, p) ==
  /\ \A k \in 0..Hour : k <= Minutes(p) => sends[sendHistory[a]][p][k] = allowed[a][p][k]
  /\ \A x, y \in 0..Hour : x <= y /\ y <= x + Minutes(p) =>
       allowed[a][p][y] <= allowed[a][p][x] + Messages(p)

InEveryInterval ==
  \A a \in Addresses, p \in Limited :
    sendHistory[a] # None => <<a, p>> \in mixed \/ a \in replaced \/ Kept(a, p)

HourInv ==
  /\ Known /\ OneAddress /\ ListTypes /\ NewIsEmpty /\ InCurrent /\ NothingAllowed
  /\ Growing /\ WereAllowed /\ InEveryInterval

\* No object is in use at first.
LEMMA InitHour ==
  ASSUME Limits!Init
  PROVE  HourInv
<1>1. Known
  BY InitKnown
<1>2. OneAddress
  BY DEF OneAddress, Owns, Limits!Init, Limits!NoneAssumption
<1>3. ListTypes
  BY DEF ListTypes, Limits!Init, Limits!Lists, Limits!NoSends, Limits!TimesAssumption
<1>4. NewIsEmpty /\ InCurrent /\ NothingAllowed /\ WereAllowed /\ InEveryInterval
  BY DEF NewIsEmpty, InCurrent, NothingAllowed, WereAllowed, Owns, InEveryInterval, Limits!Init,
         Limits!NoneAssumption
<1>5. Growing
  BY DEF Growing, Limits!Init, Limits!NoSends, Limits!TimesAssumption
<1> QED BY <1>1, <1>2, <1>3, <1>4, <1>5 DEF HourInv

\* A step that leaves the lists, the objects of addresses and who works with which alone.
LEMMA SameListsHour ==
  ASSUME HourInv, Known',
         UNCHANGED <<sendHistory, sends, object, allowed, replaced, mixed>>,
         \A w \in Workers : object[w] # None => from'[w] = from[w],
         \A w \in Workers : step'[w] = "add" => step[w] = "add",
         \A w \in Workers : step'[w] \notin {"idle", "find", "add"} =>
           step[w] \notin {"idle", "find", "add"}
  PROVE  HourInv'
<1> USE DEF HourInv
<1>0. LimitTypes /\ \A a \in Addresses, o \in Histories : Owns(a, o)' => Owns(a, o)
  BY DEF Known, LimitTypes, Owns, Limits!NoneAssumption
<1>1. OneAddress' /\ ListTypes' /\ WereAllowed'
  BY <1>0 DEF OneAddress, ListTypes, WereAllowed
<1>2. NewIsEmpty' /\ NothingAllowed' /\ Growing' /\ InEveryInterval'
  BY DEF NewIsEmpty, NothingAllowed, Growing, InEveryInterval, Kept, Minutes, Messages
<1>3. InCurrent'
  BY <1>0 DEF InCurrent, LimitTypes
<1> QED BY <1>1, <1>2, <1>3

\* A worker that finds an object becomes one of those that have it.
LEMMA FindHistoryHour ==
  ASSUME HourInv, Known', NEW w \in Workers, Limits!FindHistory(w)
  PROVE  HourInv'
<1> USE DEF HourInv, Limits!FindHistory, Limits!Goto, Limits!SetObject, Limits!callVars,
            Limits!historyVars
<1>0. LimitTypes /\ LimitTypes' /\ from[w] \in Addresses
  BY DEF Known, LimitTypes
<1>1. \A a \in Addresses, o \in Histories : Owns(a, o)' => Owns(a, o)
  BY <1>0 DEF LimitTypes, Owns
<1>2. OneAddress' /\ ListTypes' /\ WereAllowed'
  BY <1>1 DEF OneAddress, ListTypes, WereAllowed
<1>3. NothingAllowed' /\ Growing' /\ InEveryInterval'
  BY DEF NothingAllowed, Growing, InEveryInterval, Kept, Minutes, Messages
<1>4. NewIsEmpty'
  BY <1>0 DEF NewIsEmpty, LimitTypes
<1>5. InCurrent'
  BY <1>0 DEF InCurrent, LimitTypes
<1> QED BY <1>2, <1>3, <1>4, <1>5

\* A worker takes an object that nobody has.
LEMMA NewHistoryHour ==
  ASSUME HourInv, Known',
         NEW w \in Workers, Limits!NewHistory(w)
  PROVE  HourInv'
<1> USE DEF HourInv
<1>0. LimitTypes /\ LimitTypes' /\ from[w] \in Addresses /\ step[w] = "find" /\ object[w] = None
      /\ UNCHANGED <<sendHistory, from, pattern, allowed, replaced, mixed>>
      /\ step' = [step EXCEPT ![w] = "add"]
  BY DEF Known, LimitTypes, Limits!NewHistory, Limits!Goto, Limits!callVars, Limits!historyVars
<1>1. PICK n \in Histories \ Limits!Referenced :
        /\ object' = [object EXCEPT ![w] = n]
        /\ sends' = [sends EXCEPT ![n] = [p \in Limited |-> Limits!NoSends(Hour + 1)]]
  BY DEF Limits!NewHistory, Limits!SetObject
<1>2. /\ \A a \in Addresses : sendHistory[a] # n
      /\ \A v \in Workers : object[v] # n
  BY <1>1 DEF Limits!Referenced
<1>3. n # None
  BY <1>1 DEF Limits!NoneAssumption
<1>4. /\ object'[w] = n /\ step'[w] = "add"
      /\ \A v \in Workers : v # w => object'[v] = object[v] /\ step'[v] = step[v]
  BY <1>0, <1>1 DEF LimitTypes
<1>5. \A a \in Addresses, o \in Histories : Owns(a, o)' => Owns(a, o) \/ (o = n /\ a = from[w])
  BY <1>0, <1>4 DEF Owns
<1>6. \A a \in Addresses : ~Owns(a, n)
  BY <1>2 DEF Owns
<1>7. OneAddress'
  BY <1>5, <1>6 DEF OneAddress
<1>8. ListTypes'
  BY <1>0, <1>1 DEF ListTypes, Limits!Lists, Limits!NoSends, Limits!TimesAssumption
<1>9. /\ \A p \in Limited : sends'[n][p] = Limits!NoSends(Hour + 1)
      /\ \A o \in Histories : o # n => sends'[o] = sends[o]
  BY <1>1 DEF ListTypes
<1>10. NewIsEmpty'
  <2>1. ASSUME NEW v \in Workers, v # w, step[v] = "add" PROVE object[v] \in Histories /\ object[v] # n
    BY <1>0, <1>2, <2>1 DEF LimitTypes
  <2>2. \A v \in Workers : object[v] # n
    BY <1>2
  <2> QED BY <1>0, <1>2, <1>4, <1>9, <2>1 DEF NewIsEmpty
<1>11. InCurrent' /\ NothingAllowed' /\ Growing'
  BY <1>0, <1>4 DEF InCurrent, NothingAllowed, Growing
<1>12. WereAllowed'
  <2> SUFFICES ASSUME NEW o \in Histories, NEW a \in Addresses, Owns(a, o)', NEW p \in Limited,
                      NEW k \in 0..Hour
               PROVE  sends'[o][p][k] <= allowed[a][p][k]
    BY <1>0 DEF WereAllowed
  <2>1. CASE o = n
    <3>1. sends'[n][p][k] = 0
      BY <1>9 DEF Limits!NoSends, Limits!TimesAssumption
    <3>2. allowed[a][p] \in [0..Hour -> Nat]
      BY DEF ListTypes
    <3>3. allowed[a][p][k] \in Nat
      BY <3>2
    <3> HIDE DEF HourInv
    <3> QED BY <2>1, <3>1, <3>3
  <2>2. CASE o # n
    BY <1>5, <1>9, <2>2 DEF WereAllowed
  <2> QED BY <2>1, <2>2
<1>13. InEveryInterval'
  <2> SUFFICES ASSUME NEW a \in Addresses, NEW p \in Limited, sendHistory[a] # None,
                      <<a, p>> \notin mixed, a \notin replaced
               PROVE  Kept(a, p)'
    BY <1>0 DEF InEveryInterval
  <2>1. sendHistory[a] \in Histories /\ sends'[sendHistory[a]] = sends[sendHistory[a]]
    BY <1>0, <1>2, <1>9 DEF LimitTypes
  <2>2. Kept(a, p)
    BY DEF InEveryInterval
  <2> QED BY <1>0, <2>1, <2>2 DEF Kept, Minutes, Messages
<1> QED BY <1>7, <1>8, <1>10, <1>11, <1>12, <1>13

\* The worker gives its object to the address.
LEMMA AddHistoryHour ==
  ASSUME HourInv, Known',
         NEW w \in Workers, Limits!AddHistory(w)
  PROVE  HourInv'
<1> USE DEF HourInv
<1> DEFINE b == from[w]
           n == object[w]
<1>0. LimitTypes /\ LimitTypes' /\ b \in Addresses /\ step[w] = "add" /\ n \in Histories /\ n # None
      /\ UNCHANGED <<from, pattern, object, sends, allowed, mixed>>
      /\ step' = [step EXCEPT ![w] = "interval"]
      /\ sendHistory' = [sendHistory EXCEPT ![b] = n]
      /\ replaced' = IF sendHistory[b] = None THEN replaced ELSE replaced \cup {b}
  BY DEF Known, LimitTypes, Limits!AddHistory, Limits!Goto, Limits!callVars, Limits!intervalVars
<1>1. /\ sendHistory'[b] = n /\ \A a \in Addresses : a # b => sendHistory'[a] = sendHistory[a]
      /\ step'[w] = "interval" /\ \A v \in Workers : v # w => step'[v] = step[v]
  BY <1>0 DEF LimitTypes
<1>2. Owns(b, n)
  BY <1>0 DEF Owns
<1>3. \A a \in Addresses, o \in Histories : Owns(a, o)' => Owns(a, o)
  BY <1>0, <1>1, <1>2 DEF Owns
<1>4. OneAddress' /\ ListTypes' /\ WereAllowed'
  BY <1>0, <1>3 DEF OneAddress, ListTypes, WereAllowed
<1>5. /\ \A p \in Limited : sends[n][p] = Limits!NoSends(Hour + 1)
      /\ \A v \in Workers : v # w => object[v] # n
  BY <1>0 DEF NewIsEmpty
<1>6. NewIsEmpty'
  <2>1. ASSUME NEW v \in Workers, step'[v] = "add"
        PROVE  v # w /\ step[v] = "add" /\ object[v] # n
    BY <1>1, <1>5, <2>1
  <2> QED BY <1>0, <1>1, <2>1 DEF NewIsEmpty
<1>7. InCurrent'
  <2> SUFFICES ASSUME NEW v \in Workers, step'[v] \notin {"idle", "find", "add"}
               PROVE  /\ sendHistory'[from[v]] # None
                      /\ from[v] \in replaced' \/ object[v] = sendHistory'[from[v]]
    BY <1>0 DEF InCurrent
  <2>1. CASE v = w
    BY <1>0, <1>1, <2>1
  <2>2. CASE v # w
    <3>1. from[v] \in Addresses /\ step[v] \notin {"idle", "find", "add"}
      BY <1>0, <1>1, <2>2 DEF LimitTypes
    <3>2. sendHistory[from[v]] # None /\ (from[v] \in replaced \/ object[v] = sendHistory[from[v]])
      BY <3>1 DEF InCurrent
    <3> QED BY <1>0, <1>1, <3>1, <3>2
  <2> QED BY <2>1, <2>2
<1>8. NothingAllowed' /\ Growing'
  BY <1>0, <1>1 DEF NothingAllowed, Growing
<1>9. InEveryInterval'
  <2> SUFFICES ASSUME NEW a \in Addresses, NEW p \in Limited, sendHistory'[a] # None,
                      <<a, p>> \notin mixed, a \notin replaced'
               PROVE  Kept(a, p)'
    BY <1>0 DEF InEveryInterval
  <2>1. CASE a = b
    <3>1. sendHistory[b] = None /\ allowed[b][p] = Limits!NoSends(Hour)
      BY <1>0, <2>1 DEF NothingAllowed
    <3>2. \A k \in 0..Hour : sends[n][p][k] = 0 /\ allowed[b][p][k] = 0
      BY <1>5, <3>1 DEF Limits!NoSends, Limits!TimesAssumption
    <3>3. Messages(p) \in Nat
      BY IntervalCalculated DEF Messages, Limits!RulesAssumption
    <3>4. Messages(p)' = Messages(p)
      BY DEF Messages
    <3> HIDE DEF b, n
    <3> QED BY <1>0, <1>1, <2>1, <3>2, <3>3, <3>4 DEF Kept
  <2>2. CASE a # b
    <3>1. sendHistory'[a] = sendHistory[a] /\ Kept(a, p)
      BY <1>0, <1>1, <2>2 DEF InEveryInterval
    <3> QED BY <1>0, <3>1 DEF Kept, Minutes, Messages
  <2> QED BY <2>1, <2>2
<1> QED BY <1>4, <1>6, <1>7, <1>8, <1>9

\* What the locked part may do to the lists: those of the worker's pattern only, and
\* in the way that the invariant says.
LEMMA JudgeHour ==
  ASSUME HourInv, Known', NEW w \in Workers,
         Limits!Judge(w),
         NEW list \in Limits!Lists, NEW many \in [0..Hour -> Nat],
         sends' = [sends EXCEPT ![object[w]][pattern[w]] = list],
         allowed' = [allowed EXCEPT ![from[w]][pattern[w]] = many],
         many[0] = 0, \A x, y \in 0..Hour : x <= y => many[x] <= many[y],
         \A k \in 0..Hour : list[k] <= many[k] /\ allowed[from[w]][pattern[w]][k] <= many[k],
         Kept(from[w], pattern[w]) /\ object[w] = sendHistory[from[w]]
         /\ maxMessages[object[w]] = Messages(pattern[w]) /\ minutes[object[w]] = Minutes(pattern[w]) =>
           /\ \A k \in 0..Hour : k <= Minutes(pattern[w]) => list[k] = many[k]
           /\ \A x, y \in 0..Hour : x <= y /\ y <= x + Minutes(pattern[w]) =>
                many[y] <= many[x] + Messages(pattern[w])
  PROVE  HourInv'
<1> USE DEF HourInv
<1> DEFINE b == from[w]
           q == pattern[w]
           n == object[w]
<1>0. LimitTypes /\ LimitTypes' /\ step[w] = "lock" /\ b \in Addresses /\ q \in Limited /\ n \in Histories
      /\ UNCHANGED <<sendHistory, maxMessages, minutes, replaced>>
      /\ step' = [step EXCEPT ![w] = "idle"] /\ object' = [object EXCEPT ![w] = None]
      /\ from' = [from EXCEPT ![w] = None]
      /\ mixed' = IF Limits!JudgedByAnother(w) THEN mixed \cup {<<b, q>>} ELSE mixed
  BY DEF Known, LimitTypes, Limits!Judge, Limits!Goto, Limits!SetObject, Limits!intervalVars
<1>1. /\ step'[w] = "idle" /\ object'[w] = None
      /\ \A v \in Workers : v # w => step'[v] = step[v] /\ object'[v] = object[v] /\ from'[v] = from[v]
  BY <1>0 DEF LimitTypes
<1>2. \A a \in Addresses, o \in Histories : Owns(a, o)' => Owns(a, o)
  BY <1>0, <1>1 DEF Owns, Limits!NoneAssumption
<1>3. OneAddress'
  BY <1>2 DEF OneAddress
<1>4. Owns(b, n)
  BY <1>0 DEF Owns
<1>5. ListTypes'
  BY <1>0 DEF ListTypes
<1>6. /\ sends'[n][q] = list /\ allowed'[b][q] = many
      /\ \A o \in Histories, p \in Limited : o # n \/ p # q => sends'[o][p] = sends[o][p]
      /\ \A a \in Addresses, p \in Limited : a # b \/ p # q => allowed'[a][p] = allowed[a][p]
  BY <1>0 DEF ListTypes
<1> HIDE DEF b, q, n
<1>7. NewIsEmpty'
  <2>1. ASSUME NEW v \in Workers, step'[v] = "add"
        PROVE  v # w /\ step[v] = "add" /\ object[v] # n /\ object[v] \in Histories
               /\ object'[v] = object[v]
    <3>1. v # w /\ step[v] = "add"
      BY <1>1, <2>1
    <3>2. object[v] # n
      BY <3>1 DEF NewIsEmpty, n
    <3> QED BY <1>0, <1>1, <3>1, <3>2 DEF LimitTypes
  <2>2. ASSUME NEW v \in Workers, step'[v] = "add", NEW u \in Workers, u # v
        PROVE  object'[u] # object'[v]
    <3>1. object[u] # object[v]
      BY <2>1, <2>2 DEF NewIsEmpty
    <3> QED BY <1>1, <2>1, <2>2, <3>1 DEF Limits!NoneAssumption
  <2> QED BY <1>0, <1>6, <2>1, <2>2 DEF NewIsEmpty
<1>8. InCurrent'
  BY <1>0, <1>1 DEF InCurrent
<1>9. sendHistory[b] # None /\ (b \in replaced \/ n = sendHistory[b])
  BY <1>0 DEF InCurrent, b, n
<1>10. NothingAllowed'
  BY <1>0, <1>6, <1>9 DEF NothingAllowed
<1>11. Growing'
  <2> SUFFICES ASSUME NEW a \in Addresses, NEW p \in Limited
               PROVE  /\ allowed'[a][p][0] = 0
                      /\ \A x, y \in 0..Hour : x <= y => allowed'[a][p][x] <= allowed'[a][p][y]
    BY DEF Growing
  <2>1. CASE a = b /\ p = q
    BY <1>6, <2>1
  <2>2. CASE a # b \/ p # q
    BY <1>6, <2>2 DEF Growing
  <2> QED BY <2>1, <2>2
<1>12. WereAllowed'
  <2> SUFFICES ASSUME NEW o \in Histories, NEW a \in Addresses, Owns(a, o)', NEW p \in Limited,
                      NEW k \in 0..Hour
               PROVE  sends'[o][p][k] <= allowed'[a][p][k]
    BY DEF WereAllowed
  <2>0. Owns(a, o) /\ sends[o][p][k] <= allowed[a][p][k]
    BY <1>2 DEF WereAllowed
  <2>1. CASE o = n
    <3>1. a = b
      BY <1>0, <1>4, <2>0, <2>1 DEF OneAddress
    <3>2. CASE p = q
      BY <1>6, <2>1, <3>1, <3>2
    <3>3. CASE p # q
      BY <1>6, <2>0, <2>1, <3>1, <3>3
    <3> QED BY <3>2, <3>3
  <2>2. CASE o # n /\ a = b /\ p = q
    <3>1. sends'[o][p][k] = sends[o][p][k] /\ allowed'[a][p][k] = many[k] /\ allowed[a][p][k] <= many[k]
      BY <1>6, <2>2 DEF b, q
    <3>2. sends[o][p][k] \in Nat /\ allowed[a][p][k] \in Nat /\ many[k] \in Nat
      <4>1. k \in 0..(Hour + 1)
        BY DEF Limits!TimesAssumption
      <4>2. sends[o][p] \in [0..(Hour + 1) -> Nat] /\ allowed[a][p] \in [0..Hour -> Nat]
        BY DEF ListTypes, Limits!Lists
      <4> QED BY <4>1, <4>2
    <3> QED BY <2>0, <3>1, <3>2
  <2>3. CASE o # n /\ (a # b \/ p # q)
    BY <1>6, <2>0, <2>3
  <2> QED BY <2>1, <2>2, <2>3
<1>13. InEveryInterval'
  <2> SUFFICES ASSUME NEW a \in Addresses, NEW p \in Limited, sendHistory[a] # None,
                      <<a, p>> \notin mixed', a \notin replaced
               PROVE  Kept(a, p)'
    BY <1>0 DEF InEveryInterval
  <2>0. Kept(a, p) /\ Minutes(p)' = Minutes(p) /\ Messages(p)' = Messages(p)
    <3>1. <<a, p>> \notin mixed
      BY <1>0
    <3> QED BY <3>1 DEF InEveryInterval, Minutes, Messages
  <2>1. CASE a = b /\ p = q
    <3>1. n = sendHistory[b]
      BY <1>9, <2>1
    <3>2. ~Limits!JudgedByAnother(w)
      BY <1>0, <2>1
    <3>3. maxMessages[object[w]] = Messages(pattern[w]) /\ minutes[object[w]] = Minutes(pattern[w])
      BY <3>2 DEF Limits!JudgedByAnother, Limits!PerHour, Messages, Minutes
    <3>4. /\ \A k \in 0..Hour : k <= Minutes(q) => list[k] = many[k]
          /\ \A x, y \in 0..Hour : x <= y /\ y <= x + Minutes(q) => many[y] <= many[x] + Messages(q)
      BY <2>0, <2>1, <3>1, <3>3 DEF b, q, n
    <3>5. sends'[sendHistory'[a]][p] = list /\ allowed'[a][p] = many
      BY <1>0, <1>6, <2>1, <3>1
    <3> QED BY <2>0, <2>1, <3>4, <3>5 DEF Kept
  <2>2. CASE a # b \/ p # q
    <3>1. sendHistory[a] \in Histories /\ Owns(a, sendHistory[a])
      BY <1>0 DEF LimitTypes, Owns
    <3>2. a # b => sendHistory[a] # n
      BY <1>0, <1>4, <3>1 DEF OneAddress
    <3>3. sends'[sendHistory'[a]][p] = sends[sendHistory[a]][p] /\ allowed'[a][p] = allowed[a][p]
      BY <1>0, <1>6, <2>2, <3>1, <3>2
    <3> QED BY <2>0, <3>3 DEF Kept
  <2> QED BY <2>1, <2>2
<1> QED BY <1>3, <1>5, <1>7, <1>8, <1>10, <1>11, <1>12, <1>13

\* What is left of a list by RemoveAll.
LEMMA RecentList ==
  ASSUME HourInv, NEW w \in Workers, step[w] = "lock"
  PROVE  /\ object[w] \in Histories /\ pattern[w] \in Limited /\ from[w] \in Addresses
         /\ minutes[object[w]] \in 1..(Hour + 1)
         /\ Limits!Recent(w) \in Limits!Lists /\ Limits!Count(w) \in Nat
         /\ \A k \in 0..(Hour + 1) : Limits!Recent(w)[k] =
              sends[object[w]][pattern[w]][IF k <= minutes[object[w]] THEN k ELSE minutes[object[w]]]
         /\ \A k \in 0..Hour : Limits!Recent(w)[k] <= allowed[from[w]][pattern[w]][k]
<1> DEFINE list == sends[object[w]][pattern[w]]
           limit == minutes[object[w]]
           many == allowed[from[w]][pattern[w]]
<1>1. object[w] \in Histories /\ pattern[w] \in Limited /\ from[w] \in Addresses
      /\ limit \in 1..(Hour + 1)
  BY DEF HourInv, Known, LimitTypes, Limits!IntervalIsKnown
<1>2. list \in [0..(Hour + 1) -> Nat] /\ many \in [0..Hour -> Nat]
  BY <1>1 DEF HourInv, ListTypes, Limits!Lists
<1>3. \A k \in 0..Hour : list[k] <= many[k]
  BY <1>1 DEF HourInv, WereAllowed, Owns
<1>4. \A x, y \in 0..Hour : x <= y => many[x] <= many[y]
  BY <1>1 DEF HourInv, Growing
<1>5. Limits!Recent(w) = [k \in DOMAIN list |-> list[IF k <= limit THEN k ELSE limit]]
      /\ Limits!Count(w) = list[limit]
  BY DEF Limits!Recent, Limits!Count
<1> HIDE DEF list, limit, many
<1>6. Hour \in Nat
  BY DEF Limits!TimesAssumption
<1>7. Limits!Recent(w) = [k \in 0..(Hour + 1) |-> list[IF k <= limit THEN k ELSE limit]]
  BY <1>2, <1>5
<1>8. Limits!Recent(w) \in Limits!Lists /\ Limits!Count(w) \in Nat
  <2>1. \A k \in 0..(Hour + 1) : (IF k <= limit THEN k ELSE limit) \in 0..(Hour + 1)
    BY <1>1, <1>6
  <2>2. \A k \in 0..(Hour + 1) : list[IF k <= limit THEN k ELSE limit] \in Nat
    BY <1>2, <2>1
  <2>3. limit \in 0..(Hour + 1)
    BY <1>1, <1>6
  <2> QED BY <1>2, <1>5, <1>7, <2>2, <2>3 DEF Limits!Lists
<1>9. ASSUME NEW k \in 0..Hour PROVE Limits!Recent(w)[k] <= many[k]
  <2>1. CASE k <= limit
    BY <1>3, <1>6, <1>7, <2>1
  <2>2. CASE limit < k
    <3>1. limit \in 0..Hour /\ Limits!Recent(w)[k] = list[limit]
      BY <1>1, <1>6, <1>7, <2>2
    <3>2. list[limit] <= many[limit] /\ many[limit] <= many[k]
      BY <1>3, <1>4, <2>2, <3>1
    <3>3. list[limit] \in Nat /\ many[limit] \in Nat /\ many[k] \in Nat
      BY <1>1, <1>2, <3>1
    <3> QED BY <3>1, <3>2, <3>3
  <2> QED BY <1>1, <2>1, <2>2
<1> QED BY <1>1, <1>7, <1>8, <1>9 DEF list, limit, many

\* A refusal.
LEMMA DenyHour ==
  ASSUME HourInv, Known', NEW w \in Workers, Limits!Deny(w)
  PROVE  HourInv'
<1> DEFINE many == allowed[from[w]][pattern[w]]
<1>1. step[w] = "lock" /\ Limits!Judge(w) /\ allowed' = allowed
      /\ sends' = [sends EXCEPT ![object[w]][pattern[w]] = Limits!Recent(w)]
  BY DEF Limits!Deny, Limits!Judge, Limits!SetSends
<1>2. from[w] \in Addresses /\ pattern[w] \in Limited /\ many \in [0..Hour -> Nat]
  BY <1>1, RecentList DEF HourInv, ListTypes
<1>3. allowed' = [allowed EXCEPT ![from[w]][pattern[w]] = many]
  BY <1>1, <1>2 DEF HourInv, ListTypes
<1>4. many[0] = 0 /\ \A x, y \in 0..Hour : x <= y => many[x] <= many[y]
  BY <1>2 DEF HourInv, Growing
<1>5. \A k \in 0..Hour : Limits!Recent(w)[k] <= many[k] /\ many[k] <= many[k]
  <2>1. \A k \in 0..Hour : Limits!Recent(w)[k] <= many[k]
    BY <1>1, RecentList
  <2>2. \A k \in 0..Hour : many[k] \in Nat
    BY <1>2
  <2> HIDE DEF many
  <2> QED BY <2>1, <2>2
<1>6. ASSUME Kept(from[w], pattern[w]), object[w] = sendHistory[from[w]],
             minutes[object[w]] = Minutes(pattern[w]), NEW k \in 0..Hour, k <= Minutes(pattern[w])
      PROVE  Limits!Recent(w)[k] = many[k]
  <2>1. Limits!Recent(w)[k] = sends[object[w]][pattern[w]][k]
    BY <1>1, <1>6, RecentList DEF Limits!TimesAssumption
  <2> QED BY <1>6, <2>1 DEF Kept
<1>7. Limits!Recent(w) \in Limits!Lists
  BY <1>1, RecentList
<1>8. Kept(from[w], pattern[w]) => \A x, y \in 0..Hour : x <= y /\ y <= x + Minutes(pattern[w]) =>
        many[y] <= many[x] + Messages(pattern[w])
  BY DEF Kept
<1> HIDE DEF many
<1> QED BY <1>1, <1>2, <1>3, <1>4, <1>5, <1>6, <1>7, <1>8, JudgeHour DEF many

\* An interval that is longer than the hour has no message.
LEMMA NoMessages ==
  ASSUME NEW p \in Limited, Minutes(p) = Hour + 1
  PROVE  Messages(p) = 0
<1>1. MaxMessagesHour[p] \in Nat /\ Hour \in Nat \ {0}
  BY DEF Limits!RulesAssumption, Limits!TimesAssumption
<1>2. MaxMessagesHour[p] = 0
  BY <1>1, IntervalMinutesFound DEF Minutes, Limits!Enough
<1>3. Limits!MessagesIn(0, Hour + 1) = 0
  BY <1>1 DEF Limits!MessagesIn
<1> QED BY <1>2, <1>3 DEF Minutes, Messages, Limits!IntervalMessages

\* A send that is allowed is one more in every time that reaches back from now; where that is an
\* interval, there was one message left.
LEMMA AllowHour ==
  ASSUME HourInv, Known',
         NEW w \in Workers, Limits!Allow(w)
  PROVE  HourInv'
<1> DEFINE old == allowed[from[w]][pattern[w]]
           recent == Limits!Recent(w)
           list == Limits!OneMore(recent)
           many == Limits!OneMore(old)
<1>1. step[w] = "lock" /\ Limits!Judge(w) /\ Limits!Count(w) < maxMessages[object[w]]
      /\ sends' = [sends EXCEPT ![object[w]][pattern[w]] = list]
  BY DEF Limits!Allow, Limits!Judge, Limits!SetSends
<1>2. from[w] \in Addresses /\ pattern[w] \in Limited /\ old \in [0..Hour -> Nat] /\ Hour \in Nat
      /\ recent \in [0..(Hour + 1) -> Nat] /\ Limits!Count(w) \in Nat
      /\ object[w] \in Histories /\ maxMessages[object[w]] \in Int
  <2>1. /\ from[w] \in Addresses /\ pattern[w] \in Limited /\ object[w] \in Histories
        /\ recent \in Limits!Lists /\ Limits!Count(w) \in Nat
    BY <1>1, RecentList
  <2>2. old \in [0..Hour -> Nat] /\ maxMessages[object[w]] \in Int
    BY <2>1 DEF HourInv, ListTypes, Known, LimitTypes
  <2>3. recent \in [0..(Hour + 1) -> Nat]
    BY <2>1 DEF Limits!Lists
  <2> QED BY <2>1, <2>2, <2>3 DEF Limits!TimesAssumption
<1>3. allowed' = [allowed EXCEPT ![from[w]][pattern[w]] = many]
  BY <1>2 DEF Limits!Allow, HourInv, ListTypes
<1>4. old[0] = 0 /\ \A x, y \in 0..Hour : x <= y => old[x] <= old[y]
  BY <1>2 DEF HourInv, Growing
<1>5. \A k \in 0..Hour : recent[k] <= old[k]
  BY <1>1, <1>2, RecentList
<1> HIDE DEF old, recent
<1>6. list = [k \in 0..(Hour + 1) |-> IF k = 0 THEN 0 ELSE recent[k] + 1]
      /\ many = [k \in 0..Hour |-> IF k = 0 THEN 0 ELSE old[k] + 1]
  BY <1>2 DEF Limits!OneMore
<1>7. list \in Limits!Lists /\ many \in [0..Hour -> Nat]
  <2>1. \A k \in 0..(Hour + 1) : (IF k = 0 THEN 0 ELSE recent[k] + 1) \in Nat
    BY <1>2
  <2>2. \A k \in 0..Hour : (IF k = 0 THEN 0 ELSE old[k] + 1) \in Nat
    BY <1>2
  <2> HIDE DEF list, many
  <2> QED BY <1>6, <2>1, <2>2 DEF Limits!Lists
<1> HIDE DEF list, many
<1>8. many[0] = 0 /\ \A x, y \in 0..Hour : x <= y => many[x] <= many[y]
  <2>1. many[0] = 0
    BY <1>2, <1>6
  <2>2. ASSUME NEW x \in 0..Hour, NEW y \in 0..Hour, x <= y PROVE many[x] <= many[y]
    <3>1. old[x] <= old[y] /\ old[x] \in Nat /\ old[y] \in Nat
      BY <1>2, <1>4, <2>2
    <3>2. /\ many[x] = IF x = 0 THEN 0 ELSE old[x] + 1
          /\ many[y] = IF y = 0 THEN 0 ELSE old[y] + 1
      BY <1>6
    <3> QED BY <2>2, <3>1, <3>2
  <2> QED BY <2>1, <2>2
<1>9. \A k \in 0..Hour : list[k] <= many[k] /\ old[k] <= many[k]
  <2> SUFFICES ASSUME NEW k \in 0..Hour PROVE list[k] <= many[k] /\ old[k] <= many[k]
    OBVIOUS
  <2>1. recent[k] <= old[k] /\ old[k] \in Nat /\ recent[k] \in Nat
    BY <1>2, <1>5
  <2>2. /\ list[k] = IF k = 0 THEN 0 ELSE recent[k] + 1
        /\ many[k] = IF k = 0 THEN 0 ELSE old[k] + 1
    BY <1>2, <1>6
  <2> QED BY <1>4, <2>1, <2>2
<1>10. ASSUME Kept(from[w], pattern[w]), object[w] = sendHistory[from[w]],
              maxMessages[object[w]] = Messages(pattern[w]), minutes[object[w]] = Minutes(pattern[w])
       PROVE  /\ \A k \in 0..Hour : k <= Minutes(pattern[w]) => list[k] = many[k]
              /\ \A x, y \in 0..Hour : x <= y /\ y <= x + Minutes(pattern[w]) =>
                   many[y] <= many[x] + Messages(pattern[w])
  <2> DEFINE i == Minutes(pattern[w])
             m == Messages(pattern[w])
  <2>1. i \in 1..(Hour + 1) /\ m \in Int
    BY <1>1, <1>2, <1>10, RecentList
  <2>2. \A k \in 0..Hour : k <= i => recent[k] = old[k]
    <3> SUFFICES ASSUME NEW k \in 0..Hour, k <= i PROVE recent[k] = old[k]
      OBVIOUS
    <3>1. recent[k] = sends[object[w]][pattern[w]][k]
      BY <1>1, <1>2, <1>10, RecentList DEF recent
    <3> QED BY <1>10, <3>1 DEF Kept, old
  <2>3. \A x, y \in 0..Hour : x <= y /\ y <= x + i => old[y] <= old[x] + m
    BY <1>10 DEF Kept, old
  <2>4. recent[i] < m
    <3>1. Limits!Recent(w)[i] = sends[object[w]][pattern[w]][i]
      BY <1>1, <1>10, <2>1, RecentList
    <3>2. Limits!Count(w) = sends[object[w]][pattern[w]][i]
      BY <1>10 DEF Limits!Count
    <3> QED BY <1>1, <1>10, <3>1, <3>2 DEF recent
  <2> HIDE DEF i, m
  <2>5. \A k \in 0..Hour : k <= i => list[k] = many[k]
    <3> SUFFICES ASSUME NEW k \in 0..Hour, k <= i PROVE list[k] = many[k]
      OBVIOUS
    <3>1. k \in 0..(Hour + 1) /\ recent[k] = old[k]
      BY <1>2, <2>2
    <3> QED BY <1>6, <3>1
  <2>6. ASSUME NEW x \in 0..Hour, NEW y \in 0..Hour, x <= y, y <= x + i
        PROVE  many[y] <= many[x] + m
    <3>0. old[x] \in Nat /\ old[y] \in Nat /\ old[y] <= old[x] + m /\ recent[i] \in Nat
      BY <1>2, <2>1, <2>3, <2>6
    <3>1. CASE x # 0
      <4>1. many[y] = old[y] + 1 /\ many[x] = old[x] + 1
        BY <1>6, <2>6, <3>1
      <4> QED BY <2>1, <3>0, <4>1
    <3>2. CASE x = 0 /\ y = 0
      BY <1>6, <2>1, <2>4, <3>0, <3>2
    <3>3. CASE x = 0 /\ y # 0
      <4>1. many[x] = 0 /\ many[y] = old[y] + 1 /\ y <= i
        BY <1>6, <2>1, <2>6, <3>3
      <4>2. CASE i <= Hour
        <5>1. old[y] <= old[i] /\ old[i] = recent[i]
          BY <1>4, <2>1, <2>2, <4>1, <4>2
        <5> QED BY <2>1, <2>4, <3>0, <4>1, <5>1
      <4>3. CASE i = Hour + 1
        <5>1. m = 0
          BY <1>2, <4>3, NoMessages DEF i, m
        <5> QED BY <2>4, <3>0, <5>1
      <4> QED BY <1>2, <2>1, <4>2, <4>3
    <3> QED BY <3>1, <3>2, <3>3
  <2> QED BY <2>5, <2>6 DEF i, m
<1> QED BY <1>1, <1>2, <1>3, <1>7, <1>8, <1>9, <1>10, JudgeHour DEF old

\* What a minute does to a list.
LEMMA OlderList ==
  ASSUME NEW n \in Nat, NEW list \in [0..n -> Nat]
  PROVE  /\ Limits!Older(list) \in [0..n -> Nat] /\ Limits!Older(list)[0] = 0
         /\ \A k \in 0..n : k # 0 => k - 1 \in 0..n /\ Limits!Older(list)[k] = list[k - 1]
<1>1. \A k \in 0..n : k # 0 => k - 1 \in 0..n
  OBVIOUS
<1>2. \A k \in 0..n : (IF k = 0 THEN 0 ELSE list[k - 1]) \in Nat
  BY <1>1
<1>3. Limits!Older(list) = [k \in 0..n |-> IF k = 0 THEN 0 ELSE list[k - 1]]
  BY DEF Limits!Older
<1> QED BY <1>1, <1>2, <1>3

\* A minute later the lists are a minute older.
LEMMA MinuteHour ==
  ASSUME HourInv, Known', Limits!Minute
  PROVE  HourInv'
<1> USE DEF HourInv
<1>0. LimitTypes /\ Hour \in Nat \ {0}
      /\ UNCHANGED <<sendHistory, maxMessages, minutes, step, from, pattern, object, replaced, mixed>>
      /\ sends' = [o \in Histories |-> [p \in Limited |-> Limits!Older(sends[o][p])]]
      /\ allowed' = [a \in Addresses |-> [p \in Limited |-> Limits!Older(allowed[a][p])]]
  BY DEF Known, Limits!Minute, Limits!callVars, Limits!TimesAssumption
<1>1. ASSUME NEW o \in Histories, NEW p \in Limited
      PROVE  /\ sends[o][p] \in [0..(Hour + 1) -> Nat]
             /\ sends'[o][p] \in [0..(Hour + 1) -> Nat] /\ sends'[o][p][0] = 0
             /\ \A k \in 0..(Hour + 1) : k # 0 => sends'[o][p][k] = sends[o][p][k - 1]
  <2>1. sends[o][p] \in [0..(Hour + 1) -> Nat] /\ sends'[o][p] = Limits!Older(sends[o][p])
    BY <1>0 DEF ListTypes, Limits!Lists
  <2>2. Hour + 1 \in Nat
    BY <1>0
  <2>3. \A n \in Nat : \A list \in [0..n -> Nat] :
          /\ Limits!Older(list) \in [0..n -> Nat] /\ Limits!Older(list)[0] = 0
          /\ \A k \in 0..n : k # 0 => Limits!Older(list)[k] = list[k - 1]
    BY OlderList
  <2> HIDE DEF HourInv
  <2> QED BY <2>1, <2>2, <2>3
<1>2. ASSUME NEW a \in Addresses, NEW p \in Limited
      PROVE  /\ allowed[a][p] \in [0..Hour -> Nat]
             /\ allowed'[a][p] \in [0..Hour -> Nat] /\ allowed'[a][p][0] = 0
             /\ \A k \in 0..Hour : k # 0 => allowed'[a][p][k] = allowed[a][p][k - 1]
  <2>1. allowed[a][p] \in [0..Hour -> Nat] /\ allowed'[a][p] = Limits!Older(allowed[a][p])
    BY <1>0 DEF ListTypes
  <2>2. \A list \in [0..Hour -> Nat] :
          /\ Limits!Older(list) \in [0..Hour -> Nat] /\ Limits!Older(list)[0] = 0
          /\ \A k \in 0..Hour : k # 0 => Limits!Older(list)[k] = list[k - 1]
    <3>1. Hour \in Nat
      BY <1>0
    <3> HIDE DEF HourInv
    <3> QED BY <3>1, OlderList
  <2> HIDE DEF HourInv
  <2> QED BY <2>1, <2>2
<1>3. ListTypes'
  BY <1>0, <1>1, <1>2 DEF ListTypes, Limits!Lists
<1>4. OneAddress' /\ InCurrent'
  BY <1>0 DEF OneAddress, Owns, InCurrent
<1>5. NewIsEmpty'
  <2> SUFFICES ASSUME NEW w \in Workers, step[w] = "add", NEW p \in Limited
               PROVE  sends'[object[w]][p] = Limits!NoSends(Hour + 1)
    BY <1>0 DEF NewIsEmpty
  <2>1. object[w] \in Histories /\ sends[object[w]][p] = Limits!NoSends(Hour + 1)
    BY <1>0 DEF LimitTypes, NewIsEmpty
  <2>2. \A k \in 0..(Hour + 1) : k # 0 => k - 1 \in 0..(Hour + 1)
    BY <1>0
  <2>3. \A k \in 0..(Hour + 1) : sends'[object[w]][p][k] = 0
    <3>1. \A k \in 0..(Hour + 1) : sends[object[w]][p][k] = 0
      BY <2>1 DEF Limits!NoSends
    <3>2. /\ sends'[object[w]][p][0] = 0
          /\ \A k \in 0..(Hour + 1) : k # 0 => sends'[object[w]][p][k] = sends[object[w]][p][k - 1]
      BY <1>1, <2>1
    <3> QED BY <2>2, <3>1, <3>2
  <2>4. sends'[object[w]][p] \in [0..(Hour + 1) -> Nat]
    BY <1>1, <2>1
  <2> QED BY <2>3, <2>4 DEF Limits!NoSends
<1>6. NothingAllowed'
  <2> SUFFICES ASSUME NEW a \in Addresses, sendHistory[a] = None, NEW p \in Limited
               PROVE  allowed'[a][p] = Limits!NoSends(Hour)
    BY <1>0 DEF NothingAllowed
  <2>1. allowed[a][p] = Limits!NoSends(Hour)
    BY DEF NothingAllowed
  <2>2. \A k \in 0..Hour : k # 0 => k - 1 \in 0..Hour
    BY <1>0
  <2>3. \A k \in 0..Hour : allowed'[a][p][k] = 0
    <3>1. \A k \in 0..Hour : allowed[a][p][k] = 0
      BY <2>1 DEF Limits!NoSends
    <3>2. /\ allowed'[a][p][0] = 0
          /\ \A k \in 0..Hour : k # 0 => allowed'[a][p][k] = allowed[a][p][k - 1]
      BY <1>2
    <3> QED BY <2>2, <3>1, <3>2
  <2>4. allowed'[a][p] \in [0..Hour -> Nat]
    BY <1>2
  <2> QED BY <2>3, <2>4 DEF Limits!NoSends
<1>7. Growing'
  <2> SUFFICES ASSUME NEW a \in Addresses, NEW p \in Limited
               PROVE  /\ allowed'[a][p][0] = 0
                      /\ \A x, y \in 0..Hour : x <= y => allowed'[a][p][x] <= allowed'[a][p][y]
    BY DEF Growing
  <2>1. allowed'[a][p][0] = 0
    BY <1>0, <1>2
  <2>2. ASSUME NEW x \in 0..Hour, NEW y \in 0..Hour, x <= y
        PROVE  allowed'[a][p][x] <= allowed'[a][p][y]
    <3>1. CASE x = 0
      <4>1. allowed'[a][p][y] \in Nat
        BY <1>2
      <4> QED BY <2>1, <3>1, <4>1
    <3>2. CASE x # 0
      <4>1. x - 1 \in 0..Hour /\ y - 1 \in 0..Hour /\ x - 1 <= y - 1 /\ y # 0
        <5>1. \A n \in Nat : \A u, v \in 0..n : u # 0 /\ u <= v =>
                u - 1 \in 0..n /\ v - 1 \in 0..n /\ u - 1 <= v - 1 /\ v # 0
          OBVIOUS
        <5>2. Hour \in Nat
          BY <1>0
        <5> QED BY <2>2, <3>2, <5>1, <5>2
      <4>2. allowed[a][p][x - 1] <= allowed[a][p][y - 1]
        BY <4>1 DEF Growing
      <4>3. allowed'[a][p][x] = allowed[a][p][x - 1] /\ allowed'[a][p][y] = allowed[a][p][y - 1]
        BY <1>2, <3>2, <4>1
      <4> QED BY <4>2, <4>3
    <3> QED BY <3>1, <3>2
  <2> QED BY <2>1, <2>2
<1>8. WereAllowed'
  <2> SUFFICES ASSUME NEW o \in Histories, NEW a \in Addresses, Owns(a, o), NEW p \in Limited,
                      NEW k \in 0..Hour
               PROVE  sends'[o][p][k] <= allowed'[a][p][k]
    BY <1>0 DEF WereAllowed, Owns
  <2>1. CASE k = 0
    <3>1. sends'[o][p][0] = 0 /\ allowed'[a][p][0] = 0
      BY <1>1, <1>2
    <3> QED BY <2>1, <3>1
  <2>2. CASE k # 0
    <3>1. k - 1 \in 0..Hour /\ k \in 0..(Hour + 1)
      BY <1>0, <2>2
    <3>2. sends[o][p][k - 1] <= allowed[a][p][k - 1]
      BY <3>1 DEF WereAllowed
    <3>3. sends'[o][p][k] = sends[o][p][k - 1] /\ allowed'[a][p][k] = allowed[a][p][k - 1]
      BY <1>1, <1>2, <2>2, <3>1
    <3> QED BY <3>2, <3>3
  <2> QED BY <2>1, <2>2
<1>9. InEveryInterval'
  <2> SUFFICES ASSUME NEW a \in Addresses, NEW p \in Limited, sendHistory[a] # None,
                      <<a, p>> \notin mixed, a \notin replaced
               PROVE  Kept(a, p)'
    BY <1>0 DEF InEveryInterval
  <2> DEFINE o == sendHistory[a]
             i == Minutes(p)
             m == Messages(p)
             old == allowed[a][p]
             many == allowed'[a][p]
  <2>0. Kept(a, p) /\ Minutes(p)' = i /\ Messages(p)' = m
    BY DEF InEveryInterval, Minutes, Messages
  <2>1. o \in Histories /\ i \in Nat /\ m \in Nat
    <3>1. MaxMessagesHour[p] \in Nat
      BY DEF Limits!RulesAssumption
    <3>2. i \in Nat /\ m \in Nat
      BY <3>1, IntervalCalculated DEF Minutes, Messages
    <3> QED BY <1>0, <3>2 DEF LimitTypes
  <2>2. ASSUME NEW k \in 0..Hour, k <= i PROVE sends'[o][p][k] = many[k]
    <3>1. CASE k = 0
      BY <1>1, <1>2, <2>1, <3>1
    <3>2. CASE k # 0
      <4>1. k - 1 \in 0..Hour /\ k \in 0..(Hour + 1) /\ k - 1 <= i
        <5>1. \A n, j \in Nat : \A u \in 0..n : u # 0 /\ u <= j =>
                u - 1 \in 0..n /\ u \in 0..(n + 1) /\ u - 1 <= j
          OBVIOUS
        <5>2. Hour \in Nat
          BY <1>0
        <5> HIDE DEF i
        <5> QED BY <2>1, <2>2, <3>2, <5>1, <5>2
      <4>2. sends[o][p][k - 1] = old[k - 1]
        BY <2>0, <4>1 DEF Kept
      <4>3. sends'[o][p][k] = sends[o][p][k - 1] /\ many[k] = old[k - 1]
        <5>1. sends'[o][p][k] = sends[o][p][k - 1]
          <6>1. \A j \in 0..(Hour + 1) : j # 0 => sends'[o][p][j] = sends[o][p][j - 1]
            BY <1>1, <2>1
          <6> QED BY <3>2, <4>1, <6>1
        <5>2. many[k] = old[k - 1]
          BY <1>2, <3>2, <4>1
        <5> QED BY <5>1, <5>2
      <4> QED BY <4>2, <4>3
    <3> QED BY <3>1, <3>2
  <2>3. ASSUME NEW x \in 0..Hour, NEW y \in 0..Hour, x <= y, y <= x + i
        PROVE  many[y] <= many[x] + m
    <3>0. \A u, v \in 0..Hour : u <= v /\ v <= u + i => old[v] <= old[u] + m
      BY <2>0 DEF Kept
    <3>1. /\ old \in [0..Hour -> Nat] /\ many[0] = 0
          /\ \A k \in 0..Hour : k # 0 => many[k] = old[k - 1]
      BY <1>2
    <3> HIDE DEF i, m, old, many
    <3>2. CASE x # 0
      <4>1. x - 1 \in 0..Hour /\ y - 1 \in 0..Hour /\ x - 1 <= y - 1 /\ y - 1 <= (x - 1) + i /\ y # 0
        BY <1>0, <2>1, <2>3, <3>2
      <4>2. old[y - 1] <= old[x - 1] + m
        BY <3>0, <4>1
      <4> QED BY <3>1, <3>2, <4>1, <4>2
    <3>3. CASE x = 0 /\ y = 0
      BY <1>0, <2>1, <3>1, <3>3
    <3>4. CASE x = 0 /\ y # 0
      <4>1. y - 1 \in 0..Hour /\ 0 \in 0..Hour /\ 0 <= y - 1 /\ y - 1 <= 0 + i
        BY <1>0, <2>1, <2>3, <3>4
      <4>2. old[y - 1] <= old[0] + m
        BY <3>0, <4>1
      <4>3. old[0] = 0
        BY DEF Growing, old
      <4>4. many[y] = old[y - 1] /\ many[x] = 0
        BY <1>0, <3>1, <3>4
      <4> QED BY <2>1, <3>4, <4>2, <4>3, <4>4
    <3> QED BY <3>2, <3>3, <3>4
  <2>4. sendHistory'[a] = o
    BY <1>0
  <2> HIDE DEF o, i, m
  <2> QED BY <2>0, <2>2, <2>3, <2>4 DEF Kept
<1> QED BY <1>3, <1>4, <1>5, <1>6, <1>7, <1>8, <1>9

\* Each step of a call and each minute keeps the invariant.
LEMMA NextHour ==
  ASSUME HourInv,
         [Limits!Next]_(Limits!vars)
  PROVE  HourInv'
<1>0. Known /\ Known' /\ LimitTypes
  BY NextKnown DEF HourInv, Known
<1>1. ASSUME NEW w \in Workers, NEW a \in Addresses, NEW p \in Limited, Limits!Ask(w, a, p) PROVE HourInv'
  <2>1. /\ step[w] = "idle" /\ step' = [step EXCEPT ![w] = "find"] /\ from' = [from EXCEPT ![w] = a]
        /\ UNCHANGED <<sendHistory, sends, object, allowed, replaced, mixed>>
    BY <1>1 DEF Limits!Ask, Limits!Goto, Limits!historyVars
  <2>2. object[w] = None /\ step'[w] = "find"
        /\ \A v \in Workers : v # w => step'[v] = step[v] /\ from'[v] = from[v]
    BY <1>0, <2>1 DEF LimitTypes
  <2> QED BY <1>0, <2>1, <2>2, SameListsHour
<1>2. ASSUME NEW w \in Workers,
             Limits!CheckInterval(w) \/ Limits!SetMaxMessages(w) \/ Limits!SetMinutes(w)
      PROVE  HourInv'
  <2>1. /\ step[w] \in {"interval", "max", "minutes"}
        /\ \E to \in {"max", "minutes", "lock"} : step' = [step EXCEPT ![w] = to]
        /\ UNCHANGED <<sendHistory, sends, from, object, allowed, replaced, mixed>>
    BY <1>2 DEF Limits!CheckInterval, Limits!SetMaxMessages, Limits!SetMinutes, Limits!Goto,
                Limits!callVars,
                Limits!historyVars
  <2>2. step'[w] \in {"max", "minutes", "lock"} /\ \A v \in Workers : v # w => step'[v] = step[v]
    BY <1>0, <2>1 DEF LimitTypes
  <2> QED BY <1>0, <2>1, <2>2, SameListsHour
<1>3. CASE UNCHANGED Limits!vars
  BY <1>0, <1>3, SameListsHour DEF Limits!vars, Limits!callVars, Limits!historyVars
<1> QED BY <1>0, <1>1, <1>2, <1>3, FindHistoryHour, NewHistoryHour, AddHistoryHour, AllowHour,
        DenyHour, MinuteHour
        DEF Limits!Next

\* The invariant holds in every state.
LEMMA SpecHour == LimitsSpec => []HourInv
<1>1. Limits!Init => HourInv
  BY InitHour
<1>2. HourInv /\ [Limits!Next]_(Limits!vars) => HourInv'
  BY NextHour
<1> QED BY <1>1, <1>2, LimitsArePart, PTL DEF Limits!Spec

\* Types: no interval is longer than an hour and a minute, no recalculation farther off than the
\* time for which an interval is cached.
THEOREM LimitsType == LimitsSpec => []Limits!TypeOK
<1>1. HourInv => Limits!TypeOK
  <2>1. ASSUME HourInv, NEW w \in Workers PROVE step[w] \in {"idle", "find"} <=> object[w] = None
    BY <2>1 DEF HourInv, Known, LimitTypes
  <2> QED BY <2>1 DEF HourInv, Known, LimitTypes, ListTypes, Limits!TypeOK
<1> QED BY <1>1, SpecHour, PTL

\* So many intervals as reach back an hour, each with its messages at most.
LEMMA IntervalsAddUp ==
  ASSUME NEW h \in Nat, NEW many \in [0..Hour -> Nat], many[0] = 0,
         \A x, y \in 0..Hour : x <= y /\ y <= x + Limits!IntervalMinutes(h) =>
           many[y] <= many[x] + Limits!IntervalMessages(h)
  PROVE  many[Hour] <= h
<1> DEFINE i == Limits!IntervalMinutes(h)
           m == Limits!IntervalMessages(h)
           Above == {j \in Nat : j * i <= Hour /\ ~(many[j * i] <= j * m)}
           Reach == {j \in Nat : Hour <= j * i}
<1>1. i \in Nat \ {0} /\ m \in Nat /\ Hour \in Nat \ {0}
  BY IntervalCalculated DEF Limits!TimesAssumption
<1>2. \A x, y \in 0..Hour : x <= y /\ y <= x + i => many[y] <= many[x] + m
  OBVIOUS
<1>3. \A n \in Nat \ {0} : (n - 1) * i < Hour => n * m <= h
  BY IntervalsStayWithinRule
<1> HIDE DEF i, m
<1>4. Above = {}
  <2> SUFFICES ASSUME Above # {} PROVE FALSE
    OBVIOUS
  <2>1. PICK j \in Above : \A g \in Above : j <= g
    <3>1. Above \in SUBSET Nat
      OBVIOUS
    <3> HIDE DEF Above
    <3> QED BY <3>1, Least
  <2>2. j \in Nat /\ j * i <= Hour /\ ~(many[j * i] <= j * m)
    BY <2>1
  <2>3. j # 0
    <3> SUFFICES ASSUME j = 0 PROVE FALSE
      OBVIOUS
    <3>1. j * i = 0 /\ j * m = 0
      BY <1>1
    <3> QED BY <2>2, <3>1
  <2>4. PICK g \in Nat : j = g + 1
    <3>1. j - 1 \in Nat /\ j = (j - 1) + 1
      BY <2>2, <2>3
    <3> QED BY <3>1
  <2>5. /\ g * i \in Nat /\ j * i \in Nat /\ j * i = g * i + i
        /\ g * m \in Nat /\ j * m \in Nat /\ j * m = g * m + m
    BY <1>1, <2>4
  <2>6. g * i \in 0..Hour /\ j * i \in 0..Hour /\ g * i <= j * i
    <3>1. \A u, v \in Nat : v = u + i /\ v <= Hour => u \in 0..Hour /\ v \in 0..Hour /\ u <= v
      BY <1>1
    <3> QED BY <2>2, <2>5, <3>1
  <2>7. many[g * i] <= g * m
    <3>1. g \notin Above
      BY <2>1, <2>2, <2>4
    <3> QED BY <1>1, <2>6, <3>1
  <2>8. many[j * i] <= many[g * i] + m
    BY <1>2, <2>5, <2>6
  <2>9. many[g * i] \in Nat /\ many[j * i] \in Nat
    BY <2>6
  <2>10. \A u, v, b, c \in Nat : u <= b /\ v <= u + m /\ c = b + m => v <= c
    BY <1>1
  <2> QED BY <2>2, <2>5, <2>7, <2>8, <2>9, <2>10
<1>5. PICK n \in Reach : \A g \in Reach : n <= g
  <2>1. Hour * i >= Hour /\ Hour * i \in Nat
    BY <1>1
  <2>2. Hour \in Reach
    BY <1>1, <2>1
  <2>3. Reach \in SUBSET Nat /\ Reach # {}
    BY <2>2
  <2> HIDE DEF Reach
  <2> QED BY <2>3, Least
<1>6. n \in Nat \ {0} /\ Hour <= n * i
  <2>1. 0 * i = 0
    BY <1>1
  <2> QED BY <1>1, <1>5, <2>1
<1>7. PICK g \in Nat : n = g + 1
  <2>1. n - 1 \in Nat /\ n = (n - 1) + 1
    BY <1>6
  <2> QED BY <2>1
<1>8. g * i \in Nat /\ g * i < Hour /\ Hour <= g * i + i
  <2>1. n * i = g * i + i /\ g * i \in Nat
    BY <1>1, <1>7
  <2>2. g \notin Reach
    BY <1>5, <1>7
  <2> QED BY <1>1, <1>6, <2>1, <2>2
<1>9. many[g * i] <= g * m
  <2>1. g * i <= Hour
    BY <1>1, <1>8
  <2>2. g \notin Above
    BY <1>4
  <2> QED BY <1>7, <2>1, <2>2
<1>10. many[Hour] <= many[g * i] + m
  BY <1>1, <1>2, <1>8
<1>11. n * m <= h
  <2>1. n - 1 = g
    BY <1>7
  <2> QED BY <1>3, <1>6, <1>8, <2>1
<1>12. n * m = g * m + m /\ g * m \in Nat /\ many[g * i] \in Nat /\ many[Hour] \in Nat
  BY <1>1, <1>7, <1>8
<1>13. \A u, v, b, c \in Nat : u <= b /\ v <= u + m /\ c = b + m /\ c <= h => v <= h
  BY <1>1
<1>14. n * m \in Nat
  BY <1>1, <1>12
<1> QED BY <1>9, <1>10, <1>11, <1>12, <1>13, <1>14

\* In no hour more is allowed from an address to the hosts of a pattern than its rule says, whatever
\* the rule and however many workers ask, unless the interval in force was that of another pattern
\* or the history of the address was replaced.
THEOREM HoursStayWithinRule == LimitsSpec => []HourlyLimit
<1>1. HourInv => HourlyLimit
  <2> SUFFICES ASSUME HourInv, NEW a \in Addresses, NEW p \in Limited, <<a, p>> \notin mixed,
                      a \notin replaced
               PROVE  allowed[a][p][Hour] <= MaxMessagesHour[p]
    BY DEF HourlyLimit, Limits!HourlyLimit
  <2>1. allowed[a][p] \in [0..Hour -> Nat] /\ allowed[a][p][0] = 0 /\ MaxMessagesHour[p] \in Nat
    BY DEF HourInv, ListTypes, Growing, Limits!RulesAssumption
  <2>2. CASE sendHistory[a] = None
    <3>1. allowed[a][p] = Limits!NoSends(Hour)
      BY <2>2 DEF HourInv, NothingAllowed
    <3>2. allowed[a][p][Hour] = 0
      BY <3>1 DEF Limits!NoSends, Limits!TimesAssumption
    <3> QED BY <2>1, <3>2
  <2>3. CASE sendHistory[a] # None
    <3>1. \A x, y \in 0..Hour : x <= y /\ y <= x + Limits!IntervalMinutes(MaxMessagesHour[p]) =>
            allowed[a][p][y] <= allowed[a][p][x] + Limits!IntervalMessages(MaxMessagesHour[p])
      BY <2>3 DEF HourInv, InEveryInterval, Kept, Minutes, Messages
    <3> QED BY <2>1, <3>1, IntervalsAddUp
  <2> QED BY <2>2, <2>3
<1> QED BY <1>1, SpecHour, PTL

\* A send is refused only if in the minutes of the rule's interval as many were allowed as it has
\* messages: what is remembered was allowed, and refusals are not.
THEOREM RefusalsHaveReason == LimitsSpec => RefusalIsJustified
<1>1. ASSUME HourInv, NEW w \in Workers, Limits!Deny(w), ~Limits!JudgedByAnother(w),
             Limits!IntervalMinutes(Limits!PerHour(w)) <= Hour
      PROVE  allowed[from[w]][pattern[w]][Limits!IntervalMinutes(Limits!PerHour(w))]
               >= Limits!IntervalMessages(Limits!PerHour(w))
  <2> DEFINE i == minutes[object[w]]
  <2>1. step[w] = "lock" /\ Limits!Count(w) >= maxMessages[object[w]]
    BY <1>1 DEF Limits!Deny, Limits!Judge
  <2>2. i = Limits!IntervalMinutes(Limits!PerHour(w))
        /\ maxMessages[object[w]] = Limits!IntervalMessages(Limits!PerHour(w))
    BY <1>1 DEF Limits!JudgedByAnother
  <2>3. /\ object[w] \in Histories /\ pattern[w] \in Limited /\ from[w] \in Addresses
        /\ i \in 0..Hour /\ Limits!Count(w) \in Nat /\ maxMessages[object[w]] \in Int
    <3>1. /\ object[w] \in Histories /\ pattern[w] \in Limited /\ from[w] \in Addresses
          /\ i \in 1..(Hour + 1) /\ Limits!Count(w) \in Nat
      BY <1>1, <2>1, RecentList
    <3>2. maxMessages[object[w]] \in Int
      BY <1>1, <3>1 DEF HourInv, Known, LimitTypes
    <3> QED BY <1>1, <2>2, <3>1, <3>2 DEF Limits!TimesAssumption
  <2>4. Limits!Count(w) <= allowed[from[w]][pattern[w]][i] /\ allowed[from[w]][pattern[w]][i] \in Nat
    <3>1. Owns(from[w], object[w])
      BY <2>3 DEF Owns
    <3>2. sends[object[w]][pattern[w]][i] <= allowed[from[w]][pattern[w]][i]
      BY <1>1, <2>3, <3>1 DEF HourInv, WereAllowed
    <3>3. allowed[from[w]][pattern[w]] \in [0..Hour -> Nat]
      BY <1>1, <2>3 DEF HourInv, ListTypes
    <3> QED BY <2>3, <3>2, <3>3 DEF Limits!Count
  <2> QED BY <2>1, <2>2, <2>3, <2>4
<1>2. HourInv => [\A w \in Workers :
         Limits!Deny(w) /\ ~Limits!JudgedByAnother(w)
         /\ Limits!IntervalMinutes(Limits!PerHour(w)) <= Hour =>
           allowed[from[w]][pattern[w]][Limits!IntervalMinutes(Limits!PerHour(w))]
             >= Limits!IntervalMessages(Limits!PerHour(w))]_(Limits!vars)
  BY <1>1
<1> QED BY <1>2, SpecHour, LimitsArePart, PTL DEF RefusalIsJustified, Limits!RefusalIsJustified

=============================================================================
