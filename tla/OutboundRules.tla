---------------------------- MODULE OutboundRules ----------------------------
(***************************************************************************)
(* OutboundRuleManager: which MX pattern, and so which rules, are used for *)
(* a destination host and an outbound address.                             *)
(*                                                                         *)
(* The first pattern of the table that matches counts.  What was found is  *)
(* kept per host in a collection, under the address if the pattern is      *)
(* limited to it and under the empty string (None here) if not.  Workers   *)
(* search and store without a lock.  The tables are read once.             *)
(*                                                                         *)
(* Times are kept as ages in minutes, up to one that is old enough.  The   *)
(* dictionary of all collections is created by the first call in the same  *)
(* unguarded way as each collection, with the same effect, and left out.   *)
(***************************************************************************)
EXTENDS Integers, Sequences

CONSTANTS
  Workers, Hosts, Addresses,
  Patterns,     \* man_rle_mxPattern in its order: [hosts, limitedTo]
  Collections,  \* MatchedMxPatternCollection objects
  CacheMinutes, \* MTA_CACHE_MINUTES: 5
  None

PatternIds == DOMAIN Patterns

\* Some pattern matches everything; the program stops when none does.
ASSUME PatternsAssumption ==
  /\ Patterns \in Seq([hosts : SUBSET Hosts, limitedTo : Addresses \cup {None}])
  /\ \E p \in PatternIds : Patterns[p].hosts = Hosts /\ Patterns[p].limitedTo = None
ASSUME NoneAssumption == None \notin Addresses \cup Hosts \cup Collections
ASSUME TimesAssumption == CacheMinutes \in Nat \ {0}

Keys == Addresses \cup {None}

VARIABLES
  current,  \* _matchedPatterns: the collection of each host, or None
  matched,  \* what is in a collection: the entry of each key, or None
  pc, host, address, collection, \* the workers' calls
  answer    \* the worker's last answer: [host, address, id, known], or None

callVars == <<host, address>>
vars == <<current, matched, pc, callVars, collection, answer>>

Old == CacheMinutes + 1
Entry == [id : PatternIds, age : 0..Old]
Answer == [host : Hosts, address : Addresses, id : PatternIds, known : BOOLEAN]

TypeOK ==
  /\ current \in [Hosts -> Collections \cup {None}]
  /\ matched \in [Collections -> [Keys -> Entry \cup {None}]]
  /\ pc \in [Workers -> {"idle", "create", "cached", "search"}]
  /\ host \in [Workers -> Hosts \cup {None}]
  /\ address \in [Workers -> Keys]
  /\ collection \in [Workers -> Collections \cup {None}]
  /\ answer \in [Workers -> Answer \cup {None}]
  /\ \A w \in Workers : (pc[w] \in {"cached", "search"}) = (collection[w] # None)

Empty == [k \in Keys |-> None]

Init ==
  /\ current = [h \in Hosts |-> None]
  /\ matched = [c \in Collections |-> Empty]
  /\ pc = [w \in Workers |-> "idle"]
  /\ host = [w \in Workers |-> None]
  /\ address = [w \in Workers |-> None]
  /\ collection = [w \in Workers |-> None]
  /\ answer = [w \in Workers |-> None]

-----------------------------------------------------------------------------

Applies(p, h, a) == h \in Patterns[p].hosts /\ Patterns[p].limitedTo \in {None, a}

\* The loop over the patterns.
FirstMatch(h, a) ==
  CHOOSE p \in PatternIds : Applies(p, h, a) /\ \A q \in PatternIds : Applies(q, h, a) => p <= q

\* MatchedUtc plus the cache time is still to come, or gone.
Fresh(entry) == entry # None /\ entry.age < CacheMinutes
Expired(entry) == entry # None /\ entry.age > CacheMinutes

\* GetMatchedMxPattern: the entry of the address when it has expired; the entry for all
\* addresses when it has not and the address has none.
Cached(c, a) ==
  CASE matched[c][a] # None /\ Expired(matched[c][a]) -> matched[c][a]
    [] matched[c][a] = None /\ Fresh(matched[c][None]) -> matched[c][None]
    [] OTHER -> None

\* Variant: everything that is found is stored for all addresses.
KeyForAll(p, a) == None

\* The key that a found pattern is stored under.
KeyFor(p, a) == IF Patterns[p].limitedTo = None THEN None ELSE a

-----------------------------------------------------------------------------

Goto(w, to) == pc' = [pc EXCEPT ![w] = to]
SetCollection(w, c) == collection' = [collection EXCEPT ![w] = c]

Referenced == {current[h] : h \in Hosts} \cup {collection[w] : w \in Workers}

\* GetRules, for any of the three kinds of rules.
Begin(w, h, a) ==
  /\ pc[w] = "idle"
  /\ host' = [host EXCEPT ![w] = h]
  /\ address' = [address EXCEPT ![w] = a]
  /\ answer' = [answer EXCEPT ![w] = None]
  /\ SetCollection(w, current[h])
  /\ Goto(w, IF current[h] = None THEN "create" ELSE "cached")
  /\ UNCHANGED <<current, matched>>

\* AddOrUpdate replaces a collection that another worker has added in between, which goes on
\* with the one it has.
CreateCollection(w) ==
  /\ pc[w] = "create"
  /\ \E c \in Collections \ Referenced :
       /\ SetCollection(w, c)
       /\ current' = [current EXCEPT ![host[w]] = c]
       /\ matched' = [matched EXCEPT ![c] = Empty]
  /\ Goto(w, "cached")
  /\ UNCHANGED <<callVars, answer>>

\* "known" tells whether the address had an entry of its own.
Return(w, id) ==
  /\ answer' = [answer EXCEPT ![w] = [host |-> host[w], address |-> address[w], id |-> id,
                                      known |-> matched[collection[w]][address[w]] # None]]
  /\ host' = [host EXCEPT ![w] = None]
  /\ address' = [address EXCEPT ![w] = None]
  /\ SetCollection(w, None)
  /\ Goto(w, "idle")

\* GetMxPatternID looks at the age again.
UseCached(w) ==
  /\ pc[w] = "cached"
  /\ Fresh(Cached(collection[w], address[w]))
  /\ Return(w, Cached(collection[w], address[w]).id)
  /\ UNCHANGED <<current, matched>>

NothingCached(w) ==
  /\ pc[w] = "cached"
  /\ ~Fresh(Cached(collection[w], address[w]))
  /\ Goto(w, "search")
  /\ UNCHANGED <<current, matched, callVars, collection, answer>>

\* The match is stored unless one with a later time is there, which does not happen.
Search(w) ==
  /\ pc[w] = "search"
  /\ LET found == FirstMatch(host[w], address[w])
     IN  /\ Return(w, found)
         /\ matched' = [matched EXCEPT ![collection[w]][KeyFor(found, address[w])] = [id |-> found, age |-> 0]]
  /\ UNCHANGED current

\* A minute later; collections that nobody refers to are gone.
Aged(entry) ==
  IF entry = None THEN None
  ELSE [entry EXCEPT !.age = IF @ = Old THEN Old ELSE @ + 1]

Minute ==
  /\ matched' = [c \in Collections |->
       IF c \in Referenced THEN [k \in Keys |-> Aged(matched[c][k])] ELSE Empty]
  /\ UNCHANGED <<current, pc, callVars, collection, answer>>

-----------------------------------------------------------------------------

Next ==
  \/ \E w \in Workers :
       \/ \E h \in Hosts, a \in Addresses : Begin(w, h, a)
       \/ CreateCollection(w) \/ UseCached(w) \/ NothingCached(w) \/ Search(w)
  \/ Minute

Spec == Init /\ [][Next]_vars

-----------------------------------------------------------------------------
(* Properties                                                              *)

Answers == {answer[w] : w \in Workers} \ {None}

General(p, h) == h \in Patterns[p].hosts /\ Patterns[p].limitedTo = None

\* The first pattern for a host that is not limited to an address.
FirstGeneral(h) ==
  CHOOSE p \in PatternIds : General(p, h) /\ \A q \in PatternIds : General(q, h) => p <= q

\* Whatever is cached and whoever stored it, for whichever host: an answer is the pattern that the
\* table has for host and address, or the one it has for addresses without a pattern of their
\* own.  Rules limited to an address are never used for another.
FirstOrGeneral ==
  \A r \in Answers : r.id \in {FirstMatch(r.host, r.address), FirstGeneral(r.host)}

\* An address that has an entry of its own for the host gets the pattern the table has for it,
\* although others have stored theirs for all addresses.
KnownIsRight == \A r \in Answers : r.known => r.id = FirstMatch(r.host, r.address)
=============================================================================
