------------------------------ MODULE MxRecords ------------------------------
(***************************************************************************)
(* DNSManager: the MX records of one domain, which workers look up in a    *)
(* cache or ask the resolver for.                                          *)
(*                                                                         *)
(* The resolver is external.  Times are ages, in seconds, that no longer   *)
(* grow when they are too old to matter.  MaxQuery stands for the time of  *)
(* a lookup, which nothing in the code bounds.                             *)
(***************************************************************************)
EXTENDS Integers, Sequences

CONSTANTS
  Workers,
  Mxs,       \* hosts that are MXs of the domain at one time or another
  Domain,    \* the domain itself, the host to send to when it has no MX
  Zones,     \* what DNS may hold for it: MXs by preference, or none
  Ttl,       \* of the record of a host; of Domain, 300 seconds in the code
  MaxQuery,  \* seconds that a lookup takes at most
  MaxAge,    \* bound of the ages
  None

Hosts == Mxs \cup {Domain}

RecordsAssumption ==
  /\ Domain \notin Mxs /\ None \notin Hosts
  /\ Zones \subseteq Seq(Mxs) /\ <<>> \in Zones
  /\ Ttl \in [Hosts -> Nat]
  /\ MaxQuery \in Nat /\ MaxAge \in Nat /\ \A h \in Hosts : Ttl[h] + MaxQuery < MaxAge

VARIABLES
  zone,      \* what DNS holds now
  seen,      \* history: how long ago a resolver could last give this answer
  records,   \* DNSManager._Records of the domain, with the age of the entry
  pc,        \* workers: where GetMXRecords is
  found,     \* workers: mxRecords
  took,      \* workers: how long the lookup has taken
  stamp      \* workers: the age of LookupTimestamp until the records are stored

vars == <<zone, seen, records, pc, found, took, stamp>>

Ages == 0..MaxAge

TypeOK ==
  /\ zone \in Zones
  /\ seen \in [Zones -> Ages]
  /\ records = None \/ records \in [mx : Seq(Hosts), age : Ages]
  /\ pc \in [Workers -> {"idle", "query", "stamp", "store", "answer"}]
  /\ found \in [Workers -> Seq(Hosts)]
  /\ took \in [Workers -> 0..MaxQuery] /\ stamp \in [Workers -> 0..MaxQuery]

\* Before the start, DNS may have held anything.
Init ==
  /\ zone \in Zones
  /\ seen = [z \in Zones |-> IF z = zone THEN 0 ELSE MaxAge]
  /\ records = None
  /\ pc = [w \in Workers |-> "idle"]
  /\ found = [w \in Workers |-> <<>>]
  /\ took = [w \in Workers |-> 0] /\ stamp = took

Step(w, from, to) == pc[w] = from /\ pc' = [pc EXCEPT ![w] = to]

-----------------------------------------------------------------------------
(* DNSManager.GetMXRecords                                                 *)

\* Variant: an array is used while any of its records lives.
AllDead(entry) ==
  entry.mx # <<>> /\ \A i \in 1..Len(entry.mx) : Ttl[entry.mx[i]] < entry.age

\* MXRecord.Dead of any record: an array is only used while all of it lives.
Dead(entry) == \E i \in 1..Len(entry.mx) : Ttl[entry.mx[i]] < entry.age

LookUp(w) ==
  /\ IF records # None /\ ~Dead(records)
       THEN Step(w, "idle", "answer") /\ found' = [found EXCEPT ![w] = records.mx]
       ELSE Step(w, "idle", "query") /\ UNCHANGED found
  /\ UNCHANGED <<zone, seen, records, took, stamp>>

Finds(w, mx) == found' = [found EXCEPT ![w] = mx]

\* The resolver's answer.  No MX records, no such domain and any error of the resolver all
\* come back as null, for which the code puts the domain itself; records of which none is an
\* MX come back as an array without elements.
Query(w) ==
  /\ Step(w, "query", "stamp")
  /\ \/ /\ Finds(w, IF zone = <<>> THEN <<Domain>> ELSE zone)
        /\ UNCHANGED seen
     \/ /\ Finds(w, <<Domain>>)
        /\ seen' = [seen EXCEPT ![<<>>] = 0]
     \/ /\ Finds(w, <<>>)
        /\ UNCHANGED seen
  /\ UNCHANGED <<zone, records, took, stamp>>

\* The constructor of MXRecord takes the time.
Stamp(w) ==
  /\ Step(w, "stamp", "store")
  /\ stamp' = [stamp EXCEPT ![w] = 0]
  /\ UNCHANGED <<zone, seen, records, found, took>>

\* AddOrUpdate of the domain itself, TryAdd of MX records: only the first replaces an entry that
\* is there, which it does even if the entry lives.
Store(w) ==
  /\ Step(w, "store", "answer")
  /\ records' = IF found[w] = <<Domain>> \/ records = None
                  THEN [mx |-> found[w], age |-> stamp[w]]
                  ELSE records
  /\ took' = [took EXCEPT ![w] = 0]
  /\ stamp' = [stamp EXCEPT ![w] = 0]
  /\ UNCHANGED <<zone, seen, found>>

\* The worker goes on, and looks up another time.
Answer(w) ==
  /\ Step(w, "answer", "idle")
  /\ found' = [found EXCEPT ![w] = <<>>]
  /\ UNCHANGED <<zone, seen, records, took, stamp>>

GetMXRecords(w) == LookUp(w) \/ Query(w) \/ Stamp(w) \/ Store(w) \/ Answer(w)

-----------------------------------------------------------------------------

\* The domain is given other MXs, or none.
ZoneChanges ==
  /\ \E z \in Zones \ {zone} : zone' = z
  /\ seen' = [seen EXCEPT ![zone'] = 0]
  /\ UNCHANGED <<records, pc, found, took, stamp>>

LookingUp == {w \in Workers : pc[w] \in {"query", "stamp", "store"}}
Older(age) == IF age < MaxAge THEN age + 1 ELSE age

Tick ==
  /\ \A w \in LookingUp : took[w] < MaxQuery
  /\ seen' = [z \in Zones |-> IF z = zone THEN 0 ELSE Older(seen[z])]
  /\ records' = IF records = None THEN None ELSE [records EXCEPT !.age = Older(@)]
  /\ took' = [w \in Workers |-> IF w \in LookingUp THEN took[w] + 1 ELSE 0]
  /\ stamp' = [w \in Workers |-> IF pc[w] = "store" THEN stamp[w] + 1 ELSE 0]
  /\ UNCHANGED <<zone, pc, found>>

Next == (\E w \in Workers : GetMXRecords(w)) \/ ZoneChanges \/ Tick

Spec == Init /\ [][Next]_vars

-----------------------------------------------------------------------------
(* Properties                                                              *)

\* The answer of the resolver that made the code put these hosts.
AnswerFor(mx) == IF mx = <<Domain>> THEN <<>> ELSE mx

\* A message is given hosts that the resolver named not longer ago than the shortest time to
\* live among them and the time of a lookup, whichever worker looked them up, whoever replaced
\* the entry in the meantime, and in whatever order lookups that overlap are stored.
RoutesAreCurrent ==
  [][\A w \in Workers :
       pc[w] # "answer" /\ pc'[w] = "answer" =>
         \A i \in 1..Len(found'[w]) :
           seen[AnswerFor(found'[w])] <= Ttl[found'[w][i]] + MaxQuery]_vars

=============================================================================
