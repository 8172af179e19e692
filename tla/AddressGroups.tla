---------------------------- MODULE AddressGroups ----------------------------
(***************************************************************************)
(* VirtualMtaManager: one group of sending addresses, cached for some      *)
(* minutes, and VirtualMtaGroup's choice of the address that has sent      *)
(* least to a host.                                                        *)
(*                                                                         *)
(* Each load makes a new group object, with counters of its own; a worker  *)
(* may still have one that was replaced.  The objects are numbered as they *)
(* are loaded.  MaxCall stands for the time of a call, which nothing in    *)
(* the code bounds.                                                        *)
(***************************************************************************)
EXTENDS Integers, Sequences

CONSTANTS
  Workers,
  Addresses,     \* virtual MTAs
  Hosts,         \* MX hosts
  CacheMinutes,  \* MTA_CACHE_MINUTES
  MaxCall,       \* minutes that a call takes at most
  MaxTime,       \* bound of the clock
  MaxSends,      \* bound of the choices of one address for one host
  None

GroupAssumption ==
  /\ CacheMinutes \in Nat \ {0} /\ MaxCall \in Nat /\ MaxTime \in Nat /\ MaxSends \in Nat
  /\ None \notin Workers

VARIABLES
  now,      \* DateTime.UtcNow
  members,  \* the addresses of the group in SQL
  left,     \* history: when an address was last a member
  groups,   \* the group objects that were loaded: VirtualMtaCollection, CreatedTimestamp, SendsCounter
  cached,   \* the entry of _vmtaGroups, the number of an object or 0
  lock,     \* who holds _MtaVirtualMtaGroupSyncLock
  loading,  \* the object that is being loaded under it
  pc,       \* workers: where the call is
  began,    \* workers: when it began
  group,    \* workers: the object in hand, or 0
  used      \* history: how often an address was chosen for a host

sqlVars == <<members, left>>
vars == <<now, sqlVars, groups, cached, lock, loading, pc, began, group, used>>

Group == [addresses : SUBSET Addresses, created : 0..MaxTime, sends : [Addresses -> [Hosts -> Nat]]]
NoSends == [a \in Addresses |-> [h \in Hosts |-> 0]]

TypeOK ==
  /\ now \in 0..MaxTime
  /\ members \in SUBSET Addresses
  /\ left \in [Addresses -> 0..MaxTime]
  /\ groups \in Seq(Group)
  /\ cached \in 0..Len(groups)
  /\ lock \in Workers \cup {None}
  /\ loading \in Group \cup {None}
  /\ pc \in [Workers -> {"idle", "wait", "load", "fill", "store", "choose"}]
  /\ began \in [Workers -> 0..MaxTime]
  /\ group \in [Workers -> 0..Len(groups)]
  /\ used \in [Addresses -> [Hosts -> Nat]]

Init ==
  /\ now = 0
  /\ members = Addresses /\ left = [a \in Addresses |-> 0]
  /\ groups = <<>> /\ cached = 0
  /\ lock = None /\ loading = None
  /\ pc = [w \in Workers |-> "idle"]
  /\ began = [w \in Workers |-> 0]
  /\ group = [w \in Workers |-> 0]
  /\ used = NoSends

Step(w, from, to) == pc[w] = from /\ pc' = [pc EXCEPT ![w] = to]

-----------------------------------------------------------------------------
(* VirtualMtaManager.GetVirtualMtaGroup                                    *)

Fresh == cached # 0 /\ groups[cached].created + CacheMinutes > now

TryGetValue(w) ==
  /\ Step(w, "idle", IF Fresh THEN "choose" ELSE "wait")
  /\ group' = [group EXCEPT ![w] = IF Fresh THEN cached ELSE 0]
  /\ began' = [began EXCEPT ![w] = now]
  /\ UNCHANGED <<now, sqlVars, groups, cached, lock, loading, used>>

\* Variant: the lock is taken without a second look.
EnterAnyway(w) ==
  /\ lock = None
  /\ Step(w, "wait", "load") /\ lock' = w
  /\ UNCHANGED <<now, sqlVars, groups, cached, loading, began, group, used>>

\* Variant: at the second look the age does not matter.
EnterForAny(w) ==
  /\ lock = None
  /\ IF cached # 0
       THEN Step(w, "wait", "choose") /\ group' = [group EXCEPT ![w] = cached] /\ UNCHANGED lock
       ELSE Step(w, "wait", "load") /\ lock' = w /\ UNCHANGED group
  /\ UNCHANGED <<now, sqlVars, groups, cached, loading, began, used>>

\* Under the lock, a second look: another worker may have loaded the group.
Enter(w) ==
  /\ lock = None
  /\ IF Fresh
       THEN Step(w, "wait", "choose") /\ group' = [group EXCEPT ![w] = cached] /\ UNCHANGED lock
       ELSE Step(w, "wait", "load") /\ lock' = w /\ UNCHANGED group
  /\ UNCHANGED <<now, sqlVars, groups, cached, loading, began, used>>

\* The object is made, and takes the time, before its addresses are read.
Load(w) ==
  /\ Step(w, "load", "fill")
  /\ loading' = [addresses |-> {}, created |-> now, sends |-> NoSends]
  /\ UNCHANGED <<now, sqlVars, groups, cached, lock, began, group, used>>

Fill(w) ==
  /\ Step(w, "fill", "store")
  /\ loading' = [loading EXCEPT !.addresses = members]
  /\ UNCHANGED <<now, sqlVars, groups, cached, lock, began, group, used>>

Store(w) ==
  /\ Step(w, "store", "choose")
  /\ groups' = Append(groups, loading)
  /\ cached' = Len(groups')
  /\ group' = [group EXCEPT ![w] = cached']
  /\ lock' = None /\ loading' = None
  /\ UNCHANGED <<now, sqlVars, began, used>>

\* A query throws, or the group is not in the table: an exception for the caller.
LoadFails(w) ==
  /\ \E at \in {"load", "fill"} : Step(w, at, "idle")
  /\ lock' = None /\ loading' = None
  /\ began' = [began EXCEPT ![w] = 0]
  /\ UNCHANGED <<now, sqlVars, groups, cached, group, used>>

-----------------------------------------------------------------------------
(* VirtualMtaGroup.GetVirtualMtasForSending                                *)

Plus(count, a, h) == [count EXCEPT ![a][h] = @ + 1]

\* OrderBy: those that have sent least to the host.  In which order the query gave them is free.
Least(g, h) == {a \in g.addresses : \A b \in g.addresses : g.sends[a][h] <= g.sends[b][h]}

Done(w) ==
  /\ Step(w, "choose", "idle")
  /\ group' = [group EXCEPT ![w] = 0]
  /\ began' = [began EXCEPT ![w] = 0]
  /\ UNCHANGED <<now, sqlVars, cached, lock, loading>>

\* One worker at a time, of any group.
Choose(w) ==
  /\ Done(w)
  /\ \E h \in Hosts : \E a \in Least(groups[group[w]], h) :
       /\ used[a][h] < MaxSends
       /\ groups' = [groups EXCEPT ![group[w]].sends = Plus(@, a, h)]
       /\ used' = Plus(used, a, h)

\* The SMTP server, which only wants to know the group, or a worker whose group is empty: an
\* exception.
Leave(w) == Done(w) /\ UNCHANGED <<groups, used>>

GetAddress(w) ==
  \/ TryGetValue(w) \/ Enter(w) \/ Load(w) \/ Fill(w) \/ Store(w) \/ LoadFails(w)
  \/ Choose(w) \/ Leave(w)

-----------------------------------------------------------------------------

\* The web interface takes an address out of the group, or puts it in.
EditGroup ==
  /\ \E a \in Addresses :
       /\ members' = IF a \in members THEN members \ {a} ELSE members \cup {a}
       /\ left' = [left EXCEPT ![a] = now]
  /\ UNCHANGED <<now, groups, cached, lock, loading, pc, began, group, used>>

Tick ==
  /\ now < MaxTime
  /\ \A w \in Workers : pc[w] # "idle" => now < began[w] + MaxCall
  /\ now' = now + 1
  /\ left' = [a \in Addresses |-> IF a \in members THEN now' ELSE left[a]]
  /\ UNCHANGED <<members, groups, cached, lock, loading, pc, began, group, used>>

Next == (\E w \in Workers : GetAddress(w)) \/ EditGroup \/ Tick

Spec == Init /\ [][Next]_vars

-----------------------------------------------------------------------------
(* Properties                                                              *)

\* An address that was taken out of its group is no longer sent from after the time for which a
\* group is cached and that of a call, whichever object a worker has in hand.
AddressIsRecent ==
  \A w \in Workers : pc[w] = "choose" =>
    \A a \in groups[group[w]].addresses : left[a] > now - CacheMinutes - MaxCall

\* Addresses that stay in the group share the messages to a host evenly, but for one message in
\* each period for which a group is cached: however many workers find the group too old at once,
\* one of them loads it, and although workers go on with an object that was replaced, which counts
\* for itself.
SharedFairly ==
  \A a, b \in Addresses :
    (\A i \in 1..Len(groups) : {a, b} \subseteq groups[i].addresses) =>
      \A h \in Hosts : used[a][h] - used[b][h] <= 1 + now \div CacheMinutes

=============================================================================
