---------------------------- MODULE SenderCaches ----------------------------
(***************************************************************************)
(* What the MTA looks up for a message, side by side: the status of its    *)
(* send (SendCache), the sending address (AddressGroups), the hosts of its *)
(* domain (MxRecords) and those of them that are left alone (MxRouting).   *)
(*                                                                         *)
(* Each is a manager of its own with its own locks and times: they share   *)
(* no variable, and a behaviour is any interleaving of one of each.  What  *)
(* a lookup answers is a free choice to the one that comes after it.       *)
(***************************************************************************)
EXTENDS SendCache

CONSTANTS
  Tasks,                                              \* worker tasks of MessageSender
  Addresses, Destinations, CacheMinutes, MaxSends,    \* AddressGroups
  MaxGroupCall, MaxGroupTime,                         \* its bounds, in minutes
  Mxs, Domain, Zones, Ttl, MaxQuery, MaxAge,          \* MxRecords
  Lists, Away                                         \* MxRouting

VARIABLES
  groupNow, members, left, groups, cached, groupLock, loading, groupPc, groupBegan, group, used,
  zone, named, records, lookPc, found, took, stamp,
  lastFail, known, wayPc, mxs, position, tried, failed, after

Groups == INSTANCE AddressGroups WITH
  Workers <- Tasks, Hosts <- Destinations, MaxCall <- MaxGroupCall, MaxTime <- MaxGroupTime,
  now <- groupNow, lock <- groupLock, pc <- groupPc, began <- groupBegan

Records == INSTANCE MxRecords WITH Workers <- Tasks, seen <- named, pc <- lookPc

Routing == INSTANCE MxRouting WITH Workers <- Tasks, pc <- wayPc, place <- position

ASSUME CachesAssumption ==
  Groups!GroupAssumption /\ Records!RecordsAssumption /\ Routing!RoutingAssumption

groupVars == <<groupNow, members, left, groups, cached, groupLock, loading,
               groupPc, groupBegan, group, used>>
recordVars == <<zone, named, records, lookPc, found, took, stamp>>
routingVars == <<lastFail, known, wayPc, mxs, position, tried, failed, after>>
cacheVars == <<vars, groupVars, recordVars, routingVars>>

CachesInit == Init /\ Groups!Init /\ Records!Init /\ Routing!Init

StepOfSends == Next /\ UNCHANGED <<groupVars, recordVars, routingVars>>
StepOfGroups == Groups!Next /\ UNCHANGED <<vars, recordVars, routingVars>>
StepOfRecords == Records!Next /\ UNCHANGED <<vars, groupVars, routingVars>>
StepOfRouting == Routing!Next /\ UNCHANGED <<vars, groupVars, recordVars>>

CachesNext == StepOfSends \/ StepOfGroups \/ StepOfRecords \/ StepOfRouting

CachesSpec == CachesInit /\ [][CachesNext]_cacheVars

-----------------------------------------------------------------------------
(* Properties, of one part each                                            *)

\* See AddressGroups: an address that was taken out of its group (VirtualMtaManager) is soon no
\* longer sent from.
AddressIsRecent == Groups!AddressIsRecent

\* See AddressGroups: the addresses of a group share the messages to each host
\* (GetVirtualMtasForSending).
SharedFairly == Groups!SharedFairly

\* See MxRecords: the hosts that GetMXRecords gives a message were named recently.
RoutesAreCurrent == Records!RoutesAreCurrent

\* See MxRouting: hosts that refuse are left alone (ServiceNotAvailableManager), and none is
\* jumped over.
MxsAreTriedInTurn == Routing!MxsAreTriedInTurn
=============================================================================
