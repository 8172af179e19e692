--------------------------- MODULE MCSenderCaches ---------------------------
(* Finite instance of SenderCaches for TLC.  As the four parts share no    *)
(* variable, and each property is about one of them, each part takes its   *)
(* steps while the others stay at their initial states.                    *)
EXTENDS SenderCaches, TLC

CONSTANTS w1, w2, mx1, mx2, a1, a2

VARIABLE part  \* which one it is

\* One MX is at times the only one, and at times there is none.
MCZones == {<<mx1, mx2>>, <<mx2>>, <<>>}
MCTtl == mx1 :> 1 @@ mx2 :> 3 @@ Domain :> 2

\* Two domains share an MX, which one of them prefers and the other does not.
MCLists == {<<mx1, mx2>>, <<mx2>>}

PartInit ==
  /\ part \in {"sends", "groups", "records", "routing"}
  /\ CachesInit
  /\ part # "records" => zone = <<>>

PartNext ==
  /\ \/ part = "sends" /\ StepOfSends
     \/ part = "groups" /\ StepOfGroups
     \/ part = "records" /\ StepOfRecords
     \/ part = "routing" /\ StepOfRouting
  /\ UNCHANGED part

PartSpec == PartInit /\ [][PartNext]_<<part, cacheVars>>

Symmetry == Permutations({w1, w2}) \cup Permutations({a1, a2})
=============================================================================
