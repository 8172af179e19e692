---------------------------- MODULE MCClientPool ----------------------------
(* Finite instance of ClientPool for TLC.                                  *)
EXTENDS ClientPool, TLC

\* Workers, queue objects and connections only differ by name.
Symmetry == Permutations(Workers) \cup Permutations(Queues) \cup Permutations(Clients)
=============================================================================
