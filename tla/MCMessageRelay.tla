--------------------------- MODULE MCMessageRelay ---------------------------
(* Finite instance of MessageRelay for TLC.  No symmetry: two of its       *)
(* properties are liveness properties.                                     *)
EXTENDS MessageRelay
=============================================================================
