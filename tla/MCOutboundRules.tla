-------------------------- MODULE MCOutboundRules ---------------------------
(* Finite instance of OutboundRules for TLC.                               *)
EXTENDS OutboundRules, TLC

CONSTANTS h1, h2, a1, a2

\* A pattern for one address, one for a host, and the default.
MCPatterns == <<
  [hosts |-> {h1, h2}, limitedTo |-> a1],
  [hosts |-> {h1}, limitedTo |-> None],
  [hosts |-> {h1, h2}, limitedTo |-> None] >>

Symmetry == Permutations(Workers) \cup Permutations(Collections)
=============================================================================
