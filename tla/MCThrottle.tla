----------------------------- MODULE MCThrottle -----------------------------
(* Finite instance of the limits of OutboundLimits for TLC.  The rules     *)
(* stay as they are at first: they share no variable with the limits,      *)
(* which each property is about.                                           *)
EXTENDS OutboundLimits, TLC

CONSTANT h1

\* Two patterns for the host, as the table may have them.
MCPatterns == [p \in {1, 2} |-> [hosts |-> {h1}, limitedTo |-> None]]
MCLimited == {1, 2}

\* One message in the whole hour, and one in two thirds of it.
MCMaxMessagesHour == <<1, 2>>

ThrottleSpec == LimitsInit /\ [][StepOfLimits]_<<vars, limitVars>>

Symmetry == Permutations(Workers) \cup Permutations(Histories)
=============================================================================
