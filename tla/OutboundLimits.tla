--------------------------- MODULE OutboundLimits ---------------------------
(***************************************************************************)
(* The rules for outbound mail (OutboundRules) beside the limits that come *)
(* from them (Throttle), for the same workers, addresses and cache time.   *)
(*                                                                         *)
(* ThrottleManager asks OutboundRuleManager for pattern and rule and then  *)
(* keeps to itself: the two share no variable, and a behaviour is any      *)
(* interleaving of one of each.  The pattern that a call is answered is a  *)
(* free choice to the limits.                                              *)
(***************************************************************************)
EXTENDS OutboundRules

CONSTANTS
  Limited,         \* identifiers of the patterns that have a rule for the messages per hour
  MaxMessagesHour, Histories, Hour \* Throttle

VARIABLES
  sendHistory, maxMessages, minutes, recalcIn, sends, step, from, pattern, object, allowed, replaced, mixed

Limits == INSTANCE Throttle WITH
  Patterns <- Limited, current <- sendHistory, pc <- step, address <- from

ASSUME LimitsAssumption ==
  Limits!NoneAssumption /\ Limits!RulesAssumption /\ Limits!TimesAssumption

limitVars == <<sendHistory, maxMessages, minutes, recalcIn, sends, step, from, pattern, object,
               allowed, replaced, mixed>>

LimitsInit == Init /\ Limits!Init

StepOfRules == Next /\ UNCHANGED limitVars
StepOfLimits == Limits!Next /\ UNCHANGED vars

LimitsNext == StepOfRules \/ StepOfLimits

LimitsSpec == LimitsInit /\ [][LimitsNext]_<<vars, limitVars>>

-----------------------------------------------------------------------------
(* Properties, of the limits                                               *)

\* See Throttle: no hour has more sends from an address to the hosts of a pattern than its rule
\* says (TryGetSendAuth).
HourlyLimit == Limits!HourlyLimit

\* See Throttle: what TryGetSendAuth refuses would have exceeded the rule's interval.
RefusalIsJustified == Limits!RefusalIsJustified
=============================================================================
