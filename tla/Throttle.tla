------------------------------ MODULE Throttle ------------------------------
(***************************************************************************)
(* ThrottleManager.TryGetSendAuth, which workers call before they take a   *)
(* connection.  OutboundRuleManager gives it the MX pattern of the         *)
(* destination and the messages per hour that the pattern has a rule for   *)
(* (module OutboundRules); a pattern without a limit ends the call and is  *)
(* left out here.                                                          *)
(*                                                                         *)
(* The sends of an address are kept per pattern in one object, which also  *)
(* holds the interval in force: so many messages in so many minutes.       *)
(*                                                                         *)
(* A list of times is kept as what is asked of it, how many of them are in *)
(* the last so many minutes, as far back as it matters.  Comparing a list  *)
(* with the interval is one step: the list is locked, and a change of the  *)
(* interval meanwhile is noted in "mixed" before or after.                 *)
(***************************************************************************)
EXTENDS Integers

CONSTANTS
  Workers, Addresses,
  Patterns,
  MaxMessagesHour, \* the rule of each pattern: messages per hour
  Histories,    \* MxPatternThrottlingSendHistory objects
  Hour,         \* minutes in an hour: 60
  CacheMinutes, \* MTA_CACHE_MINUTES: 5
  None

\* What OutboundLimits assumes of them.
NoneAssumption == None \notin Addresses \cup Patterns \cup Histories
RulesAssumption == MaxMessagesHour \in [Patterns -> Nat]
TimesAssumption == Hour \in Nat \ {0} /\ CacheMinutes \in Nat \ {0}

VARIABLES
  current,   \* _sendHistory: the object of each address, or None
  maxMessages, minutes, recalcIn, \* IntervalMaxMessages, IntervalMinutes, minutes until the recalculation
  sends,     \* the lists of sends, per object and pattern
  pc, address, pattern, object, \* the workers' calls
  allowed,   \* history: per address and pattern, the sends allowed in the last hour
  replaced,  \* history: addresses whose object was replaced by another
  mixed      \* history: addresses and patterns judged by the interval of another pattern

intervalVars == <<maxMessages, minutes, recalcIn>>
callVars == <<address, pattern>>
historyVars == <<allowed, replaced, mixed>>
vars == <<current, intervalVars, sends, pc, callVars, object, historyVars>>

Pc == {"idle", "find", "add", "interval", "max", "minutes", "lock"}

\* A list of sends: how many were made in the last so many minutes.
Lists == [0..(Hour + 1) -> Nat]
NoSends(limit) == [k \in 0..limit |-> 0]

TypeOK ==
  /\ current \in [Addresses -> Histories \cup {None}]
  /\ maxMessages \in [Histories -> Nat \cup {-1}]
  /\ minutes \in [Histories -> 1..(Hour + 1) \cup {-1}]
  /\ recalcIn \in [Histories -> 0..CacheMinutes]
  /\ sends \in [Histories -> [Patterns -> Lists]]
  /\ pc \in [Workers -> Pc]
  /\ address \in [Workers -> Addresses \cup {None}]
  /\ pattern \in [Workers -> Patterns \cup {None}]
  /\ object \in [Workers -> Histories \cup {None}]
  /\ allowed \in [Addresses -> [Patterns -> [0..Hour -> Nat]]]
  /\ replaced \in SUBSET Addresses
  /\ mixed \in SUBSET (Addresses \X Patterns)
  /\ \A w \in Workers : pc[w] \in {"idle", "find"} <=> object[w] = None

Init ==
  /\ current = [a \in Addresses |-> None]
  /\ maxMessages = [o \in Histories |-> -1]
  /\ minutes = [o \in Histories |-> -1]
  /\ recalcIn = [o \in Histories |-> 0]
  /\ sends = [o \in Histories |-> [p \in Patterns |-> NoSends(Hour + 1)]]
  /\ pc = [w \in Workers |-> "idle"]
  /\ address = [w \in Workers |-> None]
  /\ pattern = [w \in Workers |-> None]
  /\ object = [w \in Workers |-> None]
  /\ allowed = [a \in Addresses |-> [p \in Patterns |-> NoSends(Hour)]]
  /\ replaced = {}
  /\ mixed = {}

-----------------------------------------------------------------------------
(* The interval of a rule                                                  *)

\* Variant: rounded up.
MessagesRoundedUp(perHour, i) == (perHour * i + Hour - 1) \div Hour

MessagesIn(perHour, i) == (perHour * i) \div Hour

\* Whole minutes in which at least one message may be sent.
Enough(perHour) == {i \in 1..Hour : MessagesIn(perHour, i) >= 1}

\* The shortest of them; an hour and a minute, and no message, if the rule is 0.
IntervalMinutes(perHour) ==
  IF Enough(perHour) = {} THEN Hour + 1
  ELSE CHOOSE i \in Enough(perHour) : \A j \in Enough(perHour) : i <= j

IntervalMessages(perHour) == MessagesIn(perHour, IntervalMinutes(perHour))

PerHour(w) == MaxMessagesHour[pattern[w]]
-----------------------------------------------------------------------------
(* The call                                                                *)

Goto(w, to) == pc' = [pc EXCEPT ![w] = to]
SetObject(w, o) == object' = [object EXCEPT ![w] = o]

Referenced == {current[a] : a \in Addresses} \cup {object[w] : w \in Workers}

\* GetMaxMessagesDestinationHour
Ask(w, a, p) ==
  /\ pc[w] = "idle"
  /\ address' = [address EXCEPT ![w] = a]
  /\ pattern' = [pattern EXCEPT ![w] = p]
  /\ Goto(w, "find")
  /\ UNCHANGED <<current, intervalVars, sends, object, historyVars>>

FindHistory(w) ==
  /\ pc[w] = "find"
  /\ current[address[w]] # None
  /\ SetObject(w, current[address[w]])
  /\ Goto(w, "interval")
  /\ UNCHANGED <<current, intervalVars, sends, callVars, historyVars>>

NewHistory(w) ==
  /\ pc[w] = "find"
  /\ current[address[w]] = None
  /\ \E o \in Histories \ Referenced :
       /\ SetObject(w, o)
       /\ maxMessages' = [maxMessages EXCEPT ![o] = -1]
       /\ minutes' = [minutes EXCEPT ![o] = -1]
       /\ recalcIn' = [recalcIn EXCEPT ![o] = 0]
       /\ sends' = [sends EXCEPT ![o] = [p \in Patterns |-> NoSends(Hour + 1)]]
  /\ Goto(w, "add")
  /\ UNCHANGED <<current, callVars, historyVars>>

\* AddOrUpdate replaces the object that another worker has added in between.
AddHistory(w) ==
  /\ pc[w] = "add"
  /\ current' = [current EXCEPT ![address[w]] = object[w]]
  /\ replaced' = IF current[address[w]] = None THEN replaced ELSE replaced \cup {address[w]}
  /\ Goto(w, "interval")
  /\ UNCHANGED <<intervalVars, sends, callVars, object, allowed, mixed>>

CheckInterval(w) ==
  /\ pc[w] = "interval"
  /\ Goto(w, IF recalcIn[object[w]] = 0 THEN "max" ELSE "lock")
  /\ UNCHANGED <<current, intervalVars, sends, callVars, object, historyVars>>

\* The interval is that of the caller's pattern, and from now on that of all patterns.
SetMaxMessages(w) ==
  /\ pc[w] = "max"
  /\ maxMessages' = [maxMessages EXCEPT ![object[w]] = IntervalMessages(PerHour(w))]
  /\ Goto(w, "minutes")
  /\ UNCHANGED <<current, minutes, recalcIn, sends, callVars, object, historyVars>>

SetMinutes(w) ==
  /\ pc[w] = "minutes"
  /\ minutes' = [minutes EXCEPT ![object[w]] = IntervalMinutes(PerHour(w))]
  /\ recalcIn' = [recalcIn EXCEPT ![object[w]] = CacheMinutes]
  /\ Goto(w, "lock")
  /\ UNCHANGED <<current, maxMessages, sends, callVars, object, historyVars>>

\* RemoveAll: what is left of the list of sends.
Recent(w) ==
  LET list == sends[object[w]][pattern[w]]
      limit == minutes[object[w]]
  IN  [k \in DOMAIN list |-> list[IF k <= limit THEN k ELSE limit]]

Count(w) == sends[object[w]][pattern[w]][minutes[object[w]]]

\* A list with a send that was made now.
OneMore(list) == [k \in DOMAIN list |-> IF k = 0 THEN 0 ELSE list[k] + 1]

SetSends(w, list) == sends' = [sends EXCEPT ![object[w]][pattern[w]] = list]

\* The interval in force is not that of the worker's pattern.
JudgedByAnother(w) ==
  \/ maxMessages[object[w]] # IntervalMessages(PerHour(w))
  \/ minutes[object[w]] # IntervalMinutes(PerHour(w))

Judge(w) ==
  /\ pc[w] = "lock"
  /\ mixed' = IF JudgedByAnother(w) THEN mixed \cup {<<address[w], pattern[w]>>} ELSE mixed
  /\ Goto(w, "idle")
  /\ SetObject(w, None)
  /\ address' = [address EXCEPT ![w] = None]
  /\ pattern' = [pattern EXCEPT ![w] = None]
  /\ UNCHANGED <<current, intervalVars, replaced>>

Allow(w) ==
  /\ Judge(w)
  /\ Count(w) < maxMessages[object[w]]
  /\ SetSends(w, OneMore(Recent(w)))
  /\ allowed' = [allowed EXCEPT ![address[w]][pattern[w]] = OneMore(@)]

\* Variant: a refused send is remembered, as if the time were added before the test.
DenyAndRemember(w) ==
  /\ Judge(w)
  /\ Count(w) >= maxMessages[object[w]]
  /\ SetSends(w, OneMore(Recent(w)))
  /\ UNCHANGED allowed

Deny(w) ==
  /\ Judge(w)
  /\ Count(w) >= maxMessages[object[w]]
  /\ SetSends(w, Recent(w))
  /\ UNCHANGED allowed

\* A list of sends a minute later; those that no interval reaches back to are left out.
Older(list) == [k \in DOMAIN list |-> IF k = 0 THEN 0 ELSE list[k - 1]]

Minute ==
  /\ recalcIn' = [o \in Histories |-> IF recalcIn[o] = 0 THEN 0 ELSE recalcIn[o] - 1]
  /\ sends' = [o \in Histories |-> [p \in Patterns |-> Older(sends[o][p])]]
  /\ allowed' = [a \in Addresses |-> [p \in Patterns |-> Older(allowed[a][p])]]
  /\ UNCHANGED <<current, maxMessages, minutes, pc, callVars, object, replaced, mixed>>

-----------------------------------------------------------------------------

Next ==
  \/ \E w \in Workers :
       \/ \E a \in Addresses, p \in Patterns : Ask(w, a, p)
       \/ FindHistory(w) \/ NewHistory(w) \/ AddHistory(w)
       \/ CheckInterval(w) \/ SetMaxMessages(w) \/ SetMinutes(w)
       \/ Allow(w) \/ Deny(w)
  \/ Minute

Spec == Init /\ [][Next]_vars

-----------------------------------------------------------------------------
(* Properties                                                              *)

\* In no hour more sends are allowed from an address to the hosts of a pattern than its rule
\* says, however many workers ask at a time, unless the interval in force was that of another
\* pattern or the history of the address was replaced.
HourlyLimit ==
  \A a \in Addresses, p \in Patterns :
    allowed[a][p][Hour] <= MaxMessagesHour[p] \/ <<a, p>> \in mixed \/ a \in replaced

\* A refusal has its reason: in the minutes of the rule's interval as many sends were allowed as
\* the rule has for it.  Refusals do not count against later sends.
RefusalIsJustified ==
  [][\A w \in Workers :
       Deny(w) /\ ~JudgedByAnother(w) /\ IntervalMinutes(PerHour(w)) <= Hour =>
         allowed[address[w]][pattern[w]][IntervalMinutes(PerHour(w))] >= IntervalMessages(PerHour(w))]_vars

\* A worker is never judged by an interval that was not calculated, whichever worker is
\* about to calculate it.
IntervalIsKnown ==
  \A w \in Workers : pc[w] = "lock" => maxMessages[object[w]] # -1 /\ minutes[object[w]] # -1
=============================================================================
