--------------------------- MODULE RelayContract ---------------------------
(***************************************************************************)
(* What MantaMTA promises about a message it has accepted for relaying,    *)
(* without queues, threads or tables.  QueueManager.Enqueue says "True if  *)
(* the Message has been queued": from that answer on the MTA owes the      *)
(* message an outcome, and the outcome is a row of man_mta_transaction     *)
(* with one of the statuses that HasBeenHandledAsync looks for.            *)
(*                                                                         *)
(* The one way out is a publish that RabbitMQ refuses: the code drops the  *)
(* message after it (see MessageRelay), so the contract admits it and      *)
(* keeps the set of messages it happened to.                               *)
(***************************************************************************)
CONSTANT Messages

VARIABLES
  standing, \* "new" | "owed" | "settled" | "lost", per message
  refused   \* messages for which a publish was refused

contractVars == <<standing, refused>>

Standing == {"new", "owed", "settled", "lost"}

ContractTypeOK ==
  /\ standing \in [Messages -> Standing]
  /\ refused \in SUBSET Messages

ContractInit ==
  /\ standing = [m \in Messages |-> "new"]
  /\ refused = {}

Accept(m) ==
  /\ standing[m] = "new"
  /\ standing' = [standing EXCEPT ![m] = "owed"]
  /\ UNCHANGED refused

Settle(m) ==
  /\ standing[m] = "owed"
  /\ standing' = [standing EXCEPT ![m] = "settled"]
  /\ UNCHANGED refused

\* A publish of m is refused; the message may still be held elsewhere.
Refuse(m) ==
  /\ standing[m] \in {"owed", "settled"}
  /\ refused' = refused \cup {m}
  /\ UNCHANGED standing

\* Only a message with a refused publish can be let go of unsettled.
Lose(m) ==
  /\ standing[m] = "owed"
  /\ m \in refused
  /\ standing' = [standing EXCEPT ![m] = "lost"]
  /\ UNCHANGED refused

ContractNext == \E m \in Messages : Accept(m) \/ Settle(m) \/ Refuse(m) \/ Lose(m)

ContractSpec == ContractInit /\ [][ContractNext]_contractVars
=============================================================================
