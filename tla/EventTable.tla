------------------------------ MODULE EventTable ------------------------------
(***************************************************************************)
(* What the parts that make, keep and forward events share: the table      *)
(* man_evn_event, the progress of the service's stop, and the number of    *)
(* faults so far.                                                          *)
(*                                                                         *)
(* An event is the file it was read from; its id is its place in the       *)
(* sequence, since ids are given out in order (@@IDENTITY).                *)
(***************************************************************************)
EXTENDS Naturals, Sequences, FiniteSets

CONSTANTS
  Bounces,     \* mails dropped in the bounce folder
  Complaints,  \* mails dropped in the feedback-loop folder
  MaxFaults    \* bound on failed commands and crashes

ASSUME FilesAssumption == Bounces \cap Complaints = {} /\ MaxFaults \in Nat

VARIABLES
  rows,    \* man_evn_event: source and Forwarded of each event, in the order of ids
  stop,    \* InvokeMantaCoreStopping: which part it is waiting for
  faults

Files == Bounces \cup Complaints

TableTypeOK ==
  /\ rows \in Seq([source : Files, forwarded : BOOLEAN])
  /\ stop \in {"no", "folder", "forwarder", "done"}
  /\ faults \in 0..MaxFaults

TableInit == rows = <<>> /\ stop = "no" /\ faults = 0

Fault == faults < MaxFaults /\ faults' = faults + 1

\* EventDB.SaveAsync of a new event: nothing says that there is one of this file already.
Insert(f) == rows' = Append(rows, [source |-> f, forwarded |-> FALSE])

\* EventDB.SaveAsync of an event that was read from the table.
Update(i) == rows' = [rows EXCEPT ![i].forwarded = TRUE]

RowsOf(f) == {i \in DOMAIN rows : rows[i].source = f}
=============================================================================
