--------------------------- MODULE MCSmtpDialogue ---------------------------
(* Finite instance of SmtpDialogue for TLC.                                *)
EXTENDS SmtpDialogue, TLC
=============================================================================
