----------------------------- MODULE MCSmtpLines -----------------------------
(* Finite instance of SmtpLines for TLC.                                   *)
EXTENDS SmtpLines, TLC
=============================================================================
