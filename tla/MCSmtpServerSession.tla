------------------------ MODULE MCSmtpServerSession ------------------------
(* Two known mailboxes and two addresses of other domains.                 *)
EXTENDS SmtpServerSession

CONSTANTS abuse, postmaster, alice, bob
=============================================================================
