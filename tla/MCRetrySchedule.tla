-------------------------- MODULE MCRetrySchedule --------------------------
(* Small times for TLC: half seconds, and a limit of a minute or two.      *)
EXTENDS RetrySchedule

MCDelays == {1, 5}
=============================================================================
