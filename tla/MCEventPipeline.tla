--------------------------- MODULE MCEventPipeline ---------------------------
(* Finite instance of EventPipeline for TLC.                               *)
EXTENDS EventPipeline, TLC
=============================================================================
