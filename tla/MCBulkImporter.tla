--------------------------- MODULE MCBulkImporter ---------------------------
(* Finite instance of BulkImporter for TLC.                                *)
EXTENDS BulkImporter
=============================================================================
