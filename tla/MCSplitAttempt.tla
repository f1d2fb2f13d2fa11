--------------------------- MODULE MCSplitAttempt ---------------------------
(* The same instance with the history of the split panel's attempts.       *)
EXTENDS MCSplitClient, SplitClientAudit
=============================================================================
