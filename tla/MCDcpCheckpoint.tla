--------------------------- MODULE MCDcpCheckpoint ---------------------------
(* Two ranks, three checkpoints, one or two preemptions, keep_last = 1.     *)
EXTENDS DcpCheckpoint

=============================================================================
