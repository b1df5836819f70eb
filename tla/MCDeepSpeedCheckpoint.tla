------------------------ MODULE MCDeepSpeedCheckpoint ------------------------
(* One or two nodes, synchronous or asynchronous, one preemption.           *)
EXTENDS DeepSpeedCheckpoint

=============================================================================
