-------------------------- MODULE MCTrainingParts --------------------------
(***************************************************************************)
(* The parts of the library that share no state, side by side: part says   *)
(* which of them a behaviour is of; the others stay in one initial state.  *)
(***************************************************************************)
EXTENDS ShardReads, Ema, PerfTracker, CodeSync, ChunkedLog, Weights

VARIABLE part

Part == {"shards", "ema", "perf", "sync", "chunks", "weights"}

NoShards == dataset = "scatter" /\ world = 1 /\ workers = 1 /\ buffer = 0
            /\ policy = "auto" /\ ~shuffled /\ mounted = {} /\ bucket = {} /\ late = {}
NoEma == buffers /\ ids \in [Model -> {1}]
NoSync == tree = {} /\ prefix = {}
NoWeights == perNode = 1 /\ place = "disk" /\ met /\ given /\ streamer
             /\ readBy = "auto" /\ mounts = {} /\ stored = "none"

Init ==
    /\ part \in Part
    /\ ShardsInit /\ (part # "shards" => NoShards)
    /\ EmaInit /\ (part # "ema" => NoEma)
    /\ PerfInit /\ (part # "perf" => trackIo)
    /\ SyncInit /\ (part # "sync" => NoSync)
    /\ ChunksInit
    /\ WeightsInit /\ (part # "weights" => NoWeights)

Next ==
    /\ UNCHANGED part
    /\ \/ /\ part = "shards" /\ ShardsNext
          /\ UNCHANGED <<emaVars, perfVars, syncVars, chunkVars, weightVars>>
       \/ /\ part = "ema" /\ EmaNext
          /\ UNCHANGED <<shardVars, perfVars, syncVars, chunkVars, weightVars>>
       \/ /\ part = "perf" /\ PerfNext
          /\ UNCHANGED <<shardVars, emaVars, syncVars, chunkVars, weightVars>>
       \/ /\ part = "sync" /\ SyncNext
          /\ UNCHANGED <<shardVars, emaVars, perfVars, chunkVars, weightVars>>
       \/ /\ part = "chunks" /\ ChunksNext
          /\ UNCHANGED <<shardVars, emaVars, perfVars, syncVars, weightVars>>
       \/ /\ part = "weights" /\ WeightsNext
          /\ UNCHANGED <<shardVars, emaVars, perfVars, syncVars, chunkVars>>

Spec == Init /\ [][Next]_<<part, shardVars, emaVars, perfVars, syncVars, chunkVars, weightVars>>

=============================================================================
