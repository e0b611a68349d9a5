-------------------------- MODULE MCBandwidthLimiter --------------------------
(* The parts of the core that stand by themselves, one in each behaviour:    *)
(* the limiter, the statistics and the pools.  The others stay as they begin. *)
EXTENDS BandwidthLimiter, StatisticsCollector, TransferPool, TLC

VARIABLE part

vars == <<part, limiterVars, collectorVars, poolVars>>

LimiterStill   == limit = 0 /\ LimiterInit
PoolStill      == adapter = "async" /\ PoolInit

Init ==
  \/ part = "limiter"   /\ LimiterInit  /\ CollectorInit /\ PoolStill
  \/ part = "collector" /\ LimiterStill /\ CollectorInit /\ PoolStill
  \/ part = "pool"      /\ LimiterStill /\ CollectorInit /\ PoolInit

Next ==
  /\ UNCHANGED part
  /\ \/ part = "limiter"   /\ LimiterNext   /\ UNCHANGED <<collectorVars, poolVars>>
     \/ part = "collector" /\ CollectorNext /\ UNCHANGED <<limiterVars, poolVars>>
     \/ part = "pool"      /\ PoolNext      /\ UNCHANGED <<limiterVars, collectorVars>>

Spec == Init /\ [][Next]_vars

Symmetry == Permutations(Callers)
=============================================================================
