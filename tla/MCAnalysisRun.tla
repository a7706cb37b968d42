--------------------------- MODULE MCAnalysisRun ----------------------------
(***************************************************************************)
(* Model checking of AnalysisRun: two keys with surfaces and one without,  *)
(* two workers, and situations that resolve to every decision a project    *)
(* file can lead to, with an override of the workers that is refused.      *)
(***************************************************************************)
EXTENDS AnalysisRun, TLC

CONSTANTS k1, k2, k3, w1, w2

MCNormalize == (k1 :> k1) @@ (k2 :> k2) @@ (k3 :> k3)
MCSurfaceOf == (k1 :> 2) @@ (k2 :> 1) @@ (k3 :> NoSurface)
MCOutcomes ==
  {[kind |-> "result", converged |-> TRUE, momentsUsable |-> TRUE, fos |-> 10],
   [kind |-> "caught", converged |-> FALSE, momentsUsable |-> FALSE, fos |-> 0],
   [kind |-> "raises", converged |-> FALSE, momentsUsable |-> FALSE, fos |-> 0]}

\* A DIRECT search on the boundary of its small class, a CMA-ES search on the
\* boundary of its medium class and one above it.
Direct(n) ==
  [method |-> "direct_global_circular",
   config |-> [max_evaluations |-> n, max_iterations |-> 100]]
Cmaes(n) ==
  [method |-> "cmaes_global_circular",
   config |-> [max_evaluations |-> n, direct_prescan_evaluations |-> 300,
               polish_max_evaluations |-> 80, cmaes_population_size |-> 16,
               cmaes_max_iterations |-> 300, cmaes_restarts |-> 2]]

MCSituations ==
  [configured : [mode : {"auto"}, workers : {0, 1, 8}, minBatchSize : {1, 9}],
   forcedMode : {"none", "serial", "parallel"}, forcedWorkers : {-1, -2},
   search : {Direct(1500), Cmaes(8000), Cmaes(8001)},
   analysisMethod : {"spencer"}, available : {2}, isNonUniform : BOOLEAN]
=============================================================================
