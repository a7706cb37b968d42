--------------------------- MODULE ParallelPolicy ---------------------------
(***************************************************************************)
(* How an analysis decides between serial and parallel evaluation:         *)
(* _resolve_parallel_request and _initial_parallel_resolution of           *)
(* analysis.py on the classes, the whitelists and the worker rule of       *)
(* search/auto_parallel_policy.py and execution/worker_policy.py.          *)
(***************************************************************************)
EXTENDS Integers

Modes == {"auto", "serial", "parallel"}

AnalysisMethods == {"bishop_simplified", "spencer"}
GlobalMethods == {"direct_global_circular", "cuckoo_global_circular", "cmaes_global_circular"}
SearchMethods == GlobalMethods \cup {"auto_refine_circular"}

WorkloadClasses == {"small", "medium", "large"}

Least(a, b) == IF a < b THEN a ELSE b
Greatest(a, b) == IF a < b THEN b ELSE a

-----------------------------------------------------------------------------
(* Workers and classes *)

ResolveRequestedWorkers(configured, available) ==
  IF configured = 0 THEN Least(4, available) ELSE Least(Greatest(1, configured), available)

ClassifyBatching(minBatchSize) ==
  IF minBatchSize <= 8 THEN "default_batching" ELSE "restricted_batching"

ClassOf(proxy, smallMax, mediumMax) ==
  IF proxy <= smallMax THEN "small" ELSE IF proxy <= mediumMax THEN "medium" ELSE "large"

\* The evaluations a search configuration is expected to need.
WorkloadProxy(search) ==
  LET c == search.config
  IN CASE search.method = "auto_refine_circular" ->
            c.iterations * ((c.circles_per_division * c.divisions_along_slope
                               * (c.divisions_along_slope - 1)) \div 2)
       [] search.method = "direct_global_circular" ->
            Greatest(c.max_evaluations, c.max_iterations * 15)
       [] search.method = "cuckoo_global_circular" ->
            Least(c.max_evaluations, c.population_size * c.max_iterations)
       [] search.method = "cmaes_global_circular" ->
            Least(c.max_evaluations,
                  c.direct_prescan_evaluations + c.polish_max_evaluations
                    + c.cmaes_population_size * c.cmaes_max_iterations * (c.cmaes_restarts + 1))

ClassifyWorkload(search) ==
  LET proxy == WorkloadProxy(search)
  IN CASE search.method = "auto_refine_circular" -> ClassOf(proxy, 19999, 80000)
       [] search.method = "direct_global_circular" -> ClassOf(proxy, 1500, 3500)
       [] search.method = "cuckoo_global_circular" -> ClassOf(proxy, 2000, 6000)
       [] search.method = "cmaes_global_circular" -> ClassOf(proxy, 2500, 8000)
       [] OTHER -> "unsupported"

\* (search method, analysis method, workload class); the batching class of
\* every entry is default_batching.
Whitelist ==
  {<<"auto_refine_circular", "spencer", "medium">>}
  \cup {"auto_refine_circular", "cmaes_global_circular"} \X AnalysisMethods \X {"large"}

WhitelistNonUniform == SearchMethods \X AnalysisMethods \X WorkloadClasses

ProcessPolicyAllowsParallel(searchMethod, analysisMethod, workload, batching, isNonUniform) ==
  LET key == <<searchMethod, analysisMethod, workload>>
  IN  /\ batching = "default_batching"
      /\ (isNonUniform /\ key \in WhitelistNonUniform) \/ key \in Whitelist

-----------------------------------------------------------------------------
(* The request and its resolution.  A request is a record of the configured *)
(* mode, workers and min_batch_size; an override that is not given is       *)
(* "none" for the mode and -1 for the workers.                              *)

ParallelRequest(configured, forcedMode, forcedWorkers) ==
  [mode |-> IF forcedMode = "none" THEN configured.mode ELSE forcedMode,
   workers |-> IF forcedWorkers = -1 THEN configured.workers ELSE forcedWorkers,
   minBatchSize |-> configured.minBatchSize]

\* Any other request is refused before anything is started.
RequestAccepted(request) == request.mode \in Modes /\ request.workers >= 0

Serial(reason) == [mode |-> "serial", workers |-> 1, reason |-> reason]
Parallel(workers, reason) == [mode |-> "parallel", workers |-> workers, reason |-> reason]

InitialResolution(request, search, analysisMethod, available, isNonUniform) ==
  LET workers == ResolveRequestedWorkers(request.workers, available)
      workload == ClassifyWorkload(search)
      batching == ClassifyBatching(request.minBatchSize)
  IN  IF request.mode = "serial" THEN Serial("forced_serial_mode")
      ELSE IF workers <= 1 THEN Serial("workers_le_one_serial")
      ELSE IF request.mode = "parallel" THEN Parallel(workers, "forced_parallel_mode")
      ELSE IF workload = "unsupported" THEN Serial("unsupported_workload_serial")
      ELSE IF batching # "default_batching" THEN Serial("unsupported_batching_serial")
      ELSE IF ~ProcessPolicyAllowsParallel(search.method, analysisMethod, workload, batching,
                                           isNonUniform)
             THEN Serial("policy_threshold_serial")
      ELSE Parallel(workers, "policy_threshold_parallel")

\* Fault: the fallback reports the resolution it fell back from.
StaleResolution(initial) == initial

ResolutionForStartupFailure(initial) ==
  IF initial.mode = "parallel" THEN Serial("process_backend_startup_failed_serial") ELSE initial

RunParallel(decision) == decision.mode = "parallel" /\ decision.workers > 1
=============================================================================
