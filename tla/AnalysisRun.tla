---------------------------- MODULE AnalysisRun -----------------------------
(***************************************************************************)
(* run_analysis (analysis.py) for the global searches: it resolves the     *)
(* parallel request, starts the executor or falls back to serial, runs the *)
(* search, leaves the executor and reports.  The module composes           *)
(* ParallelPolicy (the decision), ObjectiveEvaluator (the state a search   *)
(* works on) and SurfacePool (the batch evaluator of a parallel run).      *)
(*                                                                         *)
(* The evaluator has a batch evaluator in a parallel run (Par) and none in *)
(* a serial one (Ser); both are instances on the same variables.  The      *)
(* search strategy is any sequence of calls to the evaluator, at most      *)
(* MaxCalls of them, that then stops.                                      *)
(***************************************************************************)
EXTENDS SurfaceCandidates, ParallelPolicy, Integers, Sequences, FiniteSets

CONSTANTS
  Vectors, Keys, Normalize, Surfaces, SurfaceOf, NoSurface, Outcomes,
  MaxEvaluations, TieTol, MinBatchSize, InvalidGeometryScore,
  InvalidResultScore, ExceptionScore, NotSet, NotCached, NoBest,
  MaxRequest,                       \* as in ObjectiveEvaluator
  Workers, HasTimeout,              \* as in SurfacePool
  Situations,                       \* configurations, overrides and machines
  MaxCalls                          \* bound on the calls of a search

VARIABLES
  solver, cache, total, valid, infeasible, best, phase, request, scanned,
  first, cut, results, merged, returned,            \* the evaluator
  executor, broken, status, job, call, batch, futures, collected, raised,
  answer,                                           \* the pool
  mode,          \* the mode requested
  decision,      \* initial_resolution, then decision
  stage,         \* "resolved", "searching", "leaving", "reported", "failed"
  error,         \* why the search raised; "none" if it did not
  calls          \* how many calls the search has made

Ser == INSTANCE ObjectiveEvaluator WITH HasBatchEvaluator <- FALSE
Par == INSTANCE ObjectiveEvaluator WITH HasBatchEvaluator <- TRUE
Pool == INSTANCE SurfacePool WITH MaxTasks <- MaxRequest

\* The pool may start a process for every worker of the machine.
ASSUME AnalysisAssumption ==
  /\ Par!EvaluatorAssumption /\ Par!NoneAssumption
  /\ Pool!PoolAssumption /\ Pool!WorkersAssumption
  /\ \A s \in Situations :
       /\ s.configured.mode \in Modes /\ s.forcedMode \in Modes \cup {"none"}
       /\ s.configured.workers \in Int /\ s.forcedWorkers \in Int
       /\ s.available = Cardinality(Workers)
  /\ MaxCalls \in Nat

evaluatorVars == <<cache, total, valid, infeasible, best, phase, request,
                   scanned, first, cut, results, merged, returned>>
executorVars == <<executor, broken, status, job, call, batch, futures,
                  collected, raised, answer>>
runVars == <<mode, decision, stage, error, calls>>
vars == <<solver, evaluatorVars, executorVars, runVars>>

Init ==
  /\ Par!Init
  /\ Pool!ProcessInit
  /\ Pool!CallInit
  /\ \E s \in Situations :
       LET asked == ParallelRequest(s.configured, s.forcedMode, s.forcedWorkers)
       IN  /\ RequestAccepted(asked)
           /\ mode = asked.mode
           /\ decision = InitialResolution(asked, s.search, s.analysisMethod,
                                           s.available, s.isNonUniform)
           /\ RunParallel(decision) => asked.minBatchSize = MinBatchSize
  /\ stage = "resolved" /\ error = "none" /\ calls = 0

\* The executor was constructed.
InPool == executor # "none"

-----------------------------------------------------------------------------
(* Starting *)

StartSerial ==
  /\ stage = "resolved" /\ ~RunParallel(decision)
  /\ stage' = "searching"
  /\ UNCHANGED <<solver, evaluatorVars, executorVars, mode, decision, error, calls>>

StartExecutor ==
  /\ stage = "resolved" /\ RunParallel(decision)
  /\ Pool!OpenExecutor
  /\ stage' = "searching"
  /\ UNCHANGED <<evaluatorVars, mode, decision, error, calls>>

\* The constructor of the executor raises OSError.
ExecutorFails ==
  /\ stage = "resolved" /\ RunParallel(decision)
  /\ IF mode = "parallel"
       THEN stage' = "failed" /\ error' = "startup_failed" /\ UNCHANGED decision
       ELSE /\ stage' = "searching" /\ UNCHANGED error
            /\ decision' = ResolutionForStartupFailure(decision)
  /\ UNCHANGED <<solver, evaluatorVars, executorVars, mode, calls>>

-----------------------------------------------------------------------------
(* The search *)

SearchCalls ==
  /\ stage = "searching" /\ calls < MaxCalls
  /\ calls' = calls + 1
  /\ \/ \E v \in Vectors : Par!EvaluateVector(v)
     \/ \E vs \in Par!VectorSeqs : Par!StartBatch(vs)
  /\ UNCHANGED <<executorVars, mode, decision, stage, error>>

\* Steps of a call of the evaluator in this process.
CallProceeds ==
  /\ \/ Par!ScanVector \/ Par!CutBudget \/ Par!MergeResult \/ Par!FinishBatch
     \/ InPool /\ (Par!EvaluateInProcess \/ Par!InProcessRaises)
     \/ ~InPool /\ (Ser!EvaluateInProcess \/ Ser!InProcessRaises)
  /\ UNCHANGED <<executorVars, runVars>>

\* evaluate_surface_candidates_batch calls the executor, unless no key to
\* evaluate has a surface.
BatchIsCalled ==
  /\ InPool /\ phase = "evaluating" /\ Par!UseBatch
  /\ IF Par!SubmittedUpTo(cut) = 0
       THEN Par!BatchReturns(<<>>) /\ UNCHANGED executorVars
       ELSE Pool!BeginCall(Par!SubmittedSurfaces) /\ UNCHANGED evaluatorVars
  /\ UNCHANGED <<solver, runVars>>

PoolWorks ==
  /\ \/ Pool!SubmitTask \/ Pool!CollectResult
     \/ \E w \in Workers : Pool!WorkerRuns(w) \/ Pool!WorkerLost(w)
  /\ UNCHANGED <<evaluatorVars, runVars>>

BatchAnswered ==
  /\ Pool!ReturnAnswer /\ Par!BatchReturns(collected)
  /\ UNCHANGED runVars

BatchRaised ==
  /\ Pool!CallRaises /\ Par!BatchRaises
  /\ UNCHANGED runVars

-----------------------------------------------------------------------------
(* The end of the search *)

\* Fault: an exception of the search is swallowed.
NoError == "none"

\* What leaves the search when a call has raised.
ErrorOfCall == IF raised # "none" THEN raised ELSE "solver_error"

SearchRaises ==
  /\ stage = "searching" /\ phase = "raised"
  /\ stage' = "leaving" /\ error' = ErrorOfCall
  /\ UNCHANGED <<solver, evaluatorVars, executorVars, mode, decision, calls>>

\* The strategy stops; it raises ConvergenceError if it has no valid surface.
SearchEnds ==
  /\ stage = "searching" /\ phase = "idle"
  /\ stage' = "leaving"
  /\ error' = IF best = NoBest THEN "no_valid_surface" ELSE "none"
  /\ UNCHANGED <<solver, evaluatorVars, executorVars, mode, decision, calls>>

\* The with block closes the executor, whatever ended the search.
LeaveExecutor ==
  /\ stage = "leaving"
  /\ Pool!Close
  /\ UNCHANGED <<evaluatorVars, runVars>>

Report ==
  /\ stage = "leaving" /\ executor \in {"none", "closed"}
  /\ stage' = IF error = "none" THEN "reported" ELSE "failed"
  /\ UNCHANGED <<solver, evaluatorVars, executorVars, mode, decision, error, calls>>

SearchProceeds ==
  \/ StartSerial \/ StartExecutor \/ ExecutorFails
  \/ CallProceeds \/ BatchIsCalled \/ BatchAnswered \/ BatchRaised
  \/ SearchRaises \/ SearchEnds \/ LeaveExecutor \/ Report

Next == SearchCalls \/ PoolWorks \/ SearchProceeds

Fairness ==
  /\ WF_vars(SearchProceeds)
  /\ WF_vars(PoolWorks /\ (Pool!SubmitTask \/ Pool!CollectResult))
  /\ \A w \in Workers : WF_vars(PoolWorks /\ Pool!WorkerRuns(w))

Spec == Init /\ [][Next]_vars /\ Fairness

-----------------------------------------------------------------------------
(* Properties *)

RunTypeOK ==
  /\ Par!TypeOK
  /\ Pool!PoolTypeOK
  /\ mode \in Modes
  /\ decision.mode \in {"serial", "parallel"}
  /\ decision.workers \in 1..Cardinality(Workers)
  /\ stage \in {"resolved", "searching", "leaving", "reported", "failed"}
  /\ error \in {"none", "startup_failed", "worker_failed", "timed_out", "no_process",
                "broken_pool", "solver_error", "no_valid_surface"}
  /\ calls \in 0..MaxCalls

Ended == stage \in {"reported", "failed"}

(* When the analysis returns or raises, no worker process and no task is    *)
(* left behind, whatever failed and however late a worker is.               *)
NothingLeftBehind ==
  Ended =>
    /\ executor \in {"none", "closed"}
    /\ Pool!Live = {}
    /\ InPool => Pool!Undone = {}

(* Silent partial continuation is not allowed: a result is reported only if *)
(* every call of the search came back whole, with its counters exact.       *)
NoPartialResult ==
  stage = "reported" =>
    /\ raised = "none" /\ phase = "idle" /\ best # NoBest
    /\ Par!AccountingExact
    /\ \A i \in DOMAIN futures : futures[i] = "finished"

\* The reasons there are for a request of a mode to be served by a backend.
DecisionReasons(requested, parallel) ==
  IF parallel
    THEN {reason \in {"forced_parallel_mode", "policy_threshold_parallel"} :
            /\ requested # "serial"
            /\ reason = "forced_parallel_mode" <=> requested = "parallel"}
    ELSE {reason \in {"forced_serial_mode", "workers_le_one_serial", "unsupported_workload_serial",
                      "unsupported_batching_serial", "policy_threshold_serial",
                      "process_backend_startup_failed_serial"} :
            /\ reason = "forced_serial_mode" <=> requested = "serial"
            /\ requested = "parallel" => reason = "workers_le_one_serial"}

(* The report names the backend that evaluated and why it did: parallel     *)
(* exactly if the executor was started, with a second worker and no more    *)
(* than the machine has, and one worker otherwise, also after the executor  *)
(* failed to start; the reason is one for that mode and that backend.  A    *)
(* forced parallel run is never served serially for want of an executor.    *)
ReportNamesBackend ==
  stage = "reported" =>
    /\ decision.mode = "parallel" <=> InPool
    /\ decision.workers \in (IF InPool THEN 2..Cardinality(Workers) ELSE {1})
    /\ decision.reason \in DecisionReasons(mode, InPool)

(* A parallel run is a run of the evaluator with a batch evaluator that     *)
(* keeps its contract: whatever the workers do, every step is one of the    *)
(* evaluator, and a batch is answered in the order of its surfaces.         *)
ImplementsEvaluator == Par!Init /\ [][Par!Next \/ Ser!Next]_(Par!vars)

(* Every analysis ends: it reports or raises.                               *)
AnalysisEnds == <>Ended
=============================================================================
