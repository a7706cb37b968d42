---------------------------- MODULE SurfacePool -----------------------------
(***************************************************************************)
(* ParallelSurfaceExecutor (search/parallel_executor.py) on its process    *)
(* pool: evaluate_surfaces submits one task for each surface and collects  *)
(* the futures in the order submitted, while the workers run the tasks;    *)
(* close cancels the tasks the pool has not handed out yet and waits for   *)
(* the others.                                                             *)
(***************************************************************************)
EXTENDS SurfaceCandidates, ProcessPool

CONSTANTS
  Surfaces,      \* the surfaces a call may carry
  Outcomes,      \* what the solver may do with a surface
  HasTimeout,    \* whether timeout_seconds is set
  MaxTasks       \* bound on the surfaces of one call

ASSUME PoolAssumption ==
  /\ Outcomes \subseteq OutcomeType
  /\ HasTimeout \in BOOLEAN
  /\ MaxTasks \in Nat \ {0}

VARIABLES
  solver,        \* what the solver does with each surface, in every worker
  call,          \* evaluate_surfaces: "idle", "submitting", "collecting"
  batch,         \* its surfaces
  collected,     \* the candidates of the futures collected so far
  raised,        \* what the call raised: "none", or "worker_failed" and
                 \* "timed_out" (both ParallelExecutionError), "no_process"
                 \* (OSError of a submit), "broken_pool" (of a submit)
  answer         \* what the last call that returned returned

callVars == <<call, batch, collected, raised, answer>>
poolVars == <<solver, processVars, callVars>>

CallInit ==
  /\ call = "idle" /\ batch = <<>> /\ collected = <<>>
  /\ raised = "none" /\ answer = <<>>

\* ParallelSurfaceExecutor.__init__ constructs the pool.
PoolInit ==
  /\ solver \in [Surfaces -> Outcomes]
  /\ ProcessInit
  /\ CallInit

OpenExecutor ==
  /\ Construct
  /\ UNCHANGED <<solver, callVars>>

\* The worker's solve raises what _evaluate_surface_task does not catch.
SolveRaises(i) == solver[batch[i]].kind = "raises"

-----------------------------------------------------------------------------
(* evaluate_surfaces, in the process of the search *)

BeginCall(surfaces) ==
  /\ call = "idle" /\ executor = "open" /\ raised = "none"
  /\ call' = "submitting"
  /\ batch' = surfaces /\ futures' = <<>> /\ collected' = <<>>
  /\ UNCHANGED <<solver, executor, broken, status, job, raised, answer>>

SubmitTask ==
  /\ call = "submitting" /\ Len(futures) < Len(batch)
  /\ Submit
  /\ call' = IF Len(futures) + 1 = Len(batch) THEN "collecting" ELSE call
  /\ UNCHANGED <<solver, batch, collected, raised, answer>>

SubmitRaises ==
  /\ call = "submitting"
  /\ \/ SubmitWithoutProcess /\ raised' = "no_process"
     \/ SubmitWhenBroken /\ raised' = "broken_pool"
  /\ call' = "idle"
  /\ UNCHANGED <<solver, batch, collected, answer>>

\* Fault: futures are collected as they complete.
AnyFinished == {i \in DOMAIN futures : futures[i] = "finished"}

\* The future the loop waits for.
Awaited == {Len(collected) + 1} \cap DOMAIN futures

CollectResult ==
  /\ call = "collecting"
  /\ \E i \in Awaited :
       /\ futures[i] = "finished" /\ ~SolveRaises(i)
       /\ collected' = Append(collected, CandidateOf(solver[batch[i]]))
  /\ UNCHANGED <<solver, processVars, call, batch, raised, answer>>

\* Fault: the death of a worker goes unnoticed while its task is awaited.
CollectSolveError ==
  /\ call = "collecting"
  /\ \E i \in Awaited : futures[i] = "finished" /\ SolveRaises(i)
  /\ raised' = "worker_failed" /\ call' = "idle"
  /\ UNCHANGED <<solver, processVars, batch, collected, answer>>

\* future.result raises: the task failed with its worker, or its solve raised.
CollectFailure ==
  /\ call = "collecting"
  /\ \E i \in Awaited :
       futures[i] = "failed" \/ (futures[i] = "finished" /\ SolveRaises(i))
  /\ raised' = "worker_failed" /\ call' = "idle"
  /\ UNCHANGED <<solver, processVars, batch, collected, answer>>

CollectTimesOut ==
  /\ HasTimeout
  /\ call = "collecting"
  /\ Awaited \cap Undone # {}
  /\ raised' = "timed_out" /\ call' = "idle"
  /\ UNCHANGED <<solver, processVars, batch, collected, answer>>

CallRaises == SubmitRaises \/ CollectFailure \/ CollectTimesOut

ReturnAnswer ==
  /\ call = "collecting" /\ Len(collected) = Len(batch)
  /\ answer' = collected /\ call' = "idle"
  /\ UNCHANGED <<solver, processVars, batch, collected, raised>>

-----------------------------------------------------------------------------
(* close, between calls; and the workers *)

\* Fault: shutdown(wait=False).
CloseAtOnce == FALSE

CloseWaits == TRUE

Close ==
  /\ call = "idle"
  /\ BeginShutdown(TRUE) \/ EndShutdown(CloseWaits)
  /\ UNCHANGED <<solver, callVars>>

WorkerRuns(w) ==
  /\ TakeTask(w) \/ FinishTask(w)
  /\ UNCHANGED <<solver, callVars>>

WorkerLost(w) ==
  /\ WorkerDies(w)
  /\ UNCHANGED <<solver, callVars>>

-----------------------------------------------------------------------------
SurfaceSeqs == UNION {[1..n -> Surfaces] : n \in 1..MaxTasks}

CallStep == SubmitTask \/ CollectResult \/ CallRaises \/ ReturnAnswer

PoolNext ==
  \/ OpenExecutor
  \/ \E surfaces \in SurfaceSeqs : BeginCall(surfaces)
  \/ CallStep
  \/ Close
  \/ \E w \in Workers : WorkerRuns(w) \/ WorkerLost(w)

\* The search's process runs; a worker takes tasks and its solve, whose loops
\* are all bounded, ends; an exception leaves the with block, which closes.
PoolFairness ==
  /\ WF_poolVars(CallStep)
  /\ WF_poolVars((raised # "none" \/ executor = "closing") /\ Close)
  /\ \A w \in Workers : WF_poolVars(WorkerRuns(w))

PoolSpec == PoolInit /\ [][PoolNext]_poolVars /\ PoolFairness

-----------------------------------------------------------------------------
(* Properties *)

PoolTypeOK ==
  /\ solver \in [Surfaces -> Outcomes]
  /\ ProcessTypeOK
  /\ call \in {"idle", "submitting", "collecting"}
  /\ batch \in Seq(Surfaces)
  /\ collected \in Seq(Candidates)
  /\ raised \in {"none", "worker_failed", "timed_out", "no_process", "broken_pool"}
  /\ answer \in Seq(Candidates)

(* The busy workers and the running tasks are matched one to one, and every *)
(* task is one the call submitted.                                          *)
OneWorkerPerTask ==
  /\ Len(futures) <= Len(batch)
  /\ \A w \in Workers :
       IF w \in Busy
         THEN job[w] \in DOMAIN futures /\ futures[job[w]] = "running"
         ELSE job[w] = 0
  /\ \A i \in DOMAIN futures :
       futures[i] = "running" => \E w \in Workers : job[w] = i
  /\ \A v, w \in Busy : job[v] = job[w] => v = w

(* Nothing runs behind the search's back: between two calls that returned,  *)
(* and once the executor is closed, no task is pending or running and no    *)
(* worker is busy.  After a timeout the late worker still runs, and close   *)
(* waits for it.                                                            *)
QuietBetweenCalls ==
  \/ executor = "closed"
  \/ call = "idle" /\ raised = "none"
  => Undone = {} /\ Busy = {}

(* A failure is deterministic: as long as no worker has died, the task that *)
(* fails a call is the first one whose solve raises, whatever order the     *)
(* workers finish in (explicit errors name the task they failed on).        *)
FailureDeterministic ==
  raised = "worker_failed" /\ ~broken =>
    /\ SolveRaises(Len(collected) + 1)
    /\ \A i \in 1..Len(collected) : ~SolveRaises(i)

(* The pool is a batch service: however its workers are scheduled, a call   *)
(* returns the candidates of its surfaces in their order or raises, it does *)
(* not wait for ever, no call is answered after one has raised, and the     *)
(* executor comes to rest when it is left.                                  *)
Service == INSTANCE BatchService WITH
  Requests <- SurfaceSeqs, Solvers <- [Surfaces -> Outcomes],
  request <- batch,
  state <- IF executor = "closed" THEN "closed"
           ELSE IF executor = "closing" \/ raised # "none" THEN "draining"
           ELSE IF call = "idle" THEN "ready" ELSE "serving"

ImplementsBatchService == Service!ServiceSpec
=============================================================================
