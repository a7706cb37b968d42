----------------------------- MODULE CaseRunner -----------------------------
(***************************************************************************)
(* The two suite runners, `cli verify' (verification/runner.py) and        *)
(* `cli test' (testing/unittest_runner.py), which share one shape: resolve *)
(* the mode, submit every target to a process pool and collect the futures *)
(* in the order of the targets, rerun everything serially if the pool      *)
(* could not start, and let the command (cli.py) turn the outcomes into an *)
(* exit code.                                                              *)
(*                                                                         *)
(* A target is a verification case or a test module, by its position.      *)
(* What running it does is fixed: it passes, fails, or its run raises a    *)
(* RuntimeError (ConvergenceError, say) or another exception.              *)
(***************************************************************************)
EXTENDS ProcessPool, ParallelPolicy

CONSTANTS
  Suites,              \* of {"verify", "test"}
  Behaviours,          \* of {"passes", "fails", "runtime_error", "other_error"}
  MaxTargets,          \* bound on the targets of a suite
  ConfiguredWorkers,   \* the values of --workers, 0 among them
  AvailableWorkers     \* the CPUs there may be

ASSUME RunnerAssumption ==
  /\ Suites \subseteq {"verify", "test"}
  /\ Behaviours \subseteq {"passes", "fails", "runtime_error", "other_error"}
  /\ MaxTargets \in Nat \ {0}
  /\ ConfiguredWorkers \subseteq Nat
  /\ AvailableWorkers \subseteq 1..Cardinality(Workers)

VARIABLES
  suite,
  behaviour,     \* of each target
  discovered,    \* whether discovery found the targets; verify's are built in
  mode,          \* "serial" or "auto_parallel"
  workers,       \* the workers resolved for the request
  decision,      \* execution: resolved mode, workers, reason
  stage,         \* "start", "submitting", "collecting", "leaving", "serial",
                 \* "evaluated", "raised", "exited"
  failure,       \* what the parallel evaluation raised: "none", "startup",
                 \* "worker_failed", "broken_pool"
  outcomes,      \* of the targets evaluated so far: whether each passed
  stdoutClosed,  \* whether the reader of stdout has gone
  exitCode       \* -1 before the command has ended

inputVars == <<suite, behaviour, discovered, mode, workers, stdoutClosed>>
runnerVars == <<inputVars, decision, stage, failure, outcomes, exitCode>>
vars == <<processVars, runnerVars>>

Targets == DOMAIN behaviour
Raising == {i \in Targets : behaviour[i] \in {"runtime_error", "other_error"}}

NoDecision == [mode |-> "none", workers |-> 0, reason |-> "none"]

\* Running a test module is a subprocess: what it raises is no RuntimeError.
SuiteBehaviours == IF suite = "test" THEN Behaviours \ {"runtime_error"} ELSE Behaviours

Init ==
  /\ ProcessInit
  /\ suite \in Suites
  /\ discovered \in IF suite = "test" THEN BOOLEAN ELSE {TRUE}
  /\ behaviour \in IF discovered
                     THEN UNION {[1..n -> SuiteBehaviours] : n \in 1..MaxTargets}
                     ELSE {<<>>}
  /\ mode \in {"serial", "auto_parallel"}
  /\ \E c \in ConfiguredWorkers, a \in AvailableWorkers :
       workers = IF mode = "serial" THEN 1 ELSE ResolveRequestedWorkers(c, a)
  /\ stdoutClosed \in BOOLEAN
  /\ decision = NoDecision /\ stage = "start" /\ failure = "none"
  /\ outcomes = <<>> /\ exitCode = -1

-----------------------------------------------------------------------------
(* Resolving the mode *)

\* An exception of the loader, or no target found: the run has an error and no target.
DiscoveryFails ==
  /\ stage = "start" /\ ~discovered
  /\ \E reason \in {"discovery_error_serial", "no_test_targets_discovered"} :
       decision' = Serial(reason)
  /\ stage' = "evaluated"
  /\ UNCHANGED <<processVars, inputVars, failure, outcomes, exitCode>>

ResolveSerial ==
  /\ stage = "start" /\ discovered
  /\ \/ mode = "serial" /\ decision' = Serial("forced_serial_mode")
     \/ /\ mode = "auto_parallel" /\ workers <= 1
        /\ decision' = Serial("workers_le_one_serial")
  /\ stage' = "serial"
  /\ UNCHANGED <<processVars, inputVars, failure, outcomes, exitCode>>

ResolveParallel ==
  /\ stage = "start" /\ discovered /\ mode = "auto_parallel" /\ workers > 1
  /\ Construct
  /\ decision' = Parallel(workers, "process_backend_parallel")
  /\ stage' = "submitting"
  /\ UNCHANGED <<inputVars, failure, outcomes, exitCode>>

\* The constructor of the pool raises OSError.
PoolFails ==
  /\ stage = "start" /\ discovered /\ mode = "auto_parallel" /\ workers > 1
  /\ decision' = Serial("thread_backend_default_serial")
  /\ stage' = "serial"
  /\ UNCHANGED <<processVars, inputVars, failure, outcomes, exitCode>>

-----------------------------------------------------------------------------
(* The parallel evaluation *)

SubmitTarget ==
  /\ stage = "submitting" /\ Len(futures) < Len(behaviour)
  /\ Submit
  /\ stage' = IF Len(futures) + 1 = Len(behaviour) THEN "collecting" ELSE stage
  /\ UNCHANGED <<inputVars, decision, failure, outcomes, exitCode>>

SubmitRaises ==
  /\ stage = "submitting"
  /\ \/ SubmitWithoutProcess /\ failure' = "startup"
     \/ SubmitWhenBroken /\ failure' = "broken_pool"
  /\ stage' = "leaving"
  /\ UNCHANGED <<inputVars, decision, outcomes, exitCode>>

\* Fault: outcomes are taken as the futures complete.
AnyFinished == {i \in DOMAIN futures : futures[i] = "finished"}

Awaited == {Len(outcomes) + 1} \cap DOMAIN futures

CollectOutcome ==
  /\ stage = "collecting"
  /\ \E i \in Awaited \ Raising :
       /\ futures[i] = "finished"
       /\ outcomes' = Append(outcomes, [target |-> i, passed |-> behaviour[i] = "passes"])
  /\ UNCHANGED <<processVars, inputVars, decision, stage, failure, exitCode>>

\* Fault: the death of a worker goes unnoticed while its target is awaited.
CollectRaised ==
  /\ stage = "collecting"
  /\ \E i \in Awaited : futures[i] = "finished" /\ i \in Raising
  /\ failure' = "worker_failed" /\ stage' = "leaving"
  /\ UNCHANGED <<processVars, inputVars, decision, outcomes, exitCode>>

CollectFailure ==
  /\ stage = "collecting"
  /\ \E i \in Awaited : futures[i] = "failed" \/ (futures[i] = "finished" /\ i \in Raising)
  /\ failure' = "worker_failed" /\ stage' = "leaving"
  /\ UNCHANGED <<processVars, inputVars, decision, outcomes, exitCode>>

AllCollected ==
  /\ stage = "collecting" /\ Len(outcomes) = Len(behaviour)
  /\ stage' = "leaving"
  /\ UNCHANGED <<processVars, inputVars, decision, failure, outcomes, exitCode>>

\* The with block is left: the pool cancels nothing and waits.
LeavePool ==
  /\ stage = "leaving"
  /\ BeginShutdown(FALSE) \/ EndShutdown(TRUE)
  /\ UNCHANGED runnerVars

\* After a startup failure everything is evaluated again, serially.
PoolLeft ==
  /\ stage = "leaving" /\ executor = "closed"
  /\ IF failure = "startup"
       THEN /\ stage' = "serial" /\ outcomes' = <<>>
            /\ decision' = Serial("thread_backend_default_serial")
       ELSE /\ stage' = IF failure = "none" THEN "evaluated" ELSE "raised"
            /\ UNCHANGED <<outcomes, decision>>
  /\ UNCHANGED <<processVars, inputVars, failure, exitCode>>

WorkerStep ==
  /\ \E w \in Workers : TakeTask(w) \/ FinishTask(w) \/ WorkerDies(w)
  /\ UNCHANGED runnerVars

-----------------------------------------------------------------------------
(* The serial evaluation *)

NextTarget == Len(outcomes) + 1

RunSerially ==
  /\ stage = "serial" /\ NextTarget \in Targets \ Raising
  /\ outcomes' = Append(outcomes, [target |-> NextTarget,
                                   passed |-> behaviour[NextTarget] = "passes"])
  /\ UNCHANGED <<processVars, inputVars, decision, stage, failure, exitCode>>

SerialRaises ==
  /\ stage = "serial" /\ NextTarget \in Raising
  /\ failure' = behaviour[NextTarget] /\ stage' = "raised"
  /\ UNCHANGED <<processVars, inputVars, decision, outcomes, exitCode>>

SerialDone ==
  /\ stage = "serial" /\ Len(outcomes) = Len(behaviour)
  /\ stage' = "evaluated"
  /\ UNCHANGED <<processVars, inputVars, decision, failure, outcomes, exitCode>>

-----------------------------------------------------------------------------
(* The command *)

FailureCode == IF suite = "verify" THEN 2 ELSE 1

\* Fault: a run without targets passes.
AllOf == \A i \in DOMAIN outcomes : outcomes[i].passed

AllPassed ==
  /\ discovered
  /\ suite = "test" => outcomes # <<>>
  /\ \A i \in DOMAIN outcomes : outcomes[i].passed

\* Output to a closed stdout ends the command with 0.
ExitWithSummary ==
  /\ stage = "evaluated"
  /\ stage' = "exited"
  /\ exitCode' = IF stdoutClosed \/ AllPassed THEN 0 ELSE FailureCode
  /\ UNCHANGED <<processVars, inputVars, decision, failure, outcomes>>

\* A RuntimeError becomes a summary of its own, whatever stdout does; other
\* exceptions end the interpreter with a traceback and 1.
ExitWithFailure ==
  /\ stage = "raised"
  /\ stage' = "exited"
  /\ exitCode' = IF failure = "other_error" THEN 1 ELSE FailureCode
  /\ UNCHANGED <<processVars, inputVars, decision, failure, outcomes>>

RunnerStep ==
  \/ DiscoveryFails \/ ResolveSerial \/ ResolveParallel \/ PoolFails
  \/ SubmitTarget \/ SubmitRaises \/ CollectOutcome \/ CollectFailure \/ AllCollected
  \/ LeavePool \/ PoolLeft
  \/ RunSerially \/ SerialRaises \/ SerialDone
  \/ ExitWithSummary \/ ExitWithFailure

Next == RunnerStep \/ WorkerStep

\* The runner's process runs, and every target a worker takes ends: the cases
\* are bounded computations, the test modules end by themselves.
Fairness ==
  /\ WF_vars(RunnerStep)
  /\ \A w \in Workers : WF_vars((TakeTask(w) \/ FinishTask(w)) /\ UNCHANGED runnerVars)

Spec == Init /\ [][Next]_vars /\ Fairness

-----------------------------------------------------------------------------
(* Properties *)

RunnerTypeOK ==
  /\ ProcessTypeOK
  /\ suite \in Suites /\ discovered \in BOOLEAN /\ stdoutClosed \in BOOLEAN
  /\ behaviour \in Seq(Behaviours)
  /\ mode \in {"serial", "auto_parallel"}
  /\ workers \in 1..Cardinality(Workers)
  /\ decision.mode \in {"none", "serial", "parallel"} /\ decision.workers <= workers
  /\ stage \in {"start", "submitting", "collecting", "leaving", "serial",
                "evaluated", "raised", "exited"}
  /\ failure \in {"none", "startup", "worker_failed", "broken_pool",
                  "runtime_error", "other_error"}
  /\ outcomes \in Seq([target : Nat, passed : BOOLEAN])
  /\ exitCode \in {-1, 0, 1, 2}

(* The serial rerun never overlaps the workers: a test module is never run  *)
(* twice at the same time, and nothing runs once the command has ended.     *)
RerunDoesNotOverlap ==
  stage \in {"serial", "evaluated", "raised", "exited"} => Busy = {} /\ Undone = {}

(* Outcomes are in definition order, complete and each its target's own,    *)
(* in whatever order the workers finish and whether or not a started pool   *)
(* was given up for the serial rerun, in which no target is run while a     *)
(* worker may still be running it; a target whose run raised is a hard      *)
(* failure and never an outcome.                                            *)
OutcomesInOrder ==
  /\ RerunDoesNotOverlap
  /\ stage = "evaluated" =>
       /\ outcomes = [i \in Targets |-> [target |-> i, passed |-> behaviour[i] = "passes"]]
       /\ Raising = {}

(* Exit code 0 with a reader on stdout means that every target passed, and  *)
(* any other code that one did not pass, that discovery failed or that the  *)
(* pool was lost.                                                           *)
ExitCodeHonest ==
  stage = "exited" /\ ~stdoutClosed =>
    IF exitCode = 0
      THEN Targets # {} /\ \A i \in Targets : behaviour[i] = "passes"
      ELSE broken \/ Targets = {} \/ \E i \in Targets : behaviour[i] # "passes"

(* Every command ends. *)
CommandEnds == <>(stage = "exited")
=============================================================================
