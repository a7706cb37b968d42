--------------------------- MODULE CaseRunnerProofs ---------------------------
(***************************************************************************)
(* Proofs about CaseRunner, for every suite, every number of targets and   *)
(* of workers, and every schedule.                                         *)
(***************************************************************************)
EXTENDS CaseRunner, ProcessPoolProofs, FiniteSetTheorems

\* What a target's outcome is.
OutcomeOf(i) == [target |-> i, passed |-> behaviour[i] = "passes"]

\* The inputs, and what main() has resolved and raised so far.
InputsSound ==
  /\ suite \in Suites /\ discovered \in BOOLEAN /\ stdoutClosed \in BOOLEAN
  /\ behaviour \in Seq(Behaviours) /\ (discovered <=> Targets # {})
  /\ mode \in {"serial", "auto_parallel"} /\ workers \in 1..Cardinality(Workers)

StateSound ==
  /\ decision.mode \in {"none", "serial", "parallel"}
  /\ decision.workers \in Int /\ decision.workers <= workers
  /\ stage \in {"start", "submitting", "collecting", "leaving", "serial",
                "evaluated", "raised", "exited"}
  /\ failure \in {"none", "startup", "worker_failed", "broken_pool",
                  "runtime_error", "other_error"}
  /\ exitCode \in {-1, 0, 1, 2}

\* Where the pool is at each stage.
StageSound ==
  /\ stage = "start" => executor = "none" /\ futures = <<>> /\ outcomes = <<>>
  /\ stage \in {"submitting", "collecting"} => executor = "open"
  /\ stage \in {"start", "submitting", "collecting"} => failure = "none"
  /\ stage \in {"start", "serial", "evaluated", "raised", "exited"} =>
        Quiet /\ executor \in {"none", "closed"}
  /\ stage = "leaving" => executor \in {"open", "closing", "closed"}
  /\ executor = "closed" => Quiet
  /\ Len(futures) <= Len(behaviour)
  /\ stage = "submitting" => Len(futures) < Len(behaviour) /\ outcomes = <<>>
  /\ stage = "collecting" => Len(futures) = Len(behaviour)

\* The outcomes are those of the first targets.
OutcomesSound ==
  /\ outcomes \in Seq([target : Nat, passed : BOOLEAN])
  /\ Len(outcomes) <= Len(behaviour)
  /\ \A i \in 1..Len(outcomes) : outcomes[i] = OutcomeOf(i) /\ i \notin Raising
  /\ stage = "collecting" => \A i \in 1..Len(outcomes) : futures[i] = "finished"
  /\ \/ stage = "leaving" /\ failure = "none"
     \/ stage = "evaluated"
     => Len(outcomes) = Len(behaviour)

\* What is raised has a cause.
FailureSound ==
  /\ failure \in {"worker_failed", "broken_pool", "runtime_error", "other_error"} =>
        broken \/ Raising # {}
  /\ stage = "raised" => failure \notin {"none", "startup"}

RunnerInv ==
  /\ PoolShape /\ InputsSound /\ StateSound /\ StageSound /\ OutcomesSound /\ FailureSound
  /\ ExitCodeHonest

-----------------------------------------------------------------------------
LEMMA InitialRunner == Init => RunnerInv
<1> SUFFICES ASSUME Init PROVE RunnerInv
  OBVIOUS
<1>1. PoolShape /\ Quiet /\ futures = <<>> /\ executor = "none"
  BY InitialShape DEF Init, ProcessInit
<1>2. InputsSound
  <2>1. Cardinality(Workers) \in Nat /\ Cardinality(Workers) # 0
    BY WorkersAssumption, FS_CardinalityType, FS_EmptySet
  <2>2. workers \in 1..Cardinality(Workers)
    <3>1. PICK c \in ConfiguredWorkers, a \in AvailableWorkers :
            workers = IF mode = "serial" THEN 1 ELSE ResolveRequestedWorkers(c, a)
      BY DEF Init
    <3>2. c \in Nat /\ a \in 1..Cardinality(Workers)
      BY RunnerAssumption
    <3>3. ResolveRequestedWorkers(c, a) \in 1..Cardinality(Workers)
      BY <2>1, <3>2 DEF ResolveRequestedWorkers, Least, Greatest
    <3>4. QED BY <2>1, <3>1, <3>3
  <2>3. behaviour \in Seq(Behaviours) /\ discovered \in BOOLEAN /\ (discovered <=> Targets # {})
    <3>1. CASE discovered
      <4>1. PICK n \in 1..MaxTargets : behaviour \in [1..n -> SuiteBehaviours]
        BY <3>1 DEF Init
      <4>2. n \in Nat \ {0} /\ SuiteBehaviours \subseteq Behaviours
        BY RunnerAssumption DEF SuiteBehaviours
      <4>3. 1 \in DOMAIN behaviour /\ behaviour \in [1..n -> Behaviours]
        BY <4>1, <4>2
      <4>4. discovered \in BOOLEAN
        BY DEF Init
      <4>5. QED BY <3>1, <4>2, <4>3, <4>4 DEF Targets
    <3>2. CASE ~discovered
      <4>1. behaviour = <<>> /\ discovered \in BOOLEAN
        BY <3>2 DEF Init
      <4>2. QED BY <3>2, <4>1 DEF Targets
    <3>3. QED BY <3>1, <3>2
  <2>4. QED BY <2>2, <2>3 DEF Init, InputsSound
<1>3. StateSound
  BY <1>2 DEF Init, StateSound, NoDecision, InputsSound
<1>4. Len(behaviour) \in Nat
  BY <1>2 DEF InputsSound
<1>5. StageSound /\ OutcomesSound /\ FailureSound /\ ExitCodeHonest
  BY <1>1, <1>4 DEF Init, StageSound, OutcomesSound, FailureSound, ExitCodeHonest, Quiet
<1>6. QED BY <1>1, <1>2, <1>3, <1>5 DEF RunnerInv

LEMMA InputsKept ==
  ASSUME RunnerInv, [Next]_vars
  PROVE  InputsSound' /\ UNCHANGED inputVars /\ Raising' = Raising /\ Targets' = Targets
           /\ \A i : OutcomeOf(i)' = OutcomeOf(i)
<1>1. UNCHANGED inputVars
  BY DEF Next, RunnerStep, WorkerStep, DiscoveryFails, ResolveSerial, ResolveParallel, PoolFails,
         SubmitTarget, SubmitRaises, CollectOutcome, CollectFailure, AllCollected, LeavePool,
         PoolLeft, RunSerially, SerialRaises, SerialDone, ExitWithSummary, ExitWithFailure,
         vars, runnerVars
<1>2. QED BY <1>1 DEF inputVars, RunnerInv, InputsSound, Raising, Targets, OutcomeOf

\* What the next target yields extends the outcomes.
LEMMA OutcomeAdded ==
  ASSUME RunnerInv, NEW i \in Targets \ Raising, i = Len(outcomes) + 1,
         outcomes' = Append(outcomes, OutcomeOf(i)), UNCHANGED inputVars
  PROVE  /\ outcomes' \in Seq([target : Nat, passed : BOOLEAN])
         /\ Len(outcomes') = i /\ Len(outcomes') <= Len(behaviour)
         /\ \A k \in 1..Len(outcomes') : outcomes'[k] = OutcomeOf(k) /\ k \notin Raising
<1>1. behaviour \in Seq(Behaviours) /\ outcomes \in Seq([target : Nat, passed : BOOLEAN])
  BY DEF RunnerInv, InputsSound, OutcomesSound
<1>2. OutcomeOf(i) \in [target : Nat, passed : BOOLEAN] /\ i <= Len(behaviour)
  BY <1>1 DEF OutcomeOf, Targets
<1>3. Len(outcomes') = i /\ outcomes'[i] = OutcomeOf(i)
        /\ \A k \in 1..Len(outcomes) : outcomes'[k] = outcomes[k]
        /\ 1..Len(outcomes') = 1..Len(outcomes) \cup {i}
  BY <1>1, <1>2
<1>4. \A k \in 1..Len(outcomes) : outcomes[k] = OutcomeOf(k) /\ k \notin Raising
  BY DEF RunnerInv, OutcomesSound
<1>5. QED BY <1>1, <1>2, <1>3, <1>4

\* A step of the command that leaves the outcomes, or drops them.
LEMMA OutcomesLeft ==
  ASSUME RunnerInv, UNCHANGED inputVars, outcomes' = outcomes \/ outcomes' = <<>>,
         stage' # "collecting" \/ (stage = "collecting" /\ outcomes' = outcomes /\ Stands)
                               \/ outcomes' = <<>>,
         \/ stage' = "leaving" /\ failure' = "none"
         \/ stage' = "evaluated"
         => Len(outcomes') = Len(behaviour)
  PROVE  OutcomesSound'
<1>1. Raising' = Raising /\ \A k : OutcomeOf(k)' = OutcomeOf(k)
  BY DEF inputVars, Raising, Targets, OutcomeOf
<1>2. behaviour' = behaviour /\ Len(behaviour) \in Nat
  BY DEF inputVars, RunnerInv, InputsSound
<1>3. OutcomesSound
  BY DEF RunnerInv
<1>4. CASE outcomes' = outcomes
  <2>1. /\ outcomes' \in Seq([target : Nat, passed : BOOLEAN]) /\ Len(outcomes') <= Len(behaviour)
        /\ \A i \in 1..Len(outcomes) : outcomes[i] = OutcomeOf(i) /\ i \notin Raising
    BY <1>3, <1>4 DEF OutcomesSound
  <2>2. ASSUME stage' = "collecting", outcomes # <<>>, NEW i \in 1..Len(outcomes)
        PROVE  futures'[i] = "finished"
    <3>1. stage = "collecting" /\ Stands
      BY <1>4, <2>2
    <3>2. i \in DOMAIN futures /\ futures[i] = "finished"
      BY <1>2, <1>3, <2>1, <2>2, <3>1, Indices
         DEF RunnerInv, StageSound, PoolShape, OutcomesSound
    <3>3. QED BY <3>1, <3>2 DEF Stands
  <2>3. stage' = "collecting" => \A i \in 1..Len(outcomes') : futures'[i] = "finished"
    BY <1>4, <2>2
  <2>4. QED BY <1>1, <1>2, <1>4, <2>1, <2>3 DEF OutcomesSound
<1>5. CASE outcomes' = <<>>
  BY <1>1, <1>2, <1>5 DEF OutcomesSound
<1>6. QED BY <1>4, <1>5

\* The exit code stands, for what it rests on does.
LEMMA ExitCodeStands ==
  ASSUME RunnerInv, UNCHANGED inputVars, broken => broken',
         stage' # "exited" \/ (stage = "exited" /\ UNCHANGED exitCode)
  PROVE  ExitCodeHonest'
BY DEF RunnerInv, ExitCodeHonest, inputVars, Targets

-----------------------------------------------------------------------------
\* The pool moves by itself, whatever the command does.
LEMMA RunnerWorker ==
  ASSUME RunnerInv, [Next]_vars, WorkerStep
  PROVE  RunnerInv'
<1>1. WorkerMoves /\ UNCHANGED runnerVars
  BY DEF WorkerStep, WorkerMoves
<1>2. PoolShape
  BY DEF RunnerInv
<1>3. PoolShape' /\ Len(futures') = Len(futures) /\ Stands /\ UNCHANGED executor
        /\ (Quiet => Quiet') /\ (broken => broken')
  BY <1>1, <1>2, ShapeWorker
<1>4. futures = <<>> => futures' = <<>>
  BY <1>3 DEF PoolShape, ProcessTypeOK
<1>5. StageSound'
  BY <1>1, <1>3, <1>4 DEF RunnerInv, StageSound, runnerVars, inputVars
<1>6. StateSound' /\ FailureSound'
  BY <1>1, <1>3, InputsKept DEF RunnerInv, StateSound, FailureSound, runnerVars, inputVars
<1>7. OutcomesSound'
  BY <1>1, <1>3, OutcomesLeft DEF RunnerInv, OutcomesSound, runnerVars
<1>8. ExitCodeHonest'
  BY <1>1, <1>3, ExitCodeStands DEF runnerVars
<1>9. QED BY <1>3, <1>5, <1>6, <1>7, <1>8, InputsKept DEF RunnerInv

LEMMA RunnerResolve ==
  ASSUME RunnerInv, [Next]_vars,
         DiscoveryFails \/ ResolveSerial \/ ResolveParallel \/ PoolFails
  PROVE  RunnerInv'
<1>1. /\ PoolShape /\ InputsSound /\ StateSound /\ StageSound /\ FailureSound
      /\ stage = "start" /\ UNCHANGED <<failure, outcomes, exitCode, broken, status, job, futures>>
      /\ UNCHANGED inputVars /\ Raising' = Raising /\ InputsSound'
  BY InputsKept DEF RunnerInv, DiscoveryFails, ResolveSerial, ResolveParallel, PoolFails,
                    Construct, processVars
<1>2. executor = "none" /\ futures = <<>> /\ outcomes = <<>> /\ failure = "none" /\ Quiet
  BY <1>1 DEF StageSound
<1>3. behaviour' = behaviour /\ workers' = workers /\ workers \in Int /\ workers >= 1
        /\ Len(behaviour) \in Nat /\ (discovered => Len(behaviour) > 0)
        /\ (~discovered => Len(behaviour) = 0)
  <2>1. workers \in 1..Cardinality(Workers) /\ Cardinality(Workers) \in Nat
    BY <1>1, WorkersAssumption, FS_CardinalityType DEF InputsSound
  <2>2. behaviour \in Seq(Behaviours) /\ (discovered <=> DOMAIN behaviour # {})
    BY <1>1 DEF InputsSound, Targets
  <2>3. Len(behaviour) \in Nat /\ (discovered <=> Len(behaviour) # 0)
    BY <2>2
  <2>4. behaviour' = behaviour /\ workers' = workers
    BY <1>1 DEF inputVars
  <2>5. QED BY <2>1, <2>3, <2>4
<1>4. executor' = (IF ResolveParallel THEN "open" ELSE executor)
  BY DEF DiscoveryFails, ResolveSerial, ResolveParallel, PoolFails, Construct, processVars
<1>5. PoolShape' /\ Quiet'
  BY <1>1, <1>2, <1>4, ShapeUnchanged
<1>6. StateSound'
  BY <1>1, <1>3 DEF StateSound, DiscoveryFails, ResolveSerial, ResolveParallel, PoolFails,
                    Serial, Parallel
<1>7. StageSound'
  BY <1>1, <1>2, <1>3, <1>4, <1>5
     DEF StageSound, DiscoveryFails, ResolveSerial, ResolveParallel, PoolFails
<1>8. stage' \in {"evaluated", "serial", "submitting"} /\ (stage' = "evaluated" => ~discovered)
  BY DEF DiscoveryFails, ResolveSerial, ResolveParallel, PoolFails
<1>9. OutcomesSound'
  BY <1>1, <1>2, <1>3, <1>8, OutcomesLeft
<1>10. FailureSound' /\ ExitCodeHonest'
  BY <1>1, <1>2, <1>8 DEF FailureSound, ExitCodeHonest
<1>11. QED BY <1>1, <1>5, <1>6, <1>7, <1>9, <1>10 DEF RunnerInv

LEMMA RunnerSubmit ==
  ASSUME RunnerInv, [Next]_vars, SubmitTarget \/ SubmitRaises
  PROVE  RunnerInv'
<1>1. /\ PoolShape /\ StateSound /\ StageSound /\ FailureSound /\ stage = "submitting"
      /\ UNCHANGED <<decision, outcomes, exitCode, broken, executor>>
      /\ UNCHANGED inputVars /\ Raising' = Raising /\ InputsSound /\ InputsSound'
  BY InputsKept DEF RunnerInv, SubmitTarget, SubmitRaises, Submit, SubmitWithoutProcess,
                    SubmitWhenBroken, processVars
<1>2. /\ executor = "open" /\ outcomes = <<>> /\ failure = "none"
      /\ Len(futures) < Len(behaviour) /\ Len(futures) \in Nat /\ Len(behaviour) \in Nat
      /\ behaviour' = behaviour
  BY <1>1, Indices DEF StageSound, PoolShape, InputsSound, inputVars
<1>3. stage' # "exited" /\ ExitCodeHonest'
  BY <1>1, ExitCodeStands DEF SubmitTarget, SubmitRaises
<1>4. CASE SubmitTarget
  <2>1. PoolShape' /\ Len(futures') = Len(futures) + 1
    BY <1>1, <1>4, ShapeSubmit DEF SubmitTarget
  <2>2. stage' \in {"submitting", "collecting"} /\ UNCHANGED failure
          /\ (stage' = "collecting" <=> Len(futures) + 1 = Len(behaviour))
    BY <1>1, <1>4 DEF SubmitTarget
  <2>3. StateSound' /\ StageSound' /\ FailureSound'
    BY <1>1, <1>2, <2>1, <2>2 DEF StateSound, StageSound, FailureSound, inputVars
  <2>4. OutcomesSound'
    BY <1>1, <1>2, <2>2, OutcomesLeft
  <2>5. QED BY <1>1, <1>3, <2>1, <2>3, <2>4 DEF RunnerInv
<1>5. CASE SubmitRaises
  <2>1. /\ stage' = "leaving" /\ failure' \in {"startup", "broken_pool"}
        /\ failure' = "broken_pool" => broken
    BY <1>5 DEF SubmitRaises, SubmitWhenBroken
  <2>2. PoolShape' /\ Len(futures') <= Len(behaviour)
    <3>1. CASE SubmitWithoutProcess
      BY <1>1, <1>2, <3>1, ShapeSubmit
    <3>2. CASE SubmitWhenBroken
      <4>1. UNCHANGED <<broken, status, job, futures>>
              /\ executor' \in {"none", "open", "closing", "closed"}
        BY <1>1, <1>2, <3>2 DEF SubmitWhenBroken, processVars
      <4>2. QED BY <1>1, <1>2, <4>1, ShapeUnchanged
    <3>3. QED BY <1>5, <3>1, <3>2 DEF SubmitRaises
  <2>3. StateSound' /\ StageSound' /\ FailureSound'
    BY <1>1, <1>2, <2>1, <2>2 DEF StateSound, StageSound, FailureSound, inputVars
  <2>4. OutcomesSound'
    BY <1>1, <1>2, <2>1, OutcomesLeft
  <2>5. QED BY <1>1, <1>3, <2>2, <2>3, <2>4 DEF RunnerInv
<1>6. QED BY <1>4, <1>5

LEMMA RunnerCollect ==
  ASSUME RunnerInv, [Next]_vars, CollectOutcome \/ CollectFailure \/ AllCollected
  PROVE  RunnerInv'
<1>1. /\ PoolShape /\ StateSound /\ StageSound /\ FailureSound /\ OutcomesSound
      /\ stage = "collecting" /\ UNCHANGED <<decision, exitCode, processVars>>
      /\ UNCHANGED inputVars /\ Raising' = Raising /\ InputsSound /\ InputsSound'
  BY InputsKept DEF RunnerInv, CollectOutcome, CollectFailure, AllCollected
<1>2. /\ executor = "open" /\ failure = "none" /\ Len(futures) = Len(behaviour)
      /\ Len(behaviour) \in Nat /\ behaviour' = behaviour /\ Len(outcomes) \in Nat
      /\ DOMAIN futures = Targets
  <2>1. behaviour \in Seq(Behaviours) /\ futures \in Seq(FutureStates)
          /\ outcomes \in Seq([target : Nat, passed : BOOLEAN])
    BY <1>1 DEF InputsSound, PoolShape, ProcessTypeOK, OutcomesSound
  <2>2. QED BY <1>1, <2>1 DEF StageSound, inputVars, Targets
<1>3. PoolShape' /\ Stands
  BY <1>1, <1>2, ShapeUnchanged DEF processVars
<1>4. stage' # "exited" /\ ExitCodeHonest'
  BY <1>1, ExitCodeStands DEF CollectOutcome, CollectFailure, AllCollected, processVars
<1>5. CASE CollectOutcome
  <2>1. PICK i \in Awaited \ Raising :
          /\ futures[i] = "finished" /\ outcomes' = Append(outcomes, OutcomeOf(i))
    BY <1>5 DEF CollectOutcome, OutcomeOf
  <2>2. i = Len(outcomes) + 1 /\ i \in Targets \ Raising
    BY <1>2, <2>1 DEF Awaited
  <2>3. /\ outcomes' \in Seq([target : Nat, passed : BOOLEAN])
        /\ Len(outcomes') = i /\ Len(outcomes') <= Len(behaviour)
        /\ \A k \in 1..Len(outcomes') : outcomes'[k] = OutcomeOf(k) /\ k \notin Raising
    BY <1>1, <2>1, <2>2, OutcomeAdded
  <2>4. stage' = "collecting" /\ UNCHANGED failure
    BY <1>1, <1>5 DEF CollectOutcome
  <2>5. \A k \in 1..Len(outcomes') : futures'[k] = "finished"
    <3>1. \A k \in 1..Len(outcomes) : futures[k] = "finished"
      BY <1>1 DEF OutcomesSound
    <3>2. QED BY <1>1, <1>2, <2>1, <2>2, <2>3, <3>1 DEF processVars
  <2>6. \A k : OutcomeOf(k)' = OutcomeOf(k)
    BY InputsKept
  <2>7. OutcomesSound'
    BY <1>1, <1>2, <2>3, <2>4, <2>5, <2>6 DEF OutcomesSound
  <2>8. StateSound' /\ StageSound' /\ FailureSound'
    BY <1>1, <1>2, <2>4 DEF StateSound, StageSound, FailureSound, inputVars, processVars
  <2>9. QED BY <1>1, <1>3, <1>4, <2>7, <2>8 DEF RunnerInv
<1>6. CASE CollectFailure
  <2>1. stage' = "leaving" /\ failure' = "worker_failed" /\ UNCHANGED outcomes
    BY <1>6 DEF CollectFailure
  <2>2. broken \/ Raising # {}
    BY <1>1, <1>6 DEF CollectFailure, Awaited, PoolShape, FailuresExplained
  <2>3. StateSound' /\ StageSound' /\ FailureSound'
    BY <1>1, <1>2, <2>1, <2>2 DEF StateSound, StageSound, FailureSound, inputVars, processVars,
                                  Quiet, Undone, Busy
  <2>4. OutcomesSound'
    BY <1>1, <2>1, OutcomesLeft
  <2>5. QED BY <1>1, <1>3, <1>4, <2>3, <2>4 DEF RunnerInv
<1>7. CASE AllCollected
  <2>1. stage' = "leaving" /\ UNCHANGED <<failure, outcomes>> /\ Len(outcomes) = Len(behaviour)
    BY <1>7 DEF AllCollected
  <2>2. StateSound' /\ StageSound' /\ FailureSound'
    BY <1>1, <1>2, <2>1 DEF StateSound, StageSound, FailureSound, inputVars, processVars,
                            Quiet, Undone, Busy
  <2>3. OutcomesSound'
    BY <1>1, <2>1, OutcomesLeft
  <2>4. QED BY <1>1, <1>3, <1>4, <2>2, <2>3 DEF RunnerInv
<1>8. QED BY <1>5, <1>6, <1>7

LEMMA RunnerLeave ==
  ASSUME RunnerInv, [Next]_vars, LeavePool \/ PoolLeft
  PROVE  RunnerInv'
<1>1. /\ PoolShape /\ StateSound /\ StageSound /\ FailureSound /\ OutcomesSound
      /\ stage = "leaving" /\ UNCHANGED <<failure, exitCode>>
      /\ UNCHANGED inputVars /\ Raising' = Raising /\ InputsSound /\ InputsSound'
  BY InputsKept DEF RunnerInv, LeavePool, PoolLeft, runnerVars
<1>2. Len(behaviour) \in Nat /\ behaviour' = behaviour
  BY <1>1 DEF InputsSound, inputVars
<1>3. CASE LeavePool
  <2>1. UNCHANGED runnerVars
    BY <1>3 DEF LeavePool
  <2>2. /\ PoolShape' /\ Len(futures') = Len(futures) /\ UNCHANGED broken
        /\ executor' \in {"closing", "closed"} /\ (executor' = "closed" => Quiet')
    <3>1. CASE BeginShutdown(FALSE)
      BY <1>1, <3>1, ShapeShutdown
    <3>2. CASE EndShutdown(TRUE)
      BY <1>1, <3>2, ShapeClosed
    <3>3. QED BY <1>3, <3>1, <3>2 DEF LeavePool
  <2>3. StateSound' /\ StageSound' /\ FailureSound'
    BY <1>1, <1>2, <2>1, <2>2 DEF StateSound, StageSound, FailureSound, runnerVars, inputVars
  <2>4. OutcomesSound'
    BY <1>1, <2>1, OutcomesLeft DEF OutcomesSound, runnerVars
  <2>5. ExitCodeHonest'
    BY <1>1, <2>1, <2>2, ExitCodeStands DEF runnerVars
  <2>6. QED BY <1>1, <2>2, <2>3, <2>4, <2>5 DEF RunnerInv
<1>4. CASE PoolLeft
  <2>1. UNCHANGED <<executor, broken, status, job, futures>> /\ executor = "closed" /\ Quiet
    BY <1>1, <1>4 DEF PoolLeft, processVars, StageSound
  <2>2. PoolShape' /\ Quiet'
    BY <1>1, <2>1, ShapeUnchanged
  <2>3. stage' = (IF failure = "startup" THEN "serial"
                  ELSE IF failure = "none" THEN "evaluated" ELSE "raised")
          /\ outcomes' = (IF failure = "startup" THEN <<>> ELSE outcomes)
    BY <1>4 DEF PoolLeft
  <2>4. StateSound'
    <3>1. workers \in Int /\ workers >= 1
      BY <1>1, WorkersAssumption, FS_CardinalityType DEF InputsSound
    <3>2. decision' \in {Serial("thread_backend_default_serial"), decision}
      BY <1>4 DEF PoolLeft
    <3>3. QED BY <1>1, <2>3, <3>1, <3>2 DEF StateSound, Serial, inputVars
  <2>5. StageSound' /\ FailureSound'
    BY <1>1, <1>2, <2>1, <2>2, <2>3 DEF StageSound, FailureSound
  <2>6. OutcomesSound'
    BY <1>1, <2>3, OutcomesLeft DEF OutcomesSound
  <2>7. ExitCodeHonest'
    BY <1>1, <2>1, <2>3, ExitCodeStands
  <2>8. QED BY <1>1, <2>2, <2>4, <2>5, <2>6, <2>7 DEF RunnerInv
<1>5. QED BY <1>3, <1>4

LEMMA RunnerSerially ==
  ASSUME RunnerInv, [Next]_vars, RunSerially \/ SerialRaises \/ SerialDone
  PROVE  RunnerInv'
<1>1. /\ PoolShape /\ StateSound /\ StageSound /\ FailureSound /\ OutcomesSound
      /\ stage = "serial" /\ UNCHANGED <<decision, exitCode, processVars>>
      /\ UNCHANGED inputVars /\ Raising' = Raising /\ InputsSound /\ InputsSound'
  BY InputsKept DEF RunnerInv, RunSerially, SerialRaises, SerialDone
<1>2. /\ Len(behaviour) \in Nat /\ behaviour' = behaviour
      /\ Quiet /\ executor \in {"none", "closed"}
  BY <1>1 DEF InputsSound, inputVars, StageSound
<1>3. PoolShape' /\ Quiet' /\ UNCHANGED <<executor, futures>>
  BY <1>1, <1>2, ShapeUnchanged DEF processVars
<1>4. stage' # "exited" /\ ExitCodeHonest'
  BY <1>1, ExitCodeStands DEF RunSerially, SerialRaises, SerialDone, processVars
<1>5. CASE RunSerially
  <2>1. stage' = "serial" /\ UNCHANGED failure /\ NextTarget \in Targets \ Raising
          /\ outcomes' = Append(outcomes, OutcomeOf(NextTarget))
    BY <1>1, <1>5 DEF RunSerially, OutcomeOf
  <2>2. /\ outcomes' \in Seq([target : Nat, passed : BOOLEAN])
        /\ Len(outcomes') <= Len(behaviour)
        /\ \A k \in 1..Len(outcomes') : outcomes'[k] = OutcomeOf(k) /\ k \notin Raising
    BY <1>1, <2>1, OutcomeAdded DEF NextTarget
  <2>3. \A k : OutcomeOf(k)' = OutcomeOf(k)
    BY InputsKept
  <2>4. OutcomesSound'
    BY <1>1, <1>2, <2>1, <2>2, <2>3 DEF OutcomesSound
  <2>5. StateSound' /\ StageSound' /\ FailureSound'
    BY <1>1, <1>2, <1>3, <2>1 DEF StateSound, StageSound, FailureSound, inputVars, processVars
  <2>6. QED BY <1>1, <1>3, <1>4, <2>4, <2>5 DEF RunnerInv
<1>6. CASE SerialRaises
  <2>1. stage' = "raised" /\ UNCHANGED outcomes /\ NextTarget \in Raising
          /\ failure' \in {"runtime_error", "other_error"}
    BY <1>6 DEF SerialRaises, Raising
  <2>2. StateSound' /\ StageSound' /\ FailureSound'
    BY <1>1, <1>2, <1>3, <2>1 DEF StateSound, StageSound, FailureSound, inputVars, processVars
  <2>3. OutcomesSound'
    BY <1>1, <2>1, OutcomesLeft
  <2>4. QED BY <1>1, <1>3, <1>4, <2>2, <2>3 DEF RunnerInv
<1>7. CASE SerialDone
  <2>1. stage' = "evaluated" /\ UNCHANGED <<outcomes, failure>> /\ Len(outcomes) = Len(behaviour)
    BY <1>7 DEF SerialDone
  <2>2. StateSound' /\ StageSound' /\ FailureSound'
    BY <1>1, <1>2, <1>3, <2>1 DEF StateSound, StageSound, FailureSound, inputVars, processVars
  <2>3. OutcomesSound'
    BY <1>1, <2>1, OutcomesLeft
  <2>4. QED BY <1>1, <1>3, <1>4, <2>2, <2>3 DEF RunnerInv
<1>8. QED BY <1>5, <1>6, <1>7

LEMMA RunnerExits ==
  ASSUME RunnerInv, [Next]_vars, ExitWithSummary \/ ExitWithFailure
  PROVE  RunnerInv'
<1>1. /\ PoolShape /\ StateSound /\ StageSound /\ FailureSound /\ OutcomesSound
      /\ stage \in {"evaluated", "raised"} /\ stage' = "exited"
      /\ UNCHANGED <<decision, failure, outcomes, processVars>>
      /\ UNCHANGED inputVars /\ Raising' = Raising /\ InputsSound /\ InputsSound'
  BY InputsKept DEF RunnerInv, ExitWithSummary, ExitWithFailure
<1>2. /\ behaviour \in Seq(Behaviours) /\ outcomes \in Seq([target : Nat, passed : BOOLEAN])
      /\ behaviour' = behaviour /\ Quiet /\ executor \in {"none", "closed"}
  BY <1>1 DEF InputsSound, inputVars, StageSound, OutcomesSound
<1>3. PoolShape' /\ Quiet' /\ UNCHANGED <<executor, futures>>
  BY <1>1, <1>2, ShapeUnchanged DEF processVars
<1>4. FailureCode \in {1, 2} /\ exitCode' \in {0, 1, 2}
  BY DEF FailureCode, ExitWithSummary, ExitWithFailure
<1>5. StateSound' /\ StageSound' /\ FailureSound'
  BY <1>1, <1>2, <1>3, <1>4 DEF StateSound, StageSound, FailureSound, inputVars, processVars
<1>6. OutcomesSound'
  BY <1>1, OutcomesLeft
<1>7. Targets = 1..Len(behaviour) /\ DOMAIN outcomes = 1..Len(outcomes)
  BY <1>2 DEF Targets
<1>8. UNCHANGED <<stdoutClosed, broken, behaviour>> /\ Targets' = Targets
  BY <1>1 DEF inputVars, processVars, Targets
<1>9. CASE ExitWithSummary
  <2>1. Len(outcomes) = Len(behaviour)
    BY <1>1, <1>9 DEF OutcomesSound, ExitWithSummary
  <2>2. \A i \in Targets : outcomes[i].passed <=> behaviour[i] = "passes"
    BY <1>1, <1>7, <2>1 DEF OutcomesSound, OutcomeOf
  <2>3. exitCode' = IF stdoutClosed \/ AllPassed THEN 0 ELSE FailureCode
    BY <1>9 DEF ExitWithSummary
  <2>4. ASSUME AllPassed PROVE Targets # {} /\ \A i \in Targets : behaviour[i] = "passes"
    BY <1>1, <1>7, <2>1, <2>2, <2>4 DEF AllPassed, InputsSound
  <2>5. ASSUME ~AllPassed PROVE Targets = {} \/ \E i \in Targets : behaviour[i] # "passes"
    <3>1. CASE ~discovered
      BY <1>1, <3>1 DEF InputsSound
    <3>2. CASE outcomes = <<>>
      BY <1>2, <1>7, <2>1, <3>2
    <3>3. CASE \E i \in DOMAIN outcomes : ~outcomes[i].passed
      BY <1>7, <2>1, <2>2, <3>3
    <3>4. QED BY <2>5, <3>1, <3>2, <3>3 DEF AllPassed
  <2>6. ExitCodeHonest'
    BY <1>4, <1>8, <2>3, <2>4, <2>5 DEF ExitCodeHonest
  <2>7. QED BY <1>1, <1>3, <1>5, <1>6, <2>6 DEF RunnerInv
<1>10. CASE ExitWithFailure
  <2>1. broken \/ Raising # {}
    BY <1>1, <1>10 DEF FailureSound, StateSound, ExitWithFailure
  <2>2. Raising # {} => \E i \in Targets : behaviour[i] # "passes"
    BY DEF Raising
  <2>3. exitCode' \in {1, 2}
    BY <1>4, <1>10 DEF ExitWithFailure
  <2>4. ExitCodeHonest'
    BY <1>8, <2>1, <2>2, <2>3 DEF ExitCodeHonest
  <2>5. QED BY <1>1, <1>3, <1>5, <1>6, <2>4 DEF RunnerInv
<1>11. QED BY <1>9, <1>10

\* Every step keeps the invariant.
LEMMA RunnerStepKeeps ==
  ASSUME RunnerInv, [Next]_vars
  PROVE  RunnerInv'
<1>1. CASE UNCHANGED vars
  <2>1. UNCHANGED <<processVars, runnerVars>> /\ PoolShape /\ StateSound
    BY <1>1 DEF vars, RunnerInv
  <2>2. PoolShape' /\ (Quiet' <=> Quiet)
    BY <2>1, ShapeUnchanged DEF processVars, PoolShape, ProcessTypeOK
  <2>3. StateSound' /\ StageSound' /\ OutcomesSound' /\ FailureSound' /\ ExitCodeHonest'
    BY <2>1, <2>2, InputsKept
       DEF RunnerInv, StateSound, StageSound, OutcomesSound, FailureSound, ExitCodeHonest,
           runnerVars, inputVars, processVars
  <2>4. QED BY <2>2, <2>3, InputsKept DEF RunnerInv
<1>2. CASE WorkerStep
  BY <1>2, RunnerWorker
<1>3. CASE DiscoveryFails \/ ResolveSerial \/ ResolveParallel \/ PoolFails
  BY <1>3, RunnerResolve
<1>4. CASE SubmitTarget \/ SubmitRaises
  BY <1>4, RunnerSubmit
<1>5. CASE CollectOutcome \/ CollectFailure \/ AllCollected
  BY <1>5, RunnerCollect
<1>6. CASE LeavePool \/ PoolLeft
  BY <1>6, RunnerLeave
<1>7. CASE RunSerially \/ SerialRaises \/ SerialDone
  BY <1>7, RunnerSerially
<1>8. CASE ExitWithSummary \/ ExitWithFailure
  BY <1>8, RunnerExits
<1>9. QED
  BY <1>1, <1>2, <1>3, <1>4, <1>5, <1>6, <1>7, <1>8 DEF Next, RunnerStep

LEMMA RunnerInvariant == Spec => []RunnerInv
<1>1. Init => RunnerInv
  BY InitialRunner
<1>2. RunnerInv /\ [Next]_vars => RunnerInv'
  BY RunnerStepKeeps
<1>3. QED BY <1>1, <1>2, PTL DEF Spec

-----------------------------------------------------------------------------
(* Both suite commands keep their state well formed: the pool's tasks and   *)
(* workers, the resolved mode, the outcomes and the exit code.              *)
THEOREM RunnerTypeCorrect == Spec => []RunnerTypeOK
<1>1. RunnerInv => RunnerTypeOK
  BY DEF RunnerInv, PoolShape, InputsSound, StateSound, OutcomesSound, RunnerTypeOK
<1>2. QED BY <1>1, RunnerInvariant, PTL

(* The with block of the pool is left before the serial rerun begins: no    *)
(* worker runs a target that the command runs itself, and none runs on      *)
(* after the command.                                                       *)
THEOREM RerunAlone == Spec => []RerunDoesNotOverlap
<1>1. RunnerInv => RerunDoesNotOverlap
  BY DEF RunnerInv, StageSound, Quiet, RerunDoesNotOverlap
<1>2. QED BY <1>1, RunnerInvariant, PTL

(* _run_parallel and _run_serial: the outcomes of a run are complete, in    *)
(* the order of the targets and each its target's own, whatever the order   *)
(* in which the workers finish and whether or not the pool was given up for *)
(* the serial rerun, which overlaps no worker.                              *)
THEOREM OutcomesKeepOrder == Spec => []OutcomesInOrder
<1>1. ASSUME RunnerInv, stage = "evaluated"
      PROVE  /\ outcomes = [i \in Targets |-> OutcomeOf(i)]
             /\ Raising = {}
  <2>1. /\ outcomes \in Seq([target : Nat, passed : BOOLEAN]) /\ behaviour \in Seq(Behaviours)
        /\ Len(outcomes) = Len(behaviour)
        /\ \A i \in 1..Len(outcomes) : outcomes[i] = OutcomeOf(i) /\ i \notin Raising
    BY <1>1 DEF RunnerInv, OutcomesSound, InputsSound
  <2>2. Targets = 1..Len(outcomes) /\ outcomes = [i \in 1..Len(outcomes) |-> outcomes[i]]
    BY <2>1 DEF Targets
  <2>3. QED BY <2>1, <2>2 DEF Raising
<1>2. RunnerInv => OutcomesInOrder
  <2>1. RunnerInv => RerunDoesNotOverlap
    BY DEF RunnerInv, StageSound, Quiet, RerunDoesNotOverlap
  <2>2. QED BY <1>1, <2>1 DEF OutcomesInOrder, OutcomeOf
<1>3. QED BY <1>2, RunnerInvariant, PTL

(* The exit code of `verify' and of `test' says what the targets did,       *)
(* whatever happens to the pool.                                            *)
THEOREM ExitCodeTrue == Spec => []ExitCodeHonest
<1>1. RunnerInv => ExitCodeHonest
  BY DEF RunnerInv
<1>2. QED BY <1>1, RunnerInvariant, PTL
=============================================================================
