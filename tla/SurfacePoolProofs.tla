--------------------------- MODULE SurfacePoolProofs ---------------------------
(***************************************************************************)
(* Proofs about SurfacePool, for every number of workers, every batch and  *)
(* every schedule.                                                         *)
(***************************************************************************)
EXTENDS SurfacePool, ProcessPoolProofs

CallTypeOK ==
  /\ solver \in [Surfaces -> Outcomes]
  /\ call \in {"idle", "submitting", "collecting"}
  /\ batch \in Seq(Surfaces)
  /\ collected \in Seq(Candidates)
  /\ raised \in {"none", "worker_failed", "timed_out", "no_process", "broken_pool"}
  /\ answer \in Seq(Candidates)

\* Where evaluate_surfaces() is, and how many futures it has by then.
CallSound ==
  /\ Len(futures) <= Len(batch)
  /\ call = "submitting" => Len(futures) < Len(batch)
  /\ call = "collecting" => Len(futures) = Len(batch)
  /\ call # "idle" => executor = "open" /\ raised = "none"

\* What it has collected are the candidates of the first surfaces.
CollectedSound ==
  /\ Len(collected) <= Len(batch)
  /\ \A i \in 1..Len(collected) :
        ~SolveRaises(i) /\ collected[i] = CandidateOf(solver[batch[i]])
  /\ call = "submitting" => collected = <<>>
  /\ call = "collecting" => \A i \in 1..Len(collected) : futures[i] = "finished"

CallInv ==
  /\ PoolShape /\ CallTypeOK /\ CallSound /\ CollectedSound
  /\ FailureDeterministic /\ QuietBetweenCalls

-----------------------------------------------------------------------------
LEMMA CandidateType ==
  ASSUME NEW o \in OutcomeType
  PROVE  CandidateOf(o) \in Candidates
BY DEF OutcomeType, CandidateOf, CaughtException, CandidateFromResult, Candidates, Reasons

LEMMA InitialCall == PoolInit => CallInv
<1> SUFFICES ASSUME PoolInit PROVE CallInv
  OBVIOUS
<1>1. PoolShape /\ Quiet /\ futures = <<>>
  BY InitialShape DEF PoolInit
<1>2. CallTypeOK /\ CallSound /\ CollectedSound /\ FailureDeterministic /\ QuietBetweenCalls
  BY <1>1 DEF PoolInit, CallInit, CallTypeOK, CallSound, CollectedSound, FailureDeterministic,
         QuietBetweenCalls, Quiet
<1>3. QED BY <1>1, <1>2 DEF CallInv

\* The pool moves and the call does not.
LEMMA PoolMoves ==
  ASSUME CallInv, UNCHANGED <<solver, callVars>>, PoolShape', Stands,
         Len(futures') = Len(futures), broken => broken', Quiet => Quiet',
         call # "idle" => executor' = executor,
         executor' = "closed" => Quiet'
  PROVE  CallInv'
<1>1. CallTypeOK'
  BY DEF CallInv, CallTypeOK, callVars
<1>2. CallSound'
  BY DEF CallInv, CallSound, callVars
<1>3. CollectedSound'
  <2>1. ASSUME call = "collecting", NEW i \in 1..Len(collected) PROVE futures'[i] = "finished"
    <3>1. i \in DOMAIN futures /\ futures[i] = "finished"
      BY <2>1, Indices DEF CallInv, CollectedSound, CallSound, CallTypeOK, PoolShape
    <3>2. QED BY <3>1 DEF Stands
  <2>2. QED BY <2>1 DEF CallInv, CollectedSound, callVars, SolveRaises
<1>4. FailureDeterministic'
  BY DEF CallInv, FailureDeterministic, callVars, SolveRaises
<1>5. QuietBetweenCalls'
  BY DEF CallInv, QuietBetweenCalls, callVars, Quiet
<1>6. QED BY <1>1, <1>2, <1>3, <1>4, <1>5 DEF CallInv

\* The call ends by raising, with the pool as it is.
LEMMA CallEnds ==
  ASSUME CallInv, PoolShape', Len(futures') <= Len(batch), executor' # "closed",
         UNCHANGED <<solver, batch, collected, answer>>, call' = "idle",
         raised' \in {"worker_failed", "timed_out", "no_process", "broken_pool"},
         raised' = "worker_failed" /\ ~broken' => SolveRaises(Len(collected) + 1)
  PROVE  CallInv'
<1>1. CallTypeOK' /\ CallSound'
  BY DEF CallInv, CallTypeOK, CallSound
<1>2. CollectedSound' /\ FailureDeterministic'
  BY DEF CallInv, CollectedSound, FailureDeterministic, SolveRaises
<1>3. QuietBetweenCalls'
  BY DEF QuietBetweenCalls
<1>4. QED BY <1>1, <1>2, <1>3 DEF CallInv

LEMMA BeginStep ==
  ASSUME CallInv, NEW surfaces \in SurfaceSeqs, BeginCall(surfaces)
  PROVE  CallInv'
<1>1. /\ call = "idle" /\ executor = "open" /\ raised = "none" /\ call' = "submitting"
      /\ batch' = surfaces /\ futures' = <<>> /\ collected' = <<>>
      /\ UNCHANGED <<solver, executor, broken, status, job, raised, answer>>
  BY DEF BeginCall
<1>2. surfaces \in Seq(Surfaces) /\ Len(surfaces) \in Nat /\ Len(surfaces) > 0
  <2>1. PICK n \in 1..MaxTasks : surfaces \in [1..n -> Surfaces]
    BY DEF SurfaceSeqs
  <2>2. n \in Nat \ {0}
    BY PoolAssumption
  <2>3. QED BY <2>1, <2>2
<1>3. PoolShape'
  <2>1. Quiet
    BY <1>1 DEF CallInv, QuietBetweenCalls, Quiet
  <2>2. QED BY <1>1, <2>1, ShapeReset DEF CallInv
<1>4. collected' \in Seq(Candidates) /\ Len(collected') = 0 /\ Len(futures') = 0
  BY <1>1
<1>5. CallTypeOK'
  BY <1>1, <1>2, <1>4 DEF CallInv, CallTypeOK
<1>6. CallSound' /\ CollectedSound'
  BY <1>1, <1>2, <1>4 DEF CallSound, CollectedSound
<1>7. FailureDeterministic' /\ QuietBetweenCalls'
  BY <1>1 DEF FailureDeterministic, QuietBetweenCalls
<1>8. QED BY <1>3, <1>5, <1>6, <1>7 DEF CallInv

LEMMA SubmitStep ==
  ASSUME CallInv, SubmitTask
  PROVE  CallInv'
<1>1. /\ call = "submitting" /\ Len(futures) < Len(batch) /\ Submit
      /\ call' = IF Len(futures) + 1 = Len(batch) THEN "collecting" ELSE call
      /\ UNCHANGED <<solver, batch, collected, raised, answer>>
  BY DEF SubmitTask
<1>2. PoolShape' /\ Len(futures') = Len(futures) + 1 /\ executor' = executor
  BY <1>1, ShapeSubmit DEF CallInv, Submit
<1>3. Len(futures) \in Nat /\ Len(batch) \in Nat
  BY Indices DEF CallInv, CallTypeOK, PoolShape
<1>4. CallTypeOK' /\ CallSound'
  BY <1>1, <1>2, <1>3 DEF CallInv, CallTypeOK, CallSound
<1>5. CollectedSound'
  <2>1. collected = <<>> /\ Len(collected) = 0
    BY <1>1 DEF CallInv, CollectedSound
  <2>2. QED BY <1>1, <1>3, <2>1 DEF CollectedSound
<1>6. FailureDeterministic' /\ QuietBetweenCalls'
  BY <1>1, <1>2 DEF CallInv, CallSound, FailureDeterministic, QuietBetweenCalls
<1>7. QED BY <1>2, <1>4, <1>5, <1>6 DEF CallInv

LEMMA CollectStep ==
  ASSUME CallInv, CollectResult
  PROVE  CallInv'
<1>1. call = "collecting" /\ UNCHANGED <<solver, processVars, call, batch, raised, answer>>
  BY DEF CollectResult
<1>2. PICK i \in Awaited :
        /\ futures[i] = "finished" /\ ~SolveRaises(i)
        /\ collected' = Append(collected, CandidateOf(solver[batch[i]]))
  BY DEF CollectResult
<1> DEFINE c == CandidateOf(solver[batch[i]])
<1>3. i = Len(collected) + 1 /\ i \in DOMAIN futures /\ i \in 1..Len(batch) /\ Len(collected) \in Nat
  BY <1>1, <1>2, Indices DEF Awaited, CallInv, CallSound, CallTypeOK, PoolShape
<1>4. c \in Candidates
  <2>1. batch[i] \in Surfaces
    BY <1>3 DEF CallInv, CallTypeOK
  <2>2. solver[batch[i]] \in OutcomeType
    BY <2>1, PoolAssumption DEF CallInv, CallTypeOK
  <2>3. QED BY <2>2, CandidateType
<1>5. collected \in Seq(Candidates) /\ collected' = Append(collected, c)
  BY <1>2 DEF CallInv, CallTypeOK
<1>6. collected' \in Seq(Candidates) /\ Len(collected') = i /\ collected'[i] = c
        /\ \A k \in 1..Len(collected) : collected'[k] = collected[k]
  <2> HIDE DEF c
  <2>1. QED BY <1>3, <1>4, <1>5
<1>7. PoolShape'
  BY <1>1 DEF CallInv, PoolShape, processVars, ProcessTypeOK, Matched, FailuresExplained, Busy
<1>8. CallTypeOK' /\ CallSound'
  BY <1>1, <1>6 DEF CallInv, CallTypeOK, CallSound, processVars
<1>9. ASSUME NEW k \in 1..Len(collected')
      PROVE  ~SolveRaises(k) /\ collected'[k] = CandidateOf(solver[batch[k]]) /\ futures[k] = "finished"
  <2>1. CASE k = i
    BY <1>2, <1>6, <2>1
  <2>2. CASE k # i
    <3>1. k \in 1..Len(collected)
      BY <1>3, <1>6, <2>2
    <3>2. QED BY <1>1, <1>6, <3>1 DEF CallInv, CollectedSound
  <2>3. QED BY <2>1, <2>2
<1>10. CollectedSound'
  <2>1. Len(collected') <= Len(batch)
    BY <1>3, <1>6
  <2>2. QED BY <1>1, <1>9, <2>1 DEF CollectedSound, SolveRaises, processVars
<1>11. FailureDeterministic' /\ QuietBetweenCalls'
  BY <1>1 DEF CallInv, CallSound, FailureDeterministic, QuietBetweenCalls, processVars
<1>12. QED BY <1>7, <1>8, <1>10, <1>11 DEF CallInv

LEMMA RaiseStep ==
  ASSUME CallInv, CallRaises
  PROVE  CallInv'
<1>1. call # "idle" /\ executor = "open" /\ Len(futures) <= Len(batch)
        /\ Len(futures) \in Nat /\ Len(batch) \in Nat
  BY Indices DEF CallRaises, SubmitRaises, CollectFailure, CollectTimesOut, CallInv, CallSound,
         CallTypeOK, PoolShape
<1>2. CASE SubmitRaises
  <2>1. CASE SubmitWithoutProcess
    <3>1. PoolShape' /\ Len(futures') = Len(futures) + 1 /\ executor' = executor
      BY <2>1, ShapeSubmit DEF CallInv, SubmitWithoutProcess
    <3>2. Len(futures) < Len(batch)
      BY <1>2 DEF SubmitRaises, CallInv, CallSound
    <3>3. raised' \in {"no_process", "broken_pool"}
      BY <1>2 DEF SubmitRaises
    <3>4. QED BY <1>1, <1>2, <3>1, <3>2, <3>3, CallEnds DEF SubmitRaises
  <2>2. CASE SubmitWhenBroken
    <3>1. PoolShape' /\ futures' = futures /\ executor' = executor
      BY <2>2, ShapeUnchanged DEF CallInv, SubmitWhenBroken, processVars, PoolShape, ProcessTypeOK
    <3>2. raised' \in {"no_process", "broken_pool"}
      BY <1>2 DEF SubmitRaises
    <3>3. QED BY <1>1, <1>2, <3>1, <3>2, CallEnds DEF SubmitRaises
  <2>3. QED BY <1>2, <2>1, <2>2 DEF SubmitRaises
<1>3. CASE CollectFailure \/ CollectTimesOut
  <2>1. UNCHANGED processVars /\ call' = "idle" /\ UNCHANGED <<solver, batch, collected, answer>>
          /\ raised' \in {"worker_failed", "timed_out"}
    BY <1>3 DEF CollectFailure, CollectTimesOut
  <2>2. PoolShape' /\ futures' = futures /\ executor' = executor /\ broken' = broken
    BY <2>1, ShapeUnchanged DEF CallInv, processVars, PoolShape, ProcessTypeOK
  <2>3. raised' = "worker_failed" /\ ~broken => SolveRaises(Len(collected) + 1)
    <3>1. CASE CollectFailure
      <4>1. PICK i \in Awaited : futures[i] = "failed" \/ (futures[i] = "finished" /\ SolveRaises(i))
        BY <3>1 DEF CollectFailure
      <4>2. i = Len(collected) + 1 /\ i \in DOMAIN futures
        BY <4>1 DEF Awaited
      <4>3. QED BY <4>1, <4>2 DEF CallInv, PoolShape, FailuresExplained
    <3>2. CASE CollectTimesOut
      BY <3>2 DEF CollectTimesOut
    <3>3. QED BY <1>3, <3>1, <3>2
  <2>4. QED BY <1>1, <2>1, <2>2, <2>3, CallEnds
<1>4. QED BY <1>2, <1>3 DEF CallRaises

LEMMA ReturnStep ==
  ASSUME CallInv, ReturnAnswer
  PROVE  CallInv'
<1>1. /\ call = "collecting" /\ Len(collected) = Len(batch) /\ answer' = collected /\ call' = "idle"
      /\ UNCHANGED <<solver, processVars, batch, collected, raised>>
  BY DEF ReturnAnswer
<1>2. Quiet
  <2>1. \A i \in DOMAIN futures : futures[i] = "finished"
    BY <1>1, Indices DEF CallInv, CollectedSound, CallSound, PoolShape
  <2>2. QED BY <2>1 DEF Quiet, Undone, Busy, CallInv, PoolShape, Matched
<1>3. PoolShape' /\ Quiet'
  BY <1>1, <1>2, ShapeUnchanged DEF CallInv, PoolShape, ProcessTypeOK, processVars
<1>4. CallTypeOK' /\ CallSound' /\ CollectedSound'
  BY <1>1 DEF CallInv, CallTypeOK, CallSound, CollectedSound, processVars, SolveRaises
<1>5. FailureDeterministic' /\ QuietBetweenCalls'
  BY <1>1, <1>3 DEF CallInv, CallSound, FailureDeterministic, QuietBetweenCalls, Quiet
<1>6. QED BY <1>3, <1>4, <1>5 DEF CallInv

LEMMA CallInvStep == CallInv /\ [PoolNext]_poolVars => CallInv'
<1> SUFFICES ASSUME CallInv, [PoolNext]_poolVars PROVE CallInv'
  OBVIOUS
<1>1. PoolShape /\ Len(futures) \in Nat
  BY Indices DEF CallInv, PoolShape
<1>2. CASE UNCHANGED poolVars
  <2>1. UNCHANGED <<solver, callVars>> /\ UNCHANGED processVars
    BY <1>2 DEF poolVars
  <2>2. PoolShape' /\ (Quiet' <=> Quiet) /\ Stands
    BY <1>1, <2>1, ShapeUnchanged DEF processVars, PoolShape, ProcessTypeOK
  <2>3. executor' = "closed" => Quiet
    BY <2>1 DEF processVars, CallInv, QuietBetweenCalls, Quiet
  <2>4. QED BY <2>1, <2>2, <2>3, PoolMoves DEF processVars
<1>3. CASE OpenExecutor
  <2>1. UNCHANGED <<solver, callVars>> /\ Construct /\ executor' = "open" /\ executor = "none"
          /\ UNCHANGED <<broken, status, job, futures>>
    BY <1>3 DEF OpenExecutor, Construct
  <2>2. PoolShape' /\ (Quiet' <=> Quiet) /\ Stands
    BY <1>1, <2>1, ShapeUnchanged
  <2>3. call = "idle"
    BY <2>1 DEF CallInv, CallSound
  <2>4. QED BY <2>1, <2>2, <2>3, PoolMoves
<1>4. ASSUME NEW surfaces \in SurfaceSeqs, BeginCall(surfaces) PROVE CallInv'
  BY <1>4, BeginStep
<1>5. CASE CallStep
  BY <1>5, SubmitStep, CollectStep, RaiseStep, ReturnStep DEF CallStep
<1>6. CASE Close
  <2>1. UNCHANGED <<solver, callVars>> /\ call = "idle"
    BY <1>6 DEF Close
  <2>2. CASE BeginShutdown(TRUE)
    <3>1. PoolShape' /\ Len(futures') = Len(futures) /\ Stands /\ executor' = "closing"
           /\ UNCHANGED broken /\ (Quiet => Quiet')
      BY <1>1, <2>2, ShapeShutdown
    <3>2. QED BY <2>1, <3>1, PoolMoves
  <2>3. CASE EndShutdown(TRUE)
    <3>1. PoolShape' /\ UNCHANGED <<futures, broken>> /\ executor' = "closed" /\ Quiet'
      BY <1>1, <2>3, ShapeClosed
    <3>2. Stands
      BY <3>1 DEF Stands
    <3>3. QED BY <2>1, <3>1, <3>2, PoolMoves
  <2>4. QED BY <1>6, <2>2, <2>3 DEF Close, CloseWaits
<1>7. ASSUME NEW w \in Workers, WorkerRuns(w) \/ WorkerLost(w) PROVE CallInv'
  <2>1. UNCHANGED <<solver, callVars>> /\ WorkerMoves
    BY <1>7 DEF WorkerRuns, WorkerLost, WorkerMoves
  <2>2. PoolShape' /\ Len(futures') = Len(futures) /\ Stands /\ UNCHANGED executor
           /\ (Quiet => Quiet') /\ (broken => broken')
    BY <1>1, <2>1, ShapeWorker
  <2>3. executor' = "closed" => Quiet'
    BY <2>2 DEF CallInv, QuietBetweenCalls, Quiet
  <2>4. QED BY <2>1, <2>2, <2>3, PoolMoves
<1>8. QED BY <1>2, <1>3, <1>4, <1>5, <1>6, <1>7 DEF PoolNext

LEMMA CallInvariant == PoolSpec => []CallInv
BY InitialCall, CallInvStep, PTL DEF PoolSpec

\* Every variable of the pool and of the call keeps its type.
THEOREM PoolTypeCorrect == PoolSpec => []PoolTypeOK
<1>1. CallInv => PoolTypeOK
  BY DEF CallInv, PoolShape, CallTypeOK, PoolTypeOK
<1>2. QED BY <1>1, CallInvariant, PTL

\* However the workers are scheduled, no task is run by two of them and none is left
\* running without one.
THEOREM TasksMatched == PoolSpec => []OneWorkerPerTask
<1>1. CallInv => OneWorkerPerTask
  BY DEF CallInv, PoolShape, Matched, CallSound, OneWorkerPerTask
<1>2. QED BY <1>1, CallInvariant, PTL

\* Between two calls that returned, and after close(), nothing runs: a search never
\* shares its workers with what an earlier call left behind.
THEOREM QuietPool == PoolSpec => []QuietBetweenCalls
<1>1. CallInv => QuietBetweenCalls
  BY DEF CallInv
<1>2. QED BY <1>1, CallInvariant, PTL

\* As long as no worker died, the error of a call is the one of the first surface whose
\* solve raises, in whatever order the workers came to it.
THEOREM FirstFailureRaised == PoolSpec => []FailureDeterministic
<1>1. CallInv => FailureDeterministic
  BY DEF CallInv
<1>2. QED BY <1>1, CallInvariant, PTL

-----------------------------------------------------------------------------
(* The batch service *)

ServiceState ==
  IF executor = "closed" THEN "closed"
  ELSE IF executor = "closing" \/ raised # "none" THEN "draining"
  ELSE IF call = "idle" THEN "ready" ELSE "serving"

\* What is answered is what the solver makes of each surface of the batch.
LEMMA Answered ==
  ASSUME CallInv, ReturnAnswer
  PROVE  /\ answer' = [i \in DOMAIN batch |-> CandidateOf(solver[batch[i]])]
         /\ \A i \in DOMAIN batch : solver[batch[i]].kind # "raises"
<1>1. Len(collected) = Len(batch) /\ answer' = collected
  BY DEF ReturnAnswer
<1>2. \A i \in 1..Len(collected) :
        ~SolveRaises(i) /\ collected[i] = CandidateOf(solver[batch[i]])
  BY DEF CallInv, CollectedSound
<1>3. collected \in Seq(Candidates) /\ batch \in Seq(Surfaces)
  BY DEF CallInv, CallTypeOK
<1>4. DOMAIN batch = 1..Len(collected) /\ collected = [i \in DOMAIN batch |-> collected[i]]
  BY <1>1, <1>3
<1>5. QED BY <1>1, <1>2, <1>4 DEF SolveRaises

LEMMA ServiceStep ==
  ASSUME CallInv, [PoolNext]_poolVars
  PROVE  [Service!ServiceNext]_(Service!serviceVars)
<1> USE DEF Service!serviceVars
<1>1. CASE UNCHANGED <<solver, batch, answer>> /\ ServiceState' = ServiceState
  BY <1>1 DEF ServiceState
<1>2. CASE /\ ServiceState \in {"ready", "serving"} /\ ServiceState' = "draining"
           /\ UNCHANGED <<solver, batch, answer>>
  BY <1>2 DEF ServiceState, Service!ServiceNext, Service!Leave
<1>3. CASE UNCHANGED poolVars
  BY <1>1, <1>3 DEF poolVars, callVars, processVars, ServiceState
<1>4. CASE OpenExecutor
  BY <1>1, <1>4 DEF OpenExecutor, Construct, callVars, ServiceState
<1>5. ASSUME NEW surfaces \in SurfaceSeqs, BeginCall(surfaces)
      PROVE  [Service!ServiceNext]_(Service!serviceVars)
  <2>1. ServiceState = "ready" /\ ServiceState' = "serving" /\ batch' = surfaces
          /\ UNCHANGED <<solver, answer>>
    BY <1>5 DEF BeginCall, ServiceState
  <2>2. Service!Call(surfaces)
    BY <2>1 DEF Service!Call, ServiceState
  <2>3. QED BY <2>2 DEF Service!ServiceNext
<1>6. CASE SubmitTask \/ CollectResult
  <2>1. call # "idle" /\ call' # "idle" /\ executor' = executor /\ raised' = raised
          /\ UNCHANGED <<solver, batch, answer>>
    BY <1>6 DEF SubmitTask, Submit, CollectResult, processVars
  <2>2. QED BY <1>1, <2>1 DEF ServiceState
<1>7. CASE CallRaises
  <2>1. call # "idle" /\ executor' = executor /\ raised' # "none"
          /\ UNCHANGED <<solver, batch, answer>>
    BY <1>7 DEF CallRaises, SubmitRaises, SubmitWithoutProcess, SubmitWhenBroken, CollectFailure,
           CollectTimesOut, processVars
  <2>2. executor = "open" /\ raised = "none"
    BY <2>1 DEF CallInv, CallSound
  <2>3. QED BY <1>2, <2>1, <2>2 DEF ServiceState
<1>8. CASE ReturnAnswer
  <2>1. call = "collecting" /\ call' = "idle" /\ UNCHANGED <<solver, executor, batch, raised>>
    BY <1>8 DEF ReturnAnswer, processVars
  <2>2. executor = "open" /\ raised = "none"
    BY <2>1 DEF CallInv, CallSound
  <2>3. ServiceState = "serving" /\ ServiceState' = "ready"
    BY <2>1, <2>2 DEF ServiceState
  <2>4. Service!Answer
    <3>1. \A o : Service!CandidateOf(o) = CandidateOf(o)
      BY DEF Service!CandidateOf, Service!CandidateFromResult, Service!CaughtException,
             CandidateOf, CandidateFromResult, CaughtException
    <3>2. /\ \A i \in DOMAIN batch : solver[batch[i]].kind # "raises"
          /\ answer' = [i \in DOMAIN batch |-> Service!CandidateOf(solver[batch[i]])]
      BY <1>8, <3>1, Answered
    <3>3. QED BY <2>1, <2>3, <3>2 DEF Service!Answer, ServiceState
  <2>5. QED BY <2>4 DEF Service!ServiceNext
<1>9. CASE Close
  <2>1. call = "idle" /\ UNCHANGED <<solver, call, batch, raised, answer>>
    BY <1>9 DEF Close, callVars
  <2>2. CASE BeginShutdown(TRUE)
    <3>1. executor = "open" /\ executor' = "closing"
      BY <2>2 DEF BeginShutdown
    <3>2. QED BY <1>1, <1>2, <2>1, <3>1 DEF ServiceState
  <2>3. CASE EndShutdown(TRUE)
    <3>1. executor = "closing" /\ executor' = "closed"
      BY <2>3 DEF EndShutdown
    <3>2. Service!Rest
      BY <2>1, <3>1 DEF Service!Rest
    <3>3. QED BY <3>2 DEF Service!ServiceNext
  <2>4. QED BY <1>9, <2>2, <2>3 DEF Close, CloseWaits
<1>10. ASSUME NEW w \in Workers, WorkerRuns(w) \/ WorkerLost(w)
       PROVE  [Service!ServiceNext]_(Service!serviceVars)
  <2>1. UNCHANGED <<solver, executor, call, batch, raised, answer>>
    BY <1>10 DEF WorkerRuns, WorkerLost, TakeTask, FinishTask, WorkerDies, callVars
  <2>2. QED BY <1>1, <2>1 DEF ServiceState
<1>11. QED
  BY <1>3, <1>4, <1>5, <1>6, <1>7, <1>8, <1>9, <1>10 DEF PoolNext, CallStep

\* The pool is a batch service, its fairness aside: whatever its workers do, an answer is
\* that of each surface in the order given, and none comes after a failure.
THEOREM PoolImplementsService ==
  PoolSpec => Service!ServiceInit /\ [][Service!ServiceNext]_(Service!serviceVars)
<1>1. PoolInit => Service!ServiceInit
  BY DEF PoolInit, ProcessInit, CallInit, Service!ServiceInit
<1>2. CallInv /\ [PoolNext]_poolVars => [Service!ServiceNext]_(Service!serviceVars)
  BY ServiceStep
<1>3. QED BY <1>1, <1>2, CallInvariant, PTL DEF PoolSpec
=============================================================================
