--------------------------- MODULE AnalysisRunProofs ---------------------------
(***************************************************************************)
(* Proofs about AnalysisRun, for every search, every machine, every        *)
(* request and every schedule of the workers.                              *)
(*                                                                         *)
(* A parallel run composes the evaluator with the pool, and so do its      *)
(* proofs: ParP gives the lemmas of ObjectiveEvaluatorProofs, PoolP those  *)
(* of SurfacePoolProofs.  The instances define the operators of Par and    *)
(* Pool once more; the first lemmas say that they are the same.            *)
(***************************************************************************)
EXTENDS AnalysisRun, FiniteSetTheorems, TLAPS

\* The evaluator's state when the current call began, as in EvaluatorCalls.
VARIABLE atCall

ParP == INSTANCE ObjectiveEvaluatorProofs WITH HasBatchEvaluator <- TRUE
PoolP == INSTANCE SurfacePoolProofs WITH MaxTasks <- MaxRequest

-----------------------------------------------------------------------------
(* The instances agree *)

\* What the constants are assumed to be, for the lemmas of each instance.
LEMMA Assumptions ==
  /\ ParP!EvaluatorAssumption /\ ParP!NoneAssumption
  /\ PoolP!PoolAssumption /\ PoolP!WorkersAssumption
<1>1. /\ Par!EvaluatorAssumption /\ Par!NoneAssumption
      /\ Pool!PoolAssumption /\ Pool!WorkersAssumption
  BY AnalysisAssumption
<1>2. ParP!EvaluatorAssumption
  BY <1>1 DEF Par!EvaluatorAssumption, ParP!EvaluatorAssumption, Par!OutcomeType, ParP!OutcomeType
<1>3. ParP!NoneAssumption
  <2>1. ParP!Entries = Par!Entries
    BY DEF ParP!Entries, Par!Entries, ParP!Reasons, Par!Reasons
  <2>2. ParP!Incumbents = Par!Incumbents
    BY DEF ParP!Incumbents, Par!Incumbents
  <2>3. QED
    BY <1>1, <2>1, <2>2 DEF Par!NoneAssumption, ParP!NoneAssumption
<1>4. PoolP!PoolAssumption /\ PoolP!WorkersAssumption
  BY <1>1
  DEF Pool!PoolAssumption, PoolP!PoolAssumption, Pool!OutcomeType, PoolP!OutcomeType,
      Pool!WorkersAssumption, PoolP!WorkersAssumption, Pool!IsFiniteSet, PoolP!IsFiniteSet
<1>5. QED
  BY <1>2, <1>3, <1>4

\* The candidate of an outcome, and of a key.
LEMMA SameCandidates ==
  /\ \A o : /\ ParP!CandidateOf(o) = Par!CandidateOf(o)
            /\ Ser!CandidateOf(o) = Par!CandidateOf(o)
            /\ Pool!CandidateOf(o) = Par!CandidateOf(o)
            /\ PoolP!CandidateOf(o) = Par!CandidateOf(o)
  /\ \A k : /\ ParP!Candidate(k) = Par!Candidate(k)
            /\ Ser!Candidate(k) = Par!Candidate(k)
<1>1. /\ ParP!InvalidGeometry = Par!InvalidGeometry
      /\ Ser!InvalidGeometry = Par!InvalidGeometry
      /\ ParP!CaughtException = Par!CaughtException
      /\ Ser!CaughtException = Par!CaughtException
      /\ Pool!CaughtException = Par!CaughtException
      /\ PoolP!CaughtException = Par!CaughtException
  BY DEF Par!InvalidGeometry, ParP!InvalidGeometry, Ser!InvalidGeometry,
         Par!CaughtException, ParP!CaughtException, Ser!CaughtException,
         Pool!CaughtException, PoolP!CaughtException
<1>2. \A o : /\ ParP!CandidateFromResult(o) = Par!CandidateFromResult(o)
             /\ Ser!CandidateFromResult(o) = Par!CandidateFromResult(o)
             /\ Pool!CandidateFromResult(o) = Par!CandidateFromResult(o)
             /\ PoolP!CandidateFromResult(o) = Par!CandidateFromResult(o)
  BY DEF Par!CandidateFromResult, ParP!CandidateFromResult, Ser!CandidateFromResult,
         Pool!CandidateFromResult, PoolP!CandidateFromResult
<1>3. \A o : /\ ParP!CandidateOf(o) = Par!CandidateOf(o)
             /\ Ser!CandidateOf(o) = Par!CandidateOf(o)
             /\ Pool!CandidateOf(o) = Par!CandidateOf(o)
             /\ PoolP!CandidateOf(o) = Par!CandidateOf(o)
  BY <1>1, <1>2 DEF Par!CandidateOf, ParP!CandidateOf, Ser!CandidateOf, Pool!CandidateOf, PoolP!CandidateOf
<1>4. \A k : ParP!Candidate(k) = Par!Candidate(k) /\ Ser!Candidate(k) = Par!Candidate(k)
  BY <1>1, <1>3 DEF Par!Candidate, ParP!Candidate, Ser!Candidate
<1>5. QED
  BY <1>3, <1>4

\* The entry a candidate becomes.
LEMMA SameEntries ==
  /\ ParP!RefusedEntry = Par!RefusedEntry
  /\ \A c : ParP!EntryOf(c) = Par!EntryOf(c)
  /\ \A k, score : ParP!IsBetterScore(k, score) <=> Par!IsBetterScore(k, score)
  /\ \A k, e : ParP!Install(k, e) <=> Par!Install(k, e)
  /\ \A k : ParP!Raises(k) <=> Par!Raises(k)
<1>1. ParP!RefusedEntry = Par!RefusedEntry
  BY DEF ParP!RefusedEntry, Par!RefusedEntry
<1>2. \A r : ParP!ScoreForReason(r) = Par!ScoreForReason(r)
  BY DEF ParP!ScoreForReason, Par!ScoreForReason
<1>3. \A c : ParP!EntryOf(c) = Par!EntryOf(c)
  BY <1>2 DEF ParP!EntryOf, Par!EntryOf
<1>4. \A k, score : ParP!IsBetterScore(k, score) <=> Par!IsBetterScore(k, score)
  BY DEF ParP!IsBetterScore, Par!IsBetterScore
<1>5. \A k, e : ParP!UpdateIncumbent(k, e) <=> Par!UpdateIncumbent(k, e)
  BY <1>4 DEF ParP!UpdateIncumbent, Par!UpdateIncumbent
<1>6. \A k, e : ParP!Install(k, e) <=> Par!Install(k, e)
  BY <1>5 DEF ParP!Install, Par!Install
<1>7. \A k : ParP!Raises(k) <=> Par!Raises(k)
  BY DEF ParP!Raises, Par!Raises
<1>8. QED
  BY <1>1, <1>3, <1>4, <1>6, <1>7

\* The steps of evaluate_vector,
LEMMA SameVectors == \A v : ParP!EvaluateVector(v) <=> Par!EvaluateVector(v)
<1>1. /\ ParP!stateVars = Par!stateVars /\ ParP!callVars = Par!callVars
      /\ (ParP!BudgetSpent <=> Par!BudgetSpent)
  BY DEF ParP!stateVars, Par!stateVars, ParP!callVars, Par!callVars, ParP!BudgetSpent, Par!BudgetSpent
<1>2. \A k : ParP!EvaluateCached(k) <=> Par!EvaluateCached(k)
  BY DEF ParP!EvaluateCached, Par!EvaluateCached, ParP!stateVars, Par!stateVars, ParP!callVars, Par!callVars
<1>3. \A k : ParP!EvaluateRefused(k) <=> Par!EvaluateRefused(k)
  BY <1>1, SameEntries
  DEF ParP!EvaluateRefused, Par!EvaluateRefused, ParP!callVars, Par!callVars
<1>4. \A k : ParP!EvaluateFresh(k) <=> Par!EvaluateFresh(k)
  BY <1>1, SameEntries, SameCandidates
  DEF ParP!EvaluateFresh, Par!EvaluateFresh, ParP!callVars, Par!callVars
<1>5. \A k : ParP!EvaluateRaises(k) <=> Par!EvaluateRaises(k)
  BY <1>1, SameEntries
  DEF ParP!EvaluateRaises, Par!EvaluateRaises, ParP!callVars, Par!callVars
<1>6. QED
  BY <1>2, <1>3, <1>4, <1>5 DEF ParP!EvaluateVector, Par!EvaluateVector

\* of the loops of evaluate_vectors_batch,
LEMMA SameLoops ==
  /\ \A vs : ParP!StartBatch(vs) <=> Par!StartBatch(vs)
  /\ ParP!VectorSeqs = Par!VectorSeqs
  /\ ParP!ScanVector <=> Par!ScanVector
  /\ ParP!CutBudget <=> Par!CutBudget
  /\ ParP!MergeResult <=> Par!MergeResult
  /\ ParP!FinishBatch <=> Par!FinishBatch
<1>1. \A vs : ParP!StartBatch(vs) <=> Par!StartBatch(vs)
  BY DEF ParP!StartBatch, Par!StartBatch, ParP!stateVars, Par!stateVars
<1>2. ParP!VectorSeqs = Par!VectorSeqs
  BY DEF ParP!VectorSeqs, Par!VectorSeqs
<1>3. ParP!ScanVector <=> Par!ScanVector
  BY DEF ParP!ScanVector, Par!ScanVector, ParP!SkipVector, Par!SkipVector, ParP!Seen, Par!Seen,
         ParP!stateVars, Par!stateVars
<1>4. ParP!CutBudget <=> Par!CutBudget
  BY DEF ParP!CutBudget, Par!CutBudget, ParP!CutPoint, Par!CutPoint,
         ParP!RemainingBudget, Par!RemainingBudget, ParP!stateVars, Par!stateVars
<1>5. ParP!MergeResult <=> Par!MergeResult
  BY SameEntries DEF ParP!MergeResult, Par!MergeResult
<1>6. ParP!FinishBatch <=> Par!FinishBatch
  <2>1. ParP!Overflow = Par!Overflow
    BY DEF ParP!Overflow, Par!Overflow
  <2>2. QED
    BY <2>1, SameEntries DEF ParP!FinishBatch, Par!FinishBatch
<1>7. QED
  BY <1>1, <1>2, <1>3, <1>4, <1>5, <1>6

\* and of the evaluation between them.
LEMMA SameSubmitted ==
  /\ ParP!UseBatch <=> Par!UseBatch
  /\ \A i : ParP!HasSurface(i) <=> Par!HasSurface(i)
  /\ \A i : ParP!SubmittedUpTo(i) = Par!SubmittedUpTo(i)
  /\ \A p : ParP!NthSubmitted(p) = Par!NthSubmitted(p)
  /\ ParP!BatchContract = Par!BatchContract
<1>1. ParP!UseBatch <=> Par!UseBatch
  BY DEF ParP!UseBatch, Par!UseBatch
<1>2. \A i : ParP!HasSurface(i) <=> Par!HasSurface(i)
  BY DEF ParP!HasSurface, Par!HasSurface
<1>3. \A i : ParP!SubmittedUpTo(i) = Par!SubmittedUpTo(i)
  <2>1. \A i : {j \in 1..i : ParP!HasSurface(j)} = {j \in 1..i : Par!HasSurface(j)}
    BY <1>2
  <2>2. QED
    BY <2>1 DEF ParP!SubmittedUpTo, Par!SubmittedUpTo, ParP!Cardinality, Par!Cardinality
<1>4. \A p : ParP!NthSubmitted(p) = Par!NthSubmitted(p)
  BY <1>2, <1>3 DEF ParP!NthSubmitted, Par!NthSubmitted
<1>5. ParP!BatchContract = Par!BatchContract
  BY <1>3, <1>4, SameCandidates DEF ParP!BatchContract, Par!BatchContract
<1>6. QED
  BY <1>1, <1>2, <1>3, <1>4, <1>5

\* One vector evaluated in process, and the answers a batch comes back with.
LEMMA SameEvaluations ==
  /\ ParP!EvaluateInProcess <=> Par!EvaluateInProcess
  /\ ParP!InProcessRaises <=> Par!InProcessRaises
  /\ \A list : ParP!BatchReturns(list) <=> Par!BatchReturns(list)
  /\ ParP!BatchAnswers <=> Par!BatchAnswers
  /\ ParP!BatchRaises <=> Par!BatchRaises
<1>1. ParP!EvaluateInProcess <=> Par!EvaluateInProcess
  BY SameSubmitted, SameEntries, SameCandidates
  DEF ParP!EvaluateInProcess, Par!EvaluateInProcess, ParP!stateVars, Par!stateVars
<1>2. ParP!InProcessRaises <=> Par!InProcessRaises
  BY SameSubmitted, SameEntries
  DEF ParP!InProcessRaises, Par!InProcessRaises, ParP!stateVars, Par!stateVars, ParP!callVars, Par!callVars
<1>3. \A list : ParP!BatchReturns(list) <=> Par!BatchReturns(list)
  BY SameSubmitted
  DEF ParP!BatchReturns, Par!BatchReturns, ParP!BatchIndex, Par!BatchIndex,
      ParP!InvalidGeometry, Par!InvalidGeometry, ParP!stateVars, Par!stateVars
<1>4. ParP!BatchAnswers <=> Par!BatchAnswers
  BY <1>3, SameSubmitted, SameEntries DEF ParP!BatchAnswers, Par!BatchAnswers
<1>5. ParP!BatchRaises <=> Par!BatchRaises
  BY SameSubmitted
  DEF ParP!BatchRaises, Par!BatchRaises, ParP!stateVars, Par!stateVars, ParP!callVars, Par!callVars
<1>6. QED
  BY <1>1, <1>2, <1>3, <1>4, <1>5

\* So the evaluator here takes the steps of the one that is proved about.
LEMMA SameNext == ParP!Next <=> Par!Next
BY SameVectors, SameLoops, SameEvaluations DEF ParP!Next, Par!Next

\* The steps of the pool.
LEMMA SamePoolSets ==
  /\ Pool!Unborn = PoolP!Unborn /\ Pool!Live = PoolP!Live /\ Pool!Busy = PoolP!Busy
  /\ Pool!Pending = PoolP!Pending /\ Pool!Undone = PoolP!Undone
  /\ Pool!Awaited = PoolP!Awaited
  /\ \A i : Pool!SolveRaises(i) <=> PoolP!SolveRaises(i)
BY DEF Pool!Unborn, PoolP!Unborn, Pool!Live, PoolP!Live, Pool!Busy, PoolP!Busy,
       Pool!Pending, PoolP!Pending, Pool!Undone, PoolP!Undone, Pool!Awaited, PoolP!Awaited,
       Pool!SolveRaises, PoolP!SolveRaises

\* The calls the search makes of the pool,
LEMMA SamePoolCalls ==
  /\ Pool!OpenExecutor <=> PoolP!OpenExecutor
  /\ \A surfaces : Pool!BeginCall(surfaces) <=> PoolP!BeginCall(surfaces)
  /\ Pool!SubmitTask <=> PoolP!SubmitTask
  /\ Pool!CollectResult <=> PoolP!CollectResult
  /\ Pool!CallRaises <=> PoolP!CallRaises
  /\ Pool!ReturnAnswer <=> PoolP!ReturnAnswer
<1>1. Pool!OpenExecutor <=> PoolP!OpenExecutor
  BY DEF Pool!OpenExecutor, PoolP!OpenExecutor, Pool!Construct, PoolP!Construct, Pool!callVars, PoolP!callVars
<1>2. \A surfaces : Pool!BeginCall(surfaces) <=> PoolP!BeginCall(surfaces)
  BY DEF Pool!BeginCall, PoolP!BeginCall
<1>3. Pool!SubmitTask <=> PoolP!SubmitTask
  BY SamePoolSets DEF Pool!SubmitTask, PoolP!SubmitTask, Pool!Submit, PoolP!Submit
<1>4. Pool!CollectResult <=> PoolP!CollectResult
  BY SamePoolSets, SameCandidates
  DEF Pool!CollectResult, PoolP!CollectResult, Pool!processVars, PoolP!processVars
<1>5. Pool!CallRaises <=> PoolP!CallRaises
  <2>1. Pool!SubmitRaises <=> PoolP!SubmitRaises
    BY SamePoolSets
    DEF Pool!SubmitRaises, PoolP!SubmitRaises, Pool!SubmitWithoutProcess, PoolP!SubmitWithoutProcess,
        Pool!SubmitWhenBroken, PoolP!SubmitWhenBroken, Pool!processVars, PoolP!processVars
  <2>2. Pool!CollectFailure <=> PoolP!CollectFailure
    BY SamePoolSets DEF Pool!CollectFailure, PoolP!CollectFailure, Pool!processVars, PoolP!processVars
  <2>3. Pool!CollectTimesOut <=> PoolP!CollectTimesOut
    BY SamePoolSets DEF Pool!CollectTimesOut, PoolP!CollectTimesOut, Pool!processVars, PoolP!processVars
  <2>4. QED
    BY <2>1, <2>2, <2>3 DEF Pool!CallRaises, PoolP!CallRaises
<1>6. Pool!ReturnAnswer <=> PoolP!ReturnAnswer
  BY DEF Pool!ReturnAnswer, PoolP!ReturnAnswer, Pool!processVars, PoolP!processVars
<1>7. QED
  BY <1>1, <1>2, <1>3, <1>4, <1>5, <1>6

\* and what the executor and its workers do by themselves.
LEMMA SamePoolWorkers ==
  /\ Pool!Close <=> PoolP!Close
  /\ \A w : Pool!WorkerRuns(w) <=> PoolP!WorkerRuns(w)
  /\ \A w : Pool!WorkerLost(w) <=> PoolP!WorkerLost(w)
<1>1. \A cancel, kept : Pool!MayKeep(cancel, kept) <=> PoolP!MayKeep(cancel, kept)
  BY SamePoolSets
  DEF Pool!MayKeep, PoolP!MayKeep, Pool!CallQueueSize, PoolP!CallQueueSize,
      Pool!Cardinality, PoolP!Cardinality
<1>2. Pool!BeginShutdown(TRUE) <=> PoolP!BeginShutdown(TRUE)
  BY <1>1, SamePoolSets DEF Pool!BeginShutdown, PoolP!BeginShutdown
<1>3. Pool!EndShutdown(Pool!CloseWaits) <=> PoolP!EndShutdown(PoolP!CloseWaits)
  BY SamePoolSets DEF Pool!EndShutdown, PoolP!EndShutdown, Pool!CloseWaits, PoolP!CloseWaits
<1>4. Pool!Close <=> PoolP!Close
  BY <1>2, <1>3 DEF Pool!Close, PoolP!Close, Pool!callVars, PoolP!callVars
<1>5. \A w : Pool!WorkerRuns(w) <=> PoolP!WorkerRuns(w)
  BY SamePoolSets
  DEF Pool!WorkerRuns, PoolP!WorkerRuns, Pool!TakeTask, PoolP!TakeTask, Pool!FinishTask, PoolP!FinishTask,
      Pool!callVars, PoolP!callVars
<1>6. \A w : Pool!WorkerLost(w) <=> PoolP!WorkerLost(w)
  BY SamePoolSets
  DEF Pool!WorkerLost, PoolP!WorkerLost, Pool!WorkerDies, PoolP!WorkerDies, Pool!callVars, PoolP!callVars
<1>7. QED
  BY <1>4, <1>5, <1>6

-----------------------------------------------------------------------------
(* A batch submitted and put back                                          *)

\* The positions of the surfaces submitted are 1..SubmittedUpTo(cut), none left out.
LEMMA EveryPosition ==
  ASSUME ParP!TypeOK
  PROVE  /\ Par!SubmittedUpTo(cut) \in Nat /\ Par!SubmittedUpTo(cut) <= cut
         /\ \A i \in 1..cut : Par!HasSurface(i) =>
              Par!SubmittedUpTo(i) \in 1..Par!SubmittedUpTo(cut) /\ Par!NthSubmitted(Par!SubmittedUpTo(i)) = i
         /\ \A p \in 1..Par!SubmittedUpTo(cut) :
              /\ Par!NthSubmitted(p) \in 1..cut /\ Par!HasSurface(Par!NthSubmitted(p))
              /\ Par!SubmittedUpTo(Par!NthSubmitted(p)) = p
<1> DEFINE S == {j \in 1..cut : Par!HasSurface(j)}
           rank == [i \in S |-> Par!SubmittedUpTo(i)]
           n == Par!SubmittedUpTo(cut)
<1>1. cut \in Nat
  BY DEF ParP!TypeOK
<1>2. IsFiniteSet(S) /\ Cardinality(S) <= cut /\ Cardinality(S) \in Nat
  <2>1. IsFiniteSet(1..cut) /\ Cardinality(1..cut) = cut
    BY <1>1, FS_Interval
  <2>2. QED
    BY <2>1, FS_Subset, FS_CardinalityType
<1>3. n = Cardinality(S)
  BY DEF Par!SubmittedUpTo, Par!Cardinality, Cardinality
<1>4. \A i \in S : rank[i] \in 1..n /\ Par!NthSubmitted(rank[i]) = i
  <2> SUFFICES ASSUME NEW i \in 1..cut, Par!HasSurface(i)
               PROVE  Par!SubmittedUpTo(i) \in 1..n /\ Par!NthSubmitted(Par!SubmittedUpTo(i)) = i
    OBVIOUS
  <2>1. ParP!HasSurface(i)
    BY SameSubmitted
  <2>2. ParP!SubmittedUpTo(i) \in 1..ParP!SubmittedUpTo(cut) /\ ParP!NthSubmitted(ParP!SubmittedUpTo(i)) = i
    BY <2>1, Assumptions, ParP!SubmittedPositions
  <2>3. QED
    BY <2>2, SameSubmitted
<1> HIDE DEF n
<1>5. IsFiniteSet(1..n) /\ Cardinality(1..n) = n
  BY <1>2, <1>3, FS_Interval
<1> DEFINE T == {rank[i] : i \in S}
<1>6. T \subseteq 1..n
  BY <1>4
<1>7. Cardinality(T) = Cardinality(S)
  <2>1. rank \in Bijection(S, T)
    <3>1. \A i, j \in S : rank[i] = rank[j] => i = j
      BY <1>4
    <3>2. rank \in [S -> T] /\ \A t \in T : \E i \in S : rank[i] = t
      OBVIOUS
    <3>3. QED
      BY <3>1, <3>2 DEF Bijection, Injection, Surjection, IsInjective
  <2>2. ExistsBijection(S, T)
    BY <2>1 DEF ExistsBijection
  <2>3. QED
    BY <1>2, <2>2, FS_Bijection
<1>8. T = 1..n
  BY <1>3, <1>5, <1>6, <1>7, FS_Subset
<1>9. ASSUME NEW p \in 1..n
      PROVE  /\ Par!NthSubmitted(p) \in 1..cut /\ Par!HasSurface(Par!NthSubmitted(p))
             /\ Par!SubmittedUpTo(Par!NthSubmitted(p)) = p
  <2>1. PICK i \in S : rank[i] = p
    BY <1>8
  <2>2. Par!NthSubmitted(p) = i
    BY <1>4, <2>1
  <2>3. QED
    BY <2>1, <2>2
<1>10. QED
  BY <1>2, <1>3, <1>4, <1>9 DEF n

-----------------------------------------------------------------------------
(* The inductive invariant                                                 *)

\* The request is bounded, and only keys of it are to be evaluated.
RequestBounded == Len(request) <= MaxRequest /\ Len(first) <= scanned

\* A call of the executor carries the surfaces of the batch the evaluator waits for,
\* and when it has raised so has the evaluator.
Served ==
  /\ call # "idle" =>
       /\ phase = "evaluating" /\ Par!UseBatch
       /\ Par!SubmittedUpTo(cut) > 0 /\ batch = Par!SubmittedSurfaces
  /\ raised # "none" => phase = "raised"

\* No worker lives outside the executor, and no task is unfinished between calls that
\* returned.
Settled ==
  /\ executor = "none" => futures = <<>> /\ \A w \in Workers : status[w] = "unborn"
  /\ executor = "closed" => \A w \in Workers : status[w] \notin {"idle", "busy"}
  /\ call = "idle" /\ raised = "none" => \A i \in DOMAIN futures : futures[i] = "finished"

\* A search that ended without an error has an incumbent and waits for nothing.
StageSound ==
  /\ stage = "resolved" => executor = "none"
  /\ Ended => executor \in {"none", "closed"}
  /\ stage = "reported" => error = "none"
  /\ stage \in {"leaving", "reported"} /\ error = "none" => phase = "idle" /\ best # NoBest

\* The decision names the backend.
Decided ==
  /\ mode \in Modes /\ decision.mode \in {"serial", "parallel"}
  /\ decision.workers \in 1..Cardinality(Workers)
  /\ decision.workers > 1 <=> decision.mode = "parallel"
  /\ stage \notin {"resolved", "failed"} => (decision.mode = "parallel" <=> InPool)
  /\ decision.reason \in DecisionReasons(mode, decision.mode = "parallel")

RunTypes ==
  /\ stage \in {"resolved", "searching", "leaving", "reported", "failed"}
  /\ error \in {"none", "startup_failed", "worker_failed", "timed_out", "no_process",
                "broken_pool", "solver_error", "no_valid_surface"}
  /\ calls \in 0..MaxCalls

EvaluatorInv == ParP!Inv2 /\ ParP!CountInv /\ RequestBounded

PoolInv == PoolP!CallInv /\ Settled

RunInv == EvaluatorInv /\ PoolInv /\ Served /\ StageSound /\ Decided /\ RunTypes

\* What the invariant of the pool says of its variables.
LEMMA PoolFacts ==
  ASSUME PoolP!CallInv
  PROVE  /\ solver \in [Surfaces -> Outcomes]
         /\ executor \in {"none", "open", "closing", "closed"}
         /\ status \in [Workers -> {"unborn", "idle", "busy", "dead"}]
         /\ DOMAIN futures = 1..Len(futures) /\ Len(futures) \in Nat
         /\ raised \in {"none", "worker_failed", "timed_out", "no_process", "broken_pool"}
         /\ executor = "closed" \/ (call = "idle" /\ raised = "none") => Pool!Undone = {} /\ Pool!Busy = {}
         /\ call # "idle" => executor = "open" /\ raised = "none"
         /\ call = "collecting" =>
              Len(futures) = Len(batch) /\ \A i \in 1..Len(collected) : futures[i] = "finished"
<1>1. PoolP!PoolShape /\ PoolP!CallTypeOK /\ PoolP!CallSound /\ PoolP!CollectedSound /\ PoolP!QuietBetweenCalls
  BY DEF PoolP!CallInv
<1>2. /\ executor \in {"none", "open", "closing", "closed"}
      /\ status \in [Workers -> {"unborn", "idle", "busy", "dead"}]
      /\ futures \in Seq(PoolP!FutureStates)
  BY <1>1 DEF PoolP!PoolShape, PoolP!ProcessTypeOK
<1>3. /\ solver \in [Surfaces -> Outcomes]
      /\ raised \in {"none", "worker_failed", "timed_out", "no_process", "broken_pool"}
  BY <1>1 DEF PoolP!CallTypeOK
<1>4. executor = "closed" \/ (call = "idle" /\ raised = "none") => Pool!Undone = {} /\ Pool!Busy = {}
  BY <1>1, SamePoolSets DEF PoolP!QuietBetweenCalls
<1>5. /\ call # "idle" => executor = "open" /\ raised = "none"
      /\ call = "collecting" => Len(futures) = Len(batch)
  BY <1>1 DEF PoolP!CallSound
<1>6. call = "collecting" => \A i \in 1..Len(collected) : futures[i] = "finished"
  BY <1>1 DEF PoolP!CollectedSound
<1>7. QED
  BY <1>2, <1>3, <1>4, <1>5, <1>6

\* The bound of the request bounds what is submitted.
LEMMA SubmittedBounded ==
  ASSUME ParP!TypeOK, RequestBounded, Par!SubmittedUpTo(cut) # 0
  PROVE  Par!SubmittedSurfaces \in PoolP!SurfaceSeqs
<1> DEFINE n == Par!SubmittedUpTo(cut)
<1>1. n \in Nat /\ n <= cut
  BY EveryPosition
<1>2. /\ cut \in 0..Len(first) /\ scanned \in 0..Len(request) /\ first \in Seq(Keys)
      /\ request \in Seq(Keys)
  BY DEF ParP!TypeOK
<1>3. Len(first) \in Nat /\ Len(request) \in Nat /\ MaxRequest \in Nat
  BY <1>2, Assumptions DEF ParP!EvaluatorAssumption
<1>4. n \in 1..MaxRequest
  BY <1>1, <1>2, <1>3 DEF RequestBounded
<1>5. ASSUME NEW p \in 1..n
      PROVE  SurfaceOf[first[Par!NthSubmitted(p)]] \in Surfaces
  <2>1. Par!NthSubmitted(p) \in 1..cut /\ Par!HasSurface(Par!NthSubmitted(p))
    BY EveryPosition
  <2>2. first[Par!NthSubmitted(p)] \in Keys
    BY <1>2, <1>3, <2>1
  <2>3. SurfaceOf[first[Par!NthSubmitted(p)]] # NoSurface
    BY <2>1 DEF Par!HasSurface
  <2>4. QED
    BY <2>2, <2>3, Assumptions DEF ParP!EvaluatorAssumption
<1> HIDE DEF n
<1>6. [p \in 1..n |-> SurfaceOf[first[Par!NthSubmitted(p)]]] \in [1..n -> Surfaces]
  BY <1>5
<1>7. Par!SubmittedSurfaces \in [1..n -> Surfaces]
  BY <1>6 DEF Par!SubmittedSurfaces, n
<1>8. QED
  BY <1>4, <1>7 DEF PoolP!SurfaceSeqs

-----------------------------------------------------------------------------
(* Every step is one of the evaluator                                      *)

\* A serial evaluation is what a batch evaluator that keeps its contract would answer.
LEMMA SerialIsContract ==
  ASSUME ParP!TypeOK, Ser!EvaluateInProcess
  PROVE  ParP!Next
<1>1. /\ phase = "evaluating" /\ phase' = "merging"
      /\ results' = [i \in 1..cut |-> Par!Candidate(first[i])]
      /\ UNCHANGED <<solver, ParP!stateVars, request, scanned, first, cut, merged, returned>>
  BY SameCandidates DEF Ser!EvaluateInProcess, Ser!stateVars, ParP!stateVars
<1>2. \A i \in 1..cut : ~ParP!Raises(first[i])
  BY DEF Ser!EvaluateInProcess, Ser!Raises, ParP!Raises
<1>3. CASE ~ParP!UseBatch
  <2>1. results' = [i \in 1..cut |-> ParP!Candidate(first[i])]
    BY <1>1, SameCandidates
  <2>2. ParP!EvaluateInProcess
    BY <1>1, <1>2, <1>3, <2>1 DEF ParP!EvaluateInProcess
  <2>3. QED
    BY <2>2 DEF ParP!Next
<1>4. CASE ParP!UseBatch
  <2> DEFINE n == Par!SubmittedUpTo(cut)
             contract == [p \in 1..n |-> Par!Candidate(first[Par!NthSubmitted(p)])]
             back == [i \in 1..cut |-> IF Par!HasSurface(i) THEN contract[Par!SubmittedUpTo(i)]
                                       ELSE Par!InvalidGeometry]
  <2>1. n \in Nat /\ \A i \in 1..cut : Par!HasSurface(i) =>
          Par!SubmittedUpTo(i) \in 1..n /\ Par!NthSubmitted(Par!SubmittedUpTo(i)) = i
    BY EveryPosition
  <2> HIDE DEF n
  <2>2. ASSUME NEW i \in 1..cut
        PROVE  back[i] = Par!Candidate(first[i])
    <3>1. CASE Par!HasSurface(i)
      BY <2>1, <3>1
    <3>2. CASE ~Par!HasSurface(i)
      BY <3>2 DEF Par!Candidate, Par!HasSurface
    <3>3. QED
      BY <3>1, <3>2
  <2>3. results' = back
    BY <1>1, <2>2
  <2>4. Par!BatchContract = contract /\ Len(contract) = n
    BY <2>1 DEF Par!BatchContract, n
  <2> HIDE DEF contract
  <2>5. Par!BatchReturns(contract)
    BY <1>1, <1>4, <2>3, <2>4, SameSubmitted
    DEF Par!BatchReturns, Par!BatchIndex, ParP!stateVars, Par!stateVars, n
  <2>6. ParP!BatchAnswers
    BY <1>2, <2>4, <2>5, SameSubmitted, SameEvaluations DEF ParP!BatchAnswers
  <2>7. QED
    BY <2>6 DEF ParP!Next
<1>5. QED
  BY <1>3, <1>4

\* A serial evaluation that raises does so for a key with a surface.
LEMMA SerialRaises ==
  ASSUME ParP!TypeOK, Ser!InProcessRaises
  PROVE  ParP!Next
<1>1. /\ phase = "evaluating" /\ phase' = "raised"
      /\ UNCHANGED <<solver, ParP!stateVars, ParP!callVars, returned>>
  BY DEF Ser!InProcessRaises, Ser!stateVars, Ser!callVars, ParP!stateVars, ParP!callVars
<1>2. PICK i \in 1..cut : ParP!Raises(first[i])
  BY DEF Ser!InProcessRaises, Ser!Raises, ParP!Raises
<1>3. CASE ~ParP!UseBatch
  BY <1>1, <1>2, <1>3 DEF ParP!InProcessRaises, ParP!Next
<1>4. CASE ParP!UseBatch
  <2>1. ParP!HasSurface(i)
    BY <1>2 DEF ParP!Raises, ParP!HasSurface
  <2>2. ParP!SubmittedUpTo(i) \in 1..ParP!SubmittedUpTo(cut)
    BY <2>1, Assumptions, ParP!SubmittedPositions
  <2>3. ParP!SubmittedUpTo(cut) \in Nat
    BY EveryPosition, SameSubmitted
  <2>4. ParP!SubmittedUpTo(cut) > 0
    BY <2>2, <2>3
  <2>5. QED
    BY <1>1, <1>4, <2>4 DEF ParP!BatchRaises, ParP!Next
<1>5. QED
  BY <1>3, <1>4

\* A batch without a surface is answered without the executor.
LEMMA EmptyAnswered ==
  ASSUME ParP!TypeOK, Par!SubmittedUpTo(cut) = 0, Par!BatchReturns(<<>>)
  PROVE  ParP!Next
<1>1. \A i \in 1..cut : ~Par!HasSurface(i)
  BY EveryPosition
<1>2. \A i \in 1..cut : ~ParP!Raises(first[i])
  BY <1>1 DEF Par!HasSurface, ParP!Raises
<1>3. Par!BatchContract = <<>>
  BY DEF Par!BatchContract
<1>4. ParP!BatchAnswers
  BY <1>2, <1>3, SameSubmitted, SameEvaluations DEF ParP!BatchAnswers
<1>5. QED
  BY <1>4 DEF ParP!Next

\* What the executor collected is what the contract of a batch evaluator says.
LEMMA BatchIsAnswered ==
  ASSUME ParP!TypeOK, PoolP!CallInv, Served, Pool!ReturnAnswer, Par!BatchReturns(collected)
  PROVE  ParP!Next
<1> DEFINE n == Par!SubmittedUpTo(cut)
<1>1. /\ answer' = [i \in DOMAIN batch |-> PoolP!CandidateOf(solver[batch[i]])]
      /\ \A i \in DOMAIN batch : solver[batch[i]].kind # "raises"
  BY Assumptions, SamePoolCalls, PoolP!Answered
<1>2. collected = answer' /\ call # "idle"
  BY DEF Pool!ReturnAnswer
<1>3. batch = [p \in 1..n |-> SurfaceOf[first[Par!NthSubmitted(p)]]]
  BY <1>2 DEF Served, Par!SubmittedSurfaces
<1>4. /\ n \in Nat
      /\ \A i \in 1..cut : Par!HasSurface(i) =>
           Par!SubmittedUpTo(i) \in 1..n /\ Par!NthSubmitted(Par!SubmittedUpTo(i)) = i
      /\ \A p \in 1..n : Par!HasSurface(Par!NthSubmitted(p))
  BY EveryPosition
<1> HIDE DEF n
<1>5. ASSUME NEW p \in 1..n
      PROVE  collected[p] = Par!Candidate(first[Par!NthSubmitted(p)])
  <2>1. collected[p] = Par!CandidateOf(solver[SurfaceOf[first[Par!NthSubmitted(p)]]])
    BY <1>1, <1>2, <1>3, SameCandidates
  <2>2. Par!HasSurface(Par!NthSubmitted(p))
    BY <1>4
  <2>3. QED
    BY <2>1, <2>2 DEF Par!Candidate, Par!HasSurface
<1>6. collected = [p \in 1..n |-> Par!Candidate(first[Par!NthSubmitted(p)])]
  <2>1. collected = [p \in 1..n |-> collected[p]]
    BY <1>1, <1>2, <1>3
  <2>2. QED
    BY <1>5, <2>1
<1>7. collected = Par!BatchContract
  BY <1>6 DEF Par!BatchContract, n
<1>8. ASSUME NEW i \in 1..cut
      PROVE  ~ParP!Raises(first[i])
  <2>1. CASE Par!HasSurface(i)
    <3>1. Par!SubmittedUpTo(i) \in 1..n /\ batch[Par!SubmittedUpTo(i)] = SurfaceOf[first[i]]
      BY <1>3, <1>4, <2>1
    <3>2. solver[SurfaceOf[first[i]]].kind # "raises"
      BY <1>1, <1>3, <3>1
    <3>3. QED
      BY <3>2 DEF ParP!Raises
  <2>2. CASE ~Par!HasSurface(i)
    BY <2>2 DEF Par!HasSurface, ParP!Raises
  <2>3. QED
    BY <2>1, <2>2
<1>9. ParP!BatchAnswers
  BY <1>7, <1>8, SameSubmitted, SameEvaluations DEF ParP!BatchAnswers
<1>10. QED
  BY <1>9 DEF ParP!Next

\* What a step of the pool leaves alone.
LEMMA PoolKeepsSolver ==
  /\ Pool!OpenExecutor => solver' = solver
  /\ Pool!SubmitTask \/ Pool!CollectResult => solver' = solver
  /\ \A w : Pool!WorkerRuns(w) \/ Pool!WorkerLost(w) => solver' = solver
  /\ Pool!Close => solver' = solver
BY DEF Pool!OpenExecutor, Pool!SubmitTask, Pool!CollectResult, Pool!WorkerRuns, Pool!WorkerLost, Pool!Close

\* The state of the evaluator is the part of the state that the other steps leave alone.
LEMMA EvaluatorRests ==
  /\ UNCHANGED <<solver, evaluatorVars>> => UNCHANGED ParP!vars
  /\ UNCHANGED ParP!vars <=> UNCHANGED Par!vars
<1>1. ASSUME UNCHANGED <<solver, evaluatorVars>>
      PROVE  UNCHANGED ParP!vars
  BY <1>1 DEF evaluatorVars, ParP!vars, ParP!stateVars, ParP!callVars
<1>2. UNCHANGED ParP!vars <=> UNCHANGED Par!vars
  BY DEF ParP!vars, Par!vars, ParP!stateVars, Par!stateVars, ParP!callVars, Par!callVars
<1>3. QED
  BY <1>1, <1>2

\* The calls of a search are steps of the evaluator,
LEMMA SearchStep ==
  ASSUME ParP!TypeOK, SearchCalls \/ CallProceeds
  PROVE  ParP!Next
<1>1. CASE SearchCalls
  <2>1. CASE \E v \in Vectors : Par!EvaluateVector(v)
    BY <2>1, SameVectors DEF ParP!Next
  <2>2. CASE \E vs \in Par!VectorSeqs : Par!StartBatch(vs)
    BY <2>2, SameLoops DEF ParP!Next
  <2>3. QED
    BY <1>1, <2>1, <2>2 DEF SearchCalls
<1>2. CASE CallProceeds
  <2>1. CASE Par!ScanVector \/ Par!CutBudget \/ Par!MergeResult \/ Par!FinishBatch
    BY <2>1, SameLoops DEF ParP!Next
  <2>2. CASE Par!EvaluateInProcess \/ Par!InProcessRaises
    BY <2>2, SameEvaluations DEF ParP!Next
  <2>3. CASE Ser!EvaluateInProcess \/ Ser!InProcessRaises
    BY <2>3, SerialIsContract, SerialRaises
  <2>4. QED
    BY <1>2, <2>1, <2>2, <2>3 DEF CallProceeds
<1>3. QED
  BY <1>1, <1>2

\* and so is every other step, or the evaluator rests.
LEMMA EvaluatorStep ==
  ASSUME ParP!TypeOK, PoolP!CallInv, Served, [Next]_vars
  PROVE  [ParP!Next]_(ParP!vars)
<1>1. CASE SearchCalls \/ CallProceeds
  BY <1>1, SearchStep
<1>2. CASE StartSerial \/ StartExecutor \/ ExecutorFails
  BY <1>2, PoolKeepsSolver, EvaluatorRests DEF StartSerial, StartExecutor, ExecutorFails
<1>3. CASE BatchIsCalled
  <2>1. CASE Par!SubmittedUpTo(cut) = 0
    BY <1>3, <2>1, EmptyAnswered DEF BatchIsCalled
  <2>2. CASE Par!SubmittedUpTo(cut) # 0
    BY <1>3, <2>2, EvaluatorRests DEF BatchIsCalled
  <2>3. QED
    BY <2>1, <2>2
<1>4. CASE BatchAnswered
  BY <1>4, BatchIsAnswered DEF BatchAnswered
<1>5. CASE BatchRaised
  BY <1>5, SameEvaluations DEF BatchRaised, ParP!Next
<1>6. CASE PoolWorks
  BY <1>6, PoolKeepsSolver, EvaluatorRests DEF PoolWorks
<1>7. CASE SearchRaises \/ SearchEnds \/ LeaveExecutor \/ Report
  BY <1>7, PoolKeepsSolver, EvaluatorRests DEF SearchRaises, SearchEnds, LeaveExecutor, Report
<1>8. CASE UNCHANGED vars
  BY <1>8, EvaluatorRests DEF vars
<1>9. QED
  BY <1>1, <1>2, <1>3, <1>4, <1>5, <1>6, <1>7, <1>8 DEF Next, SearchProceeds

\* The request never grows beyond its bound.
LEMMA RequestStep ==
  ASSUME ParP!TypeOK, RequestBounded, [ParP!Next]_(ParP!vars)
  PROVE  RequestBounded'
<1>1. /\ Len(first) \in Nat /\ Len(request) \in Nat /\ scanned \in Nat /\ first \in Seq(Keys)
      /\ MaxRequest \in Nat
  BY Assumptions DEF ParP!TypeOK, ParP!EvaluatorAssumption
<1>2. CASE \E vs \in ParP!VectorSeqs : ParP!StartBatch(vs)
  <2>1. PICK n \in 1..MaxRequest : \E vs \in [1..n -> Vectors] : ParP!StartBatch(vs)
    BY <1>2 DEF ParP!VectorSeqs
  <2>2. PICK vs \in [1..n -> Vectors] : ParP!StartBatch(vs)
    BY <2>1
  <2>3. request' = [i \in 1..n |-> Normalize[vs[i]]] /\ first' = <<>> /\ scanned' = 0
    BY <2>2 DEF ParP!StartBatch
  <2>4. Len(request') = n /\ n \in Nat
    BY <1>1, <2>3
  <2>5. QED
    BY <1>1, <2>3, <2>4 DEF RequestBounded
<1>3. CASE ParP!ScanVector
  <2>1. /\ scanned' = scanned + 1 /\ request' = request
        /\ first' = first \/ first' = Append(first, request[scanned + 1])
    BY <1>3 DEF ParP!ScanVector
  <2>2. Len(first') <= Len(first) + 1
    BY <1>1, <2>1
  <2>3. Len(first') \in Nat
    BY <1>1, <2>1
  <2>4. QED
    BY <1>1, <2>1, <2>2, <2>3 DEF RequestBounded
<1>4. CASE ParP!FinishBatch
  BY <1>1, <1>4 DEF ParP!FinishBatch, RequestBounded
<1>5. ASSUME \/ \E v \in Vectors : ParP!EvaluateVector(v)
             \/ ParP!CutBudget \/ ParP!EvaluateInProcess \/ ParP!InProcessRaises
             \/ ParP!BatchAnswers \/ ParP!BatchRaises \/ ParP!MergeResult
             \/ UNCHANGED ParP!vars
      PROVE  UNCHANGED <<request, first, scanned>>
  <2>1. CASE \E v \in Vectors : ParP!EvaluateVector(v)
    BY <2>1 DEF ParP!EvaluateVector, ParP!EvaluateCached, ParP!EvaluateRefused, ParP!EvaluateFresh,
                ParP!EvaluateRaises, ParP!callVars
  <2>2. CASE ParP!CutBudget \/ ParP!EvaluateInProcess \/ ParP!InProcessRaises
    BY <2>2 DEF ParP!CutBudget, ParP!EvaluateInProcess, ParP!InProcessRaises, ParP!callVars
  <2>3. CASE ParP!BatchAnswers \/ ParP!BatchRaises \/ ParP!MergeResult
    BY <2>3 DEF ParP!BatchAnswers, ParP!BatchReturns, ParP!BatchRaises, ParP!MergeResult, ParP!callVars
  <2>4. CASE UNCHANGED ParP!vars
    BY <2>4 DEF ParP!vars, ParP!callVars
  <2>5. QED
    BY <1>5, <2>1, <2>2, <2>3, <2>4
<1>6. UNCHANGED <<request, first, scanned>> => RequestBounded'
  BY DEF RequestBounded
<1>7. QED
  BY <1>2, <1>3, <1>4, <1>5, <1>6 DEF ParP!Next

\* The evaluator keeps its invariant in the whole run.
LEMMA EvaluatorInvStep ==
  ASSUME RunInv, [Next]_vars
  PROVE  EvaluatorInv'
<1>1. ParP!Inv2 /\ ParP!CountInv /\ RequestBounded /\ ParP!TypeOK
  BY DEF RunInv, EvaluatorInv, ParP!Inv2, ParP!Inv1
<1>2. [ParP!Next]_(ParP!vars)
  BY <1>1, EvaluatorStep DEF RunInv, PoolInv
<1>3. ParP!Inv2'
  BY <1>1, <1>2, Assumptions, ParP!Inv2Step
<1>4. ParP!CountInv'
  BY <1>1, <1>2, Assumptions, ParP!CountStep
<1>5. RequestBounded'
  BY <1>1, <1>2, RequestStep
<1>6. QED
  BY <1>3, <1>4, <1>5 DEF EvaluatorInv

-----------------------------------------------------------------------------
(* The pool                                                                *)

\* The pool rests, or takes a step of its own.
LEMMA PoolStep ==
  ASSUME RunInv, [Next]_vars
  PROVE  [PoolP!PoolNext]_(PoolP!poolVars)
<1>1. ParP!TypeOK /\ PoolP!CallInv /\ Served /\ RequestBounded
  BY DEF RunInv, EvaluatorInv, PoolInv, ParP!Inv2, ParP!Inv1
<1>2. ASSUME UNCHANGED <<solver, executorVars>>
      PROVE  UNCHANGED PoolP!poolVars
  BY <1>2 DEF executorVars, PoolP!poolVars, PoolP!processVars, PoolP!callVars
<1>3. CASE SearchCalls \/ CallProceeds
  <2>1. [ParP!Next]_(ParP!vars)
    BY <1>1, <1>3, SearchStep
  <2>2. solver' = solver
    BY <1>1, <2>1, Assumptions, ParP!StateStep DEF RunInv, EvaluatorInv
  <2>3. UNCHANGED executorVars
    BY <1>3 DEF SearchCalls, CallProceeds
  <2>4. QED
    BY <1>2, <2>2, <2>3
<1>4. CASE StartSerial \/ ExecutorFails \/ SearchRaises \/ SearchEnds \/ Report
  BY <1>2, <1>4 DEF StartSerial, ExecutorFails, SearchRaises, SearchEnds, Report
<1>5. CASE StartExecutor
  BY <1>5, SamePoolCalls DEF StartExecutor, PoolP!PoolNext
<1>6. CASE BatchIsCalled
  <2>1. CASE Par!SubmittedUpTo(cut) = 0
    BY <1>2, <1>6, <2>1 DEF BatchIsCalled
  <2>2. CASE Par!SubmittedUpTo(cut) # 0
    <3>1. Par!SubmittedSurfaces \in PoolP!SurfaceSeqs
      BY <1>1, <2>2, SubmittedBounded
    <3>2. PoolP!BeginCall(Par!SubmittedSurfaces)
      BY <1>6, <2>2, SamePoolCalls DEF BatchIsCalled
    <3>3. QED
      BY <3>1, <3>2 DEF PoolP!PoolNext
  <2>3. QED
    BY <2>1, <2>2
<1>7. CASE BatchAnswered \/ BatchRaised
  BY <1>7, SamePoolCalls DEF BatchAnswered, BatchRaised, PoolP!PoolNext, PoolP!CallStep
<1>8. CASE PoolWorks
  BY <1>8, SamePoolCalls, SamePoolWorkers DEF PoolWorks, PoolP!PoolNext, PoolP!CallStep
<1>9. CASE LeaveExecutor
  BY <1>9, SamePoolWorkers DEF LeaveExecutor, PoolP!PoolNext
<1>10. CASE UNCHANGED vars
  BY <1>2, <1>10 DEF vars
<1>11. QED
  BY <1>3, <1>4, <1>5, <1>6, <1>7, <1>8, <1>9, <1>10 DEF Next, SearchProceeds

\* So the pool keeps its invariant in the whole run.
LEMMA CallInvKept ==
  ASSUME RunInv, [Next]_vars
  PROVE  PoolP!CallInv'
<1>1. PoolP!CallInv /\ [PoolP!PoolNext]_(PoolP!poolVars)
  BY PoolStep DEF RunInv, PoolInv
<1>2. QED
  BY <1>1, Assumptions, PoolP!CallInvStep

\* A step that leaves the executor, the workers, the futures and the call alone.
LEMMA SettledRests ==
  ASSUME Settled, UNCHANGED executorVars
  PROVE  Settled'
BY DEF Settled, executorVars

\* The steps of the pool settle: what a call leaves when it returns is finished.
LEMMA SettledStep ==
  ASSUME RunInv, [Next]_vars
  PROVE  Settled'
<1>1. /\ Settled /\ PoolP!CallInv
      /\ executor \in {"none", "open", "closing", "closed"}
      /\ status \in [Workers -> {"unborn", "idle", "busy", "dead"}]
      /\ DOMAIN futures = 1..Len(futures) /\ Len(futures) \in Nat
      /\ raised \in {"none", "worker_failed", "timed_out", "no_process", "broken_pool"}
      /\ executor = "closed" \/ (call = "idle" /\ raised = "none") => Pool!Undone = {} /\ Pool!Busy = {}
      /\ call # "idle" => executor = "open" /\ raised = "none"
      /\ call = "collecting" =>
           Len(futures) = Len(batch) /\ \A i \in 1..Len(collected) : futures[i] = "finished"
  BY PoolFacts DEF RunInv, PoolInv
<1>2. CASE UNCHANGED executorVars
  BY <1>1, <1>2, SettledRests
<1>3. CASE StartExecutor
  BY <1>1, <1>3
  DEF StartExecutor, Pool!OpenExecutor, Pool!Construct, Pool!callVars, Settled
<1>4. CASE \E surfaces : Pool!BeginCall(surfaces)
  BY <1>1, <1>4 DEF Pool!BeginCall, Settled
<1>5. CASE Pool!SubmitTask
  BY <1>1, <1>5 DEF Pool!SubmitTask, Pool!Submit, Settled
<1>6. CASE Pool!CollectResult
  BY <1>1, <1>6 DEF Pool!CollectResult, Pool!processVars, Settled
<1>7. CASE Pool!CallRaises
  <2>1. raised' # "none" /\ executor' = executor /\ executor = "open"
    BY <1>1, <1>7
    DEF Pool!CallRaises, Pool!SubmitRaises, Pool!CollectFailure, Pool!CollectTimesOut,
        Pool!SubmitWithoutProcess, Pool!SubmitWhenBroken, Pool!processVars
  <2>2. QED
    BY <2>1 DEF Settled
<1>8. CASE Pool!ReturnAnswer
  <2>1. /\ call = "collecting" /\ Len(collected) = Len(batch)
        /\ UNCHANGED <<executor, broken, status, job, futures>>
    BY <1>8 DEF Pool!ReturnAnswer, Pool!processVars
  <2>2. \A i \in DOMAIN futures : futures[i] = "finished"
    BY <1>1, <2>1
  <2>3. QED
    BY <1>1, <2>1, <2>2 DEF Settled
<1>9. CASE Pool!Close
  <2>1. UNCHANGED <<call, raised>> /\ executor' \in {"closing", "closed"}
    BY <1>9 DEF Pool!Close, Pool!BeginShutdown, Pool!EndShutdown, Pool!callVars
  <2>2. executor' = "closed" => \A w \in Workers : status'[w] \notin {"idle", "busy"}
    <3>1. CASE Pool!BeginShutdown(TRUE)
      BY <3>1 DEF Pool!BeginShutdown
    <3>2. CASE Pool!EndShutdown(Pool!CloseWaits)
      <4>1. /\ Pool!Busy = {}
            /\ status' = [w \in Workers |-> IF status[w] = "idle" THEN "dead" ELSE status[w]]
        BY <3>2 DEF Pool!EndShutdown, Pool!CloseWaits
      <4>2. \A w \in Workers : status[w] # "busy"
        BY <4>1 DEF Pool!Busy
      <4>3. QED
        BY <4>1, <4>2
    <3>3. QED
      BY <1>9, <3>1, <3>2 DEF Pool!Close
  <2>3. call' = "idle" /\ raised' = "none" => \A i \in DOMAIN futures' : futures'[i] = "finished"
    <3>1. CASE Pool!BeginShutdown(TRUE)
      BY <1>1, <2>1, <3>1 DEF Pool!BeginShutdown, Pool!Pending, Settled
    <3>2. CASE Pool!EndShutdown(Pool!CloseWaits)
      BY <1>1, <2>1, <3>2 DEF Pool!EndShutdown, Settled
    <3>3. QED
      BY <1>9, <3>1, <3>2 DEF Pool!Close
  <2>4. QED
    BY <2>1, <2>2, <2>3 DEF Settled
<1>10. CASE \E w \in Workers : Pool!WorkerRuns(w)
  <2>1. PICK w \in Workers : Pool!TakeTask(w) \/ Pool!FinishTask(w)
    BY <1>10 DEF Pool!WorkerRuns
  <2>2. UNCHANGED <<executor, call, raised>>
    BY <1>10 DEF Pool!WorkerRuns, Pool!TakeTask, Pool!FinishTask, Pool!callVars
  <2>3. status[w] \in {"idle", "busy"}
    BY <2>1 DEF Pool!TakeTask, Pool!FinishTask
  <2>4. executor \notin {"none", "closed"}
    BY <1>1, <2>3 DEF Settled
  <2>5. ~(call = "idle" /\ raised = "none")
    <3>1. Pool!Pending # {} \/ Pool!Busy # {}
      BY <2>1 DEF Pool!TakeTask, Pool!FinishTask, Pool!Busy
    <3>2. Pool!Pending \subseteq Pool!Undone
      BY DEF Pool!Pending, Pool!Undone
    <3>3. QED
      BY <1>1, <3>1, <3>2
  <2>6. QED
    BY <2>2, <2>4, <2>5 DEF Settled
<1>11. CASE \E w \in Workers : Pool!WorkerLost(w)
  <2>1. PICK w \in Workers : Pool!WorkerDies(w)
    BY <1>11 DEF Pool!WorkerLost
  <2>2. UNCHANGED <<executor, call, raised>>
    BY <1>11 DEF Pool!WorkerLost, Pool!WorkerDies, Pool!callVars
  <2>3. /\ w \in Pool!Live
        /\ futures' = [i \in DOMAIN futures |-> IF i \in Pool!Undone THEN "failed" ELSE futures[i]]
    BY <2>1 DEF Pool!WorkerDies
  <2>4. executor \notin {"none", "closed"}
    BY <1>1, <2>3 DEF Settled, Pool!Live
  <2>5. call = "idle" /\ raised = "none" => \A i \in DOMAIN futures' : futures'[i] = "finished"
    BY <1>1, <2>3 DEF Settled
  <2>6. QED
    BY <1>1, <2>2, <2>4, <2>5 DEF Settled
<1>12. QED
  <2>1. CASE StartSerial \/ ExecutorFails \/ SearchCalls \/ CallProceeds
    BY <1>2, <2>1 DEF StartSerial, ExecutorFails, SearchCalls, CallProceeds
  <2>2. CASE SearchRaises \/ SearchEnds \/ Report \/ UNCHANGED vars
    BY <1>2, <2>2 DEF SearchRaises, SearchEnds, Report, vars
  <2>3. CASE BatchIsCalled
    BY <1>2, <1>4, <2>3 DEF BatchIsCalled
  <2>4. CASE BatchAnswered \/ BatchRaised \/ LeaveExecutor
    BY <1>7, <1>8, <1>9, <2>4 DEF BatchAnswered, BatchRaised, LeaveExecutor
  <2>5. CASE PoolWorks
    BY <1>5, <1>6, <1>10, <1>11, <2>5 DEF PoolWorks
  <2>6. QED
    BY <1>3, <2>1, <2>2, <2>3, <2>4, <2>5 DEF Next, SearchProceeds

-----------------------------------------------------------------------------
(* The run                                                                 *)

\* A step of the evaluator other than the end of a batch keeps what was submitted.
LEMMA SubmittedSame ==
  ASSUME UNCHANGED <<first, cut>>
  PROVE  /\ Par!SubmittedSurfaces' = Par!SubmittedSurfaces
         /\ Par!SubmittedUpTo(cut)' = Par!SubmittedUpTo(cut)
         /\ Par!UseBatch' = Par!UseBatch
BY DEF Par!SubmittedSurfaces, Par!SubmittedUpTo, Par!NthSubmitted, Par!HasSurface, Par!UseBatch

\* The evaluator waits while the executor works, and stops with it.
LEMMA ServedStep ==
  ASSUME RunInv, [Next]_vars
  PROVE  Served'
<1>1. Served /\ (call # "idle" => executor = "open" /\ raised = "none")
  BY PoolFacts DEF RunInv, PoolInv
<1>2. CASE UNCHANGED <<evaluatorVars, executorVars>>
  BY <1>1, <1>2, SubmittedSame DEF Served, evaluatorVars, executorVars
<1>3. CASE SearchCalls \/ CallProceeds
  <2>1. UNCHANGED <<call, batch, raised>>
    BY <1>3 DEF SearchCalls, CallProceeds, executorVars
  <2>2. call = "idle"
    <3>1. CASE SearchCalls
      BY <1>1, <3>1 DEF Served, SearchCalls, Par!EvaluateVector, Par!StartBatch
    <3>2. CASE CallProceeds
      BY <1>1, <3>2
      DEF Served, CallProceeds, InPool, Par!ScanVector, Par!CutBudget, Par!MergeResult, Par!FinishBatch,
          Par!EvaluateInProcess, Par!InProcessRaises
    <3>3. QED
      BY <1>3, <3>1, <3>2
  <2>3. raised = "none"
    <3>1. phase # "raised"
      BY <1>3
      DEF SearchCalls, CallProceeds, Par!EvaluateVector, Par!StartBatch, Par!ScanVector, Par!CutBudget,
          Par!MergeResult, Par!FinishBatch, Par!EvaluateInProcess, Par!InProcessRaises,
          Ser!EvaluateInProcess, Ser!InProcessRaises
    <3>2. QED
      BY <1>1, <3>1 DEF Served
  <2>4. QED
    BY <2>1, <2>2, <2>3 DEF Served
<1>4. CASE BatchIsCalled
  <2>1. CASE Par!SubmittedUpTo(cut) = 0
    <3>1. phase = "evaluating" /\ UNCHANGED <<call, raised>>
      BY <1>4, <2>1 DEF BatchIsCalled, executorVars
    <3>2. call = "idle" /\ raised = "none"
      BY <1>1, <2>1, <3>1 DEF Served
    <3>3. QED
      BY <3>1, <3>2 DEF Served
  <2>2. CASE Par!SubmittedUpTo(cut) # 0
    <3>1. /\ phase = "evaluating" /\ Par!UseBatch /\ Pool!BeginCall(Par!SubmittedSurfaces)
          /\ UNCHANGED evaluatorVars
      BY <1>4, <2>2 DEF BatchIsCalled
    <3>2. batch' = Par!SubmittedSurfaces /\ raised' = raised /\ raised = "none"
      BY <3>1 DEF Pool!BeginCall
    <3>3. phase' = "evaluating" /\ UNCHANGED <<first, cut>>
      BY <3>1 DEF evaluatorVars
    <3>4. Par!SubmittedUpTo(cut) \in Nat
      BY EveryPosition DEF RunInv, EvaluatorInv, ParP!Inv2, ParP!Inv1
    <3>5. Par!SubmittedUpTo(cut)' > 0
      BY <2>2, <3>3, <3>4, SubmittedSame
    <3>6. Par!UseBatch' /\ batch' = Par!SubmittedSurfaces'
      BY <3>1, <3>2, <3>3, SubmittedSame
    <3>7. QED
      BY <3>2, <3>3, <3>5, <3>6 DEF Served
  <2>3. QED
    BY <2>1, <2>2
<1>5. CASE BatchAnswered
  <2>1. call' = "idle" /\ raised' = raised /\ raised = "none"
    BY <1>1, <1>5 DEF BatchAnswered, Pool!ReturnAnswer
  <2>2. QED
    BY <2>1 DEF Served
<1>6. CASE BatchRaised
  <2>1. call' = "idle" /\ phase' = "raised"
    BY <1>6
    DEF BatchRaised, Par!BatchRaises, Pool!CallRaises, Pool!SubmitRaises, Pool!CollectFailure,
        Pool!CollectTimesOut
  <2>2. QED
    BY <2>1 DEF Served
<1>7. CASE PoolWorks
  <2>1. UNCHANGED <<batch, raised, phase, first, cut>> /\ (call' # "idle" => call # "idle")
    <3>1. UNCHANGED <<phase, first, cut>>
      BY <1>7 DEF PoolWorks, evaluatorVars
    <3>2. CASE Pool!SubmitTask \/ Pool!CollectResult
      BY <3>1, <3>2 DEF Pool!SubmitTask, Pool!CollectResult
    <3>3. CASE \E w \in Workers : Pool!WorkerRuns(w) \/ Pool!WorkerLost(w)
      BY <3>1, <3>3 DEF Pool!WorkerRuns, Pool!WorkerLost, Pool!callVars
    <3>4. QED
      BY <1>7, <3>2, <3>3 DEF PoolWorks
  <2>2. QED
    BY <1>1, <2>1, SubmittedSame DEF Served
<1>8. CASE StartExecutor \/ LeaveExecutor
  <2>1. UNCHANGED <<batch, raised, call, phase, first, cut>>
    BY <1>8 DEF StartExecutor, LeaveExecutor, Pool!OpenExecutor, Pool!Close, Pool!callVars, evaluatorVars
  <2>2. QED
    BY <1>1, <2>1, SubmittedSame DEF Served
<1>9. CASE StartSerial \/ ExecutorFails \/ SearchRaises \/ SearchEnds \/ Report \/ UNCHANGED vars
  BY <1>2, <1>9 DEF StartSerial, ExecutorFails, SearchRaises, SearchEnds, Report, vars
<1>10. QED
  BY <1>3, <1>4, <1>5, <1>6, <1>7, <1>8, <1>9 DEF Next, SearchProceeds

\* The steps that are not those of a stage leave it alone, and change the incumbent only
\* while the evaluator works.
LEMMA StageRests ==
  /\ CallProceeds \/ BatchIsCalled \/ BatchAnswered \/ BatchRaised =>
       phase # "idle" /\ UNCHANGED <<stage, error, calls, mode, decision>> /\ (InPool' <=> InPool)
         /\ (executor \in {"none", "closed"} => executor' = executor)
  /\ PoolWorks => UNCHANGED <<stage, error, calls, mode, decision, phase, best, executor>>
<1>1. BatchIsCalled => phase # "idle" /\ UNCHANGED <<stage, error, calls, mode, decision, executor>>
  BY DEF BatchIsCalled, runVars, executorVars, Pool!BeginCall
<1>2. BatchAnswered => phase # "idle" /\ UNCHANGED <<stage, error, calls, mode, decision, executor>>
  BY DEF BatchAnswered, runVars, Par!BatchReturns, Pool!ReturnAnswer, Pool!processVars
<1>3. BatchRaised => phase # "idle" /\ UNCHANGED <<stage, error, calls, mode, decision, executor>>
  BY DEF BatchRaised, runVars, Par!BatchRaises, Pool!CallRaises, Pool!SubmitRaises,
         Pool!CollectFailure, Pool!CollectTimesOut, Pool!SubmitWithoutProcess, Pool!SubmitWhenBroken,
         Pool!processVars
<1>4. CallProceeds => phase # "idle" /\ UNCHANGED <<stage, error, calls, mode, decision, executor>>
  BY DEF CallProceeds, runVars, executorVars, Par!ScanVector, Par!CutBudget, Par!MergeResult,
         Par!FinishBatch, Par!EvaluateInProcess, Par!InProcessRaises, Ser!EvaluateInProcess,
         Ser!InProcessRaises
<1>5. PoolWorks => UNCHANGED <<stage, error, calls, mode, decision, phase, best, executor>>
  BY DEF PoolWorks, runVars, evaluatorVars, Pool!SubmitTask, Pool!Submit, Pool!CollectResult,
         Pool!processVars, Pool!WorkerRuns, Pool!WorkerLost, Pool!TakeTask, Pool!FinishTask,
         Pool!WorkerDies
<1>6. QED
  BY <1>1, <1>2, <1>3, <1>4, <1>5 DEF InPool

\* A stage that may end is reached with what its report needs.
LEMMA StageStep ==
  ASSUME RunInv, [Next]_vars
  PROVE  StageSound'
<1>1. /\ StageSound /\ raised \in {"none", "worker_failed", "timed_out", "no_process", "broken_pool"}
  BY PoolFacts DEF RunInv, PoolInv
<1>2. CASE StartSerial \/ StartExecutor
  BY <1>2 DEF StartSerial, StartExecutor, StageSound, Ended
<1>3. CASE ExecutorFails
  BY <1>1, <1>3 DEF ExecutorFails, executorVars, StageSound, Ended
<1>4. CASE SearchCalls
  BY <1>4 DEF SearchCalls, StageSound, Ended
<1>5. CASE CallProceeds \/ BatchIsCalled \/ BatchAnswered \/ BatchRaised
  BY <1>1, <1>5, StageRests DEF StageSound, Ended
<1>6. CASE PoolWorks
  BY <1>1, <1>6, StageRests DEF StageSound, Ended
<1>7. CASE SearchRaises
  BY <1>1, <1>7 DEF SearchRaises, ErrorOfCall, StageSound, Ended
<1>8. CASE SearchEnds
  BY <1>8 DEF SearchEnds, evaluatorVars, StageSound, Ended
<1>9. CASE LeaveExecutor
  BY <1>1, <1>9 DEF LeaveExecutor, runVars, evaluatorVars, StageSound, Ended
<1>10. CASE Report
  BY <1>1, <1>10 DEF Report, evaluatorVars, executorVars, StageSound, Ended
<1>11. CASE UNCHANGED vars
  BY <1>1, <1>11 DEF vars, evaluatorVars, executorVars, runVars, StageSound, Ended
<1>12. QED
  BY <1>2, <1>3, <1>4, <1>5, <1>6, <1>7, <1>8, <1>9, <1>10, <1>11 DEF Next, SearchProceeds

\* The machine has a worker.
LEMMA WorkersCounted == Cardinality(Workers) \in Nat \ {0}
<1>1. IsFiniteSet(Workers) /\ Workers # {}
  BY AnalysisAssumption DEF Pool!WorkersAssumption, Pool!IsFiniteSet, IsFiniteSet
<1>2. QED
  BY <1>1, FS_CardinalityType, FS_EmptySet

\* The decision is made once, and revised only when the executor cannot be started.
LEMMA DecisionStep ==
  ASSUME RunInv, [Next]_vars
  PROVE  Decided'
<1>1. /\ Decided /\ (stage = "resolved" => executor = "none")
      /\ stage \in {"resolved", "searching", "leaving", "reported", "failed"}
  BY DEF RunInv, StageSound, RunTypes
<1>2. CASE StartSerial
  <2>1. decision.mode # "parallel"
    BY <1>1, <1>2 DEF StartSerial, RunParallel, Decided
  <2>2. QED
    BY <1>1, <1>2, <2>1 DEF StartSerial, executorVars, Decided, InPool
<1>3. CASE StartExecutor
  BY <1>1, <1>3 DEF StartExecutor, RunParallel, Pool!OpenExecutor, Pool!Construct, Decided, InPool
<1>4. CASE ExecutorFails
  <2>1. CASE mode = "parallel"
    BY <1>1, <1>4, <2>1 DEF ExecutorFails, Decided
  <2>2. CASE mode # "parallel"
    <3>1. /\ stage' = "searching" /\ mode' = mode /\ executor' = "none"
          /\ decision' = [mode |-> "serial", workers |-> 1,
                          reason |-> "process_backend_startup_failed_serial"]
      BY <1>1, <1>4, <2>2
      DEF ExecutorFails, RunParallel, ResolutionForStartupFailure, Serial, executorVars
    <3>2. 1 \in 1..Cardinality(Workers)
      BY WorkersCounted
    <3>3. decision.mode = "parallel"
      BY <1>4 DEF ExecutorFails, RunParallel
    <3>4. mode # "serial"
      BY <1>1, <3>3 DEF Decided, DecisionReasons
    <3>5. decision'.reason \in DecisionReasons(mode', decision'.mode = "parallel")
      BY <2>2, <3>1, <3>4 DEF DecisionReasons
    <3>6. QED
      BY <1>1, <2>2, <3>1, <3>2, <3>5 DEF Decided, InPool
  <2>3. QED
    BY <2>1, <2>2
<1>5. CASE SearchCalls
  BY <1>1, <1>5 DEF SearchCalls, executorVars, Decided, InPool
<1>6. CASE CallProceeds \/ BatchIsCalled \/ BatchAnswered \/ BatchRaised
  BY <1>1, <1>6, StageRests DEF Decided
<1>7. CASE PoolWorks
  BY <1>1, <1>7, StageRests DEF Decided, InPool
<1>8. CASE SearchRaises \/ SearchEnds \/ Report
  BY <1>1, <1>8 DEF SearchRaises, SearchEnds, Report, executorVars, Decided, InPool
<1>9. CASE LeaveExecutor
  <2>1. executor # "none" /\ executor' # "none" /\ UNCHANGED <<stage, mode, decision>>
    BY <1>9 DEF LeaveExecutor, Pool!Close, Pool!BeginShutdown, Pool!EndShutdown, runVars
  <2>2. QED
    BY <1>1, <2>1 DEF Decided, InPool
<1>10. CASE UNCHANGED vars
  BY <1>1, <1>10 DEF vars, executorVars, runVars, Decided, InPool
<1>11. QED
  BY <1>2, <1>3, <1>4, <1>5, <1>6, <1>7, <1>8, <1>9, <1>10 DEF Next, SearchProceeds

\* The rest of the type invariant.
LEMMA TypesStep ==
  ASSUME RunInv, [Next]_vars
  PROVE  RunTypes'
<1>1. /\ RunTypes /\ MaxCalls \in Nat
      /\ raised \in {"none", "worker_failed", "timed_out", "no_process", "broken_pool"}
  BY PoolFacts, AnalysisAssumption DEF RunInv, PoolInv
<1>2. CASE StartSerial \/ StartExecutor \/ ExecutorFails
  BY <1>1, <1>2 DEF StartSerial, StartExecutor, ExecutorFails, RunTypes
<1>3. CASE SearchCalls
  BY <1>1, <1>3 DEF SearchCalls, RunTypes
<1>4. CASE CallProceeds \/ BatchIsCalled \/ BatchAnswered \/ BatchRaised \/ PoolWorks
  BY <1>1, <1>4, StageRests DEF RunTypes
<1>5. CASE SearchRaises \/ SearchEnds \/ LeaveExecutor \/ Report
  BY <1>1, <1>5 DEF SearchRaises, SearchEnds, LeaveExecutor, Report, ErrorOfCall, runVars, RunTypes
<1>6. CASE UNCHANGED vars
  BY <1>1, <1>6 DEF vars, runVars, RunTypes
<1>7. QED
  BY <1>2, <1>3, <1>4, <1>5, <1>6 DEF Next, SearchProceeds

\* The decision resolved at first names a backend, workers and a reason that fit.
LEMMA Resolved ==
  ASSUME NEW s \in Situations,
         mode = ParallelRequest(s.configured, s.forcedMode, s.forcedWorkers).mode,
         decision = InitialResolution(ParallelRequest(s.configured, s.forcedMode, s.forcedWorkers),
                                      s.search, s.analysisMethod, s.available, s.isNonUniform),
         stage = "resolved"
  PROVE  Decided
<1> DEFINE asked == ParallelRequest(s.configured, s.forcedMode, s.forcedWorkers)
           workers == ResolveRequestedWorkers(asked.workers, s.available)
<1>1. /\ s.configured.mode \in Modes /\ s.forcedMode \in Modes \cup {"none"}
      /\ s.configured.workers \in Int /\ s.forcedWorkers \in Int
      /\ s.available = Cardinality(Workers)
  BY AnalysisAssumption
<1>2. asked.mode \in Modes /\ asked.workers \in Int
  BY <1>1 DEF ParallelRequest
<1> HIDE DEF asked
<1>3. Cardinality(Workers) \in Nat \ {0}
  BY WorkersCounted
<1>4. workers \in 1..Cardinality(Workers)
  BY <1>1, <1>2, <1>3 DEF ResolveRequestedWorkers, Least, Greatest
<1> HIDE DEF workers
<1> DEFINE ToSerial == \E reason \in DecisionReasons(asked.mode, FALSE) : decision = Serial(reason)
           ToParallel == \E reason \in DecisionReasons(asked.mode, TRUE) :
                            decision = Parallel(workers, reason)
<1>5. ToSerial \/ (workers > 1 /\ ToParallel)
  <2>1. decision = InitialResolution(asked, s.search, s.analysisMethod, s.available, s.isNonUniform)
    BY DEF asked
  <2>2. CASE asked.mode = "serial"
    <3>1. decision = Serial("forced_serial_mode")
      BY <2>1, <2>2 DEF InitialResolution
    <3>2. QED BY <2>2, <3>1 DEF DecisionReasons
  <2>3. CASE asked.mode # "serial" /\ workers <= 1
    <3>1. decision = Serial("workers_le_one_serial")
      BY <2>1, <2>3 DEF InitialResolution, workers
    <3>2. QED BY <2>3, <3>1 DEF DecisionReasons
  <2>4. CASE asked.mode = "parallel" /\ workers > 1
    <3>1. decision = Parallel(workers, "forced_parallel_mode")
      BY <1>3, <1>4, <2>1, <2>4 DEF InitialResolution, workers
    <3>2. QED BY <2>4, <3>1 DEF DecisionReasons
  <2>5. CASE asked.mode \notin {"serial", "parallel"} /\ workers > 1
    <3>1. \/ decision = Parallel(workers, "policy_threshold_parallel")
          \/ \E reason \in {"unsupported_workload_serial", "unsupported_batching_serial",
                           "policy_threshold_serial"} : decision = Serial(reason)
      BY <1>3, <1>4, <2>1, <2>5 DEF InitialResolution, workers
    <3>2. QED BY <2>5, <3>1 DEF DecisionReasons
  <2> HIDE DEF ToSerial, ToParallel
  <2>6. workers <= 1 \/ workers > 1
    BY <1>3, <1>4
  <2>7. QED
    BY <2>2, <2>3, <2>4, <2>5, <2>6
<1>6. mode = asked.mode
  BY DEF asked
<1>7. stage = "resolved" /\ 1 \in 1..Cardinality(Workers) /\ mode \in Modes
  BY <1>2, <1>3, <1>6
<1>8. CASE ToSerial
  <2>1. PICK reason \in DecisionReasons(mode, FALSE) : decision = Serial(reason)
    BY <1>6, <1>8
  <2>2. decision.mode = "serial" /\ decision.workers = 1 /\ decision.reason = reason
    BY <2>1 DEF Serial
  <2>3. (decision.mode = "parallel") = FALSE /\ ~(decision.workers > 1)
    BY <2>2
  <2>4. decision.reason \in DecisionReasons(mode, decision.mode = "parallel")
    BY <2>1, <2>2, <2>3
  <2>5. QED
    BY <1>7, <2>2, <2>3, <2>4 DEF Decided
<1>9. CASE workers > 1 /\ ToParallel
  <2>1. PICK reason \in DecisionReasons(mode, TRUE) : decision = Parallel(workers, reason)
    BY <1>6, <1>9
  <2>2. decision.mode = "parallel" /\ decision.workers = workers /\ decision.reason = reason
    BY <2>1 DEF Parallel
  <2>3. QED
    BY <1>4, <1>7, <1>9, <2>1, <2>2 DEF Decided
<1>10. QED
  BY <1>5, <1>8, <1>9

\* The invariant holds at first,
LEMMA RunInit == Init => RunInv
<1> SUFFICES ASSUME Init PROVE RunInv
  OBVIOUS
<1>1. ParP!Init
  BY DEF Init, Par!Init, ParP!Init
<1>2. ParP!Inv2 /\ ParP!CountInv
  BY <1>1, Assumptions, ParP!Inv2Init, ParP!CountInit
<1>3. /\ request = <<>> /\ first = <<>> /\ scanned = 0 /\ phase = "idle"
      /\ MaxRequest \in Nat
  BY <1>1, Assumptions DEF ParP!Init, ParP!EvaluatorAssumption
<1>4. EvaluatorInv
  BY <1>2, <1>3 DEF EvaluatorInv, RequestBounded
<1>5. /\ executor = "none" /\ futures = <<>> /\ status = [w \in Workers |-> "unborn"]
      /\ call = "idle" /\ raised = "none"
  BY DEF Init, Pool!ProcessInit, Pool!CallInit
<1>6. PoolP!PoolInit
  BY DEF Init, Par!Init, Pool!ProcessInit, Pool!CallInit, PoolP!PoolInit, PoolP!ProcessInit, PoolP!CallInit
<1>7. PoolP!CallInv
  BY <1>6, Assumptions, PoolP!InitialCall
<1>8. PoolInv
  BY <1>5, <1>7 DEF PoolInv, Settled
<1>9. stage = "resolved" /\ error = "none" /\ calls = 0 /\ MaxCalls \in Nat
  BY AnalysisAssumption DEF Init
<1>10. Served /\ StageSound /\ RunTypes
  BY <1>5, <1>9 DEF Served, StageSound, Ended, RunTypes
<1>11. Decided
  BY <1>9, Resolved DEF Init
<1>12. QED
  BY <1>4, <1>8, <1>10, <1>11 DEF RunInv

\* and every step keeps it.
LEMMA RunInvariant == Spec => []RunInv
<1>1. RunInv /\ [Next]_vars => RunInv'
  <2> SUFFICES ASSUME RunInv, [Next]_vars PROVE RunInv'
    OBVIOUS
  <2>1. EvaluatorInv'
    BY EvaluatorInvStep
  <2>2. PoolInv'
    BY CallInvKept, SettledStep DEF PoolInv
  <2>3. Served' /\ StageSound' /\ Decided' /\ RunTypes'
    BY ServedStep, StageStep, DecisionStep, TypesStep
  <2>4. QED
    BY <2>1, <2>2, <2>3 DEF RunInv
<1>2. QED
  BY <1>1, RunInit, PTL DEF Spec

-----------------------------------------------------------------------------
(* What a run promises                                                     *)

\* run_analysis() keeps the types of its own state, of the evaluator and of the pool.
THEOREM RunTypeCorrect == Spec => []RunTypeOK
<1>1. RunInv => RunTypeOK
  <2> SUFFICES ASSUME RunInv PROVE RunTypeOK
    OBVIOUS
  <2>1. ParP!TypeOK
    BY DEF RunInv, EvaluatorInv, ParP!Inv2, ParP!Inv1
  <2>2. Par!TypeOK
    BY <2>1
    DEF ParP!TypeOK, Par!TypeOK, ParP!Entries, Par!Entries, ParP!Reasons, Par!Reasons,
        ParP!Incumbents, Par!Incumbents, ParP!Phases, Par!Phases, ParP!Candidates, Par!Candidates
  <2>3. PoolP!PoolShape /\ PoolP!CallTypeOK
    BY DEF RunInv, PoolInv, PoolP!CallInv
  <2>4. Pool!PoolTypeOK
    BY <2>3
    DEF PoolP!PoolShape, PoolP!CallTypeOK, PoolP!ProcessTypeOK, Pool!PoolTypeOK, Pool!ProcessTypeOK,
        PoolP!FutureStates, Pool!FutureStates, PoolP!Candidates, Pool!Candidates,
        PoolP!Reasons, Pool!Reasons
  <2>5. QED
    BY <2>2, <2>4 DEF RunTypeOK, RunInv, Decided, RunTypes
<1>2. QED
  BY <1>1, RunInvariant, PTL

\* The with block of run_analysis() leaves no worker process and no unfinished task behind,
\* however the search ends.
THEOREM NothingIsLeft == Spec => []NothingLeftBehind
<1>1. RunInv => NothingLeftBehind
  <2> SUFFICES ASSUME RunInv, Ended
               PROVE  executor \in {"none", "closed"} /\ Pool!Live = {} /\ (InPool => Pool!Undone = {})
    BY DEF NothingLeftBehind
  <2>1. executor \in {"none", "closed"}
    BY DEF RunInv, StageSound
  <2>2. /\ status \in [Workers -> {"unborn", "idle", "busy", "dead"}]
        /\ executor = "closed" => Pool!Undone = {}
    BY PoolFacts DEF RunInv, PoolInv
  <2>3. \A w \in Workers : status[w] \notin {"idle", "busy"}
    BY <2>1 DEF RunInv, PoolInv, Settled
  <2>4. QED
    BY <2>1, <2>2, <2>3 DEF Pool!Live, InPool
<1>2. QED
  BY <1>1, RunInvariant, PTL

\* A run reports only if every call came back whole: after the error of one the search is
\* given up.
THEOREM ResultIsWhole == Spec => []NoPartialResult
<1>1. RunInv => NoPartialResult
  <2> SUFFICES ASSUME RunInv, stage = "reported"
               PROVE  /\ raised = "none" /\ phase = "idle" /\ best # NoBest
                      /\ Par!AccountingExact
                      /\ \A i \in DOMAIN futures : futures[i] = "finished"
    BY DEF NoPartialResult
  <2>1. phase = "idle" /\ best # NoBest /\ executor \in {"none", "closed"}
    BY DEF RunInv, StageSound, Ended
  <2>2. raised = "none" /\ call = "idle"
    BY <2>1 DEF RunInv, Served
  <2>3. \A i \in DOMAIN futures : futures[i] = "finished"
    BY <2>2 DEF RunInv, PoolInv, Settled
  <2>4. /\ total = ParP!Cardinality(ParP!EvaluatedKeys) + ParP!Ahead /\ total <= MaxEvaluations
        /\ valid = ParP!Cardinality(ParP!ValidKeys)
        /\ valid + infeasible = ParP!Cardinality(ParP!EvaluatedKeys)
    BY DEF RunInv, EvaluatorInv, ParP!CountInv, ParP!Inv2, ParP!BudgetInv
  <2>5. Par!AccountingExact
    <3>1. ParP!EvaluatedKeys = Par!EvaluatedKeys /\ ParP!ValidKeys = Par!ValidKeys
      BY DEF ParP!EvaluatedKeys, Par!EvaluatedKeys, ParP!ValidKeys, Par!ValidKeys
    <3>2. \A S : ParP!Cardinality(S) = Par!Cardinality(S)
      BY DEF ParP!Cardinality, Par!Cardinality
    <3>3. ParP!Ahead = Par!Ahead
      BY DEF ParP!Ahead, Par!Ahead
    <3>4. QED
      BY <2>4, <3>1, <3>2, <3>3 DEF Par!AccountingExact
  <2>6. QED
    BY <2>1, <2>2, <2>3, <2>5
<1>2. QED
  BY <1>1, RunInvariant, PTL

\* The metadata of a result name the backend that evaluated it, the workers it had and a
\* reason there is for that backend to serve the mode asked for.
THEOREM BackendReported == Spec => []ReportNamesBackend
<1>1. RunInv => ReportNamesBackend
  <2> SUFFICES ASSUME RunInv, stage = "reported"
               PROVE  /\ decision.mode = "parallel" <=> InPool
                      /\ decision.workers \in (IF InPool THEN 2..Cardinality(Workers) ELSE {1})
                      /\ decision.reason \in DecisionReasons(mode, InPool)
    BY DEF ReportNamesBackend
  <2>1. Cardinality(Workers) \in Nat /\ decision.workers \in 1..Cardinality(Workers)
    BY WorkersCounted DEF RunInv, Decided
  <2>2. decision.mode = "parallel" <=> InPool
    BY DEF RunInv, Decided
  <2>3. decision.workers > 1 <=> InPool
    BY <2>2 DEF RunInv, Decided
  <2>4. decision.reason \in DecisionReasons(mode, InPool)
    <3>1. CASE InPool
      BY <2>2, <3>1 DEF RunInv, Decided, DecisionReasons
    <3>2. CASE ~InPool
      BY <2>2, <3>2 DEF RunInv, Decided, DecisionReasons
    <3>3. QED BY <3>1, <3>2
  <2>5. QED
    BY <2>1, <2>2, <2>3, <2>4
<1>2. QED
  BY <1>1, RunInvariant, PTL

\* A run with the executor is one of the evaluator, whose batches are answered by their
\* contract: every step of the run is one of the evaluator or leaves it alone.
THEOREM RunImplementsEvaluator == Spec => ImplementsEvaluator
<1>1. Init => Par!Init
  BY DEF Init
<1>2. RunInv /\ [Next]_vars => [Par!Next \/ Ser!Next]_(Par!vars)
  <2> SUFFICES ASSUME RunInv, [Next]_vars PROVE [Par!Next \/ Ser!Next]_(Par!vars)
    OBVIOUS
  <2>1. ParP!TypeOK /\ PoolP!CallInv /\ Served
    BY DEF RunInv, EvaluatorInv, PoolInv, ParP!Inv2, ParP!Inv1
  <2>2. ParP!Next \/ UNCHANGED ParP!vars
    BY <2>1, EvaluatorStep
  <2>3. QED
    BY <2>2, SameNext, EvaluatorRests
<1>3. QED
  BY <1>1, <1>2, RunInvariant, PTL DEF Spec, ImplementsEvaluator

-----------------------------------------------------------------------------
(* What the calls of a run amount to *)

\* Runs, with the history variable of EvaluatorCalls: it follows the steps of
\* the evaluator, and stays as it is while the pool or the run take theirs.
RecordedSpec ==
  /\ Spec
  /\ atCall = ParP!StateNow
  /\ [][IF UNCHANGED ParP!vars THEN atCall' = atCall ELSE ParP!Remember]_<<vars, atCall>>

LEMMA RunIsHistory == RecordedSpec => ParP!HistorySpec
<1> DEFINE Records == IF UNCHANGED ParP!vars THEN atCall' = atCall ELSE ParP!Remember
<1>1. Init => ParP!Init
  BY DEF Init, Par!Init, ParP!Init
<1>2. RunInv /\ [Next]_vars /\ [Records]_<<vars, atCall>>
        => [ParP!Next /\ ParP!Remember]_<<ParP!vars, atCall>>
  <2> SUFFICES ASSUME RunInv, [Next]_vars, [Records]_<<vars, atCall>>
               PROVE  [ParP!Next /\ ParP!Remember]_<<ParP!vars, atCall>>
    OBVIOUS
  <2>1. ParP!TypeOK /\ PoolP!CallInv /\ Served
    BY DEF RunInv, EvaluatorInv, PoolInv, ParP!Inv2, ParP!Inv1
  <2>2. ParP!Next \/ UNCHANGED ParP!vars
    BY <2>1, EvaluatorStep
  <2>3. CASE UNCHANGED ParP!vars
    BY <2>3
  <2>4. CASE ~UNCHANGED ParP!vars
    <3>1. ~UNCHANGED <<vars, atCall>>
      BY <2>4 DEF vars, evaluatorVars, ParP!vars, ParP!stateVars, ParP!callVars
    <3>2. QED
      BY <2>2, <2>4, <3>1
  <2>5. QED
    BY <2>3, <2>4
<1>3. QED
  BY <1>1, <1>2, RunInvariant, PTL DEF RecordedSpec, Spec, ParP!HistorySpec, ParP!HistoryInit

(* Whatever mode was resolved, however the workers interleave and whatever  *)
(* fails, a batch call of a run that comes back leaves the cache, the       *)
(* counters and the incumbent of the serial evaluation of its vectors, and  *)
(* returns its answers (run_analysis over evaluate_vectors_batch).          *)
THEOREM RunMatchesSerial == RecordedSpec => ParP!BatchMatchesSerial
<1>1. ParP!HistorySpec => ParP!BatchMatchesSerial
  BY Assumptions, ParP!BatchEqualsSerial
<1>2. QED
  BY <1>1, RunIsHistory, PTL

(* and the calls its search makes, through the pool or not, are the Asks of *)
(* SearchObjective on which the models of the searches are built.           *)
THEOREM RunCallsAreAsks == RecordedSpec => ParP!CallIsOneAsk
<1>1. ParP!HistorySpec => ParP!CallIsOneAsk
  BY Assumptions, ParP!CallsAreAsks
<1>2. QED
  BY <1>1, RunIsHistory, PTL
=============================================================================
