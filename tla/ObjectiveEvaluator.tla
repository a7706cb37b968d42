------------------------- MODULE ObjectiveEvaluator -------------------------
(***************************************************************************)
(* CachedObjectiveEvaluator (search/objective_evaluator.py), the memoised, *)
(* budgeted objective that every global search asks for scores, with the   *)
(* functions of search/common.py it calls: is_better_score,                *)
(* evaluate_surface_candidates_batch and those of SurfaceCandidates.       *)
(*                                                                         *)
(* evaluate_vector is one action.  evaluate_vectors_batch is the sequence  *)
(* of its loops: one step for each vector scanned, one for the budget cut, *)
(* one for the evaluation of the keys that are left, one for each result   *)
(* merged, one for the refusal of the overflow and the return.             *)
(*                                                                         *)
(* A surface is named by its rank in the order of surface_key, a score is  *)
(* an integer multiple of a unit far below TIE_TOL, and what the solver    *)
(* does with each surface is fixed for a run: `solver' is a constant of a  *)
(* behaviour that Init chooses.                                            *)
(***************************************************************************)
EXTENDS SurfaceCandidates, Integers, Sequences, FiniteSets

CONSTANTS
  Vectors,               \* raw vectors the strategies propose
  Keys,                  \* vectors after repair and rounding: the cache keys
  Normalize,             \* repair_vector, then round_vector
  Surfaces,              \* circles, by rank in surface_key order
  SurfaceOf,             \* map_vector_to_surface, by key
  NoSurface,             \* None: the key maps to no circle
  Outcomes,              \* what the solver may do with a surface
  MaxEvaluations,        \* the evaluation budget
  TieTol,                \* TIE_TOL
  MinBatchSize,          \* min_batch_size, at least 1
  HasBatchEvaluator,     \* whether batch_evaluate_surfaces is given
  InvalidGeometryScore, InvalidResultScore, ExceptionScore,  \* the policy
  NotSet,                \* a policy score that is None
  NotCached,
  NoBest,
  MaxRequest             \* bound on the length of a batch request

-----------------------------------------------------------------------------
ASSUME EvaluatorAssumption ==
  /\ Normalize \in [Vectors -> Keys]
  /\ Surfaces \subseteq Int
  /\ NoSurface \notin Surfaces
  /\ SurfaceOf \in [Keys -> Surfaces \cup {NoSurface}]
  /\ Outcomes \subseteq OutcomeType
  /\ MaxEvaluations \in Nat
  /\ TieTol \in Nat
  /\ MinBatchSize \in Nat \ {0}
  /\ HasBatchEvaluator \in BOOLEAN
  /\ NotSet \notin Int
  /\ InvalidGeometryScore \in Int
  /\ InvalidResultScore \in Int \cup {NotSet}
  /\ ExceptionScore \in Int \cup {NotSet}
  /\ MaxRequest \in Nat

-----------------------------------------------------------------------------
(* Cache entries *)

Entries == [reason : Reasons \cup {"max_evaluations"}, score : Int]

ScoreForReason(reason) ==
  IF reason = "invalid_geometry" THEN InvalidGeometryScore
  ELSE IF reason = "evaluation_exception" /\ ExceptionScore # NotSet THEN ExceptionScore
  ELSE IF InvalidResultScore # NotSet THEN InvalidResultScore
  ELSE InvalidGeometryScore

EntryOf(c) ==
  [reason |-> c.reason,
   score |-> IF c.reason = "valid" THEN c.fos ELSE ScoreForReason(c.reason)]

RefusedEntry == [reason |-> "max_evaluations", score |-> InvalidGeometryScore]

Incumbents == [vector : Keys, score : Int]

\* None is no entry and no incumbent.
ASSUME NoneAssumption ==
  /\ NotCached \notin Entries
  /\ NoBest \notin Incumbents

-----------------------------------------------------------------------------
VARIABLES
  solver,        \* what evaluate_surface does with each surface
  cache,         \* the memo
  total, valid, infeasible,
  best,          \* best_vector (hence best_surface and best_result), best_score
  phase,         \* where the current call is; "idle" between calls
  request,       \* normalized: the keys of the batch call
  scanned,       \* how many of them have been scanned
  first,         \* first_uncached_keys
  cut,           \* keys_to_evaluate is first[1..cut], overflow_keys the rest
  results,       \* candidate_results
  merged,        \* how many of them have been merged
  returned       \* what the last call returned

stateVars == <<cache, total, valid, infeasible, best>>
callVars == <<request, scanned, first, cut, results, merged>>
vars == <<solver, stateVars, phase, callVars, returned>>

Phases == {"idle", "scanning", "evaluating", "merging", "raised"}

RequestSeqs == UNION {[1..n -> Keys] : n \in 1..MaxRequest}

Init ==
  /\ solver \in [Surfaces -> Outcomes]
  /\ cache = [k \in Keys |-> NotCached]
  /\ total = 0 /\ valid = 0 /\ infeasible = 0
  /\ best = NoBest
  /\ phase = "idle"
  /\ request = <<>> /\ scanned = 0 /\ first = <<>> /\ cut = 0
  /\ results = <<>> /\ merged = 0
  /\ returned = <<>>

Raises(k) == SurfaceOf[k] # NoSurface /\ solver[SurfaceOf[k]].kind = "raises"

\* The candidate the solver's outcome makes of a key.
Candidate(k) ==
  IF SurfaceOf[k] = NoSurface THEN InvalidGeometry ELSE CandidateOf(solver[SurfaceOf[k]])

\* Fault: a tie keeps the incumbent whatever the surface keys.
FirstTieWins(k, score) == best = NoBest \/ score < best.score - TieTol

\* is_better_score against the incumbent.
IsBetterScore(k, score) ==
  \/ best = NoBest
  \/ score < best.score - TieTol
  \/ /\ score <= best.score + TieTol
     /\ score >= best.score - TieTol
     /\ SurfaceOf[k] < SurfaceOf[best.vector]

UpdateIncumbent(k, e) ==
  best' = IF e.reason = "valid" /\ IsBetterScore(k, e.score)
            THEN [vector |-> k, score |-> e.score]
            ELSE best

\* One evaluation enters the cache and the counters.
Install(k, e) ==
  /\ cache' = [cache EXCEPT ![k] = e]
  /\ total' = total + 1
  /\ valid' = IF e.reason = "valid" THEN valid + 1 ELSE valid
  /\ infeasible' = IF e.reason = "valid" THEN infeasible ELSE infeasible + 1
  /\ UpdateIncumbent(k, e)

BudgetSpent == total >= MaxEvaluations

-----------------------------------------------------------------------------
(* evaluate_vector *)

EvaluateCached(k) ==
  /\ cache[k] # NotCached
  /\ returned' = <<cache[k]>>
  /\ UNCHANGED <<solver, stateVars, phase, callVars>>

EvaluateRefused(k) ==
  /\ cache[k] = NotCached
  /\ BudgetSpent
  /\ cache' = [cache EXCEPT ![k] = RefusedEntry]
  /\ returned' = <<RefusedEntry>>
  /\ UNCHANGED <<solver, total, valid, infeasible, best, phase, callVars>>

EvaluateFresh(k) ==
  /\ cache[k] = NotCached
  /\ ~BudgetSpent
  /\ ~Raises(k)
  /\ Install(k, EntryOf(Candidate(k)))
  /\ returned' = <<EntryOf(Candidate(k))>>
  /\ UNCHANGED <<solver, phase, callVars>>

\* The evaluation raises what the candidate evaluation does not catch: the
\* counter has been advanced, nothing else has.
EvaluateRaises(k) ==
  /\ cache[k] = NotCached
  /\ ~BudgetSpent
  /\ Raises(k)
  /\ total' = total + 1
  /\ phase' = "raised"
  /\ UNCHANGED <<solver, cache, valid, infeasible, best, callVars, returned>>

EvaluateVector(v) ==
  /\ phase = "idle"
  /\ LET k == Normalize[v]
     IN  EvaluateCached(k) \/ EvaluateRefused(k) \/ EvaluateFresh(k) \/ EvaluateRaises(k)

-----------------------------------------------------------------------------
(* evaluate_vectors_batch *)

\* The call normalizes every vector before it looks at any.
StartBatch(vs) ==
  /\ phase = "idle"
  /\ phase' = "scanning"
  /\ request' = [i \in DOMAIN vs |-> Normalize[vs[i]]]
  /\ scanned' = 0 /\ first' = <<>> /\ cut' = 0 /\ results' = <<>> /\ merged' = 0
  /\ UNCHANGED <<solver, stateVars, returned>>

\* seen_uncached holds exactly the keys of first.
Seen(k) == \E i \in 1..Len(first) : first[i] = k

\* Fault: duplicates inside a request are not removed.
SkipCachedOnly(k) == cache[k] # NotCached

SkipVector(k) == cache[k] # NotCached \/ Seen(k)

ScanVector ==
  /\ phase = "scanning"
  /\ scanned < Len(request)
  /\ scanned' = scanned + 1
  /\ LET k == request[scanned + 1]
     IN  first' = IF SkipVector(k) THEN first ELSE Append(first, k)
  /\ UNCHANGED <<solver, stateVars, phase, request, cut, results, merged, returned>>

\* Fault: the last evaluation of the budget is never used by a batch.
RemainingBudgetShort == IF MaxEvaluations > total + 1 THEN MaxEvaluations - total - 1 ELSE 0

RemainingBudget == IF MaxEvaluations > total THEN MaxEvaluations - total ELSE 0

CutPoint == IF Len(first) < RemainingBudget THEN Len(first) ELSE RemainingBudget

CutBudget ==
  /\ phase = "scanning"
  /\ scanned = Len(request)
  /\ cut' = CutPoint
  /\ phase' = "evaluating"
  /\ UNCHANGED <<solver, stateVars, request, scanned, first, results, merged, returned>>

UseBatch == HasBatchEvaluator /\ cut >= MinBatchSize

\* valid_indices: the keys to evaluate that have a surface, in order.
HasSurface(i) == SurfaceOf[first[i]] # NoSurface
SubmittedUpTo(i) == Cardinality({j \in 1..i : HasSurface(j)})
NthSubmitted(p) == CHOOSE i \in 1..cut : HasSurface(i) /\ SubmittedUpTo(i) = p

\* valid_surfaces: what the batch evaluator is given, None left out.
SubmittedSurfaces == [p \in 1..SubmittedUpTo(cut) |-> SurfaceOf[first[NthSubmitted(p)]]]

\* Every surface is evaluated in this process, in order.
EvaluateInProcess ==
  /\ phase = "evaluating"
  /\ ~UseBatch
  /\ \A i \in 1..cut : ~Raises(first[i])
  /\ results' = [i \in 1..cut |-> Candidate(first[i])]
  /\ phase' = "merging"
  /\ UNCHANGED <<solver, stateVars, request, scanned, first, cut, merged, returned>>

InProcessRaises ==
  /\ phase = "evaluating"
  /\ ~UseBatch
  /\ \E i \in 1..cut : Raises(first[i])
  /\ phase' = "raised"
  /\ UNCHANGED <<solver, stateVars, callVars, returned>>

\* Fault: results are taken in the reverse of the order submitted.
BatchIndexReversed(i) == SubmittedUpTo(cut) + 1 - SubmittedUpTo(i)

\* The position of a result among the surfaces submitted.
BatchIndex(i) == SubmittedUpTo(i)

\* The batch evaluator has returned a list: it is put back at the indices its
\* surfaces came from.
BatchReturns(list) ==
  /\ phase = "evaluating"
  /\ UseBatch
  /\ Len(list) = SubmittedUpTo(cut)
  /\ results' = [i \in 1..cut |->
                   IF HasSurface(i) THEN list[BatchIndex(i)] ELSE InvalidGeometry]
  /\ phase' = "merging"
  /\ UNCHANGED <<solver, stateVars, request, scanned, first, cut, merged, returned>>

\* It has raised, or has returned a list of the wrong length: the call
\* raises.  It is not called at all when no surface is left to submit.
BatchRaises ==
  /\ phase = "evaluating"
  /\ UseBatch
  /\ SubmittedUpTo(cut) > 0
  /\ phase' = "raised"
  /\ UNCHANGED <<solver, stateVars, callVars, returned>>

MergeResult ==
  /\ phase = "merging"
  /\ merged < cut
  /\ merged' = merged + 1
  /\ Install(first[merged + 1], EntryOf(results[merged + 1]))
  /\ UNCHANGED <<solver, phase, request, scanned, first, cut, results, returned>>

Overflow == {first[i] : i \in (cut + 1)..Len(first)}

FinishBatch ==
  /\ phase = "merging"
  /\ merged = cut
  /\ cache' = [k \in Keys |-> IF k \in Overflow THEN RefusedEntry ELSE cache[k]]
  /\ returned' = [i \in DOMAIN request |-> cache'[request[i]]]
  /\ phase' = "idle"
  /\ request' = <<>> /\ scanned' = 0 /\ first' = <<>> /\ cut' = 0
  /\ results' = <<>> /\ merged' = 0
  /\ UNCHANGED <<solver, total, valid, infeasible, best>>

-----------------------------------------------------------------------------
(* The evaluator with a batch evaluator that keeps its contract: it returns *)
(* the candidates of the surfaces it was given, in their order, or raises.  *)

VectorSeqs == UNION {[1..n -> Vectors] : n \in 1..MaxRequest}

BatchContract == [p \in 1..SubmittedUpTo(cut) |-> Candidate(first[NthSubmitted(p)])]

BatchAnswers ==
  /\ \A i \in 1..cut : ~Raises(first[i])
  /\ BatchReturns(BatchContract)

Next ==
  \/ \E v \in Vectors : EvaluateVector(v)
  \/ \E vs \in VectorSeqs : StartBatch(vs)
  \/ ScanVector
  \/ CutBudget
  \/ EvaluateInProcess
  \/ InProcessRaises
  \/ BatchAnswers
  \/ BatchRaises
  \/ MergeResult
  \/ FinishBatch

Spec == Init /\ [][Next]_vars

-----------------------------------------------------------------------------
(* Properties *)

TypeOK ==
  /\ solver \in [Surfaces -> Outcomes]
  /\ cache \in [Keys -> Entries \cup {NotCached}]
  /\ total \in Nat /\ valid \in Nat /\ infeasible \in Nat
  /\ best \in Incumbents \cup {NoBest}
  /\ phase \in Phases
  /\ request \in Seq(Keys)
  /\ scanned \in 0..Len(request)
  /\ first \in Seq(Keys)
  /\ cut \in 0..Len(first)
  /\ results \in Seq(Candidates)
  /\ merged \in 0..cut
  /\ returned \in Seq(Entries)

ValidKeys == {k \in Keys : cache[k] # NotCached /\ cache[k].reason = "valid"}

EvaluatedKeys ==
  {k \in Keys : cache[k] # NotCached /\ cache[k].reason # "max_evaluations"}

\* The evaluation of one vector is counted before it is made: when it raises, the counter
\* is one ahead.  A batch counts when it merges, and no request of one is empty.
Ahead == IF phase = "raised" /\ request = <<>> THEN 1 ELSE 0

(* Every evaluation that was paid for is one cached entry, and is counted  *)
(* as what it is: duplicates inside a request, cached keys and refused     *)
(* keys cost nothing, no entry is counted twice, and the budget is never   *)
(* exceeded.  Only the evaluation of one vector that raises is paid for    *)
(* without an entry; a batch that raises has paid for nothing.             *)
AccountingExact ==
  /\ total = Cardinality(EvaluatedKeys) + Ahead
  /\ total <= MaxEvaluations
  /\ valid = Cardinality(ValidKeys)
  /\ valid + infeasible = Cardinality(EvaluatedKeys)

(* The incumbent is a valid entry of the cache under its own score, there  *)
(* is one as soon as anything is valid, and it is at most one tie          *)
(* tolerance per later valid point above the lowest score found.           *)
IncumbentSound ==
  /\ best = NoBest <=> valid = 0
  /\ best # NoBest =>
       /\ best.vector \in ValidKeys
       /\ best.score = cache[best.vector].score
       /\ \A k \in ValidKeys : best.score <= cache[k].score + TieTol * (valid - 1)

\* Scores found so far are equal or further apart than the tolerance.
ScoresSeparated ==
  \A j, k \in ValidKeys :
    \/ cache[j].score = cache[k].score
    \/ cache[j].score > cache[k].score + TieTol
    \/ cache[k].score > cache[j].score + TieTol

\* The lowest score found and, among equals, the surface first in surface_key order.
LowestFirst ==
  ScoresSeparated =>
    \A k \in ValidKeys :
      \/ best.score < cache[k].score
      \/ /\ best.score = cache[k].score
         /\ SurfaceOf[best.vector] <= SurfaceOf[k]

(* Away from near-ties the incumbent does not depend on the order in which *)
(* points were evaluated: it is the lowest score, then the first surface.  *)
(* A chain of near-ties can lead it away from the lowest score, by one     *)
(* tolerance for every valid point after the first and never further.      *)
IncumbentOptimal == IncumbentSound /\ LowestFirst

(* The evaluator implements the budgeted memo: whatever the requests, one  *)
(* at a time or in batches, every key is scored at most once, with its own *)
(* score, for one unit of budget, and refused only when the budget is      *)
(* spent; no answer ever changes.                                          *)
Memo == INSTANCE BudgetedMemo WITH
  Points <- Keys, Budget <- MaxEvaluations,
  Unknown <- NotCached, Refused <- RefusedEntry,
  truth <- [k \in Keys |-> EntryOf(Candidate(k))],
  memo <- cache, spent <- total, open <- phase # "raised"

ImplementsBudgetedMemo == Memo!MemoSpec
=============================================================================
