---------------------------- MODULE DirectSearch ----------------------------
(***************************************************************************)
(* run_direct_global_search (search/direct_global.py) on the rectangles of *)
(* DirectPartition: the seeding of the normalized box, then one action for *)
(* each iteration of the loop, and after it the refinement passes, which   *)
(* have no budget and counters of their own.                               *)
(***************************************************************************)
EXTENDS BudgetedSearch, DirectPartition

CONSTANT
  DirectConfigurations   \* the values of DirectGlobalSearchInput

DirectConfigurationType ==
  [maxEvaluations : Nat \ {0}, maxIterations : 1..GridDepth, stallIterations : Nat \ {0},
   minImprovement : Nat, minRectangleHalfSize : Nat]

\* Scores are factors of safety or infinite, and surface keys are ordered.
ASSUME DirectAssumption ==
  /\ Invalid = Infinity
  /\ DirectConfigurations \subseteq DirectConfigurationType
  /\ \A p \in [Axes -> 1..(Box - 1)] : ScoresAt(p) \subseteq 0..Infinity /\ KeyOf(p) \in Int

VARIABLES
  incumbentId,           \* incumbent_rect_id
  diagnostics            \* one record for each iteration

directSearchVars == <<rectangles, nextRectId, incumbentId, diagnostics, stage, reason>>
directVars == <<objectiveVars, directSearchVars, solved, winner, refinementVars>>

DirectPasses == <<"toe_crest", "toe_locked_beta">>

DirectInit ==
  /\ config \in DirectConfigurations
  /\ ObjectiveInit /\ RefinementInit(DirectPasses)
  /\ rectangles = {} /\ nextRectId = 0 /\ incumbentId = -1
  /\ diagnostics = <<>>
  /\ stage = "start" /\ reason = "none"

RectangleOf(id) == CHOOSE rect \in rectangles : rect.id = id

SeedBox ==
  /\ stage = "start"
  /\ Evaluate(CentersById(SeedRectangles), Infinity)
  /\ rectangles' = Scored(SeedRectangles, memo')
  /\ nextRectId' = Cardinality(Seeds)
  /\ incumbentId' = BestOf(rectangles').id
  /\ stage' = IF BestFound(memo') = Infinity THEN "failed" ELSE "running"
  /\ UNCHANGED <<diagnostics, reason, solved, winner, refinementVars>>

\* The seeds have spent the budget: the loop is left before it divides.
StopBeforeDividing ==
  /\ stage = "running" /\ BudgetSpent
  /\ stage' = "finished" /\ reason' = "max_evaluations"
  /\ UNCHANGED <<objectiveVars, rectangles, nextRectId, incumbentId, diagnostics,
                 solved, winner, refinementVars>>

Stalled(history) ==
  /\ Len(history) > config.stallIterations
  /\ history[Len(history) - config.stallIterations].incumbentFos - history[Len(history)].incumbentFos
       < config.minImprovement

\* Fault: the budget is looked at only at the head of the loop.
BudgetNotChecked(evaluations, size, history) ==
  IF size <= config.minRectangleHalfSize THEN "min_rectangle_half_size_reached"
  ELSE IF Stalled(history) THEN "stall_tolerance_reached"
  ELSE IF Len(history) = config.maxIterations THEN "max_iterations"
  ELSE "none"

\* Why the loop ends after an iteration; "none" when it goes on.
TerminationReason(evaluations, size, history) ==
  IF evaluations >= config.maxEvaluations THEN "max_evaluations"
  ELSE IF size <= config.minRectangleHalfSize THEN "min_rectangle_half_size_reached"
  ELSE IF Stalled(history) THEN "stall_tolerance_reached"
  ELSE IF Len(history) = config.maxIterations THEN "max_iterations"
  ELSE "none"

Iterate ==
  /\ stage = "running" /\ ~BudgetSpent
  /\ LET selected == SelectPotentiallyOptimal(rectangles, {incumbentId})
         children == Children(selected, nextRectId)
     IN  /\ Evaluate(CentersById(children), Infinity)
         /\ rectangles' = (rectangles \ selected) \cup Scored(children, memo')
         /\ nextRectId' = nextRectId + Cardinality(children)
         /\ incumbentId' = BestOf(rectangles').id
         /\ diagnostics' =
              Append(diagnostics,
                     [totalEvaluations |-> spent', potentiallyOptimal |-> Cardinality(selected),
                      incumbentFos |-> BestFound(memo'),
                      incumbentSize |-> SizeMetric(BestOf(rectangles'))])
  /\ reason' = TerminationReason(spent', diagnostics'[Len(diagnostics')].incumbentSize, diagnostics')
  /\ stage' = IF reason' = "none" THEN "running" ELSE "finished"
  /\ UNCHANGED <<solved, winner, refinementVars>>

\* best_surface and best_result of the evaluator.
DirectIncumbent ==
  BestSurface({[surface |-> KeyOf(p), fos |-> memo[p]] : p \in {q \in DOMAIN memo : memo[q] < Infinity}})

StartRefinement ==
  /\ stage = "finished"
  /\ winner' = DirectIncumbent /\ stage' = "refining"
  /\ UNCHANGED <<objectiveVars, rectangles, nextRectId, incumbentId, diagnostics, reason,
                 solved, refinementVars>>

RefineDirectWinner ==
  /\ RefineWinner
  /\ UNCHANGED <<objectiveVars, rectangles, nextRectId, incumbentId, diagnostics, reason>>

DirectNext == SeedBox \/ StopBeforeDividing \/ Iterate \/ StartRefinement \/ RefineDirectWinner

DirectSpec == DirectInit /\ [][DirectNext]_directVars

-----------------------------------------------------------------------------
(* Properties *)

DirectTypeOK ==
  /\ \A p \in DOMAIN memo : memo[p] \in ScoresAt(p) \cup {Infinity}
  /\ config \in DirectConfigurations
  /\ spent \in 0..config.maxEvaluations
  /\ \A r \in rectangles :
       /\ r.id \in 0..(nextRectId - 1)
       /\ r.center \in [Axes -> 1..(Box - 1)]
       /\ r.level \in [Axes -> Levels]
       /\ r.score = memo[r.center]
  /\ \A r, s \in rectangles : r.id = s.id => r = s
  /\ stage # "start" => \E r \in rectangles : r.id = incumbentId
  /\ postCounts.total = postCounts.valid + postCounts.infeasible
  /\ stage \in {"start", "running", "finished", "refining", "done", "failed"}
  /\ reason \in {"none", "max_evaluations", "min_rectangle_half_size_reached",
                 "stall_tolerance_reached", "max_iterations"}
  /\ Len(diagnostics) <= config.maxIterations

EvaluationsBefore(i) ==
  IF i = 1 THEN Min({config.maxEvaluations, Cardinality(Seeds)}) ELSE diagnostics[i - 1].totalEvaluations

(* An iteration costs exactly two evaluations for each rectangle it divides, *)
(* or what is left of the budget: the child in the middle is always a cache  *)
(* hit, and no two children anywhere ever propose the same point, so that    *)
(* no budget is lost to repetitions and none is spent beyond the limit.      *)
IterationCost ==
  \A i \in DOMAIN diagnostics :
    diagnostics[i].totalEvaluations =
      Min({config.maxEvaluations, EvaluationsBefore(i) + 2 * diagnostics[i].potentiallyOptimal})

(* The search never loses its best point: after every iteration the lowest   *)
(* score ever found is still that of the incumbent rectangle, and valid,     *)
(* whatever was divided, refused or invalid; and the surface returned is at  *)
(* least as good, by factor of safety and surface key, as every point of the *)
(* global stage and every surface of the passes.                             *)
IncumbentKept ==
  /\ stage \in {"running", "finished"} =>
       LET incumbent == RectangleOf(incumbentId)
       IN  incumbent.score = BestFound(memo) /\ incumbent.score < Infinity
  /\ stage = "done" =>
       \A found \in {[surface |-> KeyOf(p), fos |-> memo[p]] : p \in DOMAIN memo}
                    \cup {[surface |-> s, fos |-> solved[s]] : s \in DOMAIN solved} :
         found.fos >= Invalid \/ found = winner \/ BetterSurface(winner, found)

(* No rectangle degenerates: its sides differ by at most one trisection, so  *)
(* that the size used in the lower bound, the longest half side, is within a *)
(* factor three of every side.                                               *)
AspectBounded ==
  \A r \in rectangles : \A d, e \in Axes : r.level[d] <= r.level[e] + 1

(* A rectangle whose centre is invalid (or was refused) is never divided:    *)
(* its bound stays infinite for every slope, so that the search spends no    *)
(* evaluation inside it as long as it runs.                                  *)
InvalidNeverDivided ==
  [][\A r \in rectangles : r.score = Infinity => r \in rectangles']_directVars

(* The reported reason is the true one: the search says max_evaluations      *)
(* exactly when the budget is spent, and any other reason only with budget   *)
(* left; max_iterations only after all of them.                              *)
ReasonTruthful ==
  stage \in {"finished", "refining", "done"} =>
    /\ reason = "max_evaluations" <=> spent = config.maxEvaluations
    /\ reason = "max_iterations" => Len(diagnostics) = config.maxIterations
    /\ reason = "stall_tolerance_reached" =>
         \E i \in DOMAIN diagnostics :
           /\ Len(diagnostics) - i = config.stallIterations
           /\ diagnostics[i].incumbentFos < BestFound(memo) + config.minImprovement
=============================================================================
