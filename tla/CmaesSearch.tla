---------------------------- MODULE CmaesSearch -----------------------------
(***************************************************************************)
(* run_cmaes_global_search (search/cmaes_global.py): a prescan that        *)
(* divides rectangles as DIRECT does, CMA-ES generations with restarts, a  *)
(* Nelder-Mead polish and the refinement passes, on one objective with one *)
(* budget.                                                                 *)
(*                                                                         *)
(* The cma and scipy libraries are external: a generation, a call of the   *)
(* simplex method and the step size of the strategy may be anything, so    *)
(* that the elites and the mean they start from are left out.  Invalid     *)
(* points have finite penalties, above every factor of safety.             *)
(***************************************************************************)
EXTENDS BudgetedSearch, DirectPartition

CONSTANTS
  Proposals,             \* the points the two libraries may propose
  LeastPenalty,          \* scores from here on are penalties
  RefusedPenalty,        \* the answer for a point the budget does not reach
  CmaesConfigurations    \* the values of CmaesGlobalSearchInput

CmaesConfigurationType ==
  [maxEvaluations : Nat, prescanEvaluations : Nat \ {0}, populationSize : Nat \ {0, 1},
   maxIterations : Nat \ {0}, restarts : Nat, stallIterations : Nat \ {0},
   minImprovement : Nat, polishEvaluations : Nat \ {0}, postPolish : BOOLEAN]

ASSUME CmaesAssumption ==
  /\ CmaesConfigurations \subseteq CmaesConfigurationType
  /\ \A c \in CmaesConfigurations : c.prescanEvaluations < c.maxEvaluations
  /\ LeastPenalty \in Nat /\ RefusedPenalty \in Nat /\ RefusedPenalty >= LeastPenalty
  /\ RefusedPenalty < Infinity
  /\ \A p \in Proposals \cup [Axes -> 1..(Box - 1)] : ScoresAt(p) \subseteq 0..Infinity /\ KeyOf(p) \in Int

VARIABLES
  restart,               \* of range(restart_count)
  generation,            \* the iteration of the restart
  stallCounter,
  told,                  \* the generation the strategy was told last
  simplexLeft            \* calls left to Nelder-Mead

cmaesSearchVars == <<rectangles, nextRectId, restart, generation, stallCounter, told, simplexLeft,
                stage, reason>>
cmaesVars == <<objectiveVars, solved, winner, refinementVars, cmaesSearchVars>>

CmaesPasses == <<"toe_crest", "coarse_grid", "local_grid">>

\* Until the polish ends, reason is that of the CMA-ES stage.
CmaesInit ==
  /\ config \in CmaesConfigurations
  /\ ObjectiveInit /\ RefinementInit(CmaesPasses)
  /\ rectangles = {} /\ nextRectId = 0
  /\ restart = 0 /\ generation = 1 /\ stallCounter = 0 /\ told = <<>>
  /\ simplexLeft = 0
  /\ stage = "start" /\ reason = "cmaes_max_iterations"

ValidPoints(answers) == {p \in DOMAIN answers : answers[p] < LeastPenalty}

BestScore(answers) == Min({answers[p] : p \in ValidPoints(answers)})

\* best_surface and best_result of the evaluator.
BestValid ==
  BestSurface({[surface |-> KeyOf(p), fos |-> memo[p]] : p \in ValidPoints(memo)})

unchangedByPrescan == <<solved, winner, refinementVars, restart, generation, stallCounter,
                        told, simplexLeft, reason>>

-----------------------------------------------------------------------------
(* The prescan *)

TargetBudget == Min({config.maxEvaluations, config.prescanEvaluations})

SeedPrescan ==
  /\ stage = "start"
  /\ LET seeds == {s \in SeedRectangles : s.id < TargetBudget}
     IN  /\ Evaluate(CentersById(seeds), RefusedPenalty)
         /\ rectangles' = Scored(seeds, memo')
         /\ nextRectId' = Cardinality(seeds)
  /\ stage' = "prescan"
  /\ UNCHANGED unchangedByPrescan

\* Bound: no side is divided more often than the grid allows.
Divisible(selected) == \A r \in selected : r.level[SplitDimension(r)] < GridDepth

\* The loop over the results breaks after the first child when the batch,
\* which has been evaluated as a whole, has reached the target.
KeptChildren(children, spentAfter) ==
  IF spentAfter >= TargetBudget THEN {c \in children : c.id = nextRectId} ELSE children

DividePrescan ==
  /\ stage = "prescan" /\ spent < TargetBudget
  /\ LET selected == SelectPotentiallyOptimal(rectangles, {})
         children == Children(selected, nextRectId)
         kept == KeptChildren(children, spent')
     IN  /\ Divisible(selected)
         /\ Evaluate(CentersById(children), RefusedPenalty)
         /\ rectangles' = (rectangles \ selected) \cup Scored(kept, memo')
         /\ nextRectId' = nextRectId + Cardinality(kept)
  /\ UNCHANGED <<unchangedByPrescan, stage>>

PrescanEnds ==
  /\ stage = "prescan" /\ spent >= TargetBudget
  /\ stage' = IF ValidPoints(memo) = {} THEN "failed" ELSE "restart"
  /\ UNCHANGED <<objectiveVars, rectangles, nextRectId, unchangedByPrescan>>

-----------------------------------------------------------------------------
(* CMA-ES *)

unchangedByGenerations == <<solved, winner, refinementVars, rectangles, nextRectId, simplexLeft>>

BeginRestart ==
  /\ stage = "restart" /\ restart <= config.restarts /\ ~BudgetSpent
  /\ stage' = "generation" /\ generation' = 1 /\ stallCounter' = 0
  /\ UNCHANGED <<objectiveVars, unchangedByGenerations, restart, told, reason>>

\* The budget is looked at before a restart and before a generation.
CmaesStops ==
  /\ stage \in {"restart", "generation"} /\ BudgetSpent
  /\ stage = "restart" => restart <= config.restarts
  /\ stage' = "polish" /\ reason' = "max_evaluations"
  /\ UNCHANGED <<objectiveVars, unchangedByGenerations, restart, generation, stallCounter, told>>

RestartsEnd ==
  /\ stage = "restart" /\ restart > config.restarts
  /\ stage' = "polish"
  /\ UNCHANGED <<objectiveVars, unchangedByGenerations, restart, generation, stallCounter,
                 told, reason>>

\* Fault: the strategy is told whatever came back.
AllRepaired(spentAfter) == config.populationSize

\* How many results the loop takes before it breaks: the batch has been
\* evaluated as a whole, so that only the first is taken once it has spent
\* the budget.
Repaired(spentAfter) ==
  IF spentAfter >= config.maxEvaluations THEN 1 ELSE config.populationSize

\* Why a restart ends after a generation, "none" when it goes on.
RestartReason(sigmaSmall, stalls) ==
  IF sigmaSmall THEN "cmaes_sigma_limit"
  ELSE IF stalls >= config.stallIterations THEN "cmaes_stall_tolerance_reached"
  ELSE "none"

TellGeneration(vectors) ==
  /\ told' = vectors
  /\ stallCounter' = IF BestScore(memo) - BestScore(memo') < config.minImprovement
                       THEN stallCounter + 1 ELSE 0
  /\ \E sigmaSmall \in BOOLEAN :
       LET why == RestartReason(sigmaSmall, stallCounter')
       IN  IF why = "none" /\ generation < config.maxIterations
             THEN generation' = generation + 1 /\ UNCHANGED <<restart, stage, reason>>
             ELSE /\ restart' = restart + 1 /\ stage' = "restart"
                  /\ reason' = IF why = "none" THEN reason ELSE why
                  /\ UNCHANGED generation

\* A generation cut short ends the stage, and the strategy is not told.
CutShort ==
  /\ stage' = "polish" /\ reason' = "max_evaluations"
  /\ UNCHANGED <<restart, generation, stallCounter, told>>

Generation ==
  /\ stage = "generation" /\ ~BudgetSpent
  /\ \E vectors \in [1..config.populationSize -> Proposals] :
       /\ Evaluate(vectors, RefusedPenalty)
       /\ IF Repaired(spent') = config.populationSize THEN TellGeneration(vectors) ELSE CutShort
  /\ UNCHANGED unchangedByGenerations

-----------------------------------------------------------------------------
(* The polish *)

unchangedByPolish == <<rectangles, nextRectId, restart, generation, stallCounter, told>>

FinalReason == IF BudgetSpent THEN "max_evaluations" ELSE reason

\* Without a polish, or with the budget spent, no refinement pass runs either.
PolishSkipped ==
  /\ stage = "polish"
  /\ ~config.postPolish \/ BudgetSpent
  /\ winner' = BestValid /\ stage' = "done" /\ reason' = FinalReason
  /\ UNCHANGED <<objectiveVars, solved, refinementVars, simplexLeft, unchangedByPolish>>

\* stage_budget
StartSimplex ==
  /\ stage = "polish" /\ config.postPolish /\ ~BudgetSpent
  /\ simplexLeft' = Min({config.polishEvaluations, Remaining})
  /\ stage' = "simplex"
  /\ UNCHANGED <<objectiveVars, solved, winner, refinementVars, reason, unchangedByPolish>>

\* A call of objective counts in both counters, a cached point in one.
SimplexCall ==
  /\ stage = "simplex" /\ simplexLeft > 0
  /\ \E p \in Proposals :
       /\ Evaluate(<<p>>, RefusedPenalty)
       /\ LET valid == IF p \in ValidPoints(memo') THEN 1 ELSE 0
          IN  postCounts' = [total |-> postCounts.total + 1, valid |-> postCounts.valid + valid,
                             infeasible |-> postCounts.infeasible + (1 - valid)]
  /\ simplexLeft' = simplexLeft - 1
  /\ UNCHANGED <<solved, winner, running, passesLeft, batches, stage, reason, unchangedByPolish>>

SimplexEnds ==
  /\ stage = "simplex" /\ postCounts.total > 0
  /\ winner' = BestValid /\ stage' = "refining" /\ reason' = FinalReason
  /\ UNCHANGED <<objectiveVars, solved, refinementVars, simplexLeft, unchangedByPolish>>

RefineCmaesWinner ==
  /\ RefineWinner
  /\ UNCHANGED <<objectiveVars, simplexLeft, reason, unchangedByPolish>>

CmaesNext ==
  \/ SeedPrescan \/ DividePrescan \/ PrescanEnds
  \/ BeginRestart \/ CmaesStops \/ RestartsEnd \/ Generation
  \/ PolishSkipped \/ StartSimplex \/ SimplexCall \/ SimplexEnds
  \/ RefineCmaesWinner

CmaesSpec == CmaesInit /\ [][CmaesNext]_cmaesVars

-----------------------------------------------------------------------------
(* Properties *)

CmaesTypeOK ==
  /\ config \in CmaesConfigurations
  /\ \A p \in DOMAIN memo : memo[p] \in ScoresAt(p) \cup {RefusedPenalty}
  /\ spent \in 0..config.maxEvaluations
  /\ \A r \in rectangles : r.id < nextRectId /\ r.score = memo[r.center]
  /\ \A r, s \in rectangles : r.id = s.id => r = s
  /\ restart \in 0..(config.restarts + 1) /\ generation \in 1..config.maxIterations
  /\ stallCounter \in 0..config.stallIterations
  /\ Len(told) \in {0, config.populationSize}
  /\ simplexLeft \in 0..config.polishEvaluations
  /\ postCounts.total = postCounts.valid + postCounts.infeasible
  /\ stage \in {"start", "prescan", "restart", "generation", "polish", "simplex", "refining",
               "done", "failed"}

(* The optimizers are driven by real answers only: no generation the         *)
(* strategy is told holds the penalty of a point the budget refused, nor     *)
(* does the simplex method ever get one, although both go on after batches   *)
(* that cross the budget have been cut.                                      *)
OptimizersSeeRealAnswers ==
  [][/\ told' # told => \A i \in DOMAIN told' : memo'[told'[i]] # RefusedPenalty
     /\ stage = "simplex" => \A p \in DOMAIN memo' : memo'[p] # RefusedPenalty]_cmaesVars

(* The final winner is the best valid surface found across all stages, by    *)
(* factor of safety and then by surface key: of the prescan, the             *)
(* generations, the simplex method and the refinement passes.                *)
WinnerIsBestFound ==
  stage = "done" =>
    /\ \A p \in ValidPoints(memo) :
         winner.surface = KeyOf(p) \/ BetterSurface(winner, [surface |-> KeyOf(p), fos |-> memo[p]])
    /\ \A s \in DOMAIN solved :
         \/ solved[s] = Invalid \/ winner.surface = s
         \/ BetterSurface(winner, [surface |-> s, fos |-> solved[s]])
=============================================================================
