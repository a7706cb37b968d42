---------------------------- MODULE CuckooSearch ----------------------------
(***************************************************************************)
(* run_cuckoo_global_search (search/cuckoo_global.py): the seeding of the  *)
(* nests, in each iteration one trial for every nest, the abandonment of   *)
(* the worst nests and the stall test, and then the refinement passes.     *)
(*                                                                         *)
(* A point stands for a vector and its surface, and points are numbered in *)
(* the order of surface_key.  Levy steps and random vectors may be any     *)
(* point.  Scores are integers whose unit is above TIE_TOL.                *)
(***************************************************************************)
EXTENDS BudgetedSearch

CONSTANTS
  Points,
  RefusedAnswer,         \* the answer for a point the budget does not reach
  AttemptsFactor,        \* _VALID_INIT_ATTEMPTS_FACTOR
  CuckooConfigurations   \* the values of CuckooGlobalSearchInput

\* abandonCount is max(1, ceil(discovery_rate * population_size)).
CuckooConfigurationType ==
  [maxEvaluations : Nat \ {0}, maxIterations : Nat \ {0}, populationSize : Nat \ {0, 1},
   abandonCount : Nat \ {0}, stallIterations : Nat \ {0}, minImprovement : Nat,
   postPolish : BOOLEAN]

\* A refused answer is told apart from the score of an invalid point only for
\* what is said about it below: to the search both are infinite.
ASSUME CuckooAssumption ==
  /\ Points \subseteq Nat
  /\ RefusedAnswer \in Nat /\ RefusedAnswer > Invalid
  /\ \A p \in Points : ScoresAt(p) \subseteq 0..Invalid
  /\ AttemptsFactor \in Nat \ {0}
  /\ CuckooConfigurations \subseteq CuckooConfigurationType
  /\ \A c \in CuckooConfigurations : c.abandonCount <= c.populationSize

VARIABLES
  population,            \* the nests
  attempts,              \* to seed them with valid points
  nest,                  \* the nest whose trial is next
  history                \* best_history

cuckooSearchVars == <<population, attempts, stage, nest, history, reason>>
cuckooVars == <<objectiveVars, cuckooSearchVars, solved, winner, refinementVars>>

notRefining == <<solved, winner, refinementVars>>

CuckooPasses == <<"toe_crest", "toe_locked_beta">>

CuckooInit ==
  /\ config \in CuckooConfigurations
  /\ ObjectiveInit /\ RefinementInit(CuckooPasses)
  /\ population = <<>> /\ attempts = 0
  /\ stage = "seeding" /\ nest = 1
  /\ history = <<>> /\ reason = "max_iterations"

Finite(answers, p) == answers[p] < Invalid

\* _is_better: an invalid candidate never is.
IsBetter(answers, p, q) ==
  /\ Finite(answers, p)
  /\ answers[p] < answers[q] \/ (answers[p] = answers[q] /\ p < q)

NothingFound == \A p \in DOMAIN memo : ~Finite(memo, p)

-----------------------------------------------------------------------------
(* Initialization *)

Full == Len(population) = config.populationSize

\* Fault: an attempt is not counted.
NotCounted == attempts

CountAttempt == attempts + 1

AttemptsLeft == attempts < AttemptsFactor * config.populationSize

\* While there are attempts left only valid points become nests.
SeedNest ==
  /\ stage = "seeding" /\ ~Full /\ AttemptsLeft
  /\ attempts' = CountAttempt
  /\ \E p \in Points :
       /\ Evaluate(<<p>>, RefusedAnswer)
       /\ population' = IF Finite(memo', p) THEN Append(population, p) ELSE population
  /\ UNCHANGED <<stage, nest, history, reason>>

FillNest ==
  /\ stage = "seeding" /\ ~Full /\ ~AttemptsLeft
  /\ \E p \in Points :
       /\ Evaluate(<<p>>, RefusedAnswer)
       /\ population' = Append(population, p)
  /\ UNCHANGED <<attempts, stage, nest, history, reason>>

Seeded ==
  /\ stage = "seeding" /\ Full
  /\ stage' = IF NothingFound THEN "failed" ELSE "head"
  /\ UNCHANGED <<objectiveVars, population, attempts, nest, history, reason>>

-----------------------------------------------------------------------------
(* An iteration *)

BeginIteration ==
  /\ stage = "head"
  /\ Len(history) < config.maxIterations /\ ~BudgetSpent
  /\ stage' = "moving" /\ nest' = 1
  /\ UNCHANGED <<objectiveVars, population, attempts, history, reason>>

LoopEnds ==
  /\ stage = "head"
  /\ Len(history) = config.maxIterations \/ BudgetSpent
  /\ stage' = "finished"
  /\ reason' = IF Len(history) < config.maxIterations THEN "max_evaluations" ELSE reason
  /\ UNCHANGED <<objectiveVars, population, attempts, nest, history>>

\* The trial of a nest replaces a random nest that it is better than.
TryNest ==
  /\ stage = "moving" /\ nest <= config.populationSize /\ ~BudgetSpent
  /\ \E p \in Points, target \in 1..config.populationSize :
       /\ Evaluate(<<p>>, RefusedAnswer)
       /\ population' =
            IF IsBetter(memo', p, population[target])
              THEN [population EXCEPT ![target] = p] ELSE population
  /\ nest' = nest + 1
  /\ UNCHANGED <<attempts, stage, history, reason>>

TrialsEnd ==
  /\ stage = "moving"
  /\ nest > config.populationSize \/ BudgetSpent
  /\ stage' = "abandoning"
  /\ reason' = IF nest <= config.populationSize THEN "max_evaluations" ELSE reason
  /\ UNCHANGED <<objectiveVars, population, attempts, nest, history>>

\* The sort key (rank, index): nest i comes before nest j.
RankedBefore(i, j) ==
  \/ IsBetter(memo, population[i], population[j])
  \/ ~IsBetter(memo, population[j], population[i]) /\ i < j

\* The number of nests ranked before a nest.
Position(i) ==
  Cardinality({j \in 1..config.populationSize : j # i /\ RankedBefore(j, i)})

\* Fault: ranked[:abandon_count], the best nests.
FirstAbandoned == 0

\* The first position of the tail ranked[-abandon_count:].
TailStart == config.populationSize - config.abandonCount

\* Fault: the loop over the results does not stop with the budget.
NeverCutShort(answersSpent) == config.abandonCount

\* How many of the results become nests before the loop breaks.
Taken(answersSpent) ==
  IF answersSpent >= config.maxEvaluations THEN 1 ELSE config.abandonCount

\* The tail gets new random vectors, the best of the tail the first of them.
AbandonWorst ==
  /\ stage = "abandoning" /\ ~BudgetSpent
  /\ \E vectors \in [1..config.abandonCount -> Points] :
       /\ Evaluate(vectors, RefusedAnswer)
       /\ population' =
            [i \in 1..config.populationSize |->
               IF Position(i) - TailStart \in 0..(Taken(spent') - 1)
                 THEN vectors[Position(i) - TailStart + 1] ELSE population[i]]
  /\ stage' = "closing"
  /\ reason' = IF spent' >= config.maxEvaluations THEN "max_evaluations" ELSE reason
  /\ UNCHANGED <<attempts, nest, history>>

KeepWorst ==
  /\ stage = "abandoning" /\ BudgetSpent
  /\ stage' = "closing"
  /\ UNCHANGED <<objectiveVars, population, attempts, nest, history, reason>>

CuckooStalled(fos) ==
  /\ Len(fos) > config.stallIterations
  /\ fos[Len(fos) - config.stallIterations] - fos[Len(fos)] < config.minImprovement

CloseIteration ==
  /\ stage = "closing"
  /\ history' = Append(history, BestFound(memo))
  /\ stage' = IF CuckooStalled(history') THEN "finished" ELSE "head"
  /\ reason' = IF CuckooStalled(history') THEN "stall_tolerance_reached" ELSE reason
  /\ UNCHANGED <<objectiveVars, population, attempts, nest>>

-----------------------------------------------------------------------------
(* The polish *)

\* best_surface and best_result of the evaluator; a point is its surface.
BestNest == BestSurface({[surface |-> p, fos |-> memo[p]] : p \in {q \in DOMAIN memo : Finite(memo, q)}})

StartPolish ==
  /\ stage = "finished"
  /\ winner' = BestNest
  /\ stage' = IF config.postPolish THEN "refining" ELSE "done"
  /\ UNCHANGED <<objectiveVars, population, attempts, nest, history, reason, solved, refinementVars>>

RefineCuckooWinner ==
  /\ RefineWinner
  /\ UNCHANGED <<objectiveVars, population, attempts, nest, history, reason>>

SearchStep ==
  \/ SeedNest \/ FillNest \/ Seeded
  \/ BeginIteration \/ LoopEnds
  \/ TryNest \/ TrialsEnd \/ AbandonWorst \/ KeepWorst
  \/ CloseIteration

CuckooNext ==
  \/ SearchStep /\ UNCHANGED notRefining
  \/ StartPolish \/ RefineCuckooWinner

\* One thread, every solve of which ends.
CuckooSpec == CuckooInit /\ [][CuckooNext]_cuckooVars /\ WF_cuckooVars(CuckooNext)

-----------------------------------------------------------------------------
(* Properties *)

Iterating == stage \notin {"seeding", "failed"}

CuckooTypeOK ==
  /\ config \in CuckooConfigurations
  /\ DOMAIN memo \subseteq Points
  /\ \A p \in DOMAIN memo : memo[p] \in ScoresAt(p) \cup {RefusedAnswer}
  /\ spent \in 0..config.maxEvaluations
  /\ population \in Seq(DOMAIN memo) /\ Len(population) <= config.populationSize
  /\ Iterating => Full
  /\ attempts \in 0..(AttemptsFactor * config.populationSize)
  /\ stage \in {"seeding", "head", "moving", "abandoning", "closing", "finished",
               "refining", "done", "failed"}
  /\ nest \in 1..(config.populationSize + 1)
  /\ Len(history) <= config.maxIterations
  /\ reason \in {"max_iterations", "max_evaluations", "stall_tolerance_reached"}

(* The population never loses the best point found: as long as the budget    *)
(* lasts and some nest survives an abandonment, the best point ever found,   *)
(* by score and then by surface key, is a nest, whichever nests the trials   *)
(* replace and the tail loses.  Whatever the nests lost, the surface that is *)
(* returned is at least as good as every point and every surface of the      *)
(* passes.                                                                   *)
EliteKept ==
  /\ ~BudgetSpent /\ ~NothingFound /\ config.abandonCount < config.populationSize =>
       \E i \in DOMAIN population :
         \A p \in DOMAIN memo : p = population[i] \/ IsBetter(memo, population[i], p)
  /\ stage = "done" =>
       \A found \in {[surface |-> p, fos |-> memo[p]] : p \in DOMAIN memo}
                    \cup {[surface |-> s, fos |-> solved[s]] : s \in DOMAIN solved} :
         found.fos >= Invalid \/ found = winner \/ BetterSurface(winner, found)

(* A point the budget refused never becomes a nest of a search that          *)
(* iterates: a refused answer says nothing of its point, and only a search   *)
(* whose seeding spent the budget, which then does not iterate, holds one.   *)
NoRefusedNest ==
  stage \in {"moving", "abandoning", "closing"} \/ history # <<>> =>
    \A i \in DOMAIN population : memo[population[i]] # RefusedAnswer

(* The search ends: neither the attempts to find valid nests nor iterations  *)
(* whose points are all known go on for ever.                                *)
SearchEnds == <>(stage \in {"done", "failed"})
=============================================================================
