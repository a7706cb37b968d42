--------------------------- MODULE BudgetedSearch ---------------------------
(***************************************************************************)
(* What the searches with a budget share (search/direct_global.py,         *)
(* cuckoo_global.py and cmaes_global.py): one objective, and the           *)
(* refinement passes after their loops.                                    *)
(***************************************************************************)
EXTENDS SearchObjective, PostRefinement, FiniteSetsExt

VARIABLE reason          \* termination_reason

\* The lowest of all answers: best_score of the evaluator, which is infinite
\* before any valid point.
BestFound(answers) == Min({answers[p] : p \in DOMAIN answers})
=============================================================================
