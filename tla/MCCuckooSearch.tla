--------------------------- MODULE MCCuckooSearch ---------------------------
(***************************************************************************)
(* Model checking of CuckooSearch: populations of two and three nests, of  *)
(* which one, two or all are abandoned; five points, of which any may be   *)
(* invalid and two may tie; budgets that end in the seeding, in the trials *)
(* and in the abandonment.  Two searches are polished, by passes that may  *)
(* find a surface worse than the incumbent or better.                      *)
(***************************************************************************)
EXTENDS CuckooSearch

MCScoresAt(p) == {IF p <= 2 THEN 10 ELSE 20, Invalid}

MCFosOf(s) == {15}

Configuration(evaluations, size, tail, polish) ==
  [maxEvaluations |-> evaluations, maxIterations |-> 2, populationSize |-> size,
   abandonCount |-> tail, stallIterations |-> 1, minImprovement |-> 1,
   postPolish |-> polish]

MCConfigurations ==
  {Configuration(2, 2, 2, TRUE), Configuration(3, 2, 1, TRUE), Configuration(3, 2, 2, FALSE),
   Configuration(4, 3, 2, FALSE), Configuration(5, 2, 1, FALSE)}
=============================================================================
