--------------------------- MODULE MCCmaesSearch ----------------------------
(***************************************************************************)
(* Model checking of CmaesSearch in one dimension: the prescan ends in its *)
(* seeds, with a division or in one; the budget ends in a generation, with *)
(* one, in the simplex method or not at all.                               *)
(***************************************************************************)
EXTENDS CmaesSearch

At(u) == <<u>>
MCKeyOf(p) == p[1]

\* A seed of the prescan, a point it may have seen and one it has not.
MCProposals == {At(9), At(24), At(40)}

MCScoresAt(p) ==
  IF p = At(9) THEN {31, 50}
  ELSE IF p = At(27) THEN {31, 51}
  ELSE IF p \in {At(24), At(40)} THEN {30, 51}
  ELSE {32, 50}

\* A surface of the passes is found between the points, by its key.
MCFosOf(s) == IF s = 1 THEN {30} ELSE {29, Invalid}

MCConfigurations ==
  {[maxEvaluations |-> c[1], prescanEvaluations |-> c[2], populationSize |-> 2,
    maxIterations |-> 3, restarts |-> 1, stallIterations |-> 2, minImprovement |-> 1,
    polishEvaluations |-> 2, postPolish |-> c[3]] :
   c \in {<<4, 2, TRUE>>, <<5, 4, TRUE>>, <<6, 4, TRUE>>, <<7, 3, FALSE>>, <<9, 5, TRUE>>}}
=============================================================================
