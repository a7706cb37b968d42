--------------------------- MODULE MCDirectSearch ---------------------------
(***************************************************************************)
(* Model checking of DirectSearch in two dimensions: four of the nine      *)
(* seeds are invalid and the others may be, every later point may be       *)
(* better than the seeds, no better, or invalid; the budget ends among the *)
(* seeds, with them, between iterations or among the children of one.  The *)
(* passes after it may find a surface that is worse than the incumbent,    *)
(* ties with it under a smaller key, or is better.                         *)
(***************************************************************************)
EXTENDS DirectSearch

Middle == Box \div 2
IsSeed(p) == \A d \in Axes : p[d] \in SeedCoordinates

MCScoresAt(p) ==
  IF ~IsSeed(p) THEN {20, 32, Infinity}
  ELSE IF p[1] < Middle THEN {30, Infinity}
  ELSE IF p[1] = Middle /\ p[2] <= Middle THEN {31, Infinity}
  ELSE {Infinity}

MCKeyOf(p) == 1000 * p[1] + p[2]

MCFosOf(s) == {30}

Configuration(evaluations, halfSize) ==
  [maxEvaluations |-> evaluations, maxIterations |-> 3, stallIterations |-> 2,
   minImprovement |-> 3, minRectangleHalfSize |-> halfSize]

MCConfigurations ==
  {Configuration(5, 9), Configuration(9, 9), Configuration(14, 9), Configuration(16, 1)}
=============================================================================
