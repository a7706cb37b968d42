---------------------------- MODULE MCAutoRefine ----------------------------
(***************************************************************************)
(* Model checking of AutoRefine on a ground with two bends: three          *)
(* divisions of which two are kept, in three iterations, so that the next  *)
(* path may have a gap; two of which one is kept; and one pass over four.  *)
(***************************************************************************)
EXTENDS AutoRefine

\* A circle is known by its end points and its angle; larger angles have
\* smaller radii.  Circles too short to leave the slope are not circles.
MCCandidateOf(left, right, m) ==
  IF right - left < 8 THEN NoSurface ELSE 1000 * left + 10 * right + (9 - m)

RefinementOnes == {1, 2}

\* A surface has one factor of safety or is invalid; those of the passes may
\* be better or worse than all others, or tie with the best.
MCFosOf(s) ==
  IF s \in RefinementOnes THEN {9, 10, 12, Invalid}
  ELSE IF (s \div 10) % 4 = 0 THEN {11, Invalid} ELSE {10, Invalid}

MCConfigurations ==
  {[divisions |-> 3, circles |-> 1, iterations |-> 3, keepCount |-> 2],
   [divisions |-> 2, circles |-> 2, iterations |-> 3, keepCount |-> 1],
   [divisions |-> 4, circles |-> 1, iterations |-> 1, keepCount |-> 2]}
=============================================================================
