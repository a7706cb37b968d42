------------------------ MODULE MCObjectiveEvaluator ------------------------
(***************************************************************************)
(* Model checking of ObjectiveEvaluator and its calls: three keys, one of  *)
(* which maps to no surface, behind four vectors of which two repair to    *)
(* the same key.                                                           *)
(***************************************************************************)
EXTENDS EvaluatorCalls

CONSTANTS v1, v2, v3, v4, k1, k2, k3

MCNormalize == (v1 :> k1) @@ (v2 :> k2) @@ (v3 :> k3) @@ (v4 :> k1)
MCSurfaceOf == (k1 :> 2) @@ (k2 :> 1) @@ (k3 :> NoSurface)

Converged(f) == [kind |-> "result", converged |-> TRUE, momentsUsable |-> TRUE, fos |-> f]
MCOutcomes ==
  {Converged(f) : f \in {10, 11, 20}}
  \cup {[Converged(10) EXCEPT !.momentsUsable = FALSE],
        [kind |-> "caught", converged |-> FALSE, momentsUsable |-> FALSE, fos |-> 0],
        [kind |-> "raises", converged |-> FALSE, momentsUsable |-> FALSE, fos |-> 0]}
=============================================================================
