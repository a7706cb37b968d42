--------------------------- MODULE MCSurfacePool ----------------------------
(***************************************************************************)
(* Model checking of SurfacePool: two workers and calls of up to three     *)
(* surfaces, of which one solves to a valid result and one is caught as an *)
(* evaluation exception or raises.                                         *)
(***************************************************************************)
EXTENDS SurfacePool

CONSTANTS w1, w2

MCOutcomes ==
  {[kind |-> "result", converged |-> TRUE, momentsUsable |-> TRUE, fos |-> 10],
   [kind |-> "caught", converged |-> FALSE, momentsUsable |-> FALSE, fos |-> 0],
   [kind |-> "raises", converged |-> FALSE, momentsUsable |-> FALSE, fos |-> 0]}
=============================================================================
