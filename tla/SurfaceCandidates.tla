------------------------- MODULE SurfaceCandidates -------------------------
(***************************************************************************)
(* What the solver does with a trial surface, and the candidate evaluation *)
(* (search/common.py) made of it, in this process or in a worker.          *)
(***************************************************************************)
EXTENDS Integers

Reasons == {"valid", "nonconverged_or_invalid_fos", "evaluation_exception",
            "invalid_geometry"}

Candidates == [reason : Reasons, fos : Int]

\* A solver outcome: a result (whether it converged, its FOS, whether the
\* moments are finite and the driving moment above the tolerance), an
\* exception the candidate evaluation catches, or one it does not.
OutcomeType ==
  [kind : {"result", "caught", "raises"}, converged : BOOLEAN,
   momentsUsable : BOOLEAN, fos : Int]

CandidateFromResult(o) ==
  IF ~o.converged \/ o.fos <= 0 \/ ~o.momentsUsable
    THEN [reason |-> "nonconverged_or_invalid_fos", fos |-> 0]
    ELSE [reason |-> "valid", fos |-> o.fos]

InvalidGeometry == [reason |-> "invalid_geometry", fos |-> 0]

CaughtException == [reason |-> "evaluation_exception", fos |-> 0]

\* What a candidate evaluation makes of an outcome it returns from.
CandidateOf(o) ==
  IF o.kind = "caught" THEN CaughtException ELSE CandidateFromResult(o)
=============================================================================
