---------------------------- MODULE BishopSolver ----------------------------
(***************************************************************************)
(* lem_core/bishop.py: the fixed-point iteration of BishopSimplifiedSolver.*)
(***************************************************************************)
EXTENDS LemSolver

CONSTANT
    NonFinite       \* an infinity or a NaN

ASSUME BishopAssumption == NonFinite \in Int \ FosValues

VARIABLES
    seen,       \* what the equations gave at the factors of safety met so far
    fk,         \* f_k
    iteration,
    delta       \* |f_next - f_k| of the last iteration

bishopVars == <<seen, fk, iteration, delta>>

\* At a factor of safety: numerator / denominator, and the least m_alpha.  At zero
\* the divisions leave infinities and NaNs, which are neither near zero nor,
\* unless negative, below the threshold.
Equations(f) ==
    IF f \in DOMAIN seen THEN {seen[f]}
    ELSE {e \in [after : FosValues \cup {NonFinite},
                 mAlpha : {"near zero", "below 0.2", "fine"}] :
             f = 0 => e.after = NonFinite /\ e.mAlpha # "near zero"}

Meet(f, e) == seen' = [g \in DOMAIN seen \cup {f} |-> IF g = f THEN e ELSE seen[g]]

BishopInit == seen = << >> /\ fk = 0 /\ iteration = 0 /\ delta = 0

StartBishop ==
    /\ solving = "called" /\ task.method = "bishop_simplified"
    /\ IF Refused
       THEN Raise /\ UNCHANGED fk
       ELSE /\ fk' = task.fInit
            /\ solving' = "iterating"
            /\ UNCHANGED <<task, answer>>
    /\ UNCHANGED <<seen, iteration, delta>>

Converged(step) == step <= task.tolerance

Iterate ==
    /\ solving = "iterating" /\ iteration < task.maxIter
    /\ \E e \in Equations(fk) :
          /\ Meet(fk, e)
          /\ IF e.mAlpha = "near zero" \/ e.after = NonFinite
             THEN Raise /\ UNCHANGED <<fk, iteration, delta>>
             ELSE /\ iteration' = iteration + 1
                  /\ delta' = Distance(e.after, fk)
                  /\ fk' = e.after
                  /\ solving' = IF Converged(delta') THEN "converged" ELSE "iterating"
                  /\ UNCHANGED <<task, answer>>

GiveUp ==
    /\ solving = "iterating" /\ iteration = task.maxIter
    /\ Raise
    /\ UNCHANGED bishopVars

\* Fault: the m_alpha that the last iteration computed is looked at.
LastMAlpha(e) == seen[CHOOSE f \in DOMAIN seen : seen[f].after = fk].mAlpha

\* The m_alpha at the factor of safety that is returned is computed anew.
FinalMAlpha(e) == e.mAlpha

\* "near zero" is below 0.2 too.
AcceptBishop ==
    /\ solving = "converged"
    /\ \E e \in Equations(fk) :
          /\ Meet(fk, e)
          /\ IF FinalMAlpha(e) # "fine"
             THEN Raise
             ELSE Return([fos |-> fk, force |-> 0, moment |-> delta,
                          low |-> e.mAlpha # "fine", path |-> "bishop"])
    /\ UNCHANGED <<fk, iteration, delta>>

BishopNext == StartBishop \/ Iterate \/ GiveUp \/ AcceptBishop

-----------------------------------------------------------------------------
(* What the iteration promises.                                            *)

\* bishop.py returns a factor of safety only when it is the image of one that lies
\* within the tolerance of it, found in at most max_iter iterations, and when
\* m_alpha, which the loop last looked at one iterate earlier, is at least 0.2
\* in every slice at the value that is returned.
FixedPointIsTrue ==
    \A a \in Returned : a.path = "bishop" =>
        /\ \E f \in DOMAIN seen :
              seen[f].after = a.fos /\ Distance(f, a.fos) <= task.tolerance
        /\ iteration \in 1..task.maxIter
        /\ seen[a.fos].mAlpha = "fine"
=============================================================================
