------------------------------ MODULE LemSolver ------------------------------
(***************************************************************************)
(* lem_core/base.py and what bishop.py and spencer.py have in common: one  *)
(* call of solve() on the slices of a surface.                             *)
(*                                                                         *)
(* The equations are not written out.  A factor of safety is a number of   *)
(* FosValues, a residual and the tolerance are small numbers of the same   *)
(* unit, and what the equations answer is chosen freely wherever they are  *)
(* evaluated: what is kept is which answers are taken, and in which order. *)
(***************************************************************************)
EXTENDS Integers, Sequences, FiniteSets

CONSTANTS
    FosValues,      \* the factors of safety that may be met
    Residuals       \* the absolute residuals that may be met

ASSUME SolverAssumption ==
    /\ FosValues \subseteq Nat /\ 0 \in FosValues
    /\ Residuals \subseteq Nat

VARIABLES
    solving,    \* where the call is
    task,       \* the settings, and what the slices add up to
    answer      \* {} or what the call returned

solverVars == <<solving, task, answer>>

\* horizontal: some slice carries a horizontal force; driving: the sum of the
\* driving components is not numerically zero.
TaskType ==
    [method : {"bishop_simplified", "spencer"}, fInit : FosValues, tolerance : Residuals,
     maxIter : Nat \ {0}, horizontal : BOOLEAN, driving : BOOLEAN]

NoTask == << >>

\* low: some m_alpha is below 0.2 at this factor of safety.
Answers ==
    [fos : FosValues, force : Residuals, moment : Residuals, low : BOOLEAN,
     path : {"bishop", "two_dimensional", "lambda_zero_fallback"}]

Distance(a, b) == IF a < b THEN b - a ELSE a - b

\* A ConvergenceError leaves solve().
Raise ==
    /\ solving' = "returned"
    /\ answer' = {}
    /\ UNCHANGED task

Return(a) ==
    /\ solving' = "returned"
    /\ answer' = {a}
    /\ UNCHANGED task

\* Both solvers refuse a first factor of safety that is not positive, and slices
\* whose driving components cancel out.
Refused == task.fInit <= 0 \/ ~task.driving

\* The answer of a call that returned one.
Returned == IF solving = "returned" THEN answer ELSE {}
=============================================================================
