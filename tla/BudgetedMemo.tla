---------------------------- MODULE BudgetedMemo ----------------------------
(***************************************************************************)
(* What a search strategy may rely on when it asks its objective for the   *)
(* score of a point, whatever the requests look like and however they are  *)
(* evaluated: every point is scored at most once, its score is the one the *)
(* solver gives to that very point, each score costs one unit of the       *)
(* evaluation budget, and a point is refused only once the budget is gone. *)
(* No order of evaluation, batch, worker or callback appears here;         *)
(* ObjectiveEvaluator implements it.                                       *)
(***************************************************************************)
EXTENDS Naturals

CONSTANTS
  Points,          \* the points of the search space
  Budget,          \* how many of them may be evaluated
  Unknown,         \* a point nothing has been asked about
  Refused          \* the answer for a point the budget did not reach

VARIABLES
  truth,           \* the score of each point, fixed in a run
  memo,            \* what has been answered
  spent,           \* evaluations paid for
  open             \* FALSE once an evaluation has raised: nothing is asked then

memoVars == <<truth, memo, spent, open>>

MemoInit ==
  /\ memo = [p \in Points |-> Unknown]
  /\ spent = 0
  /\ open = TRUE

\* A new point is evaluated and paid for.
Evaluate(p) ==
  /\ open
  /\ memo[p] = Unknown
  /\ spent < Budget
  /\ memo' = [memo EXCEPT ![p] = truth[p]]
  /\ spent' = spent + 1
  /\ UNCHANGED <<truth, open>>

\* New points are refused together, and only for want of budget.
Refuse(S) ==
  /\ open
  /\ spent = Budget
  /\ \A p \in S : memo[p] = Unknown
  /\ memo' = [p \in Points |-> IF p \in S THEN Refused ELSE memo[p]]
  /\ UNCHANGED <<truth, spent, open>>

\* An evaluation raises: it may have been paid for, and nothing is recorded.
Close ==
  /\ open
  /\ open' = FALSE
  /\ \/ spent' = spent
     \/ spent < Budget /\ spent' = spent + 1
  /\ UNCHANGED <<truth, memo>>

MemoNext ==
  \/ \E p \in Points : Evaluate(p)
  \/ \E S \in SUBSET Points : Refuse(S)
  \/ Close

MemoSpec == MemoInit /\ [][MemoNext]_memoVars

=============================================================================
