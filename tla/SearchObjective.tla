-------------------------- MODULE SearchObjective ---------------------------
(***************************************************************************)
(* The objective as a search strategy sees it, one whole call at a time:   *)
(* what evaluate_vectors_batch and evaluate_vector of                      *)
(* CachedObjectiveEvaluator do between being called and returning.  The    *)
(* module ObjectiveEvaluator models the same calls step by step; its run   *)
(* checks that each of them amounts to one Ask of this module.             *)
(*                                                                         *)
(* Points stand for cache keys, and the score of a point nothing has asked *)
(* for yet is chosen when it is evaluated.                                 *)
(***************************************************************************)
EXTENDS Integers, FiniteSets

CONSTANT
  ScoresAt(_)          \* what the objective may be at a point

VARIABLES
  config,              \* the search's configuration, of which only
                       \* maxEvaluations matters here; it never changes
  memo,                \* the cache: the answer of each point asked for
  spent                \* total_evaluations

objectiveVars == <<config, memo, spent>>

ObjectiveInit ==
  /\ memo = [p \in {} |-> 0]
  /\ spent = 0

Remaining == config.maxEvaluations - spent

BudgetSpent == spent >= config.maxEvaluations

\* The positions of a request, a function from integers to points, that hold
\* the first mention of a point not in the cache.
FirstMentions(request) ==
  {i \in DOMAIN request :
     /\ request[i] \notin DOMAIN memo
     /\ \A j \in DOMAIN request : j < i => request[j] # request[i]}

\* Fault: the last evaluation of the budget is never used.
AffordableBelow(request) ==
  LET new == FirstMentions(request)
  IN  {i \in new : Cardinality({j \in new : j <= i}) < Remaining}

\* Those of them the budget reaches, which are the first ones.
Affordable(request) ==
  LET new == FirstMentions(request)
  IN  {i \in new : Cardinality({j \in new : j <= i}) <= Remaining}

NewPoints(request) == {request[i] : i \in Affordable(request)}

RefusedPoints(request) ==
  {request[i] : i \in FirstMentions(request) \ Affordable(request)}

\* The cache after the call, when the points evaluated have these scores, and
\* those the budget does not reach the answer of a refusal.
MemoAfter(request, scores, refused) ==
  [p \in DOMAIN memo \cup NewPoints(request) \cup RefusedPoints(request) |->
     IF p \in DOMAIN memo THEN memo[p]
     ELSE IF p \in NewPoints(request) THEN scores[p]
     ELSE refused]

SpentAfter(request) == spent + Cardinality(NewPoints(request))

Ask(request, scores, refused) ==
  /\ memo' = MemoAfter(request, scores, refused)
  /\ spent' = SpentAfter(request)
  /\ UNCHANGED config

\* A call with any scores its new points may have.
Evaluate(request, refused) ==
  \E scores \in [NewPoints(request) -> UNION {ScoresAt(p) : p \in NewPoints(request)}] :
    /\ \A p \in NewPoints(request) : scores[p] \in ScoresAt(p)
    /\ Ask(request, scores, refused)
=============================================================================
