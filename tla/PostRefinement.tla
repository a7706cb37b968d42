--------------------------- MODULE PostRefinement ---------------------------
(***************************************************************************)
(* The deterministic passes that follow a search (search/auto_refine.py,   *)
(* and the grid of search/cmaes_global.py): each sweeps over end points    *)
(* and angles, solves the surfaces of one pair of end points as a batch    *)
(* and keeps the best surface so far.  They have no cache and no budget,   *)
(* and count what they evaluate in counters of their own.                  *)
(*                                                                         *)
(* Surfaces are numbered in the order of surface_key; which of them a pass *)
(* proposes is left open.  Factors of safety are integers whose unit is    *)
(* above TIE_TOL.                                                          *)
(***************************************************************************)
EXTENDS Integers, Sequences, FiniteSets

CONSTANTS
  RefinementSurfaces,    \* the surfaces the passes may propose
  FosOf(_),              \* what the solver may find of a surface
  NoSurface,             \* end points and an angle that make no circle
  Invalid,               \* in place of a factor of safety: not a valid candidate
  BatchesPerPass,        \* bound: batches of a pass (441, 1, 49, 61 and 21 in the code)
  BatchLength            \* bound: surfaces of a batch (beta samples)

ASSUME PostRefinementAssumption ==
  /\ RefinementSurfaces \subseteq Int /\ NoSurface \in Int \ RefinementSurfaces
  /\ Invalid \in Nat
  /\ BatchesPerPass \in Nat /\ BatchLength \in Nat \ {0}
  /\ \A s \in RefinementSurfaces : FosOf(s) \subseteq 0..Invalid

VARIABLES
  solved,                \* what the solver found of each surface given to it
  winner,                \* best_surface and the factor of safety of best_result
  running,               \* the best surface inside the pass
  passesLeft,
  batches,               \* batches of the pass so far
  postCounts,            \* post_refinement_counts
  stage                  \* where the search is: the passes are its last stage

refinementVars == <<running, passesLeft, batches, postCounts>>

NoWinner == [surface |-> NoSurface, fos |-> Invalid]

\* The passes of a search, in their order, are given.
RefinementInit(passes) ==
  /\ solved = [s \in {} |-> Invalid] /\ winner = NoWinner
  /\ running = NoWinner /\ passesLeft = passes /\ batches = 0
  /\ postCounts = [total |-> 0, valid |-> 0, infeasible |-> 0]

-----------------------------------------------------------------------------
(* Batches of surfaces *)

Unsolved(batch) == {batch[i] : i \in DOMAIN batch} \ (DOMAIN solved \cup {NoSurface})

\* evaluate_surface_candidates_batch, whose solver answers the same each time.
Solve(batch) ==
  \E found \in [Unsolved(batch) -> UNION {FosOf(s) : s \in Unsolved(batch)}] :
    /\ \A s \in Unsolved(batch) : found[s] \in FosOf(s)
    /\ solved' = [s \in DOMAIN solved \cup Unsolved(batch) |->
                    IF s \in DOMAIN solved THEN solved[s] ELSE found[s]]

ValidAt(answers, batch) ==
  {i \in DOMAIN batch : batch[i] # NoSurface /\ answers[batch[i]] # Invalid}

BetterSurface(a, b) == a.fos < b.fos \/ (a.fos = b.fos /\ a.surface < b.surface)

BestSurface(found) ==
  CHOOSE best \in found : \A other \in found \ {best} : BetterSurface(best, other)

\* Fault: of equals, the last wins.
LastTieWins(incumbent, answers, batch) ==
  LET found == {[surface |-> batch[i], fos |-> answers[batch[i]]] : i \in ValidAt(answers, batch)}
  IN  CHOOSE best \in found \cup {incumbent} :
        \A other \in (found \cup {incumbent}) \ {best} :
          best.fos < other.fos \/ (best.fos = other.fos /\ best.surface > other.surface)

\* The loop over the evaluations: a lower factor of safety wins, then a
\* smaller surface key.
BestAfter(incumbent, answers, batch) ==
  LET found == {[surface |-> batch[i], fos |-> answers[batch[i]]] : i \in ValidAt(answers, batch)}
  IN  BestSurface(found \cup {incumbent})

\* record_batch
Recorded(counts, answers, batch) ==
  LET valid == Cardinality(ValidAt(answers, batch))
  IN  [total |-> counts.total + Len(batch), valid |-> counts.valid + valid,
       infeasible |-> counts.infeasible + (Len(batch) - valid)]

-----------------------------------------------------------------------------
(* The passes *)

Candidates == RefinementSurfaces \cup {NoSurface}

StartOfPass == IF batches = 0 THEN winner ELSE running

SweepBatch ==
  /\ passesLeft # <<>> /\ batches < BatchesPerPass
  /\ \E batch \in [1..BatchLength -> Candidates] :
       /\ Solve(batch)
       /\ running' = BestAfter(StartOfPass, solved', batch)
       /\ postCounts' = Recorded(postCounts, solved', batch)
  /\ batches' = batches + 1
  /\ UNCHANGED <<winner, passesLeft>>

\* The local polish keeps the surface it was given unless it found a lower
\* factor of safety; the other passes return the best they know.  A pass
\* whose windows are empty ends before its first batch.
PassResult(pass) ==
  IF pass = "local_polish" /\ ~(StartOfPass.fos < winner.fos) THEN winner ELSE StartOfPass

EndPass ==
  /\ passesLeft # <<>>
  /\ winner' = PassResult(Head(passesLeft))
  /\ running' = NoWinner /\ batches' = 0
  /\ passesLeft' = Tail(passesLeft)
  /\ UNCHANGED <<solved, postCounts>>

Refine == SweepBatch \/ EndPass

RefineWinner ==
  /\ stage = "refining"
  /\ Refine
  /\ stage' = IF passesLeft' = <<>> THEN "done" ELSE stage
=============================================================================
