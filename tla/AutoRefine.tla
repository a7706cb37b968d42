----------------------------- MODULE AutoRefine -----------------------------
(***************************************************************************)
(* run_auto_refine_search (search/auto_refine.py): in each iteration the   *)
(* retained path is cut into divisions, circles are tried through the      *)
(* midpoints of every pair of divisions, and the divisions of the lowest   *)
(* average factor of safety become the next path; then the refinement      *)
(* passes of PostRefinement.                                               *)
(*                                                                         *)
(* The retained path is the part of the ground the search still looks at,  *)
(* a set of segments of the ground line.  Positions are arc lengths along  *)
(* the ground from the left search limit, in units small enough for every  *)
(* boundary and midpoint to be an integer.                                 *)
(***************************************************************************)
EXTENDS PostRefinement, FiniteSetsExt

CONSTANTS
  GroundLength,          \* the ground between the search limits
  Breakpoints,           \* the toe and the crest, where the ground bends
  CandidateOf(_, _, _),  \* the surface through two midpoints at one angle, clipped
                         \* to the ground, or NoSurface
  AutoConfigurations     \* the values of AutoRefineSearchInput

ASSUME GroundAssumption ==
  /\ GroundLength \in Nat \ {0}
  /\ Breakpoints \subseteq 1..(GroundLength - 1)

\* keepCount is max(1, ceil(divisions * divisions_to_use_next_iteration_pct / 100)).
AutoConfigurationType ==
  [divisions : Nat \ {0}, circles : Nat \ {0}, iterations : Nat \ {0}, keepCount : Nat \ {0}]

ASSUME AutoRefineAssumption ==
  /\ AutoConfigurations \subseteq AutoConfigurationType
  /\ \A c \in AutoConfigurations : c.keepCount <= c.divisions

\* The unit of length: no division of any iteration is shorter.
ASSUME UnitAssumption ==
  \A c \in AutoConfigurations : c.divisions ^ c.iterations <= GroundLength

\* The law of powers.
ASSUME PowerAssumption ==
  \A c \in AutoConfigurations : \A n \in 0..(c.iterations - 1) :
    /\ c.divisions ^ n \in Nat \ {0}
    /\ c.divisions ^ (n + 1) = c.divisions * c.divisions ^ n

-----------------------------------------------------------------------------
(* The ground that is retained *)

\* A segment is a pair <<start, end>>, a path a set of disjoint segments.
Length(segment) == segment[2] - segment[1]

TotalLength(segments) == MapThenSumSet(Length, segments)

\* _build_retained_path: the ground, cut where it bends.
WholeGround ==
  LET cuts == Breakpoints \cup {0, GroundLength}
  IN  {s \in cuts \X cuts : s[1] < s[2] /\ \A c \in cuts : c <= s[1] \/ c >= s[2]}

\* The length of the path before a segment.
Traversed(segments, segment) == TotalLength({other \in segments : other[1] < segment[1]})

\* _point_at_retained_arc_length: the first segment that reaches that far.
PointAt(segments, s) ==
  LET reaching == {segment \in segments : s <= Traversed(segments, segment) + Length(segment)}
      first == CHOOSE segment \in reaching : \A other \in reaching : segment[1] <= other[1]
  IN  first[1] + (s - Traversed(segments, first))

\* Divisions are numbered from 0.
Boundary(segments, divisions, i) == (i * TotalLength(segments)) \div divisions

MidpointOf(segments, divisions, i) ==
  PointAt(segments, ((2 * i + 1) * TotalLength(segments)) \div (2 * divisions))

\* _extract_retained_interval: the pieces of the path from one length to another.
ExtractInterval(segments, from, to) ==
  {<<segment[1] + Max({from, Traversed(segments, segment)}) - Traversed(segments, segment),
     segment[1] + Min({to, Traversed(segments, segment) + Length(segment)}) - Traversed(segments, segment)>> :
   segment \in {s \in segments : /\ from < Traversed(segments, s) + Length(s)
                                 /\ Traversed(segments, s) < to}}

\* Fault: segments are joined across a bend.
JoinsAnywhere(segments) == {s[2] : s \in segments} \cap {s[1] : s \in segments}

\* Where one segment goes on straight after another.
Joins(segments) == ({s[2] : s \in segments} \cap {s[1] : s \in segments}) \ Breakpoints

\* _merge_adjacent_retained_segments
MergeAdjacent(segments) ==
  LET ends == {s[2] : s \in segments} \ Joins(segments)
  IN  {<<a, Min({b \in ends : b > a})>> : a \in {s[1] : s \in segments} \ Joins(segments)}

\* _build_next_retained_path
NextPath(segments, divisions, indices) ==
  MergeAdjacent(UNION {ExtractInterval(segments, Boundary(segments, divisions, i),
                                       Boundary(segments, divisions, i + 1)) : i \in indices})

-----------------------------------------------------------------------------
(* The search *)

VARIABLES
  search,                \* the AutoRefineSearchInput, which never changes
  path,                  \* active_retained_path
  pair,                  \* the divisions <<i, j>> whose circles are next
  divisionFos,           \* the sum and the number of the values of each division
  iterationBest,         \* iter_min_surface and iter_min_fos
  generated,             \* generated and valid surfaces of the iteration
  validGenerated,
  iterations             \* one record for each iteration

autoSearchVars == <<search, path, pair, divisionFos, iterationBest, generated, validGenerated,
                    iterations, stage>>
autoVars == <<solved, winner, refinementVars, autoSearchVars>>

Divisions == 0..(search.divisions - 1)

FirstPair == <<0, 1>>

NoFos == [sum |-> 0, count |-> 0]

AutoPasses == <<"toe_crest", "toe_locked_beta", "local_polish">>

AutoInit ==
  /\ search \in AutoConfigurations
  /\ RefinementInit(AutoPasses)
  /\ path = WholeGround
  /\ pair = FirstPair
  /\ divisionFos = [i \in Divisions |-> NoFos]
  /\ iterationBest = NoWinner /\ generated = 0 /\ validGenerated = 0
  /\ iterations = <<>> /\ stage = "pairs"

-----------------------------------------------------------------------------
(* An iteration *)

\* _generate_pre_polish_pair_candidates
PairCandidates(i, j) ==
  LET left == MidpointOf(path, search.divisions, i)
      right == MidpointOf(path, search.divisions, j)
  IN  [m \in 1..(IF left < right THEN search.circles ELSE 0) |-> CandidateOf(left, right, m)]

NextPair == IF pair[2] + 1 < search.divisions THEN <<pair[1], pair[2] + 1>>
            ELSE <<pair[1] + 1, pair[1] + 2>>

\* The values a batch adds to each of its two divisions.
WithValues(values, answers, batch) ==
  [sum |-> values.sum + MapThenSumSet(LAMBDA i : answers[batch[i]], ValidAt(answers, batch)),
   count |-> values.count + Cardinality(ValidAt(answers, batch))]

MorePairs == pair[2] < search.divisions

EvaluatePair ==
  /\ stage = "pairs" /\ MorePairs
  /\ LET batch == PairCandidates(pair[1], pair[2])
     IN  /\ Solve(batch)
         /\ winner' = BestAfter(winner, solved', batch)
         /\ iterationBest' = BestAfter(iterationBest, solved', batch)
         /\ divisionFos' = [i \in Divisions |->
                              IF i \in {pair[1], pair[2]}
                                THEN WithValues(divisionFos[i], solved', batch) ELSE divisionFos[i]]
         /\ generated' = generated + Len(batch)
         /\ validGenerated' = validGenerated + Cardinality(ValidAt(solved', batch))
  /\ pair' = NextPair
  /\ UNCHANGED <<refinementVars, search, path, iterations, stage>>

\* The average of a division without values is infinite.
LowerAverage(a, b) ==
  IF a.count = 0 THEN FALSE ELSE b.count = 0 \/ a.sum * b.count < b.sum * a.count

\* The sort by (average, index).
AverageBefore(i, j) ==
  \/ LowerAverage(divisionFos[i], divisionFos[j])
  \/ ~LowerAverage(divisionFos[j], divisionFos[i]) /\ i < j

RetainedIndices ==
  {i \in Divisions : Cardinality({j \in Divisions \ {i} : AverageBefore(j, i)}) < search.keepCount}

\* The next path is never empty, since every division has a length.
RetainDivisions ==
  /\ stage = "pairs" /\ ~MorePairs
  /\ path' = NextPath(path, search.divisions, RetainedIndices)
  /\ iterations' =
       Append(iterations,
              [active |-> path, minimum |-> iterationBest, retained |-> RetainedIndices,
               generated |-> generated, valid |-> validGenerated])
  /\ pair' = FirstPair /\ divisionFos' = [i \in Divisions |-> NoFos]
  /\ iterationBest' = NoWinner /\ generated' = 0 /\ validGenerated' = 0
  /\ stage' = IF Len(iterations') < search.iterations THEN "pairs"
              ELSE IF winner = NoWinner THEN "failed" ELSE "refining"
  /\ UNCHANGED <<solved, winner, refinementVars, search>>

RefineAutoWinner ==
  /\ RefineWinner
  /\ UNCHANGED <<search, path, pair, divisionFos, iterationBest, generated, validGenerated,
                 iterations>>

AutoNext == EvaluatePair \/ RetainDivisions \/ RefineAutoWinner

AutoSpec == AutoInit /\ [][AutoNext]_autoVars

-----------------------------------------------------------------------------
(* Properties *)

FosValues(s) == FosOf(s) \cup {Invalid}

RefineTypeOK ==
  /\ search \in AutoConfigurations
  /\ \A s \in DOMAIN solved : solved[s] \in FosOf(s)
  /\ NoSurface \notin DOMAIN solved
  /\ winner.surface \in DOMAIN solved \cup {NoSurface}
  /\ winner.surface # NoSurface => winner.fos = solved[winner.surface]
  /\ path \subseteq (0..GroundLength) \X (0..GroundLength)
  /\ stage = "pairs" => TotalLength(path) % (2 * search.divisions) = 0
  /\ validGenerated \in 0..generated
  /\ postCounts.total = postCounts.valid + postCounts.infeasible
  /\ Len(iterations) <= search.iterations
  /\ stage \in {"pairs", "refining", "done", "failed"}

(* What is sampled is on retained ground: segments are disjoint and contain  *)
(* no bend, so that a point between their ends lies on the ground, and the   *)
(* midpoints of the divisions rise along them.                               *)
SamplesOnRetainedGround ==
  stage = "pairs" =>
    /\ \A s, t \in path : s # t => s[2] <= t[1] \/ t[2] <= s[1]
    /\ \A s \in path : s[1] < s[2] /\ \A b \in Breakpoints : ~(s[1] < b /\ b < s[2])
    /\ \A i \in Divisions :
         /\ \E s \in path : MidpointOf(path, search.divisions, i) \in s[1]..s[2]
         /\ i > 0 => MidpointOf(path, search.divisions, i - 1) < MidpointOf(path, search.divisions, i)

(* The winner is the best surface of all: before the refinement the best by  *)
(* factor of safety and surface key of everything solved in any iteration,   *)
(* which is also the best of the minima reported for the iterations, and     *)
(* after it no surface solved anywhere has a lower factor of safety.         *)
WinnerIsBest ==
  LET minima == {iterations[i].minimum : i \in DOMAIN iterations}
      validSurfaces == {s \in DOMAIN solved : solved[s] # Invalid}
  IN  /\ passesLeft = AutoPasses /\ batches = 0 =>
           /\ \A s \in validSurfaces :
                winner.surface = s \/ BetterSurface(winner, [surface |-> s, fos |-> solved[s]])
           /\ winner \in minima \cup {iterationBest}
      /\ stage = "done" => \A s \in validSurfaces : winner.fos <= solved[s]
=============================================================================
