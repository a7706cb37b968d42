-------------------------- MODULE DirectPartition ---------------------------
(***************************************************************************)
(* search/direct_partition.py: the rectangles of the normalized box, how   *)
(* they are selected and how they are divided.                             *)
(*                                                                         *)
(* Half sizes are 1/6 divided by powers of three, and centres are sums of  *)
(* them, so lengths are integers: 1/6 is 3^GridDepth units.  Scores are    *)
(* integers whose unit is above TIE_TOL: near-ties that are not ties are   *)
(* the business of ObjectiveEvaluator.                                     *)
(***************************************************************************)
EXTENDS Integers, FiniteSetsExt

CONSTANTS
  Dimensions,            \* 3 in the code
  GridDepth,             \* how often a side can be divided
  Infinity,              \* the score of an invalid point, where it has no penalty
  KeyOf(_),              \* the number of a point's surface, by surface_key
  Slopes                 \* the K grid, in score units per length unit

Axes == 1..Dimensions
Levels == 0..GridDepth

ASSUME PartitionAssumption ==
  /\ Dimensions \in Nat \ {0}
  /\ GridDepth \in Nat
  /\ Slopes \subseteq Nat /\ 0 \in Slopes /\ IsFiniteSet(Slopes)
  /\ Infinity \in Nat

VARIABLES
  rectangles,            \* the set of live rectangles
  nextRectId

\* The law of powers that the proofs about lengths need.
ASSUME TrisectionAssumption ==
  \A n \in 0..(GridDepth - 1) : 3^(n + 1) = 3 * 3^n

Box == 6 * 3^GridDepth

\* A rectangle keeps how often each of its sides has been divided.
Half(level) == 3^(GridDepth - level)

SizeMetric(rect) == Half(Min({rect.level[d] : d \in Axes}))

Better(a, b) == a.score < b.score \/ (a.score = b.score /\ a.id < b.id)

\* min by (score, rect_id)
BestOf(rects) == CHOOSE rect \in rects : \A other \in rects \ {rect} : Better(rect, other)

\* best_rectangles_per_size; the loop sees rectangles by rising id.
BestRectanglesPerSize(rects) ==
  {BestOf({r \in rects : SizeMetric(r) = size}) : size \in {SizeMetric(r) : r \in rects}}

\* Fault: an invalid point has a finite penalty.
PenaltyBound(rect, k) == rect.score - k * SizeMetric(rect)

LowerBound(rect, k) ==
  IF rect.score = Infinity THEN Infinity ELSE rect.score - k * SizeMetric(rect)

\* The rectangle of the lowest bound for the slope k.
Chosen(rects, k) ==
  LET reduced == BestRectanglesPerSize(rects)
  IN  BestOf({r \in reduced : \A other \in reduced : LowerBound(r, k) <= LowerBound(other, k)})

\* incumbents holds the id of the incumbent, for a caller that passes it.
SelectPotentiallyOptimal(rects, incumbents) ==
  {Chosen(rects, k) : k \in Slopes} \cup {r \in rects : r.id \in incumbents}

\* Fault: always the first dimension.
FirstDimension(rect) == 1

\* The longest side, the first of them.
SplitDimension(rect) ==
  Min({d \in Axes : \A e \in Axes : rect.level[d] <= rect.level[e]})

\* delta: the third of the half side, which is the children's half side.
Delta(rect) == Half(rect.level[SplitDimension(rect)] + 1)

\* Fault: the child in the middle is dropped.
OuterChildren == {0, 2}

ChildPositions == 0..2

\* split_rectangle for all the selected, in the order of their ids, with the
\* ids make_rectangle gives the children.
Children(selected, nextId) ==
  {[id |-> nextId + 3 * Cardinality({s \in selected : s.id < r.id}) + i,
    center |-> [r.center EXCEPT ![SplitDimension(r)] = @ + (i - 1) * Delta(r)],
    level |-> [r.level EXCEPT ![SplitDimension(r)] = @ + 1]] :
   r \in selected, i \in ChildPositions}

SeedCoordinates == {Box \div 6, Box \div 2, 5 * (Box \div 6)}

Seeds == [Axes -> SeedCoordinates]

\* The order of the nested loops over the seeded centres.
Before(p, q) ==
  \E d \in Axes : p[d] < q[d] /\ \A e \in Axes : e < d => p[e] = q[e]

SeedRectangles ==
  {[id |-> Cardinality({q \in Seeds : Before(q, p)}), center |-> p,
    level |-> [d \in Axes |-> 0]] : p \in Seeds}

\* Rectangles are evaluated in one batch, by rising id.
CentersById(specs) ==
  [i \in {s.id : s \in specs} |-> (CHOOSE s \in specs : s.id = i).center]

Scored(specs, answers) ==
  {[id |-> s.id, center |-> s.center, level |-> s.level, score |-> answers[s.center]] : s \in specs}
=============================================================================
