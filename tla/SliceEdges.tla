----------------------------- MODULE SliceEdges -----------------------------
(***************************************************************************)
(* slicing/slice_generator.py: where the vertical slices of a slide begin  *)
(* and end.  The abscissas where the slip surface meets the water or a     *)
(* material boundary become edges; the slices are dealt out to the         *)
(* intervals between them in proportion to their length.                   *)
(***************************************************************************)
EXTENDS Integers, Sequences, FiniteSets, FiniteSetsExt, SequencesExt

\* The code's x_tol, of which the merge tolerance is ten times.
Tenth(mergeTol) == mergeTol \div 10

\* The indices whose values hang together with that of i, each within mergeTol of
\* the next one up.
ClusterOf(values, mergeTol, i) ==
    LET Gapless(low, high) ==
            \A v \in ToSet(values) :
                (low <= v /\ v < high) => \E w \in ToSet(values) : v < w /\ w <= v + mergeTol
    IN {j \in DOMAIN values : IF values[i] <= values[j] THEN Gapless(values[i], values[j])
                                                        ELSE Gapless(values[j], values[i])}

\* The sum of a function over a set.
SumOf(f, S) == LET F(x) == f[x] IN MapThenSumSet(F, S)

\* _merge_close_points: the mean of each cluster.
MergeClose(values, mergeTol) ==
    LET Mean(C) == SumOf(values, C) \div Cardinality(C)
    IN {Mean(ClusterOf(values, mergeTol, i)) : i \in DOMAIN values}

\* A set of integers as an ascending sequence.
Ascending(S) ==
    [i \in 1..Cardinality(S) |-> CHOOSE x \in S : Cardinality({y \in S : y < x}) = i - 1]

\* The ends of the slide and the roots kept between them; no interval this leaves is
\* short enough for _collapse_small_intervals to remove.
CutPoints(roots, left, right, mergeTol) ==
    LET tol == Tenth(mergeTol)
        internal == {x \in MergeClose(roots, mergeTol) : left + tol < x /\ x < right - tol}
        merged == MergeClose(Ascending(internal \cup {left, right}), mergeTol)
    IN IF internal = {} \/ Cardinality(merged) < 2 THEN {left, right}
       ELSE (merged \ {Min(merged), Max(merged)}) \cup {left, right}

\* What each interval gets of n slices by its length, and how far that falls short.
ShareOf(lengths, n) ==
    [i \in DOMAIN lengths |-> (n * lengths[i]) \div SumOf(lengths, DOMAIN lengths)]
RestOf(lengths, n) ==
    [i \in DOMAIN lengths |->
        n * lengths[i] - SumOf(lengths, DOMAIN lengths) * ShareOf(lengths, n)[i]]

\* The share, or one if it is less.
FloorOf(lengths, n) ==
    [i \in DOMAIN lengths |->
        IF ShareOf(lengths, n)[i] < 1 THEN 1 ELSE ShareOf(lengths, n)[i]]

\* The order in which one more is given: the larger rest, the longer interval, the left
\* one.  It is taken back in the opposite order.
Ahead(lengths, n) ==
    LET k == DOMAIN lengths
        rest == RestOf(lengths, n)
        Before(i, j) == \/ rest[i] > rest[j]
                        \/ rest[i] = rest[j] /\ lengths[i] > lengths[j]
                        \/ rest[i] = rest[j] /\ lengths[i] = lengths[j] /\ i < j
    IN {p \in k \X k : Before(p[1], p[2])}

\* Fault: what is left goes to the last interval, and nothing is taken back.
AllocationLastServed(lengths, n) ==
    LET k == DOMAIN lengths
        floor == FloorOf(lengths, n)
        delta == n - SumOf(floor, k)
    IN [i \in k |-> floor[i] + IF i = Len(lengths) /\ delta > 0 THEN delta ELSE 0]

\* _allocate_interval_slice_counts, for the lengths of the intervals from left to
\* right: shares rounded down, at least one each; the rest goes to the largest
\* remainders, and what is over is taken from the smallest.
Allocation(lengths, n) ==
    LET k == DOMAIN lengths
        floor == FloorOf(lengths, n)
        spare == [i \in k |-> floor[i] - 1]
        delta == n - SumOf(floor, k)
        TakenBefore(i) == SumOf(spare, {j \in k : <<i, j>> \in Ahead(lengths, n)})
        Taken(i) == Min({spare[i], Max({0, -delta - TakenBefore(i)})})
    IN IF delta >= 0
       THEN [i \in k |-> floor[i]
                + IF Cardinality({j \in k : <<j, i>> \in Ahead(lengths, n)}) < delta
                  THEN 1 ELSE 0]
       ELSE [i \in k |-> floor[i] - Taken(i)]

Lengths(points) == [i \in 1..(Len(points) - 1) |-> points[i + 1] - points[i]]

\* numpy's linspace: count equal steps, rounded down to the grid.
Spaced(left, right, count) == {left + ((right - left) * i) \div count : i \in 0..count}

\* _resolve_slice_edges, without roots, with more intervals than slices or if two edges
\* coincide: n equal slices.
SliceEdgesAt(roots, left, right, n, mergeTol) ==
    LET points == Ascending(CutPoints(roots, left, right, mergeTol))
        counts == Allocation(Lengths(points), n)
        edges == UNION {Spaced(points[i], points[i + 1], counts[i]) : i \in DOMAIN counts}
    IN IF Len(points) = 2 \/ Len(points) - 1 > n \/ Cardinality(edges) # n + 1
       THEN Ascending(Spaced(left, right, n)) ELSE Ascending(edges)
=============================================================================
