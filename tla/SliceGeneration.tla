--------------------------- MODULE SliceGeneration ---------------------------
(***************************************************************************)
(* slicing/slice_generator.py: generate_vertical_slices() on the domain    *)
(* that materials/soil_domain.py built.  The slide is cut at the edges of  *)
(* SliceEdges, measured at nodes one column at a time, and turned into     *)
(* slices with their weight by material, base material, loads and pore     *)
(* pressure; each check may refuse the surface with a GeometryError.       *)
(*                                                                         *)
(* Everything is on the fine grid of SoilDomain.  An area is doubled, and  *)
(* the factors of the input (unit weights, load intensities) are left out: *)
(* a force is the area or the length it is proportional to.                *)
(***************************************************************************)
EXTENDS SoilDomain, SliceEdges

CONSTANTS
    Toe, Crest,     \* the two corners of the slope, on the ground's grid
    Jobs            \* the slides that may be cut

\* arc: the slip surface, its level at each abscissa from left to right; water: a
\* polyline, or << >>; hu: whether the pore-pressure coefficient is in range;
\* surcharge: {} or the interval that is loaded ("crest" for all of the crest).
ASSUME JobsAssumption ==
    \A j \in Jobs :
        /\ DOMAIN j = {"arc", "left", "right", "n", "mergeTol", "pore", "water",
                       "inRange", "surcharge", "seismic"}
        /\ j.left \in Int /\ j.right \in Int /\ j.left < j.right
        /\ j.arc \in [j.left..j.right -> Int]
        /\ j.n \in Nat \ {0} /\ j.n <= j.right - j.left /\ j.mergeTol \in Nat
        /\ j.pore \in {"none", "water_surfaces", "ru_coefficient"}
        /\ j.pore = "water_surfaces" =>
              /\ j.water \in Seq(Int \X Int) /\ Len(j.water) >= 2
              /\ \A i \in 1..(Len(j.water) - 1) : j.water[i][1] < j.water[i + 1][1]
        /\ j.surcharge \notin {{}, {"crest"}} =>
              j.surcharge \subseteq Int /\ IsFiniteSet(j.surcharge)
ASSUME SlopeAssumption ==
    Toe \in Int \X Int /\ Crest \in Int \X Int /\ Toe[1] < Crest[1]

VARIABLES
    cutting,    \* where generate_vertical_slices() is
    job,        \* the slide, its loads and the number of slices
    xEdges,     \* the abscissas of the slice edges
    xNodes,     \* the abscissas the columns are measured at
    columns,    \* the lengths by material of the columns measured so far
    slices      \* the slices made so far

sliceVars == <<cutting, job, xEdges, xNodes, columns, slices>>
slicingVars == <<domainVars, sliceVars>>

XToe == Toe[1] * StepsX
XCrest == Crest[1] * StepsX

SliceInit ==
    /\ DomainInit
    /\ cutting = "waiting" /\ job = << >>
    /\ xEdges = <<>> /\ xNodes = <<>> /\ columns = <<>> /\ slices = <<>>

BuildDomain == cutting = "waiting" /\ BuildStep /\ UNCHANGED sliceVars

\* The slip surface meets this line in points of the fine grid only.
MeetsOnGrid(j, s) ==
    \A x \in j.left..(j.right - 1) :
        LET step == <<<<x, j.arc[x]>>, <<x + 1, j.arc[x + 1]>>>>
        IN ~OverlapColinear(step, s) /\ \A m \in Meeting(step, s) : m.t \in {0, m.den}

\* The call of generate_vertical_slices().
TakeJob ==
    /\ cutting = "waiting" /\ building = "ready"
    /\ job' \in {j \in Jobs : \A s \in Fine(BoundarySegments, 1) \cup ToSet(Segments(j.water)) :
                                MeetsOnGrid(j, s)}
    /\ cutting' = "edges"
    /\ UNCHANGED <<domainVars, xEdges, xNodes, columns, slices>>

-----------------------------------------------------------------------------
(* The profile and the water.                                              *)

GroundLevel(x) ==
    IF x <= XToe THEN Toe[2] * StepsY
    ELSE IF x >= XCrest THEN Crest[2] * StepsY
    ELSE LevelOn(Scaled(Toe, StepsX, StepsY), Scaled(Crest, StepsX, StepsY), x)

\* Zero outside the slope; both of its corners count as slope.
OnSlope(x) == XToe <= x /\ x <= XCrest

UnderWater(x) == job.water[1][1] <= x /\ x <= Last(job.water)[1]

\* The last segment that starts at or before x.
WaterLevel(x) ==
    LET i == Max({1} \cup {i \in 1..(Len(job.water) - 1) : job.water[i][1] <= x})
    IN LevelOn(job.water[i], job.water[i + 1], x)

\* The part of the slide over the straight piece s of the water; the base there, above
\* the piece (positive), on it or under it; and where the two meet.
Over(s) == [from |-> Max({job.left, s[1][1]}), to |-> Min({job.right, s[2][1]})]
Side(x, s) == Cross(Minus(s[2], s[1]), Minus(<<x, job.arc[x]>>, s[1]))
Meets(s) == {x \in Over(s).from..Over(s).to : Side(x, s) = 0}
Inner(s) == Meets(s) \ {Over(s).from, Over(s).to}

\* The base is on opposite sides at the two ends, or on one side all along.
Crossed(s) == Side(Over(s).from, s) * Side(Over(s).to, s) < 0
OneSided(s) ==
    \/ \A x \in Over(s).from..Over(s).to : Side(x, s) >= 0
    \/ \A x \in Over(s).from..Over(s).to : Side(x, s) <= 0

\* What _surface_water_intersections may find of one piece: the ends where they meet, and
\* one meeting between them at most.  A change of sign brackets one (brentq).  Without it
\* the bounded minimisation of the distance stops at one of them; at a crossing it may
\* miss y_tol and find none, where the base only touches the distance is flat.
PieceRoots(s) ==
    LET ends == Meets(s) \ Inner(s)
    IN IF Over(s).to <= Over(s).from THEN {{}}
       ELSE {ends \cup {x} : x \in Inner(s)}
                \cup (IF Inner(s) = {} \/ ~(Crossed(s) \/ OneSided(s)) THEN {ends} ELSE {})

\* The roots of every piece of the water.
WaterRoots ==
    IF job.pore # "water_surfaces" THEN {<<>>}
    ELSE LET pieces == Segments(job.water)
         IN {found \in [DOMAIN pieces -> UNION {PieceRoots(s) : s \in ToSet(pieces)}] :
                \A i \in DOMAIN pieces : found[i] \in PieceRoots(pieces[i])}

BoundaryRoots ==
    IF Uniform THEN {}
    ELSE BaseMeets(Fine(BoundarySegments, 1), job.arc, job.left, job.right)

\* raw_roots: a corner of the water where the base meets both of its pieces is there twice.
RawRoots(found) ==
    LET all == UNION {found[i] : i \in DOMAIN found}
        twice == {x \in all : \E i, j \in DOMAIN found : i # j /\ x \in found[i] \cap found[j]}
    IN Ascending(all) \o Ascending(twice) \o Ascending(BoundaryRoots)

-----------------------------------------------------------------------------
(* Edges and nodes.                                                        *)

Breakpoints ==
    {XToe, XCrest}
        \cup {StepsX * p[1] : p \in UNION {ToSet(line) : line \in ToSet(soils.boundaries)}}

ResolveEdges ==
    /\ cutting = "edges"
    /\ \E found \in WaterRoots :
          LET edgesAt == SliceEdgesAt(RawRoots(found), job.left, job.right, job.n,
                                      job.mergeTol)
              nodes == ToSet(edgesAt)
                           \cup {x \in Breakpoints : job.left < x /\ x < job.right}
          IN /\ xEdges' = edgesAt
             /\ xNodes' = Ascending(nodes)
             /\ cutting' = IF \E x \in nodes : GroundLevel(x) < job.arc[x]
                           THEN "refused" ELSE "columns"
    /\ UNCHANGED <<domainVars, job, columns, slices>>

\* A uniform ground is measured without asking for its material.
ColumnLengths(x) ==
    IF Uniform THEN {[m \in soils.materials \cup {GeometryError} |->
                         IF m = GeometryError THEN 0 ELSE GroundLevel(x) - job.arc[x]]}
    ELSE MaterialLengths(x, job.arc[x], GroundLevel(x))

MeasureColumn ==
    /\ cutting = "columns" /\ Len(columns) < Len(xNodes)
    /\ \E lengths \in ColumnLengths(xNodes[Len(columns) + 1]) :
          IF lengths[GeometryError] > 0
          THEN cutting' = "refused" /\ UNCHANGED columns
          ELSE columns' = Append(columns, lengths) /\ UNCHANGED cutting
    /\ UNCHANGED <<domainVars, job, xEdges, xNodes, slices>>

-----------------------------------------------------------------------------
(* Slices.                                                                 *)

\* The trapezoids of f between the nodes from left to right, doubled.
Trapezoids(f, left, right) ==
    LET spans == {i \in 1..(Len(xNodes) - 1) : left <= xNodes[i] /\ xNodes[i + 1] <= right}
    IN SumOf([i \in spans |-> (f[i] + f[i + 1]) * (xNodes[i + 1] - xNodes[i])], spans)

SliceArea(left, right) ==
    Trapezoids([i \in DOMAIN xNodes |-> GroundLevel(xNodes[i]) - job.arc[xNodes[i]]],
               left, right)

MaterialArea(m, left, right) ==
    Trapezoids([i \in DOMAIN columns |-> columns[i][m]], left, right)

ColumnsMeasured ==
    /\ cutting = "columns" /\ Len(columns) = Len(xNodes)
    /\ cutting' = IF \E i \in 1..job.n : SliceArea(xEdges[i], xEdges[i + 1]) <= 0
                  THEN "refused" ELSE "slices"
    /\ UNCHANGED <<domainVars, job, xEdges, xNodes, columns, slices>>

\* Fault: the load is not clipped at the slice's right edge.
SurchargeUnclipped(left, right) ==
    IF job.surcharge = {} THEN 0
    ELSE IF job.surcharge = {"crest"} THEN Max({0, right - Max({left, XCrest})})
    ELSE Max({0, Max(job.surcharge) - Max({left, Min(job.surcharge)})})

\* The part of the surcharge on the slice.
SurchargeOn(left, right) ==
    LET Overlap(from, to) == IF to > from THEN to - from ELSE 0
    IN IF job.surcharge = {} THEN 0
       ELSE IF job.surcharge = {"crest"} THEN Overlap(Max({left, XCrest}), right)
       ELSE Overlap(Max({left, Min(job.surcharge)}), Min({right, Max(job.surcharge)}))

\* How deep the water stands over the ground.
Depth(x) == Max({WaterLevel(x) - GroundLevel(x), 0})

\* The ponded water on the slice, sampled at each step of the fine grid: its weight,
\* and its thrust on the slope.
Pond(left, right) ==
    LET from == Max({left, job.water[1][1]})
        to == Min({right, Last(job.water)[1]})
        steps == from..(to - 1)
        Thrust(x) == IF OnSlope(x) THEN Depth(x) ELSE 0
        weights == [x \in steps |-> Depth(x) + Depth(x + 1)]
        thrusts == [x \in steps |-> Thrust(x) + Thrust(x + 1)]
    IN IF job.pore # "water_surfaces" \/ to <= from THEN [down |-> 0, in |-> 0]
       ELSE [down |-> SumOf(weights, steps), in |-> SumOf(thrusts, steps)]

\* Below the water level in the middle of the base, doubled.
PoreHead(left, right) ==
    LET water == WaterLevel((left + right) \div 2)
    IN Max({2 * water - job.arc[left] - job.arc[right], 0})

PoreRefused(left, right) ==
    \/ job.pore # "none" /\ ~job.inRange
    \/ job.pore = "water_surfaces" /\ ~UnderWater((left + right) \div 2)

BaseMaterials(left, right) ==
    IF Uniform THEN {soils.materials}
    ELSE ChordMaterials(<<<<left, job.arc[left]>>, <<right, job.arc[right]>>>>)

CutSlice ==
    /\ cutting = "slices" /\ Len(slices) < job.n
    /\ LET left == xEdges[Len(slices) + 1]
           right == xEdges[Len(slices) + 2]
           areas == [m \in soils.materials |-> MaterialArea(m, left, right)]
           weight == SumOf(areas, soils.materials)
       IN \E found \in BaseMaterials(left, right) :
             IF GeometryError \in found \/ Cardinality(found) # 1 \/ PoreRefused(left, right)
             THEN cutting' = "refused" /\ UNCHANGED slices
             ELSE /\ slices' = Append(slices,
                        [left |-> left, right |-> right,
                         material |-> CHOOSE m \in found : TRUE,
                         areas |-> areas, weight |-> weight,
                         surcharge |-> SurchargeOn(left, right),
                         pond |-> Pond(left, right),
                         seismic |-> IF job.seismic THEN weight ELSE 0,
                         pore |-> IF job.pore = "none" THEN 0
                                  ELSE IF job.pore = "ru_coefficient" THEN weight
                                  ELSE PoreHead(left, right)])
                  /\ UNCHANGED cutting
    /\ UNCHANGED <<domainVars, job, xEdges, xNodes, columns>>

FinishSlices ==
    /\ cutting = "slices" /\ Len(slices) = job.n
    /\ cutting' = "done"
    /\ UNCHANGED <<domainVars, job, xEdges, xNodes, columns, slices>>

SliceNext ==
    \/ BuildDomain \/ TakeJob \/ ResolveEdges \/ MeasureColumn \/ ColumnsMeasured
    \/ CutSlice \/ FinishSlices

SliceSpec == SliceInit /\ [][SliceNext]_slicingVars

-----------------------------------------------------------------------------
(* Properties.                                                             *)

\* The walk around a face comes back to its start without entering an edge twice or an
\* edge of another face, so the traversal never gives up (_build_faces, max_steps).
WalksClose ==
    building = "faces" =>
        /\ Cardinality(ToSet(walk)) = Len(walk)
        /\ ToSet(walk) \cap visited = {}

\* A domain that was accepted gives no point two materials: two faces overlap nowhere,
\* whatever loops, spurs and crossings the boundaries have (build_soil_domain).  The
\* points tried are the middles of the grid's half cells.
OneMaterialPerPoint ==
    (building = "ready" /\ cutting = "waiting") =>
        LET Width == Max({p[1] : p \in ToSet(soils.external)})
            Height == Max({p[2] : p \in ToSet(soils.external)})
        IN \A x \in 0..(Width - 1), y \in 0..(Height - 1) :
              LET p == <<4 * x + 1, 4 * y + 2>>
              IN Cardinality({f \in faces : InPolygon(p, ScaledSegments(f, 4, 4))}) <= 1

\* The vertical at x runs along a boundary.
OnUpright(x) == \E s \in Fine(BoundarySegments, 1) : s[1][1] = x /\ s[2][1] = x

\* The outline of the ground passes between the two levels at x.
OutlineCuts(x, bottom, top) ==
    \E s \in Fine(Ground, 1) :
        IF s[1][1] = s[2][1]
        THEN x = s[1][1] /\ Least(s[1][2], s[2][2]) < top /\ bottom < Greatest(s[1][2], s[2][2])
        ELSE /\ Least(s[1][1], s[2][1]) <= x /\ x <= Greatest(s[1][1], s[2][1])
             /\ bottom < LevelAt(s, x) /\ LevelAt(s, x) < top

\* Away from upright boundaries, the column measured last has of each material as many
\* units of height as there are in the ground between the base and the surface
\* (vertical_material_lengths).  The outline of the ground is no boundary: a column that
\* passes through it is not cut there.
ColumnsTrue ==
    (cutting = "columns" /\ columns # <<>> /\ ~Uniform) =>
        LET x == xNodes[Len(columns)]
            units == job.arc[x]..(GroundLevel(x) - 1)
            Of(m) == {Fine(f, 2) : f \in {f \in faces : owner[f] = m}}
            Has(m, y) == \E f \in Of(m) : StrictlyIn(<<2 * x, 2 * y + 1>>, f)
        IN (~OnUpright(x) /\ ~OutlineCuts(x, job.arc[x], GroundLevel(x))) =>
           \A m \in soils.materials :
              Last(columns)[m] = Cardinality({y \in units : Has(m, y)})

\* The edges are as many as asked for and go from one end to the other, each to the
\* right of the one before.  With room for them (as many slices as intervals, as many grid
\* steps in each as slices), they contain the abscissas where the base was found to meet
\* water or a boundary, all of them if none are merged, and then one between the ends of
\* every straight piece of the water that the base crosses from one side to the other or
\* touches; a piece that it crosses there and back may be left without one.  Each interval
\* has a slice, and at most one more than its share or than the one it must have; and if
\* every share is one at least, none has less than its share and a longer one no fewer
\* (_resolve_slice_edges).
EdgesSound ==
    xEdges # <<>> =>
        LET n == job.n
            cuts == ToSet(xEdges)
            Share(g) == (n * (g[2] - g[1])) \div (job.right - job.left)
            In(g) == Cardinality({i \in 1..n : g[1] <= xEdges[i] /\ xEdges[i + 1] <= g[2]})
            Fits(roots, points) ==
                ((/\ Cardinality(points) - 1 <= n
                  /\ \A g \in Gaps(points) : g[2] - g[1] >= n) =>
                    /\ points \subseteq cuts
                    /\ job.mergeTol = 0 =>
                          /\ roots \subseteq cuts
                          /\ job.pore = "water_surfaces" =>
                                \A s \in ToSet(Segments(job.water)) :
                                    (Inner(s) # {} /\ (Crossed(s) \/ OneSided(s))) =>
                                        Inner(s) \cap cuts # {}
                    /\ \A g \in Gaps(points) : In(g) \in 1..(Max({1, Share(g)}) + 1)
                    /\ (\A g \in Gaps(points) : Share(g) >= 1) =>
                          \A g, h \in Gaps(points) :
                             /\ Share(g) <= In(g)
                             /\ g[2] - g[1] > h[2] - h[1] => In(g) >= In(h))
        IN /\ Len(xEdges) = n + 1 /\ xEdges[1] = job.left /\ Last(xEdges) = job.right
           /\ \A i \in 1..n : xEdges[i] < xEdges[i + 1]
           /\ \E found \in WaterRoots :
                 Fits({x \in ToSet(RawRoots(found)) : job.left < x /\ x < job.right},
                      CutPoints(RawRoots(found), job.left, job.right, job.mergeTol))

\* No column is measured along an upright boundary.
UprightsMissed == \A i \in DOMAIN xNodes : ~OnUpright(xNodes[i])

\* The slices carry together the whole surcharge and the whole weight of the pond over
\* the slide, wherever a load begins or ends between their edges, and the whole weight
\* of the slide itself where no column runs along an upright boundary
\* (generate_vertical_slices).
WholeLoadCarried ==
    cutting = "done" =>
        LET surcharge == [i \in 1..job.n |-> slices[i].surcharge]
            down == [i \in 1..job.n |-> slices[i].pond.down]
            weight == [i \in 1..job.n |-> slices[i].weight]
        IN /\ SumOf(surcharge, 1..job.n) = SurchargeOn(job.left, job.right)
           /\ SumOf(down, 1..job.n) = Pond(job.left, job.right).down
           /\ UprightsMissed => SumOf(weight, 1..job.n) = SliceArea(job.left, job.right)

\* The whole base of the slice cut last, the chord between its ends, lies in ground of the
\* slice's base material (_slice_base_material, which looks at the middle of each piece).
\* A chord through a corner of a boundary is not cut there, and the chord of a wide slice
\* may pass over the ground at the toe.
BaseMaterialSound ==
    (slices # <<>> /\ ~Uniform) =>
        LET s == Last(slices)
            w == s.right - s.left
            chord == <<<<s.left, job.arc[s.left]>>, <<s.right, job.arc[s.right]>>>>
            corners == UNION {ToSet(b) : b \in Fine(BoundarySegments, 1)} \ ToSet(chord)
            points == {<<(s.left + k) * w, chord[1][2] * (w - k) + chord[2][2] * k>> :
                          k \in 1..(w - 1)}
            here == {Fine(f, w) : f \in {f \in faces : owner[f] = s.material}}
            ground == Fine(Ground, w)
        IN \/ \E p \in corners : OnSegment(p, chord)
           \/ \A p \in points : InPolygon(p, ground) => \E f \in here : InPolygon(p, f)

\* docs/surcharge-explainer.md:52 -- "weight: soil self-weight only": by unit weight
\* one, the weight of a slice is its area.
WeightIsSelfWeight ==
    \A i \in DOMAIN slices :
        slices[i].weight = SliceArea(slices[i].left, slices[i].right)
=============================================================================
