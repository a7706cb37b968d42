----------------------------- MODULE SoilDomain -----------------------------
(***************************************************************************)
(* materials/soil_domain.py: build_soil_domain() cuts the ground along the *)
(* material boundaries, walks the faces of the arrangement, gives each     *)
(* face the material of the seed points in it, and refuses what it cannot  *)
(* assign.  The queries the slices ask of an accepted domain follow.       *)
(*                                                                         *)
(* The ground lies on a grid on which every crossing is a grid point; the  *)
(* queries see it on the finer grid of StepsX by StepsY steps per unit.    *)
(***************************************************************************)
EXTENDS PlanarGeometry, SequencesExt

CONSTANTS
    SoilInputs,         \* the soils sections a project may give
    StepsX, StepsY      \* fine grid steps per unit of the ground's grid

\* Stands for the exception where a material is asked for.
GeometryError == "GeometryError"

Points == Nat \X Nat
\* external: the ring of the ground; boundaries: polylines; materials: their ids;
\* assignments: seed points and the material each is meant to give its face.
SoilsInput == [external : Seq(Points), boundaries : Seq(Seq(Points)),
               materials : SUBSET STRING, assignments : Seq(Points \X STRING)]

ASSUME SoilInputsAssumption ==
    /\ SoilInputs \subseteq SoilsInput
    /\ \A input \in SoilInputs :
          IsFiniteSet(input.materials) /\ GeometryError \notin input.materials
ASSUME StepsAssumption == StepsX \in Nat \ {0} /\ StepsY \in Nat \ {0}

HasLength(s) == s[1] # s[2]

\* The segments of a line; line 0 is the ring.
LineSegments(input, l) ==
    IF l = 0 THEN Ring(input.external) ELSE Segments(input.boundaries[l])

\* The segments with a length, by their line and their place in it.
RawSegments(input) ==
    LET places == UNION {{l} \X DOMAIN LineSegments(input, l) : l \in 0..Len(input.boundaries)}
    IN [k \in {k \in places : HasLength(LineSegments(input, k[1])[k[2]])} |->
           LineSegments(input, k[1])[k[2]]]

\* The grid is fine enough for every crossing.
ASSUME GridAssumption ==
    \A input \in SoilInputs :
        \A s, o \in Elements(RawSegments(input)) : \A m \in Meeting(s, o), k \in 1..2 :
            (m.t * (s[2][k] - s[1][k])) % m.den = 0

\* And the fine grid for the level of a segment at every abscissa of it.
ASSUME LevelsAssumption ==
    \A input \in SoilInputs :
        \A s \in Elements(RawSegments(input)) :
            LET width == StepsX * (s[2][1] - s[1][1])
                rise == StepsY * (s[2][2] - s[1][2])
            IN /\ width > 0 => rise % width = 0
               /\ width < 0 => rise % (-width) = 0

VARIABLES
    soils,      \* the input
    building,   \* where build_soil_domain() is
    edges,      \* the directed edges of the arrangement
    walk,       \* the edges of the face being walked, in order
    visited,    \* the edges that were walked
    faces,      \* the faces kept, each the set of its directed edges
    seeded,     \* how many assignments were applied
    owner       \* the material of each face that has one

domainVars == <<soils, building, edges, walk, visited, faces, seeded, owner>>

Ground == Elements(Ring(soils.external))
BoundarySegments == UNION {Elements(Segments(line)) : line \in Elements(soils.boundaries)}

DomainInit ==
    /\ soils \in SoilInputs
    /\ building = "arrangement"
    /\ edges = {} /\ walk = <<>> /\ visited = {} /\ faces = {}
    /\ seeded = 0
    /\ owner = << >>

-----------------------------------------------------------------------------
(* The arrangement.                                                        *)

SoilsMalformed ==
    \/ soils.materials = {} \/ Len(soils.external) < 3 \/ soils.assignments = <<>>
    \/ SignedArea2(Ground) = 0
    \/ \E line \in Elements(soils.boundaries) :
          Len(line) < 2 \/ \E p \in Elements(line) : ~InPolygon(p, Ground)

Raw == Elements(RawSegments(soils))

Overlapping ==
    LET raw == RawSegments(soils)
    IN \E i, j \in DOMAIN raw : i # j /\ OverlapColinear(raw[i], raw[j])

\* The point of parameter t/den on s.
PointAt(s, t, den) ==
    <<s[1][1] + ((t * (s[2][1] - s[1][1])) \div den),
      s[1][2] + ((t * (s[2][2] - s[1][2])) \div den)>>

\* The ends of s and the points where the other segments meet it.
SplitPoints(s) ==
    Elements(s) \cup UNION {{PointAt(s, m.t, m.den) : m \in Meeting(s, o)} :
                               o \in Raw \ {s}}

\* The two directed edges between neighbouring split points.
Pieces(s) ==
    LET points == SplitPoints(s)
        Along(p) == Dot(Minus(p, s[1]), Minus(s[2], s[1]))
    IN {e \in points \X points :
           /\ e[1] # e[2]
           /\ ~\E p \in points : \/ Along(e[1]) < Along(p) /\ Along(p) < Along(e[2])
                                 \/ Along(e[2]) < Along(p) /\ Along(p) < Along(e[1])}

SplitSegments ==
    /\ building = "arrangement"
    /\ IF SoilsMalformed \/ Overlapping
       THEN building' = "refused" /\ UNCHANGED edges
       ELSE /\ building' = "faces"
            /\ edges' = UNION {Pieces(s) : s \in Raw}
    /\ UNCHANGED <<soils, walk, visited, faces, seeded, owner>>

-----------------------------------------------------------------------------
(* The faces.                                                              *)

\* Fault: the neighbours are not taken as a circle.
NextEdgeUncircled(e) ==
    LET b == e[2]
        Angle(n) == Minus(n, b)
        before == {n \in {f[2] : f \in {f \in edges : f[1] = b}} :
                      AngleBefore(Angle(n), Angle(e[1]))}
    IN <<b, IF before = {} THEN e[1]
            ELSE CHOOSE n \in before : \A m \in before \ {n} : AngleBefore(Angle(m), Angle(n))>>

\* From b on: the neighbour clockwise-next to a, the one the walk came from.
NextEdge(e) ==
    LET b == e[2]
        Angle(n) == Minus(n, b)
        neighbours == {f[2] : f \in {f \in edges : f[1] = b}}
        before == {n \in neighbours : AngleBefore(Angle(n), Angle(e[1]))}
        from == IF before # {} THEN before ELSE neighbours
    IN <<b, CHOOSE n \in from : \A m \in from \ {n} : AngleBefore(Angle(m), Angle(n))>>

StartFace ==
    /\ building = "faces" /\ walk = <<>>
    /\ \E start \in edges \ visited : walk' = <<start>>
    /\ UNCHANGED <<soils, building, edges, visited, faces, seeded, owner>>

Closed == NextEdge(Last(walk)) = walk[1]

\* The last step the traversal may take before it gives up.
MaxSteps == Greatest(10, 4 * Cardinality(edges))

FollowEdge ==
    /\ building = "faces" /\ walk # <<>> /\ ~Closed
    /\ IF Len(walk) < MaxSteps
       THEN walk' = Append(walk, NextEdge(Last(walk))) /\ UNCHANGED building
       ELSE building' = "refused" /\ UNCHANGED walk
    /\ UNCHANGED <<soils, edges, visited, faces, seeded, owner>>

CentroidInside(poly) ==
    LET k == 3 * SignedArea2(poly)
    IN InPolygon(CentroidScaled(poly), ScaledSegments(Ground, k, k))

KeepsFace(poly) ==
    /\ Cardinality(poly) >= 3
    /\ SignedArea2(poly) > 0
    /\ CentroidInside(poly)

CloseFace ==
    /\ building = "faces" /\ walk # <<>> /\ Closed
    /\ visited' = visited \cup Elements(walk)
    /\ faces' = IF KeepsFace(Elements(walk)) THEN faces \cup {Elements(walk)} ELSE faces
    /\ walk' = <<>>
    /\ UNCHANGED <<soils, building, edges, seeded, owner>>

FacesWalked ==
    /\ building = "faces" /\ walk = <<>> /\ visited = edges
    /\ building' = IF faces = {} THEN "refused" ELSE "seeds"
    /\ UNCHANGED <<soils, edges, walk, visited, faces, seeded, owner>>

-----------------------------------------------------------------------------
(* The materials of the faces.                                             *)

FacesAround(p) == {f \in faces : StrictlyIn(p, f)}

\* Fault: a seed in several faces gives each of them its material.
SeedTakesAllFaces(p, material) ==
    \/ material \notin soils.materials
    \/ OnAny(p, edges)
    \/ FacesAround(p) = {}
    \/ \E f \in FacesAround(p) \cap DOMAIN owner : owner[f] # material

SeedRefused(p, material) ==
    \/ material \notin soils.materials
    \/ ~InPolygon(p, Ground)
    \/ OnAny(p, edges)
    \/ Cardinality(FacesAround(p)) # 1
    \/ \E f \in FacesAround(p) \cap DOMAIN owner : owner[f] # material

ApplySeed ==
    /\ building = "seeds" /\ seeded < Len(soils.assignments)
    /\ LET p == soils.assignments[seeded + 1][1]
           material == soils.assignments[seeded + 1][2]
       IN IF SeedRefused(p, material)
          THEN building' = "refused" /\ UNCHANGED <<seeded, owner>>
          ELSE /\ seeded' = seeded + 1
               /\ owner' = [f \in DOMAIN owner \cup FacesAround(p) |->
                               IF f \in FacesAround(p) THEN material ELSE owner[f]]
               /\ UNCHANGED building
    /\ UNCHANGED <<soils, edges, walk, visited, faces>>

SeedsApplied ==
    /\ building = "seeds" /\ seeded = Len(soils.assignments)
    /\ building' = IF DOMAIN owner = faces THEN "ready" ELSE "refused"
    /\ UNCHANGED <<soils, edges, walk, visited, faces, seeded, owner>>

BuildStep ==
    \/ SplitSegments \/ StartFace \/ FollowEdge \/ CloseFace \/ FacesWalked
    \/ ApplySeed \/ SeedsApplied

-----------------------------------------------------------------------------
(* Queries, on the fine grid.  Den > 1 divides it further: a point of the  *)
(* query is <<x, y>> / den.                                                *)

Uniform == Cardinality(soils.materials) = 1 /\ BoundarySegments = {}
Fine(segments, den) == ScaledSegments(segments, StepsX * den, StepsY * den)

\* material_for_point: what it may answer.  On a boundary it looks a tolerance to the
\* four sides, at which distance rounding decides what counts as off the boundary: it
\* finds one of the materials there, or both and refuses.
MaterialsAt(p, den) ==
    LET strict == {owner[f] : f \in {f \in faces : StrictlyIn(p, Fine(f, den))}}
        loose == {owner[f] : f \in {f \in faces : InPolygon(p, Fine(f, den))}}
    IN IF ~InPolygon(p, Fine(Ground, den)) THEN {GeometryError}
       ELSE IF Uniform THEN soils.materials
       ELSE IF strict # {} THEN IF Cardinality(strict) = 1 THEN strict ELSE {GeometryError}
       ELSE IF loose = {} THEN {GeometryError}
       ELSE IF Cardinality(loose) = 1 THEN loose ELSE loose \cup {GeometryError}

\* Fault: a boundary is level from its first point on.
CutLevelsFlat(x, bottom, top) ==
    {bottom, top} \cup
        {s[1][2] : s \in {s \in Fine(BoundarySegments, 1) :
            /\ Least(s[1][1], s[2][1]) <= x /\ x <= Greatest(s[1][1], s[2][1])
            /\ bottom <= s[1][2] /\ s[1][2] <= top}}

\* The level at x of the line through p and, to its right, q.
LevelOn(p, q, x) == p[2] + ((x - p[1]) * (q[2] - p[2])) \div (q[1] - p[1])

\* The level at x of a segment that is not upright.
LevelAt(s, x) ==
    IF s[1][1] < s[2][1] THEN LevelOn(s[1], s[2], x) ELSE LevelOn(s[2], s[1], x)

\* The levels at which a boundary cuts the vertical at x, between bottom and top.
CutLevels(x, bottom, top) ==
    LET Between(y) == IF bottom <= y /\ y <= top THEN {y} ELSE {}
        Cut(s) ==
            IF s[1][1] = s[2][1]
            THEN IF x # s[1][1] THEN {}
                 ELSE {Greatest(bottom, Least(s[1][2], s[2][2])),
                       Least(top, Greatest(s[1][2], s[2][2]))}
            ELSE IF x < Least(s[1][1], s[2][1]) \/ x > Greatest(s[1][1], s[2][1]) THEN {}
                 ELSE Between(LevelAt(s, x))
    IN {bottom, top} \cup UNION {Cut(s) : s \in Fine(BoundarySegments, 1)}

\* The intervals between neighbouring levels.
Gaps(levels) ==
    {g \in levels \X levels : g[1] < g[2] /\ ~\E y \in levels : g[1] < y /\ y < g[2]}

\* vertical_material_lengths: the answers it may give, each a function from the
\* material to its length in the column.
MaterialLengths(x, bottom, top) ==
    LET gaps == IF top <= bottom THEN {} ELSE Gaps(CutLevels(x, bottom, top))
        Found(g) == MaterialsAt(<<2 * x, g[1] + g[2]>>, 2)
        choices == {c \in [gaps -> soils.materials \cup {GeometryError}] :
                       \A g \in gaps : c[g] \in Found(g)}
        Length(g) == g[2] - g[1]
    IN {[m \in soils.materials \cup {GeometryError} |->
            MapThenSumSet(Length, {g \in gaps : c[g] = m})] : c \in choices}

\* Where the base curve y(x) meets a boundary strictly between two abscissas.
BaseMeets(segments, y, left, right) ==
    {x \in (left + 1)..(right - 1) : OnAny(<<x, y[x]>>, segments)}

\* Fault: the chord is asked about in one piece.
ChordUncut(chord) == {<<0, 1>>, <<1, 1>>}

\* base_material_segments: the parameters at which boundaries cut the chord.  A
\* boundary that meets it in one of its own ends does not cut it.
ChordCuts(chord) ==
    {<<0, 1>>, <<1, 1>>}
        \cup {LET g == CHOOSE g \in 1..m.den :
                          /\ m.t % g = 0 /\ m.den % g = 0
                          /\ \A h \in (g + 1)..m.den : m.t % h # 0 \/ m.den % h # 0
              IN <<m.t \div g, m.den \div g>> :
              m \in {m \in UNION {Meeting(chord, s) : s \in Fine(BoundarySegments, 1)} :
                        m.t \in 1..(m.den - 1) /\ m.u \in 1..(m.den - 1)}}

\* The materials that the middles of the chord's pieces may be given.
ChordMaterials(chord) ==
    LET cuts == ChordCuts(chord)
        Before(a, b) == a[1] * b[2] < b[1] * a[2]
        pieces == {g \in cuts \X cuts :
                      Before(g[1], g[2]) /\ ~\E c \in cuts : Before(g[1], c) /\ Before(c, g[2])}
        Middle(g) ==
            LET den == 2 * g[1][2] * g[2][2]
                t == g[1][1] * g[2][2] + g[2][1] * g[1][2]
            IN MaterialsAt(<<chord[1][1] * den + t * (chord[2][1] - chord[1][1]),
                             chord[1][2] * den + t * (chord[2][2] - chord[1][2])>>, den)
        choices == {c \in [pieces -> soils.materials \cup {GeometryError}] :
                       \A g \in pieces : c[g] \in Middle(g)}
    IN {{c[g] : g \in pieces} : c \in choices}
=============================================================================
