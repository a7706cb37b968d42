-------------------------- MODULE MCSurfaceAnalysis --------------------------
(* Documents that differ from a plain one in one or two fields, each field *)
(* missing, null, of another type, and at and beside its bounds.           *)
EXTENDS SurfaceAnalysis

Value(kind, word, n) == [kind |-> kind, word |-> word, value |-> n]
Number(n) == Value("number", "number", n)
Whole(n) == Number(n * One)
Word(w) == Value("word", w, 0)
NullValue == Value("null", "none", 0)

Odd == {NullValue, Value("boolean", "true", 1), Value("boolean", "false", 0),
        Value("unbounded", "inf", 0), Value("text", "1", One), Word("auto"), Word("custom"),
        Word("none"), Word("crest_range"), Word("parallel"), Word("spencer")}
Bounds == {Number(n) : n \in {-20, 0, 1, 19, 20, 21, 40, 41, 1800, 2000, 2001}}

\* One field of a section gone, or given another value.
Varied(d, values) ==
    {[k \in DOMAIN d \ {gone} |-> d[k]] : gone \in DOMAIN d}
        \cup {[d EXCEPT ![k] = v] : k \in DOMAIN d, v \in values}

With(d, k, value) == [f \in DOMAIN d \cup {k} |-> IF f = k THEN value ELSE d[f]]

PlainGeometry == [h |-> Whole(10), l |-> Whole(20), xToe |-> Whole(0), yToe |-> Whole(0)]
PlainAnalysis ==
    [method |-> Word("bishop_simplified"), nSlices |-> Whole(5), tolerance |-> Whole(1),
     maxIter |-> Whole(2), fInit |-> Whole(1)]
Point(x, y) == [x |-> Whole(x), y |-> Whole(y)]
Clay == [id |-> Word("clay"), gamma |-> Whole(18), c |-> Whole(5), phi |-> Whole(20)]
Sand == [id |-> Word("sand"), gamma |-> Whole(18), c |-> Whole(0), phi |-> Whole(30)]
Seed == [materialId |-> Word("clay"), seedX |-> Whole(1), seedY |-> Whole(-1)]
Square == <<Point(-9, -9), Point(40, -9), Point(40, 10), Point(-9, 10)>>
PlainSoils == [materials |-> <<Clay>>, external |-> Square, assignments |-> <<Seed>>]
PlainSurface ==
    [xc |-> Whole(8), yc |-> Whole(12), r |-> Whole(14), xLeft |-> Whole(0),
     yLeft |-> Whole(0), xRight |-> Whole(20), yRight |-> Whole(10)]

AutoRefineSection ==
    [divisions |-> Whole(4), circles |-> Whole(2), iterations |-> Whole(2),
     keepPct |-> Whole(50), floor |-> Number(0)]
DirectSection ==
    [maxIterations |-> Whole(2), maxEvaluations |-> Whole(9), minImprovement |-> Number(1),
     stallIterations |-> Whole(2), minHalfSize |-> Number(1)]
CuckooSection ==
    [populationSize |-> Whole(3), maxIterations |-> Whole(2), maxEvaluations |-> Whole(9),
     discoveryRate |-> Number(5), levyBeta |-> Number(30), alphaMax |-> Number(21),
     alphaMin |-> Number(20), minImprovement |-> Number(1), stallIterations |-> Whole(2),
     seed |-> Whole(0), postPolish |-> Value("boolean", "true", 1)]
CmaesSection ==
    [maxEvaluations |-> Whole(2), prescanEvaluations |-> Whole(1), populationSize |-> Whole(3),
     maxIterations |-> Whole(2), restarts |-> Whole(0), sigma0 |-> Number(3),
     polishMaxEvaluations |-> Whole(2), minImprovement |-> Number(1),
     stallIterations |-> Whole(2), seed |-> Whole(0),
     postPolish |-> Value("boolean", "true", 1), invalidPenalty |-> Whole(2),
     nonconvergedPenalty |-> Whole(1)]

SearchOf(method, section) == With([method |-> Word(method)], method, section)

PlainBase ==
    [units |-> Word("metric"), geometry |-> PlainGeometry, analysis |-> PlainAnalysis,
     soils |-> PlainSoils]
SearchDocument == With(PlainBase, "search", SearchOf("auto_refine_circular", AutoRefineSection))
SurfaceDocument == With(PlainBase, "surface", PlainSurface)

Replace(d, section, values) == {With(d, section, v) : v \in values}

NoSections == {Null, NotAnObject}

GroundDocuments ==
    Replace(SearchDocument, "geometry", Varied(PlainGeometry, Odd \cup Bounds) \cup NoSections)
        \cup Replace(SearchDocument, "analysis",
                     Varied(PlainAnalysis, Odd \cup Bounds) \cup NoSections)
        \cup Replace(SearchDocument, "soils",
                Varied(PlainSoils, {}) \cup NoSections
                    \cup Replace(PlainSoils, "materials",
                            {<<m>> : m \in Varied(Clay, Odd \cup Bounds)}
                                \cup {<<>>, <<Clay, Sand>>, <<Clay, Clay>>})
                    \cup Replace(PlainSoils, "assignments",
                            {<<Seed, s>> : s \in Varied(Seed, Odd)}
                                \cup {<<>>, <<[Seed EXCEPT !.materialId = Word("sand")]>>})
                    \cup Replace(PlainSoils, "external",
                            {SubSeq(Square, 1, 2), <<Square[1]>> \o Square,
                             <<[x |-> NullValue, y |-> Whole(0)]>> \o Square})
                    \cup Replace(PlainSoils, "boundaries",
                            {<<>>, <<SubSeq(Square, 1, 2)>>, <<SubSeq(Square, 1, 1)>>}))

SurchargeSection ==
    [magnitude |-> Whole(1), placement |-> Word("crest_range"), xStart |-> Whole(20),
     xEnd |-> Whole(21)]
InfiniteSection == [magnitude |-> Whole(1), placement |-> Word("crest_infinite")]
SeismicSection == [model |-> Word("pseudo_static"), kh |-> Number(4), kv |-> Number(0)]
CustomHu == [mode |-> Word("custom"), value |-> Whole(1)]
WaterSection ==
    [model |-> Word("water_surfaces"), surface |-> <<Point(0, 2), Point(9, 3)>>,
     hu |-> CustomHu, gammaW |-> Whole(10)]
RuSection == [model |-> Word("ru_coefficient"), ru |-> Number(6)]

LoadDocuments ==
    Replace(SearchDocument, "loads",
        NoSections
            \cup {[surcharge |-> s] : s \in Varied(SurchargeSection, Odd \cup Bounds)
                                               \cup Varied(InfiniteSection, Odd \cup Bounds)
                                               \cup {With(InfiniteSection, "xStart", Whole(21))}}
            \cup {[seismic |-> s] : s \in Varied(SeismicSection, Odd \cup Bounds)
                                             \cup {[model |-> Word("none")]}}
            \cup {[groundwater |-> w] :
                     w \in {[WaterSection EXCEPT !.hu = h] : h \in Varied(CustomHu, Odd \cup Bounds)
                                                                   \cup {[mode |-> Word("auto")]}}
                               \cup {[WaterSection EXCEPT !.surface = s] :
                                        s \in {<<Point(0, 2)>>, <<Point(9, 3), Point(0, 2)>>,
                                               <<Point(0, 2), Point(0, 3)>>}}
                               \cup {[WaterSection EXCEPT !.gammaW = g] : g \in Odd \cup Bounds}
                               \cup Varied(WaterSection, {})
                               \cup Varied(RuSection, Odd \cup Bounds)})

SearchDocuments ==
    Replace(PlainBase, "search",
        NoSections
            \cup {SearchOf("auto_refine_circular", s) :
                     s \in Varied(AutoRefineSection, Odd \cup Bounds) \cup NoSections}
            \cup {SearchOf("direct_global_circular", s) :
                     s \in Varied(DirectSection, Odd \cup Bounds) \cup NoSections}
            \cup {SearchOf("cuckoo_global_circular", s) :
                     s \in Varied(CuckooSection, Odd \cup Bounds) \cup NoSections}
            \cup {SearchOf("cmaes_global_circular", s) :
                     s \in Varied(CmaesSection, Odd \cup Bounds) \cup NoSections}
            \cup {SearchOf("simulated_annealing", DirectSection)}
            \cup {SearchOf("direct_global_circular", With(DirectSection, "searchLimits", m)) :
                     m \in Varied([xMin |-> Whole(1), xMax |-> Whole(2)], Odd \cup Bounds)
                              \cup NoSections}
            \cup {With(SearchOf("direct_global_circular", DirectSection), "parallel", p) :
                     p \in Varied([mode |-> Word("auto"), workers |-> Whole(2),
                                   minBatchSize |-> Whole(1), timeout |-> Whole(1)],
                                  Odd \cup Bounds)
                              \cup {[enabled |-> Value("boolean", "true", 1)]} \cup NoSections})

\* Prescribed surfaces, for both solvers.
SolvedDocuments ==
    {With(With(SurfaceDocument, "analysis", a), "loads", q) :
        a \in {[PlainAnalysis EXCEPT !.fInit = Whole(f), !.maxIter = Whole(i)] :
                  f \in 1..2, i \in 2..3}
                 \cup {[PlainAnalysis EXCEPT !.method = Word("spencer")]},
        q \in {Null, [seismic |-> SeismicSection]}}

OtherDocuments ==
    Varied(SearchDocument, {}) \cup Varied(SurfaceDocument, {}) \cup {PlainBase}
        \cup {With(SearchDocument, "surface", PlainSurface),
              With(SearchDocument, "material", Clay), With(SearchDocument, "units", Word("feet"))}
        \cup Replace(SurfaceDocument, "surface",
                Varied(PlainSurface, {NullValue, Number(-20), Value("text", "1", One)})
                    \cup {NotAnObject})

MCDocuments ==
    GroundDocuments \cup LoadDocuments \cup SearchDocuments \cup SolvedDocuments
        \cup OtherDocuments

MCFosValues == {0, 20, 40, 60}
MCResiduals == {0, 20, 40}
MCProbes == <<20, 40, 60>>
MCForcedWorkers == {-1, 0}
MCNonFinite == -1
=============================================================================
