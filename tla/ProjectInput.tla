---------------------------- MODULE ProjectInput ----------------------------
(***************************************************************************)
(* io/json_io.py: parse_project_input(), from the JSON document to the     *)
(* ProjectInput of models.py.                                              *)
(*                                                                         *)
(* A parser returns the set of what it makes of its section: one value, or *)
(* none when it raises an InputValidationError.  Which error that is, and  *)
(* so which of several comes first, is left out.                           *)
(*                                                                         *)
(* Numbers are counted in twentieths, One to the unit; a default that is   *)
(* smaller than that is the smallest positive number.                      *)
(***************************************************************************)
EXTENDS Integers, Sequences, FiniteSets, SequencesExt

One == 20

-----------------------------------------------------------------------------
(* Values.  A JSON value has a kind, a word, stripped and in lower case,   *)
(* and a number: "text" is a string that spells a number, "unbounded" a    *)
(* number that is not finite.                                              *)

Kinds == {"number", "text", "word", "boolean", "null", "unbounded"}

AsFloat(v) == IF v.kind \in {"number", "text"} THEN {v.value} ELSE {}

\* int("1.0") fails where int(1.0) does not, but both spell a whole number here.
AsInt(v) == {n \in AsFloat(v) : n % One = 0}

AsBool(v) == IF v.kind = "boolean" THEN {v.value = 1} ELSE {}

\* str() never fails.
AsWord(v) == {v.word}

IsNull(d, k) == k \notin DOMAIN d \/ d[k].kind = "null"

Convert(type, v) ==
    CASE type = "float" -> AsFloat(v)
      [] type = "int"   -> AsInt(v)
      [] type = "bool"  -> AsBool(v)
      [] type = "word"  -> AsWord(v)

\* The fields of a section that schema names, each with its type; a field that is
\* not there has its default, or is required.
Read(d, schema, default) ==
    LET Field(k) == IF k \in DOMAIN d THEN Convert(schema[k], d[k])
                    ELSE IF k \in DOMAIN default THEN {default[k]} ELSE {}
    IN IF "null" \in DOMAIN d \/ \E k \in DOMAIN schema : Field(k) = {} THEN {}
       ELSE {[k \in DOMAIN schema |-> CHOOSE v \in Field(k) : TRUE]}

\* A document gives each section it has; a section is null, something that is not
\* an object, or a record of its fields.
Null == [null |-> TRUE]
NotAnObject == [null |-> FALSE]

Missing(d, section) == section \notin DOMAIN d \/ d[section] = Null

-----------------------------------------------------------------------------
(* Geometry, analysis and soils.                                           *)

Geometry(d) ==
    {g \in Read(d, [h |-> "float", l |-> "float", xToe |-> "float", yToe |-> "float"], << >>) :
        g.h > 0 /\ g.l > 0}

CrestX(g) == g.xToe + g.l

Analysis(d) ==
    {a \in Read(d, [method |-> "word", nSlices |-> "int", tolerance |-> "float",
                    maxIter |-> "int", fInit |-> "float"],
                   [fInit |-> One]) :
        /\ a.method \in {"bishop_simplified", "spencer"}
        /\ a.nSlices > 0 /\ a.maxIter > 0 /\ a.tolerance > 0 /\ a.fInit > 0}

Pairs(polyline) ==
    IF \E i \in 1..Len(polyline) :
           AsFloat(polyline[i].x) = {} \/ AsFloat(polyline[i].y) = {}
    THEN {}
    ELSE {[i \in 1..Len(polyline) |-> <<polyline[i].x.value, polyline[i].y.value>>]}

\* No two neighbours are the same point; the last may be the first.
Polyline(polyline, least) ==
    {p \in Pairs(polyline) : Len(p) >= least /\ \A i \in 1..(Len(p) - 1) : p[i] # p[i + 1]}

\* All entries, or none when one of them is refused.
Each(entries, Parse(_)) ==
    IF \E i \in 1..Len(entries) : Parse(entries[i]) = {} THEN {}
    ELSE {[i \in 1..Len(entries) |-> CHOOSE v \in Parse(entries[i]) : TRUE]}

Material(d) ==
    {m \in Read(d, [id |-> "word", gamma |-> "float", c |-> "float", phi |-> "float"], << >>) :
        m.id # "" /\ m.gamma > 0 /\ 0 <= m.phi /\ m.phi < 90 * One}

Assignment(d) == Read(d, [materialId |-> "word", seedX |-> "float", seedY |-> "float"], << >>)

NamesDefined(s) ==
    \A i \in 1..Len(s.assignments) :
        \E k \in 1..Len(s.materials) : s.assignments[i].materialId = s.materials[k].id

Soils(d) ==
    LET Boundary(line) == Polyline(line, 2)
    IN IF ~({"materials", "external", "assignments"} \subseteq DOMAIN d) THEN {}
       ELSE {s \in {[materials |-> m, external |-> e, boundaries |-> b, assignments |-> a] :
                       m \in Each(d.materials, Material), e \in Polyline(d.external, 3),
                       b \in Each(IF "boundaries" \in DOMAIN d THEN d.boundaries ELSE <<>>,
                                  Boundary),
                       a \in Each(d.assignments, Assignment)} :
                /\ s.materials # <<>> /\ s.assignments # <<>>
                /\ \A i, k \in 1..Len(s.materials) :
                      i # k => s.materials[i].id # s.materials[k].id
                /\ NamesDefined(s)}

-----------------------------------------------------------------------------
(* Loads.  Each is a set with one load, or {} when there is none: so that  *)
(* a parser returns {{}} for no load and {} for a refusal.                 *)

Absent == {}

\* x_start and x_end are fields of a crest_range only.
RangeOn(d, g) ==
    {r \in Read(d, [magnitude |-> "float", placement |-> "word",
                    xStart |-> "float", xEnd |-> "float"], << >>) :
        /\ r.xEnd > r.xStart
        /\ r.xStart >= CrestX(g) /\ r.xEnd >= CrestX(g)}

\* Fault: any other placement is taken for crest_infinite.
SurchargeUnplaced(d, g) ==
    {{s} : s \in {s \in IF "placement" \in DOMAIN d /\ d.placement.word = "crest_range"
                        THEN RangeOn(d, g)
                        ELSE Read(d, [magnitude |-> "float", placement |-> "word"], << >>) :
                     s.magnitude >= 0}}

Surcharge(d, g) ==
    {{s} : s \in {s \in IF "placement" \in DOMAIN d /\ d.placement.word = "crest_infinite"
                        THEN IF ~IsNull(d, "xStart") \/ ~IsNull(d, "xEnd") THEN {}
                             ELSE Read(d, [magnitude |-> "float", placement |-> "word"], << >>)
                        ELSE RangeOn(d, g) :
                     /\ s.magnitude >= 0
                     /\ s.placement \in {"crest_infinite", "crest_range"}}}

Seismic(d) ==
    {{s} : s \in {s \in IF "model" \in DOMAIN d /\ d.model.word = "none"
                        THEN {[model |-> "none", kh |-> 0, kv |-> 0]}
                        ELSE Read(d, [model |-> "word", kh |-> "float", kv |-> "float"],
                                     [kv |-> 0]) :
                     /\ s.model \in {"none", "pseudo_static"}
                     /\ 0 <= s.kh /\ s.kh <= One /\ s.kv = 0}}

WaterSurface(d) ==
    {p \in IF "surface" \in DOMAIN d THEN Pairs(d.surface) ELSE {} :
        Len(p) >= 2 /\ \A i \in 1..(Len(p) - 1) : p[i][1] < p[i + 1][1]}

\* value: << >> for hu.mode = "auto".
Hu(d) ==
    IF "mode" \notin DOMAIN d THEN {}
    ELSE IF d.mode.word = "custom"
    THEN {[mode |-> "custom", value |-> <<h.value>>] :
             h \in {h \in Read(d, [value |-> "float"], << >>) : 0 <= h.value /\ h.value <= One}}
    ELSE IF d.mode.word = "auto" /\ IsNull(d, "value")
    THEN {[mode |-> "auto", value |-> <<>>]} ELSE {}

WaterTable(d) ==
    {[model |-> "water_surfaces", surface |-> s, hu |-> h, gammaW |-> w.gammaW] :
        s \in WaterSurface(d),
        h \in IF "hu" \in DOMAIN d THEN Hu(d.hu) ELSE {},
        w \in {w \in Read(d, [gammaW |-> "float"], [gammaW |-> 196]) : w.gammaW > 0}}

Groundwater(d) ==
    LET model == IF "model" \in DOMAIN d THEN d.model.word ELSE ""
    IN {{w} : w \in CASE model = "none" -> {[model |-> "none"]}
                      [] model = "water_surfaces" -> WaterTable(d)
                      [] model = "ru_coefficient" ->
                            {w \in Read(d, [model |-> "word", ru |-> "float"], << >>) :
                                0 <= w.ru /\ w.ru <= One}
                      [] OTHER -> {}}

\* A load that is null is no load.
Optional(d, section, Parse(_)) == IF Missing(d, section) THEN {Absent} ELSE Parse(d[section])

Loads(d, g) ==
    LET SurchargeOf(s) == Surcharge(s, g)
    IN IF d = NotAnObject THEN {}
       ELSE {[surcharge |-> s, seismic |-> q, groundwater |-> w] :
           s \in Optional(d, "surcharge", SurchargeOf),
           q \in Optional(d, "seismic", Seismic),
           w \in Optional(d, "groundwater", Groundwater)}

-----------------------------------------------------------------------------
(* The surface or the search.                                              *)

Surface(d) ==
    {s \in Read(d, [xc |-> "float", yc |-> "float", r |-> "float", xLeft |-> "float",
                    yLeft |-> "float", xRight |-> "float", yRight |-> "float"], << >>) :
        s.r > 0 /\ s.xRight > s.xLeft}

Limits(d, g) ==
    IF Missing(d, "searchLimits")
    THEN {[xMin |-> g.xToe - g.h, xMax |-> g.xToe + g.l + 2 * g.h]}
    ELSE {m \in Read(d.searchLimits, [xMin |-> "float", xMax |-> "float"], << >>) :
             m.xMax > m.xMin}

\* timeout_seconds is << >> when it is null; "enabled" is refused.
Parallel(d) ==
    LET Timeout == IF IsNull(d, "timeout") THEN {<<>>}
                   ELSE {<<t>> : t \in {t \in AsFloat(d.timeout) : t > 0}}
        Mode == IF IsNull(d, "mode") THEN {"auto"}
                ELSE AsWord(d.mode) \cap {"auto", "serial", "parallel"}
    IN IF "enabled" \in DOMAIN d THEN {}
       ELSE {[mode |-> m, workers |-> p.workers, minBatchSize |-> p.minBatchSize,
              timeout |-> t] :
                m \in Mode, t \in Timeout,
                p \in {p \in Read(d, [workers |-> "int", minBatchSize |-> "int"],
                                     [workers |-> 0, minBatchSize |-> One]) :
                          p.workers >= 0 /\ p.minBatchSize > 0}}

AutoRefine(d) ==
    {s \in Read(d, [divisions |-> "int", circles |-> "int", iterations |-> "int",
                    keepPct |-> "float"], << >>) :
        /\ s.divisions > One /\ s.circles > 0 /\ s.iterations > 0
        /\ 0 < s.keepPct /\ s.keepPct <= 100 * One
        /\ IsNull(d, "floor") \/ AsFloat(d.floor) # {}}

Direct(d) ==
    {s \in Read(d, [maxIterations |-> "int", maxEvaluations |-> "int",
                    minImprovement |-> "float", stallIterations |-> "int",
                    minHalfSize |-> "float"], << >>) :
        /\ s.maxIterations > 0 /\ s.maxEvaluations > 0 /\ s.minImprovement >= 0
        /\ s.stallIterations > 0 /\ s.minHalfSize > 0}

Cuckoo(d) ==
    {s \in Read(d, [populationSize |-> "int", maxIterations |-> "int",
                    maxEvaluations |-> "int", discoveryRate |-> "float",
                    levyBeta |-> "float", alphaMax |-> "float", alphaMin |-> "float",
                    minImprovement |-> "float", stallIterations |-> "int",
                    seed |-> "int", postPolish |-> "bool"],
                   [populationSize |-> 40 * One, maxIterations |-> 300 * One,
                    maxEvaluations |-> 7000 * One, discoveryRate |-> 5, levyBeta |-> 30,
                    alphaMax |-> 10, alphaMin |-> 1, minImprovement |-> 1,
                    stallIterations |-> 25 * One, seed |-> 0, postPolish |-> TRUE]) :
        /\ s.populationSize > One /\ s.maxIterations > 0 /\ s.maxEvaluations > 0
        /\ 0 < s.discoveryRate /\ s.discoveryRate < One
        /\ One < s.levyBeta /\ s.levyBeta <= 2 * One
        /\ s.alphaMin > 0 /\ s.alphaMax > s.alphaMin
        /\ s.minImprovement >= 0 /\ s.stallIterations > 0}

CmaesFields(d) ==
    Read(d, [maxEvaluations |-> "int", prescanEvaluations |-> "int",
             populationSize |-> "int", maxIterations |-> "int", restarts |-> "int",
             sigma0 |-> "float", polishMaxEvaluations |-> "int",
             minImprovement |-> "float", stallIterations |-> "int", seed |-> "int",
             postPolish |-> "bool", invalidPenalty |-> "float",
             nonconvergedPenalty |-> "float"],
            [maxEvaluations |-> 5000 * One, prescanEvaluations |-> 300 * One,
             populationSize |-> 8 * One, maxIterations |-> 200 * One,
             restarts |-> 2 * One, sigma0 |-> 3, polishMaxEvaluations |-> 80 * One,
             minImprovement |-> 1, stallIterations |-> 25 * One, seed |-> One,
             postPolish |-> TRUE, invalidPenalty |-> 1000000 * One,
             nonconvergedPenalty |-> 100000 * One])

Cmaes(d) ==
    {s \in CmaesFields(d) :
        /\ s.prescanEvaluations > 0 /\ s.maxEvaluations > s.prescanEvaluations
        /\ s.populationSize > One /\ s.maxIterations > 0 /\ s.restarts >= 0
        /\ s.sigma0 > 0 /\ s.polishMaxEvaluations > 0 /\ s.minImprovement >= 0
        /\ s.stallIterations > 0
        /\ s.nonconvergedPenalty > 0 /\ s.invalidPenalty > s.nonconvergedPenalty}

Methods == {"auto_refine_circular", "direct_global_circular", "cuckoo_global_circular",
            "cmaes_global_circular"}

Configuration(method, d) ==
    CASE method = "auto_refine_circular"   -> AutoRefine(d)
      [] method = "direct_global_circular" -> Direct(d)
      [] method = "cuckoo_global_circular" -> Cuckoo(d)
      [] method = "cmaes_global_circular"  -> Cmaes(d)

\* Only the section of the method is read.
Search(d, g) ==
    IF "method" \notin DOMAIN d \/ d.method.word \notin (Methods \cap DOMAIN d) THEN {}
    ELSE LET section == d[d.method.word]
         IN {[method |-> d.method.word, config |-> c, limits |-> m, parallel |-> p] :
                c \in Configuration(d.method.word, section), m \in Limits(section, g),
                p \in IF Missing(d, "parallel") THEN Parallel(<< >>) ELSE Parallel(d.parallel)}

-----------------------------------------------------------------------------
\* parse_project_input().  surface and search hold one of them between them.
Parse(d) ==
    IF \/ \E section \in {"units", "geometry", "soils", "analysis"} : section \notin DOMAIN d
       \/ "material" \in DOMAIN d
       \/ d.units.word \notin {"metric", "metric_units"}
       \/ Missing(d, "surface") = Missing(d, "search")
    THEN {}
    ELSE UNION {{[geometry |-> g, analysis |-> a, soils |-> s, loads |-> q,
                         surface |-> c, search |-> f] :
                            a \in Analysis(d.analysis), s \in Soils(d.soils),
                            q \in IF Missing(d, "loads") THEN {Absent}
                                  ELSE {{q} : q \in Loads(d.loads, g)},
                            c \in IF Missing(d, "surface") THEN {Absent}
                                  ELSE {{c} : c \in Surface(d.surface)},
                            f \in IF Missing(d, "search") THEN {Absent}
                                  ELSE {{f} : f \in Search(d.search, g)}} :
                g \in Geometry(d.geometry)}
=============================================================================
