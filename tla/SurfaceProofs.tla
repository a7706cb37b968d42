---------------------------- MODULE SurfaceProofs ----------------------------
(***************************************************************************)
(* Proofs about one slip surface: about SurfaceAnalysis and the two        *)
(* solvers, for every document, whatever the equations answer; then about  *)
(* the ground that SliceGeneration cuts and the slices it cuts it into.    *)
(***************************************************************************)
EXTENDS SurfaceAnalysis, SliceGeneration, FiniteSetTheorems, WellFoundedInduction, TLAPS

\* parse_project_input() makes one project of a document, or none, and its settings
\* are positive numbers.
SettingsSound ==
    /\ \A p \in project :
          /\ p.analysis.tolerance \in Nat /\ p.analysis.fInit \in Nat /\ p.analysis.maxIter \in Nat
          /\ \A q \in project : q.analysis = p.analysis
    /\ phase = "load" => document \in Documents /\ project = {}

\* The solver works with the settings of the document.
TaskSound ==
    IF solving = "idle" THEN phase # "solving"
    ELSE /\ phase \in {"solving", "ended"}
         /\ task.tolerance \in Nat /\ task.fInit \in Nat /\ task.maxIter \in Nat
         /\ task.horizontal \in BOOLEAN
         /\ \A p \in project : task.tolerance = p.analysis.tolerance

\* Where bishop.py is in its loop, and what it has met by then.
BishopSound ==
    /\ fk \in Nat /\ iteration \in Nat
    /\ solving \in {"idle", "called"} => iteration = 0
    /\ solving = "iterating" => iteration <= task.maxIter
    /\ solving = "converged" =>
          /\ iteration \in 1..task.maxIter /\ delta <= task.tolerance
          /\ \E f \in DOMAIN seen : seen[f].after = fk /\ Distance(f, fk) <= task.tolerance

\* Every answer is one of the two solvers', and within the tolerance.
AnswerSound ==
    /\ solving # "returned" => answer = {}
    /\ \A a \in answer : a.force <= task.tolerance /\ a.moment <= task.tolerance /\ ~a.low

\* What becomes of the surface and of the answer.
WrittenSound ==
    /\ phase # "ended" => exitCode = 0 /\ written = {}
    /\ phase \in {"align", "slices", "solving"} => Prescribed
    /\ phase \in {"slices", "solving"} => Aligned(misfit)
    /\ written # {} => exitCode = 0 /\ Prescribed /\ Aligned(misfit)
    /\ \A a \in written :
          ~a.low /\ \A p \in project :
              a.force <= p.analysis.tolerance /\ a.moment <= p.analysis.tolerance

CommandInv == SettingsSound /\ TaskSound

-----------------------------------------------------------------------------
(* Reading the document *)

\* Read() makes one record of a section, or none.
LEMMA ReadOnce ==
  ASSUME NEW d, NEW schema, NEW default,
         NEW a \in Read(d, schema, default), NEW b \in Read(d, schema, default)
  PROVE  a = b
BY DEF Read

\* A field of a section is what the document gives, or its default.
LEMMA FieldRead ==
  ASSUME NEW d, NEW schema, NEW default, NEW a \in Read(d, schema, default),
         NEW k \in DOMAIN schema
  PROVE  /\ DOMAIN a = DOMAIN schema
         /\ k \in DOMAIN d => a[k] \in Convert(schema[k], d[k])
         /\ k \notin DOMAIN d => k \in DOMAIN default /\ a[k] = default[k]
<1> DEFINE Field(f) == IF f \in DOMAIN d THEN Convert(schema[f], d[f])
                       ELSE IF f \in DOMAIN default THEN {default[f]} ELSE {}
<1>1. Field(k) # {} /\ a = [f \in DOMAIN schema |-> CHOOSE v \in Field(f) : TRUE]
  BY DEF Read
<1>2. DOMAIN a = DOMAIN schema /\ a[k] = CHOOSE v \in Field(k) : TRUE
  BY <1>1, Zenon
<1>3. a[k] \in Field(k)
  <2> HIDE DEF Field
  <2>1. QED BY <1>1, <1>2
<1>4. QED
  BY <1>1, <1>2, <1>3

\* A number that is read is a number, and a whole one where it must be.
LEMMA NumberRead ==
  ASSUME NEW d, Spelled(d), NEW schema, NEW default, NEW a \in Read(d, schema, default),
         NEW k \in DOMAIN schema, k \notin {"null", "searchLimits"},
         schema[k] \in {"int", "float"},
         k \in DOMAIN default =>
           default[k] \in Int /\ (schema[k] = "int" => default[k] % One = 0)
  PROVE  a[k] \in Int /\ (schema[k] = "int" => a[k] % One = 0)
<1>1. CASE k \in DOMAIN d
  <2>1. d[k].value \in Int
    BY <1>1 DEF Spelled
  <2>2. a[k] \in Convert(schema[k], d[k])
    BY <1>1, FieldRead
  <2>3. CASE schema[k] = "int"
    <3>1. a[k] \in AsInt(d[k])
      BY <2>2, <2>3 DEF Convert
    <3>2. a[k] = d[k].value /\ a[k] % One = 0
      BY <3>1 DEF AsInt, AsFloat
    <3>3. QED BY <2>1, <3>2
  <2>4. CASE schema[k] = "float"
    <3>1. a[k] \in AsFloat(d[k])
      BY <2>2, <2>4 DEF Convert
    <3>2. QED BY <2>1, <2>4, <3>1 DEF AsFloat
  <2>5. QED BY <2>3, <2>4
<1>2. CASE k \notin DOMAIN d
  BY <1>2, FieldRead
<1>3. QED BY <1>1, <1>2

\* The least whole number above 0 is One.
LEMMA WholeNumbers ==
  ASSUME NEW n \in Int, n % One = 0
  PROVE  (n > 0 => n >= One) /\ (n > One => n >= 2 * One)
BY DEF One

LEMMA AnalysisRead ==
  ASSUME NEW d, Spelled(d), NEW a \in Analysis(d)
  PROVE  /\ a.tolerance \in Nat /\ a.fInit \in Nat /\ a.maxIter \in Nat
         /\ a.nSlices >= One /\ a.maxIter >= One /\ a.fInit > 0
         /\ \A b \in Analysis(d) : b = a
<1> DEFINE schema == [method |-> "word", nSlices |-> "int", tolerance |-> "float",
                      maxIter |-> "int", fInit |-> "float"]
           default == [fInit |-> One]
<1>1. Analysis(d) \subseteq Read(d, schema, default)
  BY DEF Analysis
<1>2. \A b \in Analysis(d) : b = a
  <2> HIDE DEF schema, default
  <2>1. QED BY <1>1, ReadOnce
<1>3. a \in Read(d, schema, default)
  BY <1>1
<1>4. /\ schema["tolerance"] = "float" /\ schema["fInit"] = "float"
      /\ schema["maxIter"] = "int" /\ schema["nSlices"] = "int"
      /\ {"tolerance", "fInit", "maxIter", "nSlices"} \subseteq DOMAIN schema
  OBVIOUS
<1>5. default["fInit"] \in Int /\ DOMAIN default = {"fInit"}
  BY DEF One
<1>6. /\ a["tolerance"] \in Int /\ a["fInit"] \in Int
      /\ a["maxIter"] \in Int /\ a["maxIter"] % One = 0
      /\ a["nSlices"] \in Int /\ a["nSlices"] % One = 0
  <2> HIDE DEF schema, default
  <2>1. QED BY <1>3, <1>4, <1>5, NumberRead
<1>7. a.tolerance > 0 /\ a.fInit > 0 /\ a.maxIter > 0 /\ a.nSlices > 0
  BY DEF Analysis
<1>8. a.nSlices >= One /\ a.maxIter >= One
  BY <1>6, <1>7, WholeNumbers
<1>9. QED BY <1>2, <1>6, <1>7, <1>8

LEMMA ProjectRead ==
  ASSUME NEW d \in Documents, NEW p \in Parse(d)
  PROVE  /\ p.analysis.tolerance \in Nat /\ p.analysis.fInit \in Nat /\ p.analysis.maxIter \in Nat
         /\ \A q \in Parse(d) : q.analysis = p.analysis
<1>1. "analysis" \in DOMAIN d /\ \A q \in Parse(d) : q.analysis \in Analysis(d.analysis)
  BY DEF Parse
<1>2. Spelled(d.analysis)
  BY <1>1, DocumentAssumption
<1>3. QED BY <1>1, <1>2, AnalysisRead, Zenon

-----------------------------------------------------------------------------
(* What the document says of the ground *)

GeometrySound(g) == g.h > 0 /\ g.l > 0 /\ g.h \in Int /\ g.l \in Int /\ g.xToe \in Int

LEMMA GeometryRead ==
  ASSUME NEW d, Spelled(d), NEW g \in Geometry(d)
  PROVE  GeometrySound(g)
<1> DEFINE schema == [h |-> "float", l |-> "float", xToe |-> "float", yToe |-> "float"]
<1>1. g \in Read(d, schema, << >>) /\ g.h > 0 /\ g.l > 0
  BY DEF Geometry
<1>2. /\ schema["h"] = "float" /\ schema["l"] = "float" /\ schema["xToe"] = "float"
      /\ {"h", "l", "xToe"} \subseteq DOMAIN schema /\ DOMAIN << >> = {}
  OBVIOUS
<1>3. g["h"] \in Int /\ g["l"] \in Int /\ g["xToe"] \in Int
  <2> HIDE DEF schema
  <2>1. QED BY <1>1, <1>2, NumberRead
<1>4. QED BY <1>1, <1>3 DEF GeometrySound

\* The materials that the ground is assigned are all defined.
LEMMA SoilsRead ==
  ASSUME NEW d, NEW s \in Soils(d)
  PROVE  NamesDefined(s)
BY DEF Soils, Each, NamesDefined

LEMMA SurfaceRead ==
  ASSUME NEW d, NEW s \in Surface(d)
  PROVE  s.xLeft < s.xRight
BY DEF Surface

-----------------------------------------------------------------------------
(* The loads *)

\* A surcharge that is not on the whole crest has both its ends.
LEMMA SurchargeRead ==
  ASSUME NEW d, NEW g, NEW q \in Surcharge(d, g), NEW s \in q
  PROVE  s.placement # "crest_infinite" => {"xStart", "xEnd"} \subseteq DOMAIN s
<1> DEFINE plain == [magnitude |-> "float", placement |-> "word"]
           ranged == [magnitude |-> "float", placement |-> "word",
                      xStart |-> "float", xEnd |-> "float"]
<1>1. CASE "placement" \in DOMAIN d /\ d.placement.word = "crest_infinite"
  <2>1. s \in Read(d, plain, << >>)
    BY <1>1 DEF Surcharge
  <2>2. "placement" \in DOMAIN plain /\ plain["placement"] = "word"
    OBVIOUS
  <2>3. s["placement"] \in Convert("word", d["placement"])
    <3> HIDE DEF plain
    <3>1. QED BY <1>1, <2>1, <2>2, FieldRead
  <2>4. s.placement = "crest_infinite"
    BY <1>1, <2>3 DEF Convert, AsWord
  <2>5. QED BY <2>4
<1>2. CASE ~("placement" \in DOMAIN d /\ d.placement.word = "crest_infinite")
  <2>1. s \in RangeOn(d, g)
    BY <1>2 DEF Surcharge
  <2>2. s \in Read(d, ranged, << >>)
    BY <2>1 DEF RangeOn
  <2>3. "xStart" \in DOMAIN ranged /\ {"xStart", "xEnd"} \subseteq DOMAIN ranged
    OBVIOUS
  <2>4. DOMAIN s = DOMAIN ranged
    <3> HIDE DEF ranged
    <3>1. QED BY <2>2, <2>3, FieldRead
  <2>5. QED BY <2>3, <2>4
<1>3. QED BY <1>1, <1>2

LEMMA SeismicRead ==
  ASSUME NEW d, NEW q \in Seismic(d), NEW s \in q
  PROVE  s.model = "none" \/ (s.model = "pseudo_static" /\ s.kv = 0)
BY DEF Seismic

HuSound(h) ==
    /\ h.mode \in {"custom", "auto"}
    /\ h.mode = "custom" => h.value # <<>> /\ 0 <= h.value[1] /\ h.value[1] <= One

LEMMA HuRead ==
  ASSUME NEW d, NEW h \in Hu(d)
  PROVE  HuSound(h)
<1>1. CASE d.mode.word = "custom"
  <2>1. PICK v \in Read(d, [value |-> "float"], << >>) :
          0 <= v.value /\ v.value <= One /\ h = [mode |-> "custom", value |-> <<v.value>>]
    BY <1>1 DEF Hu
  <2>2. QED BY <2>1 DEF HuSound
<1>2. CASE d.mode.word # "custom"
  <2>1. h = [mode |-> "auto", value |-> <<>>]
    BY <1>2 DEF Hu
  <2>2. QED BY <2>1 DEF HuSound
<1>3. QED BY <1>1, <1>2

\* The water table goes from left to right.
LEMMA WaterTableRead ==
  ASSUME NEW d, NEW w \in WaterTable(d)
  PROVE  /\ w.model = "water_surfaces" /\ Len(w.surface) >= 2 /\ HuSound(w.hu)
         /\ \A i \in 1..(Len(w.surface) - 1) : w.surface[i][1] < w.surface[i + 1][1]
<1>1. PICK s \in WaterSurface(d), h \in IF "hu" \in DOMAIN d THEN Hu(d.hu) ELSE {},
           t \in Read(d, [gammaW |-> "float"], [gammaW |-> 196]) :
        w = [model |-> "water_surfaces", surface |-> s, hu |-> h, gammaW |-> t.gammaW]
  BY DEF WaterTable
<1>2. HuSound(h)
  BY <1>1, HuRead
<1>3. Len(s) >= 2 /\ \A i \in 1..(Len(s) - 1) : s[i][1] < s[i + 1][1]
  BY DEF WaterSurface
<1>4. w.model = "water_surfaces" /\ w.surface = s /\ w.hu = h
  BY <1>1
<1>5. QED BY <1>2, <1>3, <1>4

WaterSound(w) ==
    CASE w.model = "none" -> TRUE
      [] w.model = "water_surfaces" ->
            /\ Len(w.surface) >= 2
            /\ \A i \in 1..(Len(w.surface) - 1) : w.surface[i][1] < w.surface[i + 1][1]
            /\ w.hu.mode \in {"custom", "auto"}
            /\ w.hu.mode = "custom" =>
                  w.hu.value # <<>> /\ 0 <= w.hu.value[1] /\ w.hu.value[1] <= One
      [] w.model = "ru_coefficient" -> 0 <= w.ru /\ w.ru <= One

LEMMA GroundwaterRead ==
  ASSUME NEW d, NEW q \in Groundwater(d), NEW w \in q
  PROVE  WaterSound(w)
<1> DEFINE model == IF "model" \in DOMAIN d THEN d.model.word ELSE ""
           schema == [model |-> "word", ru |-> "float"]
<1>1. CASE model = "none"
  <2>1. w = [model |-> "none"]
    BY <1>1 DEF Groundwater
  <2>2. w.model = "none"
    BY <2>1
  <2>3. QED BY <2>2 DEF WaterSound
<1>2. CASE model = "water_surfaces"
  <2>1. w \in WaterTable(d)
    BY <1>2 DEF Groundwater
  <2>2. w.model = "water_surfaces" /\ Len(w.surface) >= 2 /\ HuSound(w.hu)
          /\ \A i \in 1..(Len(w.surface) - 1) : w.surface[i][1] < w.surface[i + 1][1]
    BY <2>1, WaterTableRead
  <2>3. QED BY <2>2 DEF WaterSound, HuSound
<1>3. CASE model = "ru_coefficient"
  <2>1. w \in Read(d, schema, << >>) /\ 0 <= w.ru /\ w.ru <= One
    BY <1>3 DEF Groundwater
  <2>2. "model" \in DOMAIN schema /\ schema["model"] = "word"
    OBVIOUS
  <2>3. "model" \in DOMAIN d /\ d.model.word = "ru_coefficient"
    BY <1>3
  <2>4. w["model"] \in Convert("word", d["model"])
    <3> HIDE DEF schema, model
    <3>1. QED BY <2>1, <2>2, <2>3, FieldRead
  <2>5. w.model = "ru_coefficient"
    BY <2>3, <2>4 DEF Convert, AsWord
  <2>6. QED BY <2>1, <2>5 DEF WaterSound
<1>4. model \in {"none", "water_surfaces", "ru_coefficient"}
  BY DEF Groundwater
<1>5. QED BY <1>1, <1>2, <1>3, <1>4

LEMMA LoadsRead ==
  ASSUME NEW d, NEW g, NEW q \in Loads(d, g)
  PROVE  /\ \A s \in q.surcharge :
              s.placement # "crest_infinite" => {"xStart", "xEnd"} \subseteq DOMAIN s
         /\ \A s \in q.seismic : s.model = "none" \/ (s.model = "pseudo_static" /\ s.kv = 0)
         /\ \A w \in q.groundwater : WaterSound(w)
<1>1. PICK s \in IF Missing(d, "surcharge") THEN {Absent} ELSE Surcharge(d["surcharge"], g),
           e \in IF Missing(d, "seismic") THEN {Absent} ELSE Seismic(d["seismic"]),
           w \in IF Missing(d, "groundwater") THEN {Absent} ELSE Groundwater(d["groundwater"]) :
        q = [surcharge |-> s, seismic |-> e, groundwater |-> w]
  BY DEF Loads, Optional
<1>2. q.surcharge = s /\ q.seismic = e /\ q.groundwater = w
  BY <1>1
<1>3. s = {} \/ s \in Surcharge(d["surcharge"], g)
  BY DEF Absent
<1>4. e = {} \/ e \in Seismic(d["seismic"])
  BY DEF Absent
<1>5. w = {} \/ w \in Groundwater(d["groundwater"])
  BY DEF Absent
<1>6. QED
  BY <1>2, <1>3, <1>4, <1>5, SurchargeRead, SeismicRead, GroundwaterRead, Zenon

-----------------------------------------------------------------------------
(* The search *)

\* The limits of the search are not empty, given or taken from the slope.
LEMMA LimitsRead ==
  ASSUME NEW d, NEW g, GeometrySound(g), NEW m \in Limits(d, g)
  PROVE  m.xMin < m.xMax
<1>1. CASE Missing(d, "searchLimits")
  <2>1. m = [xMin |-> g.xToe - g.h, xMax |-> g.xToe + g.l + 2 * g.h]
    BY <1>1 DEF Limits
  <2>2. m.xMin = g.xToe - g.h /\ m.xMax = g.xToe + g.l + 2 * g.h
    BY <2>1
  <2>3. QED BY <2>2 DEF GeometrySound
<1>2. CASE ~Missing(d, "searchLimits")
  BY <1>2 DEF Limits
<1>3. QED BY <1>1, <1>2

LEMMA ParallelRead ==
  ASSUME NEW d, Spelled(d), NEW p \in Parallel(d)
  PROVE  p.workers >= 0 /\ p.minBatchSize >= One
<1> DEFINE schema == [workers |-> "int", minBatchSize |-> "int"]
           default == [workers |-> 0, minBatchSize |-> One]
<1>1. PICK q \in Read(d, schema, default) :
        /\ q.workers >= 0 /\ q.minBatchSize > 0
        /\ p.workers = q.workers /\ p.minBatchSize = q.minBatchSize
  BY DEF Parallel
<1>2. /\ "minBatchSize" \in DOMAIN schema /\ schema["minBatchSize"] = "int"
      /\ default["minBatchSize"] \in Int /\ default["minBatchSize"] % One = 0
  BY DEF One
<1>3. q["minBatchSize"] \in Int /\ q["minBatchSize"] % One = 0
  <2> HIDE DEF schema, default
  <2>1. QED BY <1>1, <1>2, NumberRead
<1>4. QED BY <1>1, <1>3, WholeNumbers

\* Nothing is read from an empty section but the defaults.
LEMMA NothingSpelled == Spelled(<< >>)
BY DEF Spelled

LEMMA AutoRefineRead ==
  ASSUME NEW d, Spelled(d), NEW s \in AutoRefine(d)
  PROVE  s.divisions >= 2 * One /\ s.keepPct <= 100 * One
<1> DEFINE schema == [divisions |-> "int", circles |-> "int", iterations |-> "int",
                      keepPct |-> "float"]
<1>1. /\ s \in Read(d, schema, << >>)
      /\ s.divisions > One /\ s.keepPct <= 100 * One
  BY DEF AutoRefine
<1>2. "divisions" \in DOMAIN schema /\ schema["divisions"] = "int" /\ DOMAIN << >> = {}
  OBVIOUS
<1>3. s["divisions"] \in Int /\ s["divisions"] % One = 0
  <2> HIDE DEF schema
  <2>1. QED BY <1>1, <1>2, NumberRead
<1>4. QED BY <1>1, <1>3, WholeNumbers

LEMMA DirectRead ==
  ASSUME NEW d, Spelled(d), NEW s \in Direct(d)
  PROVE  s.maxEvaluations >= One /\ s.stallIterations >= One
<1> DEFINE schema == [maxIterations |-> "int", maxEvaluations |-> "int",
                      minImprovement |-> "float", stallIterations |-> "int",
                      minHalfSize |-> "float"]
<1>1. /\ s \in Read(d, schema, << >>)
      /\ s.maxEvaluations > 0 /\ s.stallIterations > 0
  BY DEF Direct
<1>2. /\ "maxEvaluations" \in DOMAIN schema /\ schema["maxEvaluations"] = "int"
      /\ "stallIterations" \in DOMAIN schema /\ schema["stallIterations"] = "int"
      /\ DOMAIN << >> = {}
  OBVIOUS
<1>3. /\ s["maxEvaluations"] \in Int /\ s["maxEvaluations"] % One = 0
      /\ s["stallIterations"] \in Int /\ s["stallIterations"] % One = 0
  <2> HIDE DEF schema
  <2>1. QED BY <1>1, <1>2, NumberRead
<1>4. QED BY <1>1, <1>3, WholeNumbers

LEMMA CuckooRead ==
  ASSUME NEW d, Spelled(d), NEW s \in Cuckoo(d)
  PROVE  /\ s.populationSize >= 2 * One /\ s.discoveryRate < One
         /\ 0 < s.alphaMin /\ s.alphaMin < s.alphaMax
<1> DEFINE schema == [populationSize |-> "int", maxIterations |-> "int",
                      maxEvaluations |-> "int", discoveryRate |-> "float",
                      levyBeta |-> "float", alphaMax |-> "float", alphaMin |-> "float",
                      minImprovement |-> "float", stallIterations |-> "int",
                      seed |-> "int", postPolish |-> "bool"]
           default == [populationSize |-> 40 * One, maxIterations |-> 300 * One,
                       maxEvaluations |-> 7000 * One, discoveryRate |-> 5, levyBeta |-> 30,
                       alphaMax |-> 10, alphaMin |-> 1, minImprovement |-> 1,
                       stallIterations |-> 25 * One, seed |-> 0, postPolish |-> TRUE]
<1>1. /\ s \in Read(d, schema, default)
      /\ s.populationSize > One /\ s.discoveryRate < One
      /\ 0 < s.alphaMin /\ s.alphaMin < s.alphaMax
  BY DEF Cuckoo
<1>2. /\ "populationSize" \in DOMAIN schema /\ schema["populationSize"] = "int"
      /\ default["populationSize"] \in Int /\ default["populationSize"] % One = 0
  BY DEF One
<1>3. s["populationSize"] \in Int /\ s["populationSize"] % One = 0
  <2> HIDE DEF schema, default
  <2>1. QED BY <1>1, <1>2, NumberRead
<1>4. QED BY <1>1, <1>3, WholeNumbers

LEMMA CmaesRead ==
  ASSUME NEW d, NEW s \in Cmaes(d)
  PROVE  /\ s.prescanEvaluations < s.maxEvaluations
         /\ 0 < s.nonconvergedPenalty /\ s.nonconvergedPenalty < s.invalidPenalty
BY DEF Cmaes

SearchSound(f) ==
    /\ f.limits.xMin < f.limits.xMax
    /\ f.parallel.workers >= 0 /\ f.parallel.minBatchSize >= One
    /\ CASE f.method = "auto_refine_circular" ->
               f.config.divisions >= 2 * One /\ f.config.keepPct <= 100 * One
         [] f.method = "direct_global_circular" ->
               f.config.maxEvaluations >= One /\ f.config.stallIterations >= One
         [] f.method = "cuckoo_global_circular" ->
               /\ f.config.populationSize >= 2 * One /\ f.config.discoveryRate < One
               /\ 0 < f.config.alphaMin /\ f.config.alphaMin < f.config.alphaMax
         [] f.method = "cmaes_global_circular" ->
               /\ f.config.prescanEvaluations < f.config.maxEvaluations
               /\ 0 < f.config.nonconvergedPenalty
               /\ f.config.nonconvergedPenalty < f.config.invalidPenalty

LEMMA SearchRead ==
  ASSUME NEW d, NEW g, GeometrySound(g), NEW f \in Search(d, g),
         \A part \in (Methods \cup {"parallel"}) \cap DOMAIN d : Spelled(d[part])
  PROVE  SearchSound(f)
<1>1. PICK c \in Configuration(d.method.word, d[d.method.word]),
           m \in Limits(d[d.method.word], g),
           p \in IF Missing(d, "parallel") THEN Parallel(<< >>) ELSE Parallel(d["parallel"]) :
        f = [method |-> d.method.word, config |-> c, limits |-> m, parallel |-> p]
  BY DEF Search
<1>2. d.method.word \in Methods \cap DOMAIN d
  BY DEF Search
<1>3. Spelled(d[d.method.word])
  BY <1>2
<1>4. m.xMin < m.xMax
  BY LimitsRead
<1>5. p.workers >= 0 /\ p.minBatchSize >= One
  <2>1. CASE Missing(d, "parallel")
    BY <1>1, <2>1, NothingSpelled, ParallelRead
  <2>2. CASE ~Missing(d, "parallel")
    <3>1. Spelled(d["parallel"])
      BY <2>2 DEF Missing
    <3>2. QED BY <1>1, <2>2, <3>1, ParallelRead
  <2>3. QED BY <2>1, <2>2
<1>6. /\ d.method.word = "auto_refine_circular" => c \in AutoRefine(d[d.method.word])
      /\ d.method.word = "direct_global_circular" => c \in Direct(d[d.method.word])
      /\ d.method.word = "cuckoo_global_circular" => c \in Cuckoo(d[d.method.word])
      /\ d.method.word = "cmaes_global_circular" => c \in Cmaes(d[d.method.word])
  BY <1>1 DEF Configuration
<1>7. f.method = d.method.word /\ f.config = c /\ f.limits = m /\ f.parallel = p
  BY <1>1
<1>8. CASE f.method = "auto_refine_circular"
  <2>1. c.divisions >= 2 * One /\ c.keepPct <= 100 * One
    BY <1>3, <1>6, <1>7, <1>8, AutoRefineRead, Zenon
  <2>2. QED BY <1>4, <1>5, <1>7, <1>8, <2>1 DEF SearchSound
<1>9. CASE f.method = "direct_global_circular"
  <2>1. c.maxEvaluations >= One /\ c.stallIterations >= One
    BY <1>3, <1>6, <1>7, <1>9, DirectRead, Zenon
  <2>2. QED BY <1>4, <1>5, <1>7, <1>9, <2>1 DEF SearchSound
<1>10. CASE f.method = "cuckoo_global_circular"
  <2>1. /\ c.populationSize >= 2 * One /\ c.discoveryRate < One
        /\ 0 < c.alphaMin /\ c.alphaMin < c.alphaMax
    BY <1>3, <1>6, <1>7, <1>10, CuckooRead, Zenon
  <2>2. QED BY <1>4, <1>5, <1>7, <1>10, <2>1 DEF SearchSound
<1>11. CASE f.method = "cmaes_global_circular"
  <2>1. /\ c.prescanEvaluations < c.maxEvaluations
        /\ 0 < c.nonconvergedPenalty /\ c.nonconvergedPenalty < c.invalidPenalty
    BY <1>6, <1>7, <1>11, CmaesRead, Zenon
  <2>2. QED BY <1>4, <1>5, <1>7, <1>11, <2>1 DEF SearchSound
<1>12. QED
  BY <1>2, <1>7, <1>8, <1>9, <1>10, <1>11 DEF Methods

-----------------------------------------------------------------------------
(* The whole project *)

\* Each part of a project is made of its section.
LEMMA ParseParts ==
  ASSUME NEW d, NEW p \in Parse(d)
  PROVE  /\ {"geometry", "analysis"} \subseteq DOMAIN d
         /\ p.geometry \in Geometry(d.geometry) /\ p.analysis \in Analysis(d.analysis)
         /\ p.soils \in Soils(d.soils)
         /\ p.loads = {} \/ \E q \in Loads(d.loads, p.geometry) : p.loads = {q}
         /\ p.surface = {} \/ \E c \in Surface(d.surface) : p.surface = {c}
         /\ p.search = {} \/
              ("search" \in DOMAIN d /\ \E f \in Search(d.search, p.geometry) : p.search = {f})
         /\ p.surface = {} => p.search # {}
<1> DEFINE Made(g) ==
             {[geometry |-> g, analysis |-> a, soils |-> s, loads |-> q,
               surface |-> c, search |-> f] :
                  a \in Analysis(d.analysis), s \in Soils(d.soils),
                  q \in IF Missing(d, "loads") THEN {Absent}
                        ELSE {{q} : q \in Loads(d.loads, g)},
                  c \in IF Missing(d, "surface") THEN {Absent}
                        ELSE {{c} : c \in Surface(d.surface)},
                  f \in IF Missing(d, "search") THEN {Absent}
                        ELSE {{f} : f \in Search(d.search, g)}}
<1>0. PICK g \in Geometry(d.geometry) : p \in Made(g)
  BY DEF Parse
<1>1. PICK a \in Analysis(d.analysis), s \in Soils(d.soils),
           q \in IF Missing(d, "loads") THEN {Absent} ELSE {{x} : x \in Loads(d.loads, g)},
           c \in IF Missing(d, "surface") THEN {Absent} ELSE {{x} : x \in Surface(d.surface)},
           f \in IF Missing(d, "search") THEN {Absent} ELSE {{x} : x \in Search(d.search, g)} :
        p = [geometry |-> g, analysis |-> a, soils |-> s, loads |-> q,
             surface |-> c, search |-> f]
  BY <1>0
<1>2. {"geometry", "analysis"} \subseteq DOMAIN d
  BY DEF Parse
<1>3. /\ p.geometry = g /\ p.analysis = a /\ p.soils = s
      /\ p.loads = q /\ p.surface = c /\ p.search = f
  BY <1>1
<1>4. q = {} \/ \E x \in Loads(d.loads, g) : q = {x}
  BY DEF Absent
<1>5. c = {} \/ \E x \in Surface(d.surface) : c = {x}
  BY DEF Absent
<1>6. f = {} \/ ("search" \in DOMAIN d /\ \E x \in Search(d.search, g) : f = {x})
  BY DEF Absent, Missing
<1>7. c = {} => f # {}
  <2>1. ~(Missing(d, "surface") /\ Missing(d, "search"))
    BY DEF Parse, Missing
  <2>2. CASE ~Missing(d, "surface")
    <3>1. c \in {{x} : x \in Surface(d.surface)}
      BY <2>2
    <3>2. QED
      BY <3>1
  <2>3. CASE ~Missing(d, "search")
    <3>1. f \in {{x} : x \in Search(d.search, g)}
      BY <2>3
    <3>2. QED
      BY <3>1
  <2>4. QED
    BY <2>1, <2>2, <2>3
<1>8. QED
  BY <1>2, <1>3, <1>4, <1>5, <1>6, <1>7

LEMMA ProjectComplete ==
  ASSUME NEW d \in Documents, NEW p \in Parse(d)
  PROVE  /\ GroundComplete(p) /\ LoadsComplete(p) /\ SettingsComplete(p)
         /\ p.surface = {} => p.search # {}
<1>1. /\ {"geometry", "analysis"} \subseteq DOMAIN d
      /\ p.geometry \in Geometry(d.geometry) /\ p.analysis \in Analysis(d.analysis)
      /\ p.soils \in Soils(d.soils)
      /\ p.loads = {} \/ \E q \in Loads(d.loads, p.geometry) : p.loads = {q}
      /\ p.surface = {} \/ \E c \in Surface(d.surface) : p.surface = {c}
      /\ p.search = {} \/
           ("search" \in DOMAIN d /\ \E f \in Search(d.search, p.geometry) : p.search = {f})
  BY ParseParts
<1>2. /\ Spelled(d["geometry"]) /\ Spelled(d["analysis"])
      /\ "search" \in DOMAIN d =>
            \A part \in (Methods \cup {"parallel"}) \cap DOMAIN d.search : Spelled(d.search[part])
  BY <1>1, DocumentAssumption
<1>3. GeometrySound(p.geometry)
  BY <1>1, <1>2, GeometryRead
<1>4. p.analysis.nSlices >= One /\ p.analysis.maxIter >= One /\ p.analysis.fInit > 0
  BY <1>1, <1>2, AnalysisRead
<1>5. GroundComplete(p)
  <2>1. NamesDefined(p.soils)
    BY <1>1, SoilsRead
  <2>2. \A c \in p.surface : c.xLeft < c.xRight
    BY <1>1, SurfaceRead
  <2>3. QED
    BY <1>3, <1>4, <2>1, <2>2 DEF GroundComplete, NamesDefined, GeometrySound
<1>6. LoadsComplete(p)
  <2>1. ASSUME NEW q \in p.loads
        PROVE  /\ \A s \in q.surcharge :
                    s.placement # "crest_infinite" => {"xStart", "xEnd"} \subseteq DOMAIN s
               /\ \A s \in q.seismic :
                    s.model = "none" \/ (s.model = "pseudo_static" /\ s.kv = 0)
               /\ \A w \in q.groundwater : WaterSound(w)
    <3>1. q \in Loads(d.loads, p.geometry)
      BY <1>1
    <3>2. QED BY <3>1, LoadsRead
  <2>2. QED BY <2>1 DEF LoadsComplete, WaterSound
<1>7. SettingsComplete(p)
  <2>1. ASSUME NEW f \in p.search PROVE SearchSound(f)
    <3>1. f \in Search(d.search, p.geometry) /\ "search" \in DOMAIN d
      BY <1>1
    <3>2. QED BY <1>2, <1>3, <3>1, SearchRead
  <2>2. QED BY <1>4, <2>1 DEF SettingsComplete, SearchSound
<1>8. p.surface = {} => p.search # {}
  BY ParseParts
<1>9. QED BY <1>5, <1>6, <1>7, <1>8

LEMMA InitialCommand == Init => CommandInv
BY DEF Init, CommandInv, SettingsSound, TaskSound

LEMMA SettingsStep ==
  ASSUME CommandInv, [Next]_vars
  PROVE  SettingsSound'
<1> USE DEF CommandInv, SettingsSound
<1>1. CASE UNCHANGED vars
  BY <1>1 DEF vars, analyzeVars
<1>2. CASE Load
  <2>1. document \in Documents /\ project' = Parse(document)
    BY <1>2 DEF Load
  <2>2. phase' # "load"
    BY <1>2 DEF Load, Traceback
  <2>3. \A p \in project' :
          /\ p.analysis.tolerance \in Nat /\ p.analysis.fInit \in Nat /\ p.analysis.maxIter \in Nat
          /\ \A q \in project' : q.analysis = p.analysis
    BY <2>1, ProjectRead, Zenon
  <2>4. QED BY <2>2, <2>3
<1>3. CASE \/ BuildContext \/ StartSearch \/ AlignEndpoints \/ GenerateSlices \/ Bishop
           \/ Spencer \/ Finish
  <2>1. project' = project /\ (phase' = "load" => phase = "load" /\ document' = document)
    BY <1>3 DEF BuildContext, StartSearch, AlignEndpoints, GenerateSlices, Bishop, Spencer, Finish,
           Traceback, analyzeVars
  <2>2. QED BY <2>1
<1>4. QED BY <1>1, <1>2, <1>3 DEF Next

\* A step of a solver within the command leaves the task as it is.
LEMMA SolverStep ==
  ASSUME BishopNext \/ SpencerNext
  PROVE  task' = task /\ solving # "idle" /\ solving' # "idle" /\ solving # "returned"
<1>1. CASE BishopNext
  BY <1>1 DEF BishopNext, StartBishop, Iterate, GiveUp, AcceptBishop, Raise, Return
<1>2. CASE SpencerNext
  BY <1>2 DEF SpencerNext, StartSpencer, TryStart, EndStarts, ProbeNext, NoBracket,
       ResolveBracket, AcceptSpencer, Raise, Return, solverVars
<1>3. QED BY <1>1, <1>2

LEMMA TaskStep ==
  ASSUME CommandInv, [Next]_vars
  PROVE  TaskSound'
<1> USE DEF CommandInv, TaskSound
<1>1. CASE UNCHANGED vars
  BY <1>1 DEF vars, analyzeVars, solverVars
<1>2. CASE Load
  BY <1>2 DEF Load, Traceback, solverVars
<1>3. CASE BuildContext \/ StartSearch \/ AlignEndpoints
  BY <1>3 DEF BuildContext, StartSearch, AlignEndpoints, Traceback, solverVars
<1>4. CASE GenerateSlices
  <2>1. CASE Traceback /\ UNCHANGED <<task, solving>>
    BY <1>4, <2>1 DEF GenerateSlices, Traceback
  <2>2. CASE ~(Traceback /\ UNCHANGED <<task, solving>>)
    <3>1. PICK p \in project, horizontal \in BOOLEAN, driving \in BOOLEAN :
            /\ task' = [method |-> p.analysis.method, fInit |-> p.analysis.fInit,
                         tolerance |-> p.analysis.tolerance,
                         maxIter |-> p.analysis.maxIter \div One,
                         horizontal |-> horizontal, driving |-> driving]
            /\ solving' = "called" /\ phase' = "solving" /\ project' = project
      BY <1>4, <2>2 DEF GenerateSlices
    <3>2. p.analysis.tolerance \in Nat /\ p.analysis.fInit \in Nat /\ p.analysis.maxIter \in Nat
            /\ \A q \in project : q.analysis = p.analysis
      BY DEF SettingsSound
    <3>3. p.analysis.maxIter \div One \in Nat
      BY <3>2 DEF One
    <3>4. QED BY <3>1, <3>2, <3>3
  <2>3. QED BY <2>1, <2>2
<1>5. CASE Bishop \/ Spencer
  BY <1>5, SolverStep DEF Bishop, Spencer, analyzeVars
<1>6. CASE Finish
  BY <1>6 DEF Finish, Traceback, solverVars
<1>7. QED BY <1>1, <1>2, <1>3, <1>4, <1>5, <1>6 DEF Next

LEMMA CommandStep == CommandInv /\ [Next]_vars => CommandInv'
BY SettingsStep, TaskStep DEF CommandInv

\* A document without a surface has a search, and a search starts between limits that
\* are apart.
SearchStarted ==
    /\ \A p \in project : p.surface = {} => p.search # {}
    /\ phase \in {"search", "searching"} => \A p \in project : p.surface = {}
    /\ phase = "searching" => \A p \in project : \A f \in p.search : ~Narrow(f)

CompleteInv ==
    /\ \A p \in project : GroundComplete(p) /\ LoadsComplete(p) /\ SettingsComplete(p)
    /\ SearchStarted

LEMMA CompleteStep ==
  ASSUME CommandInv, CompleteInv, [Next]_vars
  PROVE  CompleteInv'
<1>1. CASE Load
  <2>1. document \in Documents /\ project' = Parse(document)
    BY <1>1 DEF Load, CommandInv, SettingsSound
  <2>2. \A p \in project' :
           /\ GroundComplete(p) /\ LoadsComplete(p) /\ SettingsComplete(p)
           /\ p.surface = {} => p.search # {}
    BY <2>1, ProjectComplete, Zenon
  <2>3. phase' \in {"context", "ended"}
    BY <1>1 DEF Load, Traceback
  <2>4. SearchStarted'
    BY <2>2, <2>3 DEF SearchStarted
  <2>5. QED BY <2>2, <2>4 DEF CompleteInv
<1>2. ASSUME project' = project, SearchStarted' PROVE CompleteInv'
  BY <1>2 DEF CompleteInv
<1>3. CASE BuildContext
  <2>1. project' = project /\ phase' # "searching"
          /\ (phase' = "search" => \A p \in project : p.surface = {})
    BY <1>3 DEF BuildContext, Traceback, Prescribed
  <2>2. SearchStarted'
    BY <2>1 DEF CompleteInv, SearchStarted
  <2>3. QED BY <1>2, <2>1, <2>2
<1>4. CASE StartSearch
  <2>1. project' = project /\ phase = "search" /\ phase' \in {"searching", "ended"}
          /\ (phase' = "searching" => \A p \in project : \A f \in p.search : ~Narrow(f))
    BY <1>4 DEF StartSearch, Traceback
  <2>2. SearchStarted'
    BY <2>1 DEF CompleteInv, SearchStarted
  <2>3. QED BY <1>2, <2>1, <2>2
<1>5. CASE AlignEndpoints \/ GenerateSlices \/ Bishop \/ Spencer \/ Finish
  <2>1. project' = project /\ phase' \notin {"search", "searching"}
    BY <1>5 DEF AlignEndpoints, GenerateSlices, Bishop, Spencer, Finish, Traceback, analyzeVars
  <2>2. SearchStarted'
    BY <2>1 DEF CompleteInv, SearchStarted
  <2>3. QED BY <1>2, <2>1, <2>2
<1>6. CASE UNCHANGED vars
  <2>1. project' = project /\ phase' = phase
    BY <1>6 DEF vars, analyzeVars
  <2>2. SearchStarted'
    BY <2>1 DEF CompleteInv, SearchStarted
  <2>3. QED BY <1>2, <2>1, <2>2
<1>7. QED BY <1>1, <1>3, <1>4, <1>5, <1>6 DEF Next

\* A document that json_io.py accepts has every field complete and in the range that the
\* ground, the slices, the solvers and the searches need; a search it begins has limits
\* further apart than X_SEP_MIN.
THEOREM AcceptedIsComplete == Spec => []ParsedIsComplete
<1>1. Init => CommandInv /\ CompleteInv
  <2>1. Init => CompleteInv
    BY DEF Init, CompleteInv, SearchStarted
  <2>2. QED BY <2>1, InitialCommand
<1>2. CommandInv /\ CompleteInv /\ [Next]_vars => (CommandInv /\ CompleteInv)'
  BY CommandStep, CompleteStep
<1>3. CompleteInv => ParsedIsComplete
  BY DEF CompleteInv, SearchStarted, ParsedIsComplete
<1>4. QED BY <1>1, <1>2, <1>3, PTL DEF Spec

-----------------------------------------------------------------------------
(* bishop.py *)

SeenSound == \A f \in DOMAIN seen : seen[f].after \in FosValues \cup {NonFinite}

\* The equations answer the same at a factor of safety met before.
LEMMA Met ==
  ASSUME NEW f, NEW e \in Equations(f), Meet(f, e)
  PROVE  /\ f \in DOMAIN seen' /\ seen'[f] = e
         /\ \A g \in DOMAIN seen : g \in DOMAIN seen' /\ seen'[g] = seen[g]
         /\ DOMAIN seen' = DOMAIN seen \cup {f}
BY DEF Meet, Equations

\* What is met has its type.
LEMMA MetType ==
  ASSUME SeenSound, NEW f, NEW e \in Equations(f), Meet(f, e)
  PROVE  e.after \in FosValues \cup {NonFinite} /\ SeenSound'
<1>1. e.after \in FosValues \cup {NonFinite}
  BY DEF SeenSound, Equations
<1>2. DOMAIN seen' = DOMAIN seen \cup {f} /\ seen'[f] = e
        /\ \A g \in DOMAIN seen : seen'[g] = seen[g]
  BY Met
<1>3. QED BY <1>1, <1>2 DEF SeenSound

BishopAnswered == SeenSound /\ BishopSound /\ FixedPointIsTrue

LEMMA BishopStep ==
  ASSUME CommandInv, BishopAnswered, AnswerSound, [Next]_vars
  PROVE  BishopAnswered'
<1> USE DEF CommandInv, BishopAnswered
<1>1. CASE UNCHANGED <<bishopVars, solverVars>>
  BY <1>1 DEF bishopVars, solverVars, SeenSound, BishopSound, FixedPointIsTrue, Returned
<1>2. CASE GenerateSlices
  <2>1. CASE UNCHANGED <<task, solving>>
    BY <1>1, <1>2, <2>1 DEF GenerateSlices, bishopVars, solverVars
  <2>2. CASE ~UNCHANGED <<task, solving>>
    <3>1. solving' = "called" /\ UNCHANGED <<bishopVars, answer>> /\ phase = "slices"
      BY <1>2, <2>2 DEF GenerateSlices
    <3>2. solving = "idle"
      BY <3>1 DEF TaskSound
    <3>3. QED BY <3>1, <3>2 DEF bishopVars, SeenSound, BishopSound, FixedPointIsTrue, Returned
  <2>3. QED BY <2>1, <2>2
<1>3. CASE Spencer
  <2>1. UNCHANGED <<bishopVars, task>> /\ solving' \notin {"called", "iterating", "converged", "idle"}
    BY <1>3, SolverStep DEF Spencer, SpencerNext, StartSpencer, TryStart, EndStarts, ProbeNext,
         NoBracket, ResolveBracket, AcceptSpencer, Raise, Return, solverVars
  <2>2. \A a \in answer' : a.path # "bishop"
    BY <1>3 DEF Spencer, SpencerNext, StartSpencer, TryStart, EndStarts, ProbeNext,
         NoBracket, ResolveBracket, AcceptSpencer, Raise, Return, solverVars, AnswerSound
  <2>3. QED BY <2>1, <2>2 DEF bishopVars, SeenSound, BishopSound, FixedPointIsTrue, Returned
<1>4. CASE StartBishop
  <2>1. solving = "called" /\ answer = {} /\ task.fInit \in Nat /\ task.maxIter \in Nat
    BY <1>4 DEF StartBishop, AnswerSound, TaskSound
  <2>2. QED BY <1>4, <2>1 DEF StartBishop, Raise, SeenSound, BishopSound, FixedPointIsTrue, Returned
<1>5. CASE Iterate
  <2>1. PICK e \in Equations(fk) :
          /\ Meet(fk, e)
          /\ IF e.mAlpha = "near zero" \/ e.after = NonFinite
             THEN Raise /\ UNCHANGED <<fk, iteration, delta>>
             ELSE /\ iteration' = iteration + 1
                  /\ delta' = Distance(e.after, fk)
                  /\ fk' = e.after
                  /\ solving' = IF Converged(delta') THEN "converged" ELSE "iterating"
                  /\ UNCHANGED <<task, answer>>
    BY <1>5 DEF Iterate
  <2>2. e.after \in FosValues \cup {NonFinite} /\ SeenSound'
    BY <2>1, MetType
  <2>3. CASE e.mAlpha = "near zero" \/ e.after = NonFinite
    <3>1. Raise /\ UNCHANGED <<fk, iteration, delta>>
      BY <2>1, <2>3
    <3>2. QED BY <2>2, <3>1 DEF Raise, BishopSound, FixedPointIsTrue, Returned
  <2>4. CASE ~(e.mAlpha = "near zero" \/ e.after = NonFinite)
    <3>1. /\ iteration' = iteration + 1 /\ delta' = Distance(e.after, fk) /\ fk' = e.after
          /\ solving' = IF Converged(delta') THEN "converged" ELSE "iterating"
          /\ task' = task /\ answer' = answer
      BY <2>1, <2>4
    <3>2. e.after \in Nat /\ fk \in Nat /\ iteration \in Nat
      BY <2>2, <2>4, SolverAssumption DEF BishopSound
    <3>3. delta' = Distance(fk, fk')
      <4>1. Distance(e.after, fk) = Distance(fk, e.after)
        BY <3>2 DEF Distance
      <4>2. QED BY <3>1, <4>1
    <3>4. solving = "iterating" /\ iteration < task.maxIter /\ task.maxIter \in Nat /\ answer = {}
      BY <1>5 DEF Iterate, TaskSound, AnswerSound
    <3>5. fk \in DOMAIN seen' /\ seen'[fk] = e
      BY <2>1, Met
    <3>6. iteration' \in Nat /\ iteration' <= task.maxIter /\ iteration' \in 1..task.maxIter
      BY <3>1, <3>2, <3>4
    <3>7. BishopSound'
      BY <3>1, <3>2, <3>3, <3>5, <3>6 DEF BishopSound, Converged
    <3>8. FixedPointIsTrue'
      BY <3>1, <3>4 DEF FixedPointIsTrue, Returned
    <3>9. QED BY <2>2, <3>7, <3>8
  <2>5. QED BY <2>3, <2>4
<1>6. CASE GiveUp
  BY <1>6 DEF GiveUp, Raise, bishopVars, SeenSound, BishopSound, FixedPointIsTrue, Returned
<1>7. CASE AcceptBishop
  <2>1. PICK e \in Equations(fk) :
          /\ Meet(fk, e)
          /\ IF FinalMAlpha(e) # "fine"
             THEN Raise
             ELSE Return([fos |-> fk, force |-> 0, moment |-> delta,
                          low |-> e.mAlpha # "fine", path |-> "bishop"])
    BY <1>7 DEF AcceptBishop
  <2>2. UNCHANGED <<fk, iteration, delta, task>> /\ solving' = "returned" /\ solving = "converged"
    BY <1>7, <2>1 DEF AcceptBishop, Raise, Return
  <2>3. fk \in DOMAIN seen' /\ seen'[fk] = e
          /\ \A g \in DOMAIN seen : g \in DOMAIN seen' /\ seen'[g] = seen[g]
    BY <2>1, Met
  <2>4. ASSUME NEW a \in answer' PROVE a.fos = fk /\ e.mAlpha = "fine"
    BY <2>1, <2>4 DEF Raise, Return, FinalMAlpha
  <2>5. iteration \in 1..task.maxIter
          /\ \E f \in DOMAIN seen : seen[f].after = fk /\ Distance(f, fk) <= task.tolerance
    BY <2>2 DEF BishopSound
  <2>6. \E f \in DOMAIN seen' : seen'[f].after = fk /\ Distance(f, fk) <= task.tolerance
    BY <2>3, <2>5
  <2>7. FixedPointIsTrue'
    BY <2>2, <2>3, <2>4, <2>5, <2>6 DEF FixedPointIsTrue, Returned
  <2>8. SeenSound'
    BY <2>1, MetType
  <2>9. BishopSound'
    BY <2>2 DEF BishopSound
  <2>10. QED BY <2>7, <2>8, <2>9
<1>8. QED
  BY <1>1, <1>2, <1>3, <1>4, <1>5, <1>6, <1>7
     DEF Next, Load, BuildContext, StartSearch, AlignEndpoints, Bishop, BishopNext, Finish, vars

LEMMA InitialBishop == Init => BishopAnswered /\ AnswerSound
BY DEF Init, BishopInit, BishopAnswered, SeenSound, BishopSound, FixedPointIsTrue, Returned,
       AnswerSound

-----------------------------------------------------------------------------
(* The answer and what is written *)

LEMMA AnswerStep ==
  ASSUME CommandInv, BishopAnswered, AnswerSound, [Next]_vars
  PROVE  AnswerSound'
<1> USE DEF CommandInv, BishopAnswered, AnswerSound
<1>1. CASE solving = "idle" /\ solving' # "returned" /\ answer' = answer
  BY <1>1
<1>2. CASE UNCHANGED solverVars
  BY <1>2 DEF solverVars
<1>3. CASE GenerateSlices
  BY <1>2, <1>3 DEF GenerateSlices, TaskSound, solverVars
<1>4. CASE Spencer
  <2>1. task' = task /\ solving # "returned" /\ answer = {}
    BY <1>4, SolverStep DEF Spencer
  <2>2. CASE AcceptSpencer
    <3>1. PICK s \in best :
            IF Acceptable(s)
            THEN Return([fos |-> s.fos, force |-> s.force, moment |-> s.moment,
                         low |-> s.low, path |-> solving])
            ELSE Raise
      BY <2>2 DEF AcceptSpencer
    <3>2. QED BY <2>1, <3>1 DEF Acceptable, Return, Raise
  <2>3. CASE ~AcceptSpencer
    BY <1>4, <2>1, <2>3 DEF Spencer, SpencerNext, StartSpencer, TryStart, EndStarts, ProbeNext,
         NoBracket, ResolveBracket, Raise, solverVars
  <2>4. QED BY <2>2, <2>3
<1>5. CASE Bishop
  <2>1. task' = task /\ solving # "returned" /\ answer = {} /\ task.tolerance \in Nat
    BY <1>5, SolverStep DEF Bishop, TaskSound
  <2>2. CASE AcceptBishop
    <3>1. PICK e \in Equations(fk) :
            IF FinalMAlpha(e) # "fine"
            THEN Raise
            ELSE Return([fos |-> fk, force |-> 0, moment |-> delta,
                         low |-> e.mAlpha # "fine", path |-> "bishop"])
      BY <2>2 DEF AcceptBishop
    <3>2. delta <= task.tolerance
      BY <2>2 DEF AcceptBishop, BishopSound
    <3> DEFINE a == [fos |-> fk, force |-> 0, moment |-> delta, low |-> e.mAlpha # "fine",
                     path |-> "bishop"]
    <3>3. a.force = 0 /\ a.moment = delta /\ a.low = (e.mAlpha # "fine")
      OBVIOUS
    <3>4. answer' = {} \/ (answer' = {a} /\ e.mAlpha = "fine" /\ solving' = "returned")
      BY <3>1 DEF FinalMAlpha, Return, Raise
    <3> HIDE DEF a
    <3>5. solving' = "returned"
      BY <3>1 DEF Return, Raise
    <3>6. ASSUME NEW b \in answer'
          PROVE  b.force <= task'.tolerance /\ b.moment <= task'.tolerance /\ ~b.low
      <4>1. b = a /\ e.mAlpha = "fine"
        BY <3>4
      <4>2. b.force = 0 /\ b.moment = delta /\ b.low = FALSE
        BY <3>3, <4>1
      <4>3. task'.tolerance = task.tolerance /\ task.tolerance \in Nat
        BY <2>1
      <4>4. QED BY <3>2, <4>2, <4>3
    <3>7. QED BY <2>1, <3>5, <3>6
  <2>3. CASE ~AcceptBishop
    BY <1>5, <2>1, <2>3 DEF Bishop, BishopNext, StartBishop, Iterate, GiveUp, Raise
  <2>4. QED BY <2>2, <2>3
<1>6. QED
  BY <1>2, <1>3, <1>4, <1>5
     DEF Next, Load, BuildContext, StartSearch, AlignEndpoints, Finish, vars

\* _emit_payload() writes the answer, or nothing.
LEMMA FinishWrites ==
  ASSUME Finish
  PROVE  phase' = "ended" /\ (written' = written \/ (written' = answer /\ exitCode' = exitCode))
<1>1. CASE answer = {}
  BY <1>1 DEF Finish, Traceback
<1>2. CASE answer # {}
  BY <1>2 DEF Finish, Traceback
<1>3. QED BY <1>1, <1>2

LEMMA WrittenStep ==
  ASSUME CommandInv, AnswerSound, WrittenSound, [Next]_vars
  PROVE  WrittenSound'
<1> USE DEF CommandInv, WrittenSound
<1>1. CASE UNCHANGED vars
  BY <1>1 DEF vars, analyzeVars, Prescribed, Aligned
<1>2. CASE Load
  <2>1. phase' \in {"context", "ended"} /\ written' = {} /\ (phase' # "ended" => exitCode' = 0)
    BY <1>2 DEF Load, Traceback
  <2>2. QED BY <2>1
<1>3. CASE BuildContext \/ StartSearch \/ AlignEndpoints
  <2>1. UNCHANGED <<project, written>> /\ written = {}
          /\ (phase' # "ended" => exitCode' = 0)
    BY <1>3 DEF BuildContext, StartSearch, AlignEndpoints, Traceback
  <2>2. /\ phase' \in {"align", "slices", "solving"} => Prescribed
        /\ phase' \in {"slices", "solving"} => Aligned(misfit')
    <3>1. CASE BuildContext
      BY <3>1 DEF BuildContext, Traceback
    <3>2. CASE AlignEndpoints
      BY <3>2 DEF AlignEndpoints, Traceback
    <3>3. CASE StartSearch
      BY <3>3 DEF StartSearch, Traceback
    <3>4. QED BY <1>3, <3>1, <3>2, <3>3
  <2>3. QED BY <2>1, <2>2 DEF Prescribed, Aligned
<1>4. CASE GenerateSlices \/ Bishop \/ Spencer
  <2>1. UNCHANGED <<project, written, misfit>> /\ phase \in {"slices", "solving"}
          /\ phase' \in {"solving", "ended"} /\ (phase' # "ended" => exitCode' = exitCode)
    BY <1>4 DEF GenerateSlices, Bishop, Spencer, Traceback, analyzeVars
  <2>2. QED BY <2>1 DEF Prescribed, Aligned
<1>5. CASE Finish
  <2>1. UNCHANGED <<project, misfit>> /\ phase = "solving" /\ phase' = "ended"
          /\ (written' = {} \/ (written' = answer /\ exitCode' = exitCode))
    <3>1. phase = "solving" /\ written = {} /\ UNCHANGED <<project, misfit>>
      BY <1>5 DEF Finish
    <3>2. QED BY <1>5, <3>1, FinishWrites
  <2>2. \A a \in answer : ~a.low /\ \A p \in project :
              a.force <= p.analysis.tolerance /\ a.moment <= p.analysis.tolerance
    BY <2>1 DEF AnswerSound, TaskSound
  <2>3. QED BY <2>1, <2>2 DEF Prescribed, Aligned
<1>6. QED BY <1>1, <1>2, <1>3, <1>4, <1>5 DEF Next

AnswerInv == CommandInv /\ BishopAnswered /\ AnswerSound /\ WrittenSound

LEMMA AnswerInvariant == Spec => []AnswerInv
<1>1. Init => AnswerInv
  <2>1. Init => WrittenSound
    BY DEF Init, WrittenSound
  <2>2. QED BY <2>1, InitialCommand, InitialBishop DEF AnswerInv
<1>2. AnswerInv /\ [Next]_vars => AnswerInv'
  BY CommandStep, BishopStep, AnswerStep, WrittenStep DEF AnswerInv
<1>3. QED BY <1>1, <1>2, PTL DEF Spec

\* Bishop's answer is a fixed point of the iteration within the tolerance, found in at
\* most max_iter iterations, and sound in every slice where it is taken, whatever the
\* equations answer at each factor of safety.
THEOREM FixedPoint == Spec => []FixedPointIsTrue
<1>1. AnswerInv => FixedPointIsTrue
  BY DEF AnswerInv, BishopAnswered
<1>2. QED BY <1>1, AnswerInvariant, PTL

\* A result is written only after every check between the document and the solver's
\* answer has passed, by either solver and for every document.
THEOREM AnswerEarned == Spec => []AnswerIsEarned
<1>1. AnswerInv => AnswerIsEarned
  BY DEF AnswerInv, WrittenSound, AnswerIsEarned, Aligned
<1>2. QED BY <1>1, AnswerInvariant, PTL

-----------------------------------------------------------------------------
(* spencer.py *)

Summaries == [norm : Nat, low : BOOLEAN]

\* The best state is the best there has been, and the probes go upwards.
SpencerType ==
    /\ met \subseteq Summaries /\ best \subseteq States
    /\ best = {} \/ \E s \in States : best = {s}
    /\ probe \in 0..Len(Probes)
    /\ \/ lastProbe = << >>
       \/ \E i \in 1..probe, r \in SignedResiduals : lastProbe = <<Probes[i], r>>

BestSound ==
    /\ solving \in {"idle", "called"} => met = {} /\ best = {}
    /\ solving \in {"starts", "two_dimensional"} =>
          /\ best = {} => \A s \in met : ~Eligible(s)
          /\ \A b \in best :
                Summary(b) \in met /\ \A s \in met : Eligible(s) => Norm(b) <= s.norm
    /\ solving \in {"probing", "bracketed"} => best = {}

SpencerChoice ==
    SpencerType /\ BestSound /\ NoBetterStartLost /\ FallbackIsLastResort /\ BracketHoldsARoot

LEMMA NormType ==
  ASSUME NEW s \in States
  PROVE  Norm(s) \in Nat /\ Summary(s) \in Summaries /\ Summary(s).norm = Norm(s)
         /\ (Eligible(Summary(s)) <=> Eligible(s))
<1>1. s.force \in Nat /\ s.moment \in Nat /\ s.low \in BOOLEAN
  BY SolverAssumption DEF States
<1>2. Norm(s) \in Nat
  BY <1>1 DEF Norm
<1> DEFINE n == Norm(s)
           summary == [norm |-> n, low |-> s.low]
<1>3. summary \in Summaries /\ summary.norm = n /\ summary.low = s.low
  <2> HIDE DEF n
  <2>1. n \in Nat
    BY <1>2 DEF n
  <2>2. QED BY <1>1, <2>1 DEF Summaries
<1>4. Summary(s) = summary
  BY DEF Summary
<1> HIDE DEF summary
<1>5. QED BY <1>2, <1>3, <1>4 DEF Eligible

LEMMA InitialSpencer == Init => SpencerChoice
BY DEF Init, SpencerInit, SpencerChoice, SpencerType, BestSound, NoBetterStartLost,
       FallbackIsLastResort, BracketHoldsARoot, Returned

LEMMA StartsStep ==
  ASSUME CommandInv, AnswerSound, SpencerChoice, TryStart
  PROVE  SpencerChoice'
<1>1. solving = "starts" /\ UNCHANGED <<solverVars, probe, lastProbe, bracket>> /\ answer = {}
  BY DEF TryStart, AnswerSound
<1>2. NoBetterStartLost' /\ FallbackIsLastResort' /\ BracketHoldsARoot'
  BY <1>1 DEF solverVars, NoBetterStartLost, FallbackIsLastResort, BracketHoldsARoot, Returned
<1>3. CASE UNCHANGED <<best, bestAny, met>>
  BY <1>1, <1>2, <1>3 DEF solverVars, SpencerChoice, SpencerType, BestSound, Eligible
<1>4. ASSUME NEW s \in States, met' = met \cup {Summary(s)},
             best' = IF Eligible(s) THEN KeepBetter(s) ELSE best
      PROVE  SpencerChoice'
  <2>1. Norm(s) \in Nat /\ Summary(s) \in Summaries /\ Summary(s).norm = Norm(s)
          /\ (Eligible(Summary(s)) <=> Eligible(s))
    BY NormType
  <2>2. \A b \in best : Norm(b) \in Nat /\ Summary(b) \in met
          /\ \A t \in met : Eligible(t) => Norm(b) <= t.norm
    BY <1>1, NormType DEF SpencerChoice, SpencerType, BestSound
  <2>3. SpencerType'
    BY <1>1, <1>4, <2>1 DEF SpencerChoice, SpencerType, KeepBetter
  <2>4. \A t : Eligible(t)' <=> Eligible(t)
    BY <1>1 DEF Eligible, solverVars
  <2>5. ASSUME NEW b \in best'
        PROVE  Summary(b) \in met' /\ \A t \in met' : Eligible(t) => Norm(b) <= t.norm
    <3>1. CASE best' = best /\ ~Eligible(s)
      BY <1>4, <2>1, <2>2, <3>1
    <3>2. CASE best' = {s} /\ \A c \in best : Norm(s) < Norm(c)
      <4>1. b = s /\ Summary(b) \in met'
        BY <1>4, <3>2
      <4>2. CASE best = {}
        <5>1. \A t \in met : ~Eligible(t)
          BY <1>1, <4>2 DEF SpencerChoice, BestSound
        <5>2. QED BY <1>4, <2>1, <4>1, <5>1
      <4>3. CASE best # {}
        <5>1. PICK c \in best : TRUE
          BY <4>3
        <5>2. Norm(s) < Norm(c) /\ Norm(c) \in Nat /\ \A t \in met : Eligible(t) => Norm(c) <= t.norm
          BY <2>2, <3>2, <5>1
        <5>3. \A t \in met : t.norm \in Nat
          BY DEF SpencerChoice, SpencerType, Summaries
        <5>4. \A t \in met : Eligible(t) => Norm(s) <= t.norm
          BY <2>1, <5>2, <5>3
        <5>5. QED BY <1>4, <2>1, <4>1, <5>4
      <4>4. QED BY <4>2, <4>3
    <3>3. CASE best' = best /\ ~\A c \in best : Norm(s) < Norm(c)
      <4>1. PICK c \in best : ~(Norm(s) < Norm(c))
        BY <3>3
      <4>2. b = c
        BY <3>3, <4>1 DEF SpencerChoice, SpencerType
      <4>3. Norm(b) <= Norm(s)
        BY <2>1, <2>2, <4>1, <4>2
      <4>4. QED BY <1>4, <2>1, <2>2, <3>3, <4>3
    <3>4. QED BY <1>4, <3>1, <3>2, <3>3 DEF KeepBetter
  <2>6. best' = {} => \A t \in met' : ~Eligible(t)
    BY <1>1, <1>4, <2>1 DEF SpencerChoice, BestSound, KeepBetter
  <2>7. BestSound'
    BY <1>1, <2>4, <2>5, <2>6 DEF BestSound, solverVars
  <2>8. QED BY <1>2, <2>3, <2>7 DEF SpencerChoice
<1>5. QED BY <1>3, <1>4 DEF TryStart

LEMMA ProbesStep ==
  ASSUME CommandInv, AnswerSound, SpencerChoice, ProbeNext
  PROVE  SpencerChoice'
<1>1. solving = "probing" /\ UNCHANGED <<task, answer, best, met>> /\ answer = {}
        /\ probe' = probe + 1 /\ probe < Len(Probes)
        /\ solving' \in {"probing", "bracketed"}
  BY DEF ProbeNext, AnswerSound
<1>2. probe \in Nat /\ Len(Probes) \in Nat /\ probe' \in 1..Len(Probes)
  BY <1>1, SpencerAssumption DEF SpencerChoice, SpencerType
<1>3. BestSound' /\ NoBetterStartLost' /\ FallbackIsLastResort'
  BY <1>1 DEF SpencerChoice, BestSound, NoBetterStartLost, FallbackIsLastResort, Returned
<1>4. SpencerType'
  <2>1. lastProbe' = lastProbe \/ \E r \in SignedResiduals : lastProbe' = <<Probes[probe'], r>>
    BY DEF ProbeNext, Skips
  <2>2. 1..probe \subseteq 1..probe' /\ probe' \in 1..probe'
    BY <1>1, <1>2
  <2>3. QED BY <1>1, <1>2, <2>1, <2>2 DEF SpencerChoice, SpencerType
<1>5. BracketHoldsARoot'
  <2>1. CASE solving' = "probing"
    BY <2>1 DEF BracketHoldsARoot
  <2>2. CASE solving' = "bracketed"
    <3>1. PICK r \in SignedResiduals :
            \/ /\ Abs(r) <= task.tolerance
               /\ bracket' = <<<<Probes[probe'], r>>, <<Probes[probe'], r>>>>
            \/ Brackets(r) /\ bracket' = <<lastProbe, <<Probes[probe'], r>>>>
      BY <1>1, <2>2 DEF ProbeNext
    <3>2. CASE Abs(r) <= task.tolerance /\ bracket' = <<<<Probes[probe'], r>>, <<Probes[probe'], r>>>>
      BY <1>1, <3>2 DEF BracketHoldsARoot
    <3>3. CASE Brackets(r) /\ bracket' = <<lastProbe, <<Probes[probe'], r>>>>
      <4>1. PICK i \in 1..probe, l \in SignedResiduals : lastProbe = <<Probes[i], l>>
        BY <3>3 DEF Brackets, SpencerChoice, SpencerType
      <4>2. Probes[i] < Probes[probe']
        BY <1>1, <1>2, SpencerAssumption
      <4>3. r * l < 0 /\ r \in Int /\ l \in Int
        BY <3>3, <4>1, SolverAssumption DEF Brackets, SignedResiduals
      <4>4. l * r < 0
        BY <4>3
      <4>5. bracket'[1][1] = Probes[i] /\ bracket'[1][2] = l
              /\ bracket'[2][1] = Probes[probe'] /\ bracket'[2][2] = r
        BY <3>3, <4>1
      <4>6. QED BY <4>2, <4>4, <4>5 DEF BracketHoldsARoot
    <3>4. QED BY <3>1, <3>2, <3>3
  <2>3. QED BY <1>1, <2>1, <2>2
<1>6. QED BY <1>3, <1>4, <1>5 DEF SpencerChoice

LEMMA SpencerStep ==
  ASSUME CommandInv, BishopAnswered, AnswerSound, SpencerChoice, [Next]_vars
  PROVE  SpencerChoice'
<1> USE DEF SpencerChoice
<1>1. CASE UNCHANGED <<spencerVars, solverVars>>
  BY <1>1 DEF spencerVars, solverVars, SpencerType, BestSound, Eligible, NoBetterStartLost,
       FallbackIsLastResort, BracketHoldsARoot, Returned
<1>2. CASE GenerateSlices
  <2>1. CASE UNCHANGED <<task, solving>>
    BY <1>1, <1>2, <2>1 DEF GenerateSlices, solverVars
  <2>2. CASE ~UNCHANGED <<task, solving>>
    <3>1. solving' = "called" /\ UNCHANGED <<spencerVars, answer>> /\ solving = "idle"
      BY <1>2, <2>2 DEF GenerateSlices, CommandInv, TaskSound
    <3>2. QED BY <3>1 DEF spencerVars, SpencerType, BestSound, NoBetterStartLost,
                FallbackIsLastResort, BracketHoldsARoot, Returned
  <2>3. QED BY <2>1, <2>2
<1>3. CASE Bishop
  <2>1. UNCHANGED <<spencerVars, task>> /\ solving' \in {"iterating", "converged", "returned"}
    BY <1>3 DEF Bishop, BishopNext, StartBishop, Iterate, GiveUp, AcceptBishop, Raise, Return
  <2>2. \A a \in answer' : a.path # "two_dimensional"
    <3>1. CASE AcceptBishop
      <4>1. PICK e \in Equations(fk) :
              IF FinalMAlpha(e) # "fine"
              THEN Raise
              ELSE Return([fos |-> fk, force |-> 0, moment |-> delta,
                           low |-> e.mAlpha # "fine", path |-> "bishop"])
        BY <3>1 DEF AcceptBishop
      <4> DEFINE a == [fos |-> fk, force |-> 0, moment |-> delta, low |-> e.mAlpha # "fine",
                       path |-> "bishop"]
      <4>2. a.path = "bishop"
        OBVIOUS
      <4>3. answer' = {} \/ answer' = {a}
        BY <4>1 DEF Return, Raise
      <4> HIDE DEF a
      <4>4. QED BY <4>2, <4>3
    <3>2. CASE ~AcceptBishop
      BY <1>3, <3>2 DEF Bishop, BishopNext, StartBishop, Iterate, GiveUp, Raise, AnswerSound
    <3>3. QED BY <3>1, <3>2
  <2>3. QED BY <2>1, <2>2 DEF spencerVars, SpencerType, BestSound, NoBetterStartLost,
              FallbackIsLastResort, BracketHoldsARoot, Returned
<1>4. CASE StartSpencer \/ NoBracket
  <2>1. UNCHANGED <<spencerVars, task>> /\ answer = {} /\ answer' = {}
          /\ ((solving = "called" /\ solving' = "starts") \/ solving' = "returned")
    BY <1>4 DEF StartSpencer, NoBracket, Raise, AnswerSound
  <2>2. QED BY <2>1 DEF spencerVars, SpencerType, BestSound, NoBetterStartLost,
              FallbackIsLastResort, BracketHoldsARoot, Returned
<1>5. CASE TryStart
  BY <1>5, StartsStep
<1>6. CASE EndStarts
  <2>1. UNCHANGED <<spencerVars, task>> /\ solving = "starts" /\ answer = {} /\ answer' = {}
          /\ \/ best # {} /\ solving' = "two_dimensional"
             \/ best = {} /\ task.horizontal /\ solving' = "probing"
             \/ solving' = "returned"
    BY <1>6 DEF EndStarts, NeedsFallback, Raise, AnswerSound
  <2>2. \A s : Eligible(s)' <=> Eligible(s)
    BY <2>1 DEF Eligible
  <2>3. task.horizontal /\ best = {} => \A s \in met : s.low
    BY <2>1 DEF BestSound, Eligible, SpencerType, Summaries
  <2>4. QED BY <2>1, <2>2, <2>3 DEF spencerVars, SpencerType, BestSound, NoBetterStartLost,
              FallbackIsLastResort, BracketHoldsARoot, Returned
<1>7. CASE ProbeNext
  BY <1>7, ProbesStep
<1>8. CASE ResolveBracket
  <2>1. UNCHANGED <<met, probe, lastProbe, bracket, task>> /\ solving = "bracketed" /\ answer = {}
          /\ answer' = {} /\ solving' \in {"lambda_zero_fallback", "returned"}
          /\ (best' = best \/ \E s \in States : best' = {s})
    BY <1>8 DEF ResolveBracket, Raise, AnswerSound, ZeroLambdaStates
  <2>2. QED BY <2>1 DEF SpencerType, BestSound, NoBetterStartLost,
              FallbackIsLastResort, BracketHoldsARoot, Returned
<1>9. CASE AcceptSpencer
  <2>1. PICK s \in best :
          IF Acceptable(s)
          THEN Return([fos |-> s.fos, force |-> s.force, moment |-> s.moment,
                       low |-> s.low, path |-> solving])
          ELSE Raise
    BY <1>9 DEF AcceptSpencer
  <2>2. UNCHANGED <<spencerVars, task>> /\ solving' = "returned"
          /\ solving \in {"two_dimensional", "lambda_zero_fallback"}
    BY <1>9, <2>1 DEF AcceptSpencer, Return, Raise
  <2>3. ASSUME NEW a \in answer', a.path = "two_dimensional"
        PROVE  /\ Summary(a) = Summary(s) /\ Norm(a) = Norm(s) /\ solving = "two_dimensional"
    BY <2>1, <2>3 DEF Return, Raise, Summary, Norm
  <2>4. \A t : Eligible(t)' <=> Eligible(t)
    BY <2>2 DEF Eligible
  <2>5. NoBetterStartLost'
    BY <2>2, <2>3, <2>4 DEF BestSound, NoBetterStartLost, Returned, spencerVars
  <2>6. QED BY <2>2, <2>5 DEF spencerVars, SpencerType, BestSound,
              FallbackIsLastResort, BracketHoldsARoot
<1>10. QED
  BY <1>1, <1>2, <1>3, <1>4, <1>5, <1>6, <1>7, <1>8, <1>9
     DEF Next, Load, BuildContext, StartSearch, AlignEndpoints, Spencer, SpencerNext, Finish,
         vars

LEMMA SpencerInvariant == Spec => []SpencerChoice
<1>1. AnswerInv /\ SpencerChoice /\ [Next]_vars => SpencerChoice'
  BY SpencerStep DEF AnswerInv
<1>2. QED BY <1>1, AnswerInvariant, InitialSpencer, PTL DEF Spec

\* No start that did better than the answer is lost among the others, in whatever order
\* the starts come and whichever of them fail.
THEOREM BestStartKept == Spec => []NoBetterStartLost
<1>1. SpencerChoice => NoBetterStartLost
  BY DEF SpencerChoice
<1>2. QED BY <1>1, SpencerInvariant, PTL

\* The fallback to lambda = 0 is reached only with horizontal forces and when every start
\* led nowhere or to a low m_alpha.
THEOREM FallbackLast == Spec => []FallbackIsLastResort
<1>1. SpencerChoice => FallbackIsLastResort
  BY DEF SpencerChoice
<1>2. QED BY <1>1, SpencerInvariant, PTL

\* brentq() is given an interval whose ends differ in sign, however many of the probes in
\* between could not be evaluated: it never raises for its arguments.
THEOREM RootBracketed == Spec => []BracketHoldsARoot
<1>1. SpencerChoice => BracketHoldsARoot
  BY DEF SpencerChoice
<1>2. QED BY <1>1, SpencerInvariant, PTL

-----------------------------------------------------------------------------
(* The faces of the ground.  The directions around a node are in one strict *)
(* order, and no two edges from it lead in the same one: pieces of one      *)
(* segment are told apart along it, and segments that run along each other  *)
(* were refused.  So NextEdge is an injection of the edges into themselves, *)
(* and a walk can only come back to where it began.                         *)

\* What a set is mapped to has no more elements than it, and is finite if it is.
LEMMA ImageFinite ==
  ASSUME NEW S, IsFiniteSet(S), NEW f, DOMAIN f = S
  PROVE  /\ IsFiniteSet({f[x] : x \in S})
         /\ Cardinality({f[x] : x \in S}) <= Cardinality(S)
<1> DEFINE T == {f[x] : x \in S}
           g == [x \in S |-> f[x]]
<1>1. g \in Surjection(S, T)
  BY DEF Surjection
<1>2. QED
  BY <1>1, FS_Surjection

\* A set of natural numbers has a least element.
LEMMA LeastNatural ==
  ASSUME NEW T, T \subseteq Nat, T # {}
  PROVE  \E x \in T : \A y \in T : x <= y
<1> DEFINE R == {ss \in Nat \X Nat : ss[1] < ss[2]}
<1>1. OpToRel(<, Nat) = R
  BY DEF OpToRel
<1>2. IsWellFoundedOn(R, Nat)
  BY <1>1, NatLessThanWellFounded, Zenon
<1> HIDE DEF R
<1>3. PICK x \in T : \A y \in T : ~(<<y, x>> \in R)
  BY <1>2, WFMin, Zenon
<1>4. ASSUME NEW y \in T
      PROVE  x <= y
  <2>1. x \in Nat /\ y \in Nat
    OBVIOUS
  <2>2. <<y, x>> \in R <=> y < x
    BY <2>1 DEF R
  <2>3. QED
    BY <1>3, <2>1, <2>2
<1>5. QED
  BY <1>4

\* The sign of a product.
LEMMA Signs ==
  ASSUME NEW a \in Int, NEW b \in Int
  PROVE  /\ a > 0 /\ b > 0 => a * b > 0
         /\ a < 0 /\ b < 0 => a * b > 0
         /\ a > 0 /\ b < 0 => a * b < 0
         /\ a < 0 /\ b > 0 => a * b < 0
         /\ a * b = 0 => a = 0 \/ b = 0
OBVIOUS

\* Turns to the same side within a half plane add up to one.
LEMMA TurnsAdd ==
  ASSUME NEW a \in Int, NEW b \in Int, NEW c \in Int, NEW d \in Int, NEW e \in Int, NEW f \in Int,
         (b > 0 /\ d > 0 /\ f > 0) \/ (b < 0 /\ d < 0 /\ f < 0),
         a * d - b * c > 0, c * f - d * e > 0
  PROVE  a * f - b * e > 0
<1> DEFINE x == a * d - b * c
           y == c * f - d * e
           z == a * f - b * e
<1>1. x \in Int /\ y \in Int /\ z \in Int
  OBVIOUS
<1>2. d * z = b * y + f * x
  OBVIOUS
<1>3. x > 0 /\ y > 0
  OBVIOUS
<1> HIDE DEF x, y, z
<1>4. CASE b > 0 /\ d > 0 /\ f > 0
  <2>1. b * y > 0 /\ f * x > 0 /\ b * y \in Int /\ f * x \in Int
    BY <1>1, <1>3, <1>4, Signs
  <2>2. d * z > 0
    BY <1>2, <2>1
  <2>3. z > 0
    BY <1>1, <1>4, <2>2, Signs
  <2>4. QED
    BY <2>3 DEF z
<1>5. CASE b < 0 /\ d < 0 /\ f < 0
  <2>1. b * y < 0 /\ f * x < 0 /\ b * y \in Int /\ f * x \in Int
    BY <1>1, <1>3, <1>5, Signs
  <2>2. d * z < 0
    BY <1>2, <2>1
  <2>3. z > 0
    BY <1>1, <1>5, <2>2, Signs
  <2>4. QED
    BY <2>3 DEF z
<1>6. QED
  BY <1>4, <1>5

\* Parallel vectors: the dot products with a third multiply.
LEMMA DotsMultiply ==
  ASSUME NEW a \in Int, NEW b \in Int, NEW c \in Int, NEW d \in Int, NEW e \in Int, NEW f \in Int,
         e * b - f * a = 0
  PROVE  (a * e + b * f) * (c * e + d * f) = (a * c + b * d) * (e * e + f * f)
<1>1. (a * e + b * f) * (c * e + d * f) + (e * b - f * a) * (e * d - f * c)
        = (a * c + b * d) * (e * e + f * f)
  OBVIOUS
<1>2. (e * b - f * a) * (e * d - f * c) = 0
  OBVIOUS
<1>3. QED
  BY <1>1, <1>2

\* Only a vector with no length has no squared length.
LEMMA Squares ==
  ASSUME NEW e \in Int, NEW f \in Int, e # 0 \/ f # 0
  PROVE  e * e + f * f > 0
<1>1. e * e \in Int /\ f * f \in Int /\ e * e >= 0 /\ f * f >= 0
  <2>1. \A x \in Int : x * x >= 0
    <3>1. TAKE x \in Int
    <3>2. CASE x = 0
      BY <3>2
    <3>3. CASE x > 0
      BY <3>3, Signs
    <3>4. CASE x < 0
      BY <3>4, Signs
    <3>5. QED
      BY <3>2, <3>3, <3>4
  <2>2. QED
    BY <2>1
<1>2. e # 0 => e * e # 0
  BY Signs
<1>3. f # 0 => f * f # 0
  BY Signs
<1>4. QED
  BY <1>1, <1>2, <1>3

\* Vectors, and those that point somewhere.
Vectors == Int \X Int
Directions == Vectors \ {<<0, 0>>}

\* u and v point the same way.
SameDirection(u, v) == Cross(u, v) = 0 /\ Dot(u, v) > 0

\* Vectors that are parallel to a third one are parallel.
LEMMA ParallelVectors ==
  ASSUME NEW u \in Vectors, NEW v \in Directions, NEW w \in Vectors,
         Cross(u, v) = 0, Cross(v, w) = 0
  PROVE  Cross(u, w) = 0
<1>1. PICK a \in Int, b \in Int : u = <<a, b>>
  BY DEF Vectors
<1>2. PICK c \in Int, d \in Int : v = <<c, d>> /\ (c # 0 \/ d # 0)
  BY DEF Vectors, Directions
<1>3. PICK e \in Int, f \in Int : w = <<e, f>>
  BY DEF Vectors
<1>4. a * d - b * c = 0 /\ c * f - d * e = 0
  BY <1>1, <1>2, <1>3 DEF Cross
<1> DEFINE z == a * f - b * e
<1>5. z \in Int /\ c * z = 0 /\ d * z = 0
  <2>1. c * z = a * (c * f - d * e) + e * (a * d - b * c)
    OBVIOUS
  <2>2. d * z = b * (c * f - d * e) + f * (a * d - b * c)
    OBVIOUS
  <2>3. QED
    BY <1>4, <2>1, <2>2
<1>6. z = 0
  <2> HIDE DEF z
  <2>1. QED
    BY <1>2, <1>5, Signs
<1>7. QED
  BY <1>1, <1>3, <1>6 DEF Cross

\* Vectors of one direction have coordinates of one sign.
LEMMA OneSign ==
  ASSUME NEW u \in Directions, NEW v \in Vectors, SameDirection(u, v), NEW k \in 1..2
  PROVE  (u[k] > 0 => v[k] > 0) /\ (u[k] < 0 => v[k] < 0)
<1>1. PICK a \in Int, b \in Int : u = <<a, b>> /\ (a # 0 \/ b # 0)
  BY DEF Vectors, Directions
<1>2. PICK c \in Int, d \in Int : v = <<c, d>>
  BY DEF Vectors
<1>3. a * d - b * c = 0 /\ a * c + b * d > 0
  BY <1>1, <1>2 DEF SameDirection, Cross, Dot
<1> DEFINE dot == a * c + b * d
           own == a * a + b * b
<1>4. own \in Int /\ own > 0 /\ dot \in Int /\ dot > 0
  BY <1>1, <1>3, Squares
<1>5. a * dot = c * own + b * (a * d - b * c)
  OBVIOUS
<1>6. b * dot = d * own - a * (a * d - b * c)
  OBVIOUS
<1>7. a * dot = c * own /\ b * dot = d * own
  BY <1>3, <1>5, <1>6
<1> HIDE DEF dot, own
<1>8. (a > 0 => c > 0) /\ (a < 0 => c < 0)
  BY <1>4, <1>7, Signs
<1>9. (b > 0 => d > 0) /\ (b < 0 => d < 0)
  BY <1>4, <1>7, Signs
<1>10. QED
  BY <1>1, <1>2, <1>8, <1>9

\* The order of atan2 is one of directions.
LEMMA AngleOrder ==
  ASSUME NEW u \in Directions, NEW v \in Directions, NEW w \in Directions
  PROVE  /\ ~AngleBefore(u, u)
         /\ AngleBefore(u, v) /\ AngleBefore(v, w) => AngleBefore(u, w)
         /\ AngleBefore(u, v) \/ AngleBefore(v, u) \/ SameDirection(u, v)
<1>1. PICK a \in Int, b \in Int : u = <<a, b>> /\ (a # 0 \/ b # 0)
  BY DEF Vectors, Directions
<1>2. PICK c \in Int, d \in Int : v = <<c, d>> /\ (c # 0 \/ d # 0)
  BY DEF Vectors, Directions
<1>3. PICK e \in Int, f \in Int : w = <<e, f>> /\ (e # 0 \/ f # 0)
  BY DEF Vectors, Directions
<1>4. Quarter(u) \in 0..3 /\ Quarter(v) \in 0..3 /\ Quarter(w) \in 0..3
  BY DEF Quarter
<1>5. Cross(u, u) = 0
  BY <1>1 DEF Cross
<1>6. ASSUME AngleBefore(u, v), AngleBefore(v, w) PROVE AngleBefore(u, w)
  <2>1. CASE Quarter(u) < Quarter(v) \/ Quarter(v) < Quarter(w)
    BY <1>4, <1>6, <2>1 DEF AngleBefore
  <2>2. CASE Quarter(u) = Quarter(v) /\ Quarter(v) = Quarter(w)
    <3>1. a * d - b * c > 0 /\ c * f - d * e > 0
      BY <1>1, <1>2, <1>3, <1>4, <1>6, <2>2 DEF AngleBefore, Cross
    <3>2. (b > 0 /\ d > 0 /\ f > 0) \/ (b < 0 /\ d < 0 /\ f < 0) \/ (b = 0 /\ d = 0)
      BY <1>1, <1>2, <1>3, <2>2 DEF Quarter
    <3>3. ~(b = 0 /\ d = 0)
      BY <3>1
    <3>4. a * f - b * e > 0
      BY <3>1, <3>2, <3>3, TurnsAdd
    <3>5. QED
      BY <1>1, <1>3, <2>2, <3>4 DEF AngleBefore, Cross
  <2>3. QED
    BY <1>4, <1>6, <2>1, <2>2 DEF AngleBefore
<1>7. ASSUME ~AngleBefore(u, v), ~AngleBefore(v, u) PROVE SameDirection(u, v)
  <2>1. Quarter(u) = Quarter(v)
    BY <1>4, <1>7 DEF AngleBefore
  <2>2. a * d - b * c = 0
    <3>1. Cross(u, v) = a * d - b * c /\ Cross(v, u) = c * b - d * a
      BY <1>1, <1>2 DEF Cross
    <3>2. ~(Cross(u, v) > 0) /\ ~(Cross(v, u) > 0)
      BY <1>7, <2>1 DEF AngleBefore
    <3>3. QED
      BY <3>1, <3>2
  <2> DEFINE dot == a * c + b * d
  <2>3. dot > 0
    <3>1. CASE b = 0 /\ d = 0
      <4>1. (a > 0 /\ c > 0) \/ (a < 0 /\ c < 0)
        BY <1>1, <1>2, <2>1, <3>1 DEF Quarter
      <4>2. a * c > 0
        BY <4>1, Signs
      <4>3. QED
        BY <3>1, <4>2
    <3>2. CASE (b > 0 /\ d > 0) \/ (b < 0 /\ d < 0)
      <4> DEFINE own == a * a + b * b
      <4>1. own \in Int /\ own > 0 /\ dot \in Int
        BY <1>1, Squares
      <4>2. b * dot = d * own - a * (a * d - b * c)
        OBVIOUS
      <4>3. b * dot = d * own
        BY <2>2, <4>2
      <4> HIDE DEF dot, own
      <4>4. QED
        BY <3>2, <4>1, <4>3, Signs
    <3>3. QED
      BY <1>1, <1>2, <2>1, <3>1, <3>2 DEF Quarter
  <2>4. QED
    BY <1>1, <1>2, <2>2, <2>3 DEF SameDirection, Cross, Dot
<1>8. QED
  BY <1>4, <1>5, <1>6, <1>7 DEF AngleBefore

\* The order of the neighbours around the node b.
Earlier(n, m, b) == AngleBefore(Minus(n, b), Minus(m, b))

\* Seen from b, the nodes N lie in different directions.
Spread(N, b) ==
  /\ IsFiniteSet(N)
  /\ \A n \in N : Minus(n, b) \in Directions
  /\ \A n, m \in N : n # m => ~SameDirection(Minus(n, b), Minus(m, b))

\* Around a node the order of the neighbours is a strict total one.
LEMMA EarlierOrder ==
  ASSUME NEW N, NEW b, Spread(N, b), NEW n \in N, NEW m \in N, NEW k \in N
  PROVE  /\ ~Earlier(n, n, b)
         /\ Earlier(n, m, b) /\ Earlier(m, k, b) => Earlier(n, k, b)
         /\ n = m \/ Earlier(n, m, b) \/ Earlier(m, n, b)
<1>1. Minus(n, b) \in Directions /\ Minus(m, b) \in Directions /\ Minus(k, b) \in Directions
  BY DEF Spread
<1>2. ~AngleBefore(Minus(n, b), Minus(n, b))
  BY <1>1, AngleOrder
<1>3. AngleBefore(Minus(n, b), Minus(m, b)) /\ AngleBefore(Minus(m, b), Minus(k, b))
        => AngleBefore(Minus(n, b), Minus(k, b))
  BY <1>1, AngleOrder
<1>4. \/ AngleBefore(Minus(n, b), Minus(m, b)) \/ AngleBefore(Minus(m, b), Minus(n, b))
      \/ SameDirection(Minus(n, b), Minus(m, b))
  BY <1>1, AngleOrder
<1>5. QED
  BY <1>2, <1>3, <1>4 DEF Earlier, Spread

\* The last of S around b.
IsLast(n, S, b) == n \in S /\ \A m \in S \ {n} : Earlier(m, n, b)

\* Any of the neighbours have one that comes last.
LEMMA LastExists ==
  ASSUME NEW N, NEW b, Spread(N, b), NEW S \in SUBSET N, S # {}
  PROVE  \E n \in S : IsLast(n, S, b)
<1> DEFINE HasLast(T) == \E n \in T : IsLast(n, T, b)
           Bad == {k \in Nat : \E T \in SUBSET N : T # {} /\ Cardinality(T) = k /\ ~HasLast(T)}
<1>0. \A T \in SUBSET N : IsFiniteSet(T) /\ Cardinality(T) \in Nat
  BY FS_Subset, FS_CardinalityType DEF Spread
<1>1. SUFFICES ASSUME Bad # {} PROVE FALSE
  <2>1. Cardinality(S) \in Nat
    BY <1>0
  <2>2. QED
    BY <1>1, <2>1
<1>2. PICK k \in Bad : \A j \in Bad : k <= j
  <2>1. Bad \subseteq Nat
    OBVIOUS
  <2> HIDE DEF Bad
  <2>2. QED
    BY <1>1, <2>1, LeastNatural
<1>3. PICK T \in SUBSET N : T # {} /\ Cardinality(T) = k /\ ~HasLast(T)
  BY <1>2
<1>4. PICK x \in T : TRUE
  BY <1>3
<1>5. Cardinality(T \ {x}) = k - 1 /\ k - 1 \in Nat /\ k \in Nat
  <2>1. IsFiniteSet(T \ {x}) /\ Cardinality(T \ {x}) = Cardinality(T) - 1
    BY <1>0, <1>4, FS_RemoveElement
  <2>2. QED
    BY <1>3, <2>1, FS_CardinalityType
<1>6. T \ {x} # {}
  <2>1. SUFFICES ASSUME T \ {x} = {} PROVE FALSE
    OBVIOUS
  <2>2. IsLast(x, T, b)
    BY <1>4, <2>1 DEF IsLast
  <2>3. QED
    BY <1>3, <1>4, <2>2
<1>7. k - 1 \notin Bad
  <2> HIDE DEF Bad
  <2>1. QED
    BY <1>2, <1>5
<1>8. PICK z \in T \ {x} : IsLast(z, T \ {x}, b)
  BY <1>5, <1>6, <1>7
<1>9. Earlier(x, z, b) \/ Earlier(z, x, b)
  BY <1>3, <1>4, <1>8, EarlierOrder
<1>10. CASE Earlier(x, z, b)
  <2>1. IsLast(z, T, b)
    BY <1>8, <1>10 DEF IsLast
  <2>2. QED
    BY <1>3, <1>8, <2>1
<1>11. CASE Earlier(z, x, b)
  <2>1. ASSUME NEW m \in T \ {x} PROVE Earlier(m, x, b)
    <3>1. m = z \/ Earlier(m, z, b)
      BY <1>8 DEF IsLast
    <3>2. QED
      BY <1>3, <1>4, <1>8, <1>11, <3>1, EarlierOrder
  <2>2. IsLast(x, T, b)
    BY <1>4, <2>1 DEF IsLast
  <2>3. QED
    BY <1>3, <1>4, <2>2
<1>12. QED
  BY <1>9, <1>10, <1>11

\* The neighbour clockwise-next to a, around b.
Clockwise(N, b, a) ==
  LET before == {n \in N : Earlier(n, a, b)}
      from == IF before # {} THEN before ELSE N
  IN  CHOOSE n \in from : \A m \in from \ {n} : Earlier(m, n, b)

\* It is the last of those before a, or of all if there are none.
LEMMA ClockwiseIsLast ==
  ASSUME NEW N, NEW b, Spread(N, b), NEW a \in N
  PROVE  /\ Clockwise(N, b, a) \in N
         /\ LET before == {n \in N : Earlier(n, a, b)}
            IN  IsLast(Clockwise(N, b, a), IF before # {} THEN before ELSE N, b)
<1> DEFINE before == {n \in N : Earlier(n, a, b)}
           from == IF before # {} THEN before ELSE N
<1>1. from \in SUBSET N /\ from # {}
  OBVIOUS
<1>2. Clockwise(N, b, a) = CHOOSE n \in from : \A m \in from \ {n} : Earlier(m, n, b)
  BY DEF Clockwise
<1> HIDE DEF from
<1>3. \E n \in from : \A m \in from \ {n} : Earlier(m, n, b)
  BY <1>1, LastExists DEF IsLast
<1>4. Clockwise(N, b, a) \in from /\ \A m \in from \ {Clockwise(N, b, a)} : Earlier(m, Clockwise(N, b, a), b)
  BY <1>2, <1>3
<1>5. IsLast(Clockwise(N, b, a), from, b)
  BY <1>4 DEF IsLast
<1>6. QED
  BY <1>1, <1>4, <1>5 DEF from

\* Two neighbours are never next to the same one.
LEMMA ClockwiseDiffers ==
  ASSUME NEW N, NEW b, Spread(N, b), NEW a \in N, NEW c \in N, Earlier(a, c, b)
  PROVE  Clockwise(N, b, a) # Clockwise(N, b, c)
<1>1. SUFFICES ASSUME Clockwise(N, b, a) = Clockwise(N, b, c) PROVE FALSE
  OBVIOUS
<1>2. PICK p \in N : p = Clockwise(N, b, a) /\ p = Clockwise(N, b, c)
  BY <1>1, ClockwiseIsLast
<1>3. IsLast(p, {n \in N : Earlier(n, c, b)}, b)
  <2>1. {n \in N : Earlier(n, c, b)} # {}
    OBVIOUS
  <2>2. QED
    BY <1>2, <2>1, ClockwiseIsLast
<1>4. Earlier(p, c, b) /\ (p = a \/ Earlier(a, p, b))
  BY <1>3 DEF IsLast
<1>5. CASE {n \in N : Earlier(n, a, b)} # {}
  <2>1. IsLast(p, {n \in N : Earlier(n, a, b)}, b)
    BY <1>2, <1>5, ClockwiseIsLast
  <2>2. Earlier(p, a, b)
    BY <2>1 DEF IsLast
  <2>3. QED
    BY <1>2, <1>4, <2>2, EarlierOrder
<1>6. CASE {n \in N : Earlier(n, a, b)} = {}
  <2>1. IsLast(p, N, b)
    BY <1>2, <1>6, ClockwiseIsLast
  <2>2. p = c \/ Earlier(c, p, b)
    BY <2>1 DEF IsLast
  <2>3. QED
    BY <1>2, <1>4, <2>2, EarlierOrder
<1>7. QED
  BY <1>5, <1>6

\* Edges that are there in both directions, those from one node in different directions.
Clear(E) ==
  /\ IsFiniteSet(E)
  /\ \A e \in E : /\ e \in Vectors \X Vectors /\ e[1] # e[2]
                  /\ <<e[2], e[1]>> \in E
  /\ \A e, f \in E : e[1] = f[1] /\ e[2] # f[2] =>
                       ~SameDirection(Minus(e[2], e[1]), Minus(f[2], f[1]))

\* Where the edges from b lead.
Neighbours(E, b) == {f[2] : f \in {f \in E : f[1] = b}}

\* The edge a walk along the edges E takes after e.
Follow(E, e) == <<e[2], Clockwise(Neighbours(E, e[2]), e[2], e[1])>>

\* _build_faces: the traversal takes the edge clockwise-next to the one it came along.
LEMMA NextEdgeIs ==
  ASSUME NEW e
  PROVE  NextEdge(e) = Follow(edges, e)
BY DEF NextEdge, Follow, Clockwise, Neighbours, Earlier

\* The neighbours of a node lie in different directions from it.
LEMMA NeighboursSpread ==
  ASSUME NEW E, Clear(E), NEW b
  PROVE  Spread(Neighbours(E, b), b) /\ \A n : n \in Neighbours(E, b) <=> <<b, n>> \in E
<1>1. \A n : n \in Neighbours(E, b) <=> <<b, n>> \in E
  <2>1. \A f \in E : f = <<f[1], f[2]>>
    <3>1. \A f \in E : f \in Vectors \X Vectors
      BY DEF Clear
    <3>2. QED
      BY <3>1
  <2>2. ASSUME NEW n, <<b, n>> \in E PROVE n \in Neighbours(E, b)
    <3>1. <<b, n>> \in {f \in E : f[1] = b} /\ <<b, n>>[2] = n
      BY <2>2
    <3>2. QED
      BY <3>1 DEF Neighbours
  <2>3. ASSUME NEW n \in Neighbours(E, b) PROVE <<b, n>> \in E
    <3>1. PICK f \in E : f[1] = b /\ f[2] = n
      BY DEF Neighbours
    <3>2. QED
      BY <2>1, <3>1
  <2>4. QED
    BY <2>2, <2>3
<1>2. IsFiniteSet(Neighbours(E, b))
  <2> DEFINE from == {f \in E : f[1] = b}
             to == [f \in from |-> f[2]]
  <2>1. IsFiniteSet(from)
    BY FS_Subset DEF Clear
  <2>2. IsFiniteSet({to[f] : f \in from})
    BY <2>1, ImageFinite
  <2>3. QED
    BY <2>2 DEF Neighbours
<1>3. ASSUME NEW n \in Neighbours(E, b)
      PROVE  Minus(n, b) \in Directions
  <2>1. <<b, n>> \in E
    BY <1>1
  <2>2. n \in Vectors /\ b \in Vectors /\ n # b
    <3>1. <<b, n>> \in Vectors \X Vectors /\ <<b, n>>[1] # <<b, n>>[2]
      BY <2>1 DEF Clear
    <3>2. QED
      BY <3>1
  <2>3. PICK x \in Int, y \in Int, z \in Int, w \in Int : n = <<x, y>> /\ b = <<z, w>>
    BY <2>2 DEF Vectors
  <2>4. Minus(n, b) = <<x - z, y - w>> /\ (x # z \/ y # w)
    BY <2>2, <2>3 DEF Minus
  <2>5. QED
    BY <2>4 DEF Directions, Vectors
<1>4. ASSUME NEW n \in Neighbours(E, b), NEW m \in Neighbours(E, b), n # m
      PROVE  ~SameDirection(Minus(n, b), Minus(m, b))
  <2>1. <<b, n>> \in E /\ <<b, m>> \in E
    BY <1>1
  <2>2. <<b, n>>[1] = b /\ <<b, n>>[2] = n /\ <<b, m>>[1] = b /\ <<b, m>>[2] = m
    OBVIOUS
  <2>3. QED
    BY <1>4, <2>1, <2>2 DEF Clear
<1>5. QED
  BY <1>1, <1>2, <1>3, <1>4 DEF Spread

\* So the walk goes on along an edge, and no two edges go on along the same one.
LEMMA FollowInjective ==
  ASSUME NEW E, Clear(E), NEW e \in E, NEW f \in E
  PROVE  Follow(E, e) \in E /\ (Follow(E, e) = Follow(E, f) => e = f)
<1>1. \A g \in E : g = <<g[1], g[2]>> /\ <<g[2], g[1]>> \in E
  <2>1. TAKE g \in E
  <2>2. g \in Vectors \X Vectors /\ <<g[2], g[1]>> \in E
    BY DEF Clear
  <2>3. g = <<g[1], g[2]>>
    BY <2>2
  <2>4. QED
    BY <2>2, <2>3
<1>2. e[1] \in Neighbours(E, e[2]) /\ f[1] \in Neighbours(E, f[2])
  BY <1>1, NeighboursSpread
<1>3. Clockwise(Neighbours(E, e[2]), e[2], e[1]) \in Neighbours(E, e[2])
  BY <1>2, NeighboursSpread, ClockwiseIsLast
<1>4. Follow(E, e) \in E
  BY <1>3, NeighboursSpread DEF Follow
<1>5. ASSUME Follow(E, e) = Follow(E, f) PROVE e = f
  <2>1. e[2] = f[2] /\ Clockwise(Neighbours(E, e[2]), e[2], e[1]) = Clockwise(Neighbours(E, e[2]), e[2], f[1])
    BY <1>5 DEF Follow
  <2>2. e[1] = f[1] \/ Earlier(e[1], f[1], e[2]) \/ Earlier(f[1], e[1], e[2])
    BY <1>2, <2>1, NeighboursSpread, EarlierOrder
  <2>3. e[1] = f[1]
    BY <1>2, <2>1, <2>2, NeighboursSpread, ClockwiseDiffers
  <2>4. QED
    BY <1>1, <2>1, <2>3
<1>6. QED
  BY <1>4, <1>5

\* p lies on the segment s.
On(p, s) ==
  /\ p \in Vectors
  /\ Cross(Minus(s[2], s[1]), Minus(p, s[1])) = 0
  /\ \A k \in 1..2 : (s[1][k] <= p[k] /\ p[k] <= s[2][k]) \/ (s[2][k] <= p[k] /\ p[k] <= s[1][k])

\* The segments with a length.
Sides == {s \in Vectors \X Vectors : s[1] # s[2]}

\* How far along s the point p lies.
AlongOf(p, s) == Dot(Minus(p, s[1]), Minus(s[2], s[1]))

\* What a difference of points is.
LEMMA Coordinates ==
  ASSUME NEW p \in Vectors, NEW q \in Vectors
  PROVE  /\ Minus(p, q) \in Vectors /\ Minus(p, q) = <<p[1] - q[1], p[2] - q[2]>>
         /\ p = <<p[1], p[2]>> /\ p[1] \in Int /\ p[2] \in Int
         /\ p # q => Minus(p, q) \in Directions
<1>1. PICK x \in Int, y \in Int, z \in Int, w \in Int : p = <<x, y>> /\ q = <<z, w>>
  BY DEF Vectors
<1>2. Minus(p, q) = <<x - z, y - w>> /\ p[1] = x /\ p[2] = y /\ q[1] = z /\ q[2] = w
  BY <1>1 DEF Minus
<1>3. p # q => x - z # 0 \/ y - w # 0
  BY <1>1
<1>4. QED
  BY <1>1, <1>2, <1>3 DEF Vectors, Directions

\* The same by its coordinates, for the provers that see only numbers.
LEMMA Difference ==
  ASSUME NEW p \in Vectors, NEW q \in Vectors
  PROVE  \E e \in Int, f \in Int : Minus(p, q) = <<e, f>> /\ (p # q => e # 0 \/ f # 0)
<1>1. PICK x \in Int, y \in Int, z \in Int, w \in Int : p = <<x, y>> /\ q = <<z, w>>
  BY DEF Vectors
<1>2. Minus(p, q) = <<x - z, y - w>> /\ x - z \in Int /\ y - w \in Int
  BY <1>1 DEF Minus
<1>3. p # q => x - z # 0 \/ y - w # 0
  BY <1>1
<1>4. QED
  BY <1>2, <1>3

\* From one point of a segment to another one goes along it.
LEMMA OnLine ==
  ASSUME NEW s \in Sides, NEW b, On(b, s), NEW n, On(n, s)
  PROVE  /\ Cross(Minus(s[2], s[1]), Minus(n, b)) = 0
         /\ Dot(Minus(n, b), Minus(s[2], s[1])) = AlongOf(n, s) - AlongOf(b, s)
         /\ AlongOf(n, s) \in Int /\ AlongOf(b, s) \in Int
<1>1. s[1] \in Vectors /\ s[2] \in Vectors /\ b \in Vectors /\ n \in Vectors
  BY DEF Sides, On
<1>2. PICK a1 \in Int, a2 \in Int, c1 \in Int, c2 \in Int : s[1] = <<a1, a2>> /\ s[2] = <<c1, c2>>
  BY <1>1 DEF Vectors
<1>3. PICK b1 \in Int, b2 \in Int, n1 \in Int, n2 \in Int : b = <<b1, b2>> /\ n = <<n1, n2>>
  BY <1>1 DEF Vectors
<1>4. PICK d1 \in Int, d2 \in Int : d1 = c1 - a1 /\ d2 = c2 - a2 /\ Minus(s[2], s[1]) = <<d1, d2>>
  BY <1>2 DEF Minus
<1>5. /\ Minus(b, s[1]) = <<b1 - a1, b2 - a2>> /\ Minus(n, s[1]) = <<n1 - a1, n2 - a2>>
      /\ Minus(n, b) = <<n1 - b1, n2 - b2>>
  BY <1>2, <1>3 DEF Minus
<1>6. d1 * (b2 - a2) - d2 * (b1 - a1) = 0 /\ d1 * (n2 - a2) - d2 * (n1 - a1) = 0
  BY <1>4, <1>5 DEF On, Cross
<1>7. d1 * (n2 - b2) - d2 * (n1 - b1) = 0
  <2>1. d1 * (n2 - b2) - d2 * (n1 - b1)
          = (d1 * (n2 - a2) - d2 * (n1 - a1)) - (d1 * (b2 - a2) - d2 * (b1 - a1))
    OBVIOUS
  <2>2. QED
    BY <1>6, <2>1
<1>8. (n1 - b1) * d1 + (n2 - b2) * d2
        = ((n1 - a1) * d1 + (n2 - a2) * d2) - ((b1 - a1) * d1 + (b2 - a2) * d2)
  OBVIOUS
<1>9. QED
  BY <1>4, <1>5, <1>7, <1>8 DEF Cross, Dot, AlongOf

\* Of two points of a segment in one direction neither is nearer only if they are one.
LEMMA SameSegment ==
  ASSUME NEW s \in Sides, NEW b, On(b, s), NEW n, On(n, s), NEW m, On(m, s), b # n, b # m,
         SameDirection(Minus(n, b), Minus(m, b)),
         AlongOf(n, s) # AlongOf(m, s)
  PROVE  \/ AlongOf(b, s) < AlongOf(n, s) /\ AlongOf(n, s) < AlongOf(m, s)
         \/ AlongOf(m, s) < AlongOf(n, s) /\ AlongOf(n, s) < AlongOf(b, s)
         \/ AlongOf(b, s) < AlongOf(m, s) /\ AlongOf(m, s) < AlongOf(n, s)
         \/ AlongOf(n, s) < AlongOf(m, s) /\ AlongOf(m, s) < AlongOf(b, s)
<1>1. s[1] \in Vectors /\ s[2] \in Vectors /\ s[1] # s[2] /\ b \in Vectors /\ n \in Vectors /\ m \in Vectors
  BY DEF Sides, On
<1>2. PICK e \in Int, f \in Int : Minus(s[2], s[1]) = <<e, f>> /\ (e # 0 \/ f # 0)
  BY <1>1, Difference
<1>3. PICK a \in Int, c \in Int : Minus(n, b) = <<a, c>>
  BY <1>1, Difference
<1>4. PICK g \in Int, h \in Int : Minus(m, b) = <<g, h>>
  BY <1>1, Difference
<1>5. e * c - f * a = 0
  BY <1>2, <1>3, OnLine DEF Cross
<1>6. a * g + c * h > 0
  BY <1>3, <1>4 DEF SameDirection, Dot
<1> DEFINE alpha == a * e + c * f
           beta == g * e + h * f
           dot == a * g + c * h
           own == e * e + f * f
<1>7. alpha * beta = dot * own
  BY <1>5, DotsMultiply
<1>8. own > 0 /\ own \in Int /\ dot \in Int /\ dot > 0 /\ alpha \in Int /\ beta \in Int
  BY <1>2, <1>6, Squares
<1>9. alpha = AlongOf(n, s) - AlongOf(b, s) /\ beta = AlongOf(m, s) - AlongOf(b, s)
  BY <1>2, <1>3, <1>4, OnLine DEF Dot
<1> HIDE DEF alpha, beta, dot, own
<1>10. alpha * beta > 0
  BY <1>7, <1>8, Signs
<1>11. (alpha > 0 /\ beta > 0) \/ (alpha < 0 /\ beta < 0)
  BY <1>8, <1>10, Signs
<1>12. AlongOf(n, s) \in Int /\ AlongOf(m, s) \in Int /\ AlongOf(b, s) \in Int
  BY OnLine
<1>13. QED
  BY <1>8, <1>9, <1>11, <1>12

\* Points of one segment are told apart by how far along it they are.
LEMMA AlongTellsApart ==
  ASSUME NEW s \in Sides, NEW n, On(n, s), NEW m, On(m, s), AlongOf(n, s) = AlongOf(m, s)
  PROVE  n = m
<1>1. s[1] \in Vectors /\ s[2] \in Vectors /\ s[1] # s[2] /\ n \in Vectors /\ m \in Vectors
  BY DEF Sides, On
<1>2. PICK e \in Int, f \in Int : Minus(s[2], s[1]) = <<e, f>> /\ (e # 0 \/ f # 0)
  BY <1>1, Difference
<1>3. PICK a \in Int, c \in Int : Minus(n, m) = <<a, c>>
  BY <1>1, Difference
<1>4. e * c - f * a = 0 /\ a * e + c * f = 0
  BY <1>2, <1>3, OnLine DEF Cross, Dot
<1> DEFINE own == e * e + f * f
<1>5. own > 0 /\ own \in Int
  BY <1>2, Squares
<1>6. a * own = e * (a * e + c * f) - f * (e * c - f * a)
  OBVIOUS
<1>7. c * own = f * (a * e + c * f) + e * (e * c - f * a)
  OBVIOUS
<1>8. a * own = 0 /\ c * own = 0
  BY <1>4, <1>6, <1>7
<1> HIDE DEF own
<1>9. a = 0 /\ c = 0
  BY <1>5, <1>8, Signs
<1>10. QED
  BY <1>1, <1>3, <1>9, Coordinates DEF Directions

\* The shadows of two segments that both go from b in one direction overlap.
LEMMA ShadowsOverlap ==
  ASSUME NEW s \in Sides, NEW o \in Sides, NEW b, On(b, s), On(b, o), NEW n, On(n, s), NEW m, On(m, o),
         b # n, SameDirection(Minus(n, b), Minus(m, b))
  PROVE  Greatest(ShadowOverlap(1, s, o), ShadowOverlap(2, s, o)) > 0
<1>1. /\ s[1] \in Vectors /\ s[2] \in Vectors /\ o[1] \in Vectors /\ o[2] \in Vectors
      /\ b \in Vectors /\ n \in Vectors /\ m \in Vectors
  BY DEF Sides, On
<1>2. Minus(n, b) \in Directions /\ Minus(m, b) \in Vectors
  BY <1>1, Coordinates
<1>3. \A k \in 1..2 : Minus(n, b)[k] = n[k] - b[k] /\ Minus(m, b)[k] = m[k] - b[k]
  BY DEF Minus
<1>4. ASSUME NEW k \in 1..2, n[k] # b[k]
      PROVE  ShadowOverlap(k, s, o) > 0
  <2>1. PICK s1 \in Int, s2 \in Int, o1 \in Int, o2 \in Int, bk \in Int, nk \in Int, mk \in Int :
          /\ s[1][k] = s1 /\ s[2][k] = s2 /\ o[1][k] = o1 /\ o[2][k] = o2
          /\ b[k] = bk /\ n[k] = nk /\ m[k] = mk
    <3>1. \A v \in Vectors : v[k] \in Int
      BY DEF Vectors
    <3>2. QED
      BY <1>1, <3>1
  <2>2. (nk - bk > 0 => mk - bk > 0) /\ (nk - bk < 0 => mk - bk < 0) /\ nk # bk
    BY <1>2, <1>3, <1>4, <2>1, OneSign
  <2>3. /\ (s1 <= bk /\ bk <= s2) \/ (s2 <= bk /\ bk <= s1)
        /\ (s1 <= nk /\ nk <= s2) \/ (s2 <= nk /\ nk <= s1)
        /\ (o1 <= bk /\ bk <= o2) \/ (o2 <= bk /\ bk <= o1)
        /\ (o1 <= mk /\ mk <= o2) \/ (o2 <= mk /\ mk <= o1)
    BY <2>1 DEF On
  <2>4. ShadowOverlap(k, s, o) = Least(Greatest(s1, s2), Greatest(o1, o2))
                                   - Greatest(Least(s1, s2), Least(o1, o2))
    BY <2>1 DEF ShadowOverlap
  <2>5. PICK hs \in Int, ls \in Int, ho \in Int, lo \in Int :
          /\ hs = Greatest(s1, s2) /\ ls = Least(s1, s2) /\ ho = Greatest(o1, o2) /\ lo = Least(o1, o2)
    BY DEF Greatest, Least
  <2>6. /\ ls <= bk /\ bk <= hs /\ ls <= nk /\ nk <= hs
        /\ lo <= bk /\ bk <= ho /\ lo <= mk /\ mk <= ho
    BY <2>3, <2>5 DEF Greatest, Least
  <2>7. ShadowOverlap(k, s, o) = Least(hs, ho) - Greatest(ls, lo)
    BY <2>4, <2>5
  <2>8. QED
    BY <2>2, <2>6, <2>7 DEF Greatest, Least
<1>5. n[1] # b[1] \/ n[2] # b[2]
  BY <1>1, Coordinates
<1>6. ShadowOverlap(1, s, o) \in Int /\ ShadowOverlap(2, s, o) \in Int
  <2>1. \A v \in Vectors : v[1] \in Int /\ v[2] \in Int
    BY DEF Vectors
  <2>2. QED
    BY <1>1, <2>1 DEF ShadowOverlap, Least, Greatest
<1>7. QED
  BY <1>4, <1>5, <1>6 DEF Greatest

\* So such segments are refused as overlapping.
LEMMA TwoSegments ==
  ASSUME NEW s \in Sides, NEW o \in Sides, NEW b, On(b, s), On(b, o), NEW n, On(n, s), NEW m, On(m, o),
         b # n, b # m, SameDirection(Minus(n, b), Minus(m, b))
  PROVE  OverlapColinear(s, o)
<1>1. /\ s[1] \in Vectors /\ s[2] \in Vectors /\ o[1] \in Vectors /\ o[2] \in Vectors /\ o[1] # o[2]
      /\ b \in Vectors /\ n \in Vectors /\ m \in Vectors
  BY DEF Sides, On
<1> DEFINE d == Minus(s[2], s[1])
           e == Minus(o[2], o[1])
           u == Minus(n, b)
           v == Minus(m, b)
<1>2. d \in Vectors /\ e \in Directions /\ u \in Directions /\ v \in Directions
  BY <1>1, Coordinates DEF Directions
<1>3. Cross(d, u) = 0 /\ Cross(e, v) = 0 /\ Cross(u, v) = 0
  BY OnLine DEF SameDirection
<1>4. \A x, y \in Vectors : Cross(x, y) = 0 => Cross(y, x) = 0
  <2>1. ASSUME NEW x \in Vectors, NEW y \in Vectors, Cross(x, y) = 0 PROVE Cross(y, x) = 0
    <3>1. PICK x1 \in Int, x2 \in Int, y1 \in Int, y2 \in Int : x = <<x1, x2>> /\ y = <<y1, y2>>
      BY DEF Vectors
    <3>2. x1 * y2 - x2 * y1 = 0
      BY <2>1, <3>1 DEF Cross
    <3>3. y1 * x2 - y2 * x1 = 0
      BY <3>2
    <3>4. QED
      BY <3>1, <3>3 DEF Cross
  <2>2. QED
    BY <2>1
<1>5. Directions \subseteq Vectors
  BY DEF Directions
<1>6. Cross(d, e) = 0
  <2> HIDE DEF d, e, u, v
  <2>1. Cross(d, v) = 0
    BY <1>2, <1>3, <1>5, ParallelVectors
  <2>2. Cross(v, e) = 0
    BY <1>2, <1>3, <1>4, <1>5
  <2>3. QED
    BY <1>2, <1>5, <2>1, <2>2, ParallelVectors
<1>7. Cross(d, Minus(b, s[1])) = 0 /\ Cross(e, Minus(b, o[1])) = 0
  BY DEF On
<1>8. Cross(d, Minus(b, o[1])) = 0
  <2>1. Minus(b, o[1]) \in Vectors
    BY <1>1, Coordinates
  <2> HIDE DEF d, e
  <2>2. QED
    BY <1>2, <1>5, <1>6, <1>7, <2>1, ParallelVectors
<1>9. Cross(d, Minus(o[1], s[1])) = 0 /\ Cross(d, Minus(o[2], s[1])) = 0
  <2>1. PICK d1 \in Int, d2 \in Int : d = <<d1, d2>>
    BY <1>1, Difference
  <2> HIDE DEF d
  <2>2. PICK b1 \in Int, b2 \in Int, s1 \in Int, s2 \in Int : b = <<b1, b2>> /\ s[1] = <<s1, s2>>
    BY <1>1 DEF Vectors
  <2>3. PICK o1 \in Int, o2 \in Int, p1 \in Int, p2 \in Int : o[1] = <<o1, o2>> /\ o[2] = <<p1, p2>>
    BY <1>1 DEF Vectors
  <2>4. /\ d1 * (b2 - s2) - d2 * (b1 - s1) = 0 /\ d1 * (b2 - o2) - d2 * (b1 - o1) = 0
        /\ d1 * (p2 - o2) - d2 * (p1 - o1) = 0
    BY <1>6, <1>7, <1>8, <2>1, <2>2, <2>3 DEF Cross, Minus
  <2>5. d1 * (o2 - s2) - d2 * (o1 - s1)
          = (d1 * (b2 - s2) - d2 * (b1 - s1)) - (d1 * (b2 - o2) - d2 * (b1 - o1))
    OBVIOUS
  <2>6. d1 * (p2 - s2) - d2 * (p1 - s1)
          = (d1 * (p2 - o2) - d2 * (p1 - o1)) + (d1 * (o2 - s2) - d2 * (o1 - s1))
    OBVIOUS
  <2>7. d1 * (o2 - s2) - d2 * (o1 - s1) = 0 /\ d1 * (p2 - s2) - d2 * (p1 - s1) = 0
    BY <2>4, <2>5, <2>6
  <2>8. QED
    BY <2>1, <2>2, <2>3, <2>7 DEF Cross, Minus
<1>10. Greatest(ShadowOverlap(1, s, o), ShadowOverlap(2, s, o)) > 0
  BY ShadowsOverlap
<1>11. QED
  BY <1>9, <1>10 DEF OverlapColinear

\* A remainder.
LEMMA Remainder ==
  ASSUME NEW i \in Int, NEW n \in Nat \ {0}
  PROVE  (i % n) \in 0..(n - 1)
OBVIOUS

\* The segments of a line join points of the ground's grid, and are finitely many.
LEMMA LineFacts ==
  ASSUME NEW input \in SoilsInput, NEW l \in 0..Len(input.boundaries)
  PROVE  /\ IsFiniteSet(DOMAIN LineSegments(input, l))
         /\ \A i \in DOMAIN LineSegments(input, l) :
               LineSegments(input, l)[i] \in Points \X Points
<1>1. input.external \in Seq(Points) /\ input.boundaries \in Seq(Seq(Points))
  BY DEF SoilsInput
<1>2. CASE l = 0
  <2> DEFINE ring == input.external
  <2>1. Len(ring) \in Nat /\ \A i \in 1..Len(ring) : ring[i] \in Points
    BY <1>1
  <2>3. LineSegments(input, l) = Ring(ring)
    BY <1>2 DEF LineSegments
  <2> HIDE DEF ring
  <2>2. \A i \in 1..Len(ring) : 1 + (i % Len(ring)) \in 1..Len(ring)
    <3> SUFFICES ASSUME NEW i \in 1..Len(ring) PROVE 1 + (i % Len(ring)) \in 1..Len(ring)
      OBVIOUS
    <3>1. Len(ring) \in Nat \ {0}
      BY <2>1
    <3>2. (i % Len(ring)) \in 0..(Len(ring) - 1)
      <4>1. i \in Int
        BY <3>1
      <4> DEFINE m == Len(ring)
      <4>2. m \in Nat \ {0}
        BY <3>1
      <4> HIDE DEF m
      <4>3. (i % m) \in 0..(m - 1)
        BY <4>1, <4>2, Remainder
      <4>4. QED
        BY <4>3 DEF m
    <3> DEFINE r == i % Len(ring)
    <3>3. r \in 0..(Len(ring) - 1)
      BY <3>2
    <3> HIDE DEF r
    <3>4. 1 + r \in 1..Len(ring)
      BY <3>1, <3>3
    <3>5. QED
      BY <3>4 DEF r
  <2>4. DOMAIN Ring(ring) = 1..Len(ring)
    BY DEF Ring
  <2>5. \A i \in 1..Len(ring) : Ring(ring)[i] \in Points \X Points
    BY <2>1, <2>2 DEF Ring
  <2>6. IsFiniteSet(1..Len(ring))
    BY <2>1, FS_Interval
  <2>7. QED
    BY <2>3, <2>4, <2>5, <2>6
<1>3. CASE l # 0
  <2> DEFINE line == input.boundaries[l]
  <2>1. line \in Seq(Points)
    BY <1>1, <1>3
  <2> HIDE DEF line
  <2>2. LineSegments(input, l) = Segments(line)
    BY <1>3 DEF LineSegments, line
  <2>3. DOMAIN Segments(line) = 1..(Len(line) - 1) /\ Len(line) \in Nat
    BY <2>1 DEF Segments
  <2>4. \A i \in 1..(Len(line) - 1) : Segments(line)[i] \in Points \X Points
    BY <2>1 DEF Segments
  <2>5. IsFiniteSet(1..(Len(line) - 1))
    BY <2>3, FS_Interval
  <2>6. QED
    BY <2>2, <2>3, <2>4, <2>5
<1>4. QED
  BY <1>2, <1>3

\* What the arrangement starts from is finitely many segments with a length.
LEMMA RawFacts ==
  ASSUME NEW input \in SoilsInput
  PROVE  /\ IsFiniteSet(DOMAIN RawSegments(input))
         /\ IsFiniteSet(Elements(RawSegments(input)))
         /\ Elements(RawSegments(input)) \subseteq Sides
<1> DEFINE n == Len(input.boundaries)
           Places(l) == {l} \X DOMAIN LineSegments(input, l)
           f == [l \in 0..n |-> Places(l)]
           places == UNION {Places(l) : l \in 0..n}
           raw == RawSegments(input)
<1>1. n \in Nat
  BY DEF SoilsInput
<1>2. \A l \in 0..n : IsFiniteSet(Places(l))
  BY LineFacts, FS_Product, FS_Singleton
<1>3. IsFiniteSet(0..n)
  BY <1>1, FS_Interval
<1>4. IsFiniteSet({Places(l) : l \in 0..n})
  <2> HIDE DEF n, Places
  <2>1. DOMAIN f = 0..n /\ {f[l] : l \in 0..n} = {Places(l) : l \in 0..n}
    OBVIOUS
  <2> HIDE DEF f
  <2>2. QED
    BY <1>3, <2>1, ImageFinite
<1>5. IsFiniteSet(places)
  <2> HIDE DEF n, Places
  <2>1. QED
    BY <1>2, <1>4, FS_UNION
<1>6. DOMAIN raw = {k \in places : HasLength(LineSegments(input, k[1])[k[2]])}
  BY DEF RawSegments
<1>7. IsFiniteSet(DOMAIN raw)
  <2> HIDE DEF places, raw
  <2>1. DOMAIN raw \in SUBSET places
    BY <1>6
  <2>2. QED
    BY <1>5, <2>1, FS_Subset
<1>8. \A k \in DOMAIN raw : raw[k] \in Sides
  <2> SUFFICES ASSUME NEW k \in DOMAIN raw PROVE raw[k] \in Sides
    OBVIOUS
  <2>a. k \in places
    <3> HIDE DEF places, raw
    <3>1. QED
      BY <1>6
  <2>b. PICK l \in 0..n : k \in {l} \X DOMAIN LineSegments(input, l)
    BY <2>a
  <2>1. PICK i \in DOMAIN LineSegments(input, l) : k = <<l, i>>
    BY <2>b
  <2>2. raw[k] = LineSegments(input, l)[i] /\ HasLength(raw[k])
    BY <1>6, <2>1 DEF RawSegments
  <2>3. raw[k] \in Points \X Points
    BY <2>2, LineFacts
  <2> HIDE DEF raw
  <2>4. QED
    BY <2>2, <2>3 DEF Sides, HasLength, Points, Vectors
<1>9. QED
  <2> HIDE DEF raw
  <2>1. Elements(raw) = {raw[k] : k \in DOMAIN raw}
    BY DEF Elements
  <2>2. QED
    BY <1>7, <1>8, <2>1, ImageFinite DEF raw

\* A division without remainder.
LEMMA Quotient ==
  ASSUME NEW x \in Int, NEW d \in Int, d > 0, x % d = 0
  PROVE  x \div d \in Int /\ d * (x \div d) = x
OBVIOUS

\* A proper fraction of a length.
LEMMA Fraction ==
  ASSUME NEW e \in Int, NEW t \in Int, NEW d \in Int, NEW q \in Int, d > 0, 0 <= t, t <= d, d * q = t * e
  PROVE  (0 <= q /\ q <= e) \/ (e <= q /\ q <= 0)
<1>1. e >= 0 => q >= 0
  <2> SUFFICES ASSUME e >= 0, q < 0 PROVE FALSE
    OBVIOUS
  <2>1. d * q < 0
    BY Signs
  <2>2. t * e >= 0
    OBVIOUS
  <2>3. QED
    BY <2>1, <2>2
<1>2. e <= 0 => q <= 0
  <2> SUFFICES ASSUME e <= 0, q > 0 PROVE FALSE
    OBVIOUS
  <2>1. d * q > 0
    BY Signs
  <2>2. t * e <= 0
    OBVIOUS
  <2>3. QED
    BY <2>1, <2>2
<1>3. d * (e - q) = (d - t) * e
  <2>1. d * (e - q) = d * e - d * q /\ (d - t) * e = d * e - t * e
    OBVIOUS
  <2>2. QED
    BY <2>1
<1>4. e >= 0 => q <= e
  <2> SUFFICES ASSUME e >= 0, q > e PROVE FALSE
    OBVIOUS
  <2>1. d * (e - q) < 0
    BY Signs
  <2>2. (d - t) * e >= 0
    <3>1. d - t \in Int /\ d - t >= 0
      OBVIOUS
    <3> DEFINE c == d - t
    <3>2. c * e >= 0
      <4>1. c \in Int /\ c >= 0
        BY <3>1
      <4> HIDE DEF c
      <4>2. c = 0 \/ e = 0 \/ (c > 0 /\ e > 0)
        BY <4>1
      <4>3. QED
        BY <4>1, <4>2, Signs
    <3>3. QED
      BY <3>2
  <2>3. QED
    BY <2>1, <2>2, <1>3
<1>5. e <= 0 => q >= e
  <2> SUFFICES ASSUME e <= 0, q < e PROVE FALSE
    OBVIOUS
  <2>1. d * (e - q) > 0
    BY Signs
  <2>2. (d - t) * e <= 0
    <3>1. d - t \in Int /\ d - t >= 0
      OBVIOUS
    <3> DEFINE c == d - t
    <3>2. c * e <= 0
      <4>1. c \in Int /\ c >= 0
        BY <3>1
      <4> HIDE DEF c
      <4>2. c = 0 \/ e = 0 \/ (c > 0 /\ e < 0)
        BY <4>1
      <4>3. QED
        BY <4>1, <4>2, Signs
    <3>3. QED
      BY <3>2
  <2>3. QED
    BY <2>1, <2>2, <1>3
<1>6. QED
  BY <1>1, <1>2, <1>4, <1>5

\* The ends of a segment are on it.
LEMMA EndsOn ==
  ASSUME NEW s \in Sides
  PROVE  On(s[1], s) /\ On(s[2], s)
<1>1. PICK x \in Int, y \in Int, z \in Int, w \in Int : s = <<<<x, y>>, <<z, w>>>>
  BY DEF Sides, Vectors
<1>2. s[1] = <<x, y>> /\ s[2] = <<z, w>> /\ s[1] \in Vectors /\ s[2] \in Vectors
  BY <1>1 DEF Vectors
<1>3. Minus(s[2], s[1]) = <<z - x, w - y>> /\ Minus(s[1], s[1]) = <<0, 0>>
  BY <1>2 DEF Minus
<1>4. Cross(<<z - x, w - y>>, <<0, 0>>) = 0 /\ Cross(<<z - x, w - y>>, <<z - x, w - y>>) = 0
  BY DEF Cross
<1>5. \A k \in 1..2 : s[1][k] \in Int /\ s[2][k] \in Int
  BY <1>2
<1>6. QED
  BY <1>2, <1>3, <1>4, <1>5 DEF On

\* A crossing is on the segment.
LEMMA CrossingOn ==
  ASSUME NEW s \in Sides, NEW t \in Int, NEW d \in Int, d > 0, 0 <= t, t <= d,
         \A k \in 1..2 : (t * (s[2][k] - s[1][k])) % d = 0
  PROVE  On(PointAt(s, t, d), s)
<1>1. PICK x \in Int, y \in Int, z \in Int, w \in Int : s = <<<<x, y>>, <<z, w>>>>
  BY DEF Sides, Vectors
<1> DEFINE e == z - x
           f == w - y
           q == (t * e) \div d
           r == (t * f) \div d
<1>2. s[1] = <<x, y>> /\ s[2] = <<z, w>>
  BY <1>1
<1>3. e \in Int /\ f \in Int /\ (t * e) % d = 0 /\ (t * f) % d = 0
  BY <1>2
<1>4. PointAt(s, t, d) = <<x + q, y + r>>
  BY <1>2 DEF PointAt
<1> HIDE DEF e, f
<1>5. t * e \in Int /\ t * f \in Int
  BY <1>3
<1>6. q \in Int /\ d * q = t * e /\ r \in Int /\ d * r = t * f
  BY <1>3, <1>5, Quotient
<1> HIDE DEF q, r
<1>7. (0 <= q /\ q <= e) \/ (e <= q /\ q <= 0)
  BY <1>3, <1>6, Fraction
<1>8. (0 <= r /\ r <= f) \/ (f <= r /\ r <= 0)
  BY <1>3, <1>6, Fraction
<1>9. e * r - f * q = 0
  <2>1. d * (e * r - f * q) = e * (d * r) - f * (d * q)
    BY <1>3, <1>6
  <2>2. e * (t * f) - f * (t * e) = 0
    BY <1>3
  <2>3. d * (e * r - f * q) = 0
    BY <2>1, <2>2, <1>6
  <2>4. e * r - f * q \in Int
    BY <1>3, <1>6
  <2>5. QED
    BY <2>3, <2>4, Signs
<1>10. Minus(s[2], s[1]) = <<e, f>> /\ Minus(<<x + q, y + r>>, s[1]) = <<q, r>>
  BY <1>2, <1>6 DEF Minus, e, f
<1>11. Cross(<<e, f>>, <<q, r>>) = 0
  BY <1>9 DEF Cross
<1>12. <<x + q, y + r>> \in Vectors
  BY <1>6 DEF Vectors
<1>13. (x <= x + q /\ x + q <= z) \/ (z <= x + q /\ x + q <= x)
  BY <1>6, <1>7 DEF e
<1>14. (y <= y + r /\ y + r <= w) \/ (w <= y + r /\ y + r <= y)
  BY <1>6, <1>8 DEF f
<1>15. \A k \in 1..2 : k = 1 \/ k = 2
  OBVIOUS
<1>16. QED
  BY <1>2, <1>4, <1>10, <1>11, <1>12, <1>13, <1>14, <1>15 DEF On

\* Two segments meet in one point at most, at a parameter between 0 and 1.
LEMMA MeetingFacts ==
  ASSUME NEW s \in Sides, NEW o \in Sides
  PROVE  /\ IsFiniteSet(Meeting(s, o))
         /\ \A m \in Meeting(s, o) : /\ m.t \in Int /\ m.den \in Int
                                     /\ m.den > 0 /\ 0 <= m.t /\ m.t <= m.den
<1> DEFINE r == Minus(s[2], s[1])
           v == Minus(o[2], o[1])
           q == Minus(o[1], s[1])
           den == Cross(r, v)
           sign == IF den < 0 THEN -1 ELSE 1
           found == [t |-> sign * Cross(q, v), u |-> sign * Cross(q, r), den |-> sign * den]
<1>1. r \in Vectors /\ v \in Vectors /\ q \in Vectors
  BY Coordinates DEF Sides
<1>2. den \in Int /\ Cross(q, v) \in Int
  <2> HIDE DEF r, v, q
  <2>1. QED
    BY <1>1 DEF Cross, Vectors
<1>3. Meeting(s, o) = IF den # 0 /\ found.t \in 0..found.den /\ found.u \in 0..found.den
                      THEN {found} ELSE {}
  BY DEF Meeting
<1> HIDE DEF r, v, q, den
<1>4. found.den \in Int /\ (den # 0 => found.den > 0)
  BY <1>2
<1>5. found.t = sign * Cross(q, v) /\ found.den = sign * den
  OBVIOUS
<1> HIDE DEF found
<1>6. IsFiniteSet({found}) /\ IsFiniteSet({})
  BY FS_Singleton, FS_EmptySet
<1>7. IsFiniteSet(Meeting(s, o))
  BY <1>3, <1>6
<1>8. \A m \in Meeting(s, o) : m = found /\ den # 0 /\ found.t \in 0..found.den
  BY <1>3
<1>9. \A m \in Meeting(s, o) : /\ m.t \in Int /\ m.den \in Int
                               /\ m.den > 0 /\ 0 <= m.t /\ m.t <= m.den
  BY <1>4, <1>8
<1>10. QED
  BY <1>7, <1>9

\* The same of the input that is built.
LEMMA RawSides ==
  ASSUME soils \in SoilInputs
  PROVE  IsFiniteSet(Raw) /\ Raw \subseteq Sides
BY SoilInputsAssumption, RawFacts DEF Raw

\* _split_segments: a segment is split in finitely many points, all of them on it.
LEMMA SplitFacts ==
  ASSUME soils \in SoilInputs, NEW s \in Raw
  PROVE  IsFiniteSet(SplitPoints(s)) /\ \A p \in SplitPoints(s) : On(p, s)
<1> DEFINE Crossings(o) == {PointAt(s, m.t, m.den) : m \in Meeting(s, o)}
           others == Raw \ {s}
<1>1. IsFiniteSet(others) /\ s \in Sides /\ others \subseteq Sides
  BY RawSides, FS_Difference
<1>2. Elements(s) = {s[1], s[2]}
  <2>1. PICK a \in Vectors, b \in Vectors : s = <<a, b>>
    BY <1>1 DEF Sides
  <2>2. QED
    BY <2>1 DEF Elements
<1>3. IsFiniteSet(Elements(s))
  <2>1. IsFiniteSet({s[1]}) /\ IsFiniteSet({s[2]})
    BY FS_Singleton
  <2>2. IsFiniteSet({s[1]} \cup {s[2]}) /\ {s[1]} \cup {s[2]} = {s[1], s[2]}
    BY <2>1, FS_Union
  <2>3. QED
    BY <1>2, <2>2
<1>4. ASSUME NEW o \in others PROVE IsFiniteSet(Crossings(o))
  <2> DEFINE f == [m \in Meeting(s, o) |-> PointAt(s, m.t, m.den)]
  <2>1. DOMAIN f = Meeting(s, o) /\ {f[m] : m \in Meeting(s, o)} = Crossings(o)
    OBVIOUS
  <2>2. IsFiniteSet(Meeting(s, o))
    BY <1>1, MeetingFacts
  <2> HIDE DEF f, Crossings
  <2>3. QED
    BY <2>1, <2>2, ImageFinite
<1>5. IsFiniteSet({Crossings(o) : o \in others})
  <2> DEFINE f == [o \in others |-> Crossings(o)]
  <2> HIDE DEF others, Crossings
  <2>1. DOMAIN f = others /\ {f[o] : o \in others} = {Crossings(o) : o \in others}
    OBVIOUS
  <2> HIDE DEF f
  <2>2. QED
    BY <1>1, <2>1, ImageFinite
<1>6. SplitPoints(s) = Elements(s) \cup UNION {Crossings(o) : o \in others}
  BY DEF SplitPoints
<1>7. IsFiniteSet(SplitPoints(s))
  <2> HIDE DEF others, Crossings
  <2>1. IsFiniteSet(UNION {Crossings(o) : o \in others})
    BY <1>4, <1>5, FS_UNION
  <2>2. QED
    BY <1>3, <1>6, <2>1, FS_Union
<1>8. ASSUME NEW o \in others, NEW m \in Meeting(s, o) PROVE On(PointAt(s, m.t, m.den), s)
  <2>1. /\ m.t \in Int /\ m.den \in Int /\ m.den > 0 /\ 0 <= m.t /\ m.t <= m.den
    BY <1>1, MeetingFacts
  <2>2. \A k \in 1..2 : (m.t * (s[2][k] - s[1][k])) % m.den = 0
    BY GridAssumption DEF Raw
  <2>3. QED
    BY <1>1, <2>1, <2>2, CrossingOn
<1>9. \A p \in SplitPoints(s) : On(p, s)
  <2>1. \A p \in Elements(s) : On(p, s)
    BY <1>1, <1>2, EndsOn
  <2>2. \A o \in others : \A p \in Crossings(o) : On(p, s)
    BY <1>8
  <2> HIDE DEF others, Crossings
  <2>3. QED
    BY <1>6, <2>1, <2>2
<1>10. QED
  BY <1>7, <1>9

\* The pieces of a segment join neighbouring split points, in both directions.
LEMMA PieceFacts ==
  ASSUME soils \in SoilInputs, NEW s \in Raw
  PROVE  /\ IsFiniteSet(Pieces(s))
         /\ \A e \in Pieces(s) :
               /\ e \in Vectors \X Vectors /\ e[1] # e[2]
               /\ On(e[1], s) /\ On(e[2], s)
               /\ <<e[2], e[1]>> \in Pieces(s)
               /\ e[1] \in SplitPoints(s) /\ e[2] \in SplitPoints(s)
               /\ \A p \in SplitPoints(s) :
                     /\ ~(AlongOf(e[1], s) < AlongOf(p, s) /\ AlongOf(p, s) < AlongOf(e[2], s))
                     /\ ~(AlongOf(e[2], s) < AlongOf(p, s) /\ AlongOf(p, s) < AlongOf(e[1], s))
<1> DEFINE points == SplitPoints(s)
           Between(p, a, b) == AlongOf(a, s) < AlongOf(p, s) /\ AlongOf(p, s) < AlongOf(b, s)
<1>1. Pieces(s) = {e \in points \X points :
                      /\ e[1] # e[2]
                      /\ ~\E p \in points : Between(p, e[1], e[2]) \/ Between(p, e[2], e[1])}
  BY DEF Pieces, AlongOf
<1>2. IsFiniteSet(points) /\ \A p \in points : On(p, s) /\ p \in Vectors
  BY SplitFacts DEF On
<1> HIDE DEF points
<1>3. IsFiniteSet(Pieces(s))
  <2>1. IsFiniteSet(points \X points)
    BY <1>2, FS_Product
  <2>2. Pieces(s) \in SUBSET (points \X points)
    BY <1>1
  <2>3. QED
    BY <2>1, <2>2, FS_Subset
<1>4. ASSUME NEW e \in Pieces(s)
      PROVE  /\ e \in Vectors \X Vectors /\ e[1] # e[2]
             /\ On(e[1], s) /\ On(e[2], s)
             /\ <<e[2], e[1]>> \in Pieces(s)
             /\ e[1] \in points /\ e[2] \in points
             /\ \A p \in points : ~Between(p, e[1], e[2]) /\ ~Between(p, e[2], e[1])
  <2> HIDE DEF Between
  <2>1. PICK a \in points, b \in points : e = <<a, b>>
    BY <1>1
  <2>2. e[1] = a /\ e[2] = b /\ a # b
        /\ \A p \in points : ~Between(p, a, b) /\ ~Between(p, b, a)
    BY <1>1, <2>1
  <2>3. <<b, a>> \in Pieces(s)
    BY <1>1, <2>2
  <2>4. QED
    BY <1>2, <2>1, <2>2, <2>3
<1>5. QED
  BY <1>3, <1>4 DEF points

\* Two pieces from one point lead in different directions or to one point.
LEMMA PiecesClear ==
  ASSUME soils \in SoilInputs, ~Overlapping, NEW s \in Raw, NEW o \in Raw,
         NEW e \in Pieces(s), NEW f \in Pieces(o), e[1] = f[1], e[2] # f[2]
  PROVE  ~SameDirection(Minus(e[2], e[1]), Minus(f[2], f[1]))
<1> DEFINE b == e[1]
           n == e[2]
           m == f[2]
<1> SUFFICES ASSUME SameDirection(Minus(n, b), Minus(m, b)) PROVE FALSE
  OBVIOUS
<1>1. s \in Sides /\ o \in Sides
  BY RawSides
<1>2. On(b, s) /\ On(b, o) /\ On(n, s) /\ On(m, o) /\ b # n /\ b # m
  BY PieceFacts
<1>3. CASE s = o
  <2>1. b \in SplitPoints(s) /\ n \in SplitPoints(s) /\ m \in SplitPoints(s)
    BY <1>3, PieceFacts
  <2>2. AlongOf(n, s) # AlongOf(m, s)
    BY <1>1, <1>2, <1>3, AlongTellsApart
  <2>3. \/ AlongOf(b, s) < AlongOf(n, s) /\ AlongOf(n, s) < AlongOf(m, s)
        \/ AlongOf(m, s) < AlongOf(n, s) /\ AlongOf(n, s) < AlongOf(b, s)
        \/ AlongOf(b, s) < AlongOf(m, s) /\ AlongOf(m, s) < AlongOf(n, s)
        \/ AlongOf(n, s) < AlongOf(m, s) /\ AlongOf(m, s) < AlongOf(b, s)
    <3> HIDE DEF b, n, m
    <3>1. QED
      BY <1>1, <1>2, <1>3, <2>2, SameSegment
  <2>4. /\ ~(AlongOf(b, s) < AlongOf(m, s) /\ AlongOf(m, s) < AlongOf(n, s))
        /\ ~(AlongOf(n, s) < AlongOf(m, s) /\ AlongOf(m, s) < AlongOf(b, s))
    BY <2>1, PieceFacts
  <2>5. /\ ~(AlongOf(b, s) < AlongOf(n, s) /\ AlongOf(n, s) < AlongOf(m, s))
        /\ ~(AlongOf(m, s) < AlongOf(n, s) /\ AlongOf(n, s) < AlongOf(b, s))
    BY <1>3, <2>1, PieceFacts
  <2>6. QED
    BY <2>3, <2>4, <2>5
<1>4. CASE s # o
  <2>1. OverlapColinear(s, o)
    <3> HIDE DEF b, n, m
    <3>1. QED
      BY <1>1, <1>2, TwoSegments
  <2>2. PICK i \in DOMAIN RawSegments(soils), j \in DOMAIN RawSegments(soils) :
          s = RawSegments(soils)[i] /\ o = RawSegments(soils)[j]
    BY DEF Raw, Elements
  <2>3. Overlapping
    BY <1>4, <2>1, <2>2 DEF Overlapping
  <2>4. QED
    BY <2>3
<1>5. QED
  BY <1>3, <1>4

\* What the arrangement gives the walks.
LEMMA ArrangementClear ==
  ASSUME soils \in SoilInputs, ~Overlapping
  PROVE  Clear(UNION {Pieces(s) : s \in Raw})
<1> DEFINE cut == UNION {Pieces(s) : s \in Raw}
<1>1. IsFiniteSet(cut)
  <2> DEFINE f == [s \in Raw |-> Pieces(s)]
  <2>1. DOMAIN f = Raw /\ {f[s] : s \in Raw} = {Pieces(s) : s \in Raw}
    OBVIOUS
  <2>2. IsFiniteSet(Raw)
    BY RawSides
  <2> HIDE DEF f
  <2>3. IsFiniteSet({Pieces(s) : s \in Raw})
    BY <2>1, <2>2, ImageFinite
  <2>4. \A T \in {Pieces(s) : s \in Raw} : IsFiniteSet(T)
    BY PieceFacts
  <2>5. QED
    BY <2>3, <2>4, FS_UNION
<1>2. \A e \in cut : \E s \in Raw : e \in Pieces(s)
  OBVIOUS
<1>3. \A s \in Raw : Pieces(s) \subseteq cut
  OBVIOUS
<1> HIDE DEF cut, Clear
<1>4. \A e \in cut : /\ e \in Vectors \X Vectors /\ e[1] # e[2]
                     /\ <<e[2], e[1]>> \in cut
  BY <1>2, <1>3, PieceFacts
<1>5. \A e, f \in cut : e[1] = f[1] /\ e[2] # f[2] =>
                          ~SameDirection(Minus(e[2], e[1]), Minus(f[2], f[1]))
  BY <1>2, PiecesClear
<1>6. QED
  BY <1>1, <1>4, <1>5 DEF cut, Clear

\* The walk w along the edges E goes on as it must and enters no edge twice and none of v;
\* the edges of v follow one another.
WalkState(E, w, v) ==
  /\ w \in Seq(E)
  /\ \A i \in 1..(Len(w) - 1) : w[i + 1] = Follow(E, w[i])
  /\ \A i, j \in 1..Len(w) : w[i] = w[j] => i = j
  /\ v \subseteq E
  /\ \A i \in 1..Len(w) : w[i] \notin v
  /\ \A e \in v : \E f \in v : Follow(E, f) = e

\* _build_faces: a walk starts at an edge that was not walked.
LEMMA WalkStarts ==
  ASSUME NEW E, NEW v, WalkState(E, <<>>, v), NEW start \in E \ v
  PROVE  WalkState(E, <<start>>, v)
BY DEF WalkState

\* It goes on along an edge that is neither in it nor in another face.
LEMMA WalkGoesOn ==
  ASSUME NEW E, Clear(E), NEW w, NEW v, WalkState(E, w, v), w # <<>>,
         Follow(E, Last(w)) # w[1]
  PROVE  WalkState(E, Append(w, Follow(E, Last(w))), v)
<1> DEFINE n == Len(w)
           next == Follow(E, Last(w))
           longer == Append(w, next)
<1>1. w \in Seq(E) /\ n \in Nat /\ n > 0 /\ Last(w) = w[n] /\ w[n] \in E
  BY DEF WalkState, Last
<1>2. next \in E
  BY <1>1, FollowInjective
<1>3. \A j \in 1..n : w[j] # next
  <2> SUFFICES ASSUME NEW j \in 1..n, w[j] = next PROVE FALSE
    OBVIOUS
  <2>1. j # 1
    OBVIOUS
  <2>2. j - 1 \in 1..(n - 1) /\ (j - 1) + 1 = j
    BY <1>1, <2>1
  <2>3. w[j] = Follow(E, w[j - 1]) /\ w[j - 1] \in E
    BY <1>1, <2>2 DEF WalkState
  <2>4. w[j - 1] = w[n]
    BY <1>1, <2>3, FollowInjective
  <2>5. j - 1 = n
    BY <1>1, <2>2, <2>4 DEF WalkState
  <2>6. QED
    BY <2>2, <2>5
<1>4. next \notin v
  <2> SUFFICES ASSUME next \in v PROVE FALSE
    OBVIOUS
  <2>1. PICK f \in v : Follow(E, f) = next
    BY DEF WalkState
  <2>2. f \in E
    BY DEF WalkState
  <2>3. f = w[n]
    BY <1>1, <2>1, <2>2, FollowInjective
  <2>4. QED
    BY <1>1, <2>3 DEF WalkState
<1> HIDE DEF next
<1>5. /\ longer \in Seq(E) /\ Len(longer) = n + 1 /\ longer[n + 1] = next
      /\ \A i \in 1..n : longer[i] = w[i]
  BY <1>1, <1>2
<1> HIDE DEF longer
<1>6. \A i \in 1..(Len(longer) - 1) : longer[i + 1] = Follow(E, longer[i])
  <2> SUFFICES ASSUME NEW i \in 1..n PROVE longer[i + 1] = Follow(E, longer[i])
    BY <1>1, <1>5
  <2>1. CASE i = n
    BY <1>1, <1>5, <2>1 DEF next
  <2>2. CASE i # n
    <3>1. i \in 1..(n - 1) /\ i + 1 \in 1..n
      BY <1>1, <2>2
    <3>2. w[i + 1] = Follow(E, w[i])
      BY <3>1 DEF WalkState
    <3>3. QED
      BY <1>5, <3>1, <3>2
  <2>3. QED
    BY <2>1, <2>2
<1>7. \A i, j \in 1..Len(longer) : longer[i] = longer[j] => i = j
  <2>1. \A i \in 1..Len(longer) : i \in 1..n \/ i = n + 1
    BY <1>1, <1>5
  <2>2. \A i, j \in 1..n : w[i] = w[j] => i = j
    BY DEF WalkState
  <2> HIDE DEF n
  <2>3. QED
    BY <1>3, <1>5, <2>1, <2>2
<1>8. \A i \in 1..Len(longer) : longer[i] \notin v
  <2>1. \A i \in 1..Len(longer) : i \in 1..n \/ i = n + 1
    BY <1>1, <1>5
  <2>2. \A i \in 1..n : w[i] \notin v
    BY DEF WalkState
  <2>3. QED
    BY <1>4, <1>5, <2>1, <2>2
<1>9. QED
  BY <1>5, <1>6, <1>7, <1>8 DEF WalkState, longer, next

\* When it is closed, the edges walked still follow one another.
LEMMA WalkEnds ==
  ASSUME NEW E, NEW w, NEW v, WalkState(E, w, v), w # <<>>, Follow(E, Last(w)) = w[1]
  PROVE  WalkState(E, <<>>, v \cup Elements(w))
<1>1. w \in Seq(E) /\ Len(w) \in Nat /\ Len(w) > 0 /\ Last(w) = w[Len(w)]
  BY DEF WalkState, Last
<1>2. Elements(w) = {w[i] : i \in 1..Len(w)}
  BY <1>1 DEF Elements
<1>3. Elements(w) \subseteq E /\ v \subseteq E
  BY <1>1, <1>2 DEF WalkState
<1>4. ASSUME NEW e \in v \cup Elements(w)
      PROVE  \E f \in v \cup Elements(w) : Follow(E, f) = e
  <2>1. CASE e \in v
    BY <2>1 DEF WalkState
  <2>2. CASE e \in Elements(w)
    <3>1. PICK i \in 1..Len(w) : e = w[i]
      BY <1>2, <2>2
    <3>2. CASE i = 1
      BY <1>1, <1>2, <3>1, <3>2
    <3>3. CASE i # 1
      <4>1. i - 1 \in 1..(Len(w) - 1) /\ i - 1 \in 1..Len(w) /\ (i - 1) + 1 = i
        BY <1>1, <3>3
      <4>2. e = Follow(E, w[i - 1])
        BY <3>1, <4>1 DEF WalkState
      <4>3. w[i - 1] \in Elements(w)
        BY <1>2, <4>1
      <4>4. QED
        BY <4>2, <4>3
    <3>4. QED
      BY <3>2, <3>3
  <2>3. QED
    BY <1>4, <2>1, <2>2
<1>5. <<>> \in Seq(E) /\ Len(<<>>) = 0
  OBVIOUS
<1>6. QED
  BY <1>3, <1>4, <1>5 DEF WalkState

\* So a walk has each edge at most once, and is no longer than there are edges.
LEMMA WalkBounded ==
  ASSUME NEW E, Clear(E), NEW w, NEW v, WalkState(E, w, v)
  PROVE  /\ Cardinality(ToSet(w)) = Len(w)
         /\ Len(w) <= Cardinality(E)
         /\ ToSet(w) \cap v = {}
<1> DEFINE places == 1..Len(w)
<1>1. w \in [places -> E] /\ Len(w) \in Nat /\ DOMAIN w = places
  BY DEF WalkState
<1>2. ToSet(w) = {w[i] : i \in places} /\ w \in [places -> ToSet(w)] /\ ToSet(w) \subseteq E
  BY <1>1 DEF ToSet
<1>3. ToSet(w) \cap v = {}
  BY <1>2 DEF WalkState
<1>4. IsFiniteSet(places) /\ Cardinality(places) = Len(w)
  <2> DEFINE n == Len(w)
  <2>1. n \in Nat
    BY <1>1
  <2> HIDE DEF n
  <2>2. IsFiniteSet(1..n) /\ Cardinality(1..n) = n
    BY <2>1, FS_Interval
  <2>3. QED
    BY <2>2 DEF n
<1>5. ExistsBijection(places, ToSet(w))
  <2>1. w \in Injection(places, ToSet(w))
    BY <1>2 DEF Injection, IsInjective, WalkState
  <2>2. w \in Surjection(places, ToSet(w))
    BY <1>2 DEF Surjection
  <2>3. QED
    BY <2>1, <2>2 DEF ExistsBijection, Bijection
<1>6. Cardinality(ToSet(w)) = Len(w)
  BY <1>4, <1>5, FS_Bijection
<1>7. Cardinality(ToSet(w)) <= Cardinality(E)
  BY <1>2, FS_Subset DEF Clear
<1>8. QED
  BY <1>3, <1>6, <1>7

\* The walk makes sense in every state.
WalkInv ==
  /\ soils \in SoilInputs
  /\ building = "arrangement" => WalkState(edges, walk, visited) /\ walk = <<>> /\ visited = {}
  /\ building = "faces" => Clear(edges) /\ WalkState(edges, walk, visited)

\* No walk has begun at the start.
LEMMA WalkInvInit == SliceInit => WalkInv
BY DEF SliceInit, DomainInit, WalkInv, WalkState

\* Every step leaves the walk as WalkInv has it.
LEMMA WalkInvNext == WalkInv /\ [SliceNext]_slicingVars => WalkInv'
<1> SUFFICES ASSUME WalkInv, [SliceNext]_slicingVars PROVE WalkInv'
  OBVIOUS
<1>1. CASE UNCHANGED domainVars
  BY <1>1 DEF domainVars, WalkInv
<1>2. CASE SplitSegments
  <2>1. CASE SoilsMalformed \/ Overlapping
    BY <1>2, <2>1 DEF SplitSegments, WalkInv
  <2>2. CASE ~(SoilsMalformed \/ Overlapping)
    <3>1. edges' = UNION {Pieces(s) : s \in Raw} /\ building' = "faces"
          /\ walk' = <<>> /\ visited' = {} /\ soils' = soils
      BY <1>2, <2>2 DEF SplitSegments, WalkInv
    <3>2. Clear(edges')
      BY <2>2, <3>1, ArrangementClear DEF WalkInv
    <3>3. WalkState(edges', <<>>, {})
      BY DEF WalkState
    <3>4. QED
      BY <3>1, <3>2, <3>3 DEF WalkInv
  <2>3. QED
    BY <2>1, <2>2
<1>3. CASE StartFace
  <2>1. building = "faces" /\ walk = <<>> /\ WalkState(edges, walk, visited) /\ Clear(edges)
    BY <1>3 DEF StartFace, WalkInv
  <2>2. PICK start \in edges \ visited : walk' = <<start>>
    BY <1>3 DEF StartFace
  <2>3. WalkState(edges, walk', visited)
    BY <2>1, <2>2, WalkStarts
  <2>4. QED
    BY <1>3, <2>1, <2>3 DEF StartFace, WalkInv
<1>4. CASE FollowEdge
  <2>1. building = "faces" /\ walk # <<>> /\ WalkState(edges, walk, visited) /\ Clear(edges)
        /\ Follow(edges, Last(walk)) # walk[1]
    BY <1>4, NextEdgeIs DEF FollowEdge, Closed, WalkInv
  <2>2. WalkState(edges, Append(walk, Follow(edges, Last(walk))), visited)
    BY <2>1, WalkGoesOn
  <2>3. CASE Len(walk) < MaxSteps
    <3>1. walk' = Append(walk, Follow(edges, Last(walk)))
      BY <1>4, <2>3, NextEdgeIs DEF FollowEdge
    <3>2. QED
      BY <1>4, <2>1, <2>2, <2>3, <3>1 DEF FollowEdge, WalkInv
  <2>4. CASE ~(Len(walk) < MaxSteps)
    BY <1>4, <2>4 DEF FollowEdge, WalkInv
  <2>5. QED
    BY <2>3, <2>4
<1>5. CASE CloseFace
  <2>1. building = "faces" /\ walk # <<>> /\ WalkState(edges, walk, visited) /\ Clear(edges)
        /\ Follow(edges, Last(walk)) = walk[1]
    BY <1>5, NextEdgeIs DEF CloseFace, Closed, WalkInv
  <2>2. WalkState(edges, <<>>, visited \cup Elements(walk))
    BY <2>1, WalkEnds
  <2>3. QED
    BY <1>5, <2>1, <2>2 DEF CloseFace, WalkInv
<1>6. CASE FacesWalked
  BY <1>6 DEF FacesWalked, WalkInv
<1>7. CASE ApplySeed
  <2>1. building = "seeds" /\ building' \in {"seeds", "refused"} /\ soils' = soils
    BY <1>7 DEF ApplySeed
  <2>2. QED
    BY <2>1 DEF WalkInv
<1>8. CASE SeedsApplied
  BY <1>8 DEF SeedsApplied, WalkInv
<1>9. BuildStep \/ UNCHANGED domainVars
  BY DEF SliceNext, BuildDomain, TakeJob, ResolveEdges, MeasureColumn, ColumnsMeasured, CutSlice,
         FinishSlices, slicingVars
<1>10. QED
  BY <1>1, <1>2, <1>3, <1>4, <1>5, <1>6, <1>7, <1>8, <1>9 DEF BuildStep

\* So it is in every state.
LEMMA WalkInvAlways == SliceSpec => []WalkInv
BY WalkInvInit, WalkInvNext, PTL DEF SliceSpec

\* _build_faces, whatever lines the document draws: the walk around a face comes back to
\* its start without entering an edge twice or an edge of another face.
THEOREM FaceWalksClose == SliceSpec => []WalksClose
<1>1. WalkInv => WalksClose
  BY WalkBounded DEF WalkInv, WalksClose
<1>2. QED
  BY <1>1, WalkInvAlways, PTL

\* And the traversal never reaches max_steps: no domain is refused because a face could
\* not be closed.
THEOREM FaceWalksNeverGiveUp == SliceSpec => [][FollowEdge => UNCHANGED building]_slicingVars
<1>1. ASSUME WalkInv, FollowEdge PROVE UNCHANGED building
  <2>1. Clear(edges) /\ WalkState(edges, walk, visited)
    BY <1>1 DEF FollowEdge, WalkInv
  <2>2. Len(walk) <= Cardinality(edges) /\ Len(walk) \in Nat
    <3>1. Len(walk) <= Cardinality(edges)
      BY <2>1, WalkBounded
    <3>2. walk \in Seq(edges)
      BY <2>1 DEF WalkState
    <3>3. QED
      BY <3>1, <3>2
  <2>3. Cardinality(edges) \in Nat
    BY <2>1, FS_CardinalityType DEF Clear
  <2>4. Len(walk) < MaxSteps
    BY <2>2, <2>3 DEF MaxSteps, Greatest
  <2>5. QED
    BY <1>1, <2>4 DEF FollowEdge
<1>2. WalkInv => [FollowEdge => UNCHANGED building]_slicingVars
  BY <1>1
<1>3. QED
  BY <1>2, WalkInvAlways, PTL

-----------------------------------------------------------------------------
(* Sums over finite sets, whatever the order they are taken in.            *)

\* Among subsets of a finite set there is one that holds no other.
LEMMA LeastSubset ==
  ASSUME NEW S, IsFiniteSet(S), NEW B, B \subseteq SUBSET S, B # {}
  PROVE  \E P \in B : \A Q \in SUBSET P : Q # P => Q \notin B
<1> DEFINE T == {Cardinality(P) : P \in B}
<1>1. \A P \in B : IsFiniteSet(P) /\ Cardinality(P) \in Nat
  BY FS_Subset, FS_CardinalityType
<1>2. T \subseteq Nat /\ T # {}
  BY <1>1
<1>3. PICK n \in T : \A m \in T : n <= m
  BY <1>2, LeastNatural
<1>4. PICK P \in B : Cardinality(P) = n
  OBVIOUS
<1>5. ASSUME NEW Q \in SUBSET P, Q # P PROVE Q \notin B
  <2>1. IsFiniteSet(P) /\ n \in Nat
    BY <1>1, <1>4
  <2>2. IsFiniteSet(Q) /\ Cardinality(Q) <= n /\ Cardinality(Q) # n
    BY <1>4, <1>5, <2>1, FS_Subset
  <2>3. Cardinality(Q) \in Nat
    BY <2>2, FS_CardinalityType
  <2>4. ~(n <= Cardinality(Q))
    BY <2>1, <2>2, <2>3
  <2> HIDE DEF T
  <2>5. Cardinality(Q) \notin T
    BY <1>3, <2>4
  <2>6. QED
    BY <2>5 DEF T
<1>6. QED
  BY <1>4, <1>5

\* g adds up h over the subsets of S.
AddsUp(g, h, S) ==
  g = [s \in SUBSET S |-> IF s = {} THEN 0
                          ELSE h[CHOOSE x \in s : TRUE] + g[s \ {CHOOSE x \in s : TRUE}]]

\* There is such a function for every finite set.
LEMMA SumExists ==
  ASSUME NEW S, IsFiniteSet(S), NEW h
  PROVE  \E g : AddsUp(g, h, S)
<1> DEFINE Upto(n) == {s \in SUBSET S : Cardinality(s) <= n}
           Sums(g, n) == g = [s \in Upto(n) |-> IF s = {} THEN 0
                          ELSE h[CHOOSE x \in s : TRUE] + g[s \ {CHOOSE x \in s : TRUE}]]
           Bad == {n \in Nat : ~\E g : Sums(g, n)}
<1>1. \A s \in SUBSET S : IsFiniteSet(s) /\ Cardinality(s) \in Nat
  BY FS_Subset, FS_CardinalityType
<1>2. Bad = {}
  <2>1. SUFFICES ASSUME Bad # {} PROVE FALSE
    OBVIOUS
  <2>2. PICK n \in Bad : \A m \in Bad : n <= m
    BY <2>1, LeastNatural
  <2>3. CASE n = 0
    <3>1. Upto(0) = {{}}
      BY <1>1, FS_EmptySet
    <3> DEFINE g == [s \in Upto(0) |-> 0]
    <3>2. Sums(g, 0)
      BY <3>1
    <3>3. QED
      BY <2>2, <2>3, <3>2
  <2>4. CASE n # 0
    <3>1. n - 1 \in Nat /\ n - 1 \notin Bad
      <4> HIDE DEF Bad
      <4>1. n \in Nat
        BY DEF Bad
      <4>2. n - 1 \in Nat /\ ~(n <= n - 1)
        BY <2>4, <4>1
      <4>3. QED
        BY <2>2, <4>2
    <3>2. PICK g : Sums(g, n - 1)
      BY <3>1
    <3> DEFINE f == [s \in Upto(n) |-> IF s = {} THEN 0
                          ELSE h[CHOOSE x \in s : TRUE] + g[s \ {CHOOSE x \in s : TRUE}]]
    <3>3. ASSUME NEW s \in Upto(n), s # {}, NEW x \in s
          PROVE  s \ {x} \in Upto(n - 1)
      <4>1. Cardinality(s \ {x}) = Cardinality(s) - 1
        BY <1>1, <3>3, FS_RemoveElement
      <4>2. QED
        BY <1>1, <3>1, <4>1
    <3>4. ASSUME NEW s \in Upto(n - 1) PROVE f[s] = g[s]
      <4>1. s \in Upto(n)
        BY <1>1, <3>1
      <4>2. g[s] = IF s = {} THEN 0
                          ELSE h[CHOOSE x \in s : TRUE] + g[s \ {CHOOSE x \in s : TRUE}]
        BY <3>2
      <4>3. QED
        BY <4>1, <4>2
    <3>5. ASSUME NEW s \in Upto(n)
          PROVE  f[s] = IF s = {} THEN 0
                          ELSE h[CHOOSE x \in s : TRUE] + f[s \ {CHOOSE x \in s : TRUE}]
      <4> DEFINE x == CHOOSE x \in s : TRUE
      <4>1. CASE s = {}
        BY <4>1
      <4>2. CASE s # {}
        <5>1. x \in s
          BY <4>2
        <5>2. f[s \ {x}] = g[s \ {x}]
          BY <3>3, <3>4, <4>2, <5>1
        <5>3. f[s] = h[x] + g[s \ {x}]
          BY <4>2
        <5>4. QED
          BY <5>2, <5>3, <4>2
      <4>3. QED
        BY <4>1, <4>2
    <3>6. Sums(f, n)
      <4> HIDE DEF Upto
      <4>1. f = [s \in Upto(n) |-> f[s]]
        OBVIOUS
      <4> HIDE DEF f
      <4>2. QED
        BY <3>5, <4>1
    <3>7. QED
      BY <2>2, <3>6
  <2>5. QED
    BY <2>3, <2>4
<1>3. Cardinality(S) \in Nat /\ Upto(Cardinality(S)) = SUBSET S
  BY <1>1, FS_Subset, FS_CardinalityType
<1>4. PICK g : Sums(g, Cardinality(S))
  BY <1>2, <1>3
<1> HIDE DEF Upto
<1>5. AddsUp(g, h, S)
  BY <1>3, <1>4 DEF AddsUp
<1>6. QED
  BY <1>5

\* And only one.
LEMMA SumUnique ==
  ASSUME NEW S, IsFiniteSet(S), NEW T \in SUBSET S, NEW h, NEW g, AddsUp(g, h, S),
         NEW k, AddsUp(k, h, T)
  PROVE  k[T] = g[T]
<1> DEFINE B == {P \in SUBSET T : k[P] # g[P]}
<1>1. SUFFICES ASSUME B # {} PROVE FALSE
  OBVIOUS
<1>2. IsFiniteSet(T)
  BY FS_Subset
<1>3. PICK P \in B : \A Q \in SUBSET P : Q # P => Q \notin B
  <2>1. B \subseteq SUBSET T
    OBVIOUS
  <2> HIDE DEF B
  <2>2. QED
    BY <1>1, <1>2, <2>1, LeastSubset
<1> DEFINE c == CHOOSE x \in P : TRUE
<1>4. /\ k[P] = IF P = {} THEN 0 ELSE h[c] + k[P \ {c}]
      /\ g[P] = IF P = {} THEN 0 ELSE h[c] + g[P \ {c}]
  BY DEF AddsUp
<1>5. P # {} /\ c \in P
  BY <1>4
<1> HIDE DEF c
<1>6. P \ {c} \in SUBSET T
  OBVIOUS
<1>7. k[P \ {c}] = g[P \ {c}]
  BY <1>3, <1>5, <1>6
<1>8. QED
  BY <1>4, <1>5, <1>7

\* What the sums of the model are.
LEMMA SumOfAddsUp ==
  ASSUME NEW S, IsFiniteSet(S), NEW f
  PROVE  \E g : AddsUp(g, f, S) /\ \A T \in SUBSET S : SumOf(f, T) = g[T]
<1> DEFINE Is(g, T) == g = [s \in SUBSET T |-> IF s = {} THEN 0 ELSE f[CHOOSE x \in s : TRUE] + g[s \ {CHOOSE x \in s : TRUE}]]
<1>1. \A T : SumOf(f, T) = (CHOOSE g : Is(g, T))[T]
  BY DEF SumOf, MapThenSumSet, MapThenFoldSet
<1>2. \A g, T : Is(g, T) <=> AddsUp(g, f, T)
  BY DEF AddsUp
<1> HIDE DEF Is
<1>3. PICK g : AddsUp(g, f, S)
  BY SumExists
<1>4. ASSUME NEW T \in SUBSET S PROVE SumOf(f, T) = g[T]
  <2>1. IsFiniteSet(T)
    BY FS_Subset
  <2>2. \E k : Is(k, T)
    BY <1>2, <2>1, SumExists
  <2> DEFINE k == CHOOSE k : Is(k, T)
  <2>3. AddsUp(k, f, T) /\ SumOf(f, T) = k[T]
    BY <1>1, <1>2, <2>2
  <2> HIDE DEF k
  <2>4. QED
    BY <1>3, <2>3, SumUnique
<1>5. QED
  BY <1>3, <1>4

\* A sum is one whatever the order.
LEMMA SumRemove ==
  ASSUME NEW S, IsFiniteSet(S), NEW f, \A x \in S : f[x] \in Int
  PROVE  /\ SumOf(f, {}) = 0 /\ SumOf(f, S) \in Int
         /\ \A x \in S : SumOf(f, S) = f[x] + SumOf(f, S \ {x})
<1>1. PICK g : AddsUp(g, f, S) /\ \A T \in SUBSET S : SumOf(f, T) = g[T]
  BY SumOfAddsUp
<1>2. \A P \in SUBSET S : g[P] = IF P = {} THEN 0
          ELSE f[CHOOSE x \in P : TRUE] + g[P \ {CHOOSE x \in P : TRUE}]
  BY <1>1 DEF AddsUp
<1> DEFINE B == {P \in SUBSET S : ~(g[P] \in Int /\ \A x \in P : g[P] = f[x] + g[P \ {x}])}
<1>3. B = {}
  <2>1. SUFFICES ASSUME B # {} PROVE FALSE
    OBVIOUS
  <2>2. PICK P \in B : \A Q \in SUBSET P : Q # P => Q \notin B
    <3>1. B \subseteq SUBSET S
      OBVIOUS
    <3> HIDE DEF B
    <3>2. QED
      BY <2>1, <3>1, LeastSubset
  <2> DEFINE c == CHOOSE x \in P : TRUE
  <2>3. P # {}
    BY <1>2
  <2>4. c \in P /\ g[P] = f[c] + g[P \ {c}] /\ f[c] \in Int
    BY <1>2, <2>3
  <2> HIDE DEF c
  <2>5. \A Q \in SUBSET P : Q # P => g[Q] \in Int /\ \A x \in Q : g[Q] = f[x] + g[Q \ {x}]
    <3>1. \A Q \in SUBSET P : Q \in SUBSET S
      OBVIOUS
    <3>2. QED
      BY <2>2, <3>1
  <2>6. P \ {c} \in SUBSET P /\ P \ {c} # P
    BY <2>4
  <2>7. g[P] \in Int
    BY <2>4, <2>5, <2>6
  <2>8. PICK x \in P : g[P] # f[x] + g[P \ {x}]
    BY <2>7
  <2>9. x # c
    BY <2>4, <2>8
  <2> DEFINE R == (P \ {c}) \ {x}
  <2>10. x \in P \ {c} /\ c \in P \ {x} /\ P \ {x} # P /\ R # P /\ (P \ {x}) \ {c} = R
    BY <2>4, <2>9
  <2>11. g[P \ {c}] = f[x] + g[R]
    BY <2>5, <2>6, <2>10
  <2>12. g[P \ {x}] = f[c] + g[R]
    <3>1. P \ {x} \in SUBSET P
      OBVIOUS
    <3>2. g[P \ {x}] = f[c] + g[(P \ {x}) \ {c}]
      BY <2>5, <2>10, <3>1
    <3>3. QED
      BY <2>10, <3>2
  <2>15. R \in SUBSET P
    OBVIOUS
  <2>13. g[R] \in Int /\ f[x] \in Int
    BY <2>5, <2>10, <2>15
  <2> HIDE DEF R
  <2>14. QED
    BY <2>4, <2>8, <2>11, <2>12, <2>13
<1>4. g[S] \in Int /\ \A x \in S : g[S] = f[x] + g[S \ {x}]
  BY <1>3
<1>5. SumOf(f, {}) = 0 /\ SumOf(f, S) = g[S] /\ \A x \in S : SumOf(f, S \ {x}) = g[S \ {x}]
  BY <1>1, <1>2
<1>6. QED
  BY <1>4, <1>5

\* A sum over two disjoint sets.
LEMMA SumDisjoint ==
  ASSUME NEW S, IsFiniteSet(S), NEW f, \A x \in S : f[x] \in Int,
         NEW A \in SUBSET S, NEW C \in SUBSET S, A \cap C = {}
  PROVE  SumOf(f, A \cup C) = SumOf(f, A) + SumOf(f, C)
<1> DEFINE B == {P \in SUBSET C : SumOf(f, A \cup P) # SumOf(f, A) + SumOf(f, P)}
<1>1. IsFiniteSet(C) /\ IsFiniteSet(A) /\ B \subseteq SUBSET C
  BY FS_Subset
<1>2. B = {}
  <2>1. SUFFICES ASSUME B # {} PROVE FALSE
    OBVIOUS
  <2>2. PICK P \in B : \A Q \in SUBSET P : Q # P => Q \notin B
    <3> HIDE DEF B
    <3>1. QED
      BY <1>1, <2>1, LeastSubset
  <2>3. SumOf(f, A) \in Int /\ SumOf(f, {}) = 0
    BY <1>1, SumRemove
  <2>4. PICK x \in P : TRUE
    <3>1. P # {}
      <4>1. SUFFICES ASSUME P = {} PROVE FALSE
        OBVIOUS
      <4>2. A \cup P = A
        BY <4>1
      <4>3. QED
        BY <2>2, <2>3, <4>1, <4>2
    <3>2. QED
      BY <3>1
  <2>5. P \ {x} \in SUBSET C /\ P \ {x} \notin B
    <3>1. P \ {x} \in SUBSET P /\ P \ {x} # P /\ P \in SUBSET C
      BY <2>4
    <3>2. QED
      BY <2>2, <3>1
  <2>6. SumOf(f, A \cup (P \ {x})) = SumOf(f, A) + SumOf(f, P \ {x})
    BY <2>5
  <2>7. (A \cup P) \ {x} = A \cup (P \ {x}) /\ x \in A \cup P
    BY <2>4
  <2>8. IsFiniteSet(P) /\ \A y \in P : f[y] \in Int
    BY <1>1, FS_Subset
  <2>9. IsFiniteSet(A \cup P) /\ \A y \in A \cup P : f[y] \in Int
    BY <1>1, <2>8, FS_Union
  <2>10. SumOf(f, P) = f[x] + SumOf(f, P \ {x})
    BY <2>4, <2>8, SumRemove
  <2>11. SumOf(f, A \cup P) = f[x] + SumOf(f, A \cup (P \ {x}))
    BY <2>7, <2>9, SumRemove
  <2>12. SumOf(f, P \ {x}) \in Int /\ f[x] \in Int
    <3>1. IsFiniteSet(P \ {x}) /\ \A y \in P \ {x} : f[y] \in Int
      BY <2>8, FS_Subset
    <3>2. QED
      BY <2>4, <2>8, <3>1, SumRemove
  <2>13. SumOf(f, A \cup P) = SumOf(f, A) + SumOf(f, P)
    BY <2>3, <2>6, <2>10, <2>11, <2>12
  <2>14. QED
    BY <2>2, <2>13
<1>3. QED
  BY <1>2

\* Sums of values in proportion, of values that are no larger, of the same values, and of
\* values that are sums.
LEMMA SumCompare ==
  ASSUME NEW S, IsFiniteSet(S), NEW f, \A x \in S : f[x] \in Int,
         NEW g, \A x \in S : g[x] \in Int, NEW k \in Int
  PROVE  /\ (\A x \in S : f[x] <= g[x]) => SumOf(f, S) <= SumOf(g, S)
         /\ (\A x \in S : f[x] = g[x]) => SumOf(f, S) = SumOf(g, S)
         /\ (\A x \in S : f[x] = k) => SumOf(f, S) = k * Cardinality(S)
         /\ \A c \in Int : \A h : (\A x \in S : h[x] \in Int /\ c * f[x] = k * g[x] + h[x]) =>
                                c * SumOf(f, S) = k * SumOf(g, S) + SumOf(h, S)
<1>1. \A P \in SUBSET S : IsFiniteSet(P) /\ (\A x \in P : f[x] \in Int /\ g[x] \in Int)
  BY FS_Subset
<1>2. \A P \in SUBSET S : /\ SumOf(f, P) \in Int /\ SumOf(g, P) \in Int
                          /\ \A x \in P : /\ SumOf(f, P) = f[x] + SumOf(f, P \ {x})
                                          /\ SumOf(g, P) = g[x] + SumOf(g, P \ {x})
  BY <1>1, SumRemove
<1>3. SumOf(f, {}) = 0 /\ SumOf(g, {}) = 0
  BY SumRemove
<1>4. ASSUME \A x \in S : f[x] <= g[x] PROVE SumOf(f, S) <= SumOf(g, S)
  <2> DEFINE B == {P \in SUBSET S : ~(SumOf(f, P) <= SumOf(g, P))}
  <2>1. SUFFICES ASSUME B # {} PROVE FALSE
    OBVIOUS
  <2>2. B \subseteq SUBSET S
    OBVIOUS
  <2>3. PICK P \in B : \A Q \in SUBSET P : Q # P => Q \notin B
    <3> HIDE DEF B
    <3>1. QED
      BY <2>1, <2>2, LeastSubset
  <2>4. PICK x \in P : TRUE
    BY <1>3
  <2>5. P \ {x} \in SUBSET P /\ P \ {x} # P /\ P \ {x} \in SUBSET S /\ P \in SUBSET S
    BY <2>4
  <2>6. SumOf(f, P \ {x}) <= SumOf(g, P \ {x})
    BY <2>3, <2>5
  <2>7. f[x] \in Int /\ g[x] \in Int /\ f[x] <= g[x]
    BY <1>4, <2>4
  <2>8. SumOf(f, P \ {x}) \in Int /\ SumOf(g, P \ {x}) \in Int
    BY <1>2, <2>5
  <2>9. SumOf(f, P) = f[x] + SumOf(f, P \ {x}) /\ SumOf(g, P) = g[x] + SumOf(g, P \ {x})
    BY <1>2, <2>4, <2>5
  <2>10. SumOf(f, P) <= SumOf(g, P)
    BY <2>6, <2>7, <2>8, <2>9
  <2>11. QED
    BY <2>3, <2>10
<1>5. ASSUME \A x \in S : f[x] = k PROVE SumOf(f, S) = k * Cardinality(S)
  <2> DEFINE B == {P \in SUBSET S : SumOf(f, P) # k * Cardinality(P)}
  <2>1. SUFFICES ASSUME B # {} PROVE FALSE
    OBVIOUS
  <2>2. B \subseteq SUBSET S
    OBVIOUS
  <2>3. PICK P \in B : \A Q \in SUBSET P : Q # P => Q \notin B
    <3> HIDE DEF B
    <3>1. QED
      BY <2>1, <2>2, LeastSubset
  <2>4. PICK x \in P : TRUE
    <3>1. Cardinality({}) = 0
      BY FS_EmptySet
    <3>2. SumOf(f, {}) = k * Cardinality({})
      BY <1>3, <3>1
    <3>3. {} \notin B
      BY <3>2
    <3> HIDE DEF B
    <3>4. P # {}
      BY <3>3
    <3>5. QED
      BY <3>4
  <2>5. P \ {x} \in SUBSET P /\ P \ {x} # P /\ P \ {x} \in SUBSET S /\ P \in SUBSET S
    BY <2>4
  <2>6. SumOf(f, P \ {x}) = k * Cardinality(P \ {x})
    BY <2>3, <2>5
  <2>7. Cardinality(P \ {x}) = Cardinality(P) - 1 /\ Cardinality(P) \in Nat
    BY <1>1, <2>4, <2>5, FS_RemoveElement, FS_CardinalityType
  <2>8. SumOf(f, P) = k + k * (Cardinality(P) - 1)
    BY <1>2, <1>5, <2>4, <2>5, <2>6, <2>7
  <2>9. k + k * (Cardinality(P) - 1) = k * Cardinality(P)
    BY <2>7
  <2>10. QED
    BY <2>3, <2>8, <2>9
<1>6. ASSUME NEW c \in Int, NEW h, \A x \in S : h[x] \in Int /\ c * f[x] = k * g[x] + h[x]
      PROVE  c * SumOf(f, S) = k * SumOf(g, S) + SumOf(h, S)
  <2> DEFINE B == {P \in SUBSET S : c * SumOf(f, P) # k * SumOf(g, P) + SumOf(h, P)}
  <2>0. /\ SumOf(h, {}) = 0
        /\ \A P \in SUBSET S : /\ SumOf(h, P) \in Int
                               /\ \A x \in P : SumOf(h, P) = h[x] + SumOf(h, P \ {x})
    <3>1. \A P \in SUBSET S : \A x \in P : h[x] \in Int
      BY <1>6
    <3>2. QED
      BY <1>1, <3>1, SumRemove
  <2>1. SUFFICES ASSUME B # {} PROVE FALSE
    OBVIOUS
  <2>2. B \subseteq SUBSET S
    OBVIOUS
  <2>3. PICK P \in B : \A Q \in SUBSET P : Q # P => Q \notin B
    <3> HIDE DEF B
    <3>1. QED
      BY <2>1, <2>2, LeastSubset
  <2>4. PICK x \in P : TRUE
    BY <1>3, <2>0
  <2>5. P \ {x} \in SUBSET P /\ P \ {x} # P /\ P \ {x} \in SUBSET S /\ P \in SUBSET S
    BY <2>4
  <2> DEFINE fr == SumOf(f, P \ {x})
             gr == SumOf(g, P \ {x})
             hr == SumOf(h, P \ {x})
  <2>6. c * fr = k * gr + hr
    BY <2>3, <2>5
  <2>7. f[x] \in Int /\ g[x] \in Int /\ h[x] \in Int /\ c * f[x] = k * g[x] + h[x]
    BY <1>6, <2>4
  <2>8. fr \in Int /\ gr \in Int /\ hr \in Int
    BY <1>2, <2>0, <2>5
  <2>9. SumOf(f, P) = f[x] + fr /\ SumOf(g, P) = g[x] + gr /\ SumOf(h, P) = h[x] + hr
    BY <1>2, <2>0, <2>4, <2>5
  <2> HIDE DEF fr, gr, hr
  <2>10. c * (f[x] + fr) = c * f[x] + c * fr /\ k * (g[x] + gr) = k * g[x] + k * gr
    BY <2>7, <2>8
  <2>11. c * (f[x] + fr) = k * (g[x] + gr) + (h[x] + hr)
    <3> DEFINE a == k * g[x]
               b == k * gr
    <3>1. a \in Int /\ b \in Int
      BY <2>7, <2>8
    <3>2. c * (f[x] + fr) = (a + h[x]) + (b + hr) /\ k * (g[x] + gr) = a + b
      BY <2>6, <2>7, <2>10
    <3> HIDE DEF a, b
    <3>3. (a + h[x]) + (b + hr) = (a + b) + (h[x] + hr)
      BY <2>7, <2>8, <3>1
    <3>4. QED
      BY <3>2, <3>3
  <2>12. QED
    BY <2>3, <2>9, <2>11
<1>7. ASSUME \A x \in S : f[x] = g[x] PROVE SumOf(f, S) = SumOf(g, S)
  <2> DEFINE B == {P \in SUBSET S : SumOf(f, P) # SumOf(g, P)}
  <2>1. SUFFICES ASSUME B # {} PROVE FALSE
    OBVIOUS
  <2>2. B \subseteq SUBSET S
    OBVIOUS
  <2>3. PICK P \in B : \A Q \in SUBSET P : Q # P => Q \notin B
    <3> HIDE DEF B
    <3>1. QED
      BY <2>1, <2>2, LeastSubset
  <2>4. PICK x \in P : TRUE
    BY <1>3
  <2>5. P \ {x} \in SUBSET P /\ P \ {x} # P /\ P \ {x} \in SUBSET S /\ P \in SUBSET S
    BY <2>4
  <2>6. SumOf(f, P \ {x}) = SumOf(g, P \ {x})
    BY <2>3, <2>5
  <2>7. SumOf(f, P) = SumOf(g, P)
    BY <1>2, <1>7, <2>4, <2>5, <2>6
  <2>8. QED
    BY <2>3, <2>7
<1>8. QED
  BY <1>4, <1>5, <1>6, <1>7

-----------------------------------------------------------------------------
(* Orders, ranks, and taking in turn.                                      *)

\* R is a strict total order of K, as a set of pairs.
Orders(R, K) ==
  /\ \A i \in K : <<i, i>> \notin R
  /\ \A i, j, l \in K : <<i, j>> \in R /\ <<j, l>> \in R => <<i, l>> \in R
  /\ \A i, j \in K : i = j \/ <<i, j>> \in R \/ <<j, i>> \in R

\* How many come before i.
Rank(R, K, i) == Cardinality({j \in K : <<j, i>> \in R})

\* Ranks are told apart by the order.
LEMMA RankOrder ==
  ASSUME NEW K, IsFiniteSet(K), NEW R, Orders(R, K), NEW i \in K
  PROVE  /\ Rank(R, K, i) \in 0..(Cardinality(K) - 1)
         /\ \A j \in K : <<i, j>> \in R <=> Rank(R, K, i) < Rank(R, K, j)
         /\ \A j \in K : Rank(R, K, i) = Rank(R, K, j) => i = j
<1> DEFINE Before(x) == {j \in K : <<j, x>> \in R}
<1>1. ASSUME NEW x \in K
      PROVE  IsFiniteSet(Before(x)) /\ Rank(R, K, x) \in Nat /\ Rank(R, K, x) = Cardinality(Before(x))
  <2>1. IsFiniteSet(Before(x)) /\ Cardinality(Before(x)) \in Nat
    BY FS_Subset, FS_CardinalityType
  <2>2. QED
    BY <2>1 DEF Rank
<1>2. Rank(R, K, i) \in 0..(Cardinality(K) - 1)
  <2>1. i \notin Before(i) /\ Before(i) \in SUBSET K
    BY DEF Orders
  <2>2. Cardinality(Before(i)) <= Cardinality(K) /\ Cardinality(Before(i)) # Cardinality(K)
    BY <2>1, FS_Subset
  <2>3. Cardinality(K) \in Nat
    BY FS_CardinalityType
  <2>4. QED
    BY <1>1, <2>2, <2>3
<1>3. ASSUME NEW x \in K, NEW y \in K, <<x, y>> \in R PROVE Rank(R, K, x) < Rank(R, K, y)
  <2>1. Before(x) \in SUBSET Before(y) /\ x \in Before(y) /\ x \notin Before(x)
    BY <1>3 DEF Orders
  <2>2. Cardinality(Before(x)) <= Cardinality(Before(y)) /\ Cardinality(Before(x)) # Cardinality(Before(y))
    <3> HIDE DEF Before
    <3>1. IsFiniteSet(Before(y))
      BY <1>1
    <3>2. Before(x) # Before(y)
      BY <2>1
    <3>3. QED
      BY <2>1, <3>1, <3>2, FS_Subset
  <2> HIDE DEF Before
  <2>3. Rank(R, K, x) \in Nat /\ Rank(R, K, y) \in Nat
        /\ Rank(R, K, x) = Cardinality(Before(x)) /\ Rank(R, K, y) = Cardinality(Before(y))
    BY <1>1
  <2>4. QED
    BY <2>2, <2>3
<1>4. \A j \in K : /\ Rank(R, K, i) < Rank(R, K, j) => <<i, j>> \in R
                   /\ Rank(R, K, i) = Rank(R, K, j) => i = j
  <2> SUFFICES ASSUME NEW j \in K
               PROVE  /\ Rank(R, K, i) < Rank(R, K, j) => <<i, j>> \in R
                      /\ Rank(R, K, i) = Rank(R, K, j) => i = j
    OBVIOUS
  <2>1. Rank(R, K, i) \in Nat /\ Rank(R, K, j) \in Nat
    BY <1>1
  <2>2. i = j \/ <<i, j>> \in R \/ <<j, i>> \in R
    BY DEF Orders
  <2>3. <<i, j>> \in R => Rank(R, K, i) < Rank(R, K, j)
    BY <1>3
  <2>4. <<j, i>> \in R => Rank(R, K, j) < Rank(R, K, i)
    BY <1>3
  <2>5. QED
    BY <2>1, <2>2, <2>3, <2>4
<1>5. QED
  BY <1>2, <1>3, <1>4

\* Every rank below the number of elements is that of one of them.
LEMMA RankTaken ==
  ASSUME NEW K, IsFiniteSet(K), NEW R, Orders(R, K)
  PROVE  /\ \A r \in 0..(Cardinality(K) - 1) : \E i \in K : Rank(R, K, i) = r
         /\ \A d \in 0..Cardinality(K) : Cardinality({i \in K : Rank(R, K, i) < d}) = d
<1> DEFINE m == Cardinality(K)
           ranks == 0..(m - 1)
           f == [i \in K |-> Rank(R, K, i)]
<1>1. m \in Nat
  BY FS_CardinalityType
<1>2. f \in [K -> ranks] /\ \A i, j \in K : f[i] = f[j] => i = j
  BY RankOrder
<1>3. ASSUME NEW d \in Nat PROVE IsFiniteSet(0..(d - 1)) /\ Cardinality(0..(d - 1)) = d
  <2> DEFINE e == d - 1
  <2>1. e \in Int
    OBVIOUS
  <2> HIDE DEF e
  <2>2. IsFiniteSet(0..e) /\ Cardinality(0..e) = IF 0 > e THEN 0 ELSE e - 0 + 1
    BY <2>1, FS_Interval
  <2>3. QED
    BY <2>2 DEF e
<1>4. f \in Surjection(K, ranks)
  <2>1. f \in Injection(K, ranks)
    BY <1>2 DEF Injection, IsInjective
  <2>2. IsFiniteSet(ranks) /\ Cardinality(ranks) = m
    BY <1>1, <1>3
  <2> HIDE DEF f, ranks
  <2>3. QED
    BY <2>1, <2>2, FS_Injection
<1>5. ASSUME NEW r \in ranks PROVE \E i \in K : Rank(R, K, i) = r
  BY <1>4 DEF Surjection
<1>6. ASSUME NEW d \in 0..m PROVE Cardinality({i \in K : Rank(R, K, i) < d}) = d
  <2> DEFINE first == {i \in K : Rank(R, K, i) < d}
             low == 0..(d - 1)
             g == [i \in first |-> Rank(R, K, i)]
  <2>1. d \in Nat /\ \A x \in low : x \in ranks /\ x < d
    BY <1>1
  <2>2. \A i \in K : Rank(R, K, i) \in Nat
    BY RankOrder
  <2>3. g \in [first -> low]
    BY <2>1, <2>2
  <2>4. \A i, j \in first : g[i] = g[j] => i = j
    BY RankOrder
  <2>5. \A x \in low : \E i \in first : g[i] = x
    <3>1. TAKE x \in low
    <3>2. PICK i \in K : Rank(R, K, i) = x
      BY <1>5, <2>1
    <3>3. i \in first
      BY <2>1, <3>2
    <3>4. QED
      BY <3>2, <3>3
  <2> HIDE DEF g, low, first
  <2>6. g \in Bijection(first, low)
    BY <2>3, <2>4, <2>5 DEF Bijection, Injection, IsInjective, Surjection
  <2>7. IsFiniteSet(first)
    BY FS_Subset DEF first
  <2>8. Cardinality(first) = Cardinality(low)
    BY <2>6, <2>7, FS_Bijection DEF ExistsBijection
  <2>9. QED
    BY <1>3, <2>1, <2>8 DEF first, low
<1>7. QED
  BY <1>5, <1>6

\* Each rank has its element.
Reached(R, K) == \A r \in 0..(Cardinality(K) - 1) : \E i \in K : Rank(R, K, i) = r

\* So it is in an order.
LEMMA RankReached ==
  ASSUME NEW K, IsFiniteSet(K), NEW R, Orders(R, K)
  PROVE  Reached(R, K)
BY RankTaken DEF Reached

\* Some elements have a last one.
LEMMA LastOf ==
  ASSUME NEW K, IsFiniteSet(K), NEW R, Orders(R, K), NEW P \in SUBSET K, P # {}
  PROVE  \E x \in P : \A j \in P : j = x \/ <<j, x>> \in R
<1> DEFINE m == Cardinality(K)
           T == {m - Rank(R, K, i) : i \in P}
<1>1. m \in Nat /\ \A i \in P : Rank(R, K, i) \in 0..(m - 1)
  BY RankOrder, FS_CardinalityType
<1>2. T \subseteq Nat /\ T # {}
  BY <1>1
<1>3. PICK t \in T : \A u \in T : t <= u
  BY <1>2, LeastNatural
<1>4. PICK x \in P : t = m - Rank(R, K, x)
  OBVIOUS
<1>5. ASSUME NEW j \in P PROVE j = x \/ <<j, x>> \in R
  <2>1. m - Rank(R, K, x) <= m - Rank(R, K, j)
    BY <1>3, <1>4
  <2>2. Rank(R, K, j) <= Rank(R, K, x) /\ Rank(R, K, j) \in Nat /\ Rank(R, K, x) \in Nat
    BY <1>1, <2>1
  <2>3. QED
    BY <2>2, RankOrder
<1>6. QED
  BY <1>5

\* Of t, each takes in the order R what is left by those before it, as far as it can.
TakesInTurn(K, R, spare, t, taken) ==
  \A i \in K : LET left == t - SumOf(spare, {j \in K : <<j, i>> \in R})
               IN  taken[i] = IF left <= 0 THEN 0
                              ELSE IF left <= spare[i] THEN left ELSE spare[i]

\* Taking as much as there is from one after the other takes all that is asked for, if
\* there is so much.
LEMMA TakenInTurn ==
  ASSUME NEW K, IsFiniteSet(K), NEW R, Orders(R, K), NEW spare \in [K -> Nat], NEW t \in Nat,
         NEW taken, TakesInTurn(K, R, spare, t, taken)
  PROVE  /\ \A i \in K : taken[i] \in Nat /\ taken[i] <= spare[i]
         /\ SumOf(taken, K) = IF t <= SumOf(spare, K) THEN t ELSE SumOf(spare, K)
<1>1. \A P \in SUBSET K : IsFiniteSet(P) /\ \A x \in P : spare[x] \in Int /\ spare[x] >= 0
  BY FS_Subset
<1>2. \A P \in SUBSET K : SumOf(spare, P) \in Int
  BY <1>1, SumRemove
<1>3. ASSUME NEW i \in K PROVE taken[i] \in Nat /\ taken[i] <= spare[i]
  <2> DEFINE left == t - SumOf(spare, {j \in K : <<j, i>> \in R})
  <2>1. left \in Int
    <3>1. {j \in K : <<j, i>> \in R} \in SUBSET K
      OBVIOUS
    <3>2. SumOf(spare, {j \in K : <<j, i>> \in R}) \in Int
      BY <1>2, <3>1
    <3>3. QED
      BY <3>2
  <2>2. taken[i] = IF left <= 0 THEN 0 ELSE IF left <= spare[i] THEN left ELSE spare[i]
    BY DEF TakesInTurn
  <2> HIDE DEF left
  <2>3. spare[i] \in Nat
    OBVIOUS
  <2>4. QED
    BY <2>1, <2>2, <2>3
<1>4. \A P \in SUBSET K : /\ SumOf(taken, P) \in Int
                          /\ \A x \in P : SumOf(taken, P) = taken[x] + SumOf(taken, P \ {x})
  <2>1. \A P \in SUBSET K : \A x \in P : taken[x] \in Int
    BY <1>3
  <2>2. QED
    BY <1>1, <2>1, SumRemove
<1> DEFINE Full(P) == IF t <= SumOf(spare, P) THEN t ELSE SumOf(spare, P)
           B == {P \in SUBSET K : /\ \A x \in P, j \in K : <<j, x>> \in R => j \in P
                                  /\ SumOf(taken, P) # Full(P)}
<1>5. B = {}
  <2>1. SUFFICES ASSUME B # {} PROVE FALSE
    OBVIOUS
  <2>2. B \subseteq SUBSET K
    OBVIOUS
  <2>3. PICK P \in B : \A Q \in SUBSET P : Q # P => Q \notin B
    <3> HIDE DEF B
    <3>1. QED
      BY <2>1, <2>2, LeastSubset
  <2>4. P \in SUBSET K /\ SumOf(taken, P) # Full(P)
        /\ \A x \in P, j \in K : <<j, x>> \in R => j \in P
    BY <2>3
  <2>5. P # {}
    <3>1. SumOf(taken, {}) = 0 /\ SumOf(spare, {}) = 0
      BY SumRemove, <1>1, <1>3
    <3>2. QED
      BY <2>4, <3>1
  <2>6. PICK x \in P : \A j \in P : j = x \/ <<j, x>> \in R
    BY <2>4, <2>5, LastOf
  <2> DEFINE Q == P \ {x}
  <2>7. Q = {j \in K : <<j, x>> \in R}
    BY <2>4, <2>6 DEF Orders
  <2>8. \A y \in Q, j \in K : <<j, y>> \in R => j \in Q
    <3> SUFFICES ASSUME NEW y \in Q, NEW j \in K, <<j, y>> \in R PROVE j \in Q
      OBVIOUS
    <3>1. y \in K /\ x \in K /\ <<y, x>> \in R
      BY <2>4, <2>7
    <3>2. <<j, x>> \in R
      BY <3>1 DEF Orders
    <3>3. QED
      BY <2>7, <3>2
  <2>9. Q \in SUBSET P /\ Q # P /\ Q \in SUBSET K
    BY <2>4
  <2>10. SumOf(taken, Q) = Full(Q)
    <3>1. Q \notin B
      BY <2>3, <2>9
    <3> HIDE DEF Q, Full
    <3>2. QED
      BY <2>8, <2>9, <3>1
  <2> DEFINE s == SumOf(spare, Q)
             left == t - s
  <2>11. s \in Int /\ spare[x] \in Nat
    BY <1>2, <2>4, <2>9
  <2>12. taken[x] = IF left <= 0 THEN 0 ELSE IF left <= spare[x] THEN left ELSE spare[x]
    <3>1. x \in K
      BY <2>4
    <3>2. taken[x] = LET l == t - SumOf(spare, {j \in K : <<j, x>> \in R})
                     IN  IF l <= 0 THEN 0 ELSE IF l <= spare[x] THEN l ELSE spare[x]
      BY <3>1 DEF TakesInTurn
    <3>3. QED
      BY <2>7, <3>2
  <2>13. SumOf(taken, P) = taken[x] + SumOf(taken, Q) /\ SumOf(spare, P) = spare[x] + s
    BY <1>1, <1>4, <2>4, SumRemove
  <2>14. SumOf(taken, P) = taken[x] + (IF t <= s THEN t ELSE s)
    BY <2>10, <2>13
  <2> HIDE DEF s, Q
  <2>15. SumOf(taken, P) = IF t <= spare[x] + s THEN t ELSE spare[x] + s
    BY <2>11, <2>12, <2>14
  <2>16. QED
    BY <2>4, <2>13, <2>15
<1>6. SumOf(taken, K) = Full(K)
  BY <1>5
<1>7. QED
  BY <1>3, <1>6

\* The pairs of numbers in ascending order.
Below(S) == {p \in S \X S : p[1] < p[2]}

\* Numbers are in order.
LEMMA BelowOrders ==
  ASSUME NEW S \in SUBSET Int
  PROVE  /\ Orders(Below(S), S)
         /\ \A x \in S : Rank(Below(S), S, x) = Cardinality({y \in S : y < x})
         /\ \A x, y \in S : <<x, y>> \in Below(S) <=> x < y
<1>1. \A x, y \in S : <<x, y>> \in Below(S) <=> x < y
  BY DEF Below
<1>2. \A x \in S : {y \in S : <<y, x>> \in Below(S)} = {y \in S : y < x}
  BY <1>1
<1>3. \A x \in S : Rank(Below(S), S, x) = Cardinality({y \in S : y < x})
  BY <1>2 DEF Rank
<1>4. \A x, y, z \in S : x < y /\ y < z => x < z
  OBVIOUS
<1>5. \A x, y \in S : x = y \/ x < y \/ y < x
  OBVIOUS
<1>6. \A x \in S : ~(x < x)
  OBVIOUS
<1>7. QED
  BY <1>1, <1>3, <1>4, <1>5, <1>6 DEF Orders

\* An order has a first and a last.
LEMMA FirstAndLast ==
  ASSUME NEW K, IsFiniteSet(K), NEW R, Orders(R, K), K # {}
  PROVE  /\ \E x \in K : \A j \in K : j = x \/ <<j, x>> \in R
         /\ \E x \in K : \A j \in K : j = x \/ <<x, j>> \in R
<1>1. K \in SUBSET K
  OBVIOUS
<1>2. \E x \in K : \A j \in K : j = x \/ <<j, x>> \in R
  BY <1>1, LastOf
<1>3. PICK z \in K : TRUE
  OBVIOUS
<1>4. Rank(R, K, z) \in 0..(Cardinality(K) - 1)
  BY RankOrder
<1>5. 0 \in 0..(Cardinality(K) - 1)
  BY <1>4, FS_CardinalityType
<1>6. PICK x \in K : Rank(R, K, x) = 0
  BY <1>5, RankTaken
<1>7. ASSUME NEW j \in K PROVE j = x \/ <<x, j>> \in R
  <2>1. Rank(R, K, j) \in 0..(Cardinality(K) - 1)
    BY RankOrder
  <2>2. ~(Rank(R, K, j) < Rank(R, K, x))
    BY <1>6, <2>1
  <2>3. <<j, x>> \notin R
    BY <2>2, RankOrder
  <2>4. QED
    BY <2>3 DEF Orders
<1>8. QED
  BY <1>2, <1>7

\* A finite set of numbers has a greatest and a least, and Max and Min are they.
LEMMA Extremes ==
  ASSUME NEW S \in SUBSET Int, IsFiniteSet(S), S # {}
  PROVE  /\ Max(S) \in S /\ \A y \in S : y <= Max(S)
         /\ Min(S) \in S /\ \A y \in S : Min(S) <= y
<1>1. /\ \E x \in S : \A y \in S : y = x \/ <<y, x>> \in Below(S)
      /\ \E x \in S : \A y \in S : y = x \/ <<x, y>> \in Below(S)
  <2>1. Orders(Below(S), S)
    BY BelowOrders
  <2>2. QED
    BY <2>1, FirstAndLast, Zenon
<1>2. \A x, y \in S : <<x, y>> \in Below(S) => x <= y
  BY DEF Below
<1>5. \A x \in S : x <= x
  OBVIOUS
<1>3. /\ \E x \in S : \A y \in S : y <= x
      /\ \E x \in S : \A y \in S : x <= y
  BY <1>1, <1>2, <1>5
<1>4. \A x, y \in S : x >= y <=> y <= x
  OBVIOUS
<1>6. QED
  BY <1>3, <1>4 DEF Max, Min

\* Of two.
LEMMA OfTwo ==
  ASSUME NEW a \in Int, NEW b \in Int
  PROVE  /\ Max({a, b}) = IF a <= b THEN b ELSE a
         /\ Min({a, b}) = IF a <= b THEN a ELSE b
<1>1. {a, b} \in SUBSET Int /\ IsFiniteSet({a, b}) /\ {a, b} # {}
  <2>1. IsFiniteSet({a}) /\ IsFiniteSet({b}) /\ {a} \cup {b} = {a, b}
    BY FS_Singleton
  <2>2. QED
    BY <2>1, FS_Union
<1>2. /\ Max({a, b}) \in {a, b} /\ a <= Max({a, b}) /\ b <= Max({a, b})
      /\ Min({a, b}) \in {a, b} /\ Min({a, b}) <= a /\ Min({a, b}) <= b
  BY <1>1, Extremes
<1>3. QED
  BY <1>2

\* A set of numbers as a sequence.
LEMMA AscendingFacts ==
  ASSUME NEW S \in SUBSET Int, IsFiniteSet(S)
  PROVE  /\ Ascending(S) \in [1..Cardinality(S) -> S] /\ Ascending(S) \in Seq(S)
         /\ Len(Ascending(S)) = Cardinality(S) /\ Cardinality(S) \in Nat
         /\ \A x \in S : \E i \in 1..Cardinality(S) : Ascending(S)[i] = x
         /\ \A i, j \in 1..Cardinality(S) : i < j => Ascending(S)[i] < Ascending(S)[j]
<1> DEFINE m == Cardinality(S)
           a == Ascending(S)
           R == Below(S)
<1>a. Orders(R, S) /\ \A x, y \in S : <<x, y>> \in R <=> x < y
  BY BelowOrders
<1>b. \A x, y \in S : Rank(R, S, x) = Rank(R, S, y) => x = y
  BY <1>a, RankOrder
<1>d. \A x \in S : /\ Rank(R, S, x) \in 0..(m - 1)
                  /\ \A y \in S : x < y <=> Rank(R, S, x) < Rank(R, S, y)
  <2> HIDE DEF R
  <2>1. TAKE x \in S
  <2>2. /\ Rank(R, S, x) \in 0..(m - 1)
        /\ \A y \in S : <<x, y>> \in R <=> Rank(R, S, x) < Rank(R, S, y)
    BY <1>a, RankOrder
  <2>3. QED
    BY <1>a, <2>2
<1>c. \A r \in 0..(m - 1) : \E x \in S : Rank(R, S, x) = r
  <2> HIDE DEF R, m
  <2>1. IsFiniteSet(S) /\ Orders(R, S)
    BY <1>a
  <2>2. QED
    <3>1. Reached(R, S)
      BY <2>1, RankReached
    <3>2. QED
      BY <3>1, Zenon DEF Reached, m
<1>1. m \in Nat
  BY FS_CardinalityType
<1>2. a = [i \in 1..m |-> CHOOSE x \in S : Cardinality({y \in S : y < x}) = i - 1]
  BY DEF Ascending
<1>3. \A x \in S : Rank(R, S, x) = Cardinality({y \in S : y < x})
  BY BelowOrders
<1>4. ASSUME NEW i \in 1..m PROVE a[i] \in S /\ Rank(R, S, a[i]) = i - 1
  <2>1. i - 1 \in 0..(m - 1)
    BY <1>1
  <2>2. \E x \in S : Rank(R, S, x) = i - 1
    BY <1>c, <2>1
  <2>3. \E x \in S : Cardinality({y \in S : y < x}) = i - 1
    BY <1>3, <2>2
  <2>4. a[i] \in S /\ Cardinality({y \in S : y < a[i]}) = i - 1
    BY <1>2, <2>3
  <2>5. QED
    BY <1>3, <2>4
<1>5. a \in [1..m -> S] /\ a \in Seq(S) /\ Len(a) = m
  <2>1. a \in [1..m -> S]
    <3>1. \A i \in 1..m : a[i] \in S
      BY <1>4
    <3>2. DOMAIN a = 1..m /\ a = [i \in 1..m |-> a[i]]
      BY <1>2
    <3> HIDE DEF a, m
    <3>3. QED
      BY <3>1, <3>2
  <2> HIDE DEF a, m
  <2>2. QED
    BY <1>1, <2>1
<1>6. ASSUME NEW x \in S PROVE \E i \in 1..m : a[i] = x
  <2>1. Rank(R, S, x) \in 0..(m - 1)
    BY <1>d
  <2>2. Rank(R, S, x) + 1 \in 1..m /\ (Rank(R, S, x) + 1) - 1 = Rank(R, S, x)
    BY <1>1, <2>1
  <2> DEFINE i == Rank(R, S, x) + 1
  <2>3. a[i] \in S /\ Rank(R, S, a[i]) = Rank(R, S, x)
    <3>1. i \in 1..m /\ i - 1 = Rank(R, S, x)
      BY <2>2
    <3> HIDE DEF i, a, m
    <3>2. QED
      BY <1>4, <3>1
  <2>4. a[i] = x
    <3> HIDE DEF i, a, m, R
    <3>1. QED
      BY <1>b, <2>3, Zenon
  <2>5. QED
    BY <2>2, <2>4
<1>7. ASSUME NEW i \in 1..m, NEW j \in 1..m, i < j PROVE a[i] < a[j]
  <2>1. a[i] \in S /\ a[j] \in S /\ Rank(R, S, a[i]) = i - 1 /\ Rank(R, S, a[j]) = j - 1
    BY <1>4
  <2>2. Rank(R, S, a[i]) < Rank(R, S, a[j])
    <3> HIDE DEF a, m, R
    <3>1. i - 1 < j - 1
      BY <1>1, <1>7
    <3>2. QED
      BY <2>1, <3>1
  <2> HIDE DEF a, m, R
  <2>3. QED
    BY <1>d, <2>1, <2>2
<1>8. QED
  BY <1>1, <1>5, <1>6, <1>7

-----------------------------------------------------------------------------
(* Shares and what is left of them: _allocate_interval_slice_counts.       *)

\* SumCompare, for values that are no larger,
LEMMA SumLess ==
  ASSUME NEW S, IsFiniteSet(S), NEW f, \A x \in S : f[x] \in Int,
         NEW g, \A x \in S : g[x] \in Int, \A x \in S : f[x] <= g[x]
  PROVE  SumOf(f, S) <= SumOf(g, S)
<1>1. 0 \in Int
  OBVIOUS
<1>2. QED
  BY <1>1, SumCompare

\* for the same values,
LEMMA SumSame ==
  ASSUME NEW S, IsFiniteSet(S), NEW f, \A x \in S : f[x] \in Int,
         NEW g, \A x \in S : f[x] = g[x]
  PROVE  SumOf(f, S) = SumOf(g, S)
<1>1. 0 \in Int /\ \A x \in S : g[x] \in Int
  OBVIOUS
<1>2. QED
  BY <1>1, SumCompare

\* and for equal ones.
LEMMA SumConstant ==
  ASSUME NEW S, IsFiniteSet(S), NEW k \in Int, NEW f, \A x \in S : f[x] = k
  PROVE  SumOf(f, S) = k * Cardinality(S)
<1>1. \A x \in S : f[x] \in Int
  OBVIOUS
<1>2. QED
  BY <1>1, SumCompare

\* c times f is k times g plus h, everywhere in S.
Adds(S, c, f, k, g, h) ==
  \A x \in S : /\ f[x] \in Int /\ g[x] \in Int /\ h[x] \in Int
               /\ c * f[x] = k * g[x] + h[x]

\* Sums of values that are sums of multiples.
LEMMA SumLinear ==
  ASSUME NEW S, IsFiniteSet(S), NEW c \in Int, NEW k \in Int, NEW f, NEW g, NEW h,
         Adds(S, c, f, k, g, h)
  PROVE  c * SumOf(f, S) = k * SumOf(g, S) + SumOf(h, S)
<1>1. /\ \A x \in S : f[x] \in Int
      /\ \A x \in S : g[x] \in Int
      /\ \A x \in S : h[x] \in Int /\ c * f[x] = k * g[x] + h[x]
  BY DEF Adds
<1>2. QED
  BY <1>1, SumCompare

\* h is f plus g, everywhere in S.
Plus(S, f, g, h) ==
  \A x \in S : f[x] \in Int /\ g[x] \in Int /\ h[x] \in Int /\ h[x] = f[x] + g[x]

\* Sums of values that are sums.
LEMMA SumPlus ==
  ASSUME NEW S, IsFiniteSet(S), NEW f, NEW g, NEW h, Plus(S, f, g, h)
  PROVE  /\ SumOf(h, S) = SumOf(f, S) + SumOf(g, S)
         /\ SumOf(h, S) \in Int /\ SumOf(f, S) \in Int /\ SumOf(g, S) \in Int
<1>1. /\ 1 \in Int /\ Adds(S, 1, h, 1, f, g)
      /\ \A x \in S : h[x] \in Int
      /\ \A x \in S : f[x] \in Int
      /\ \A x \in S : g[x] \in Int
  BY DEF Adds, Plus
<1>2. 1 * SumOf(h, S) = 1 * SumOf(f, S) + SumOf(g, S)
  BY <1>1, SumLinear
<1>3. SumOf(h, S) \in Int /\ SumOf(f, S) \in Int /\ SumOf(g, S) \in Int
  BY <1>1, SumRemove
<1>4. QED
  BY <1>2, <1>3

\* Rounding down.
LEMMA Division ==
  ASSUME NEW a \in Int, NEW b \in Nat \ {0}
  PROVE  /\ a \div b \in Int /\ b * (a \div b) <= a /\ a < b * (a \div b) + b
         /\ a >= 0 => a \div b \in Nat
OBVIOUS

\* Shares and rests.
LEMMA ShareFacts ==
  ASSUME NEW m \in Nat \ {0}, NEW n \in Nat \ {0}, NEW lengths \in [1..m -> Nat \ {0}]
  PROVE  LET K == 1..m
             total == SumOf(lengths, K)
             share == ShareOf(lengths, n)
             rest == RestOf(lengths, n)
             floor == FloorOf(lengths, n)
         IN /\ IsFiniteSet(K) /\ Cardinality(K) = m
            /\ total \in Nat \ {0}
            /\ share \in [K -> Nat] /\ rest \in [K -> Nat] /\ floor \in [K -> Nat \ {0}]
            /\ \A i \in K : /\ n * lengths[i] = total * share[i] + rest[i] /\ rest[i] < total
                            /\ share[i] = (n * lengths[i]) \div total
                            /\ floor[i] = IF share[i] < 1 THEN 1 ELSE share[i]
            /\ SumOf(floor, K) \in Int
            /\ n - SumOf(floor, K) <= m
            /\ (\A i \in K : share[i] >= 1) => n - SumOf(floor, K) >= 0
<1> DEFINE K == 1..m
           total == SumOf(lengths, K)
           share == ShareOf(lengths, n)
           rest == RestOf(lengths, n)
           floor == FloorOf(lengths, n)
<1>1. IsFiniteSet(K) /\ Cardinality(K) = m /\ DOMAIN lengths = K
  BY FS_Interval
<1>2. \A i \in K : lengths[i] \in Nat /\ lengths[i] >= 1 /\ lengths[i] \in Int
  OBVIOUS
<1>3. total \in Nat \ {0}
  <2> DEFINE one == [i \in K |-> 1]
  <2>1. \A i \in K : one[i] \in Int /\ one[i] = 1 /\ one[i] <= lengths[i]
    BY <1>2
  <2> HIDE DEF one, K
  <2>2. SumOf(one, K) = 1 * Cardinality(K)
    BY <1>1, <2>1, SumConstant
  <2>3. SumOf(one, K) <= SumOf(lengths, K)
    BY <1>1, <1>2, <2>1, SumLess
  <2>4. SumOf(lengths, K) \in Int
    BY <1>1, <1>2, SumRemove
  <2>5. QED
    BY <1>1, <2>2, <2>3, <2>4
<1>4. share = [i \in K |-> (n * lengths[i]) \div total]
  BY <1>1 DEF ShareOf
<1>5. floor = [i \in K |-> IF share[i] < 1 THEN 1 ELSE share[i]]
  BY <1>1 DEF FloorOf
<1>6. rest = [i \in K |-> n * lengths[i] - total * share[i]]
  BY <1>1 DEF RestOf
<1> HIDE DEF total, share, rest, floor
<1>7. \A i \in K : n * lengths[i] \in Nat
  BY <1>2
<1>8. /\ share \in [K -> Nat] /\ rest \in [K -> Nat]
      /\ \A i \in K : /\ n * lengths[i] = total * share[i] + rest[i] /\ rest[i] < total
                      /\ share[i] = (n * lengths[i]) \div total
  <2> HIDE DEF K
  <2>1. ASSUME NEW i \in K
        PROVE  /\ share[i] = (n * lengths[i]) \div total
               /\ share[i] \in Nat /\ rest[i] \in Nat
               /\ n * lengths[i] = total * share[i] + rest[i] /\ rest[i] < total
    <3> DEFINE a == n * lengths[i]
    <3>1. a \in Nat /\ share[i] = a \div total /\ rest[i] = a - total * share[i]
      BY <1>4, <1>6, <1>7
    <3> HIDE DEF a
    <3>2. share[i] \in Nat /\ total * share[i] <= a /\ a < total * share[i] + total
      BY <1>3, <3>1, Division
    <3> DEFINE b == total * share[i]
    <3>3. b \in Nat
      BY <1>3, <3>2
    <3> HIDE DEF b
    <3>4. rest[i] = a - b /\ b <= a /\ a < b + total
      BY <3>1, <3>2 DEF b
    <3>5. rest[i] \in Nat /\ a = b + rest[i] /\ rest[i] < total
      BY <1>3, <3>1, <3>3, <3>4
    <3>6. QED
      BY <3>1, <3>2, <3>5 DEF a, b
  <2>2. share \in [K -> Nat] /\ rest \in [K -> Nat]
    BY <1>4, <1>6, <2>1
  <2>3. QED
    BY <2>1, <2>2
<1>9. /\ floor \in [K -> Nat \ {0}]
      /\ \A i \in K : floor[i] = IF share[i] < 1 THEN 1 ELSE share[i]
  <2> HIDE DEF K
  <2>1. \A i \in K : share[i] \in Nat
    BY <1>8
  <2>2. \A i \in K : (IF share[i] < 1 THEN 1 ELSE share[i]) \in Nat \ {0}
    BY <2>1
  <2>3. QED
    BY <1>5, <2>2
<1>10. /\ \A i \in K : share[i] \in Int /\ rest[i] \in Int /\ floor[i] \in Int
       /\ \A i \in K : share[i] <= floor[i] /\ rest[i] <= total - 1 /\ 0 <= rest[i]
  <2> HIDE DEF K
  <2>1. SUFFICES ASSUME NEW i \in K
                 PROVE  /\ share[i] \in Int /\ rest[i] \in Int /\ floor[i] \in Int
                        /\ share[i] <= floor[i] /\ rest[i] <= total - 1 /\ 0 <= rest[i]
    OBVIOUS
  <2>2. share[i] \in Nat /\ rest[i] \in Nat /\ rest[i] < total
    BY <1>8
  <2>3. floor[i] = IF share[i] < 1 THEN 1 ELSE share[i]
    BY <1>9
  <2>4. QED
    BY <1>3, <2>2, <2>3
<1>11. /\ SumOf(share, K) \in Int /\ SumOf(rest, K) \in Int /\ SumOf(floor, K) \in Int
       /\ SumOf(lengths, K) \in Int
  <2> HIDE DEF K
  <2>1. QED
    BY <1>1, <1>2, <1>10, SumRemove
<1>12. n * total = total * SumOf(share, K) + SumOf(rest, K)
  <2> HIDE DEF K
  <2>1. \A i \in K : n * lengths[i] = total * share[i] + rest[i]
    BY <1>8
  <2>2. n * SumOf(lengths, K) = total * SumOf(share, K) + SumOf(rest, K)
    <3>1. n \in Int /\ total \in Int
      BY <1>3
    <3>2. /\ \A i \in K : lengths[i] \in Int
          /\ \A i \in K : rest[i] \in Int
          /\ \A i \in K : share[i] \in Int
      BY <1>2, <1>10
    <3>3. IsFiniteSet(K) /\ Adds(K, n, lengths, total, share, rest)
      BY <1>1, <2>1, <3>2 DEF Adds
    <3>4. QED
      BY <3>1, <3>3, SumLinear
  <2>3. QED
    BY <2>2 DEF total
<1>13. SumOf(share, K) <= SumOf(floor, K)
  <2> HIDE DEF K
  <2>1. QED
    BY <1>1, <1>10, SumLess
<1>14. SumOf(rest, K) <= (total - 1) * m /\ 0 <= SumOf(rest, K)
  <2> DEFINE most == [i \in K |-> total - 1]
             zero == [i \in K |-> 0]
  <2>1. \A i \in K : /\ most[i] \in Int /\ most[i] = total - 1 /\ rest[i] <= most[i]
                     /\ zero[i] \in Int /\ zero[i] = 0 /\ zero[i] <= rest[i]
    BY <1>3, <1>10
  <2> HIDE DEF most, zero, K
  <2>2. SumOf(most, K) = (total - 1) * m /\ SumOf(zero, K) = 0 * m
    <3>1. total - 1 \in Int
      BY <1>3
    <3>2. SumOf(most, K) = (total - 1) * Cardinality(K)
      BY <1>1, <2>1, <3>1, SumConstant
    <3>3. SumOf(zero, K) = 0 * Cardinality(K)
      BY <1>1, <2>1, SumConstant
    <3>4. QED
      BY <1>1, <3>2, <3>3
  <2>3. SumOf(rest, K) <= SumOf(most, K) /\ SumOf(zero, K) <= SumOf(rest, K)
    BY <1>1, <1>10, <2>1, SumLess
  <2>4. QED
    BY <1>11, <2>2, <2>3
<1>15. n - SumOf(share, K) <= m /\ SumOf(share, K) <= n
  <2> DEFINE s == SumOf(share, K)
             r == SumOf(rest, K)
  <2>1. s \in Int /\ r \in Int /\ total \in Int /\ total >= 1
    BY <1>3, <1>11
  <2>2. n * total = total * s + r /\ r <= (total - 1) * m /\ 0 <= r
    BY <1>12, <1>14
  <2> HIDE DEF s, r
  <2>3. (total - 1) * m = total * m - m
    BY <2>1
  <2>4. total * (n - s) = r
    BY <2>1, <2>2
  <2>5. total * (n - s) <= total * m
    BY <2>1, <2>2, <2>3, <2>4
  <2>6. \A a, b \in Int : total * a <= total * b => a <= b
    BY <2>1
  <2>7. total * 0 <= total * (n - s)
    BY <2>1, <2>2, <2>4
  <2>8. n - s <= m /\ 0 <= n - s
    BY <2>1, <2>5, <2>6, <2>7
  <2>9. QED
    BY <2>1, <2>8 DEF s
<1>16. n - SumOf(floor, K) <= m
  BY <1>11, <1>13, <1>15
<1>17. (\A i \in K : share[i] >= 1) => n - SumOf(floor, K) >= 0
  <2>1. SUFFICES ASSUME \A i \in K : share[i] >= 1 PROVE n - SumOf(floor, K) >= 0
    OBVIOUS
  <2> HIDE DEF K
  <2>2. \A i \in K : floor[i] = share[i]
    <3>1. TAKE i \in K
    <3>2. share[i] \in Int /\ share[i] >= 1
      BY <1>10, <2>1
    <3>3. QED
      BY <1>9, <3>2
  <2>3. SumOf(floor, K) = SumOf(share, K)
    BY <1>1, <1>10, <2>2, SumSame
  <2>4. QED
    BY <1>11, <1>15, <2>3
<1>18. QED
  BY <1>1, <1>3, <1>8, <1>9, <1>11, <1>16, <1>17 DEF total, share, rest, floor

\* The opposite order.
Reversed(R, K) == {p \in K \X K : <<p[2], p[1]>> \in R}

\* The order in which intervals are given one more is one, and so is its opposite.
LEMMA AheadOrders ==
  ASSUME NEW m \in Nat \ {0}, NEW n \in Nat \ {0}, NEW lengths \in [1..m -> Nat \ {0}]
  PROVE  LET K == 1..m
             R == Ahead(lengths, n)
             rest == RestOf(lengths, n)
         IN /\ \A i, j \in K : <<i, j>> \in R <=>
                  \/ rest[i] > rest[j]
                  \/ rest[i] = rest[j] /\ lengths[i] > lengths[j]
                  \/ rest[i] = rest[j] /\ lengths[i] = lengths[j] /\ i < j
            /\ Orders(R, K) /\ Orders(Reversed(R, K), K)
            /\ \A i, j \in K : <<i, j>> \in Reversed(R, K) <=> <<j, i>> \in R
<1> DEFINE K == 1..m
           R == Ahead(lengths, n)
           rest == RestOf(lengths, n)
           Before(i, j) == \/ rest[i] > rest[j]
                           \/ rest[i] = rest[j] /\ lengths[i] > lengths[j]
                           \/ rest[i] = rest[j] /\ lengths[i] = lengths[j] /\ i < j
<1>1. rest \in [K -> Nat]
  BY ShareFacts
<1>2. \A p : p \in R <=> p \in K \X K /\ Before(p[1], p[2])
  <2> DEFINE D == DOMAIN lengths
  <2>1. R = {p \in D \X D : Before(p[1], p[2])}
    BY Zenon DEF Ahead
  <2>2. D = K
    OBVIOUS
  <2> HIDE DEF D, K, R, rest
  <2>3. QED
    BY <2>1, <2>2, Zenon
<1>3. \A i \in K : rest[i] \in Int /\ lengths[i] \in Int /\ i \in Int
  BY <1>1
<1> HIDE DEF rest, R
<1>4. ASSUME NEW i \in K, NEW j \in K PROVE <<i, j>> \in R <=> Before(i, j)
  <2> DEFINE p == <<i, j>>
  <2>1. p \in K \X K /\ p[1] = i /\ p[2] = j
    OBVIOUS
  <2> HIDE DEF p
  <2>2. p \in R <=> Before(p[1], p[2])
    BY <1>2, <2>1
  <2>3. p \in R <=> Before(i, j)
    BY <2>1, <2>2
  <2>4. QED
    BY <2>3 DEF p
<1>5. Orders(R, K)
  <2> HIDE DEF K
  <2>1. \A i \in K : <<i, i>> \notin R
    BY <1>3, <1>4
  <2>2. ASSUME NEW i \in K, NEW j \in K, NEW l \in K, <<i, j>> \in R, <<j, l>> \in R
        PROVE  <<i, l>> \in R
    <3>1. Before(i, j) /\ Before(j, l)
      BY <1>4, <2>2
    <3>2. /\ rest[i] \in Int /\ rest[j] \in Int /\ rest[l] \in Int /\ i \in Int /\ j \in Int
          /\ lengths[i] \in Int /\ lengths[j] \in Int /\ lengths[l] \in Int /\ l \in Int
      BY <1>3
    <3>3. Before(i, l)
      BY <3>1, <3>2
    <3>4. QED
      BY <1>4, <3>3
  <2>3. ASSUME NEW i \in K, NEW j \in K PROVE i = j \/ <<i, j>> \in R \/ <<j, i>> \in R
    <3>1. /\ rest[i] \in Int /\ rest[j] \in Int /\ i \in Int /\ j \in Int
          /\ lengths[i] \in Int /\ lengths[j] \in Int
      BY <1>3
    <3>2. i = j \/ Before(i, j) \/ Before(j, i)
      BY <3>1
    <3>3. QED
      BY <1>4, <3>2
  <2>4. QED
    BY <2>1, <2>2, <2>3 DEF Orders
<1>6. \A i, j \in K : <<i, j>> \in Reversed(R, K) <=> <<j, i>> \in R
  <2> HIDE DEF K
  <2>1. QED
    BY DEF Reversed
<1>7. Orders(Reversed(R, K), K)
  <2> HIDE DEF K
  <2>1. QED
    BY <1>5, <1>6 DEF Orders
<1>8. QED
  BY <1>4, <1>5, <1>6, <1>7 DEF rest, R

\* One more for the d first in an order is d more.
LEMMA OneMore ==
  ASSUME NEW K, IsFiniteSet(K), NEW R, Orders(R, K), NEW d \in 0..Cardinality(K),
         NEW more, \A i \in K : more[i] = IF Rank(R, K, i) < d THEN 1 ELSE 0
  PROVE  SumOf(more, K) = d
<1> DEFINE P == {i \in K : Rank(R, K, i) < d}
           Q == K \ P
<1>1. IsFiniteSet(P) /\ IsFiniteSet(Q) /\ P \cup Q = K /\ P \cap Q = {} /\ P \in SUBSET K /\ Q \in SUBSET K
  BY FS_Subset, FS_Difference
<1>2. Cardinality(P) = d
  BY RankTaken
<1>3. \A i \in K : more[i] \in Int
  OBVIOUS
<1>4. \A i \in P : more[i] = 1
  OBVIOUS
<1>5. \A i \in Q : more[i] = 0
  OBVIOUS
<1> HIDE DEF P, Q
<1>6. SumOf(more, K) = SumOf(more, P) + SumOf(more, Q)
  BY <1>1, <1>3, SumDisjoint
<1>7. SumOf(more, P) = 1 * Cardinality(P)
  BY <1>1, <1>4, SumConstant
<1>8. SumOf(more, Q) = 0 * Cardinality(Q)
  BY <1>1, <1>5, SumConstant
<1>9. Cardinality(Q) \in Nat
  BY <1>1, FS_CardinalityType
<1>10. QED
  BY <1>2, <1>6, <1>7, <1>8, <1>9

\* What the prover has to be told of products.
LEMMA Products ==
  ASSUME NEW a \in Int, NEW b \in Int, NEW c \in Int, c >= 1
  PROVE  /\ a > b => c * a > c * b
         /\ a <= b => c * a <= c * b
         /\ c * (a + 1) = c * a + c
OBVIOUS

\* _allocate_interval_slice_counts: every interval gets a slice, together they get all of
\* them, none gets two more than its share or than the one it must have, and if all shares
\* are one at least then none gets less and a longer one no fewer.
LEMMA AllocationSound ==
  ASSUME NEW m \in Nat \ {0}, NEW n \in Nat \ {0}, NEW lengths \in [1..m -> Nat \ {0}],
         m <= n
  PROVE  LET K == 1..m
             share == ShareOf(lengths, n)
             counts == Allocation(lengths, n)
         IN /\ counts \in [K -> Nat \ {0}]
            /\ SumOf(counts, K) = n
            /\ \A i \in K : counts[i] <= (IF share[i] < 1 THEN 1 ELSE share[i]) + 1
            /\ (\A i \in K : share[i] >= 1) =>
                  /\ \A i \in K : share[i] <= counts[i]
                  /\ \A i, j \in K : lengths[i] > lengths[j] => counts[i] >= counts[j]
<1> DEFINE K == 1..m
           total == SumOf(lengths, K)
           share == ShareOf(lengths, n)
           rest == RestOf(lengths, n)
           floor == FloorOf(lengths, n)
           R == Ahead(lengths, n)
           spare == [i \in K |-> floor[i] - 1]
           lacking == n - SumOf(floor, K)
           Less(i) == Min({spare[i], Max({0, -lacking - SumOf(spare, {j \in K : <<i, j>> \in R})})})
           counts == Allocation(lengths, n)
<1>1. /\ IsFiniteSet(K) /\ Cardinality(K) = m
      /\ total \in Nat \ {0}
      /\ share \in [K -> Nat] /\ rest \in [K -> Nat] /\ floor \in [K -> Nat \ {0}]
      /\ \A i \in K : /\ n * lengths[i] = total * share[i] + rest[i] /\ rest[i] < total
                      /\ floor[i] = IF share[i] < 1 THEN 1 ELSE share[i]
      /\ SumOf(floor, K) \in Int
      /\ lacking <= m
      /\ (\A i \in K : share[i] >= 1) => lacking >= 0
  <2>1. /\ IsFiniteSet(K) /\ Cardinality(K) = m
        /\ total \in Nat \ {0}
        /\ share \in [K -> Nat] /\ rest \in [K -> Nat] /\ floor \in [K -> Nat \ {0}]
        /\ \A i \in K : /\ n * lengths[i] = total * share[i] + rest[i] /\ rest[i] < total
                        /\ share[i] = (n * lengths[i]) \div total
                        /\ floor[i] = IF share[i] < 1 THEN 1 ELSE share[i]
        /\ SumOf(floor, K) \in Int
        /\ n - SumOf(floor, K) <= m
        /\ (\A i \in K : share[i] >= 1) => n - SumOf(floor, K) >= 0
    BY ShareFacts
  <2> HIDE DEF K, total, share, rest, floor
  <2>2. QED
    BY <2>1
<1>2. /\ \A i, j \in K : <<i, j>> \in R <=>
                  \/ rest[i] > rest[j]
                  \/ rest[i] = rest[j] /\ lengths[i] > lengths[j]
                  \/ rest[i] = rest[j] /\ lengths[i] = lengths[j] /\ i < j
      /\ Orders(R, K) /\ Orders(Reversed(R, K), K)
      /\ \A i, j \in K : <<i, j>> \in Reversed(R, K) <=> <<j, i>> \in R
  BY AheadOrders
<1>3. DOMAIN lengths = K
  OBVIOUS
<1>4. counts = IF lacking >= 0
               THEN [i \in K |-> floor[i] + IF Rank(R, K, i) < lacking THEN 1 ELSE 0]
               ELSE [i \in K |-> floor[i] - Less(i)]
  BY <1>3 DEF Allocation, Rank
<1>5. \A i \in K : lengths[i] \in Nat /\ lengths[i] >= 1
  OBVIOUS
<1> HIDE DEF K, total, share, rest, floor, R, counts
<1>6. lacking \in Int
  BY <1>1
<1>7. CASE lacking >= 0
  <2> DEFINE more == [i \in K |-> IF Rank(R, K, i) < lacking THEN 1 ELSE 0]
  <2> HIDE DEF lacking
  <2>1. \A i \in K : more[i] = IF Rank(R, K, i) < lacking THEN 1 ELSE 0
    OBVIOUS
  <2>2. lacking \in 0..Cardinality(K)
    BY <1>1, <1>6, <1>7
  <2>3. \A i \in K : counts[i] = floor[i] + more[i]
    BY <1>4, <1>7
  <2>4. DOMAIN counts = K
    BY <1>4, <1>7
  <2> HIDE DEF more
  <2>5. SumOf(more, K) = lacking
    BY <1>1, <1>2, <2>1, <2>2, OneMore
  <2>6. \A i \in K : /\ floor[i] \in Nat /\ floor[i] >= 1 /\ more[i] \in {0, 1}
                     /\ floor[i] \in Int /\ more[i] \in Int
    BY <1>1, <2>1
  <2>7. SumOf(counts, K) = SumOf(floor, K) + SumOf(more, K)
    <3>1. Plus(K, floor, more, counts)
      BY <2>3, <2>6 DEF Plus
    <3>2. QED
      BY <1>1, <3>1, SumPlus
  <2>8. SumOf(counts, K) = n
    BY <1>1, <2>5, <2>7 DEF lacking
  <2>9. \A i \in K : /\ counts[i] \in Nat \ {0}
                     /\ counts[i] <= (IF share[i] < 1 THEN 1 ELSE share[i]) + 1
    <3>1. TAKE i \in K
    <3>2. /\ counts[i] = floor[i] + more[i] /\ floor[i] \in Nat /\ floor[i] >= 1
          /\ more[i] \in {0, 1} /\ floor[i] = IF share[i] < 1 THEN 1 ELSE share[i]
      BY <1>1, <2>3, <2>6
    <3> DEFINE e == IF share[i] < 1 THEN 1 ELSE share[i]
    <3>3. floor[i] = e
      BY <3>2
    <3> HIDE DEF e
    <3>4. counts[i] \in Nat \ {0} /\ counts[i] <= e + 1
      BY <3>2, <3>3
    <3>5. QED
      BY <3>4 DEF e
  <2>10. counts \in [K -> Nat \ {0}]
    <3>1. counts = [i \in K |-> counts[i]]
      BY <1>4, <1>7
    <3>2. QED
      BY <2>9, <3>1
  <2>11. ASSUME \A i \in K : share[i] >= 1, NEW i \in K
         PROVE  /\ share[i] <= counts[i] /\ counts[i] = share[i] + more[i]
                /\ share[i] \in Int /\ rest[i] \in Int
    <3>1. /\ counts[i] = floor[i] + more[i] /\ more[i] \in {0, 1}
          /\ floor[i] = IF share[i] < 1 THEN 1 ELSE share[i]
      BY <1>1, <2>3, <2>6
    <3>2. share[i] \in Int /\ rest[i] \in Int /\ share[i] >= 1
      BY <1>1, <2>11
    <3>3. QED
      BY <3>1, <3>2
  <2>12. ASSUME \A i \in K : share[i] >= 1, NEW i \in K, NEW j \in K, lengths[i] > lengths[j]
         PROVE  counts[i] >= counts[j]
    <3>1. /\ counts[i] = share[i] + more[i] /\ counts[j] = share[j] + more[j]
          /\ share[i] \in Int /\ share[j] \in Int /\ rest[i] \in Int /\ rest[j] \in Int
          /\ more[i] \in {0, 1} /\ more[j] \in {0, 1}
      BY <2>6, <2>11, <2>12
    <3>2. /\ n * lengths[i] = total * share[i] + rest[i]
          /\ n * lengths[j] = total * share[j] + rest[j]
          /\ rest[i] < total /\ rest[j] < total /\ 0 <= rest[i] /\ 0 <= rest[j]
          /\ total \in Int /\ total >= 1
      BY <1>1
    <3>3. n * lengths[i] > n * lengths[j]
      <4>1. lengths[i] \in Int /\ lengths[j] \in Int /\ n \in Int /\ n >= 1
        BY <1>5
      <4>2. QED
        BY <2>12, <4>1, Products
    <3> DEFINE a == n * lengths[i]
               b == n * lengths[j]
    <3>4. a \in Int /\ b \in Int
      BY <1>5
    <3>5. /\ a = total * share[i] + rest[i] /\ b = total * share[j] + rest[j] /\ a > b
      BY <3>2, <3>3
    <3> HIDE DEF a, b
    <3>6. share[i] >= share[j]
      <4>1. SUFFICES ASSUME share[i] + 1 <= share[j] PROVE FALSE
        BY <3>1
      <4>2. total * (share[i] + 1) <= total * share[j]
        <5>1. share[i] + 1 \in Int /\ share[j] \in Int /\ total \in Int /\ total >= 1
          BY <3>1, <3>2
        <5> HIDE DEF total, share
        <5>2. QED
          BY <4>1, <5>1, Products
      <4>3. total * (share[i] + 1) = total * share[i] + total
        BY <3>1, <3>2, Products
      <4>4. total * share[i] \in Int /\ total * share[j] \in Int
        BY <3>1, <3>2
      <4>5. QED
        <5> DEFINE u == total * share[i]
                   v == total * share[j]
        <5>1. u \in Int /\ v \in Int /\ u + total <= v
          BY <4>2, <4>3, <4>4
        <5>2. a = u + rest[i] /\ b = v + rest[j]
          BY <3>5
        <5> HIDE DEF u, v
        <5>3. QED
          BY <3>1, <3>2, <3>4, <3>5, <5>1, <5>2
    <3>7. CASE share[i] > share[j]
      BY <3>1, <3>7
    <3>8. CASE share[i] = share[j]
      <4>1. total * share[i] \in Int
        BY <3>1, <3>2
      <4>2. rest[i] > rest[j]
        BY <3>1, <3>4, <3>5, <3>8, <4>1
      <4>3. <<i, j>> \in R
        BY <1>2, <4>2
      <4>4. Rank(R, K, i) < Rank(R, K, j)
        BY <1>1, <1>2, <4>3, RankOrder
      <4>5. Rank(R, K, i) \in Int /\ Rank(R, K, j) \in Int
        BY <1>1, <1>2, RankOrder
      <4>6. more[i] >= more[j]
        BY <1>6, <2>1, <4>4, <4>5
      <4>7. QED
        BY <3>1, <3>8, <4>6
    <3>9. QED
      BY <3>1, <3>6, <3>7, <3>8
  <2>13. QED
    BY <2>8, <2>9, <2>10, <2>11, <2>12 DEF K, share, counts
<1>8. CASE ~(lacking >= 0)
  <2> DEFINE taken == [i \in K |-> Less(i)]
             t == -lacking
             S == Reversed(R, K)
  <2>1. t \in Nat
    BY <1>6, <1>8
  <2>2. spare \in [K -> Nat]
    BY <1>1
  <2>3. \A i \in K : spare[i] = floor[i] - 1
    OBVIOUS
  <2>4. \A i \in K : {j \in K : <<i, j>> \in R} = {j \in K : <<j, i>> \in S}
    BY <1>2
  <2>5. \A i \in K : taken[i] = Min({spare[i], Max({0, t - SumOf(spare, {j \in K : <<j, i>> \in S})})})
    BY <2>4
  <2> HIDE DEF spare, lacking, taken, t, S
  <2>6. ASSUME NEW i \in K
        PROVE  LET left == t - SumOf(spare, {j \in K : <<j, i>> \in S})
               IN  taken[i] = IF left <= 0 THEN 0
                              ELSE IF left <= spare[i] THEN left ELSE spare[i]
    <3> DEFINE P == {j \in K : <<j, i>> \in S}
               left == t - SumOf(spare, P)
    <3>1. IsFiniteSet(P) /\ \A j \in P : spare[j] \in Int
      <4>1. P \in SUBSET K /\ \A j \in K : spare[j] \in Int
        BY <2>2
      <4> HIDE DEF P
      <4>2. QED
        BY <1>1, <4>1, FS_Subset
    <3> HIDE DEF P
    <3>2. left \in Int
      BY <2>1, <3>1, SumRemove
    <3>3. spare[i] \in Nat /\ spare[i] \in Int
      BY <2>2
    <3>4. taken[i] = Min({spare[i], Max({0, left})})
      BY <2>5 DEF P
    <3> HIDE DEF left
    <3>5. Max({0, left}) = IF 0 <= left THEN left ELSE 0
      BY <3>2, OfTwo
    <3>6. Max({0, left}) \in Int
      BY <3>2, <3>5
    <3>7. taken[i] = IF spare[i] <= Max({0, left}) THEN spare[i] ELSE Max({0, left})
      <4> DEFINE b == Max({0, left})
      <4>1. b \in Int /\ taken[i] = Min({spare[i], b})
        BY <3>4, <3>6
      <4> HIDE DEF b
      <4>2. taken[i] = IF spare[i] <= b THEN spare[i] ELSE b
        BY <3>3, <4>1, OfTwo
      <4>3. QED
        BY <4>2 DEF b
    <3>8. taken[i] = IF left <= 0 THEN 0
                     ELSE IF left <= spare[i] THEN left ELSE spare[i]
      BY <3>2, <3>3, <3>5, <3>7
    <3>9. QED
      BY <3>8 DEF left, P
  <2>7. /\ \A i \in K : taken[i] \in Nat /\ taken[i] <= spare[i]
        /\ SumOf(taken, K) = IF t <= SumOf(spare, K) THEN t ELSE SumOf(spare, K)
    <3>1. Orders(S, K)
      BY <1>2 DEF S
    <3>2. QED
      <4>1. TakesInTurn(K, S, spare, t, taken)
        BY <2>6 DEF TakesInTurn
      <4>2. QED
        <5>1. IsFiniteSet(K)
          BY <1>1
        <5> HIDE DEF Less
        <5>2. QED
          BY <2>1, <2>2, <3>1, <4>1, <5>1, TakenInTurn
  <2>8. SumOf(floor, K) = SumOf(spare, K) + m /\ SumOf(spare, K) \in Int
    <3> DEFINE one == [i \in K |-> 1]
    <3>1. \A i \in K : one[i] = 1 /\ one[i] \in Int /\ spare[i] \in Int /\ floor[i] = spare[i] + one[i]
      BY <1>1, <2>2, <2>3
    <3> HIDE DEF one
    <3>2. SumOf(one, K) = 1 * Cardinality(K)
      <4>1. 1 \in Int /\ \A i \in K : one[i] = 1
        BY <3>1
      <4>2. QED
        BY <1>1, <4>1, SumConstant
    <3>3. SumOf(floor, K) = SumOf(spare, K) + SumOf(one, K) /\ SumOf(spare, K) \in Int
      <4>1. Plus(K, spare, one, floor)
        BY <1>1, <3>1 DEF Plus
      <4>2. QED
        BY <1>1, <4>1, SumPlus
    <3>4. QED
      BY <1>1, <3>2, <3>3
  <2>9. t <= SumOf(spare, K) /\ t = SumOf(floor, K) - n
    BY <1>1, <2>8 DEF t, lacking
  <2>10. SumOf(taken, K) = SumOf(floor, K) - n
    BY <2>7, <2>9
  <2>11. \A i \in K : counts[i] = floor[i] - taken[i]
    BY <1>4, <1>8 DEF taken, lacking, spare
  <2>12. \A i \in K : /\ counts[i] \in Nat \ {0} /\ counts[i] \in Int /\ taken[i] \in Int
                      /\ counts[i] <= floor[i] /\ floor[i] = counts[i] + taken[i]
    <3>1. TAKE i \in K
    <3>2. floor[i] \in Nat /\ floor[i] >= 1 /\ taken[i] \in Nat /\ taken[i] <= floor[i] - 1
      BY <1>1, <2>3, <2>7
    <3>3. QED
      BY <2>11, <3>2
  <2>13. SumOf(floor, K) = SumOf(counts, K) + SumOf(taken, K) /\ SumOf(counts, K) \in Int
    <3>1. Plus(K, counts, taken, floor)
      BY <1>1, <2>12 DEF Plus
    <3>2. QED
      BY <1>1, <3>1, SumPlus
  <2>14. SumOf(counts, K) = n
    BY <1>1, <2>10, <2>13
  <2>15. counts \in [K -> Nat \ {0}]
    <3>1. counts = [i \in K |-> counts[i]]
      BY <1>4, <1>8 DEF lacking, spare
    <3>2. QED
      BY <2>12, <3>1
  <2>16. \A i \in K : counts[i] <= (IF share[i] < 1 THEN 1 ELSE share[i]) + 1
    <3>1. TAKE i \in K
    <3>2. floor[i] \in Int /\ floor[i] = IF share[i] < 1 THEN 1 ELSE share[i]
      BY <1>1
    <3>3. QED
      BY <2>12, <3>2
  <2>17. ~(\A i \in K : share[i] >= 1)
    BY <1>1, <1>8 DEF lacking
  <2>18. QED
    BY <2>14, <2>15, <2>16, <2>17 DEF K, share, counts
<1>9. QED
  BY <1>7, <1>8

-----------------------------------------------------------------------------
(* The points a slide is cut at: _merge_close_points and linspace.         *)

\* Quotients are in the order of what is divided.
LEMMA Quotients ==
  ASSUME NEW a \in Int, NEW b \in Nat \ {0}, NEW c \in Int
  PROVE  /\ c * b <= a => c <= a \div b
         /\ a < c * b => a \div b < c
         /\ (c * b) \div b = c
<1>1. ASSUME NEW q \in Int, NEW r \in Int, q < r PROVE b * q + b <= b * r
  <2>1. q + 1 <= r /\ q + 1 \in Int /\ b \in Int /\ b >= 1
    BY <1>1
  <2>2. b * (q + 1) <= b * r /\ b * (q + 1) = b * q + b
    BY <2>1, Products
  <2>3. QED
    BY <2>2
<1>2. ASSUME NEW d \in Int PROVE c * b <= d => c <= d \div b
  <2> DEFINE q == d \div b
  <2>1. q \in Int /\ d < b * q + b
    BY <1>2, Division
  <2>2. c * b = b * c /\ b * c \in Int /\ b * q \in Int
    BY <2>1
  <2> HIDE DEF q
  <2>3. ~(c <= q) => b * q + b <= b * c
    BY <1>1, <2>1
  <2>4. c * b <= d => c <= q
    BY <2>1, <2>2, <2>3
  <2>5. QED
    BY <2>4 DEF q
<1>3. ASSUME NEW d \in Int, NEW e \in Int PROVE d < e * b => d \div b < e
  <2> DEFINE q == d \div b
  <2>1. q \in Int /\ b * q <= d
    BY <1>3, Division
  <2>2. e * b = b * e /\ b * e \in Int /\ b * q \in Int /\ b \in Int /\ b >= 1
    BY <2>1
  <2> HIDE DEF q
  <2>3. ~(q < e) => b * e <= b * q
    BY <2>1, <2>2, Products
  <2>4. d < e * b => q < e
    BY <2>1, <2>2, <2>3
  <2>5. QED
    BY <2>4 DEF q
<1>4. (c * b) \div b = c
  <2> DEFINE d == c * b
  <2>1. d \in Int /\ d \div b \in Int
    BY Division
  <2>2. c <= d \div b
    BY <1>2, <2>1
  <2>3. d < (c + 1) * b
    <3>1. b * (c + 1) = b * c + b /\ b \in Int /\ b >= 1
      BY Products
    <3>2. b * c = c * b /\ (c + 1) * b = b * (c + 1)
      OBVIOUS
    <3>3. QED
      BY <3>1, <3>2
  <2>4. d \div b < c + 1
    BY <1>3, <2>1, <2>3
  <2>5. QED
    BY <2>1, <2>2, <2>4
<1>5. QED
  BY <1>2, <1>3, <1>4

\* _merge_close_points gives numbers between the least and the greatest, and the numbers
\* themselves if only equal ones are merged.
LEMMA MergeCloseFacts ==
  ASSUME NEW k \in Nat, NEW lo \in Int, NEW hi \in Int, NEW values \in [1..k -> lo..hi],
         NEW mergeTol \in Nat
  PROVE  LET merged == MergeClose(values, mergeTol)
         IN /\ merged \in SUBSET (lo..hi)
            /\ k > 0 => merged # {}
            /\ mergeTol = 0 => \A i \in 1..k : values[i] \in merged
            /\ \A V : mergeTol = 0 /\ (\A i \in 1..k : values[i] \in V) => merged \subseteq V
<1> DEFINE K == 1..k
           C(i) == ClusterOf(values, mergeTol, i)
           Mean(D) == SumOf(values, D) \div Cardinality(D)
           merged == MergeClose(values, mergeTol)
<1>1. IsFiniteSet(K) /\ DOMAIN values = K
  BY FS_Interval
<1>2. \A i \in K : values[i] \in Int /\ lo <= values[i] /\ values[i] <= hi
  OBVIOUS
<1>3. merged = {Mean(C(i)) : i \in K}
  BY <1>1 DEF MergeClose
<1>4. ASSUME NEW i \in K
      PROVE  /\ C(i) \in SUBSET K /\ i \in C(i)
             /\ mergeTol = 0 => \A j \in C(i) : values[j] = values[i]
  <2> DEFINE Gapless(low, high) ==
               \A v \in ToSet(values) : (low <= v /\ v < high) =>
                   \E w \in ToSet(values) : v < w /\ w <= v + mergeTol
  <2>1. \A j : j \in C(i) <=> /\ j \in K
                              /\ IF values[i] <= values[j] THEN Gapless(values[i], values[j])
                                 ELSE Gapless(values[j], values[i])
    BY <1>1 DEF ClusterOf
  <2>2. ToSet(values) = {values[j] : j \in K}
    BY <1>1 DEF ToSet
  <2> HIDE DEF C
  <2>3. \A v \in ToSet(values) : v \in Int
    BY <1>2, <2>2
  <2>4. i \in C(i)
    <3>1. Gapless(values[i], values[i]) /\ values[i] <= values[i]
      BY <1>2, <2>3
    <3>2. QED
      BY <2>1, <3>1
  <2>5. ASSUME mergeTol = 0, NEW j \in C(i) PROVE values[j] = values[i]
    <3>1. j \in K /\ values[i] \in Int /\ values[j] \in Int
      BY <1>2, <2>1
    <3>2. values[i] \in ToSet(values) /\ values[j] \in ToSet(values)
      BY <2>2, <3>1
    <3>3. \A low, high \in ToSet(values) : Gapless(low, high) => ~(low < high)
      BY <2>3, <2>5
    <3>4. QED
      BY <2>1, <3>1, <3>2, <3>3
  <2>6. QED
    BY <2>1, <2>4, <2>5
<1> HIDE DEF C
<1>5. ASSUME NEW i \in K
      PROVE  /\ Mean(C(i)) \in lo..hi
             /\ mergeTol = 0 => Mean(C(i)) = values[i]
  <2> DEFINE D == C(i)
             c == Cardinality(D)
             s == SumOf(values, D)
             low == [x \in D |-> lo]
             high == [x \in D |-> hi]
  <2>1. /\ IsFiniteSet(D) /\ c \in Nat \ {0}
        /\ \A x \in D : /\ values[x] \in Int
                        /\ low[x] = lo /\ low[x] \in Int /\ low[x] <= values[x]
                        /\ high[x] = hi /\ high[x] \in Int /\ values[x] <= high[x]
    <3>1. D \in SUBSET K /\ i \in D
      BY <1>4
    <3>2. IsFiniteSet(D)
      BY <1>1, <3>1, FS_Subset
    <3>3. c \in Nat /\ c # 0
      BY <3>1, <3>2, FS_CardinalityType, FS_EmptySet
    <3>4. QED
      BY <1>2, <3>1, <3>2, <3>3
  <2>a. mergeTol = 0 => \A x \in D : values[x] = values[i]
    BY <1>4
  <2> HIDE DEF D, low, high
  <2>2. SumOf(low, D) = lo * c /\ SumOf(high, D) = hi * c
    <3>1. \A x \in D : low[x] = lo
      BY <2>1
    <3>2. \A x \in D : high[x] = hi
      BY <2>1
    <3>3. QED
      BY <2>1, <3>1, <3>2, SumConstant
  <2>3. SumOf(low, D) <= s /\ s <= SumOf(high, D)
    BY <2>1, SumLess
  <2>4. s \in Int
    BY <2>1, SumRemove
  <2>5. s < (hi + 1) * c
    <3>1. c \in Int /\ c >= 1
      BY <2>1
    <3>2. c * (hi + 1) = c * hi + c /\ (hi + 1) * c = c * (hi + 1) /\ c * hi = hi * c
      BY <3>1, Products
    <3>3. hi * c \in Int
      BY <3>1
    <3>4. QED
      BY <2>2, <2>3, <2>4, <3>1, <3>2, <3>3
  <2>6. s \div c \in Int /\ lo <= s \div c /\ s \div c < hi + 1
    <3>1. lo * c <= s /\ hi + 1 \in Int
      BY <2>2, <2>3
    <3> HIDE DEF s, c
    <3>2. s \div c \in Int
      BY <2>1, <2>4, Division
    <3>3. QED
      BY <2>1, <2>4, <2>5, <3>1, <3>2, Quotients
  <2>7. mergeTol = 0 => s \div c = values[i]
    <3>1. SUFFICES ASSUME mergeTol = 0 PROVE s \div c = values[i]
      OBVIOUS
    <3>2. s = values[i] * c /\ values[i] \in Int
      <4>1. \A x \in D : values[x] = values[i]
        BY <2>a, <3>1
      <4>2. values[i] \in Int
        BY <1>2
      <4>3. QED
        BY <2>1, <4>1, <4>2, SumConstant
    <3> HIDE DEF s, c
    <3>3. QED
      BY <2>1, <3>2, Quotients
  <2>8. Mean(C(i)) = s \div c
    BY DEF D
  <2> HIDE DEF s, c
  <2>9. QED
    BY <2>6, <2>7, <2>8
<1> HIDE DEF Mean
<1>6. merged \in SUBSET (lo..hi)
  BY <1>3, <1>5
<1>7. k > 0 => merged # {}
  BY <1>3
<1>8. /\ mergeTol = 0 => \A i \in K : values[i] \in merged
      /\ \A V : mergeTol = 0 /\ (\A i \in K : values[i] \in V) => merged \subseteq V
  BY <1>3, <1>5
<1>9. QED
  BY <1>6, <1>7, <1>8

\* A set of two.
LEMMA TwoElements ==
  ASSUME NEW a, NEW b, a # b
  PROVE  IsFiniteSet({a, b}) /\ Cardinality({a, b}) = 2
<1>1. IsFiniteSet({a}) /\ Cardinality({a}) = 1 /\ b \notin {a} /\ {a} \cup {b} = {a, b}
  BY FS_Singleton
<1>2. QED
  BY <1>1, FS_AddElement

\* The points the slide is cut at lie in it, among them its ends, and all roots inside if
\* none are merged.
LEMMA CutPointsFacts ==
  ASSUME NEW k \in Nat, NEW left \in Int, NEW right \in Int, left < right,
         NEW roots \in [1..k -> left..right], NEW mergeTol \in Nat
  PROVE  LET points == CutPoints(roots, left, right, mergeTol)
         IN /\ points \in SUBSET (left..right)
            /\ left \in points /\ right \in points
            /\ mergeTol = 0 => \A i \in 1..k : roots[i] \in points
<1> DEFINE tol == Tenth(mergeTol)
           internal == {x \in MergeClose(roots, mergeTol) : left + tol < x /\ x < right - tol}
           S == internal \cup {left, right}
           values == Ascending(S)
           c == Cardinality(S)
           merged == MergeClose(values, mergeTol)
           points == CutPoints(roots, left, right, mergeTol)
<1>1. points = IF internal = {} \/ Cardinality(merged) < 2 THEN {left, right}
               ELSE (merged \ {Min(merged), Max(merged)}) \cup {left, right}
  BY DEF CutPoints
<1>2. tol \in Nat /\ (mergeTol = 0 => tol = 0)
  BY DEF Tenth
<1>3. /\ MergeClose(roots, mergeTol) \in SUBSET (left..right)
      /\ mergeTol = 0 => \A i \in 1..k : roots[i] \in MergeClose(roots, mergeTol)
  BY MergeCloseFacts
<1> HIDE DEF tol
<1>4. S \in SUBSET (left..right) /\ left \in S /\ right \in S /\ internal \subseteq S
  BY <1>3
<1>5. IsFiniteSet(S) /\ S \in SUBSET Int
  <2>1. IsFiniteSet(left..right)
    BY FS_Interval
  <2> HIDE DEF S
  <2>2. IsFiniteSet(S)
    BY <1>4, <2>1, FS_Subset, Zenon
  <2>3. QED
    BY <1>4, <2>2
<1>6. \A x \in internal : left < x /\ x < right
  BY <1>2, <1>3
<1>7. mergeTol = 0 => \A i \in 1..k : roots[i] = left \/ roots[i] = right \/ roots[i] \in internal
  <2>1. SUFFICES ASSUME mergeTol = 0, NEW i \in 1..k
                 PROVE  roots[i] = left \/ roots[i] = right \/ roots[i] \in internal
    OBVIOUS
  <2>2. roots[i] \in left..right /\ roots[i] \in MergeClose(roots, mergeTol)
    BY <1>3, <2>1
  <2>3. (left + tol < roots[i] /\ roots[i] < right - tol) \/ roots[i] = left \/ roots[i] = right
    BY <1>2, <2>1, <2>2
  <2>4. QED
    BY <2>2, <2>3
<1> HIDE DEF internal, S
<1>8. /\ c \in Nat /\ values \in [1..c -> S]
      /\ \A x \in S : \E i \in 1..c : values[i] = x
  BY <1>5, AscendingFacts
<1>9. /\ merged \in SUBSET (left..right)
      /\ mergeTol = 0 => merged = S
  <2> HIDE DEF c, values
  <2>1. values \in [1..c -> left..right]
    BY <1>4, <1>8
  <2>2. c \in Nat /\ \A i \in 1..c : values[i] \in S
    BY <1>8
  <2>3. merged \in SUBSET (left..right)
    BY <2>1, <2>2, MergeCloseFacts
  <2>4. mergeTol = 0 => \A i \in 1..c : values[i] \in merged
    BY <2>1, <2>2, MergeCloseFacts
  <2>5. mergeTol = 0 => merged \subseteq S
    BY <2>1, <2>2, MergeCloseFacts
  <2> HIDE DEF merged
  <2>6. mergeTol = 0 => S \subseteq merged
    BY <1>8, <2>4
  <2>7. QED
    BY <2>3, <2>5, <2>6
<1> HIDE DEF values, c, merged, points
<1>10. {left, right} \in SUBSET (left..right)
  OBVIOUS
<1>11. points \in SUBSET (left..right) /\ left \in points /\ right \in points
  BY <1>1, <1>9, <1>10
<1>12. ASSUME mergeTol = 0, NEW i \in 1..k PROVE roots[i] \in points
  <2>1. CASE roots[i] = left \/ roots[i] = right
    BY <1>11, <2>1
  <2>2. CASE roots[i] \in internal
    <3> DEFINE x == roots[i]
    <3>1. merged = S /\ left < x /\ x < right /\ x \in S
      BY <1>4, <1>6, <1>9, <1>12, <2>2
    <3>2. internal # {}
      BY <2>2
    <3>3. IsFiniteSet(merged) /\ merged \in SUBSET Int /\ merged # {}
      BY <1>5, <3>1
    <3>4. Min(merged) <= left /\ right <= Max(merged) /\ Min(merged) \in Int /\ Max(merged) \in Int
      BY <1>4, <3>1, <3>3, Extremes
    <3>5. Cardinality(merged) >= 2
      <4>1. {left, right} \in SUBSET merged /\ IsFiniteSet(merged)
        BY <1>4, <3>1, <3>3
      <4>2. Cardinality({left, right}) <= Cardinality(merged)
        BY <4>1, FS_Subset
      <4>3. Cardinality({left, right}) = 2
        <5>1. left # right
          OBVIOUS
        <5>2. QED
          BY <5>1, TwoElements, Zenon
      <4>4. Cardinality(merged) \in Nat
        BY <3>3, FS_CardinalityType
      <4>5. QED
        BY <4>2, <4>3, <4>4
    <3>6. x # Min(merged) /\ x # Max(merged)
      BY <3>1, <3>4
    <3>7. points = (merged \ {Min(merged), Max(merged)}) \cup {left, right}
      <4>1. Cardinality(merged) \in Nat
        BY <3>3, FS_CardinalityType
      <4>2. QED
        BY <1>1, <3>2, <3>5, <4>1
    <3>8. QED
      BY <3>1, <3>6, <3>7
  <2>3. QED
    BY <1>7, <1>12, <2>1, <2>2
<1>13. QED
  BY <1>11, <1>12 DEF points

\* Differences add up to the difference of the ends.
LEMMA Telescope ==
  ASSUME NEW m \in Nat, NEW g, \A i \in 1..(m + 1) : g[i] \in Int,
         NEW f, \A i \in 1..m : f[i] = g[i + 1] - g[i]
  PROVE  SumOf(f, 1..m) = g[m + 1] - g[1]
<1> DEFINE Bad == {k \in 0..m : SumOf(f, 1..k) # g[k + 1] - g[1]}
<1>1. \A i \in 1..m : f[i] \in Int
  OBVIOUS
<1>2. Bad = {}
  <2>1. SUFFICES ASSUME Bad # {} PROVE FALSE
    OBVIOUS
  <2>2. PICK k \in Bad : \A l \in Bad : k <= l
    <3>1. Bad \subseteq Nat
      OBVIOUS
    <3> HIDE DEF Bad
    <3>2. QED
      BY <2>1, <3>1, LeastNatural
  <2>3. k \in 0..m /\ SumOf(f, 1..k) # g[k + 1] - g[1]
    OBVIOUS
  <2>4. CASE k = 0
    <3>1. 1..0 = {} /\ IsFiniteSet({})
      BY FS_EmptySet
    <3>2. SumOf(f, {}) = 0
      BY <3>1, SumRemove
    <3>3. g[0 + 1] - g[1] = 0
      OBVIOUS
    <3>4. QED
      BY <2>3, <2>4, <3>1, <3>2, <3>3
  <2>5. CASE k # 0
    <3> DEFINE j == k - 1
    <3>1. j \in 0..m /\ ~(k <= j) /\ j + 1 = k /\ k \in 1..m /\ k \in 1..k
      BY <2>3, <2>5
    <3>2. j \notin Bad
      <4> HIDE DEF Bad, j
      <4>1. QED
        BY <2>2, <3>1
    <3>3. SumOf(f, 1..j) = g[k] - g[1]
      BY <3>1, <3>2
    <3>4. SumOf(f, 1..k) = f[k] + SumOf(f, 1..j)
      <4> DEFINE K == 1..k
      <4>1. \A i \in K : f[i] \in Int
        BY <1>1, <2>3
      <4>2. IsFiniteSet(K)
        BY <2>3, FS_Interval
      <4>3. K \ {k} = 1..j /\ k \in K
        BY <3>1
      <4> HIDE DEF K
      <4>4. SumOf(f, K) = f[k] + SumOf(f, K \ {k})
        BY <4>1, <4>2, <4>3, SumRemove
      <4>5. QED
        BY <4>3, <4>4 DEF K
    <3>6. f[k] = g[k + 1] - g[k] /\ g[k] \in Int /\ g[k + 1] \in Int /\ g[1] \in Int
      BY <3>1
    <3>7. QED
      BY <2>3, <3>3, <3>4, <3>6
  <2>6. QED
    BY <2>4, <2>5
<1>3. m \in 0..m
  OBVIOUS
<1>4. QED
  BY <1>2, <1>3

\* Equal steps down to the grid: from end to end, and all different if there are as many
\* grid steps.
LEMMA SpacedFacts ==
  ASSUME NEW left \in Int, NEW right \in Int, left < right, NEW count \in Nat \ {0}
  PROVE  /\ Spaced(left, right, count) \in SUBSET (left..right)
         /\ left \in Spaced(left, right, count) /\ right \in Spaced(left, right, count)
         /\ count <= right - left => Cardinality(Spaced(left, right, count)) = count + 1
<1> DEFINE w == right - left
           At(i) == left + (w * i) \div count
           E == Spaced(left, right, count)
<1>1. w \in Int /\ w >= 1 /\ count \in Int /\ count >= 1 /\ left + w = right
  OBVIOUS
<1>2. E = {At(i) : i \in 0..count}
  BY DEF Spaced
<1> HIDE DEF w, E
<1>3. \A i \in 0..count : At(i) \in Int
  <2>1. TAKE i \in 0..count
  <2>2. w * i \in Int
    BY <1>1
  <2>3. (w * i) \div count \in Int
    BY <2>2, Division
  <2>4. QED
    BY <2>3
<1>4. At(0) = left /\ At(count) = right
  <2>1. w * 0 = 0 * count /\ 0 * count \in Int
    BY <1>1
  <2>2. (w * 0) \div count = 0
    <3>1. (0 * count) \div count = 0
      BY Quotients
    <3>2. QED
      BY <2>1, <3>1
  <2>3. (w * count) \div count = w
    BY <1>1, Quotients
  <2>4. QED
    BY <1>1, <2>2, <2>3
<1>5. ASSUME NEW i \in 0..count, NEW j \in 0..count, i <= j
      PROVE  At(i) <= At(j) /\ (i < j /\ count <= w => At(i) < At(j))
  <2> DEFINE a == w * i
             b == w * j
             q == a \div count
  <2>1. a \in Int /\ b \in Int /\ q \in Int /\ count * q <= a
    BY <1>1, Division
  <2>2. a <= b
    <3>1. i \in Int /\ j \in Int /\ w \in Int /\ w >= 1
      BY <1>1
    <3>2. QED
      BY <1>5, <3>1, Products
  <2> HIDE DEF a, b, q
  <2>3. q * count <= b
    <3>1. q * count = count * q /\ count * q \in Int
      BY <2>1
    <3>2. QED
      BY <2>1, <2>2, <3>1
  <2>4. q <= b \div count
    BY <2>1, <2>3, Quotients
  <2>5. i < j /\ count <= w => q + 1 <= b \div count
    <3>1. SUFFICES ASSUME i < j, count <= w PROVE q + 1 <= b \div count
      OBVIOUS
    <3>2. a + w <= b
      <4>1. i + 1 <= j /\ i \in Int /\ j \in Int /\ i + 1 \in Int /\ w \in Int /\ w >= 1
        BY <1>1, <3>1
      <4>2. w * (i + 1) <= w * j /\ w * (i + 1) = w * i + w
        BY <4>1, Products
      <4>3. QED
        BY <4>2 DEF a, b
    <3>3. (q + 1) * count = q * count + count /\ q * count = count * q /\ count * q \in Int
      <4>1. count * (q + 1) = count * q + count /\ (q + 1) * count = count * (q + 1)
        BY <1>1, <2>1, Products
      <4>2. QED
        BY <2>1, <4>1
    <3>4. (q + 1) * count <= b
      BY <1>1, <2>1, <3>1, <3>2, <3>3
    <3>5. q + 1 \in Int
      BY <2>1
    <3>6. QED
      BY <2>1, <3>4, <3>5, Quotients
  <2>6. b \div count \in Int
    BY <2>1, Division
  <2>7. At(i) = left + q /\ At(j) = left + b \div count
    BY DEF a, b, q
  <2> HIDE DEF At
  <2>8. QED
    BY <2>1, <2>4, <2>5, <2>6, <2>7
<1> HIDE DEF At
<1>6. 0 \in 0..count /\ count \in 0..count /\ \A i \in 0..count : 0 <= i /\ i <= count
  BY <1>1
<1>7. \A i \in 0..count : At(i) \in left..right
  <2>1. TAKE i \in 0..count
  <2>2. At(0) <= At(i) /\ At(i) <= At(count) /\ At(i) \in Int
    BY <1>3, <1>5, <1>6
  <2>3. QED
    BY <1>4, <2>2
<1>8. ASSUME count <= w PROVE Cardinality(E) = count + 1
  <2> DEFINE f == [i \in 0..count |-> At(i)]
             D == 0..count
  <2>1. f \in Bijection(D, E)
    <3>1. f \in [D -> E]
      BY <1>2
    <3>2. \A y \in E : \E i \in D : f[i] = y
      BY <1>2
    <3>3. ASSUME NEW i \in D, NEW j \in D, f[i] = f[j] PROVE i = j
      <4>1. At(i) = At(j) /\ At(i) \in Int /\ i \in Int /\ j \in Int
        BY <1>3, <3>3
      <4>2. ~(i < j) /\ ~(j < i)
        BY <1>5, <1>8, <4>1
      <4>3. QED
        BY <4>1, <4>2
    <3> HIDE DEF f, D
    <3>4. QED
      BY <3>1, <3>2, <3>3 DEF Bijection, Injection, Surjection, IsInjective
  <2>2. IsFiniteSet(D) /\ Cardinality(D) = count + 1
    BY <1>1, FS_Interval
  <2> HIDE DEF f, D
  <2>3. ExistsBijection(D, E)
    BY <2>1 DEF ExistsBijection
  <2>4. QED
    BY <2>2, <2>3, FS_Bijection
<1>9. E \in SUBSET (left..right) /\ left \in E /\ right \in E
  BY <1>2, <1>4, <1>6, <1>7
<1>10. QED
  BY <1>8, <1>9 DEF E, w

-----------------------------------------------------------------------------
(* The edges between the points: _resolve_slice_edges.                     *)

\* A bijection keeps the number of elements.
LEMMA SameNumber ==
  ASSUME NEW S, IsFiniteSet(S), NEW T, NEW f \in [S -> T],
         \A x, y \in S : f[x] = f[y] => x = y, \A y \in T : \E x \in S : f[x] = y
  PROVE  IsFiniteSet(T) /\ Cardinality(T) = Cardinality(S)
<1>1. f \in Bijection(S, T)
  BY DEF Bijection, Injection, Surjection, IsInjective
<1>2. ExistsBijection(S, T)
  BY <1>1 DEF ExistsBijection
<1>3. QED
  BY <1>2, FS_Bijection

\* From one point to a later one.
Rising(p, m) == \A i, j \in 1..m : i < j => p[i] < p[j]

\* The points as a sequence.
LEMMA PointsFacts ==
  ASSUME NEW left \in Int, NEW right \in Int, left < right,
         NEW P \in SUBSET (left..right), left \in P, right \in P
  PROVE  LET p == Ascending(P)
             m == Cardinality(P) - 1
         IN /\ IsFiniteSet(P) /\ m \in Nat \ {0} /\ Len(p) = m + 1
            /\ p \in [1..(m + 1) -> P] /\ p \in [1..(m + 1) -> Int] /\ Rising(p, m + 1)
            /\ p[1] = left /\ p[m + 1] = right
            /\ \A x \in P : \E i \in 1..(m + 1) : p[i] = x
            /\ Lengths(p) \in [1..m -> Nat \ {0}]
            /\ \A i \in 1..m : Lengths(p)[i] = p[i + 1] - p[i]
            /\ SumOf(Lengths(p), 1..m) = right - left
<1> DEFINE p == Ascending(P)
           c == Cardinality(P)
           m == c - 1
           lengths == Lengths(p)
<1>1. IsFiniteSet(P) /\ P \in SUBSET Int
  <2>1. IsFiniteSet(left..right)
    BY FS_Interval
  <2>2. IsFiniteSet(P)
    BY <2>1, FS_Subset
  <2>3. QED
    BY <2>2
<1>2. /\ p \in [1..c -> P] /\ Len(p) = c /\ c \in Nat
      /\ \A x \in P : \E i \in 1..c : p[i] = x
      /\ \A i, j \in 1..c : i < j => p[i] < p[j]
  BY <1>1, AscendingFacts
<1>3. \A x \in P : x \in Int /\ left <= x /\ x <= right
  OBVIOUS
<1> HIDE DEF p, c
<1>4. \A i \in 1..c : p[i] \in P /\ p[i] \in Int
  BY <1>2, <1>3
<1>5. PICK a \in 1..c : p[a] = left
  BY <1>2
<1>6. PICK b \in 1..c : p[b] = right
  BY <1>2
<1>7. c >= 2
  <2>1. a # b
    BY <1>5, <1>6
  <2>2. QED
    BY <1>2, <2>1
<1>8. a = 1
  <2>1. 1 \in 1..c /\ a \in Int /\ a >= 1
    BY <1>2, <1>7
  <2>2. left <= p[1] /\ p[1] \in Int
    BY <1>3, <1>4, <2>1
  <2>3. 1 < a => p[1] < left
    BY <1>2, <1>5, <2>1
  <2>4. QED
    BY <2>1, <2>2, <2>3
<1>9. b = c
  <2>1. c \in 1..c /\ b \in Int /\ b <= c /\ c \in Int
    BY <1>2, <1>7
  <2>2. p[c] <= right /\ p[c] \in Int
    BY <1>3, <1>4, <2>1
  <2>3. b < c => right < p[c]
    BY <1>2, <1>6, <2>1
  <2>4. QED
    BY <2>1, <2>2, <2>3
<1>10. m \in Nat \ {0} /\ m + 1 = c /\ Len(p) - 1 = m
  BY <1>2, <1>7
<1> HIDE DEF m
<1>11. lengths = [i \in 1..m |-> p[i + 1] - p[i]]
  BY <1>10 DEF Lengths
<1> HIDE DEF lengths
<1>12. ASSUME NEW i \in 1..m PROVE p[i + 1] - p[i] \in Nat \ {0} /\ lengths[i] = p[i + 1] - p[i]
  <2>1. i \in 1..c /\ i + 1 \in 1..c /\ i < i + 1
    BY <1>10
  <2>2. p[i] < p[i + 1] /\ p[i] \in Int /\ p[i + 1] \in Int
    BY <1>2, <1>4, <2>1
  <2>3. QED
    BY <1>11, <2>2
<1>13. lengths \in [1..m -> Nat \ {0}]
  BY <1>11, <1>12
<1>14. SumOf(lengths, 1..m) = p[m + 1] - p[1]
  <2>1. m \in Nat /\ \A i \in 1..(m + 1) : p[i] \in Int
    BY <1>4, <1>10
  <2>2. \A i \in 1..m : lengths[i] = p[i + 1] - p[i]
    BY <1>12
  <2>3. QED
    BY <2>1, <2>2, Telescope
<1>15. p[1] = left /\ p[m + 1] = right
  BY <1>5, <1>6, <1>8, <1>9, <1>10
<1>16. p \in [1..(m + 1) -> Int] /\ Rising(p, m + 1)
  <2>1. p \in [1..c -> Int]
    BY <1>2, <1>4
  <2>2. Rising(p, c)
    BY <1>2 DEF Rising
  <2>3. QED
    BY <1>10, <2>1, <2>2
<1>17. /\ IsFiniteSet(P) /\ m \in Nat \ {0} /\ Len(p) = m + 1
       /\ p \in [1..(m + 1) -> P] /\ p \in [1..(m + 1) -> Int] /\ Rising(p, m + 1)
       /\ p[1] = left /\ p[m + 1] = right
       /\ \A x \in P : \E i \in 1..(m + 1) : p[i] = x
       /\ lengths \in [1..m -> Nat \ {0}]
       /\ \A i \in 1..m : lengths[i] = p[i + 1] - p[i]
       /\ SumOf(lengths, 1..m) = right - left
  BY <1>1, <1>2, <1>10, <1>12, <1>13, <1>14, <1>15, <1>16
<1>18. QED
  BY <1>17 DEF p, m, lengths, c

\* The neighbours among the points.
LEMMA GapsFacts ==
  ASSUME NEW P \in SUBSET Int, NEW m \in Nat \ {0}, NEW p \in [1..(m + 1) -> P],
         Rising(p, m + 1), \A x \in P : \E i \in 1..(m + 1) : p[i] = x
  PROVE  /\ \A g \in Gaps(P) : \E i \in 1..m : g[1] = p[i] /\ g[2] = p[i + 1]
         /\ \A i \in 1..m : \E g \in Gaps(P) : g[1] = p[i] /\ g[2] = p[i + 1]
<1>1. \A i \in 1..(m + 1) : p[i] \in P /\ p[i] \in Int
  OBVIOUS
<1>2. ASSUME NEW g \in Gaps(P) PROVE \E i \in 1..m : g[1] = p[i] /\ g[2] = p[i + 1]
  <2>1. g \in P \X P /\ g[1] < g[2] /\ ~\E y \in P : g[1] < y /\ y < g[2]
    BY <1>2 DEF Gaps
  <2>2. g[1] \in P /\ g[2] \in P
    BY <2>1
  <2>3. PICK i \in 1..(m + 1) : p[i] = g[1]
    BY <2>2
  <2>4. PICK j \in 1..(m + 1) : p[j] = g[2]
    BY <2>2
  <2>5. i \in Int /\ j \in Int /\ p[i] < p[j] /\ p[i] \in Int /\ p[j] \in Int
    BY <1>1, <2>1, <2>3, <2>4
  <2>6. i < j
    <3>1. ~(j < i) /\ i # j
      BY <2>5 DEF Rising
    <3>2. QED
      BY <2>5, <3>1
  <2>7. i \in 1..m /\ i + 1 \in 1..(m + 1) /\ i < i + 1
    BY <2>6
  <2>8. p[i] < p[i + 1] /\ p[i + 1] \in P
    BY <1>1, <2>7 DEF Rising
  <2>9. ~(p[i + 1] < p[j])
    BY <2>1, <2>3, <2>4, <2>8
  <2>10. ~(i + 1 < j)
    BY <2>7, <2>9 DEF Rising
  <2>11. j = i + 1
    BY <2>5, <2>6, <2>10
  <2>12. QED
    BY <2>3, <2>4, <2>7, <2>11
<1>3. ASSUME NEW i \in 1..m PROVE \E g \in Gaps(P) : g[1] = p[i] /\ g[2] = p[i + 1]
  <2> DEFINE a == p[i]
             b == p[i + 1]
             g == <<a, b>>
  <2>1. i \in 1..(m + 1) /\ i + 1 \in 1..(m + 1) /\ i < i + 1
    OBVIOUS
  <2>2. a \in P /\ b \in P /\ a < b /\ a \in Int /\ b \in Int
    BY <1>1, <2>1 DEF Rising
  <2>3. ASSUME NEW y \in P, a < y, y < b PROVE FALSE
    <3>1. PICK l \in 1..(m + 1) : p[l] = y
      OBVIOUS
    <3>2. l \in Int /\ y \in Int
      OBVIOUS
    <3>3. ~(l < i) /\ l # i
      <4>1. l < i => p[l] < p[i]
        BY <2>1 DEF Rising
      <4>2. QED
        BY <2>2, <2>3, <3>1, <3>2, <4>1
    <3>4. ~(i + 1 < l) /\ l # i + 1
      <4>1. i + 1 < l => p[i + 1] < p[l]
        BY <2>1 DEF Rising
      <4>2. QED
        BY <2>2, <2>3, <3>1, <3>2, <4>1
    <3>5. QED
      BY <3>2, <3>3, <3>4
  <2> HIDE DEF a, b
  <2>4. g \in P \X P /\ g[1] = a /\ g[2] = b
    BY <2>2
  <2>5. g \in Gaps(P)
    <3> HIDE DEF g
    <3>1. QED
      BY <2>2, <2>3, <2>4 DEF Gaps
  <2>6. QED
    BY <2>4, <2>5 DEF a, b
<1>4. QED
  BY <1>2, <1>3

\* The numbers up to k without the last.
LEMMA LastOut ==
  ASSUME NEW k \in Nat \ {0}
  PROVE  (1..k) \ {k} = 1..(k - 1) /\ k \in 1..k
OBVIOUS

\* The edges between the points, counts[i] steps from the i-th to the next.
EdgesOver(p, counts) ==
  UNION {Spaced(p[i], p[i + 1], counts[i]) : i \in DOMAIN counts}

\* Between two points there are as many edges as were given to them.
LEMMA EdgesBetween ==
  ASSUME NEW m \in Nat \ {0}, NEW p \in [1..(m + 1) -> Int], Rising(p, m + 1),
         NEW counts \in [1..m -> Nat \ {0}]
  PROVE  LET E == EdgesOver(p, counts)
         IN /\ E \in SUBSET (p[1]..p[m + 1])
            /\ \A i \in 1..(m + 1) : p[i] \in E
            /\ \A i \in 1..m : counts[i] <= p[i + 1] - p[i] =>
                  Cardinality({e \in E : p[i] < e /\ e <= p[i + 1]}) = counts[i]
<1> DEFINE K == 1..m
           E == EdgesOver(p, counts)
           Piece(i) == Spaced(p[i], p[i + 1], counts[i])
<1>1. \A i \in K : i \in 1..(m + 1) /\ i + 1 \in 1..(m + 1) /\ i < i + 1 /\ i \in Int
  OBVIOUS
<1>2. \A i \in 1..(m + 1) : p[i] \in Int /\ i \in Int
  OBVIOUS
<1>3. \A i, j \in 1..(m + 1) : i <= j => p[i] <= p[j]
  <2>1. SUFFICES ASSUME NEW i \in 1..(m + 1), NEW j \in 1..(m + 1), i <= j PROVE p[i] <= p[j]
    OBVIOUS
  <2>2. CASE i = j
    BY <1>2, <2>2
  <2>3. CASE i < j
    <3>1. p[i] < p[j]
      BY <2>3 DEF Rising
    <3>2. QED
      BY <1>2, <3>1
  <2>4. QED
    BY <1>2, <2>1, <2>2, <2>3
<1>4. ASSUME NEW i \in K
      PROVE  /\ Piece(i) \in SUBSET (p[i]..p[i + 1])
             /\ p[i] \in Piece(i) /\ p[i + 1] \in Piece(i)
             /\ counts[i] <= p[i + 1] - p[i] => Cardinality(Piece(i)) = counts[i] + 1
             /\ counts[i] \in Nat \ {0} /\ p[i] \in Int /\ p[i + 1] \in Int
  <2>1. p[i] \in Int /\ p[i + 1] \in Int /\ counts[i] \in Nat \ {0}
    BY <1>1, <1>2
  <2>2. p[i] < p[i + 1]
    BY <1>1 DEF Rising
  <2>3. QED
    BY <2>1, <2>2, SpacedFacts
<1>5. DOMAIN counts = K
  OBVIOUS
<1>6. \A e : e \in E <=> \E i \in K : e \in Piece(i)
  BY <1>5 DEF EdgesOver
<1> HIDE DEF E, Piece
<1>7. E \in SUBSET (p[1]..p[m + 1])
  <2>1. SUFFICES ASSUME NEW e \in E PROVE e \in p[1]..p[m + 1]
    OBVIOUS
  <2>2. PICK i \in K : e \in Piece(i)
    BY <1>6
  <2>3. e \in Int /\ p[i] <= e /\ e <= p[i + 1]
    BY <1>4, <2>2
  <2>4. 1 \in 1..(m + 1) /\ m + 1 \in 1..(m + 1) /\ 1 <= i /\ i + 1 <= m + 1
    BY <1>1
  <2>5. p[1] <= p[i] /\ p[i + 1] <= p[m + 1] /\ p[1] \in Int /\ p[m + 1] \in Int
        /\ p[i] \in Int /\ p[i + 1] \in Int
    BY <1>1, <1>2, <1>3, <2>4
  <2>6. QED
    BY <2>3, <2>5
<1>8. ASSUME NEW i \in 1..(m + 1) PROVE p[i] \in E
  <2>1. CASE i \in K
    BY <1>4, <1>6, <2>1
  <2>2. CASE i = m + 1
    <3>1. m \in K /\ p[m + 1] \in Piece(m)
      BY <1>4
    <3>2. QED
      BY <1>6, <2>2, <3>1
  <2>3. QED
    BY <2>1, <2>2
<1>9. ASSUME NEW i \in K, counts[i] <= p[i + 1] - p[i]
      PROVE  Cardinality({e \in E : p[i] < e /\ e <= p[i + 1]}) = counts[i]
  <2> DEFINE H == {e \in E : p[i] < e /\ e <= p[i + 1]}
  <2>1. \A e \in Piece(i) : e \in Int /\ p[i] <= e /\ e <= p[i + 1]
    BY <1>4
  <2>2. \A e \in Piece(i) : e # p[i] => e \in H
    BY <1>4, <1>6, <2>1
  <2>3. ASSUME NEW e \in H PROVE e \in Piece(i) /\ e # p[i]
    <3>1. e \in E /\ p[i] < e /\ e <= p[i + 1]
      OBVIOUS
    <3>2. PICK j \in K : e \in Piece(j)
      BY <1>6, <3>1
    <3>3. e \in Int /\ p[j] <= e /\ e <= p[j + 1]
      BY <1>4, <3>2
    <3>4. /\ i \in Int /\ j \in Int /\ p[i] \in Int /\ p[i + 1] \in Int /\ p[j] \in Int
          /\ p[j + 1] \in Int
      BY <1>1, <1>2
    <3>5. CASE j < i
      <4>1. p[j + 1] <= p[i]
        BY <1>1, <1>3, <3>4, <3>5
      <4>2. QED
        BY <3>1, <3>3, <3>4, <4>1
    <3>6. CASE i < j
      <4>1. p[i + 1] <= p[j]
        BY <1>1, <1>3, <3>4, <3>6
      <4>2. e = p[i + 1]
        BY <3>1, <3>3, <3>4, <4>1
      <4>3. QED
        BY <1>4, <3>1, <3>4, <4>2
    <3>7. CASE i = j
      BY <3>1, <3>2, <3>3, <3>4, <3>7
    <3>8. QED
      BY <3>4, <3>5, <3>6, <3>7
  <2>4. H = Piece(i) \ {p[i]}
    <3> HIDE DEF H
    <3>1. QED
      BY <2>2, <2>3
  <2>5. IsFiniteSet(Piece(i))
    <3>1. IsFiniteSet(p[i]..p[i + 1])
      BY <1>4, FS_Interval
    <3>2. QED
      BY <1>4, <3>1, FS_Subset
  <2>6. Cardinality(Piece(i) \ {p[i]}) = Cardinality(Piece(i)) - 1
    BY <1>4, <2>5, FS_RemoveElement
  <2>7. QED
    <3> DEFINE c == Cardinality(Piece(i))
    <3>1. c = counts[i] + 1 /\ counts[i] \in Int
      BY <1>4, <1>9
    <3>2. Cardinality(H) = c - 1
      BY <2>4, <2>6
    <3> HIDE DEF H, c
    <3>3. Cardinality(H) = counts[i]
      BY <3>1, <3>2
    <3>4. QED
      BY <3>3 DEF H
<1>10. QED
  BY <1>7, <1>8, <1>9 DEF E

\* The edges are one more than all that was given.
LEMMA EdgesTogether ==
  ASSUME NEW m \in Nat \ {0}, NEW p \in [1..(m + 1) -> Int], Rising(p, m + 1),
         NEW counts \in [1..m -> Nat \ {0}],
         \A i \in 1..m : counts[i] <= p[i + 1] - p[i]
  PROVE  Cardinality(EdgesOver(p, counts)) = 1 + SumOf(counts, 1..m)
<1> DEFINE E == EdgesOver(p, counts)
           Upto(k) == {e \in E : e <= p[k + 1]}
           Bad == {k \in 0..m : Cardinality(Upto(k)) # 1 + SumOf(counts, 1..k)}
<1>1. /\ E \in SUBSET (p[1]..p[m + 1])
      /\ \A i \in 1..(m + 1) : p[i] \in E
      /\ \A i \in 1..m : counts[i] <= p[i + 1] - p[i] =>
            Cardinality({e \in E : p[i] < e /\ e <= p[i + 1]}) = counts[i]
  BY EdgesBetween
<1> HIDE DEF E
<1>2. /\ \A i \in 1..m : Cardinality({e \in E : p[i] < e /\ e <= p[i + 1]}) = counts[i]
      /\ \A i \in 1..m : counts[i] \in Int
      /\ \A i \in 1..(m + 1) : p[i] \in Int
      /\ 1 \in 1..(m + 1) /\ m + 1 \in 1..(m + 1)
  BY <1>1
<1>3. \A e \in E : e \in Int /\ p[1] <= e /\ e <= p[m + 1]
  BY <1>1, <1>2
<1>4. IsFiniteSet(E)
  <2>1. IsFiniteSet(p[1]..p[m + 1])
    BY <1>2, FS_Interval
  <2>2. QED
    BY <1>1, <2>1, FS_Subset
<1>5. Bad = {}
  <2>1. SUFFICES ASSUME Bad # {} PROVE FALSE
    OBVIOUS
  <2>2. PICK k \in Bad : \A l \in Bad : k <= l
    <3>1. Bad \subseteq Nat
      OBVIOUS
    <3> HIDE DEF Bad
    <3>2. QED
      BY <2>1, <3>1, LeastNatural
  <2>3. k \in 0..m /\ Cardinality(Upto(k)) # 1 + SumOf(counts, 1..k)
    OBVIOUS
  <2>4. CASE k = 0
    <3>1. SumOf(counts, 1..0) = 0
      <4>1. 1..0 = {} /\ IsFiniteSet({})
        BY FS_EmptySet
      <4>2. SumOf(counts, {}) = 0
        BY <4>1, SumRemove
      <4>3. QED
        BY <4>1, <4>2
    <3>2. Upto(0) = {p[1]}
      <4>1. \A e \in E : e <= p[1] <=> e = p[1]
        BY <1>2, <1>3
      <4>2. p[1] \in E /\ p[0 + 1] = p[1]
        BY <1>1, <1>2
      <4>3. QED
        BY <4>1, <4>2
    <3>3. Cardinality({p[1]}) = 1
      BY FS_Singleton
    <3>4. Cardinality(Upto(0)) = 1
      BY <3>2, <3>3, Zenon
    <3> HIDE DEF Upto
    <3>5. QED
      BY <2>3, <2>4, <3>1, <3>4
  <2>5. CASE k # 0
    <3> DEFINE j == k - 1
               H == {e \in E : p[k] < e /\ e <= p[k + 1]}
    <3>1. j \in 0..m /\ ~(k <= j) /\ j + 1 = k /\ k \in 1..m /\ k \in 1..k /\ k \in 1..(m + 1) /\ k + 1 \in 1..(m + 1)
      BY <2>3, <2>5
    <3>2. j \notin Bad
      <4> HIDE DEF Bad, j
      <4>1. QED
        BY <2>2, <3>1
    <3>3. Cardinality(Upto(j)) = 1 + SumOf(counts, 1..j)
      BY <3>1, <3>2
    <3>4. SumOf(counts, 1..k) = counts[k] + SumOf(counts, 1..j) /\ SumOf(counts, 1..j) \in Int
      <4> DEFINE K == 1..k
      <4>1. \A i \in K : counts[i] \in Int
        BY <1>2, <2>3
      <4>2. IsFiniteSet(K) /\ IsFiniteSet(1..j)
        BY <2>3, <3>1, FS_Interval
      <4>3. K \ {k} = 1..j /\ k \in K
        <5>1. k \in Int /\ k >= 1
          BY <3>1
        <5>2. k \in Nat \ {0}
          BY <5>1
        <5>3. (1..k) \ {k} = 1..(k - 1) /\ k \in 1..k
          BY <5>2, LastOut
        <5>4. QED
          BY <5>3
      <4>4. \A i \in 1..j : counts[i] \in Int
        BY <1>2, <3>1
      <4>5. SumOf(counts, 1..j) \in Int
        BY <4>2, <4>4, SumRemove
      <4> HIDE DEF K
      <4>6. SumOf(counts, K) = counts[k] + SumOf(counts, K \ {k})
        BY <4>1, <4>2, <4>3, SumRemove
      <4>7. QED
        BY <4>3, <4>5, <4>6 DEF K
    <3>5. Cardinality(H) = counts[k]
      BY <1>2, <3>1
    <3>6. p[k] < p[k + 1] /\ p[k] \in Int /\ p[k + 1] \in Int
      BY <1>2, <3>1 DEF Rising
    <3>7. Upto(k) = Upto(j) \cup H /\ Upto(j) \cap H = {}
      <4>1. p[j + 1] = p[k]
        BY <3>1
      <4>2. \A e \in E : e <= p[k + 1] <=> (e <= p[k] \/ (p[k] < e /\ e <= p[k + 1]))
        BY <1>3, <3>6
      <4>3. \A e \in E : ~(e <= p[k] /\ p[k] < e)
        BY <1>3, <3>6
      <4> HIDE DEF j
      <4>4. QED
        BY <4>1, <4>2, <4>3
    <3>8. IsFiniteSet(Upto(j)) /\ IsFiniteSet(H)
      <4>1. Upto(j) \in SUBSET E /\ H \in SUBSET E
        OBVIOUS
      <4> HIDE DEF Upto, H
      <4>2. QED
        BY <1>4, <4>1, FS_Subset
    <3>9. Cardinality(Upto(k)) = Cardinality(Upto(j)) + Cardinality(H)
      <4>1. Cardinality(Upto(j) \cap H) = 0
        BY <3>7, FS_EmptySet
      <4> HIDE DEF Upto, H, j
      <4>2. Cardinality(Upto(j) \cup H) = Cardinality(Upto(j)) + Cardinality(H) - Cardinality(Upto(j) \cap H)
        BY <3>8, FS_Union
      <4>3. Cardinality(Upto(j)) \in Nat /\ Cardinality(H) \in Nat
        BY <3>8, FS_CardinalityType
      <4>4. QED
        BY <3>7, <4>1, <4>2, <4>3
    <3>10. counts[k] \in Int
      BY <1>2, <3>1
    <3> HIDE DEF Upto, H, j
    <3>11. QED
      BY <2>3, <3>3, <3>4, <3>5, <3>9, <3>10
  <2>6. QED
    BY <2>4, <2>5
<1>6. Upto(m) = E
  BY <1>3
<1>7. m \in 0..m
  OBVIOUS
<1>8. QED
  BY <1>5, <1>6, <1>7 DEF E

\* As many steps between two elements as there are elements from the one to the other.
LEMMA StepsBetween ==
  ASSUME NEW E \in SUBSET Int, IsFiniteSet(E), NEW n \in Nat, Cardinality(E) = n + 1,
         NEW a \in E, NEW b \in E, Ascending(E)[1] <= a
  PROVE  LET x == Ascending(E)
         IN Cardinality({i \in 1..n : a <= x[i] /\ x[i + 1] <= b})
               = Cardinality({e \in E : a < e /\ e <= b})
<1> DEFINE x == Ascending(E)
           I == {i \in 1..n : a <= x[i] /\ x[i + 1] <= b}
           T == {e \in E : a < e /\ e <= b}
           f == [i \in I |-> x[i + 1]]
<1>1. /\ x \in [1..(n + 1) -> E]
      /\ \A e \in E : \E i \in 1..(n + 1) : x[i] = e
      /\ \A i, j \in 1..(n + 1) : i < j => x[i] < x[j]
  BY AscendingFacts
<1> HIDE DEF x
<1>2. \A e \in E : e \in Int
  OBVIOUS
<1>3. /\ \A i \in 1..(n + 1) : x[i] \in E /\ x[i] \in Int /\ i \in Int
      /\ a \in Int /\ b \in Int
      /\ \A i \in 1..n : i \in 1..(n + 1) /\ i + 1 \in 1..(n + 1) /\ i < i + 1 /\ i \in Int
  <2>1. \A i \in 1..(n + 1) : x[i] \in E
    BY <1>1
  <2>a. \A i \in 1..(n + 1) : x[i] \in Int
    BY <1>2, <2>1, Zenon
  <2>b. \A i \in 1..(n + 1) : i \in Int
    OBVIOUS
  <2>2. \A i \in 1..(n + 1) : x[i] \in E /\ x[i] \in Int /\ i \in Int
    BY <2>a, <2>b, <2>1, Zenon
  <2>3. \A i \in 1..n : i \in 1..(n + 1) /\ i + 1 \in 1..(n + 1) /\ i < i + 1 /\ i \in Int
    OBVIOUS
  <2>4. QED
    BY <1>2, <2>2, <2>3
<1>4. ASSUME NEW i \in I PROVE f[i] \in T /\ f[i] = x[i + 1]
  <2>1. i \in 1..n /\ a <= x[i] /\ x[i + 1] <= b
    OBVIOUS
  <2>2. x[i] < x[i + 1] /\ x[i] \in Int /\ x[i + 1] \in Int /\ x[i + 1] \in E
    BY <1>1, <1>3, <2>1
  <2>3. a < x[i + 1]
    BY <1>3, <2>1, <2>2
  <2>4. QED
    BY <2>1, <2>2, <2>3
<1>5. ASSUME NEW e \in T PROVE \E i \in I : f[i] = e
  <2>1. e \in E /\ a < e /\ e <= b /\ e \in Int
    BY <1>2
  <2>2. PICK j \in 1..(n + 1) : x[j] = e
    BY <1>1, <2>1
  <2>3. PICK l \in 1..(n + 1) : x[l] = a
    BY <1>1
  <2>4. j \in Int /\ l \in Int /\ 1 <= l /\ j <= n + 1
    OBVIOUS
  <2>5. l < j
    <3>1. j < l => x[j] < x[l]
      BY <1>1
    <3>2. ~(j < l) /\ j # l
      BY <1>3, <2>1, <2>2, <2>3, <3>1
    <3>3. QED
      BY <2>4, <3>2
  <2> DEFINE i == j - 1
  <2>6. i \in 1..n /\ i + 1 = j /\ (i = l \/ l < i) /\ i \in 1..(n + 1)
    BY <2>4, <2>5
  <2> HIDE DEF i
  <2>7. a <= x[i]
    <3>1. l < i => x[l] < x[i]
      BY <1>1, <2>6
    <3>2. x[i] \in Int
      BY <1>3, <2>6
    <3>3. QED
      BY <1>3, <2>3, <2>6, <3>1, <3>2
  <2>8. i \in I /\ f[i] = x[i + 1]
    <3>1. x[i + 1] = e
      BY <2>2, <2>6
    <3>2. i \in I
      BY <2>1, <2>6, <2>7, <3>1
    <3>3. QED
      BY <3>2
  <2>9. f[i] = e
    BY <2>2, <2>6, <2>8
  <2> HIDE DEF f, I
  <2>10. QED
    BY <2>8, <2>9
<1>6. ASSUME NEW i \in I, NEW j \in I, f[i] = f[j] PROVE i = j
  <2>1. i \in 1..n /\ j \in 1..n /\ x[i + 1] = x[j + 1]
    BY <1>4, <1>6
  <2>2. /\ i + 1 \in 1..(n + 1) /\ j + 1 \in 1..(n + 1) /\ i \in Int /\ j \in Int
        /\ x[i + 1] \in Int /\ x[j + 1] \in Int
    BY <1>3, <2>1
  <2>3. ~(i + 1 < j + 1) /\ ~(j + 1 < i + 1)
    <3>1. i + 1 < j + 1 => x[i + 1] < x[j + 1]
      BY <1>1, <2>2
    <3>2. j + 1 < i + 1 => x[j + 1] < x[i + 1]
      BY <1>1, <2>2
    <3>3. QED
      BY <2>1, <2>2, <3>1, <3>2
  <2>4. QED
    BY <2>2, <2>3
<1>7. f \in [I -> T]
  BY <1>4
<1>8. IsFiniteSet(I)
  <2>1. I \in SUBSET (1..n) /\ IsFiniteSet(1..n)
    BY FS_Interval
  <2> HIDE DEF I
  <2>2. QED
    BY <2>1, FS_Subset
<1> HIDE DEF f, I, T
<1>9. Cardinality(T) = Cardinality(I)
  BY <1>5, <1>6, <1>7, <1>8, SameNumber
<1>10. QED
  BY <1>9 DEF I, T, x

\* No term of a sum of naturals is more than the sum.
LEMMA TermOfSum ==
  ASSUME NEW S, IsFiniteSet(S), NEW f \in [S -> Nat], NEW x \in S
  PROVE  f[x] <= SumOf(f, S)
<1> DEFINE T == S \ {x}
           zero == [y \in T |-> 0]
<1>1. IsFiniteSet(T) /\ T \in SUBSET S
  BY FS_RemoveElement
<1>2. \A y \in S : f[y] \in Int /\ f[y] >= 0
  OBVIOUS
<1>3. SumOf(f, S) = f[x] + SumOf(f, T)
  BY <1>2, SumRemove
<1>4. \A y \in T : zero[y] = 0 /\ zero[y] \in Int /\ zero[y] <= f[y] /\ f[y] \in Int
  BY <1>2
<1> HIDE DEF T, zero
<1>5. SumOf(zero, T) = 0 * Cardinality(T)
  BY <1>1, <1>4, SumConstant
<1>6. SumOf(zero, T) <= SumOf(f, T) /\ SumOf(f, T) \in Int
  BY <1>1, <1>4, SumLess, SumRemove
<1>7. Cardinality(T) \in Nat
  BY <1>1, FS_CardinalityType
<1>8. QED
  BY <1>2, <1>3, <1>5, <1>6, <1>7

\* The set of edges of _resolve_slice_edges.
EdgeSet(roots, left, right, n, mergeTol) ==
  LET p == Ascending(CutPoints(roots, left, right, mergeTol))
      pieces == EdgesOver(p, Allocation(Lengths(p), n))
  IN IF Len(p) = 2 \/ Len(p) - 1 > n \/ Cardinality(pieces) # n + 1
     THEN Spaced(left, right, n) ELSE pieces

\* There is room for as many slices as are asked for in every interval.
Roomy(points, n) ==
  Cardinality(points) - 1 <= n /\ \A g \in Gaps(points) : g[2] - g[1] >= n

\* As many edges as asked for, from end to end.
Edging(x, E, left, right, n) ==
  /\ x = Ascending(E)
  /\ E \in SUBSET (left..right) /\ left \in E /\ right \in E
  /\ IsFiniteSet(E) /\ Cardinality(E) = n + 1
  /\ x \in [1..(n + 1) -> E] /\ Len(x) = n + 1 /\ x[1] = left /\ x[n + 1] = right
  /\ \A i \in 1..n : x[i] < x[i + 1]
  /\ \A e \in E : \E i \in 1..(n + 1) : x[i] = e

\* The edges of _resolve_slice_edges, whichever way they were found.
LEMMA EdgeSetFacts ==
  ASSUME NEW left \in Int, NEW right \in Int, NEW n \in Nat \ {0}, n <= right - left,
         NEW mergeTol \in Nat, NEW k \in Nat, NEW roots \in [1..k -> left..right]
  PROVE  Edging(SliceEdgesAt(roots, left, right, n, mergeTol),
                EdgeSet(roots, left, right, n, mergeTol), left, right, n)
<1> DEFINE P == CutPoints(roots, left, right, mergeTol)
           p == Ascending(P)
           m == Cardinality(P) - 1
           lengths == Lengths(p)
           counts == Allocation(lengths, n)
           pieces == EdgesOver(p, counts)
           E == EdgeSet(roots, left, right, n, mergeTol)
           x == SliceEdgesAt(roots, left, right, n, mergeTol)
<1>1. left < right
  OBVIOUS
<1>2. P \in SUBSET (left..right) /\ left \in P /\ right \in P
  BY <1>1, CutPointsFacts
<1> HIDE DEF P
<1>3. /\ m \in Nat \ {0} /\ Len(p) = m + 1
      /\ p \in [1..(m + 1) -> Int] /\ Rising(p, m + 1)
      /\ p[1] = left /\ p[m + 1] = right
      /\ lengths \in [1..m -> Nat \ {0}]
  BY <1>1, <1>2, PointsFacts
<1>4. E = IF Len(p) = 2 \/ Len(p) - 1 > n \/ Cardinality(pieces) # n + 1
          THEN Spaced(left, right, n) ELSE pieces
  BY DEF EdgeSet, P
<1>5. x = Ascending(E)
  <2>1. x = IF Len(p) = 2 \/ Len(p) - 1 > n \/ Cardinality(pieces) # n + 1
            THEN Ascending(Spaced(left, right, n)) ELSE Ascending(pieces)
    BY DEF SliceEdgesAt, EdgesOver, P
  <2> HIDE DEF E, pieces, p, x
  <2>2. QED
    BY <1>4, <2>1
<1> HIDE DEF E, pieces, counts, lengths, p, m, x
<1>8. E \in SUBSET (left..right) /\ left \in E /\ right \in E /\ Cardinality(E) = n + 1
  <2>1. CASE E = Spaced(left, right, n)
    BY <1>1, <2>1, SpacedFacts
  <2>2. CASE E = pieces /\ m <= n /\ Cardinality(pieces) = n + 1
    <3>1. counts \in [1..m -> Nat \ {0}]
      BY <1>3, <2>2, AllocationSound DEF counts
    <3>2. pieces \in SUBSET (p[1]..p[m + 1]) /\ \A i \in 1..(m + 1) : p[i] \in pieces
      BY <1>3, <3>1, EdgesBetween DEF pieces
    <3>3. 1 \in 1..(m + 1) /\ m + 1 \in 1..(m + 1)
      BY <1>3
    <3>4. QED
      BY <1>3, <2>2, <3>2, <3>3
  <2>3. QED
    BY <1>3, <1>4, <2>1, <2>2
<1>9. /\ IsFiniteSet(E) /\ x \in [1..(n + 1) -> E] /\ Len(x) = n + 1
      /\ Rising(x, n + 1) /\ x[1] = left /\ x[n + 1] = right
      /\ \A e \in E : \E i \in 1..(n + 1) : x[i] = e
  <2> DEFINE q == Ascending(E)
             l == Cardinality(E) - 1
  <2>1. /\ IsFiniteSet(E) /\ Len(q) = l + 1
        /\ q \in [1..(l + 1) -> E] /\ Rising(q, l + 1)
        /\ q[1] = left /\ q[l + 1] = right
        /\ \A e \in E : \E i \in 1..(l + 1) : q[i] = e
    <3>1. /\ IsFiniteSet(E) /\ l \in Nat \ {0} /\ Len(q) = l + 1
          /\ q \in [1..(l + 1) -> E] /\ q \in [1..(l + 1) -> Int] /\ Rising(q, l + 1)
          /\ q[1] = left /\ q[l + 1] = right
          /\ \A e \in E : \E i \in 1..(l + 1) : q[i] = e
          /\ Lengths(q) \in [1..l -> Nat \ {0}]
          /\ \A i \in 1..l : Lengths(q)[i] = q[i + 1] - q[i]
          /\ SumOf(Lengths(q), 1..l) = right - left
      BY <1>1, <1>8, PointsFacts
    <3> HIDE DEF q, l
    <3>2. QED
      BY <3>1
  <2>2. l = n /\ q = x
    BY <1>5, <1>8
  <2> HIDE DEF l, q
  <2>3. QED
    BY <2>1, <2>2
<1>10. \A i \in 1..n : x[i] < x[i + 1]
  <2>1. \A i \in 1..n : i \in 1..(n + 1) /\ i + 1 \in 1..(n + 1) /\ i < i + 1
    OBVIOUS
  <2>2. QED
    BY <1>9, <2>1 DEF Rising
<1>11. QED
  BY <1>5, <1>8, <1>9, <1>10 DEF Edging, E, x

\* Every point is an edge, and every interval has about its share.
Shared(P, x, left, right, n) ==
  LET Share(g) == (n * (g[2] - g[1])) \div (right - left)
      In(g) == Cardinality({i \in 1..n : g[1] <= x[i] /\ x[i + 1] <= g[2]})
  IN /\ \A y \in P : \E i \in 1..(n + 1) : x[i] = y
     /\ \A g \in Gaps(P) : /\ In(g) \in Nat \ {0} /\ Share(g) \in Nat
                           /\ In(g) <= (IF Share(g) < 1 THEN 1 ELSE Share(g)) + 1
     /\ (\A g \in Gaps(P) : Share(g) >= 1) =>
           \A g, h \in Gaps(P) : /\ Share(g) <= In(g)
                                 /\ g[2] - g[1] > h[2] - h[1] => In(g) >= In(h)

\* So where there is room.
LEMMA RoomyEdges ==
  ASSUME NEW left \in Int, NEW right \in Int, NEW n \in Nat \ {0}, n <= right - left,
         NEW mergeTol \in Nat, NEW k \in Nat, NEW roots \in [1..k -> left..right],
         Roomy(CutPoints(roots, left, right, mergeTol), n)
  PROVE  Shared(CutPoints(roots, left, right, mergeTol),
                SliceEdgesAt(roots, left, right, n, mergeTol), left, right, n)
<1> DEFINE P == CutPoints(roots, left, right, mergeTol)
           p == Ascending(P)
           m == Cardinality(P) - 1
           K == 1..m
           lengths == Lengths(p)
           share == ShareOf(lengths, n)
           counts == Allocation(lengths, n)
           pieces == EdgesOver(p, counts)
           E == EdgeSet(roots, left, right, n, mergeTol)
           x == SliceEdgesAt(roots, left, right, n, mergeTol)
           Share(g) == (n * (g[2] - g[1])) \div (right - left)
           In(g) == Cardinality({i \in 1..n : g[1] <= x[i] /\ x[i + 1] <= g[2]})
<1>1. left < right
  OBVIOUS
<1>2. P \in SUBSET (left..right) /\ left \in P /\ right \in P /\ P \in SUBSET Int
  <2>1. P \in SUBSET (left..right) /\ left \in P /\ right \in P
    BY <1>1, CutPointsFacts
  <2> HIDE DEF P
  <2>2. QED
    BY <2>1
<1>3. /\ x = Ascending(E)
      /\ E \in SUBSET (left..right) /\ left \in E /\ right \in E
      /\ IsFiniteSet(E) /\ Cardinality(E) = n + 1
      /\ x[1] = left
      /\ \A e \in E : \E i \in 1..(n + 1) : x[i] = e
  BY EdgeSetFacts DEF Edging
<1>4. E = IF Len(p) = 2 \/ Len(p) - 1 > n \/ Cardinality(pieces) # n + 1
          THEN Spaced(left, right, n) ELSE pieces
  BY DEF EdgeSet
<1>5. Roomy(P, n)
  OBVIOUS
<1> HIDE DEF P, E, x
<1>6. /\ m \in Nat \ {0} /\ Len(p) = m + 1
      /\ p \in [1..(m + 1) -> P] /\ p \in [1..(m + 1) -> Int] /\ Rising(p, m + 1)
      /\ p[1] = left /\ p[m + 1] = right
      /\ \A y \in P : \E i \in 1..(m + 1) : p[i] = y
      /\ lengths \in [1..m -> Nat \ {0}]
      /\ \A i \in 1..m : lengths[i] = p[i + 1] - p[i]
      /\ SumOf(lengths, 1..m) = right - left
  BY <1>1, <1>2, PointsFacts
<1> HIDE DEF lengths, p, m
<1>7. /\ \A g \in Gaps(P) : \E i \in 1..m : g[1] = p[i] /\ g[2] = p[i + 1]
      /\ \A i \in 1..m : \E g \in Gaps(P) : g[1] = p[i] /\ g[2] = p[i + 1]
  BY <1>2, <1>6, GapsFacts
<1>8. m <= n /\ \A i \in K : n <= p[i + 1] - p[i]
  <2>1. m <= n /\ \A g \in Gaps(P) : g[2] - g[1] >= n
    BY <1>5 DEF Roomy, m
  <2>2. ASSUME NEW i \in K PROVE n <= p[i + 1] - p[i]
    <3>1. PICK g \in Gaps(P) : g[1] = p[i] /\ g[2] = p[i + 1]
      BY <1>7
    <3>2. p[i + 1] - p[i] >= n
      BY <2>1, <3>1
    <3>3. i \in 1..(m + 1) /\ i + 1 \in 1..(m + 1)
      BY <1>6
    <3>4. p[i] \in Int /\ p[i + 1] \in Int
      BY <1>6, <3>3
    <3>5. QED
      BY <3>2, <3>4
  <2>3. QED
    BY <2>1, <2>2
<1>9. /\ counts \in [1..m -> Nat \ {0}]
      /\ SumOf(counts, 1..m) = n
      /\ \A i \in 1..m : counts[i] <= (IF share[i] < 1 THEN 1 ELSE share[i]) + 1
      /\ (\A i \in 1..m : share[i] >= 1) =>
            /\ \A i \in 1..m : share[i] <= counts[i]
            /\ \A i, j \in 1..m : lengths[i] > lengths[j] => counts[i] >= counts[j]
  BY <1>6, <1>8, AllocationSound
<1>10. /\ share \in [1..m -> Nat]
       /\ \A i \in 1..m : share[i] = (n * lengths[i]) \div (right - left)
  <2>1. /\ share \in [1..m -> Nat]
        /\ \A i \in 1..m : share[i] = (n * lengths[i]) \div SumOf(lengths, 1..m)
    <3> DEFINE total == SumOf(lengths, K)
               rest == RestOf(lengths, n)
               floor == FloorOf(lengths, n)
    <3>1. /\ IsFiniteSet(K) /\ Cardinality(K) = m
          /\ total \in Nat \ {0}
          /\ share \in [K -> Nat] /\ rest \in [K -> Nat] /\ floor \in [K -> Nat \ {0}]
          /\ \A i \in K : /\ n * lengths[i] = total * share[i] + rest[i] /\ rest[i] < total
                          /\ share[i] = (n * lengths[i]) \div total
                          /\ floor[i] = IF share[i] < 1 THEN 1 ELSE share[i]
          /\ SumOf(floor, K) \in Int
          /\ n - SumOf(floor, K) <= m
          /\ (\A i \in K : share[i] >= 1) => n - SumOf(floor, K) >= 0
      BY <1>6, ShareFacts
    <3> HIDE DEF share, rest, floor, total, K
    <3>2. /\ share \in [K -> Nat]
          /\ \A i \in K : share[i] = (n * lengths[i]) \div total
      BY <3>1
    <3>3. QED
      BY <3>2 DEF K, total
  <2> HIDE DEF share
  <2>2. QED
    BY <1>6, <2>1
<1> HIDE DEF counts, share
<1>11. IsFiniteSet(K)
  BY <1>6, FS_Interval
<1>12. \A i \in K : counts[i] <= n
  <2>1. counts \in [K -> Nat]
    BY <1>9
  <2>2. SumOf(counts, K) = n
    BY <1>9
  <2> HIDE DEF K
  <2>3. QED
    BY <1>11, <2>1, <2>2, TermOfSum
<1>13. \A i \in K : counts[i] <= p[i + 1] - p[i]
  <2>1. TAKE i \in K
  <2>2. i \in 1..(m + 1) /\ i + 1 \in 1..(m + 1)
    BY <1>6
  <2>3. p[i] \in Int /\ p[i + 1] \in Int /\ counts[i] \in Int
    <3>1. p[i] \in Int /\ p[i + 1] \in Int
      BY <1>6, <2>2
    <3>2. counts[i] \in Nat \ {0}
      BY <1>9
    <3>3. QED
      BY <3>1, <3>2
  <2>4. QED
    BY <1>8, <1>12, <2>3
<1>14. E = pieces
  <2>1. CASE m = 1
    <3>1. DOMAIN counts = {1} /\ K = {1}
      <4>1. K = {1}
        BY <2>1
      <4>2. DOMAIN counts = K
        BY <1>9
      <4>3. QED
        BY <4>1, <4>2
    <3>2. counts[1] = n
      <4>1. \A y \in {1} : counts[y] = counts[1] /\ counts[1] \in Int
        BY <1>9, <2>1
      <4>2. SumOf(counts, {1}) = counts[1] * Cardinality({1})
        <5>1. IsFiniteSet({1}) /\ counts[1] \in Int /\ \A y \in {1} : counts[y] = counts[1]
          BY <4>1, FS_Singleton
        <5>2. QED
          BY <5>1, SumConstant
      <4>3. Cardinality({1}) = 1
        BY FS_Singleton
      <4>4. SumOf(counts, {1}) = n
        BY <1>9, <3>1
      <4>5. QED
        BY <4>1, <4>2, <4>3, <4>4
    <3>3. pieces = Spaced(p[1], p[1 + 1], counts[1])
      <4>1. pieces = UNION {Spaced(p[i], p[i + 1], counts[i]) : i \in {1}}
        BY <3>1 DEF EdgesOver
      <4>2. QED
        BY <4>1
    <3>4. pieces = Spaced(left, right, n)
      BY <1>6, <2>1, <3>2, <3>3
    <3> HIDE DEF pieces
    <3>5. QED
      BY <1>4, <1>6, <2>1, <3>4
  <2>2. CASE m # 1
    <3>1. Cardinality(pieces) = 1 + SumOf(counts, 1..m)
      BY <1>6, <1>9, <1>13, EdgesTogether
    <3> HIDE DEF pieces
    <3>2. Cardinality(pieces) = n + 1
      BY <1>9, <3>1
    <3>3. Len(p) # 2 /\ ~(Len(p) - 1 > n)
      BY <1>6, <1>8, <2>2
    <3>4. QED
      BY <1>4, <3>2, <3>3
  <2>3. QED
    BY <2>1, <2>2
<1>15. /\ \A i \in 1..(m + 1) : p[i] \in E
       /\ \A i \in K : Cardinality({e \in E : p[i] < e /\ e <= p[i + 1]}) = counts[i]
  <2>1. /\ pieces \in SUBSET (p[1]..p[m + 1])
        /\ \A i \in 1..(m + 1) : p[i] \in pieces
        /\ \A i \in 1..m : counts[i] <= p[i + 1] - p[i] =>
              Cardinality({e \in pieces : p[i] < e /\ e <= p[i + 1]}) = counts[i]
    <3>1. m \in Nat \ {0} /\ p \in [1..(m + 1) -> Int] /\ Rising(p, m + 1)
      BY <1>6
    <3>2. counts \in [1..m -> Nat \ {0}]
      BY <1>9
    <3>3. QED
      BY <3>1, <3>2, EdgesBetween
  <2> HIDE DEF pieces
  <2>2. QED
    BY <1>13, <1>14, <2>1
<1> HIDE DEF pieces
<1>16. ASSUME NEW i \in K, NEW g, g[1] = p[i], g[2] = p[i + 1]
       PROVE  In(g) = counts[i] /\ Share(g) = share[i] /\ g[2] - g[1] = lengths[i]
  <2>1. i \in 1..(m + 1) /\ i + 1 \in 1..(m + 1)
    BY <1>6
  <2> DEFINE a == p[i]
             b == p[i + 1]
  <2>2. a \in E /\ b \in E
    BY <1>15, <2>1
  <2>3. E \in SUBSET Int
    BY <1>3
  <2>4. Ascending(E)[1] <= a
    <3>1. Ascending(E)[1] = left
      BY <1>3
    <3>2. a \in left..right
      BY <1>3, <2>2, Zenon
    <3> HIDE DEF a
    <3>3. QED
      BY <3>1, <3>2
  <2> HIDE DEF a, b
  <2>5. Cardinality({j \in 1..n : a <= x[j] /\ x[j + 1] <= b})
           = Cardinality({e \in E : a < e /\ e <= b})
    <3>1. IsFiniteSet(E) /\ Cardinality(E) = n + 1 /\ n \in Nat /\ x = Ascending(E)
      BY <1>3
    <3> HIDE DEF x
    <3>2. Cardinality({j \in 1..n : a <= Ascending(E)[j] /\ Ascending(E)[j + 1] <= b})
             = Cardinality({e \in E : a < e /\ e <= b})
      <4>1. IsFiniteSet(E) /\ Cardinality(E) = n + 1 /\ n \in Nat
        BY <3>1
      <4> HIDE DEF E
      <4>2. QED
        BY <4>1, <2>2, <2>3, <2>4, StepsBetween
    <3>3. QED
      BY <3>1, <3>2, Zenon
  <2>6. Cardinality({e \in E : a < e /\ e <= b}) = counts[i]
    BY <1>15 DEF a, b
  <2>7. In(g) = Cardinality({j \in 1..n : a <= x[j] /\ x[j + 1] <= b})
    BY <1>16 DEF a, b
  <2>8. g[2] - g[1] = lengths[i]
    BY <1>6, <1>16
  <2> HIDE DEF In
  <2>9. Share(g) = share[i]
    BY <1>10, <2>8
  <2>10. QED
    BY <2>5, <2>6, <2>7, <2>8, <2>9
<1> HIDE DEF In, Share
<1>17. ASSUME NEW g \in Gaps(P)
       PROVE  \E i \in K : /\ In(g) = counts[i] /\ Share(g) = share[i]
                           /\ g[2] - g[1] = lengths[i]
  <2>1. PICK i \in K : g[1] = p[i] /\ g[2] = p[i + 1]
    BY <1>7
  <2>2. QED
    BY <1>16, <2>1
<1>18. \A y \in P : \E i \in 1..(n + 1) : x[i] = y
  <2>1. \A y \in P : y \in E
    BY <1>6, <1>15
  <2>2. QED
    BY <1>3, <2>1
<1>19. ASSUME NEW g \in Gaps(P)
       PROVE  /\ In(g) \in Nat \ {0} /\ Share(g) \in Nat
              /\ In(g) <= (IF Share(g) < 1 THEN 1 ELSE Share(g)) + 1
  <2>1. PICK i \in K : In(g) = counts[i] /\ Share(g) = share[i]
    BY <1>17
  <2>2. /\ counts[i] \in Nat \ {0} /\ share[i] \in Nat
        /\ counts[i] <= (IF share[i] < 1 THEN 1 ELSE share[i]) + 1
    BY <1>9, <1>10
  <2>3. QED
    BY <2>1, <2>2
<1>20. ASSUME \A g \in Gaps(P) : Share(g) >= 1, NEW g \in Gaps(P), NEW h \in Gaps(P)
       PROVE  /\ Share(g) <= In(g)
              /\ g[2] - g[1] > h[2] - h[1] => In(g) >= In(h)
  <2>1. ASSUME NEW i \in 1..m PROVE share[i] >= 1
    <3>1. PICK f \in Gaps(P) : f[1] = p[i] /\ f[2] = p[i + 1]
      BY <1>7
    <3>2. Share(f) = share[i]
      BY <1>16, <3>1
    <3>3. QED
      BY <1>20, <3>1, <3>2
  <2>2. /\ \A i \in 1..m : share[i] <= counts[i]
        /\ \A i, j \in 1..m : lengths[i] > lengths[j] => counts[i] >= counts[j]
    BY <1>9, <2>1
  <2>3. PICK i \in K : In(g) = counts[i] /\ Share(g) = share[i] /\ g[2] - g[1] = lengths[i]
    BY <1>17
  <2>4. PICK j \in K : In(h) = counts[j] /\ Share(h) = share[j] /\ h[2] - h[1] = lengths[j]
    BY <1>17
  <2>5. QED
    BY <2>2, <2>3, <2>4
<1>21. QED
  BY <1>18, <1>19, <1>20 DEF Shared, P, x, In, Share

\* The first k elements of s hold all of T.
Holds(s, k, T) == \A y \in T : \E i \in 1..k : s[i] = y

\* The elements of S in the sequence are those of T, in some order.
Lists(s, T, S) ==
  /\ Len(s) \in Nat /\ s \in [1..Len(s) -> S]
  /\ Holds(s, Len(s), T)

\* A set of abscissas of the slide, ascending.
LEMMA AscendingLists ==
  ASSUME NEW left \in Int, NEW right \in Int, NEW A \in SUBSET (left..right)
  PROVE  Lists(Ascending(A), A, left..right) /\ Ascending(A) \in Seq(left..right)
<1> DEFINE a == Ascending(A)
           m == Cardinality(A)
           S == left..right
<1>1. IsFiniteSet(S) /\ S \in SUBSET Int
  BY FS_Interval
<1> HIDE DEF S
<1>2. IsFiniteSet(A) /\ A \in SUBSET Int /\ A \in SUBSET S
  <2>1. A \in SUBSET S
    BY DEF S
  <2>2. QED
    BY <1>1, <2>1, FS_Subset
<1>3. /\ a \in [1..m -> A] /\ Len(a) = m /\ m \in Nat
      /\ \A y \in A : \E i \in 1..m : a[i] = y
      /\ a \in Seq(A)
  BY <1>2, AscendingFacts
<1> HIDE DEF a, m
<1>4. a \in [1..Len(a) -> S]
  <2>1. \A i \in 1..Len(a) : a[i] \in S
    BY <1>2, <1>3
  <2>2. QED
    BY <1>3, <2>1
<1>5. a \in Seq(S) /\ Lists(a, A, S)
  BY <1>3, <1>4 DEF Lists, Holds
<1>6. QED
  BY <1>5 DEF a, S

\* Two lists one after the other.
LEMMA JoinedLists ==
  ASSUME NEW S, NEW a \in Seq(S), NEW b \in Seq(S), NEW A, NEW B,
         Lists(a, A, S), Lists(b, B, S)
  PROVE  Lists(a \o b, A \cup B, S) /\ a \o b \in Seq(S)
<1> DEFINE m == Len(a)
           n == Len(b)
           roots == a \o b
           k == m + n
<1>1. /\ m \in Nat /\ n \in Nat
      /\ \A y \in A : \E i \in 1..m : a[i] = y
      /\ \A y \in B : \E i \in 1..n : b[i] = y
  BY DEF Lists, Holds
<1>2. /\ k \in Nat /\ Len(roots) = k /\ roots \in [1..k -> S] /\ roots \in Seq(S)
      /\ \A i \in 1..m : i \in 1..k /\ roots[i] = a[i]
      /\ \A i \in 1..n : m + i \in 1..k /\ roots[m + i] = b[i]
  <2>1. k \in Nat
    BY <1>1
  <2>2. roots \in Seq(S) /\ Len(roots) = k
    OBVIOUS
  <2>3. \A i \in 1..m : i \in 1..k /\ roots[i] = a[i]
    BY <1>1
  <2>4. \A i \in 1..n : m + i \in 1..k /\ roots[m + i] = b[i]
    <3>1. TAKE i \in 1..n
    <3>2. m + i \in 1..k /\ ~(m + i <= m) /\ (m + i) - m = i
      BY <1>1
    <3>3. QED
      BY <1>1, <3>2
  <2> HIDE DEF roots, k
  <2>5. roots \in [1..k -> S]
    BY <2>2
  <2>6. QED
    BY <2>1, <2>2, <2>3, <2>4, <2>5
<1>3. ASSUME NEW y \in A \cup B PROVE \E i \in 1..k : roots[i] = y
  <2> HIDE DEF roots, k, m, n
  <2>1. CASE y \in A
    <3>1. PICK i \in 1..m : a[i] = y
      BY <1>1, <2>1
    <3>2. QED
      BY <1>2, <3>1
  <2>2. CASE y \in B
    <3>1. PICK i \in 1..n : b[i] = y
      BY <1>1, <2>2
    <3>2. QED
      BY <1>2, <3>1
  <2>3. QED
    BY <2>1, <2>2
<1>4. QED
  BY <1>2, <1>3 DEF Lists, Holds

\* What EdgesSound asks of the edges x of one slide, where all lists the meetings.
SoundEdges(meetings, all, x, left, right, n, mergeTol) ==
  LET roots == {y \in meetings : left < y /\ y < right}
      points == CutPoints(all, left, right, mergeTol)
      Share(g) == (n * (g[2] - g[1])) \div (right - left)
      In(g) == Cardinality({i \in 1..n : g[1] <= x[i] /\ x[i + 1] <= g[2]})
      roomy == /\ Cardinality(points) - 1 <= n
               /\ \A g \in Gaps(points) : g[2] - g[1] >= n
  IN /\ Len(x) = n + 1 /\ x[1] = left /\ Last(x) = right
     /\ \A i \in 1..n : x[i] < x[i + 1]
     /\ roomy =>
           /\ points \subseteq ToSet(x)
           /\ mergeTol = 0 => roots \subseteq ToSet(x)
           /\ \A g \in Gaps(points) : In(g) \in 1..(Max({1, Share(g)}) + 1)
           /\ (\A g \in Gaps(points) : Share(g) >= 1) =>
                 \A g, h \in Gaps(points) :
                    /\ Share(g) <= In(g)
                    /\ g[2] - g[1] > h[2] - h[1] => In(g) >= In(h)

\* They are what SliceEdgesAt makes.
LEMMA JobEdges ==
  ASSUME NEW left \in Int, NEW right \in Int, NEW n \in Nat \ {0}, n <= right - left,
         NEW mergeTol \in Nat, NEW k \in Nat, NEW all \in [1..k -> left..right],
         NEW meetings, Holds(all, k, meetings)
  PROVE  SoundEdges(meetings, all, SliceEdgesAt(all, left, right, n, mergeTol),
                    left, right, n, mergeTol)
<1> DEFINE roots == {y \in meetings : left < y /\ y < right}
           points == CutPoints(all, left, right, mergeTol)
           E == EdgeSet(all, left, right, n, mergeTol)
           x == SliceEdgesAt(all, left, right, n, mergeTol)
           Share(g) == (n * (g[2] - g[1])) \div (right - left)
           In(g) == Cardinality({i \in 1..n : g[1] <= x[i] /\ x[i + 1] <= g[2]})
           roomy == /\ Cardinality(points) - 1 <= n
                    /\ \A g \in Gaps(points) : g[2] - g[1] >= n
<1>2. /\ x = Ascending(E)
      /\ E \in SUBSET (left..right) /\ left \in E /\ right \in E
      /\ IsFiniteSet(E) /\ Cardinality(E) = n + 1
      /\ x \in [1..(n + 1) -> E] /\ Len(x) = n + 1 /\ x[1] = left /\ x[n + 1] = right
      /\ \A i \in 1..n : x[i] < x[i + 1]
      /\ \A e \in E : \E i \in 1..(n + 1) : x[i] = e
  <2>1. Edging(x, E, left, right, n)
    BY EdgeSetFacts
  <2> HIDE DEF x, E
  <2>2. QED
    BY <2>1 DEF Edging
<1> HIDE DEF E
<1>3. Last(x) = right
  BY <1>2 DEF Last
<1>4. ToSet(x) = {x[i] : i \in 1..(n + 1)}
  BY <1>2 DEF ToSet
<1>5. ASSUME roomy
      PROVE  /\ \A y \in points : \E i \in 1..(n + 1) : x[i] = y
             /\ \A g \in Gaps(points) :
                   /\ In(g) \in Nat \ {0} /\ Share(g) \in Nat
                   /\ In(g) <= (IF Share(g) < 1 THEN 1 ELSE Share(g)) + 1
             /\ (\A g \in Gaps(points) : Share(g) >= 1) =>
                   \A g, h \in Gaps(points) : /\ Share(g) <= In(g)
                                              /\ g[2] - g[1] > h[2] - h[1] => In(g) >= In(h)
  <2>1. Roomy(points, n)
    BY <1>5 DEF Roomy
  <2>2. Shared(points, x, left, right, n)
    BY <2>1, RoomyEdges
  <2>3. QED
    BY <2>2, Zenon DEF Shared
<1>6. mergeTol = 0 => \A i \in 1..k : all[i] \in points
  BY CutPointsFacts
<1> HIDE DEF points, x, Share, In, roomy
<1>7. roomy => points \subseteq ToSet(x)
  BY <1>4, <1>5
<1>8. roomy /\ mergeTol = 0 => roots \subseteq ToSet(x)
  <2>1. mergeTol = 0 => roots \subseteq points
    BY <1>6 DEF Holds
  <2>2. QED
    BY <1>7, <2>1
<1>9. ASSUME roomy, NEW g \in Gaps(points)
      PROVE  In(g) \in 1..(Max({1, Share(g)}) + 1)
  <2>1. /\ In(g) \in Nat \ {0} /\ Share(g) \in Nat
        /\ In(g) <= (IF Share(g) < 1 THEN 1 ELSE Share(g)) + 1
    BY <1>5, <1>9
  <2>2. Max({1, Share(g)}) = IF 1 <= Share(g) THEN Share(g) ELSE 1
    BY <2>1, OfTwo
  <2>3. QED
    BY <2>1, <2>2
<1>10. /\ Len(x) = n + 1 /\ x[1] = left /\ Last(x) = right
       /\ \A i \in 1..n : x[i] < x[i + 1]
  BY <1>2, <1>3
<1>11. QED
  BY <1>5, <1>7, <1>8, <1>9, <1>10 DEF SoundEdges, points, x, Share, In, roomy

\* Before the edges are resolved there are none; afterwards they stay what they were
\* resolved to, with the roots that were found.
EdgesInv ==
  /\ cutting = "waiting" => xEdges = <<>>
  /\ cutting = "edges" => xEdges = <<>> /\ job \in Jobs
  /\ cutting \notin {"waiting", "edges"} =>
        /\ job \in Jobs
        /\ \E found \in WaterRoots :
              xEdges = SliceEdgesAt(RawRoots(found), job.left, job.right, job.n,
                                    job.mergeTol)

\* There are no edges at the start.
LEMMA EdgesInvInit == SliceInit => EdgesInv
BY DEF SliceInit, EdgesInv

\* The ground and the slide decide where the base meets a line.
LEMMA RootsKept ==
  ASSUME UNCHANGED domainVars, UNCHANGED job
  PROVE  /\ WaterRoots' = WaterRoots
         /\ \A found : RawRoots(found)' = RawRoots(found)
<1>1. \A s : Over(s)' = Over(s) /\ Side(Over(s).from, s)' = Side(Over(s).from, s)
             /\ Side(Over(s).to, s)' = Side(Over(s).to, s)
  BY DEF Over, Side
<1>2. \A s : Meets(s)' = Meets(s)
  BY DEF Meets, Over, Side
<1>3. \A s : Inner(s)' = Inner(s)
  BY <1>1, <1>2 DEF Inner
<1>4. \A s : Crossed(s)' = Crossed(s) /\ OneSided(s)' = OneSided(s)
  BY DEF Crossed, OneSided, Over, Side
<1>5. \A s : PieceRoots(s)' = PieceRoots(s)
  BY <1>1, <1>2, <1>3, <1>4 DEF PieceRoots
<1>6. WaterRoots' = WaterRoots
  <2>1. Segments(job.water)' = Segments(job.water)
    BY DEF Segments
  <2>2. (UNION {PieceRoots(s) : s \in ToSet(Segments(job.water))})'
           = UNION {PieceRoots(s) : s \in ToSet(Segments(job.water))}
    BY <1>5, <2>1 DEF ToSet
  <2>3. QED
    BY <1>5, <2>1, <2>2 DEF WaterRoots
<1>7. BoundarySegments' = BoundarySegments
  BY DEF BoundarySegments, domainVars
<1>8. Uniform' = Uniform
  BY <1>7 DEF Uniform, domainVars
<1>9. BoundaryRoots' = BoundaryRoots
  BY <1>7, <1>8 DEF BoundaryRoots
<1>10. \A found : RawRoots(found)' = RawRoots(found)
  BY <1>9 DEF RawRoots
<1>11. QED
  BY <1>6, <1>10

\* Every step leaves the edges as EdgesInv has them.
LEMMA EdgesInvNext == EdgesInv /\ [SliceNext]_slicingVars => EdgesInv'
<1> SUFFICES ASSUME EdgesInv, [SliceNext]_slicingVars PROVE EdgesInv'
  OBVIOUS
<1>1. ASSUME cutting' # "waiting", cutting' # "edges", cutting # "waiting", cutting # "edges",
             UNCHANGED <<domainVars, job, xEdges>>
      PROVE  EdgesInv'
  <2>1. PICK found \in WaterRoots :
           xEdges = SliceEdgesAt(RawRoots(found), job.left, job.right, job.n, job.mergeTol)
    BY <1>1 DEF EdgesInv
  <2>2. WaterRoots' = WaterRoots /\ RawRoots(found)' = RawRoots(found)
    BY <1>1, RootsKept
  <2>3. QED
    BY <1>1, <2>1, <2>2 DEF EdgesInv
<1>2. CASE BuildDomain
  BY <1>2 DEF BuildDomain, sliceVars, EdgesInv
<1>3. CASE TakeJob
  BY <1>3 DEF TakeJob, EdgesInv
<1>4. CASE ResolveEdges
  <2>1. PICK found \in WaterRoots :
           xEdges' = SliceEdgesAt(RawRoots(found), job.left, job.right, job.n, job.mergeTol)
    BY <1>4 DEF ResolveEdges
  <2>2. cutting = "edges" /\ cutting' \notin {"waiting", "edges"} /\ job' = job
    BY <1>4 DEF ResolveEdges
  <2>3. WaterRoots' = WaterRoots /\ RawRoots(found)' = RawRoots(found)
    BY <1>4, RootsKept DEF ResolveEdges
  <2>4. QED
    BY <2>1, <2>2, <2>3 DEF EdgesInv
<1>5. CASE MeasureColumn
  BY <1>1, <1>5 DEF MeasureColumn
<1>6. CASE ColumnsMeasured
  BY <1>1, <1>6 DEF ColumnsMeasured
<1>7. CASE CutSlice
  BY <1>1, <1>7 DEF CutSlice
<1>8. CASE FinishSlices
  BY <1>1, <1>8 DEF FinishSlices
<1>9. CASE UNCHANGED slicingVars
  <2>1. UNCHANGED <<domainVars, job, xEdges, cutting>>
    BY <1>9 DEF slicingVars, sliceVars
  <2>2. CASE cutting \in {"waiting", "edges"}
    BY <2>1, <2>2 DEF EdgesInv
  <2>3. CASE cutting \notin {"waiting", "edges"}
    BY <1>1, <2>1, <2>3
  <2>4. QED
    BY <2>2, <2>3
<1>10. QED
  BY <1>2, <1>3, <1>4, <1>5, <1>6, <1>7, <1>8, <1>9 DEF SliceNext

\* A straight piece of the water, over the slide.
LEMMA OverSlide ==
  ASSUME job \in Jobs, job.pore = "water_surfaces", NEW i \in DOMAIN Segments(job.water)
  PROVE  LET s == Segments(job.water)[i]
         IN /\ Over(s).from \in Int /\ Over(s).to \in Int
            /\ job.left <= Over(s).from /\ Over(s).to <= job.right
<1> DEFINE s == Segments(job.water)[i]
           left == job.left
           right == job.right
           a == s[1][1]
           b == s[2][1]
<1>1. left \in Int /\ right \in Int /\ job.water \in Seq(Int \X Int)
  BY JobsAssumption
<1>2. i \in 1..Len(job.water) /\ i + 1 \in 1..Len(job.water)
  <2>1. Len(job.water) \in Nat
    BY <1>1
  <2>2. DOMAIN Segments(job.water) = 1..(Len(job.water) - 1)
    BY DEF Segments
  <2>3. i \in 1..(Len(job.water) - 1)
    BY <2>2
  <2>4. QED
    BY <2>1, <2>3
<1>3. s = <<job.water[i], job.water[i + 1]>>
  BY DEF Segments
<1>4. job.water[i] \in Int \X Int /\ job.water[i + 1] \in Int \X Int
  <2>1. \A line \in Seq(Int \X Int) : \A j \in 1..Len(line) : line[j] \in Int \X Int
    OBVIOUS
  <2>2. QED
    BY <1>1, <1>2, <2>1
<1>5. a \in Int /\ b \in Int
  BY <1>3, <1>4
<1>6. Over(s) = [from |-> Max({left, a}), to |-> Min({right, b})]
  BY DEF Over
<1> HIDE DEF s, a, b, left, right
<1>7. /\ Max({left, a}) = IF left <= a THEN a ELSE left
      /\ Min({right, b}) = IF right <= b THEN right ELSE b
  BY <1>1, <1>5, OfTwo
<1>8. /\ Over(s).from \in Int /\ Over(s).to \in Int
      /\ left <= Over(s).from /\ Over(s).to <= right
  BY <1>1, <1>5, <1>6, <1>7
<1>9. QED
  BY <1>8 DEF s, left, right

\* What is found of one: abscissas of the slide, and one between the ends of the piece
\* where the base crosses it from side to side or touches it.
LEMMA PieceFound ==
  ASSUME job \in Jobs, job.pore = "water_surfaces", NEW i \in DOMAIN Segments(job.water),
         NEW R \in PieceRoots(Segments(job.water)[i])
  PROVE  LET s == Segments(job.water)[i]
         IN /\ R \in SUBSET (job.left..job.right)
            /\ (Inner(s) # {} /\ (Crossed(s) \/ OneSided(s))) =>
                  \E x \in Inner(s) : x \in R /\ job.left < x /\ x < job.right
<1> DEFINE s == Segments(job.water)[i]
           left == job.left
           right == job.right
           from == Over(s).from
           to == Over(s).to
           ends == Meets(s) \ Inner(s)
<1>1. left \in Int /\ right \in Int
  BY JobsAssumption
<1>2. from \in Int /\ to \in Int /\ left <= from /\ to <= right
  BY OverSlide
<1>3. Meets(s) \subseteq from..to /\ Inner(s) = Meets(s) \ {from, to}
  BY DEF Meets, Inner
<1>4. R \in IF to <= from THEN {{}}
            ELSE {ends \cup {x} : x \in Inner(s)}
                    \cup (IF Inner(s) = {} \/ ~(Crossed(s) \/ OneSided(s)) THEN {ends} ELSE {})
  BY DEF PieceRoots
<1> HIDE DEF s, left, right, from, to
<1>5. \A x \in Inner(s) : from < x /\ x < to /\ x \in Int
  BY <1>2, <1>3
<1>6. R \subseteq Meets(s)
  BY <1>3, <1>4
<1>7. R \in SUBSET (left..right)
  BY <1>1, <1>2, <1>3, <1>6
<1>8. ASSUME Inner(s) # {}, Crossed(s) \/ OneSided(s)
      PROVE  \E x \in Inner(s) : x \in R /\ left < x /\ x < right
  <2>1. ~(to <= from)
    BY <1>2, <1>5, <1>8
  <2>2. R \in {ends \cup {x} : x \in Inner(s)}
    BY <1>4, <1>8, <2>1
  <2>3. PICK x \in Inner(s) : R = ends \cup {x}
    BY <2>2
  <2>4. x \in R
    BY <2>3
  <2>5. left < x /\ x < right
    BY <1>1, <1>2, <1>5
  <2>6. QED
    BY <2>4, <2>5
<1>9. QED
  BY <1>7, <1>8 DEF s, left, right

\* The roots are abscissas of the slide; those of every piece are among them.
LEMMA RootsListed ==
  ASSUME job \in Jobs, NEW found \in WaterRoots
  PROVE  /\ Lists(RawRoots(found), ToSet(RawRoots(found)), job.left..job.right)
         /\ \A i \in DOMAIN found : found[i] \subseteq ToSet(RawRoots(found))
<1> DEFINE left == job.left
           right == job.right
           S == left..right
           A == UNION {found[i] : i \in DOMAIN found}
           W == {x \in A : \E i, j \in DOMAIN found : i # j /\ x \in found[i] \cap found[j]}
           B == BoundaryRoots
           water == Ascending(A) \o Ascending(W)
           all == RawRoots(found)
<1>1. left \in Int /\ right \in Int
  BY JobsAssumption
<1>2. \A i \in DOMAIN found : found[i] \in SUBSET S
  <2>1. CASE job.pore = "water_surfaces"
    <3>1. DOMAIN found = DOMAIN Segments(job.water)
      BY <2>1 DEF WaterRoots
    <3>2. \A i \in DOMAIN found : found[i] \in PieceRoots(Segments(job.water)[i])
      BY <2>1, <3>1 DEF WaterRoots
    <3>3. QED
      BY <2>1, <3>1, <3>2, PieceFound
  <2>2. CASE job.pore # "water_surfaces"
    <3>1. found = <<>>
      BY <2>2 DEF WaterRoots
    <3>2. QED
      BY <3>1
  <2>3. QED
    BY <2>1, <2>2
<1>3. B \in SUBSET S
  BY <1>1 DEF BoundaryRoots, BaseMeets
<1>4. A \in SUBSET S /\ W \in SUBSET A
  BY <1>2
<1>5. all = water \o Ascending(B)
  BY DEF RawRoots
<1> HIDE DEF A, W, B, water, all
<1>6. A \in SUBSET (left..right) /\ W \in SUBSET (left..right) /\ B \in SUBSET (left..right)
  BY <1>3, <1>4
<1> HIDE DEF S, left, right
<1>7. Lists(Ascending(A), A, S) /\ Ascending(A) \in Seq(S)
  BY <1>1, <1>6, AscendingLists DEF S
<1>8. Lists(Ascending(W), W, S) /\ Ascending(W) \in Seq(S)
  BY <1>1, <1>6, AscendingLists DEF S
<1>9. Lists(Ascending(B), B, S) /\ Ascending(B) \in Seq(S)
  BY <1>1, <1>6, AscendingLists DEF S
<1>10. Lists(water, A \cup W, S) /\ water \in Seq(S)
  BY <1>7, <1>8, JoinedLists DEF water
<1>11. Lists(all, (A \cup W) \cup B, S)
  BY <1>5, <1>9, <1>10, JoinedLists
<1>12. /\ Len(all) \in Nat /\ all \in [1..Len(all) -> S]
       /\ \A y \in (A \cup W) \cup B : \E i \in 1..Len(all) : all[i] = y
  BY <1>11 DEF Lists, Holds
<1>13. ToSet(all) = {all[i] : i \in 1..Len(all)}
  BY <1>12 DEF ToSet
<1>14. A \subseteq ToSet(all)
  BY <1>12, <1>13
<1>15. Lists(all, ToSet(all), S)
  BY <1>12, <1>13 DEF Lists, Holds
<1>16. \A i \in DOMAIN found : found[i] \subseteq ToSet(all)
  BY <1>14 DEF A
<1>17. QED
  BY <1>15, <1>16 DEF S, left, right, all

\* Every straight piece of the water that the base crosses from side to side or touches
\* has one of these between its ends.
PiecesAmong(cuts) ==
  job.pore = "water_surfaces" =>
    \A s \in ToSet(Segments(job.water)) :
       (Inner(s) # {} /\ (Crossed(s) \/ OneSided(s))) => Inner(s) \cap cuts # {}

LEMMA PiecesFound ==
  ASSUME job \in Jobs, NEW found \in WaterRoots
  PROVE  PiecesAmong({x \in ToSet(RawRoots(found)) : job.left < x /\ x < job.right})
<1> DEFINE roots == {x \in ToSet(RawRoots(found)) : job.left < x /\ x < job.right}
<1> SUFFICES ASSUME job.pore = "water_surfaces", NEW s \in ToSet(Segments(job.water)),
                    Inner(s) # {}, Crossed(s) \/ OneSided(s)
             PROVE  Inner(s) \cap roots # {}
  BY DEF PiecesAmong
<1>1. PICK i \in DOMAIN Segments(job.water) : s = Segments(job.water)[i]
  BY DEF ToSet
<1>2. DOMAIN found = DOMAIN Segments(job.water) /\ found[i] \in PieceRoots(s)
  BY <1>1 DEF WaterRoots
<1>3. PICK x \in Inner(s) : x \in found[i] /\ job.left < x /\ x < job.right
  BY <1>1, <1>2, PieceFound
<1>4. x \in ToSet(RawRoots(found))
  BY <1>2, <1>3, RootsListed
<1>5. QED
  BY <1>3, <1>4

\* Edges that are what they were resolved to are sound.
LEMMA EdgesInvSound == EdgesInv => EdgesSound
<1> SUFFICES ASSUME EdgesInv, xEdges # <<>> PROVE EdgesSound
  BY DEF EdgesSound
<1>1. job \in Jobs
  BY DEF EdgesInv
<1>2. PICK found \in WaterRoots :
         xEdges = SliceEdgesAt(RawRoots(found), job.left, job.right, job.n, job.mergeTol)
  BY DEF EdgesInv
<1> DEFINE left == job.left
           right == job.right
           n == job.n
           mergeTol == job.mergeTol
           all == RawRoots(found)
           meetings == ToSet(all)
           k == Len(all)
           roots == {x \in meetings : left < x /\ x < right}
           points == CutPoints(all, left, right, mergeTol)
           roomy == /\ Cardinality(points) - 1 <= n
                    /\ \A g \in Gaps(points) : g[2] - g[1] >= n
<1>3. /\ left \in Int /\ right \in Int /\ n \in Nat \ {0} /\ n <= right - left
      /\ mergeTol \in Nat
  BY <1>1, JobsAssumption
<1>4. k \in Nat /\ all \in [1..k -> left..right] /\ Holds(all, k, meetings)
  BY <1>1, RootsListed DEF Lists
<1>5. PiecesAmong(roots)
  BY <1>1, PiecesFound
<1> HIDE DEF left, right, n, mergeTol, meetings, all, k
<1>6. SoundEdges(meetings, all, SliceEdgesAt(all, left, right, n, mergeTol),
                 left, right, n, mergeTol)
  BY <1>3, <1>4, JobEdges
<1>7. SoundEdges(meetings, all, xEdges, left, right, n, mergeTol)
  BY <1>2, <1>6 DEF all, left, right, n, mergeTol
<1>8. roomy /\ mergeTol = 0 => PiecesAmong(ToSet(xEdges))
  <2>1. roomy /\ mergeTol = 0 => roots \subseteq ToSet(xEdges)
    BY <1>7, Zenon DEF SoundEdges
  <2> HIDE DEF roomy, roots
  <2>2. roots \subseteq ToSet(xEdges) => PiecesAmong(ToSet(xEdges))
    BY <1>5 DEF PiecesAmong
  <2>3. QED
    BY <2>1, <2>2
<1>9. QED
  BY <1>7, <1>8, Zenon
     DEF EdgesSound, SoundEdges, PiecesAmong, all, meetings, left, right, n, mergeTol

\* So EdgesInv is in every state.
LEMMA EdgesInvAlways == SliceSpec => []EdgesInv
BY EdgesInvInit, EdgesInvNext, PTL DEF SliceSpec

\* _resolve_slice_edges, whatever the ground, the water and the slide: as many slices as
\* asked for, from end to end, none empty; with room for them, an edge wherever the base
\* was found to meet water or a boundary, one on every straight piece of the water that it
\* crosses from side to side or touches and, in every interval, about its share of the
\* slices.
THEOREM EdgesAreSound == SliceSpec => []EdgesSound
BY EdgesInvAlways, EdgesInvSound, PTL

-----------------------------------------------------------------------------
(* The loads on the slices: generate_vertical_slices.                      *)

\* A sequence over a set is one over every larger set.
LEMMA WiderSequence ==
  ASSUME NEW S, NEW T \in SUBSET S, NEW s \in Seq(T)
  PROVE  s \in Seq(S)
<1>1. s \in [1..Len(s) -> T] /\ Len(s) \in Nat
  OBVIOUS
<1>2. \A i \in 1..Len(s) : s[i] \in S
  BY <1>1
<1>3. s \in [1..Len(s) -> S]
  BY <1>1, <1>2
<1>4. QED
  BY <1>1, <1>3

\* On any interval the surcharge is the growth of a function of the abscissa.
LEMMA SurchargeGrows ==
  ASSUME job \in Jobs
  PROVE  \E G \in [Int -> Int] : \A l, r \in Int : l <= r => SurchargeOn(l, r) = G[r] - G[l]
<1>1. XCrest \in Int
  BY SlopeAssumption, StepsAssumption DEF XCrest
<1>2. CASE job.surcharge = {}
  <2> DEFINE G == [z \in Int |-> 0]
  <2>1. G \in [Int -> Int] /\ \A l, r \in Int : l <= r => SurchargeOn(l, r) = G[r] - G[l]
    BY <1>2 DEF SurchargeOn
  <2>2. QED
    BY <2>1
<1>3. CASE job.surcharge # {} /\ job.surcharge = {"crest"}
  <2> DEFINE G == [z \in Int |-> IF z > XCrest THEN z - XCrest ELSE 0]
  <2>1. G \in [Int -> Int] /\ \A z \in Int : G[z] = IF z > XCrest THEN z - XCrest ELSE 0
    BY <1>1
  <2>2. ASSUME NEW l \in Int, NEW r \in Int, l <= r
        PROVE  SurchargeOn(l, r) = G[r] - G[l]
    <3> DEFINE from == Max({l, XCrest})
    <3>1. from = IF l <= XCrest THEN XCrest ELSE l
      BY <1>1, OfTwo
    <3>2. SurchargeOn(l, r) = IF r > from THEN r - from ELSE 0
      BY <1>3 DEF SurchargeOn
    <3> HIDE DEF G, from
    <3>3. QED
      BY <1>1, <2>1, <2>2, <3>1, <3>2
  <2> HIDE DEF G
  <2>3. QED
    BY <2>1, <2>2
<1>4. CASE job.surcharge # {} /\ job.surcharge # {"crest"}
  <2> DEFINE a == Min(job.surcharge)
             b == Max(job.surcharge)
             G == [z \in Int |-> IF z <= a THEN a ELSE IF z <= b THEN z ELSE b]
  <2>1. job.surcharge \in SUBSET Int /\ IsFiniteSet(job.surcharge) /\ job.surcharge # {}
    BY <1>4, JobsAssumption
  <2>2. a \in Int /\ b \in Int /\ a <= b
    <3>1. /\ a \in job.surcharge /\ b \in job.surcharge
          /\ \A y \in job.surcharge : y <= b
      BY <2>1, Extremes
    <3>2. QED
      BY <2>1, <3>1
  <2> HIDE DEF a, b
  <2>3. /\ G \in [Int -> Int]
        /\ \A z \in Int : G[z] = IF z <= a THEN a ELSE IF z <= b THEN z ELSE b
    BY <2>2
  <2>4. ASSUME NEW l \in Int, NEW r \in Int, l <= r
        PROVE  SurchargeOn(l, r) = G[r] - G[l]
    <3> DEFINE from == Max({l, a})
               to == Min({r, b})
    <3>1. /\ from = IF l <= a THEN a ELSE l
          /\ to = IF r <= b THEN r ELSE b
      BY <2>2, OfTwo
    <3>2. SurchargeOn(l, r) = IF to > from THEN to - from ELSE 0
      BY <1>4 DEF SurchargeOn, a, b
    <3> HIDE DEF G, from, to
    <3>3. QED
      BY <2>2, <2>3, <2>4, <3>1, <3>2
  <2> HIDE DEF G
  <2>5. QED
    BY <2>3, <2>4
<1>5. QED
  BY <1>2, <1>3, <1>4

\* The level of a line that is not upright.
LEMMA LevelIsNumber ==
  ASSUME NEW p \in Int \X Int, NEW q \in Int \X Int, p[1] < q[1], NEW x \in Int
  PROVE  LevelOn(p, q, x) \in Int
<1> DEFINE a == (x - p[1]) * (q[2] - p[2])
           b == q[1] - p[1]
<1>1. a \in Int /\ b \in Nat \ {0} /\ p[2] \in Int
  OBVIOUS
<1> HIDE DEF a, b
<1>2. a \div b \in Int
  BY <1>1, Division
<1>3. LevelOn(p, q, x) = p[2] + (a \div b)
  BY DEF LevelOn, a, b
<1>4. QED
  BY <1>1, <1>2, <1>3

\* The ground has a level everywhere.
LEMMA GroundIsNumber ==
  ASSUME NEW x \in Int
  PROVE  GroundLevel(x) \in Int
<1>1. XToe \in Int /\ XCrest \in Int /\ Toe[2] * StepsY \in Int /\ Crest[2] * StepsY \in Int
  BY SlopeAssumption, StepsAssumption DEF XToe, XCrest
<1> DEFINE p == Scaled(Toe, StepsX, StepsY)
           q == Scaled(Crest, StepsX, StepsY)
<1>2. p \in Int \X Int /\ q \in Int \X Int
  BY SlopeAssumption, StepsAssumption DEF Scaled
<1>3. p[1] < q[1]
  <2>1. p[1] = StepsX * Toe[1] /\ q[1] = StepsX * Crest[1]
    BY DEF Scaled
  <2>2. StepsX \in Int /\ StepsX >= 1 /\ Toe[1] \in Int /\ Crest[1] \in Int /\ Crest[1] > Toe[1]
    BY SlopeAssumption, StepsAssumption
  <2> HIDE DEF p, q
  <2>3. StepsX * Crest[1] > StepsX * Toe[1]
    BY <2>2, Products
  <2>4. QED
    BY <1>2, <2>1, <2>3
<1> HIDE DEF p, q
<1>4. LevelOn(p, q, x) \in Int
  BY <1>2, <1>3, LevelIsNumber
<1>5. QED
  BY <1>1, <1>4 DEF GroundLevel, p, q

\* The ground and the water have a level everywhere.
LEMMA DepthIsNumber ==
  ASSUME job \in Jobs, job.pore = "water_surfaces", NEW x \in Int
  PROVE  Depth(x) \in Int
<1>1. GroundLevel(x) \in Int
  BY GroundIsNumber
<1>2. WaterLevel(x) \in Int
  <2> DEFINE w == job.water
             c == Len(w)
             S == {1} \cup {i \in 1..(c - 1) : w[i][1] <= x}
             i == Max(S)
  <2>1. w \in Seq(Int \X Int) /\ c >= 2 /\ \A k \in 1..(c - 1) : w[k][1] < w[k + 1][1]
    BY JobsAssumption
  <2>2. WaterLevel(x) = LevelOn(w[i], w[i + 1], x)
    BY DEF WaterLevel
  <2> HIDE DEF w
  <2>3. c \in Nat /\ \A k \in 1..c : w[k] \in Int \X Int
    BY <2>1
  <2>4. S \in SUBSET (1..(c - 1)) /\ S # {}
    BY <2>1, <2>3
  <2>5. IsFiniteSet(S) /\ S \in SUBSET Int
    <3> DEFINE T == 1..(c - 1)
    <3>1. IsFiniteSet(T) /\ T \in SUBSET Int
      BY <2>3, FS_Interval
    <3>2. S \in SUBSET T
      BY <2>4
    <3> HIDE DEF S, T
    <3>3. IsFiniteSet(S)
      BY <3>1, <3>2, FS_Subset
    <3>4. QED
      BY <3>1, <3>2, <3>3
  <2> HIDE DEF S
  <2>6. i \in 1..(c - 1)
    BY <2>4, <2>5, Extremes
  <2> HIDE DEF i, c
  <2>7. w[i] \in Int \X Int /\ w[i + 1] \in Int \X Int /\ w[i][1] < w[i + 1][1]
    <3>1. i \in 1..c /\ i + 1 \in 1..c
      BY <2>3, <2>6
    <3>2. QED
      BY <2>1, <2>3, <2>6, <3>1
  <2>8. QED
    BY <2>2, <2>7, LevelIsNumber
<1> DEFINE a == WaterLevel(x) - GroundLevel(x)
<1>3. a \in Int
  BY <1>1, <1>2
<1> HIDE DEF a
<1>4. Max({a, 0}) \in Int
  BY <1>3, OfTwo
<1>5. QED
  BY <1>4 DEF Depth, a

\* So is the weight of the pond.
LEMMA PondGrows ==
  ASSUME job \in Jobs
  PROVE  \E G \in [Int -> Int] : \A l, r \in Int : l <= r => Pond(l, r).down = G[r] - G[l]
<1>1. CASE job.pore # "water_surfaces"
  <2> DEFINE G == [z \in Int |-> 0]
  <2>1. G \in [Int -> Int] /\ \A l, r \in Int : l <= r => Pond(l, r).down = G[r] - G[l]
    BY <1>1 DEF Pond
  <2>2. QED
    BY <2>1
<1>2. CASE job.pore = "water_surfaces"
  <2> DEFINE a == job.water[1][1]
             b == Last(job.water)[1]
             S == a..(b - 1)
             W == [x \in S |-> Depth(x) + Depth(x + 1)]
             G == [z \in Int |-> SumOf(W, {x \in S : x < z})]
  <2>1. a \in Int /\ b \in Int
    <3> DEFINE w == job.water
    <3>1. w \in Seq(Int \X Int) /\ Len(w) >= 2
      BY <1>2, JobsAssumption
    <3> HIDE DEF w
    <3>2. w[1] \in Int \X Int /\ w[Len(w)] \in Int \X Int
      BY <3>1
    <3>3. w[1][1] \in Int /\ Last(w)[1] \in Int
      BY <3>2 DEF Last
    <3>4. QED
      BY <3>3 DEF w
  <2>2. \A x \in Int : Depth(x) \in Int
    BY <1>2, DepthIsNumber
  <2> HIDE DEF a, b
  <2>3. /\ IsFiniteSet(S) /\ \A x \in S : W[x] \in Int /\ x \in Int
        /\ \A x \in S : W[x] = Depth(x) + Depth(x + 1)
    BY <2>1, <2>2, FS_Interval
  <2>4. \A z \in Int : G[z] = SumOf(W, {x \in S : x < z})
    OBVIOUS
  <2>5. \A T \in SUBSET S : SumOf(W, T) \in Int
    <3> HIDE DEF S, W
    <3>1. \A T \in SUBSET S : IsFiniteSet(T) /\ \A x \in T : W[x] \in Int
      BY <2>3, FS_Subset
    <3>2. QED
      BY <3>1, SumRemove
  <2>6. G \in [Int -> Int]
    <3>1. \A z \in Int : {x \in S : x < z} \in SUBSET S
      OBVIOUS
    <3> HIDE DEF S, W
    <3>2. QED
      BY <2>5, <3>1
  <2>7. ASSUME NEW l \in Int, NEW r \in Int, l <= r
        PROVE  Pond(l, r).down = G[r] - G[l]
    <3> DEFINE from == Max({l, a})
               to == Min({r, b})
               steps == from..(to - 1)
               w == [x \in steps |-> Depth(x) + Depth(x + 1)]
               L == {x \in S : x < l}
               M == {x \in S : l <= x /\ x < r}
               R == {x \in S : x < r}
    <3>1. /\ from = IF l <= a THEN a ELSE l
          /\ to = IF r <= b THEN r ELSE b
      BY <2>1, OfTwo
    <3>2. Pond(l, r).down = IF to <= from THEN 0 ELSE SumOf(w, steps)
      BY <1>2 DEF Pond, a, b
    <3> HIDE DEF from, to
    <3>3. \A x : x \in M <=> x \in steps
      BY <2>1, <2>7, <3>1
    <3>4. M = steps
      <4> HIDE DEF M, steps
      <4>1. QED
        BY <3>3
    <3>5. SumOf(w, steps) = SumOf(W, M)
      <4>1. IsFiniteSet(steps) /\ \A x \in steps : x \in S
        <5>1. from \in Int /\ to \in Int
          BY <2>1, <3>1
        <5>2. IsFiniteSet(steps)
          BY <5>1, FS_Interval
        <5>3. QED
          BY <3>3, <5>2
      <4>2. \A x \in steps : w[x] = Depth(x) + Depth(x + 1)
        OBVIOUS
      <4> HIDE DEF steps, w, W, S
      <4>3. \A x \in steps : w[x] \in Int /\ w[x] = W[x]
        BY <2>3, <4>1, <4>2
      <4>4. SumOf(w, steps) = SumOf(W, steps)
        BY <4>1, <4>3, SumSame
      <4>5. QED
        BY <3>4, <4>4
    <3>6. to <= from => SumOf(W, M) = 0
      <4>1. to <= from => steps = {}
        BY <2>1, <3>1
      <4>2. SumOf(W, {}) = 0
        <5>1. IsFiniteSet({}) /\ \A x \in {} : W[x] \in Int
          BY FS_EmptySet
        <5>2. QED
          BY <5>1, SumRemove
      <4> HIDE DEF M, steps, W
      <4>3. QED
        BY <3>4, <4>1, <4>2
    <3>7. Pond(l, r).down = SumOf(W, M)
      BY <3>2, <3>5, <3>6
    <3>8. L \in SUBSET S /\ M \in SUBSET S /\ L \cap M = {} /\ L \cup M = R
      BY <2>1, <2>7
    <3> HIDE DEF L, M, R, S, W, steps, w
    <3>9. SumOf(W, R) = SumOf(W, L) + SumOf(W, M)
      BY <2>3, <3>8, SumDisjoint
    <3>10. SumOf(W, L) \in Int /\ SumOf(W, M) \in Int
      BY <2>5, <3>8
    <3>11. G[r] = SumOf(W, R) /\ G[l] = SumOf(W, L)
      BY <2>4 DEF L, R
    <3> HIDE DEF G
    <3>12. QED
      BY <3>7, <3>9, <3>10, <3>11
  <2> HIDE DEF G
  <2>8. QED
    BY <2>6, <2>7
<1>3. QED
  BY <1>1, <1>2

\* What grows from edge to edge grows as much from one end to the other.
LEMMA LoadsTelescope ==
  ASSUME NEW n \in Nat, NEW x, \A i \in 1..(n + 1) : x[i] \in Int,
         NEW G \in [Int -> Int],
         NEW f, \A i \in 1..n : f[i] = G[x[i + 1]] - G[x[i]]
  PROVE  SumOf(f, 1..n) = G[x[n + 1]] - G[x[1]]
<1> DEFINE g == [i \in 1..(n + 1) |-> G[x[i]]]
<1>1. \A i \in 1..(n + 1) : g[i] \in Int /\ g[i] = G[x[i]]
  OBVIOUS
<1>2. \A i \in 1..n : i \in 1..(n + 1) /\ i + 1 \in 1..(n + 1)
  OBVIOUS
<1>3. 1 \in 1..(n + 1) /\ n + 1 \in 1..(n + 1)
  OBVIOUS
<1> HIDE DEF g
<1>4. \A i \in 1..n : f[i] = g[i + 1] - g[i]
  BY <1>1, <1>2
<1>5. SumOf(f, 1..n) = g[n + 1] - g[1]
  BY <1>1, <1>4, Telescope
<1>6. QED
  BY <1>1, <1>3, <1>5

\* Each slice made so far carries what stands on it.
LoadInv ==
  /\ \E S : slices \in Seq(S)
  /\ cutting \in {"waiting", "edges", "columns"} => slices = <<>>
  /\ \A i \in 1..Len(slices) :
        /\ slices[i].surcharge = SurchargeOn(xEdges[i], xEdges[i + 1])
        /\ slices[i].pond = Pond(xEdges[i], xEdges[i + 1])
  /\ cutting = "done" => Len(slices) = job.n

\* There are no slices at the start.
LEMMA LoadInvInit == SliceInit => LoadInv
<1> SUFFICES ASSUME SliceInit PROVE LoadInv
  OBVIOUS
<1>1. slices = <<>> /\ cutting = "waiting" /\ <<>> \in Seq({})
  BY DEF SliceInit
<1>2. QED
  BY <1>1 DEF LoadInv

\* A load depends on the job only.
LEMMA LoadsKept ==
  ASSUME UNCHANGED job
  PROVE  \A l, r : SurchargeOn(l, r)' = SurchargeOn(l, r) /\ Pond(l, r)' = Pond(l, r)
<1>1. \A l, r : SurchargeOn(l, r)' = SurchargeOn(l, r)
  BY DEF SurchargeOn
<1>2. \A x : Depth(x)' = Depth(x)
  BY DEF Depth, WaterLevel, GroundLevel
<1>3. \A l, r : Pond(l, r)' = Pond(l, r)
  BY <1>2 DEF Pond
<1>4. QED
  BY <1>1, <1>3

\* Every step leaves the slices as LoadInv has them.
LEMMA LoadInvNext == LoadInv /\ [SliceNext]_slicingVars => LoadInv'
<1> SUFFICES ASSUME LoadInv, [SliceNext]_slicingVars PROVE LoadInv'
  OBVIOUS
<1>1. ASSUME slices = <<>>, UNCHANGED slices, cutting' # "done" PROVE LoadInv'
  <2>1. slices' = <<>> /\ <<>> \in Seq({}) /\ Len(<<>>) = 0 /\ 1..0 = {}
    BY <1>1
  <2>2. QED
    BY <1>1, <2>1 DEF LoadInv
<1>2. ASSUME UNCHANGED <<job, xEdges, slices>>,
             cutting' \notin {"waiting", "edges", "columns", "done"}
             \/ cutting' = cutting \/ (cutting' = "done" /\ Len(slices) = job.n)
      PROVE  LoadInv'
  <2>1. /\ job' = job /\ xEdges' = xEdges /\ slices' = slices
        /\ \A l, r : SurchargeOn(l, r)' = SurchargeOn(l, r) /\ Pond(l, r)' = Pond(l, r)
    BY <1>2, LoadsKept
  <2>2. /\ \E S : slices' \in Seq(S)
        /\ cutting' \in {"waiting", "edges", "columns"} => slices' = <<>>
        /\ cutting' = "done" => Len(slices') = job'.n
    BY <1>2, <2>1 DEF LoadInv
  <2>3. \A i \in 1..Len(slices') :
           /\ slices'[i].surcharge = SurchargeOn(xEdges[i], xEdges[i + 1])'
           /\ slices'[i].pond = Pond(xEdges[i], xEdges[i + 1])'
    <3>1. TAKE i \in 1..Len(slices')
    <3>2. /\ slices[i].surcharge = SurchargeOn(xEdges[i], xEdges[i + 1])
          /\ slices[i].pond = Pond(xEdges[i], xEdges[i + 1])
      BY <2>1 DEF LoadInv
    <3>3. QED
      BY <2>1, <3>2
  <2>4. QED
    BY <2>2, <2>3 DEF LoadInv
<1>3. CASE BuildDomain
  BY <1>2, <1>3 DEF BuildDomain, sliceVars
<1>4. CASE TakeJob
  BY <1>1, <1>4 DEF TakeJob, LoadInv
<1>5. CASE ResolveEdges
  BY <1>1, <1>5 DEF ResolveEdges, LoadInv
<1>6. CASE MeasureColumn
  BY <1>1, <1>6 DEF MeasureColumn, LoadInv
<1>7. CASE ColumnsMeasured
  BY <1>1, <1>7 DEF ColumnsMeasured, LoadInv
<1>8. CASE CutSlice
  <2>1. CASE UNCHANGED slices
    BY <1>2, <1>8, <2>1 DEF CutSlice
  <2>2. CASE ~UNCHANGED slices
    <3> DEFINE c == Len(slices)
               left == xEdges[c + 1]
               right == xEdges[c + 2]
    <3>1. /\ cutting = "slices" /\ cutting' = cutting
          /\ UNCHANGED <<job, xEdges>>
          /\ \E e : /\ slices' = Append(slices, e)
                    /\ e.surcharge = SurchargeOn(left, right) /\ e.pond = Pond(left, right)
      BY <1>8, <2>2 DEF CutSlice
    <3>2. PICK e : /\ slices' = Append(slices, e)
                   /\ e.surcharge = SurchargeOn(left, right) /\ e.pond = Pond(left, right)
      BY <3>1
    <3>3. PICK S : slices \in Seq(S)
      BY DEF LoadInv
    <3>4. slices \in Seq(S \cup {e}) /\ e \in S \cup {e}
      BY <3>3, WiderSequence
    <3>5. /\ slices' \in Seq(S \cup {e}) /\ Len(slices') = c + 1 /\ c \in Nat
          /\ \A i \in 1..c : slices'[i] = slices[i]
          /\ slices'[c + 1] = e
      BY <3>2, <3>4
    <3>6. \A l, r : SurchargeOn(l, r)' = SurchargeOn(l, r) /\ Pond(l, r)' = Pond(l, r)
      BY <3>1, LoadsKept
    <3> HIDE DEF c
    <3>7. ASSUME NEW i \in 1..Len(slices')
          PROVE  /\ slices'[i].surcharge = SurchargeOn(xEdges[i], xEdges[i + 1])
                 /\ slices'[i].pond = Pond(xEdges[i], xEdges[i + 1])
      <4>1. CASE i \in 1..c
        BY <3>5, <4>1 DEF LoadInv, c
      <4>2. CASE i = c + 1
        <5>1. (c + 1) + 1 = c + 2
          BY <3>5
        <5>2. QED
          BY <3>2, <3>5, <4>2, <5>1
      <4>3. QED
        BY <3>5, <4>1, <4>2
    <3>8. \A i \in 1..Len(slices') :
             /\ slices'[i].surcharge = SurchargeOn(xEdges[i], xEdges[i + 1])'
             /\ slices'[i].pond = Pond(xEdges[i], xEdges[i + 1])'
      BY <3>1, <3>6, <3>7
    <3>9. QED
      BY <3>1, <3>5, <3>8 DEF LoadInv
  <2>3. QED
    BY <2>1, <2>2
<1>9. CASE FinishSlices
  BY <1>2, <1>9 DEF FinishSlices
<1>10. CASE UNCHANGED slicingVars
  BY <1>2, <1>10 DEF slicingVars, sliceVars
<1>11. QED
  BY <1>3, <1>4, <1>5, <1>6, <1>7, <1>8, <1>9, <1>10 DEF SliceNext

\* From end to end, once they are resolved.
LEMMA EdgesGoAcross ==
  ASSUME EdgesInv, cutting \notin {"waiting", "edges"}
  PROVE  /\ job \in Jobs /\ job.n \in Nat /\ job.left \in Int /\ job.right \in Int
         /\ job.left <= job.right
         /\ xEdges[1] = job.left /\ xEdges[job.n + 1] = job.right
         /\ \A i \in 1..(job.n + 1) : xEdges[i] \in Int
         /\ \A i \in 1..job.n : xEdges[i] <= xEdges[i + 1]
<1>a. job \in Jobs
  BY DEF EdgesInv
<1>b. PICK found \in WaterRoots :
         xEdges = SliceEdgesAt(RawRoots(found), job.left, job.right, job.n, job.mergeTol)
  BY DEF EdgesInv
<1> DEFINE left == job.left
           right == job.right
           n == job.n
           mergeTol == job.mergeTol
           all == RawRoots(found)
           k == Len(all)
           E == EdgeSet(all, left, right, n, mergeTol)
<1>1. job \in Jobs /\ xEdges = SliceEdgesAt(all, left, right, n, mergeTol)
  BY <1>a, <1>b
<1>2. /\ left \in Int /\ right \in Int /\ left < right /\ n \in Nat \ {0}
      /\ n <= right - left /\ mergeTol \in Nat
  BY <1>1, JobsAssumption
<1>3. k \in Nat /\ all \in [1..k -> left..right]
  BY <1>1, RootsListed DEF Lists
<1> HIDE DEF left, right, n, mergeTol, all, k
<1>4. Edging(SliceEdgesAt(all, left, right, n, mergeTol), E, left, right, n)
  BY <1>2, <1>3, EdgeSetFacts
<1>5. Edging(xEdges, E, left, right, n)
  BY <1>1, <1>4
<1> HIDE DEF E
<1>6. /\ xEdges \in [1..(n + 1) -> E] /\ xEdges[1] = left /\ xEdges[n + 1] = right
      /\ \A i \in 1..n : xEdges[i] < xEdges[i + 1]
      /\ E \in SUBSET (left..right)
  BY <1>5 DEF Edging
<1>7. \A i \in 1..(n + 1) : xEdges[i] \in Int
  <2>1. \A i \in 1..(n + 1) : xEdges[i] \in left..right
    BY <1>6
  <2>2. QED
    BY <2>1
<1>8. \A i \in 1..n : xEdges[i] <= xEdges[i + 1]
  <2>1. \A i \in 1..n : i \in 1..(n + 1) /\ i + 1 \in 1..(n + 1)
    BY <1>2
  <2>2. QED
    BY <1>6, <1>7, <2>1
<1>9. left <= right /\ n \in Nat
  BY <1>2
<1>10. QED
  BY <1>1, <1>2, <1>6, <1>7, <1>8, <1>9 DEF left, right, n

-----------------------------------------------------------------------------
(* The weight of the slices.                                               *)

\* k sums f over the elements of S that c puts in each class of T.
SumsByClass(S, f, T, c, k) == \A y \in T : k[y] = SumOf(f, {x \in S : c[x] = y})

\* A sum over the classes of a partition, class by class.
LEMMA SumByClass ==
  ASSUME NEW S, IsFiniteSet(S), NEW f, \A x \in S : f[x] \in Int,
         NEW T, IsFiniteSet(T), NEW c, NEW k, SumsByClass(S, f, T, c, k)
  PROVE  /\ SumOf(k, T) = SumOf(f, {x \in S : c[x] \in T})
         /\ \A y \in T : k[y] \in Int
<1> DEFINE Class(y) == {x \in S : c[x] = y}
           Of(P) == {x \in S : c[x] \in P}
           B == {P \in SUBSET T : SumOf(k, P) # SumOf(f, Of(P))}
<1>1. \A Q \in SUBSET S : IsFiniteSet(Q) /\ SumOf(f, Q) \in Int
  <2>1. \A Q \in SUBSET S : IsFiniteSet(Q) /\ \A x \in Q : f[x] \in Int
    BY FS_Subset
  <2>2. QED
    BY <2>1, SumRemove
<1>2. \A y \in T : Class(y) \in SUBSET S /\ k[y] = SumOf(f, Class(y))
  BY DEF SumsByClass
<1>3. \A P : Of(P) \in SUBSET S
  OBVIOUS
<1>4. \A y \in T : k[y] \in Int
  <2> HIDE DEF Class
  <2>1. QED
    BY <1>1, <1>2
<1>5. B = {}
  <2>1. SUFFICES ASSUME B # {} PROVE FALSE
    OBVIOUS
  <2>2. PICK P \in B : \A Q \in SUBSET P : Q # P => Q \notin B
    <3>1. B \subseteq SUBSET T
      OBVIOUS
    <3> HIDE DEF B
    <3>2. QED
      BY <2>1, <3>1, LeastSubset
  <2>3. P \in SUBSET T /\ SumOf(k, P) # SumOf(f, Of(P))
    OBVIOUS
  <2>4. IsFiniteSet(P) /\ \A y \in P : k[y] \in Int
    BY <1>4, <2>3, FS_Subset
  <2>5. P # {}
    <3>1. Of({}) = {}
      OBVIOUS
    <3>2. SumOf(k, {}) = 0 /\ SumOf(f, {}) = 0
      <4>1. IsFiniteSet({})
        BY FS_EmptySet
      <4>2. (\A y \in {} : k[y] \in Int) /\ (\A y \in {} : f[y] \in Int)
        OBVIOUS
      <4>3. QED
        BY <4>1, <4>2, SumRemove
    <3> HIDE DEF Of
    <3>3. QED
      BY <2>3, <3>1, <3>2
  <2>6. PICK y \in P : TRUE
    BY <2>5
  <2>7. P \ {y} \in SUBSET T /\ P \ {y} \notin B
    <3>1. P \ {y} \in SUBSET P /\ P \ {y} # P
      BY <2>6
    <3>2. QED
      BY <2>2, <2>3, <3>1
  <2>8. SumOf(k, P \ {y}) = SumOf(f, Of(P \ {y}))
    BY <2>7
  <2>9. SumOf(k, P) = k[y] + SumOf(k, P \ {y})
    BY <2>4, <2>6, SumRemove
  <2>10. /\ Class(y) \cap Of(P \ {y}) = {} /\ Class(y) \cup Of(P \ {y}) = Of(P)
    BY <2>6
  <2>11. k[y] = SumOf(f, Class(y)) /\ Class(y) \in SUBSET S /\ Of(P \ {y}) \in SUBSET S
    BY <1>2, <1>3, <2>3, <2>6
  <2> HIDE DEF Class, Of, B
  <2>12. SumOf(f, Of(P)) = SumOf(f, Class(y)) + SumOf(f, Of(P \ {y}))
    <3> DEFINE one == Class(y)
               rest == Of(P \ {y})
    <3>1. one \in SUBSET S /\ rest \in SUBSET S /\ one \cap rest = {}
      BY <2>10, <2>11
    <3> HIDE DEF one, rest
    <3>2. SumOf(f, one \cup rest) = SumOf(f, one) + SumOf(f, rest)
      BY <3>1, SumDisjoint
    <3>3. QED
      BY <2>10, <3>2 DEF one, rest
  <2>13. QED
    BY <2>3, <2>8, <2>9, <2>11, <2>12
<1>6. SumOf(k, T) = SumOf(f, Of(T))
  BY <1>5
<1>7. QED
  BY <1>4, <1>6

\* f sums the rows of h and g its columns.
RowsAndColumns(S, T, h, f, g) ==
  /\ \A x \in S, y \in T : h[x][y] \in Int
  /\ \A x \in S : f[x] = SumOf(h[x], T)
  /\ g = [y \in T |-> SumOf([x \in S |-> h[x][y]], S)]

\* A double sum in either order: by rows, and by columns.
LEMMA SumSwap ==
  ASSUME NEW S, IsFiniteSet(S), NEW T, IsFiniteSet(T), NEW h, NEW f, NEW g,
         RowsAndColumns(S, T, h, f, g)
  PROVE  SumOf(f, S) = SumOf(g, T)
<1> DEFINE Column(y) == [x \in S |-> h[x][y]]
           Total(P) == [y \in T |-> SumOf(Column(y), P)]
           B == {P \in SUBSET S : SumOf(f, P) # SumOf(Total(P), T)}
<1>1. /\ \A x \in S, y \in T : h[x][y] \in Int
      /\ \A x \in S : f[x] = SumOf(h[x], T)
      /\ g = [y \in T |-> SumOf([x \in S |-> h[x][y]], S)]
  BY DEF RowsAndColumns
<1>2. \A y \in T : \A x \in S : Column(y)[x] = h[x][y] /\ Column(y)[x] \in Int
  BY <1>1
<1>3. \A P \in SUBSET S : IsFiniteSet(P)
  BY FS_Subset
<1>4. \A x \in S : f[x] \in Int
  BY <1>1, SumRemove
<1>5. \A P : \A y \in T : Total(P)[y] = SumOf(Column(y), P)
  OBVIOUS
<1> HIDE DEF Column, Total
<1>6. \A P \in SUBSET S : \A y \in T :
        /\ SumOf(Column(y), P) \in Int /\ SumOf(Column(y), {}) = 0
        /\ \A x \in P : SumOf(Column(y), P) = h[x][y] + SumOf(Column(y), P \ {x})
  <2>1. TAKE P \in SUBSET S
  <2>2. TAKE y \in T
  <2>3. IsFiniteSet(P) /\ \A x \in P : Column(y)[x] \in Int /\ Column(y)[x] = h[x][y]
    BY <1>2, <1>3
  <2>4. /\ SumOf(Column(y), P) \in Int /\ SumOf(Column(y), {}) = 0
        /\ \A x \in P : SumOf(Column(y), P) = Column(y)[x] + SumOf(Column(y), P \ {x})
    BY <2>3, SumRemove
  <2>5. QED
    BY <2>3, <2>4
<1>7. B = {}
  <2>1. SUFFICES ASSUME B # {} PROVE FALSE
    OBVIOUS
  <2>2. PICK P \in B : \A Q \in SUBSET P : Q # P => Q \notin B
    <3>1. B \subseteq SUBSET S
      OBVIOUS
    <3> HIDE DEF B
    <3>2. QED
      BY <2>1, <3>1, LeastSubset
  <2>3. P \in SUBSET S /\ SumOf(f, P) # SumOf(Total(P), T)
    OBVIOUS
  <2>4. IsFiniteSet(P) /\ \A x \in P : f[x] \in Int
    BY <1>3, <1>4, <2>3
  <2>5. P # {}
    <3>1. \A y \in T : Total({})[y] = 0
      BY <1>5, <1>6, <2>3
    <3>2. SumOf(Total({}), T) = 0 * Cardinality(T) /\ Cardinality(T) \in Nat
      BY <3>1, SumConstant, FS_CardinalityType
    <3>3. SumOf(f, {}) = 0
      BY <2>4, SumRemove
    <3>4. QED
      BY <2>3, <3>2, <3>3
  <2>6. PICK x \in P : TRUE
    BY <2>5
  <2> DEFINE Q == P \ {x}
  <2>7. Q \in SUBSET S /\ Q \notin B
    <3>1. Q \in SUBSET P /\ Q # P
      BY <2>6
    <3>2. QED
      BY <2>2, <2>3, <3>1
  <2>8. SumOf(f, Q) = SumOf(Total(Q), T)
    BY <2>7
  <2>9. SumOf(f, P) = f[x] + SumOf(f, Q) /\ f[x] = SumOf(h[x], T)
    BY <1>1, <2>3, <2>4, <2>6, SumRemove
  <2> HIDE DEF B, Q
  <2>10. Plus(T, h[x], Total(Q), Total(P))
    <3>1. ASSUME NEW y \in T
          PROVE  /\ h[x][y] \in Int /\ Total(Q)[y] \in Int /\ Total(P)[y] \in Int
                 /\ Total(P)[y] = h[x][y] + Total(Q)[y]
      <4>1. h[x][y] \in Int
        BY <1>1, <2>3, <2>6
      <4>2. Total(Q)[y] = SumOf(Column(y), Q) /\ Total(P)[y] = SumOf(Column(y), P)
        BY <1>5
      <4>3. SumOf(Column(y), Q) \in Int /\ SumOf(Column(y), P) \in Int
        BY <1>6, <2>3, <2>7
      <4>4. SumOf(Column(y), P) = h[x][y] + SumOf(Column(y), Q)
        BY <1>6, <2>3, <2>6 DEF Q
      <4>5. QED
        BY <4>1, <4>2, <4>3, <4>4
    <3>2. QED
      BY <3>1 DEF Plus
  <2>11. SumOf(Total(P), T) = SumOf(h[x], T) + SumOf(Total(Q), T)
    BY <2>10, SumPlus
  <2>12. QED
    BY <2>3, <2>8, <2>9, <2>11
<1>8. SumOf(f, S) = SumOf(Total(S), T)
  BY <1>7
<1>9. g = Total(S)
  BY <1>1 DEF Total, Column
<1>10. QED
  BY <1>8, <1>9

\* The lengths of the intervals between neighbouring levels add up to the whole.
LEMMA GapsFill ==
  ASSUME NEW bottom \in Int, NEW top \in Int, bottom < top,
         NEW P \in SUBSET (bottom..top), bottom \in P, top \in P
  PROVE  /\ IsFiniteSet(Gaps(P)) /\ \A g \in Gaps(P) : g[2] - g[1] \in Nat \ {0}
         /\ SumOf([g \in Gaps(P) |-> g[2] - g[1]], Gaps(P)) = top - bottom
<1> DEFINE f == [g \in Gaps(P) |-> g[2] - g[1]]
           Upto(z) == {g \in Gaps(P) : g[2] <= z}
           B == {z \in P : SumOf(f, Upto(z)) # z - bottom}
<1>1. /\ \A z \in P : z \in Int /\ bottom <= z /\ z <= top
      /\ \A Q \in SUBSET P : IsFiniteSet(Q) /\ Q \in SUBSET Int
  <2>1. IsFiniteSet(bottom..top)
    BY FS_Interval
  <2>2. \A z \in P : z \in Int /\ bottom <= z /\ z <= top
    OBVIOUS
  <2>3. IsFiniteSet(P) /\ P \in SUBSET Int
    <3>1. IsFiniteSet(P)
      BY <2>1, FS_Subset
    <3>2. QED
      BY <2>2, <3>1
  <2>4. \A Q \in SUBSET P : IsFiniteSet(Q) /\ Q \in SUBSET Int
    BY <2>3, FS_Subset
  <2>5. QED
    BY <2>2, <2>4
<1>2. \A g \in Gaps(P) :
         /\ g \in P \X P /\ g = <<g[1], g[2]>> /\ g[1] \in P /\ g[2] \in P /\ g[1] < g[2]
         /\ \A y \in P : ~(g[1] < y /\ y < g[2])
  BY DEF Gaps
<1>3. IsFiniteSet(Gaps(P))
  <2>1. IsFiniteSet(P \X P)
    BY <1>1, FS_Product
  <2>2. Gaps(P) \subseteq P \X P
    BY DEF Gaps
  <2>3. QED
    BY <2>1, <2>2, FS_Subset
<1>4. \A g \in Gaps(P) : f[g] = g[2] - g[1] /\ f[g] \in Nat \ {0}
  BY <1>1, <1>2
<1>5. \A g, h \in Gaps(P) : g[2] = h[2] => g = h
  <2>1. SUFFICES ASSUME NEW g \in Gaps(P), NEW h \in Gaps(P), g[2] = h[2] PROVE g = h
    OBVIOUS
  <2>2. g[1] = h[1]
    BY <1>1, <1>2, <2>1
  <2>3. QED
    BY <1>2, <2>1, <2>2
<1> HIDE DEF f
<1>6. B = {}
  <2>1. SUFFICES ASSUME B # {} PROVE FALSE
    OBVIOUS
  <2> DEFINE z == Min(B)
  <2>2. z \in B /\ \A y \in B : z <= y
    <3>1. B \in SUBSET P
      OBVIOUS
    <3> HIDE DEF B
    <3>2. IsFiniteSet(B) /\ B \in SUBSET Int
      BY <1>1, <3>1
    <3>3. QED
      BY <2>1, <3>2, Extremes
  <2> HIDE DEF z
  <2>3. z \in P /\ z \in Int /\ SumOf(f, Upto(z)) # z - bottom
    BY <1>1, <2>2
  <2>4. z # bottom
    <3>1. SUFFICES ASSUME z = bottom PROVE FALSE
      OBVIOUS
    <3>2. Upto(z) = {}
      BY <1>1, <1>2, <3>1
    <3>3. SumOf(f, {}) = 0
      BY <1>3, <1>4, SumRemove
    <3> HIDE DEF Upto
    <3>4. QED
      BY <2>3, <3>1, <3>2, <3>3
  <2> DEFINE before == {y \in P : y < z}
             a == Max(before)
  <2>5. a \in P /\ a < z /\ \A y \in P : y < z => y <= a
    <3>1. before \in SUBSET P /\ bottom \in before
      BY <1>1, <2>3, <2>4
    <3>2. \A y : y \in before <=> y \in P /\ y < z
      OBVIOUS
    <3> HIDE DEF before
    <3>3. IsFiniteSet(before) /\ before \in SUBSET Int /\ before # {}
      BY <1>1, <3>1
    <3>4. a \in before /\ \A y \in before : y <= a
      BY <3>3, Extremes
    <3>5. QED
      BY <3>2, <3>4
  <2> HIDE DEF a, before
  <2>6. a \in Int /\ SumOf(f, Upto(a)) = a - bottom
    <3>1. a \in Int /\ ~(z <= a)
      BY <1>1, <2>3, <2>5
    <3>2. a \notin B
      BY <2>2, <3>1
    <3>3. QED
      BY <2>5, <3>1, <3>2
  <2> DEFINE e == <<a, z>>
  <2>7. e \in Gaps(P) /\ e[1] = a /\ e[2] = z
    <3>1. e \in P \X P /\ e[1] < e[2] /\ ~\E y \in P : e[1] < y /\ y < e[2]
      BY <1>1, <2>3, <2>5, <2>6
    <3>2. QED
      BY <3>1 DEF Gaps
  <2>8. Upto(z) \ {e} = Upto(a) /\ e \in Upto(z)
    <3>1. \A g \in Gaps(P) : g[2] \in Int /\ (g[2] <= z => g[2] = z \/ g[2] <= a)
      BY <1>1, <1>2, <2>3, <2>5
    <3>2. \A g \in Gaps(P) : g[2] <= a => g[2] <= z /\ g # e
      BY <2>3, <2>5, <2>6, <2>7, <3>1
    <3>3. \A g \in Gaps(P) : g[2] = z => g = e
      BY <1>5, <2>7
    <3> HIDE DEF e
    <3>4. e \in Upto(z)
      BY <2>3, <2>7
    <3>5. QED
      BY <3>1, <3>2, <3>3, <3>4
  <2>9. IsFiniteSet(Upto(z)) /\ \A g \in Upto(z) : f[g] \in Int
    <3>1. Upto(z) \subseteq Gaps(P)
      OBVIOUS
    <3>2. QED
      BY <1>3, <1>4, <3>1, FS_Subset
  <2> HIDE DEF e, Upto
  <2>10. SumOf(f, Upto(z)) = f[e] + SumOf(f, Upto(a))
    BY <2>8, <2>9, SumRemove
  <2>11. QED
    BY <1>4, <2>3, <2>6, <2>7, <2>10
<1>7. SumOf(f, Upto(top)) = top - bottom
  BY <1>6
<1>8. Upto(top) = Gaps(P)
  BY <1>1, <1>2
<1> HIDE DEF Upto
<1>9. \A g \in Gaps(P) : g[2] - g[1] \in Nat \ {0}
  BY <1>4
<1>10. QED
  BY <1>3, <1>7, <1>8, <1>9 DEF f

\* The segments of the boundaries, on the fine grid.
LEMMA FineSegments ==
  ASSUME soils \in SoilInputs, NEW s \in Fine(BoundarySegments, 1)
  PROVE  s[1] \in Int \X Int /\ s[2] \in Int \X Int
<1>1. soils \in SoilsInput /\ soils.boundaries \in Seq(Seq(Points))
  BY SoilInputsAssumption DEF SoilsInput
<1>2. StepsX * 1 \in Nat /\ StepsY * 1 \in Nat
  BY StepsAssumption
<1>3. PICK r \in BoundarySegments :
         s = <<Scaled(r[1], StepsX * 1, StepsY * 1), Scaled(r[2], StepsX * 1, StepsY * 1)>>
  BY DEF Fine, ScaledSegments
<1>4. PICK line \in Elements(soils.boundaries) : r \in Elements(Segments(line))
  BY DEF BoundarySegments
<1>5. PICK l \in 1..Len(soils.boundaries) : line = soils.boundaries[l]
  BY <1>1 DEF Elements
<1>6. l \in 0..Len(soils.boundaries) /\ l # 0
  BY <1>1
<1>7. LineSegments(soils, l) = Segments(line)
  BY <1>5, <1>6 DEF LineSegments
<1>8. r \in Points \X Points
  <2>1. \A i \in DOMAIN Segments(line) : Segments(line)[i] \in Points \X Points
    BY <1>1, <1>6, <1>7, LineFacts
  <2>2. QED
    BY <1>4, <2>1 DEF Elements
<1>9. \A p \in Points, kx, ky \in Nat : Scaled(p, kx, ky) \in Int \X Int
  BY DEF Points, Scaled
<1>10. QED
  BY <1>2, <1>3, <1>8, <1>9

\* vertical_material_lengths, away from upright boundaries: the levels lie in the column.
LEMMA LevelsWithin ==
  ASSUME soils \in SoilInputs, NEW x \in Int, ~OnUpright(x),
         NEW bottom \in Int, NEW top \in Int, bottom <= top
  PROVE  /\ CutLevels(x, bottom, top) \in SUBSET (bottom..top)
         /\ bottom \in CutLevels(x, bottom, top) /\ top \in CutLevels(x, bottom, top)
<1>1. ASSUME NEW y \in CutLevels(x, bottom, top) PROVE y \in bottom..top
  <2>1. CASE y \in {bottom, top}
    BY <2>1
  <2>2. CASE y \notin {bottom, top}
    <3>1. PICK s \in Fine(BoundarySegments, 1) :
             /\ ~(s[1][1] = s[2][1] /\ x = s[1][1])
             /\ s[1][1] # s[2][1]
             /\ y = IF s[1][1] < s[2][1] THEN LevelOn(s[1], s[2], x)
                                         ELSE LevelOn(s[2], s[1], x)
             /\ bottom <= y /\ y <= top
      BY <2>2 DEF CutLevels, LevelAt, OnUpright
    <3>2. s[1] \in Int \X Int /\ s[2] \in Int \X Int /\ s[1][1] \in Int /\ s[2][1] \in Int
      BY FineSegments
    <3>3. y \in Int
      <4>1. CASE s[1][1] < s[2][1]
        BY <3>1, <3>2, <4>1, LevelIsNumber
      <4>2. CASE ~(s[1][1] < s[2][1])
        <5>1. s[2][1] < s[1][1]
          BY <3>1, <3>2, <4>2
        <5>2. QED
          BY <3>1, <3>2, <4>2, <5>1, LevelIsNumber
      <4>3. QED
        BY <4>1, <4>2
    <3>4. QED
      BY <3>1, <3>3
  <2>3. QED
    BY <2>1, <2>2
<1>2. bottom \in CutLevels(x, bottom, top) /\ top \in CutLevels(x, bottom, top)
  BY DEF CutLevels
<1>3. QED
  BY <1>1, <1>2

\* The sum that vertical_material_lengths takes.
LEMMA SumOfLengths ==
  ASSUME NEW G, IsFiniteSet(G), NEW f, \A g \in G : f[g] = g[2] - g[1], NEW T \in SUBSET G
  PROVE  LET Is(h) == h = [s \in SUBSET T |->
                              IF s = {} THEN 0
                              ELSE ((CHOOSE x \in s : TRUE)[2] - (CHOOSE x \in s : TRUE)[1])
                                      + h[s \ {CHOOSE x \in s : TRUE}]]
         IN (CHOOSE h : Is(h))[T] = SumOf(f, T)
<1> DEFINE Is(h) == h = [s \in SUBSET T |->
                              IF s = {} THEN 0
                              ELSE ((CHOOSE x \in s : TRUE)[2] - (CHOOSE x \in s : TRUE)[1])
                                      + h[s \ {CHOOSE x \in s : TRUE}]]
<1>1. IsFiniteSet(T)
  BY FS_Subset
<1>2. \A h : Is(h) <=> AddsUp(h, f, T)
  <2>1. \A s \in SUBSET T : s # {} => f[CHOOSE x \in s : TRUE]
           = (CHOOSE x \in s : TRUE)[2] - (CHOOSE x \in s : TRUE)[1]
    OBVIOUS
  <2>2. QED
    BY <2>1 DEF AddsUp
<1> HIDE DEF Is
<1>3. PICK g : AddsUp(g, f, T) /\ \A Q \in SUBSET T : SumOf(f, Q) = g[Q]
  BY <1>1, SumOfAddsUp
<1> DEFINE h == CHOOSE k : Is(k)
<1>4. AddsUp(h, f, T)
  BY <1>2, <1>3
<1> HIDE DEF h
<1>5. h[T] = g[T]
  BY <1>1, <1>3, <1>4, SumUnique
<1>6. h[T] = SumOf(f, T)
  BY <1>3, <1>5
<1>7. QED
  BY <1>6 DEF h, Is

\* The intervals that vertical_material_lengths cuts a column into, and their lengths.
ColumnGaps(x, bottom, top) == IF top <= bottom THEN {} ELSE Gaps(CutLevels(x, bottom, top))
GapLengths(gaps) == [g \in gaps |-> g[2] - g[1]]

\* The intervals G fill a height.
GapsFillUp(G, f, height) ==
  /\ IsFiniteSet(G) /\ \A g \in G : f[g] \in Nat \ {0} /\ f[g] = g[2] - g[1]
  /\ SumOf(f, G) = height

\* They fill the column, away from upright boundaries.
LEMMA ColumnGapsFill ==
  ASSUME soils \in SoilInputs, NEW x \in Int, ~OnUpright(x),
         NEW bottom \in Int, NEW top \in Int, bottom <= top,
         NEW G, G = ColumnGaps(x, bottom, top)
  PROVE  GapsFillUp(G, GapLengths(G), top - bottom)
<1>0. PICK f : f = GapLengths(G)
  OBVIOUS
<1> DEFINE P == CutLevels(x, bottom, top)
<1>1. G = (IF top <= bottom THEN {} ELSE Gaps(P)) /\ f = [g \in G |-> g[2] - g[1]]
  BY <1>0 DEF ColumnGaps, GapLengths
<1>2. IsFiniteSet(G) /\ \A g \in G : f[g] \in Nat \ {0} /\ f[g] = g[2] - g[1]
  <2>1. CASE top <= bottom
    BY <1>1, <2>1, FS_EmptySet
  <2>2. CASE bottom < top
    <3>1. P \in SUBSET (bottom..top) /\ bottom \in P /\ top \in P
      BY LevelsWithin
    <3>2. ~(top <= bottom) /\ G = Gaps(P)
      BY <1>1, <2>2
    <3>3. \A g \in G : f[g] = g[2] - g[1]
      BY <1>1
    <3> HIDE DEF P
    <3>4. IsFiniteSet(Gaps(P)) /\ \A g \in Gaps(P) : g[2] - g[1] \in Nat \ {0}
      BY <2>2, <3>1, GapsFill
    <3>5. QED
      BY <3>2, <3>3, <3>4
  <2>3. QED
    BY <2>1, <2>2
<1>3. SumOf(f, G) = top - bottom
  <2>1. CASE top <= bottom
    <3>1. G = {} /\ top - bottom = 0
      BY <1>1, <2>1
    <3>2. SumOf(f, {}) = 0
      BY <1>2, SumRemove
    <3>3. QED
      BY <3>1, <3>2
  <2>2. CASE bottom < top
    <3>1. P \in SUBSET (bottom..top) /\ bottom \in P /\ top \in P
      BY LevelsWithin
    <3>2. ~(top <= bottom) /\ G = Gaps(P)
      BY <1>1, <2>2
    <3>3. f = [g \in Gaps(P) |-> g[2] - g[1]]
      BY <1>1, <3>2
    <3> HIDE DEF P
    <3>4. SumOf([g \in Gaps(P) |-> g[2] - g[1]], Gaps(P)) = top - bottom
      BY <2>2, <3>1, GapsFill
    <3>5. QED
      BY <3>2, <3>3, <3>4
  <2>3. QED
    BY <2>1, <2>2
<1>4. QED
  BY <1>0, <1>2, <1>3 DEF GapsFillUp

\* vertical_material_lengths, away from upright boundaries: in a column whose materials are
\* all known, each interval has a material that its middle may be given.
MaterialsIn(lengths, x, G, f, M) ==
  \E c \in [G -> M] : /\ \A g \in G : c[g] \in MaterialsAt(<<2 * x, g[1] + g[2]>>, 2)
                      /\ \A m \in M : lengths[m] = SumOf(f, {g \in G : c[g] = m})

LEMMA ColumnMaterials ==
  ASSUME soils \in SoilInputs, NEW x \in Int, ~OnUpright(x),
         NEW bottom \in Int, NEW top \in Int, bottom <= top,
         NEW lengths \in MaterialLengths(x, bottom, top), ~(lengths[GeometryError] > 0)
  PROVE  \E G : /\ GapsFillUp(G, GapLengths(G), top - bottom)
                /\ G = ColumnGaps(x, bottom, top)
                /\ MaterialsIn(lengths, x, G, GapLengths(G), soils.materials)
<1> DEFINE M == soils.materials
           G == IF top <= bottom THEN {} ELSE Gaps(CutLevels(x, bottom, top))
           f == GapLengths(G)
<1>1. IsFiniteSet(M) /\ GeometryError \notin M
  BY SoilInputsAssumption
<1>2. G = ColumnGaps(x, bottom, top)
  BY DEF ColumnGaps
<1>3. GapsFillUp(G, f, top - bottom)
  <2> HIDE DEF G
  <2>1. QED
    BY <1>2, ColumnGapsFill
<1>4. IsFiniteSet(G) /\ \A g \in G : f[g] \in Nat \ {0} /\ f[g] = g[2] - g[1]
  <2> HIDE DEF G, f
  <2>1. QED
    BY <1>3 DEF GapsFillUp
<1> DEFINE May(c) == \A g \in G : c[g] \in MaterialsAt(<<2 * x, g[1] + g[2]>>, 2)
<1>5. PICK c \in [G -> M \cup {GeometryError}] :
         /\ May(c)
         /\ lengths = [m \in M \cup {GeometryError} |-> SumOf(f, {g \in G : c[g] = m})]
  <2> DEFINE Is(h, T) == h = [s \in SUBSET T |->
                              IF s = {} THEN 0
                              ELSE ((CHOOSE z \in s : TRUE)[2] - (CHOOSE z \in s : TRUE)[1])
                                      + h[s \ {CHOOSE z \in s : TRUE}]]
             Sum(T) == (CHOOSE h : Is(h, T))[T]
  <2>1. \E c \in [G -> M \cup {GeometryError}] :
           /\ May(c)
           /\ lengths = [m \in M \cup {GeometryError} |-> Sum({g \in G : c[g] = m})]
    BY DEF MaterialLengths, MapThenSumSet, MapThenFoldSet
  <2> HIDE DEF May, G, M, f
  <2>2. \A T \in SUBSET G : Sum(T) = SumOf(f, T)
    BY <1>4, SumOfLengths
  <2> HIDE DEF Sum
  <2>3. PICK c \in [G -> M \cup {GeometryError}] :
           /\ May(c)
           /\ lengths = [m \in M \cup {GeometryError} |-> Sum({g \in G : c[g] = m})]
    BY <2>1
  <2>4. \A m : {g \in G : c[g] = m} \in SUBSET G
    OBVIOUS
  <2>5. QED
    BY <2>2, <2>3, <2>4
<1> HIDE DEF G, M, f
<1>6. \A g \in G : c[g] \in M
  <2>1. SUFFICES ASSUME NEW g \in G, c[g] \notin M PROVE FALSE
    OBVIOUS
  <2> DEFINE T == {k \in G : c[k] = GeometryError}
  <2>2. g \in T /\ T \in SUBSET G
    BY <2>1, <1>5
  <2>3. lengths[GeometryError] = SumOf(f, T)
    BY <1>5
  <2> HIDE DEF T
  <2>4. IsFiniteSet(T) /\ \A k \in T : f[k] \in Int
    BY <1>4, <2>2, FS_Subset
  <2>5. SumOf(f, T) = f[g] + SumOf(f, T \ {g})
    BY <2>2, <2>4, SumRemove
  <2>6. SumOf(f, T \ {g}) \in Int /\ 0 <= SumOf(f, T \ {g})
    <3> DEFINE Q == T \ {g}
               zero == [k \in Q |-> 0]
    <3>1. IsFiniteSet(Q) /\ Q \in SUBSET T
      BY <2>4, FS_Subset
    <3>2. \A k \in Q : f[k] \in Int /\ zero[k] \in Int /\ zero[k] = 0 /\ zero[k] <= f[k]
      BY <1>4, <2>2, <3>1
    <3> HIDE DEF Q, zero
    <3>3. SumOf(zero, Q) = 0 * Cardinality(Q) /\ Cardinality(Q) \in Nat
      BY <3>1, <3>2, SumConstant, FS_CardinalityType
    <3>4. SumOf(zero, Q) <= SumOf(f, Q)
      BY <3>1, <3>2, SumLess
    <3>5. SumOf(f, Q) \in Int
      BY <3>1, <3>2, SumRemove
    <3>6. SumOf(f, Q) \in Int /\ 0 <= SumOf(f, Q)
      BY <3>3, <3>4, <3>5
    <3>7. QED
      BY <3>6 DEF Q
  <2>7. QED
    BY <1>4, <2>1, <2>3, <2>5, <2>6
<1>7. \A m \in M : lengths[m] = SumOf(f, {g \in G : c[g] = m})
  BY <1>5
<1>8. c \in [G -> M]
  BY <1>5, <1>6
<1>9. MaterialsIn(lengths, x, G, f, M)
  BY <1>5, <1>7, <1>8 DEF MaterialsIn
<1>10. QED
  BY <1>2, <1>3, <1>9 DEF f, M

\* The intervals of such a column, their lengths and their materials.
Split(x, bottom, top, lengths, G, f) ==
  /\ G = ColumnGaps(x, bottom, top) /\ GapsFillUp(G, f, top - bottom)
  /\ MaterialsIn(lengths, x, G, f, soils.materials)

LEMMA ColumnSplit ==
  ASSUME soils \in SoilInputs, NEW x \in Int, ~OnUpright(x),
         NEW bottom \in Int, NEW top \in Int, bottom <= top,
         NEW lengths \in MaterialLengths(x, bottom, top), ~(lengths[GeometryError] > 0)
  PROVE  \E G, f : Split(x, bottom, top, lengths, G, f)
<1>1. PICK G : /\ GapsFillUp(G, GapLengths(G), top - bottom)
               /\ G = ColumnGaps(x, bottom, top)
               /\ MaterialsIn(lengths, x, G, GapLengths(G), soils.materials)
  BY ColumnMaterials
<1>2. Split(x, bottom, top, lengths, G, GapLengths(G))
  BY <1>1 DEF Split
<1>3. QED
  BY <1>2

\* The lengths of the materials fill the column.
Filled(lengths, height) ==
  /\ \A m \in soils.materials : lengths[m] \in Int
  /\ SumOf(lengths, soils.materials) = height

\* vertical_material_lengths, away from upright boundaries: a column whose materials are
\* all known is filled.
LEMMA ColumnFilled ==
  ASSUME soils \in SoilInputs, NEW x \in Int, ~OnUpright(x),
         NEW bottom \in Int, NEW top \in Int, bottom <= top,
         NEW lengths \in MaterialLengths(x, bottom, top), ~(lengths[GeometryError] > 0)
  PROVE  Filled(lengths, top - bottom)
<1>1. PICK G, f : Split(x, bottom, top, lengths, G, f)
  BY ColumnSplit
<1>2. PICK M : M = soils.materials
  OBVIOUS
<1>3. /\ IsFiniteSet(G) /\ \A g \in G : f[g] \in Int
      /\ SumOf(f, G) = top - bottom
  BY <1>1 DEF Split, GapsFillUp
<1>4. PICK c \in [G -> M] : \A m \in M : lengths[m] = SumOf(f, {g \in G : c[g] = m})
  BY <1>1, <1>2 DEF Split, MaterialsIn
<1>5. IsFiniteSet(M)
  BY <1>2, SoilInputsAssumption
<1>6. SumsByClass(G, f, M, c, lengths)
  BY <1>4 DEF SumsByClass
<1>7. /\ SumOf(lengths, M) = SumOf(f, {g \in G : c[g] \in M})
      /\ \A m \in M : lengths[m] \in Int
  BY <1>3, <1>5, <1>6, SumByClass
<1>8. {g \in G : c[g] \in M} = G
  BY <1>4
<1>9. QED
  BY <1>2, <1>3, <1>7, <1>8 DEF Filled

\* So is a column of a uniform ground.
LEMMA MeasuredFilled ==
  ASSUME soils \in SoilInputs, NEW x \in Int, ~OnUpright(x),
         job.arc[x] \in Int, job.arc[x] <= GroundLevel(x),
         NEW lengths \in ColumnLengths(x), ~(lengths[GeometryError] > 0)
  PROVE  Filled(lengths, GroundLevel(x) - job.arc[x])
<1>1. GroundLevel(x) \in Int
  BY GroundIsNumber
<1>2. CASE ~Uniform
  BY <1>1, <1>2, ColumnFilled DEF ColumnLengths
<1>3. CASE Uniform
  <2> DEFINE height == GroundLevel(x) - job.arc[x]
             M == soils.materials
  <2>1. IsFiniteSet(M) /\ GeometryError \notin M /\ Cardinality(M) = 1 /\ height \in Int
    BY <1>1, <1>3, SoilInputsAssumption DEF Uniform
  <2>2. lengths = [m \in M \cup {GeometryError} |-> IF m = GeometryError THEN 0 ELSE height]
    BY <1>3 DEF ColumnLengths
  <2> HIDE DEF height, M
  <2>3. \A m \in M : lengths[m] = height /\ lengths[m] \in Int
    BY <2>1, <2>2
  <2>4. SumOf(lengths, M) = height * Cardinality(M)
    BY <2>1, <2>3, SumConstant
  <2>5. SumOf(lengths, M) = height
    BY <2>1, <2>4
  <2>6. QED
    BY <2>3, <2>5 DEF Filled, height, M
<1>4. QED
  BY <1>2, <1>3

\* The nodes are N, from left to right: on the slide, the edges among them, and none
\* where the ground is below the base.
NodesOver(N) ==
  /\ N \in SUBSET (job.left..job.right) /\ xNodes = Ascending(N)
  /\ \A i \in 1..(job.n + 1) : xEdges[i] \in N
  /\ \A x \in N : job.arc[x] <= GroundLevel(x)

\* The height of the ground over the base at each node.
Heights == [i \in DOMAIN xNodes |-> GroundLevel(xNodes[i]) - job.arc[xNodes[i]]]

\* The nodes as a sequence.
LEMMA NodeFacts ==
  ASSUME job \in Jobs, NEW N, NodesOver(N)
  PROVE  /\ Len(xNodes) \in Nat /\ DOMAIN xNodes = 1..Len(xNodes)
         /\ \A x \in N : x \in Int /\ job.arc[x] \in Int /\ job.arc[x] <= GroundLevel(x)
         /\ \A i \in 1..Len(xNodes) : xNodes[i] \in N /\ xNodes[i] \in Int
         /\ \A i \in 1..Len(xNodes) :
               Heights[i] = GroundLevel(xNodes[i]) - job.arc[xNodes[i]] /\ Heights[i] \in Int
         /\ \A i, j \in 1..Len(xNodes) : i < j => xNodes[i] < xNodes[j]
         /\ \A x \in N : \E i \in 1..Len(xNodes) : xNodes[i] = x
<1>1. /\ job.left \in Int /\ job.right \in Int /\ job.arc \in [job.left..job.right -> Int]
      /\ N \in SUBSET (job.left..job.right) /\ xNodes = Ascending(N)
      /\ \A x \in N : job.arc[x] <= GroundLevel(x)
  BY JobsAssumption DEF NodesOver
<1>2. IsFiniteSet(N) /\ N \in SUBSET Int
  <2>1. IsFiniteSet(job.left..job.right)
    BY <1>1, FS_Interval
  <2>2. IsFiniteSet(N)
    BY <1>1, <2>1, FS_Subset
  <2>3. QED
    BY <1>1, <2>2
<1>3. /\ xNodes \in [1..Cardinality(N) -> N] /\ Len(xNodes) = Cardinality(N)
      /\ Cardinality(N) \in Nat
      /\ \A x \in N : \E i \in 1..Cardinality(N) : xNodes[i] = x
      /\ \A i, j \in 1..Cardinality(N) : i < j => xNodes[i] < xNodes[j]
  BY <1>1, <1>2, AscendingFacts
<1>4. \A x \in N : x \in Int /\ job.arc[x] \in Int /\ job.arc[x] <= GroundLevel(x)
                   /\ GroundLevel(x) \in Int
  BY <1>1, <1>2, GroundIsNumber
<1>5. \A i \in 1..Len(xNodes) : xNodes[i] \in N /\ xNodes[i] \in Int
  BY <1>3, <1>4
<1>6. \A i \in 1..Len(xNodes) :
         Heights[i] = GroundLevel(xNodes[i]) - job.arc[xNodes[i]] /\ Heights[i] \in Int
  BY <1>3, <1>4, <1>5 DEF Heights
<1>7. QED
  BY <1>3, <1>4, <1>5, <1>6

\* The intervals between nodes from left to right.
Spans(left, right) ==
  {i \in 1..(Len(xNodes) - 1) : left <= xNodes[i] /\ xNodes[i + 1] <= right}

\* Products of numbers are numbers, in either order.
LEMMA Product ==
  ASSUME NEW a \in Int, NEW b \in Int
  PROVE  a * b \in Int /\ a * b = b * a
OBVIOUS

\* The weight of a slice whose columns are filled is its area.
LEMMA FilledWeight ==
  ASSUME job \in Jobs, NEW N, NodesOver(N),
         NEW M, IsFiniteSet(M), M = soils.materials,
         DOMAIN columns = DOMAIN xNodes,
         \A i \in DOMAIN xNodes : Filled(columns[i], Heights[i]),
         NEW left, NEW right
  PROVE  SumOf([m \in M |-> MaterialArea(m, left, right)], M) = SliceArea(left, right)
<1> DEFINE K == Spans(left, right)
           w == [i \in K |-> xNodes[i + 1] - xNodes[i]]
           h == [m \in M |-> [i \in K |-> (columns[i][m] + columns[i + 1][m]) * w[i]]]
           area == [m \in M |-> MaterialArea(m, left, right)]
<1>1. /\ Len(xNodes) \in Nat /\ DOMAIN xNodes = 1..Len(xNodes)
      /\ \A i \in 1..Len(xNodes) : xNodes[i] \in Int /\ Heights[i] \in Int
  BY NodeFacts
<1>2. /\ IsFiniteSet(K)
      /\ \A i \in K : i \in DOMAIN xNodes /\ i + 1 \in DOMAIN xNodes
  <2>1. IsFiniteSet(1..(Len(xNodes) - 1))
    BY <1>1, FS_Interval
  <2>2. K \subseteq 1..(Len(xNodes) - 1)
    BY DEF Spans
  <2>3. IsFiniteSet(K)
    BY <2>1, <2>2, FS_Subset
  <2>4. QED
    BY <1>1, <2>2, <2>3
<1>3. \A i \in K : w[i] = xNodes[i + 1] - xNodes[i] /\ w[i] \in Int
  BY <1>1, <1>2
<1>4. \A i \in DOMAIN xNodes : /\ \A m \in M : columns[i][m] \in Int
                               /\ SumOf(columns[i], M) = Heights[i]
  BY DEF Filled
<1>5. \A m \in M : area[m] = SumOf(h[m], K)
  <2>1. TAKE m \in M
  <2> DEFINE f == [i \in DOMAIN columns |-> columns[i][m]]
  <2>2. \A i \in K : f[i] = columns[i][m] /\ f[i + 1] = columns[i + 1][m]
    BY <1>2
  <2>3. area[m] = SumOf([i \in K |-> (f[i] + f[i + 1]) * (xNodes[i + 1] - xNodes[i])], K)
    BY DEF MaterialArea, Trapezoids, Spans
  <2> HIDE DEF f, K, area
  <2>4. [i \in K |-> (f[i] + f[i + 1]) * (xNodes[i + 1] - xNodes[i])] = h[m]
    BY <2>2
  <2>5. QED
    BY <2>3, <2>4
<1>6. SliceArea(left, right)
         = SumOf([i \in K |-> (Heights[i] + Heights[i + 1]) * (xNodes[i + 1] - xNodes[i])], K)
  BY DEF SliceArea, Trapezoids, Spans, Heights
<1>7. \A m \in M, i \in K :
         /\ h[m][i] = (columns[i][m] + columns[i + 1][m]) * w[i]
         /\ h[m][i] \in Int
         /\ columns[i][m] \in Int /\ columns[i + 1][m] \in Int
  <2>1. TAKE m \in M, i \in K
  <2> HIDE DEF K, w
  <2>2. h[m][i] = (columns[i][m] + columns[i + 1][m]) * w[i]
    OBVIOUS
  <2>3. columns[i][m] \in Int /\ columns[i + 1][m] \in Int /\ w[i] \in Int
    BY <1>2, <1>3, <1>4
  <2>4. columns[i][m] + columns[i + 1][m] \in Int
    BY <2>3
  <2>5. QED
    BY <2>2, <2>3, <2>4, Product
<1> HIDE DEF h, K, w, area
<1>8. SumOf(area, M) = SumOf([i \in K |-> SumOf([m \in M |-> h[m][i]], M)], K)
  <2> DEFINE g == [i \in K |-> SumOf([m \in M |-> h[m][i]], M)]
  <2>1. RowsAndColumns(M, K, h, area, g)
    BY <1>5, <1>7 DEF RowsAndColumns
  <2> HIDE DEF g
  <2>2. SumOf(area, M) = SumOf(g, K)
    BY <1>2, <2>1, SumSwap
  <2>3. QED
    BY <2>2 DEF g
<1>9. \A i \in K : SumOf([m \in M |-> h[m][i]], M)
                      = (Heights[i] + Heights[i + 1]) * (xNodes[i + 1] - xNodes[i])
  <2>1. TAKE i \in K
  <2> DEFINE row == [m \in M |-> h[m][i]]
             both == [m \in M |-> columns[i][m] + columns[i + 1][m]]
             zero == [m \in M |-> 0]
             a == columns[i]
             b == columns[i + 1]
             k == w[i]
  <2>2. \A m \in M : /\ row[m] = both[m] * k /\ row[m] \in Int
                     /\ both[m] = a[m] + b[m] /\ both[m] \in Int
                     /\ a[m] \in Int /\ b[m] \in Int /\ zero[m] = 0
    BY <1>7
  <2>3. k \in Int /\ k = xNodes[i + 1] - xNodes[i]
    BY <1>3
  <2>4. SumOf(a, M) = Heights[i] /\ SumOf(b, M) = Heights[i + 1]
    BY <1>2, <1>4
  <2> HIDE DEF row, both, zero, a, b, k
  <2>5. Plus(M, a, b, both)
    BY <2>2 DEF Plus
  <2>6. SumOf(both, M) = SumOf(a, M) + SumOf(b, M) /\ SumOf(both, M) \in Int
    BY <2>5, SumPlus
  <2>7. Adds(M, 1, row, k, both, zero)
    <3>1. ASSUME NEW m \in M
          PROVE  /\ row[m] \in Int /\ both[m] \in Int /\ zero[m] \in Int
                 /\ 1 * row[m] = k * both[m] + zero[m]
      <4>1. /\ row[m] = both[m] * k /\ row[m] \in Int /\ both[m] \in Int /\ zero[m] = 0
            /\ k * both[m] \in Int /\ both[m] * k = k * both[m]
        BY <2>2, <2>3, Product
      <4>2. QED
        BY <4>1
    <3>2. QED
      BY <3>1 DEF Adds
  <2>8. 1 * SumOf(row, M) = k * SumOf(both, M) + SumOf(zero, M)
    BY <2>3, <2>7, SumLinear
  <2>9. SumOf(zero, M) = 0 * Cardinality(M) /\ Cardinality(M) \in Nat
    BY <2>2, SumConstant, FS_CardinalityType
  <2>10. SumOf(row, M) \in Int
    BY <2>2, SumRemove
  <2>11. /\ k * SumOf(both, M) \in Int
         /\ k * SumOf(both, M) = SumOf(both, M) * k
    BY <2>3, <2>6, Product
  <2>12. SumOf(row, M) = SumOf(both, M) * k
    BY <2>8, <2>9, <2>10, <2>11
  <2>13. SumOf(row, M) = (Heights[i] + Heights[i + 1]) * (xNodes[i + 1] - xNodes[i])
    BY <2>3, <2>4, <2>6, <2>12
  <2>14. QED
    BY <2>13 DEF row
<1>10. [i \in K |-> SumOf([m \in M |-> h[m][i]], M)]
         = [i \in K |-> (Heights[i] + Heights[i + 1]) * (xNodes[i + 1] - xNodes[i])]
  BY <1>9
<1>11. QED
  BY <1>6, <1>8, <1>10 DEF area

\* Between two nodes the area of the slide is the growth of a function of the abscissa.
LEMMA AreaGrows ==
  ASSUME job \in Jobs, NEW N, NodesOver(N)
  PROVE  \E G \in [Int -> Int] :
            \A l, r \in N : l <= r => SliceArea(l, r) = G[r] - G[l]
<1> DEFINE S == 1..(Len(xNodes) - 1)
           T == [i \in S |-> (Heights[i] + Heights[i + 1]) * (xNodes[i + 1] - xNodes[i])]
           Upto(z) == {i \in S : xNodes[i + 1] <= z}
           G == [z \in Int |-> SumOf(T, Upto(z))]
<1>1. /\ Len(xNodes) \in Nat /\ DOMAIN xNodes = 1..Len(xNodes)
      /\ \A i \in 1..Len(xNodes) : xNodes[i] \in Int /\ Heights[i] \in Int
      /\ \A i, j \in 1..Len(xNodes) : i < j => xNodes[i] < xNodes[j]
      /\ \A x \in N : x \in Int /\ \E i \in 1..Len(xNodes) : xNodes[i] = x
  BY NodeFacts
<1>2. /\ IsFiniteSet(S)
      /\ \A i \in S : i \in 1..Len(xNodes) /\ i + 1 \in 1..Len(xNodes)
  BY <1>1, FS_Interval
<1>3. \A i \in S : /\ T[i] = (Heights[i] + Heights[i + 1]) * (xNodes[i + 1] - xNodes[i])
                   /\ T[i] \in Int
  <2>1. TAKE i \in S
  <2>2. Heights[i] + Heights[i + 1] \in Int /\ xNodes[i + 1] - xNodes[i] \in Int
    BY <1>1, <1>2
  <2>3. T[i] = (Heights[i] + Heights[i + 1]) * (xNodes[i + 1] - xNodes[i])
    OBVIOUS
  <2> HIDE DEF T
  <2>4. QED
    BY <2>2, <2>3, Product
<1> HIDE DEF T
<1>4. \A Q \in SUBSET S : SumOf(T, Q) \in Int
  <2>1. \A Q \in SUBSET S : IsFiniteSet(Q) /\ \A i \in Q : T[i] \in Int
    BY <1>2, <1>3, FS_Subset
  <2>2. QED
    BY <2>1, SumRemove
<1>5. \A z : Upto(z) \in SUBSET S
  OBVIOUS
<1>6. G \in [Int -> Int] /\ \A z \in Int : G[z] = SumOf(T, Upto(z))
  <2> HIDE DEF Upto, S
  <2>1. QED
    BY <1>4, <1>5
<1>7. ASSUME NEW l \in N, NEW r \in N, l <= r
      PROVE  SliceArea(l, r) = G[r] - G[l]
  <2> DEFINE K == Spans(l, r)
             t == [i \in K |-> (Heights[i] + Heights[i + 1]) * (xNodes[i + 1] - xNodes[i])]
  <2>1. l \in Int /\ r \in Int
    BY <1>1
  <2>2. SliceArea(l, r) = SumOf(t, K)
    BY DEF SliceArea, Trapezoids, Spans, Heights
  <2>3. K \in SUBSET S /\ \A i \in S : i \in K <=> l <= xNodes[i] /\ xNodes[i + 1] <= r
    BY DEF Spans
  <2>4. \A i \in K : t[i] = T[i]
    BY <1>3, <2>3
  <2> HIDE DEF K, t
  <2>5. SumOf(t, K) = SumOf(T, K)
    <3>1. IsFiniteSet(K) /\ \A i \in K : t[i] \in Int
      BY <1>2, <1>3, <2>3, <2>4, FS_Subset
    <3>2. QED
      BY <2>4, <3>1, SumSame
  <2>6. \A i \in S : l <= xNodes[i] <=> ~(xNodes[i + 1] <= l)
    <3>1. TAKE i \in S
    <3>2. PICK j \in 1..Len(xNodes) : xNodes[j] = l
      BY <1>1
    <3>3. /\ i \in Int /\ j \in Int /\ i \in 1..Len(xNodes) /\ i + 1 \in 1..Len(xNodes)
          /\ xNodes[i] \in Int /\ xNodes[i + 1] \in Int
      BY <1>1, <1>2
    <3>4. CASE j <= i
      <4>1. xNodes[j] <= xNodes[i] /\ xNodes[j] < xNodes[i + 1]
        <5>1. j < i => xNodes[j] < xNodes[i]
          BY <1>1, <3>3
        <5>2. j = i => xNodes[j] = xNodes[i]
          OBVIOUS
        <5>3. j < i + 1 /\ (j < i \/ j = i)
          BY <3>3, <3>4
        <5>4. xNodes[j] < xNodes[i + 1]
          BY <1>1, <3>3, <5>3
        <5>5. QED
          BY <2>1, <3>2, <3>3, <5>1, <5>2, <5>3, <5>4
      <4>2. QED
        BY <2>1, <3>2, <3>3, <4>1
    <3>5. CASE i < j
      <4>1. xNodes[i] < xNodes[j] /\ xNodes[i + 1] <= xNodes[j]
        <5>1. xNodes[i] < xNodes[j]
          BY <1>1, <3>3, <3>5
        <5>2. i + 1 < j => xNodes[i + 1] < xNodes[j]
          BY <1>1, <3>3
        <5>3. i + 1 < j \/ i + 1 = j
          BY <3>3, <3>5
        <5>4. QED
          BY <2>1, <3>2, <3>3, <5>1, <5>2, <5>3
      <4>2. QED
        BY <2>1, <3>2, <3>3, <4>1
    <3>6. QED
      BY <3>3, <3>4, <3>5
  <2>7. Upto(l) \cap K = {} /\ Upto(l) \cup K = Upto(r)
    <3>1. \A i \in S : xNodes[i + 1] \in Int
      BY <1>1, <1>2
    <3>2. \A i \in S : xNodes[i + 1] <= l => xNodes[i + 1] <= r
      BY <1>7, <2>1, <3>1
    <3> HIDE DEF S
    <3>3. QED
      BY <2>3, <2>6, <3>2
  <2>8. SumOf(T, Upto(r)) = SumOf(T, Upto(l)) + SumOf(T, K)
    <3> DEFINE A == Upto(l)
    <3>1. A \in SUBSET S /\ A \cap K = {} /\ A \cup K = Upto(r)
      BY <1>5, <2>7
    <3>2. IsFiniteSet(S) /\ K \in SUBSET S
      BY <1>2, <2>3
    <3> HIDE DEF A, S, Upto
    <3>3. \A i \in S : T[i] \in Int
      BY <1>3
    <3>4. SumOf(T, A \cup K) = SumOf(T, A) + SumOf(T, K)
      BY <3>1, <3>2, <3>3, SumDisjoint
    <3>5. QED
      BY <3>1, <3>4 DEF A
  <2>9. SumOf(T, Upto(l)) \in Int /\ SumOf(T, K) \in Int
    <3> HIDE DEF S, Upto
    <3>1. QED
      BY <1>4, <1>5, <2>3
  <2> HIDE DEF S, Upto, G
  <2>10. QED
    BY <1>6, <2>1, <2>2, <2>5, <2>8, <2>9
<1> HIDE DEF G
<1>8. QED
  BY <1>6, <1>7

\* The columns measured so far are filled, unless they run along an upright boundary, and
\* without such a column each slice made so far weighs what its ground does.
ColumnsInv ==
  /\ soils \in SoilInputs
  /\ cutting \in {"waiting", "edges"} => columns = <<>>
  /\ \E S : columns \in Seq(S)
  /\ cutting \in {"columns", "slices", "done"} =>
        /\ \E N : NodesOver(N)
        /\ \A i \in 1..Len(columns) :
              ~OnUpright(xNodes[i]) => Filled(columns[i], Heights[i])
  /\ cutting \in {"slices", "done"} => Len(columns) = Len(xNodes)
  /\ \A i \in 1..Len(slices) :
        slices[i].left = xEdges[i] /\ slices[i].right = xEdges[i + 1]
  /\ UprightsMissed => WeightIsSelfWeight

\* There are no columns at the start.
LEMMA ColumnsInvInit == SliceInit => ColumnsInv
<1> SUFFICES ASSUME SliceInit PROVE ColumnsInv
  OBVIOUS
<1>1. /\ soils \in SoilInputs /\ cutting = "waiting"
      /\ columns = <<>> /\ slices = <<>> /\ <<>> \in Seq({})
  BY DEF SliceInit, DomainInit
<1>2. WeightIsSelfWeight
  BY <1>1 DEF WeightIsSelfWeight
<1>3. QED
  BY <1>1, <1>2 DEF ColumnsInv

\* The ground and the slide decide what a column and an area are.
LEMMA ColumnsKept ==
  ASSUME UNCHANGED <<soils, job, xEdges, xNodes>>
  PROVE  /\ Heights' = Heights
         /\ \A N : NodesOver(N)' <=> NodesOver(N)
         /\ \A x : OnUpright(x)' <=> OnUpright(x)
         /\ UprightsMissed' <=> UprightsMissed
         /\ \A c, h : Filled(c, h)' <=> Filled(c, h)
         /\ \A l, r : SliceArea(l, r)' = SliceArea(l, r)
<1>1. Heights' = Heights
  BY DEF Heights, GroundLevel
<1>2. \A N : NodesOver(N)' <=> NodesOver(N)
  BY DEF NodesOver, GroundLevel
<1>3. BoundarySegments' = BoundarySegments
  BY DEF BoundarySegments
<1>4. \A x : OnUpright(x)' <=> OnUpright(x)
  BY <1>3 DEF OnUpright
<1>5. UprightsMissed' <=> UprightsMissed
  BY <1>4 DEF UprightsMissed
<1>6. \A c, h : Filled(c, h)' <=> Filled(c, h)
  BY DEF Filled
<1>7. \A l, r : SliceArea(l, r)' = SliceArea(l, r)
  BY DEF SliceArea, Trapezoids, GroundLevel
<1>8. QED
  BY <1>1, <1>2, <1>4, <1>5, <1>6, <1>7

\* The profile and the boundaries bend at abscissas of the fine grid.
LEMMA BreakpointsAreNumbers ==
  ASSUME soils \in SoilInputs
  PROVE  Breakpoints \subseteq Int
<1>1. soils.boundaries \in Seq(Seq(Points))
  BY SoilInputsAssumption DEF SoilsInput
<1>2. XToe \in Int /\ XCrest \in Int /\ StepsX \in Nat
  BY SlopeAssumption, StepsAssumption DEF XToe, XCrest
<1>3. \A line \in ToSet(soils.boundaries) : line \in Seq(Points)
  BY <1>1 DEF ToSet
<1>4. \A line \in Seq(Points) : ToSet(line) \subseteq Points
  BY DEF ToSet
<1>5. \A p \in Points : StepsX * p[1] \in Int
  BY <1>2 DEF Points
<1>6. QED
  BY <1>2, <1>3, <1>4, <1>5 DEF Breakpoints

\* The nodes of a slide that is not refused.
LEMMA NodesResolved ==
  ASSUME soils \in SoilInputs, EdgesInv, ResolveEdges, cutting' = "columns"
  PROVE  \E N : NodesOver(N)'
<1>a. PICK found \in WaterRoots :
         LET edgesAt == SliceEdgesAt(RawRoots(found), job.left, job.right, job.n,
                                     job.mergeTol)
             nodes == ToSet(edgesAt) \cup {x \in Breakpoints : job.left < x /\ x < job.right}
         IN /\ xEdges' = edgesAt
            /\ xNodes' = Ascending(nodes)
            /\ cutting' = IF \E x \in nodes : GroundLevel(x) < job.arc[x]
                          THEN "refused" ELSE "columns"
  BY DEF ResolveEdges
<1> DEFINE left == job.left
           right == job.right
           n == job.n
           mergeTol == job.mergeTol
           all == RawRoots(found)
           k == Len(all)
           E == EdgeSet(all, left, right, n, mergeTol)
           e == SliceEdgesAt(all, left, right, n, mergeTol)
           N == ToSet(e) \cup {x \in Breakpoints : left < x /\ x < right}
<1>1. /\ cutting = "edges" /\ job \in Jobs /\ job' = job
      /\ xEdges' = e /\ xNodes' = Ascending(N)
      /\ \A x \in N : ~(GroundLevel(x) < job.arc[x])
  BY <1>a DEF ResolveEdges, EdgesInv
<1>2. /\ left \in Int /\ right \in Int /\ left < right /\ n \in Nat \ {0}
      /\ n <= right - left /\ mergeTol \in Nat /\ job.arc \in [left..right -> Int]
  BY <1>1, JobsAssumption
<1>3. k \in Nat /\ all \in [1..k -> left..right]
  BY <1>1, RootsListed DEF Lists
<1>4. \A x \in Breakpoints : x \in Int
  BY BreakpointsAreNumbers
<1> HIDE DEF left, right, n, mergeTol, all, k, E
<1>5. Edging(e, E, left, right, n)
  BY <1>2, <1>3, EdgeSetFacts DEF E
<1>6. /\ e \in [1..(n + 1) -> E] /\ E \in SUBSET (left..right)
  BY <1>5 DEF Edging
<1> HIDE DEF e
<1>7. ToSet(e) \in SUBSET (left..right) /\ \A i \in 1..(n + 1) : e[i] \in ToSet(e)
  BY <1>6 DEF ToSet
<1>8. N \in SUBSET (left..right)
  BY <1>2, <1>4, <1>7
<1>9. \A i \in 1..(n + 1) : e[i] \in N
  BY <1>7
<1>10. PICK K : K = N
  OBVIOUS
<1>11. /\ K \in SUBSET (left..right) /\ xNodes' = Ascending(K)
       /\ \A i \in 1..(n + 1) : xEdges'[i] \in K
       /\ \A x \in K : ~(GroundLevel(x) < job.arc[x])
  BY <1>1, <1>8, <1>9, <1>10
<1> HIDE DEF N
<1>12. \A x \in K : job.arc[x] <= GroundLevel(x)
  <2>1. TAKE x \in K
  <2>2. x \in left..right /\ x \in Int
    BY <1>2, <1>11
  <2>3. job.arc[x] \in Int
    BY <1>2, <2>2
  <2>4. GroundLevel(x) \in Int
    BY <2>2, GroundIsNumber
  <2>5. QED
    BY <1>11, <2>3, <2>4
<1>13. NodesOver(K)'
  BY <1>1, <1>11, <1>12 DEF NodesOver, GroundLevel, left, right, n
<1>14. QED
  BY <1>13

\* A column that was measured is filled, unless it runs along an upright boundary.
LEMMA ColumnMeasured ==
  ASSUME ColumnsInv, job \in Jobs, MeasureColumn, ~UNCHANGED columns
  PROVE  /\ \E S : columns' \in Seq(S)
         /\ \A i \in 1..Len(columns') :
               ~OnUpright(xNodes[i]) => Filled(columns'[i], Heights[i])
<1> DEFINE c == Len(columns)
           x == xNodes[c + 1]
<1>1. PICK lengths \in ColumnLengths(x) :
         ~(lengths[GeometryError] > 0) /\ columns' = Append(columns, lengths)
  BY DEF MeasureColumn
<1>2. /\ cutting = "columns" /\ c < Len(xNodes) /\ soils \in SoilInputs
      /\ \E N : NodesOver(N)
      /\ \A i \in 1..c : ~OnUpright(xNodes[i]) => Filled(columns[i], Heights[i])
  BY DEF MeasureColumn, ColumnsInv
<1>3. PICK N : NodesOver(N)
  BY <1>2
<1>4. PICK S : columns \in Seq(S)
  BY DEF ColumnsInv
<1>5. columns \in Seq(S \cup {lengths}) /\ lengths \in S \cup {lengths}
  BY <1>4, WiderSequence
<1>6. /\ columns' \in Seq(S \cup {lengths}) /\ Len(columns') = c + 1 /\ c \in Nat
      /\ \A i \in 1..c : columns'[i] = columns[i]
      /\ columns'[c + 1] = lengths
  BY <1>1, <1>5
<1>7. ~OnUpright(x) => Filled(lengths, Heights[c + 1])
  <2>1. SUFFICES ASSUME ~OnUpright(x) PROVE Filled(lengths, Heights[c + 1])
    OBVIOUS
  <2>2. Len(xNodes) \in Nat /\ c + 1 \in 1..Len(xNodes)
    BY <1>2, <1>3, <1>6, NodeFacts
  <2>3. /\ x \in Int /\ job.arc[x] \in Int /\ job.arc[x] <= GroundLevel(x)
        /\ Heights[c + 1] = GroundLevel(x) - job.arc[x]
    BY <1>3, <2>2, NodeFacts
  <2> HIDE DEF x
  <2>4. Filled(lengths, GroundLevel(x) - job.arc[x])
    BY <1>1, <1>2, <2>1, <2>3, MeasuredFilled
  <2>5. QED
    BY <2>3, <2>4
<1> HIDE DEF c
<1>8. ASSUME NEW i \in 1..Len(columns'), ~OnUpright(xNodes[i])
      PROVE  Filled(columns'[i], Heights[i])
  <2>1. CASE i \in 1..c
    BY <1>2, <1>6, <1>8, <2>1
  <2>2. CASE i = c + 1
    BY <1>6, <1>7, <1>8, <2>2
  <2>3. QED
    BY <1>6, <2>1, <2>2
<1>9. QED
  BY <1>6, <1>8

\* A slice that was cut weighs what its ground does.
LEMMA SliceWeighed ==
  ASSUME ColumnsInv, LoadInv, job \in Jobs, CutSlice, ~UNCHANGED slices
  PROVE  /\ \A i \in 1..Len(slices') :
               slices'[i].left = xEdges[i] /\ slices'[i].right = xEdges[i + 1]
         /\ UprightsMissed =>
               \A i \in DOMAIN slices' :
                  slices'[i].weight = SliceArea(slices'[i].left, slices'[i].right)
<1> DEFINE c == Len(slices)
           left == xEdges[c + 1]
           right == xEdges[c + 2]
           M == soils.materials
<1>1. PICK e : /\ slices' = Append(slices, e)
               /\ e.left = left /\ e.right = right
               /\ e.weight = SumOf([m \in M |-> MaterialArea(m, left, right)], M)
  BY DEF CutSlice
<1>2. PICK S : slices \in Seq(S)
  BY DEF LoadInv
<1>3. slices \in Seq(S \cup {e}) /\ e \in S \cup {e}
  BY <1>2, WiderSequence
<1>4. /\ slices' \in Seq(S \cup {e}) /\ Len(slices') = c + 1 /\ c \in Nat
      /\ DOMAIN slices' = 1..(c + 1) /\ DOMAIN slices = 1..c
      /\ \A i \in 1..c : slices'[i] = slices[i]
      /\ slices'[c + 1] = e
  BY <1>1, <1>3
<1>5. (c + 1) + 1 = c + 2
  BY <1>4
<1>6. \A i \in 1..c : slices[i].left = xEdges[i] /\ slices[i].right = xEdges[i + 1]
  BY DEF ColumnsInv
<1>7. UprightsMissed => e.weight = SliceArea(left, right)
  <2>1. SUFFICES ASSUME UprightsMissed PROVE e.weight = SliceArea(left, right)
    OBVIOUS
  <2>2. /\ cutting = "slices" /\ soils \in SoilInputs /\ Len(columns) = Len(xNodes)
        /\ \E N : NodesOver(N)
        /\ \A i \in 1..Len(columns) : ~OnUpright(xNodes[i]) => Filled(columns[i], Heights[i])
    BY DEF CutSlice, ColumnsInv
  <2>3. PICK N : NodesOver(N)
    BY <2>2
  <2>4. PICK T : columns \in Seq(T)
    BY DEF ColumnsInv
  <2>5. DOMAIN xNodes = 1..Len(xNodes)
    BY <2>3, NodeFacts
  <2>6. DOMAIN columns = DOMAIN xNodes
    BY <2>2, <2>4, <2>5
  <2>7. \A i \in DOMAIN xNodes : Filled(columns[i], Heights[i])
    BY <2>1, <2>2, <2>5 DEF UprightsMissed
  <2>8. IsFiniteSet(M)
    BY <2>2, SoilInputsAssumption
  <2> HIDE DEF left, right
  <2>9. SumOf([m \in M |-> MaterialArea(m, left, right)], M) = SliceArea(left, right)
    BY <2>3, <2>6, <2>7, <2>8, FilledWeight
  <2>10. QED
    BY <1>1, <2>9
<1>8. UprightsMissed => \A i \in 1..c :
         slices[i].weight = SliceArea(slices[i].left, slices[i].right)
  BY <1>4 DEF ColumnsInv, WeightIsSelfWeight
<1> HIDE DEF c, left, right, M
<1>9. \A i \in 1..(c + 1) : i \in 1..c \/ i = c + 1
  BY <1>4
<1>10. \A i \in 1..Len(slices') :
          slices'[i].left = xEdges[i] /\ slices'[i].right = xEdges[i + 1]
  BY <1>1, <1>4, <1>5, <1>6, <1>9 DEF left, right
<1>11. UprightsMissed =>
          \A i \in DOMAIN slices' :
             slices'[i].weight = SliceArea(slices'[i].left, slices'[i].right)
  BY <1>1, <1>4, <1>7, <1>8, <1>9
<1>12. QED
  BY <1>10, <1>11

\* Every step leaves the columns and the weights as ColumnsInv has them.
LEMMA ColumnsInvNext ==
  EdgesInv /\ LoadInv /\ ColumnsInv /\ [SliceNext]_slicingVars => ColumnsInv'
<1> SUFFICES ASSUME EdgesInv, LoadInv, ColumnsInv, [SliceNext]_slicingVars
             PROVE  ColumnsInv'
  OBVIOUS
<1>1. ASSUME soils' = soils, columns' = <<>>, slices' = <<>>,
             cutting' \in {"columns", "slices", "done"} =>
                cutting' = "columns" /\ \E N : NodesOver(N)'
      PROVE  ColumnsInv'
  <2>1. /\ columns' \in Seq({}) /\ Len(columns') = 0 /\ Len(slices') = 0 /\ 1..0 = {}
        /\ DOMAIN slices' = {} /\ soils' \in SoilInputs
    BY <1>1 DEF ColumnsInv
  <2>2. WeightIsSelfWeight'
    BY <2>1 DEF WeightIsSelfWeight
  <2>3. QED
    BY <1>1, <2>1, <2>2 DEF ColumnsInv
<1>2. ASSUME UNCHANGED <<soils, job, xEdges, xNodes>>,
             /\ \E S : columns' \in Seq(S)
             /\ cutting' \in {"waiting", "edges"} => columns' = <<>>
             /\ cutting' \in {"columns", "slices", "done"} =>
                   /\ cutting \in {"columns", "slices", "done"}
                   /\ \A i \in 1..Len(columns') :
                         ~OnUpright(xNodes[i]) => Filled(columns'[i], Heights[i])
             /\ cutting' \in {"slices", "done"} => Len(columns') = Len(xNodes')
             /\ \A i \in 1..Len(slices') :
                   slices'[i].left = xEdges[i] /\ slices'[i].right = xEdges[i + 1]
             /\ UprightsMissed =>
                   \A i \in DOMAIN slices' :
                      slices'[i].weight = SliceArea(slices'[i].left, slices'[i].right)
      PROVE  ColumnsInv'
  <2>1. /\ Heights' = Heights
        /\ \A N : NodesOver(N)' <=> NodesOver(N)
        /\ \A x : OnUpright(x)' <=> OnUpright(x)
        /\ UprightsMissed' <=> UprightsMissed
        /\ \A k, h : Filled(k, h)' <=> Filled(k, h)
        /\ \A l, r : SliceArea(l, r)' = SliceArea(l, r)
    BY <1>2, ColumnsKept
  <2>2. soils' \in SoilInputs
    BY <1>2 DEF ColumnsInv
  <2>3. cutting' \in {"columns", "slices", "done"} => \E N : NodesOver(N)'
    <3>1. SUFFICES ASSUME cutting' \in {"columns", "slices", "done"} PROVE \E N : NodesOver(N)'
      OBVIOUS
    <3>2. PICK N : NodesOver(N)
      BY <1>2, <3>1 DEF ColumnsInv
    <3>3. QED
      BY <2>1, <3>2
  <2>4. cutting' \in {"columns", "slices", "done"} =>
           \A i \in 1..Len(columns') :
              ~OnUpright(xNodes[i])' => Filled(columns[i], Heights[i])'
    <3>1. SUFFICES ASSUME cutting' \in {"columns", "slices", "done"},
                          NEW i \in 1..Len(columns'), ~OnUpright(xNodes[i])'
                   PROVE  Filled(columns[i], Heights[i])'
      OBVIOUS
    <3>2. ~OnUpright(xNodes[i])
      <4>1. BoundarySegments' = BoundarySegments /\ xNodes' = xNodes
        BY <1>2 DEF BoundarySegments
      <4>2. QED
        BY <3>1, <4>1 DEF OnUpright
    <3>3. Filled(columns'[i], Heights[i])
      BY <1>2, <3>1, <3>2
    <3>4. QED
      BY <1>2, <2>1, <3>3 DEF Filled
  <2>5. \A i \in 1..Len(slices') :
           slices'[i].left = xEdges'[i] /\ slices'[i].right = xEdges'[i + 1]
    BY <1>2
  <2>6. UprightsMissed' => WeightIsSelfWeight'
    <3>1. SUFFICES ASSUME UprightsMissed' PROVE WeightIsSelfWeight'
      OBVIOUS
    <3>2. \A i \in DOMAIN slices' :
             slices'[i].weight = SliceArea(slices'[i].left, slices'[i].right)
      BY <1>2, <2>1, <3>1
    <3>3. \A i \in DOMAIN slices' :
             slices'[i].weight = SliceArea(slices[i].left, slices[i].right)'
      <4>1. TAKE i \in DOMAIN slices'
      <4>2. SliceArea(slices[i].left, slices[i].right)'
               = SliceArea(slices'[i].left, slices'[i].right)
        BY <1>2 DEF SliceArea, Trapezoids, GroundLevel
      <4>3. QED
        BY <3>2, <4>2
    <3>4. QED
      BY <3>3 DEF WeightIsSelfWeight
  <2>7. QED
    BY <1>2, <2>2, <2>3, <2>4, <2>5, <2>6 DEF ColumnsInv
<1>3. /\ \E S : columns \in Seq(S)
      /\ cutting \in {"waiting", "edges"} => columns = <<>> /\ slices = <<>>
      /\ cutting = "columns" => slices = <<>>
      /\ cutting \in {"columns", "slices", "done"} =>
            \A i \in 1..Len(columns) :
               ~OnUpright(xNodes[i]) => Filled(columns[i], Heights[i])
      /\ cutting \in {"slices", "done"} => Len(columns) = Len(xNodes)
      /\ \A i \in 1..Len(slices) :
            slices[i].left = xEdges[i] /\ slices[i].right = xEdges[i + 1]
      /\ UprightsMissed =>
            \A i \in DOMAIN slices :
               slices[i].weight = SliceArea(slices[i].left, slices[i].right)
  BY DEF ColumnsInv, LoadInv, WeightIsSelfWeight
<1>4. CASE BuildDomain
  <2>1. UNCHANGED <<soils, job, xEdges, xNodes, columns, slices, cutting>>
    BY <1>4 DEF BuildDomain, BuildStep, SplitSegments, StartFace, FollowEdge, CloseFace,
                FacesWalked, ApplySeed, SeedsApplied, sliceVars
  <2>2. QED
    BY <1>2, <1>3, <2>1
<1>5. CASE TakeJob
  BY <1>1, <1>3, <1>5 DEF TakeJob, domainVars
<1>6. CASE ResolveEdges
  <2>1. /\ soils' = soils /\ columns' = <<>> /\ slices' = <<>>
        /\ cutting' \in {"refused", "columns"}
    BY <1>3, <1>6 DEF ResolveEdges, domainVars
  <2>2. soils \in SoilInputs
    BY DEF ColumnsInv
  <2>3. cutting' = "columns" => \E N : NodesOver(N)'
    BY <1>6, <2>2, NodesResolved
  <2>4. QED
    BY <1>1, <2>1, <2>3
<1>7. CASE MeasureColumn
  <2>1. /\ UNCHANGED <<soils, job, xEdges, xNodes, slices>>
        /\ cutting = "columns" /\ cutting' \in {"columns", "refused"}
        /\ cutting' = "refused" => UNCHANGED columns
    BY <1>7 DEF MeasureColumn, domainVars
  <2>2. CASE UNCHANGED columns
    BY <1>2, <1>3, <2>1, <2>2
  <2>3. CASE ~UNCHANGED columns
    <3>1. job \in Jobs
      BY <2>1 DEF EdgesInv
    <3>2. /\ \E S : columns' \in Seq(S)
          /\ \A i \in 1..Len(columns') :
                ~OnUpright(xNodes[i]) => Filled(columns'[i], Heights[i])
      BY <1>7, <2>3, <3>1, ColumnMeasured
    <3>3. QED
      BY <1>2, <1>3, <2>1, <2>3, <3>2
  <2>4. QED
    BY <2>2, <2>3
<1>8. CASE ColumnsMeasured
  <2>1. /\ UNCHANGED <<soils, job, xEdges, xNodes, columns, slices>>
        /\ cutting = "columns" /\ cutting' \in {"slices", "refused"}
        /\ Len(columns) = Len(xNodes)
    BY <1>8 DEF ColumnsMeasured, domainVars
  <2>2. QED
    BY <1>2, <1>3, <2>1
<1>9. CASE CutSlice
  <2>1. /\ UNCHANGED <<soils, job, xEdges, xNodes, columns>>
        /\ cutting = "slices" /\ cutting' \in {"slices", "refused"}
    BY <1>9 DEF CutSlice, domainVars
  <2>2. CASE UNCHANGED slices
    BY <1>2, <1>3, <2>1, <2>2
  <2>3. CASE ~UNCHANGED slices
    <3>1. job \in Jobs
      BY <2>1 DEF EdgesInv
    <3>2. /\ \A i \in 1..Len(slices') :
                slices'[i].left = xEdges[i] /\ slices'[i].right = xEdges[i + 1]
          /\ UprightsMissed =>
                \A i \in DOMAIN slices' :
                   slices'[i].weight = SliceArea(slices'[i].left, slices'[i].right)
      BY <1>9, <2>3, <3>1, SliceWeighed
    <3>3. QED
      BY <1>2, <1>3, <2>1, <3>2
  <2>4. QED
    BY <2>2, <2>3
<1>10. CASE FinishSlices
  <2>1. /\ UNCHANGED <<soils, job, xEdges, xNodes, columns, slices>>
        /\ cutting = "slices" /\ cutting' = "done"
    BY <1>10 DEF FinishSlices, domainVars
  <2>2. QED
    BY <1>2, <1>3, <2>1
<1>11. CASE UNCHANGED slicingVars
  <2>1. UNCHANGED <<soils, job, xEdges, xNodes, columns, slices, cutting>>
    BY <1>11 DEF slicingVars, sliceVars, domainVars
  <2>2. QED
    BY <1>2, <1>3, <2>1
<1>12. QED
  BY <1>4, <1>5, <1>6, <1>7, <1>8, <1>9, <1>10, <1>11 DEF SliceNext

\* So ColumnsInv is in every state, with what it rests on.
LEMMA ColumnsInvAlways == SliceSpec => [](EdgesInv /\ LoadInv /\ ColumnsInv)
<1>1. SliceInit => EdgesInv /\ LoadInv /\ ColumnsInv
  BY EdgesInvInit, LoadInvInit, ColumnsInvInit
<1>2. EdgesInv /\ LoadInv /\ ColumnsInv /\ [SliceNext]_slicingVars
         => (EdgesInv /\ LoadInv /\ ColumnsInv)'
  BY EdgesInvNext, LoadInvNext, ColumnsInvNext
<1>3. QED
  BY <1>1, <1>2, PTL DEF SliceSpec

\* The slices weigh together what the slide does.
LEMMA WeightTogether ==
  ASSUME EdgesInv, LoadInv, ColumnsInv, cutting = "done", UprightsMissed
  PROVE  SumOf([i \in 1..job.n |-> slices[i].weight], 1..job.n)
            = SliceArea(job.left, job.right)
<1> DEFINE n == job.n
           weight == [i \in 1..n |-> slices[i].weight]
<1>1. /\ job \in Jobs /\ n \in Nat /\ job.left \in Int /\ job.right \in Int
      /\ job.left <= job.right
      /\ xEdges[1] = job.left /\ xEdges[n + 1] = job.right
      /\ \A i \in 1..(n + 1) : xEdges[i] \in Int
      /\ \A i \in 1..n : xEdges[i] <= xEdges[i + 1]
  BY EdgesGoAcross
<1>2. /\ Len(slices) = n /\ \E S : slices \in Seq(S)
      /\ \A i \in 1..n : slices[i].left = xEdges[i] /\ slices[i].right = xEdges[i + 1]
      /\ WeightIsSelfWeight
      /\ \E N : NodesOver(N)
  BY DEF LoadInv, ColumnsInv
<1>3. PICK N : NodesOver(N)
  BY <1>2
<1>4. \A i \in 1..(n + 1) : xEdges[i] \in N
  BY <1>3 DEF NodesOver
<1>5. PICK G \in [Int -> Int] : \A l, r \in N : l <= r => SliceArea(l, r) = G[r] - G[l]
  BY <1>1, <1>3, AreaGrows
<1> HIDE DEF n
<1>6. /\ \A i \in 1..n : i \in 1..(n + 1) /\ i + 1 \in 1..(n + 1)
      /\ 1 \in 1..(n + 1) /\ n + 1 \in 1..(n + 1)
  BY <1>1
<1>7. \A i \in 1..n : weight[i] = G[xEdges[i + 1]] - G[xEdges[i]]
  <2>1. TAKE i \in 1..n
  <2>2. DOMAIN slices = 1..n
    BY <1>2
  <2>3. slices[i].weight = SliceArea(xEdges[i], xEdges[i + 1])
    BY <1>2, <2>2 DEF WeightIsSelfWeight
  <2>4. xEdges[i] \in N /\ xEdges[i + 1] \in N /\ xEdges[i] <= xEdges[i + 1]
    BY <1>1, <1>4, <1>6
  <2>5. QED
    BY <1>5, <2>3, <2>4
<1> HIDE DEF weight
<1>8. SumOf(weight, 1..n) = G[xEdges[n + 1]] - G[xEdges[1]]
  BY <1>1, <1>7, LoadsTelescope
<1>9. job.left \in N /\ job.right \in N
  BY <1>1, <1>4, <1>6
<1>10. QED
  BY <1>1, <1>5, <1>8, <1>9 DEF weight, n

\* What the slices carry adds up to what is on the slide.
LEMMA LoadsTogether == EdgesInv /\ LoadInv /\ ColumnsInv => WholeLoadCarried
<1> SUFFICES ASSUME EdgesInv, LoadInv, ColumnsInv, cutting = "done" PROVE WholeLoadCarried
  BY DEF WholeLoadCarried
<1> DEFINE n == job.n
           surcharge == [i \in 1..n |-> slices[i].surcharge]
           down == [i \in 1..n |-> slices[i].pond.down]
<1>1. /\ job \in Jobs /\ n \in Nat /\ job.left \in Int /\ job.right \in Int
      /\ job.left <= job.right
      /\ xEdges[1] = job.left /\ xEdges[n + 1] = job.right
      /\ \A i \in 1..(n + 1) : xEdges[i] \in Int
      /\ \A i \in 1..n : xEdges[i] <= xEdges[i + 1]
  BY EdgesGoAcross
<1>2. /\ Len(slices) = n
      /\ \A i \in 1..n : /\ slices[i].surcharge = SurchargeOn(xEdges[i], xEdges[i + 1])
                         /\ slices[i].pond = Pond(xEdges[i], xEdges[i + 1])
  BY DEF LoadInv
<1> HIDE DEF n
<1>3. \A i \in 1..n : i \in 1..(n + 1) /\ i + 1 \in 1..(n + 1)
  BY <1>1
<1>4. SumOf(surcharge, 1..n) = SurchargeOn(job.left, job.right)
  <2>1. PICK G \in [Int -> Int] : \A l, r \in Int : l <= r => SurchargeOn(l, r) = G[r] - G[l]
    BY <1>1, SurchargeGrows
  <2>2. \A i \in 1..n : surcharge[i] = G[xEdges[i + 1]] - G[xEdges[i]]
    <3>1. TAKE i \in 1..n
    <3>2. xEdges[i] \in Int /\ xEdges[i + 1] \in Int /\ xEdges[i] <= xEdges[i + 1]
      BY <1>1, <1>3
    <3>3. QED
      BY <1>2, <2>1, <3>2
  <2> HIDE DEF surcharge
  <2>3. SumOf(surcharge, 1..n) = G[xEdges[n + 1]] - G[xEdges[1]]
    BY <1>1, <2>2, LoadsTelescope
  <2>4. QED
    BY <1>1, <2>1, <2>3
<1>5. SumOf(down, 1..n) = Pond(job.left, job.right).down
  <2>1. PICK G \in [Int -> Int] : \A l, r \in Int : l <= r => Pond(l, r).down = G[r] - G[l]
    BY <1>1, PondGrows
  <2>2. \A i \in 1..n : down[i] = G[xEdges[i + 1]] - G[xEdges[i]]
    <3>1. TAKE i \in 1..n
    <3>2. xEdges[i] \in Int /\ xEdges[i + 1] \in Int /\ xEdges[i] <= xEdges[i + 1]
      BY <1>1, <1>3
    <3>3. QED
      BY <1>2, <2>1, <3>2
  <2> HIDE DEF down
  <2>3. SumOf(down, 1..n) = G[xEdges[n + 1]] - G[xEdges[1]]
    BY <1>1, <2>2, LoadsTelescope
  <2>4. QED
    BY <1>1, <2>1, <2>3
<1>6. UprightsMissed =>
         SumOf([i \in 1..n |-> slices[i].weight], 1..n) = SliceArea(job.left, job.right)
  BY WeightTogether DEF n
<1>7. QED
  BY <1>4, <1>5, <1>6 DEF WholeLoadCarried, n

\* generate_vertical_slices, wherever the surcharge or the pond begins and ends: the slices
\* carry together the whole surcharge and the whole weight of the pond over the slide, and
\* its own whole weight unless a column runs along an upright boundary.
THEOREM LoadsAreCarried == SliceSpec => []WholeLoadCarried
BY ColumnsInvAlways, LoadsTogether, PTL

\* vertical_material_lengths and generate_vertical_slices: unless a column runs along an
\* upright boundary, every slice weighs what the ground over its base does, whatever
\* boundaries the ground has and whichever materials are found on them.
THEOREM HeavierOnlyAtUprights == SliceSpec => [](UprightsMissed => WeightIsSelfWeight)
<1>1. EdgesInv /\ LoadInv /\ ColumnsInv => (UprightsMissed => WeightIsSelfWeight)
  BY DEF ColumnsInv
<1>2. QED
  BY <1>1, ColumnsInvAlways, PTL

-----------------------------------------------------------------------------
(* The columns: what a vertical has of each material.                       *)

\* RayHits in numbers.
HitsAt(a1, a2, b1, b2, x, y) ==
  /\ (a2 > y) # (b2 > y)
  /\ IF b2 - a2 > 0 THEN (a1 - x) * (b2 - a2) - (a2 - y) * (b1 - a1) > 0
                    ELSE (a1 - x) * (b2 - a2) - (a2 - y) * (b1 - a1) < 0

\* The ray from a point beside a side hits it as its end to the right lies above or not.
LEMMA HitBeside ==
  ASSUME NEW a1 \in Int, NEW a2 \in Int, NEW b1 \in Int, NEW b2 \in Int,
         NEW x \in Int, NEW y \in Int, NEW l \in Int,
         (l - a2) * (b1 - a1) = (x - a1) * (b2 - a2), y # l
  PROVE  /\ a1 < b1 /\ a1 <= x /\ x <= b1 =>
              (HitsAt(a1, a2, b1, b2, x, y) <=> IF l < y THEN b2 > y ELSE b2 <= y)
         /\ b1 < a1 /\ b1 <= x /\ x <= a1 =>
              (HitsAt(a1, a2, b1, b2, x, y) <=> IF l < y THEN a2 > y ELSE a2 <= y)
<1> DEFINE d == b1 - a1
           e == b2 - a2
           c == (a1 - x) * e - (a2 - y) * d
<1>1. c = (y - l) * d
  <2>1. (a1 - x) * e = -((x - a1) * e) /\ (a2 - y) * d = (a2 - l) * d + (l - y) * d
    OBVIOUS
  <2>2. (a2 - l) * d = -((l - a2) * d) /\ (y - l) * d = -((l - y) * d)
    OBVIOUS
  <2>3. QED
    BY <2>1, <2>2
<1>2. HitsAt(a1, a2, b1, b2, x, y) <=>
        /\ (a2 > y) # (b2 > y)
        /\ IF e > 0 THEN c > 0 ELSE c < 0
  BY DEF HitsAt
<1>3. d \in Int /\ e \in Int /\ c \in Int /\ y - l \in Int
  OBVIOUS
<1>4. ASSUME a1 < b1, a1 <= x, x <= b1
      PROVE  HitsAt(a1, a2, b1, b2, x, y) <=> IF l < y THEN b2 > y ELSE b2 <= y
  <2>1. (c > 0 <=> y > l) /\ (c < 0 <=> y < l)
    <3>1. d > 0
      BY <1>4
    <3> DEFINE k == y - l
    <3>2. k \in Int /\ k # 0
      OBVIOUS
    <3> HIDE DEF c, d, k
    <3>3. c = k * d
      BY <1>1 DEF k
    <3>4. (c > 0 <=> k > 0) /\ (c < 0 <=> k < 0)
      BY <1>3, <3>1, <3>2, <3>3, Signs
    <3>5. QED
      BY <3>4 DEF k
  <2>2. (0 <= l - a2 /\ l - a2 <= e) \/ (e <= l - a2 /\ l - a2 <= 0)
    <3> DEFINE t == x - a1
               q == l - a2
    <3>1. t \in Int /\ q \in Int /\ d > 0 /\ 0 <= t /\ t <= d
      BY <1>4
    <3>2. d * q = t * e
      OBVIOUS
    <3> HIDE DEF t, d, e, q
    <3>3. (0 <= q /\ q <= e) \/ (e <= q /\ q <= 0)
      BY <1>3, <3>1, <3>2, Fraction
    <3>4. QED
      BY <3>3 DEF q
  <2> HIDE DEF c
  <2>3. QED
    BY <1>2, <2>1, <2>2
<1>5. ASSUME b1 < a1, b1 <= x, x <= a1
      PROVE  HitsAt(a1, a2, b1, b2, x, y) <=> IF l < y THEN a2 > y ELSE a2 <= y
  <2>1. (c > 0 <=> y < l) /\ (c < 0 <=> y > l)
    <3>1. d < 0
      BY <1>5
    <3> DEFINE k == y - l
    <3>2. k \in Int /\ k # 0
      OBVIOUS
    <3> HIDE DEF c, d, k
    <3>3. c = k * d
      BY <1>1 DEF k
    <3>4. (c > 0 <=> k < 0) /\ (c < 0 <=> k > 0)
      BY <1>3, <3>1, <3>2, <3>3, Signs
    <3>5. QED
      BY <3>4 DEF k
  <2>2. (0 <= l - a2 /\ l - a2 <= e) \/ (e <= l - a2 /\ l - a2 <= 0)
    <3> DEFINE t == a1 - x
               q == l - a2
               w == -d
    <3>1. t \in Int /\ q \in Int /\ w \in Int /\ w > 0 /\ 0 <= t /\ t <= w
      BY <1>5
    <3>2. w * q = t * e
      <4>1. w * q = -(d * q) /\ t * e = -((x - a1) * e) /\ d * q = (l - a2) * (b1 - a1)
        OBVIOUS
      <4>2. QED
        BY <4>1
    <3> HIDE DEF t, w, e, q
    <3>3. (0 <= q /\ q <= e) \/ (e <= q /\ q <= 0)
      BY <1>3, <3>1, <3>2, Fraction
    <3>4. QED
      BY <3>3 DEF q
  <2> HIDE DEF c
  <2>3. QED
    BY <1>2, <2>1, <2>2
<1>6. QED
  BY <1>4, <1>5

\* The ray from a point hits a side that lies to its right as it runs across the level,
\* and none that lies to its left.
LEMMA HitApart ==
  ASSUME NEW a1 \in Int, NEW a2 \in Int, NEW b1 \in Int, NEW b2 \in Int,
         NEW x \in Int, NEW y \in Int
  PROVE  /\ x < a1 /\ x < b1 => (HitsAt(a1, a2, b1, b2, x, y) <=> ~(a2 > y <=> b2 > y))
         /\ a1 < x /\ b1 < x => ~HitsAt(a1, a2, b1, b2, x, y)
<1> DEFINE c == (a1 - x) * (b2 - a2) - (a2 - y) * (b1 - a1)
           p == a1 - x
           q == b1 - x
           u == b2 - y
           v == a2 - y
<1>1. c = p * u - q * v
  <2>1. p * u - q * v = p * (u - v) - v * (q - p)
    OBVIOUS
  <2>2. u - v = b2 - a2 /\ q - p = b1 - a1
    OBVIOUS
  <2>3. QED
    BY <2>1, <2>2
<1>2. HitsAt(a1, a2, b1, b2, x, y) <=>
        /\ (a2 > y) # (b2 > y)
        /\ IF b2 - a2 > 0 THEN c > 0 ELSE c < 0
  BY DEF HitsAt
<1>3. p \in Int /\ q \in Int /\ u \in Int /\ v \in Int /\ c \in Int
      /\ p * u \in Int /\ q * v \in Int
  OBVIOUS
<1>4. (a2 > y <=> v > 0) /\ (b2 > y <=> u > 0) /\ (b2 - a2 > 0 <=> u > v)
  OBVIOUS
<1>5. (x < a1 <=> p > 0) /\ (x < b1 <=> q > 0) /\ (a1 < x <=> p < 0) /\ (b1 < x <=> q < 0)
  OBVIOUS
<1> HIDE DEF c, p, q, u, v
<1>6. ASSUME p > 0, q > 0
      PROVE  /\ u > 0 /\ v <= 0 => c > 0
             /\ u <= 0 /\ v > 0 => c < 0
  <2>1. (u > 0 => p * u > 0) /\ (u <= 0 => p * u <= 0)
    BY <1>3, <1>6, Signs
  <2>2. (v > 0 => q * v > 0) /\ (v <= 0 => q * v <= 0)
    BY <1>3, <1>6, Signs
  <2>3. QED
    BY <1>1, <1>3, <2>1, <2>2
<1>7. ASSUME p < 0, q < 0
      PROVE  /\ u > 0 /\ v <= 0 => c < 0
             /\ u <= 0 /\ v > 0 => c > 0
  <2>1. (u > 0 => p * u < 0) /\ (u <= 0 => p * u >= 0)
    BY <1>3, <1>7, Signs
  <2>2. (v > 0 => q * v < 0) /\ (v <= 0 => q * v >= 0)
    BY <1>3, <1>7, Signs
  <2>3. QED
    BY <1>1, <1>3, <2>1, <2>2
<1>8. x < a1 /\ x < b1 => (HitsAt(a1, a2, b1, b2, x, y) <=> ~(a2 > y <=> b2 > y))
  BY <1>2, <1>3, <1>4, <1>5, <1>6
<1>9. a1 < x /\ b1 < x => ~HitsAt(a1, a2, b1, b2, x, y)
  BY <1>2, <1>3, <1>4, <1>5, <1>7
<1>10. QED
  BY <1>8, <1>9

\* The side s does not touch the vertical at x from the level low to the level high.
Misses(s, x, low, high) ==
  IF s[1][1] = s[2][1]
  THEN \/ x # s[1][1]
       \/ s[1][2] < low /\ s[2][2] < low
       \/ s[1][2] > high /\ s[2][2] > high
  ELSE \/ x < s[1][1] /\ x < s[2][1]
       \/ s[1][1] < x /\ s[2][1] < x
       \/ \E l \in Int : /\ (l - s[1][2]) * (s[2][1] - s[1][1]) = (x - s[1][1]) * (s[2][2] - s[1][2])
                         /\ l < low \/ l > high

\* p lies to the right of the vertical, above low and not above high.
Beside(p, x, low, high) == p[1] > x /\ low < p[2] /\ p[2] <= high

\* The ray from the top of an interval of the vertical hits a side that does not touch it
\* otherwise than the ray from the bottom does just when one end of it lies between them.
LEMMA HitsChange ==
  ASSUME NEW s \in Sides, NEW x \in Int, NEW low \in Int, NEW high \in Int, low <= high,
         Misses(s, x, low, high)
  PROVE  (RayHits(<<x, low>>, s) <=> RayHits(<<x, high>>, s))
           <=> (Beside(s[1], x, low, high) <=> Beside(s[2], x, low, high))
<1>1. PICK a1 \in Int, a2 \in Int, b1 \in Int, b2 \in Int : s = <<<<a1, a2>>, <<b1, b2>>>>
  BY DEF Sides, Vectors
<1>2. s[1] = <<a1, a2>> /\ s[2] = <<b1, b2>>
  BY <1>1
<1>3. ASSUME NEW y \in Int
      PROVE  RayHits(<<x, y>>, s) <=> HitsAt(a1, a2, b1, b2, x, y)
  <2>1. Minus(s[2], s[1]) = <<b1 - a1, b2 - a2>> /\ Minus(s[1], <<x, y>>) = <<a1 - x, a2 - y>>
    BY <1>2 DEF Minus
  <2>2. Cross(<<a1 - x, a2 - y>>, <<b1 - a1, b2 - a2>>)
          = (a1 - x) * (b2 - a2) - (a2 - y) * (b1 - a1)
    BY DEF Cross
  <2>3. <<b1 - a1, b2 - a2>>[2] = b2 - a2 /\ <<x, y>>[2] = y /\ s[1][2] = a2 /\ s[2][2] = b2
    BY <1>2
  <2>4. QED
    BY <2>1, <2>2, <2>3 DEF RayHits, HitsAt
<1>4. /\ RayHits(<<x, low>>, s) <=> HitsAt(a1, a2, b1, b2, x, low)
      /\ RayHits(<<x, high>>, s) <=> HitsAt(a1, a2, b1, b2, x, high)
  BY <1>3
<1>5. /\ Beside(s[1], x, low, high) <=> a1 > x /\ low < a2 /\ a2 <= high
      /\ Beside(s[2], x, low, high) <=> b1 > x /\ low < b2 /\ b2 <= high
  BY <1>2 DEF Beside
<1>6. CASE x < a1 /\ x < b1
  <2>1. /\ HitsAt(a1, a2, b1, b2, x, low) <=> ~(a2 > low <=> b2 > low)
        /\ HitsAt(a1, a2, b1, b2, x, high) <=> ~(a2 > high <=> b2 > high)
    BY <1>6, HitApart
  <2>2. QED
    BY <1>4, <1>5, <1>6, <2>1
<1>7. CASE a1 < x /\ b1 < x
  <2>1. ~HitsAt(a1, a2, b1, b2, x, low) /\ ~HitsAt(a1, a2, b1, b2, x, high)
    BY <1>7, HitApart
  <2>2. QED
    BY <1>4, <1>5, <1>7, <2>1
<1>8. CASE a1 = b1 /\ a1 = x
  <2>1. (a2 < low /\ b2 < low) \/ (a2 > high /\ b2 > high)
    BY <1>2, <1>8 DEF Misses
  <2>2. ~HitsAt(a1, a2, b1, b2, x, low) /\ ~HitsAt(a1, a2, b1, b2, x, high)
    BY <2>1 DEF HitsAt
  <2>3. QED
    BY <1>4, <1>5, <1>8, <2>2
<1>9. CASE a1 # b1 /\ ~(x < a1 /\ x < b1) /\ ~(a1 < x /\ b1 < x)
  <2>1. PICK l \in Int : /\ (l - a2) * (b1 - a1) = (x - a1) * (b2 - a2)
                         /\ l < low \/ l > high
    BY <1>2, <1>9 DEF Misses
  <2>2. low # l /\ high # l /\ (l < low <=> l < high)
    BY <2>1
  <2>3. (a1 < b1 /\ a1 <= x /\ x <= b1) \/ (b1 < a1 /\ b1 <= x /\ x <= a1)
    BY <1>9
  <2>4. (x = a1 => l = a2) /\ (x = b1 => l = b2)
    <3>1. ASSUME x = a1 PROVE l = a2
      <4>1. (l - a2) * (b1 - a1) = 0 /\ l - a2 \in Int /\ b1 - a1 \in Int
        BY <2>1, <3>1
      <4>2. l - a2 = 0 \/ b1 - a1 = 0
        BY <4>1, Signs
      <4>3. QED
        BY <1>9, <4>2
    <3>2. ASSUME x = b1 PROVE l = b2
      <4>1. (l - b2) * (b1 - a1) = (l - a2) * (b1 - a1) - (b1 - a1) * (b2 - a2)
        OBVIOUS
      <4>2. (l - b2) * (b1 - a1) = 0 /\ l - b2 \in Int /\ b1 - a1 \in Int
        BY <2>1, <3>2, <4>1
      <4>3. l - b2 = 0 \/ b1 - a1 = 0
        BY <4>2, Signs
      <4>4. QED
        BY <1>9, <4>3
    <3>3. QED
      BY <3>1, <3>2
  <2>5. CASE a1 < b1 /\ a1 <= x /\ x <= b1
    <3>1. /\ HitsAt(a1, a2, b1, b2, x, low) <=> IF l < low THEN b2 > low ELSE b2 <= low
          /\ HitsAt(a1, a2, b1, b2, x, high) <=> IF l < high THEN b2 > high ELSE b2 <= high
      BY <2>1, <2>2, <2>5, HitBeside
    <3>2. QED
      BY <1>4, <1>5, <2>1, <2>2, <2>4, <2>5, <3>1
  <2>6. CASE b1 < a1 /\ b1 <= x /\ x <= a1
    <3>1. /\ HitsAt(a1, a2, b1, b2, x, low) <=> IF l < low THEN a2 > low ELSE a2 <= low
          /\ HitsAt(a1, a2, b1, b2, x, high) <=> IF l < high THEN a2 > high ELSE a2 <= high
      BY <2>1, <2>2, <2>6, HitBeside
    <3>2. QED
      BY <1>4, <1>5, <2>1, <2>2, <2>4, <2>6, <3>1
  <2>7. QED
    BY <2>3, <2>5, <2>6
<1>10. QED
  BY <1>6, <1>7, <1>8, <1>9

\* A piece of a side touches the vertical only where the side does.
LEMMA PieceMisses ==
  ASSUME NEW s \in Sides, NEW p, On(p, s), NEW q, On(q, s), p # q,
         NEW x \in Int, NEW low \in Int, NEW high \in Int, Misses(s, x, low, high)
  PROVE  Misses(<<p, q>>, x, low, high)
<1>1. PICK a1 \in Int, a2 \in Int, b1 \in Int, b2 \in Int : s = <<<<a1, a2>>, <<b1, b2>>>>
  BY DEF Sides, Vectors
<1>2. PICK p1 \in Int, p2 \in Int, q1 \in Int, q2 \in Int : p = <<p1, p2>> /\ q = <<q1, q2>>
  BY DEF On, Vectors
<1> DEFINE d == b1 - a1
           e == b2 - a2
<1>3. d \in Int /\ e \in Int /\ (d # 0 \/ e # 0) /\ (p1 # q1 \/ p2 # q2)
  BY <1>1, <1>2 DEF Sides
<1>4. s[1] = <<a1, a2>> /\ s[2] = <<b1, b2>>
  BY <1>1
<1>5. /\ Minus(s[2], s[1]) = <<d, e>>
      /\ Minus(p, s[1]) = <<p1 - a1, p2 - a2>> /\ Minus(q, s[1]) = <<q1 - a1, q2 - a2>>
  BY <1>2, <1>4 DEF Minus
<1>6. d * (p2 - a2) = e * (p1 - a1) /\ d * (q2 - a2) = e * (q1 - a1)
  <2>1. Cross(<<d, e>>, <<p1 - a1, p2 - a2>>) = 0 /\ Cross(<<d, e>>, <<q1 - a1, q2 - a2>>) = 0
    BY <1>5 DEF On
  <2>2. /\ Cross(<<d, e>>, <<p1 - a1, p2 - a2>>) = d * (p2 - a2) - e * (p1 - a1)
        /\ Cross(<<d, e>>, <<q1 - a1, q2 - a2>>) = d * (q2 - a2) - e * (q1 - a1)
    BY DEF Cross
  <2> HIDE DEF d, e
  <2>3. QED
    BY <2>1, <2>2, <1>3
<1>7. /\ (a1 <= p1 /\ p1 <= b1) \/ (b1 <= p1 /\ p1 <= a1)
      /\ (a2 <= p2 /\ p2 <= b2) \/ (b2 <= p2 /\ p2 <= a2)
      /\ (a1 <= q1 /\ q1 <= b1) \/ (b1 <= q1 /\ q1 <= a1)
      /\ (a2 <= q2 /\ q2 <= b2) \/ (b2 <= q2 /\ q2 <= a2)
  BY <1>2, <1>4 DEF On
<1>8. d * (q2 - p2) = e * (q1 - p1)
  <2>1. /\ d * (q2 - p2) = d * (q2 - a2) - d * (p2 - a2)
        /\ e * (q1 - p1) = e * (q1 - a1) - e * (p1 - a1)
    OBVIOUS
  <2>2. QED
    BY <1>6, <2>1
<1>9. (d = 0 <=> a1 = b1)
  OBVIOUS
<1>10. <<p, q>>[1] = <<p1, p2>> /\ <<p, q>>[2] = <<q1, q2>>
  BY <1>2
<1>11. Misses(s, x, low, high) <=>
        IF a1 = b1
        THEN \/ x # a1
             \/ a2 < low /\ b2 < low
             \/ a2 > high /\ b2 > high
        ELSE \/ x < a1 /\ x < b1
             \/ a1 < x /\ b1 < x
             \/ \E l \in Int : /\ (l - a2) * d = (x - a1) * e
                               /\ l < low \/ l > high
  BY <1>4 DEF Misses
<1>12. Misses(<<p, q>>, x, low, high) <=>
        IF p1 = q1
        THEN \/ x # p1
             \/ p2 < low /\ q2 < low
             \/ p2 > high /\ q2 > high
        ELSE \/ x < p1 /\ x < q1
             \/ p1 < x /\ q1 < x
             \/ \E l \in Int : /\ (l - p2) * (q1 - p1) = (x - p1) * (q2 - p2)
                               /\ l < low \/ l > high
  <2> DEFINE r == <<p, q>>
  <2>1. r[1][1] = p1 /\ r[1][2] = p2 /\ r[2][1] = q1 /\ r[2][2] = q2
    BY <1>2
  <2> HIDE DEF r
  <2>2. QED
    BY <2>1 DEF Misses, r
<1> HIDE DEF d, e
<1>13. CASE a1 = b1
  <2>1. d = 0 /\ e # 0
    BY <1>3, <1>9, <1>13
  <2>2. e * (q1 - p1) = 0
    BY <1>8, <2>1
  <2>3. q1 = p1
    <3>1. q1 - p1 \in Int
      OBVIOUS
    <3>2. q1 - p1 = 0
      BY <1>3, <2>1, <2>2, <3>1, Signs
    <3>3. QED
      BY <3>2
  <2>4. p1 = a1
    BY <1>7, <1>13
  <2>5. QED
    BY <1>7, <1>11, <1>12, <1>13, <2>3, <2>4
<1>14. CASE a1 # b1
  <2>1. d # 0
    BY <1>3, <1>9, <1>14
  <2>2. p1 # q1
    <3>1. SUFFICES ASSUME p1 = q1 PROVE FALSE
      OBVIOUS
    <3>2. q1 - p1 = 0 /\ e * 0 = 0
      BY <1>3, <3>1
    <3>3. d * (q2 - p2) = 0 /\ q2 - p2 \in Int
      BY <1>8, <3>2
    <3>4. q2 - p2 = 0
      BY <1>3, <2>1, <3>3, Signs
    <3>5. QED
      BY <1>3, <3>1, <3>4
  <2>3. CASE x < a1 /\ x < b1
    BY <1>7, <1>12, <2>2, <2>3
  <2>4. CASE a1 < x /\ b1 < x
    BY <1>7, <1>12, <2>2, <2>4
  <2>5. CASE \E l \in Int : (l - a2) * d = (x - a1) * e /\ (l < low \/ l > high)
    <3>1. PICK l \in Int : (l - a2) * d = (x - a1) * e /\ (l < low \/ l > high)
      BY <2>5
    <3>2. d * (l - p2) = e * (x - p1)
      <4>1. /\ d * (l - p2) = (l - a2) * d - d * (p2 - a2)
            /\ e * (x - p1) = (x - a1) * e - e * (p1 - a1)
        BY <1>3
      <4>2. QED
        BY <1>6, <3>1, <4>1
    <3> DEFINE g == l - p2
               h == q1 - p1
               k == x - p1
               m == q2 - p2
    <3>3. g \in Int /\ h \in Int /\ k \in Int /\ m \in Int /\ d * g = e * k /\ d * m = e * h
      BY <1>8, <3>2
    <3>4. g * h = k * m
      <4> HIDE DEF g, h, k, m
      <4>1. d * (g * h) = (d * g) * h /\ d * (k * m) = k * (d * m)
        BY <1>3, <3>3
      <4>2. (d * g) * h = (e * k) * h /\ k * (d * m) = k * (e * h) /\ (e * k) * h = k * (e * h)
        BY <1>3, <3>3
      <4> DEFINE u == g * h
                 v == k * m
      <4>8. u \in Int /\ v \in Int /\ d * u = d * v
        BY <1>3, <3>3, <4>1, <4>2
      <4>3. d * (u - v) = d * u - d * v /\ u - v \in Int
        <5> HIDE DEF u, v
        <5>1. QED
          BY <1>3, <4>8
      <4>4. d * (u - v) = 0
        <5> HIDE DEF u, v
        <5>1. d * v \in Int
          BY <1>3, <4>8
        <5>2. QED
          BY <4>3, <4>8, <5>1
      <4> DEFINE z == g * h - k * m
      <4>5. z \in Int /\ d * z = 0
        BY <4>3, <4>4
      <4> HIDE DEF z
      <4>6. z = 0
        BY <1>3, <2>1, <4>5, Signs
      <4>7. QED
        BY <3>3, <4>6 DEF z
    <3>5. (l - p2) * (q1 - p1) = (x - p1) * (q2 - p2)
      BY <3>4
    <3>6. QED
      BY <1>12, <2>2, <3>1, <3>5
  <2>6. QED
    BY <1>11, <1>14, <2>3, <2>4, <2>5
<1>15. QED
  BY <1>13, <1>14

\* No point of the interval of the vertical is on a side that does not touch it.
LEMMA MissedNotOn ==
  ASSUME NEW s \in Sides, NEW x \in Int, NEW low \in Int, NEW high \in Int,
         Misses(s, x, low, high), NEW y \in Int, low <= y, y <= high
  PROVE  ~OnSegment(<<x, y>>, s)
<1>1. PICK a1 \in Int, a2 \in Int, b1 \in Int, b2 \in Int : s = <<<<a1, a2>>, <<b1, b2>>>>
  BY DEF Sides, Vectors
<1>2. s[1] = <<a1, a2>> /\ s[2] = <<b1, b2>> /\ (a1 # b1 \/ a2 # b2)
  BY <1>1 DEF Sides
<1> DEFINE d == b1 - a1
           e == b2 - a2
           v == x - a1
           w == y - a2
           t == v * d + w * e
           n == d * d + e * e
<1>3. d \in Int /\ e \in Int /\ v \in Int /\ w \in Int /\ (d # 0 \/ e # 0)
  BY <1>2
<1>4. OnSegment(<<x, y>>, s) => d * w - e * v = 0 /\ 0 <= t /\ t <= n
  <2>1. Minus(s[2], s[1]) = <<d, e>> /\ Minus(<<x, y>>, s[1]) = <<v, w>>
    BY <1>2 DEF Minus
  <2>2. /\ Cross(<<d, e>>, <<v, w>>) = d * w - e * v
        /\ Dot(<<v, w>>, <<d, e>>) = t /\ Dot(<<d, e>>, <<d, e>>) = n
    BY DEF Cross, Dot
  <2> HIDE DEF d, e, v, w, t, n
  <2>3. QED
    BY <2>1, <2>2 DEF OnSegment
<1> SUFFICES ASSUME d * w = e * v, 0 <= t, t <= n PROVE FALSE
  <2> HIDE DEF t, n
  <2>1. QED
    BY <1>3, <1>4
<1>5. t * d = v * n /\ t * e = w * n
  <2> HIDE DEF d, e, v, w
  <2>1. t * d = v * (d * d) + (w * d) * e /\ t * e = (v * e) * d + w * (e * e)
    BY <1>3
  <2>2. w * d = e * v /\ v * e = d * w
    BY <1>3
  <2>3. t * d = v * (d * d) + (e * v) * e /\ t * e = (d * w) * d + w * (e * e)
    BY <2>1, <2>2
  <2>4. v * n = v * (d * d) + (e * v) * e /\ w * n = (d * w) * d + w * (e * e)
    BY <1>3
  <2>5. QED
    BY <2>3, <2>4
<1>6. n \in Int /\ n > 0 /\ t \in Int
  <2> HIDE DEF d, e, v, w
  <2>1. /\ d * d >= 0 /\ (d # 0 => d * d > 0)
        /\ e * e >= 0 /\ (e # 0 => e * e > 0)
    BY <1>3, Signs
  <2>2. QED
    BY <1>3, <2>1
<1>7. (0 <= v /\ v <= d) \/ (d <= v /\ v <= 0)
  <2>1. n * v = t * d
    <3> HIDE DEF n, t, v, d
    <3>1. QED
      BY <1>3, <1>5, <1>6
  <2> HIDE DEF n, t, v, d
  <2>2. QED
    BY <1>3, <1>6, <2>1, Fraction
<1>8. (0 <= w /\ w <= e) \/ (e <= w /\ w <= 0)
  <2>1. n * w = t * e
    <3> HIDE DEF n, t, w, e
    <3>1. QED
      BY <1>3, <1>5, <1>6
  <2> HIDE DEF n, t, w, e
  <2>2. QED
    BY <1>3, <1>6, <2>1, Fraction
<1>9. CASE a1 = b1
  <2>1. x = a1
    BY <1>7, <1>9
  <2>2. (a2 < low /\ b2 < low) \/ (a2 > high /\ b2 > high)
    BY <1>2, <1>9, <2>1 DEF Misses
  <2>3. QED
    BY <1>8, <2>2
<1>10. CASE a1 # b1
  <2>1. ~(x < a1 /\ x < b1) /\ ~(a1 < x /\ b1 < x)
    BY <1>7
  <2>2. PICK l \in Int : (l - a2) * d = v * e /\ (l < low \/ l > high)
    BY <1>2, <1>10, <2>1 DEF Misses
  <2>3. d * ((l - a2) - w) = 0
    <3> DEFINE g == l - a2
    <3>1. g \in Int /\ g * d = v * e /\ d # 0
      BY <1>10, <2>2
    <3> HIDE DEF d, e, v, w, g
    <3>2. d * (g - w) = g * d - d * w /\ e * v = v * e
      BY <1>3, <3>1
    <3>5. g * d \in Int
      BY <1>3, <3>1
    <3>6. g * d = d * w
      BY <1>3, <3>1, <3>2
    <3>3. d * (g - w) = 0
      BY <3>2, <3>5, <3>6
    <3>4. QED
      BY <3>3 DEF g
  <2>4. (l - a2) - w = 0
    <3> DEFINE z == (l - a2) - w
    <3>1. z \in Int /\ d # 0 /\ d * z = 0
      BY <1>10, <2>3
    <3> HIDE DEF d, z
    <3>2. z = 0
      BY <1>3, <3>1, Signs
    <3>3. QED
      BY <3>2 DEF z
  <2>5. l = y
    BY <2>4
  <2>6. QED
    BY <2>2, <2>5
<1>11. QED
  BY <1>9, <1>10

\* Two sets of which an injection of F into itself takes one to the other have as many
\* elements.
LEMMA SameNumberOf ==
  ASSUME NEW F, IsFiniteSet(F), NEW N \in [F -> F],
         \A s, t \in F : N[s] = N[t] => s = t,
         NEW A \in SUBSET F, NEW B \in SUBSET F, \A s \in F : s \in B <=> N[s] \in A
  PROVE  Cardinality(A) = Cardinality(B)
<1>1. N \in Injection(F, F)
  BY DEF Injection, IsInjective
<1>2. IsFiniteSet(A) /\ IsFiniteSet(B) /\ Cardinality(A) \in Nat /\ Cardinality(B) \in Nat
  BY FS_Subset, FS_CardinalityType
<1>3. N \in Surjection(F, F)
  BY <1>1, FS_Injection
<1> DEFINE f == [s \in B |-> N[s]]
<1>4. f \in Injection(B, A) /\ f \in Surjection(B, A)
  <2>1. f \in [B -> A]
    OBVIOUS
  <2>2. \A s, t \in B : f[s] = f[t] => s = t
    OBVIOUS
  <2>3. \A a \in A : \E s \in B : f[s] = a
    <3>1. TAKE a \in A
    <3>2. PICK s \in F : N[s] = a
      BY <1>3 DEF Surjection
    <3>3. s \in B /\ f[s] = a
      BY <3>2
    <3>4. QED
      BY <3>3
  <2>4. QED
    BY <2>1, <2>2, <2>3 DEF Injection, Surjection, IsInjective
<1>5. ExistsBijection(B, A)
  BY <1>4 DEF ExistsBijection, Bijection
<1>6. QED
  BY <1>2, <1>5, FS_Bijection

\* N leads around F, from each element of B to one of A, and those that G and H tell apart
\* are those that A and B do.
Chained(F, N, A, B, G, H) ==
  /\ IsFiniteSet(F) /\ N \in [F -> F] /\ \A s, t \in F : N[s] = N[t] => s = t
  /\ A \in SUBSET F /\ B \in SUBSET F /\ \A s \in F : s \in B <=> N[s] \in A
  /\ G \in SUBSET F /\ H \in SUBSET F
  /\ \A s \in F : (s \in G <=> s \in H) <=> (s \in A <=> s \in B)

\* If the sides that just one of two rays hits are those with just one end in some place,
\* and the sides follow one another, the rays hit as many up to an even number.
LEMMA Parity ==
  ASSUME NEW F, NEW N, NEW A, NEW B, NEW G, NEW H, Chained(F, N, A, B, G, H)
  PROVE  Cardinality(G) % 2 = Cardinality(H) % 2
<1> USE DEF Chained
<1>1. Cardinality(A) = Cardinality(B)
  BY SameNumberOf
<1> DEFINE Size(S) == Cardinality(S)
<1>2. \A S \in SUBSET F : IsFiniteSet(S) /\ Size(S) \in Nat
  BY FS_Subset, FS_CardinalityType
<1>3. ASSUME NEW S \in SUBSET F, NEW T \in SUBSET F
      PROVE  Size(S) = Size(S \ T) + Size(S \cap T)
  <2>1. Cardinality(S \ T) = Cardinality(S) - Cardinality(S \cap T)
    BY <1>2, FS_Difference
  <2>2. Size(S) \in Nat /\ Size(S \cap T) \in Nat
    BY <1>2
  <2>3. QED
    BY <2>1, <2>2
<1>4. ASSUME NEW S \in SUBSET F, NEW T \in SUBSET F
      PROVE  Size((S \ T) \cup (T \ S)) = Size(S \ T) + Size(T \ S)
  <2>1. IsFiniteSet(S \ T) /\ IsFiniteSet(T \ S) /\ (S \ T) \cap (T \ S) = {}
    BY <1>2
  <2> DEFINE P == S \ T
             Q == T \ S
  <2>2. IsFiniteSet(P) /\ IsFiniteSet(Q) /\ P \cap Q = {} /\ Size(P) \in Nat /\ Size(Q) \in Nat
    BY <1>2, <2>1
  <2> HIDE DEF P, Q
  <2>3. Cardinality(P \cup Q) = Cardinality(P) + Cardinality(Q) - Cardinality({})
    BY <2>2, FS_Union
  <2>4. Cardinality(P \cup Q) = Cardinality(P) + Cardinality(Q)
    BY <2>2, <2>3, FS_EmptySet
  <2>5. QED
    BY <2>4 DEF P, Q
<1>5. (G \ H) \cup (H \ G) = (A \ B) \cup (B \ A)
  OBVIOUS
<1>6. A \cap B = B \cap A /\ G \cap H = H \cap G
  OBVIOUS
<1> DEFINE a == Size(A \ B)
           b == Size(B \ A)
           g == Size(G \ H)
           h == Size(H \ G)
           i == Size(A \cap B)
           j == Size(G \cap H)
<1>7. a \in Nat /\ b \in Nat /\ g \in Nat /\ h \in Nat /\ i \in Nat /\ j \in Nat
  BY <1>2
<1>8. /\ Size(A) = a + i /\ Size(B) = b + i /\ Size(G) = g + j /\ Size(H) = h + j
      /\ g + h = a + b
  <2> HIDE DEF Size
  <2>1. Size(A) = a + i /\ Size(B) = Size(B \ A) + Size(B \cap A)
    BY <1>3
  <2>2. Size(G) = g + j /\ Size(H) = Size(H \ G) + Size(H \cap G)
    BY <1>3
  <2>3. g + h = a + b
    BY <1>4, <1>5
  <2>4. QED
    BY <1>6, <2>1, <2>2, <2>3
<1>9. a = b
  <2> HIDE DEF Size, a, b, i
  <2>1. Size(A) = Size(B)
    BY <1>1 DEF Size
  <2>2. QED
    BY <1>7, <1>8, <2>1
<1> HIDE DEF a, b, g, h, i, j
<1>10. Size(G) + Size(H) = 2 * (a + j) /\ Size(G) \in Nat /\ Size(H) \in Nat
  BY <1>2, <1>7, <1>8, <1>9
<1>11. \A m, n, k \in Nat : m + n = 2 * k => m % 2 = n % 2
  OBVIOUS
<1>12. a + j \in Nat
  BY <1>7
<1> HIDE DEF Size
<1>13. Size(G) % 2 = Size(H) % 2
  BY <1>10, <1>11, <1>12
<1>14. QED
  BY <1>13 DEF Size

\* A side of the ground, as vertical_material_lengths asks about it.
Drawn(e) ==
  <<Scaled(e[1], StepsX * 2, StepsY * 2), Scaled(e[2], StepsX * 2, StepsY * 2)>>

\* A product of differences with a positive number.
LEMMA ScaledOrder ==
  ASSUME NEW k \in Int, k > 0, NEW a \in Int, NEW b \in Int
  PROVE  /\ k * a \in Int /\ k * b \in Int
         /\ a <= b => k * a <= k * b
         /\ a < b => k * a < k * b
<1>1. k * (b - a) = k * b - k * a /\ b - a \in Int
  OBVIOUS
<1> DEFINE d == b - a
<1>2. (d >= 0 => k * d >= 0) /\ (d > 0 => k * d > 0)
  <2>1. d \in Int
    OBVIOUS
  <2> HIDE DEF d
  <2>2. QED
    BY <2>1, Signs
<1>3. QED
  BY <1>1, <1>2

\* What a drawn side is.
LEMMA DrawnFacts ==
  ASSUME NEW a1 \in Int, NEW a2 \in Int, NEW b1 \in Int, NEW b2 \in Int,
         NEW e, e = <<<<a1, a2>>, <<b1, b2>>>>
  PROVE  /\ StepsX * 2 \in Int /\ StepsX * 2 > 0 /\ StepsY * 2 \in Int /\ StepsY * 2 > 0
         /\ Drawn(e) = <<<<(StepsX * 2) * a1, (StepsY * 2) * a2>>,
                         <<(StepsX * 2) * b1, (StepsY * 2) * b2>>>>
         /\ Drawn(e) \in Vectors \X Vectors
         /\ e[1] # e[2] => Drawn(e) \in Sides
<1> DEFINE k == StepsX * 2
           l == StepsY * 2
<1>1. k \in Int /\ k > 0 /\ l \in Int /\ l > 0
  BY StepsAssumption
<1>2. Drawn(e) = <<<<k * a1, l * a2>>, <<k * b1, l * b2>>>>
  BY DEF Drawn, Scaled
<1> HIDE DEF k, l
<1>3. k * a1 \in Int /\ l * a2 \in Int /\ k * b1 \in Int /\ l * b2 \in Int
  BY <1>1, ScaledOrder
<1>4. Drawn(e) \in Vectors \X Vectors
  BY <1>2, <1>3 DEF Vectors
<1>5. e[1] # e[2] => Drawn(e)[1] # Drawn(e)[2]
  <2>1. SUFFICES ASSUME e[1] # e[2] PROVE Drawn(e)[1] # Drawn(e)[2]
    OBVIOUS
  <2>2. a1 # b1 \/ a2 # b2
    BY <2>1
  <2>3. k * a1 # k * b1 \/ l * a2 # l * b2
    BY <1>1, <1>3, <2>2, ScaledOrder
  <2>4. QED
    BY <1>2, <2>3
<1>6. QED
  BY <1>1, <1>2, <1>4, <1>5 DEF Sides, k, l

\* No two sides are drawn as one.
LEMMA DrawnApart ==
  ASSUME NEW e \in Vectors \X Vectors, NEW f \in Vectors \X Vectors, Drawn(e) = Drawn(f)
  PROVE  e = f
<1>1. PICK a1 \in Int, a2 \in Int, b1 \in Int, b2 \in Int : e = <<<<a1, a2>>, <<b1, b2>>>>
  BY DEF Vectors
<1>2. PICK c1 \in Int, c2 \in Int, d1 \in Int, d2 \in Int : f = <<<<c1, c2>>, <<d1, d2>>>>
  BY DEF Vectors
<1> DEFINE k == StepsX * 2
           l == StepsY * 2
<1>3. /\ k \in Int /\ k > 0 /\ l \in Int /\ l > 0
      /\ Drawn(e) = <<<<k * a1, l * a2>>, <<k * b1, l * b2>>>>
      /\ Drawn(f) = <<<<k * c1, l * c2>>, <<k * d1, l * d2>>>>
  BY <1>1, <1>2, DrawnFacts
<1> HIDE DEF k, l
<1>4. k * a1 = k * c1 /\ l * a2 = l * c2 /\ k * b1 = k * d1 /\ l * b2 = l * d2
  <2> DEFINE r == <<<<k * a1, l * a2>>, <<k * b1, l * b2>>>>
             t == <<<<k * c1, l * c2>>, <<k * d1, l * d2>>>>
  <2>1. r = t
    BY <1>3
  <2>2. /\ r[1][1] = k * a1 /\ r[1][2] = l * a2 /\ r[2][1] = k * b1 /\ r[2][2] = l * b2
        /\ t[1][1] = k * c1 /\ t[1][2] = l * c2 /\ t[2][1] = k * d1 /\ t[2][2] = l * d2
    OBVIOUS
  <2> HIDE DEF r, t
  <2>3. QED
    BY <2>1, <2>2
<1>5. \A m \in Int : m > 0 => \A a, b \in Int : m * a = m * b => a = b
  <2>1. TAKE m \in Int
  <2>2. HAVE m > 0
  <2>3. TAKE a, b \in Int
  <2>4. HAVE m * a = m * b
  <2>5. ~(a < b) /\ ~(b < a)
    BY <2>2, <2>4, ScaledOrder
  <2>6. QED
    BY <2>5
<1>6. a1 = c1 /\ a2 = c2 /\ b1 = d1 /\ b2 = d2
  BY <1>3, <1>4, <1>5
<1>7. QED
  BY <1>1, <1>2, <1>6

\* A point of a side is drawn on it.
LEMMA DrawnOn ==
  ASSUME NEW s \in Sides, NEW p, On(p, s)
  PROVE  On(Scaled(p, StepsX * 2, StepsY * 2), Drawn(s))
<1>1. PICK a1 \in Int, a2 \in Int, b1 \in Int, b2 \in Int : s = <<<<a1, a2>>, <<b1, b2>>>>
  BY DEF Sides, Vectors
<1>2. PICK p1 \in Int, p2 \in Int : p = <<p1, p2>>
  BY DEF On, Vectors
<1> DEFINE k == StepsX * 2
           l == StepsY * 2
<1>3. /\ k \in Int /\ k > 0 /\ l \in Int /\ l > 0
      /\ Drawn(s) = <<<<k * a1, l * a2>>, <<k * b1, l * b2>>>>
  BY <1>1, DrawnFacts
<1>4. Scaled(p, k, l) = <<k * p1, l * p2>>
  BY <1>2 DEF Scaled
<1>5. s[1] = <<a1, a2>> /\ s[2] = <<b1, b2>>
  BY <1>1
<1>6. (b1 - a1) * (p2 - a2) - (b2 - a2) * (p1 - a1) = 0
  <2>1. Minus(s[2], s[1]) = <<b1 - a1, b2 - a2>> /\ Minus(p, s[1]) = <<p1 - a1, p2 - a2>>
    BY <1>2, <1>5 DEF Minus
  <2>2. Cross(<<b1 - a1, b2 - a2>>, <<p1 - a1, p2 - a2>>)
          = (b1 - a1) * (p2 - a2) - (b2 - a2) * (p1 - a1)
    BY DEF Cross
  <2>3. Cross(<<b1 - a1, b2 - a2>>, <<p1 - a1, p2 - a2>>) = 0
    BY <2>1 DEF On
  <2>4. QED
    BY <2>2, <2>3
<1>7. /\ (a1 <= p1 /\ p1 <= b1) \/ (b1 <= p1 /\ p1 <= a1)
      /\ (a2 <= p2 /\ p2 <= b2) \/ (b2 <= p2 /\ p2 <= a2)
  BY <1>2, <1>5 DEF On
<1> HIDE DEF k, l
<1>8. \A a, b \in Int : a <= b => k * a <= k * b /\ l * a <= l * b
  BY <1>3, ScaledOrder
<1>9. /\ (k * a1 <= k * p1 /\ k * p1 <= k * b1) \/ (k * b1 <= k * p1 /\ k * p1 <= k * a1)
      /\ (l * a2 <= l * p2 /\ l * p2 <= l * b2) \/ (l * b2 <= l * p2 /\ l * p2 <= l * a2)
  BY <1>7, <1>8
<1>10. (k * b1 - k * a1) * (l * p2 - l * a2) - (l * b2 - l * a2) * (k * p1 - k * a1) = 0
  <2> DEFINE d == b1 - a1
             e == b2 - a2
             v == p1 - a1
             w == p2 - a2
  <2>1. /\ k * b1 - k * a1 = k * d /\ l * p2 - l * a2 = l * w
        /\ l * b2 - l * a2 = l * e /\ k * p1 - k * a1 = k * v
    BY <1>3
  <2>2. d \in Int /\ e \in Int /\ v \in Int /\ w \in Int /\ d * w - e * v = 0
    BY <1>6
  <2>3. (k * d) * (l * w) - (l * e) * (k * v) = 0
    <3> HIDE DEF d, e, v, w
    <3>1. d * w = e * v
      BY <2>2
    <3>2. (k * d) * (l * w) = (k * l) * (d * w) /\ (l * e) * (k * v) = (k * l) * (e * v)
      BY <1>3, <2>2
    <3>3. (k * d) * (l * w) = (l * e) * (k * v) /\ (k * d) * (l * w) \in Int
      BY <1>3, <2>2, <3>1, <3>2
    <3>4. QED
      BY <3>3
  <2>4. QED
    BY <2>1, <2>3
<1> DEFINE r == <<k * p1, l * p2>>
           t == <<<<k * a1, l * a2>>, <<k * b1, l * b2>>>>
<1>11. k * a1 \in Int /\ l * a2 \in Int /\ k * b1 \in Int /\ l * b2 \in Int
       /\ k * p1 \in Int /\ l * p2 \in Int
  BY <1>3
<1>12. Cross(Minus(t[2], t[1]), Minus(r, t[1])) = 0
  <2>1. /\ Minus(t[2], t[1]) = <<k * b1 - k * a1, l * b2 - l * a2>>
        /\ Minus(r, t[1]) = <<k * p1 - k * a1, l * p2 - l * a2>>
    BY DEF Minus
  <2>2. QED
    BY <1>10, <2>1 DEF Cross
<1>13. \A i \in 1..2 : (t[1][i] <= r[i] /\ r[i] <= t[2][i]) \/ (t[2][i] <= r[i] /\ r[i] <= t[1][i])
  <2>1. TAKE i \in 1..2
  <2>2. CASE i = 1
    BY <1>9, <2>2
  <2>3. CASE i = 2
    BY <1>9, <2>3
  <2>4. QED
    BY <2>2, <2>3
<1>14. r \in Vectors
  BY <1>11 DEF Vectors
<1>15. On(r, t)
  BY <1>12, <1>13, <1>14 DEF On
<1>16. QED
  BY <1>3, <1>4, <1>15 DEF k, l

\* A piece of a side misses the vertical where the whole side does.
LEMMA DrawnPieceMisses ==
  ASSUME NEW s \in Sides, NEW e \in Sides, On(e[1], s), On(e[2], s),
         NEW x \in Int, NEW low \in Int, NEW high \in Int, Misses(Drawn(s), x, low, high)
  PROVE  Drawn(e) \in Sides /\ Misses(Drawn(e), x, low, high)
<1>1. PICK a1 \in Int, a2 \in Int, b1 \in Int, b2 \in Int : s = <<<<a1, a2>>, <<b1, b2>>>>
  BY DEF Sides, Vectors
<1>2. PICK c1 \in Int, c2 \in Int, d1 \in Int, d2 \in Int : e = <<<<c1, c2>>, <<d1, d2>>>>
  BY DEF Sides, Vectors
<1>3. s[1] # s[2] /\ e[1] # e[2]
  BY DEF Sides
<1>4. Drawn(s) \in Sides /\ Drawn(e) \in Sides
  BY <1>1, <1>2, <1>3, DrawnFacts
<1> DEFINE p == Scaled(e[1], StepsX * 2, StepsY * 2)
           q == Scaled(e[2], StepsX * 2, StepsY * 2)
<1>5. Drawn(e) = <<p, q>> /\ p # q
  BY <1>4 DEF Drawn, Sides
<1>6. On(p, Drawn(s)) /\ On(q, Drawn(s))
  BY DrawnOn
<1> HIDE DEF p, q
<1>7. Misses(<<p, q>>, x, low, high)
  BY <1>4, <1>5, <1>6, PieceMisses
<1>8. QED
  BY <1>4, <1>5, <1>7

\* The point is strictly inside a face or not all along an interval of the vertical that no
\* side of the face touches.
LEMMA FaceAlong ==
  ASSUME NEW E, Clear(E), NEW F \in SUBSET E, \A e \in F : Follow(E, e) \in F,
         NEW x \in Int, NEW low \in Int, NEW high \in Int, low <= high,
         \A e \in F : Drawn(e) \in Sides /\ Misses(Drawn(e), x, low, high)
  PROVE  /\ ~OnAny(<<x, low>>, Fine(F, 2)) /\ ~OnAny(<<x, high>>, Fine(F, 2))
         /\ OddHits(<<x, low>>, Fine(F, 2)) <=> OddHits(<<x, high>>, Fine(F, 2))
<1>1. IsFiniteSet(F) /\ \A e \in F : e \in Vectors \X Vectors
  BY FS_Subset DEF Clear
<1>2. Fine(F, 2) = {Drawn(e) : e \in F}
  BY DEF Fine, ScaledSegments, Drawn
<1>3. ~OnAny(<<x, low>>, Fine(F, 2)) /\ ~OnAny(<<x, high>>, Fine(F, 2))
  <2>1. \A e \in F : ~OnSegment(<<x, low>>, Drawn(e)) /\ ~OnSegment(<<x, high>>, Drawn(e))
    BY MissedNotOn
  <2>2. QED
    BY <1>2, <2>1 DEF OnAny
<1> DEFINE Hit(y) == {e \in F : RayHits(<<x, y>>, Drawn(e))}
           N == [e \in F |-> Follow(E, e)]
           A == {e \in F : Beside(Drawn(e)[1], x, low, high)}
           B == {e \in F : Beside(Drawn(e)[2], x, low, high)}
<1>4. ASSUME NEW y \in Int
      PROVE  Cardinality({s \in Fine(F, 2) : RayHits(<<x, y>>, s)}) = Cardinality(Hit(y))
  <2> DEFINE T == {s \in Fine(F, 2) : RayHits(<<x, y>>, s)}
             f == [e \in Hit(y) |-> Drawn(e)]
  <2>1. IsFiniteSet(Hit(y))
    BY <1>1, FS_Subset
  <2>2. f \in Injection(Hit(y), T)
    <3>1. f \in [Hit(y) -> T]
      BY <1>2
    <3>2. \A e, g \in Hit(y) : f[e] = f[g] => e = g
      BY <1>1, DrawnApart
    <3>3. QED
      BY <3>1, <3>2 DEF Injection, IsInjective
  <2>3. f \in Surjection(Hit(y), T)
    <3>1. \A s \in T : \E e \in Hit(y) : f[e] = s
      BY <1>2
    <3>2. QED
      BY <1>2, <3>1 DEF Surjection
  <2>4. ExistsBijection(Hit(y), T)
    BY <2>2, <2>3 DEF ExistsBijection, Bijection
  <2> HIDE DEF T, Hit
  <2>5. Cardinality(T) = Cardinality(Hit(y))
    BY <2>1, <2>4, FS_Bijection
  <2>6. QED
    BY <2>5 DEF T
<1>5. N \in [F -> F] /\ \A s, t \in F : N[s] = N[t] => s = t
  BY FollowInjective
<1>6. \A s \in F : s \in B <=> N[s] \in A
  <2>1. TAKE s \in F
  <2>2. N[s] \in F /\ N[s][1] = s[2]
    BY <1>5 DEF Follow
  <2>3. Drawn(N[s])[1] = Drawn(s)[2]
    BY <2>2 DEF Drawn
  <2> HIDE DEF N
  <2>4. QED
    BY <2>2, <2>3
<1>7. \A s \in F : (s \in Hit(low) <=> s \in Hit(high)) <=> (s \in A <=> s \in B)
  <2>1. TAKE s \in F
  <2>2. (RayHits(<<x, low>>, Drawn(s)) <=> RayHits(<<x, high>>, Drawn(s)))
           <=> (Beside(Drawn(s)[1], x, low, high) <=> Beside(Drawn(s)[2], x, low, high))
    BY HitsChange
  <2>3. QED
    BY <2>2
<1>8. /\ A \in SUBSET F /\ B \in SUBSET F
      /\ Hit(low) \in SUBSET F /\ Hit(high) \in SUBSET F
  OBVIOUS
<1> HIDE DEF Hit, N, A, B
<1>9. Cardinality(Hit(low)) % 2 = Cardinality(Hit(high)) % 2
  <2>1. Chained(F, N, A, B, Hit(low), Hit(high))
    BY <1>1, <1>5, <1>6, <1>7, <1>8 DEF Chained
  <2>2. QED
    BY <2>1, Parity
<1>10. QED
  BY <1>3, <1>4, <1>9 DEF OddHits

\* A multiple of a number, divided by it.
LEMMA ExactDivision ==
  ASSUME NEW w \in Int, w > 0, NEW j \in Int
  PROVE  (w * j) \div w = j
<1> DEFINE a == w * j
           q == a \div w
<1>1. a \in Int /\ w \in Nat \ {0}
  OBVIOUS
<1> HIDE DEF a
<1>2. q \in Int /\ w * q <= a /\ a < w * q + w
  BY <1>1, Division
<1> HIDE DEF q
<1>3. ~(q < j)
  <2>1. SUFFICES ASSUME q + 1 <= j PROVE FALSE
    BY <1>2
  <2>2. w * (q + 1) <= w * j
    BY <1>2, <2>1, ScaledOrder
  <2>3. w * (q + 1) = w * q + w /\ w * q \in Int
    BY <1>2
  <2>4. QED
    BY <1>1, <1>2, <2>2, <2>3 DEF a
<1>4. ~(j < q)
  <2>1. SUFFICES ASSUME j < q PROVE FALSE
    OBVIOUS
  <2>2. w * j < w * q
    BY <1>2, <2>1, ScaledOrder
  <2>3. QED
    BY <1>1, <1>2, <2>2 DEF a
<1>5. q = j
  BY <1>2, <1>3, <1>4
<1>6. QED
  BY <1>5 DEF q, a

\* The level of a line where the fine grid is fine enough for it.
LEMMA LevelOnExact ==
  ASSUME NEW p1 \in Int, NEW p2 \in Int, NEW q1 \in Int, NEW q2 \in Int, p1 < q1,
         NEW x \in Int, (q2 - p2) % (q1 - p1) = 0
  PROVE  LET l == LevelOn(<<p1, p2>>, <<q1, q2>>, x)
         IN l \in Int /\ (l - p2) * (q1 - p1) = (x - p1) * (q2 - p2)
<1> DEFINE w == q1 - p1
           e == q2 - p2
           v == x - p1
           k == e \div w
           l == LevelOn(<<p1, p2>>, <<q1, q2>>, x)
<1>1. w \in Int /\ w > 0 /\ e \in Int /\ v \in Int /\ e % w = 0
  OBVIOUS
<1>2. l = p2 + ((v * e) \div w)
  BY DEF LevelOn
<1> HIDE DEF w, e, v, l
<1>3. k \in Int /\ w * k = e
  BY <1>1, Quotient
<1> HIDE DEF k
<1>4. v * e = w * (v * k) /\ v * k \in Int
  <2>1. v * e = v * (w * k)
    BY <1>3
  <2>2. v * (w * k) = w * (v * k)
    BY <1>1, <1>3
  <2>3. QED
    BY <1>1, <1>3, <2>1, <2>2
<1>5. (v * e) \div w = v * k
  <2> DEFINE j == v * k
  <2>1. j \in Int /\ v * e = w * j
    BY <1>4
  <2> HIDE DEF j
  <2>2. (w * j) \div w = j
    BY <1>1, <2>1, ExactDivision
  <2>3. QED
    BY <2>1, <2>2 DEF j
<1>6. l - p2 = v * k /\ l \in Int
  BY <1>2, <1>4, <1>5
<1>7. (v * k) * w = v * e
  BY <1>1, <1>3, <1>4
<1>8. (l - p2) * w = v * e
  BY <1>6, <1>7
<1>9. QED
  BY <1>6, <1>8 DEF w, e, v, l

\* The fine grid has the level of the line from a to b at each of its abscissas.
Stepped(a1, a2, b1, b2) ==
  /\ b1 - a1 > 0 => (b2 - a2) % (b1 - a1) = 0
  /\ b1 - a1 < 0 => (b2 - a2) % (-(b1 - a1)) = 0

\* LevelAt is the level of a segment on its line.
LEMMA LevelExact ==
  ASSUME NEW a1 \in Int, NEW a2 \in Int, NEW b1 \in Int, NEW b2 \in Int, a1 # b1, NEW x \in Int,
         Stepped(a1, a2, b1, b2), NEW s, s = <<<<a1, a2>>, <<b1, b2>>>>
  PROVE  /\ LevelAt(s, x) \in Int
         /\ (LevelAt(s, x) - a2) * (b1 - a1) = (x - a1) * (b2 - a2)
<1> USE DEF Stepped
<1>1. CASE a1 < b1
  <2>1. (b2 - a2) % (b1 - a1) = 0
    BY <1>1
  <2>2. LevelAt(s, x) = LevelOn(<<a1, a2>>, <<b1, b2>>, x)
    BY <1>1 DEF LevelAt
  <2>3. QED
    BY <1>1, <2>1, <2>2, LevelOnExact
<1>2. CASE b1 < a1
  <2> DEFINE w == a1 - b1
             e == a2 - b2
             f == b2 - a2
             l == LevelAt(s, x)
  <2>1. w \in Int /\ w > 0 /\ f % w = 0 /\ e = -f /\ f \in Int /\ e \in Int
    <3>1. w = -(b1 - a1) /\ b1 - a1 < 0
      BY <1>2
    <3>2. QED
      BY <1>2, <3>1
  <2>2. e % w = 0
    <3> HIDE DEF w, e, f
    <3> DEFINE k == f \div w
               r == e % w
    <3>1. k \in Int /\ w * k = f
      BY <2>1, Quotient
    <3> HIDE DEF k
    <3>2. e = w * (-k)
      BY <2>1, <3>1
    <3>3. e \div w = -k
      <4> DEFINE j == -k
      <4>1. j \in Int /\ e = w * j
        BY <3>1, <3>2
      <4> HIDE DEF j
      <4>2. (w * j) \div w = j
        BY <2>1, <4>1, ExactDivision
      <4>3. QED
        BY <4>1, <4>2 DEF j
    <3>4. e = w * (e \div w) + r
      BY <2>1
    <3>5. r \in Int
      BY <2>1
    <3> HIDE DEF r
    <3>6. w * (e \div w) = e
      BY <3>2, <3>3
    <3>7. r = 0
      BY <2>1, <3>4, <3>5, <3>6
    <3>8. QED
      BY <3>7 DEF r
  <2>3. l = LevelOn(<<b1, b2>>, <<a1, a2>>, x)
    BY <1>2 DEF LevelAt
  <2>4. (a2 - b2) % (a1 - b1) = 0
    BY <2>2
  <2> HIDE DEF l
  <2>5. l \in Int /\ (l - b2) * (a1 - b1) = (x - b1) * (a2 - b2)
    BY <1>2, <2>3, <2>4, LevelOnExact
  <2>6. (l - a2) * (b1 - a1) = (x - a1) * (b2 - a2)
    <3>1. (l - a2) * (b1 - a1) = (b2 - a2) * (b1 - a1) - (l - b2) * (a1 - b1)
      BY <2>5
    <3>2. (x - a1) * (b2 - a2) = (b1 - a1) * (b2 - a2) - (x - b1) * (a2 - b2)
      OBVIOUS
    <3>3. QED
      BY <2>5, <3>1, <3>2
  <2>7. QED
    BY <2>5, <2>6 DEF l
<1>3. QED
  BY <1>1, <1>2

\* A line of the ground belongs to a boundary or to its outline.
LEMMA RawOf ==
  ASSUME soils \in SoilInputs, NEW r \in Raw
  PROVE  r \in BoundarySegments \/ r \in Ground
<1>1. soils \in SoilsInput /\ soils.boundaries \in Seq(Seq(Points))
  BY SoilInputsAssumption DEF SoilsInput
<1>2. PICK k \in DOMAIN RawSegments(soils) : r = RawSegments(soils)[k]
  BY DEF Raw, Elements
<1>3. PICK l \in 0..Len(soils.boundaries) : k \in {l} \X DOMAIN LineSegments(soils, l)
  BY <1>2 DEF RawSegments
<1>8. PICK i \in DOMAIN LineSegments(soils, l) : k = <<l, i>>
  BY <1>3
<1>4. r = LineSegments(soils, l)[i]
  BY <1>2, <1>8 DEF RawSegments
<1>5. CASE l = 0
  BY <1>4, <1>5, <1>8 DEF LineSegments, Ground, Elements
<1>6. CASE l # 0
  <2>1. l \in DOMAIN soils.boundaries
    BY <1>1, <1>6
  <2>2. soils.boundaries[l] \in Elements(soils.boundaries)
    BY <2>1 DEF Elements
  <2>3. r \in Elements(Segments(soils.boundaries[l]))
    BY <1>4, <1>6, <1>8 DEF LineSegments, Elements
  <2>4. QED
    BY <2>2, <2>3 DEF BoundarySegments
<1>7. QED
  BY <1>5, <1>6

\* Between two neighbouring levels of a column no line of the ground is touched, unless a
\* boundary is upright there or the outline passes through the column.
LEMMA GapUntouched ==
  ASSUME soils \in SoilInputs, NEW r \in Raw, NEW x \in Int, ~OnUpright(x),
         NEW bottom \in Int, NEW top \in Int, bottom <= top, ~OutlineCuts(x, bottom, top),
         NEW g \in Gaps(CutLevels(x, bottom, top)),
         NEW low \in Int, NEW high \in Int, low <= high, 2 * g[1] < low, high < 2 * g[2]
  PROVE  Misses(Drawn(r), 2 * x, low, high)
<1> DEFINE P == CutLevels(x, bottom, top)
<1>1. /\ g[1] \in Int /\ g[2] \in Int /\ bottom <= g[1] /\ g[1] < g[2] /\ g[2] <= top
      /\ \A y \in P : y <= g[1] \/ g[2] <= y
  <2>1. P \in SUBSET (bottom..top)
    BY LevelsWithin
  <2>2. g[1] \in P /\ g[2] \in P /\ g[1] < g[2] /\ \A y \in P : ~(g[1] < y /\ y < g[2])
    BY DEF Gaps
  <2> HIDE DEF P
  <2>3. \A y \in P : y \in Int /\ bottom <= y /\ y <= top
    BY <2>1
  <2>4. QED
    BY <2>2, <2>3
<1>2. r \in Sides
  BY RawSides
<1>3. PICK c1 \in Int, c2 \in Int, d1 \in Int, d2 \in Int : r = <<<<c1, c2>>, <<d1, d2>>>>
  BY <1>2 DEF Sides, Vectors
<1> DEFINE t == <<Scaled(r[1], StepsX * 1, StepsY * 1), Scaled(r[2], StepsX * 1, StepsY * 1)>>
           a1 == StepsX * c1
           a2 == StepsY * c2
           b1 == StepsX * d1
           b2 == StepsY * d2
<1>4. StepsX \in Int /\ StepsX > 0 /\ StepsY \in Int /\ StepsY > 0
  BY StepsAssumption
<1>5. a1 \in Int /\ a2 \in Int /\ b1 \in Int /\ b2 \in Int
  BY <1>4
<1>6. /\ t[1] = <<a1, a2>> /\ t[2] = <<b1, b2>>
      /\ Drawn(r)[1] = <<2 * a1, 2 * a2>> /\ Drawn(r)[2] = <<2 * b1, 2 * b2>>
  <2>1. t = <<<<a1, a2>>, <<b1, b2>>>>
    BY <1>3, <1>4 DEF Scaled
  <2>2. Drawn(r) = <<<<(StepsX * 2) * c1, (StepsY * 2) * c2>>,
                     <<(StepsX * 2) * d1, (StepsY * 2) * d2>>>>
    BY <1>3, DrawnFacts
  <2>3. /\ (StepsX * 2) * c1 = 2 * a1 /\ (StepsY * 2) * c2 = 2 * a2
        /\ (StepsX * 2) * d1 = 2 * b1 /\ (StepsY * 2) * d2 = 2 * b2
    BY <1>4
  <2> HIDE DEF t, a1, a2, b1, b2
  <2>4. QED
    BY <2>1, <2>2, <2>3
<1>7. Stepped(a1, a2, b1, b2)
  <2> DEFINE w == StepsX * (r[2][1] - r[1][1])
             e == StepsY * (r[2][2] - r[1][2])
  <2>1. (w > 0 => e % w = 0) /\ (w < 0 => e % (-w) = 0)
    BY LevelsAssumption DEF Raw
  <2>2. w = b1 - a1 /\ e = b2 - a2
    BY <1>3, <1>4
  <2> HIDE DEF w, e, a1, a2, b1, b2
  <2>3. QED
    BY <2>1, <2>2 DEF Stepped
<1>8. /\ r \in BoundarySegments => t \in Fine(BoundarySegments, 1)
      /\ r \in Ground => t \in Fine(Ground, 1)
  BY DEF Fine, ScaledSegments
<1> HIDE DEF t, a1, a2, b1, b2
<1> DEFINE l == LevelAt(t, x)
           within == (a1 <= x /\ x <= b1) \/ (b1 <= x /\ x <= a1)
<1>9. ASSUME a1 # b1
      PROVE  l \in Int /\ (l - a2) * (b1 - a1) = (x - a1) * (b2 - a2)
  <2>1. t = <<<<a1, a2>>, <<b1, b2>>>>
    BY <1>6 DEF t
  <2>2. /\ LevelAt(t, x) \in Int
        /\ (LevelAt(t, x) - a2) * (b1 - a1) = (x - a1) * (b2 - a2)
    BY <1>5, <1>7, <1>9, <2>1, LevelExact
  <2>3. QED
    BY <2>2
<1>10. within <=> Least(a1, b1) <= x /\ x <= Greatest(a1, b1)
  BY <1>5 DEF Least, Greatest
<1>11. \A u, v \in Int : /\ Least(u, v) \in {u, v} /\ Least(u, v) <= u /\ Least(u, v) <= v
                         /\ Greatest(u, v) \in {u, v} /\ u <= Greatest(u, v) /\ v <= Greatest(u, v)
  BY DEF Least, Greatest
<1>12. ASSUME r \in BoundarySegments
       PROVE  /\ a1 = b1 => x # a1
              /\ a1 # b1 /\ within => l <= g[1] \/ g[2] <= l
  <2>1. t \in Fine(BoundarySegments, 1)
    BY <1>8, <1>12
  <2>2. a1 = b1 => x # a1
    BY <1>6, <2>1 DEF OnUpright
  <2>3. ASSUME a1 # b1, within PROVE l <= g[1] \/ g[2] <= l
    <3>1. l \in Int
      BY <1>9, <2>3
    <3>2. bottom <= l /\ l <= top => l \in P
      <4>1. SUFFICES ASSUME bottom <= l, l <= top PROVE l \in P
        OBVIOUS
      <4>2. ~(x < Least(a1, b1) \/ x > Greatest(a1, b1))
        BY <1>5, <1>10, <1>11, <2>3
      <4>3. t[1][1] = a1 /\ t[2][1] = b1
        BY <1>6
      <4> HIDE DEF within
      <4>4. QED
        BY <2>1, <2>3, <4>1, <4>2, <4>3 DEF CutLevels
    <3> HIDE DEF l, P
    <3>3. QED
      BY <1>1, <3>1, <3>2
  <2>4. QED
    BY <2>2, <2>3
<1>13. ASSUME r \in Ground
       PROVE  /\ a1 = b1 => \/ x # a1
                            \/ a2 <= g[1] /\ b2 <= g[1]
                            \/ g[2] <= a2 /\ g[2] <= b2
              /\ a1 # b1 /\ within => l <= g[1] \/ g[2] <= l
  <2>1. t \in Fine(Ground, 1)
    BY <1>8, <1>13
  <2>2. ~(IF a1 = b1
          THEN x = a1 /\ Least(a2, b2) < top /\ bottom < Greatest(a2, b2)
          ELSE /\ Least(a1, b1) <= x /\ x <= Greatest(a1, b1)
               /\ bottom < l /\ l < top)
    <3>1. t[1][1] = a1 /\ t[2][1] = b1 /\ t[1][2] = a2 /\ t[2][2] = b2
      BY <1>6
    <3>2. QED
      BY <2>1, <3>1 DEF OutlineCuts
  <2>3. ASSUME a1 = b1, x = a1
        PROVE  (a2 <= g[1] /\ b2 <= g[1]) \/ (g[2] <= a2 /\ g[2] <= b2)
    <3>1. ~(Least(a2, b2) < top) \/ ~(bottom < Greatest(a2, b2))
      BY <2>2, <2>3
    <3>2. QED
      BY <1>1, <1>5, <1>11, <3>1
  <2>4. ASSUME a1 # b1, within PROVE l <= g[1] \/ g[2] <= l
    <3>1. l \in Int
      BY <1>9, <2>4
    <3>2. ~(bottom < l /\ l < top)
      BY <1>10, <2>2, <2>4
    <3> HIDE DEF l
    <3>3. QED
      BY <1>1, <3>1, <3>2
  <2>5. QED
    BY <2>3, <2>4
<1>14. /\ a1 = b1 => \/ x # a1
                     \/ a2 <= g[1] /\ b2 <= g[1]
                     \/ g[2] <= a2 /\ g[2] <= b2
       /\ a1 # b1 /\ within => l <= g[1] \/ g[2] <= l
  BY <1>12, <1>13, RawOf
<1>15. /\ Drawn(r)[1][1] = 2 * a1 /\ Drawn(r)[1][2] = 2 * a2
       /\ Drawn(r)[2][1] = 2 * b1 /\ Drawn(r)[2][2] = 2 * b2
  BY <1>6
<1> HIDE DEF P
<1>16. CASE a1 = b1
  <2>1. \/ 2 * x # 2 * a1
        \/ 2 * a2 < low /\ 2 * b2 < low
        \/ 2 * a2 > high /\ 2 * b2 > high
    BY <1>1, <1>5, <1>14, <1>16
  <2>2. QED
    BY <1>15, <1>16, <2>1 DEF Misses
<1>17. CASE a1 # b1
  <2>1. l \in Int /\ (l - a2) * (b1 - a1) = (x - a1) * (b2 - a2)
    BY <1>9, <1>17
  <2> HIDE DEF l
  <2>2. (2 * l - 2 * a2) * (2 * b1 - 2 * a1) = (2 * x - 2 * a1) * (2 * b2 - 2 * a2)
    <3>1. (2 * l - 2 * a2) * (2 * b1 - 2 * a1) = 4 * ((l - a2) * (b1 - a1))
      BY <1>5, <2>1
    <3>2. (2 * x - 2 * a1) * (2 * b2 - 2 * a2) = 4 * ((x - a1) * (b2 - a2))
      BY <1>5
    <3>3. QED
      BY <2>1, <3>1, <3>2
  <2>3. within => 2 * l < low \/ 2 * l > high
    BY <1>1, <1>14, <1>17, <2>1
  <2>4. ~within => (2 * x < 2 * a1 /\ 2 * x < 2 * b1) \/ (2 * a1 < 2 * x /\ 2 * b1 < 2 * x)
    BY <1>5
  <2>5. 2 * l \in Int /\ 2 * a1 # 2 * b1
    BY <1>5, <1>17, <2>1
  <2> HIDE DEF within
  <2>6. CASE within
    <3>1. \E k \in Int : /\ (k - 2 * a2) * (2 * b1 - 2 * a1) = (2 * x - 2 * a1) * (2 * b2 - 2 * a2)
                         /\ k < low \/ k > high
      BY <2>2, <2>3, <2>5, <2>6
    <3>2. QED
      BY <1>15, <2>5, <3>1 DEF Misses
  <2>7. CASE ~within
    BY <1>15, <2>4, <2>5, <2>7 DEF Misses
  <2>8. QED
    BY <2>6, <2>7
<1>18. QED
  BY <1>16, <1>17

\* The faces consist of pieces of the ground's lines, and each piece is followed in its
\* face as the walk around it followed it.
FacesInv ==
  /\ soils \in SoilInputs
  /\ building = "arrangement" => faces = {}
  /\ faces # {} => Clear(edges) /\ \A e \in edges : \E s \in Raw : e \in Pieces(s)
  /\ building = "faces" => \A e \in edges : \E s \in Raw : e \in Pieces(s)
  /\ \A f \in faces : f \in SUBSET edges /\ \A e \in f : Follow(edges, e) \in f

\* There are no faces at the start.
LEMMA FacesInvInit == SliceInit => FacesInv
BY DEF SliceInit, DomainInit, FacesInv

\* A walk that came back to its start follows its edges.
LEMMA WalkFollows ==
  ASSUME NEW E, NEW w, NEW v, WalkState(E, w, v), w # <<>>, Follow(E, Last(w)) = w[1]
  PROVE  Elements(w) \in SUBSET E /\ \A e \in Elements(w) : Follow(E, e) \in Elements(w)
<1>1. w \in Seq(E) /\ Len(w) \in Nat /\ Len(w) > 0 /\ Last(w) = w[Len(w)]
  BY DEF WalkState, Last
<1>2. Elements(w) = {w[i] : i \in 1..Len(w)} /\ \A i \in 1..Len(w) : w[i] \in E
  BY <1>1 DEF Elements
<1>3. ASSUME NEW i \in 1..Len(w) PROVE Follow(E, w[i]) \in Elements(w)
  <2>1. CASE i = Len(w)
    BY <1>1, <1>2, <2>1
  <2>2. CASE i # Len(w)
    <3>1. i \in 1..(Len(w) - 1) /\ i + 1 \in 1..Len(w)
      BY <1>1, <2>2
    <3>2. Follow(E, w[i]) = w[i + 1]
      BY <3>1 DEF WalkState
    <3>3. QED
      BY <1>2, <3>1, <3>2
  <2>3. QED
    BY <2>1, <2>2
<1>4. QED
  BY <1>2, <1>3

\* The lines of the ground decide its pieces.
LEMMA PiecesKept ==
  ASSUME UNCHANGED soils
  PROVE  Raw' = Raw /\ \A s : Pieces(s)' = Pieces(s)
<1>1. Raw' = Raw
  BY DEF Raw
<1>2. \A s : SplitPoints(s)' = SplitPoints(s)
  BY <1>1 DEF SplitPoints
<1>3. \A s : Pieces(s)' = Pieces(s)
  BY <1>2 DEF Pieces
<1>4. QED
  BY <1>1, <1>3

\* Every step leaves the faces as FacesInv has them.
LEMMA FacesInvNext == WalkInv /\ FacesInv /\ [SliceNext]_slicingVars => FacesInv'
<1> SUFFICES ASSUME WalkInv, FacesInv, [SliceNext]_slicingVars PROVE FacesInv'
  OBVIOUS
<1> DEFINE Cut(E) == \A e \in E : \E s \in Raw : e \in Pieces(s)
           Round(E, F) == \A f \in F : f \in SUBSET E /\ \A e \in f : Follow(E, e) \in f
<1>1. /\ soils \in SoilInputs /\ (building = "arrangement" => faces = {})
      /\ faces # {} => Clear(edges) /\ Cut(edges)
      /\ building = "faces" => Cut(edges)
      /\ Round(edges, faces)
  BY DEF FacesInv
<1>2. UNCHANGED soils =>
        (FacesInv' <=> /\ soils' \in SoilInputs /\ (building' = "arrangement" => faces' = {})
                       /\ faces' # {} => Clear(edges') /\ Cut(edges')
                       /\ building' = "faces" => Cut(edges')
                       /\ Round(edges', faces'))
  <2>1. SUFFICES ASSUME UNCHANGED soils
                 PROVE  FacesInv' <=>
                           /\ soils' \in SoilInputs /\ (building' = "arrangement" => faces' = {})
                           /\ faces' # {} => Clear(edges') /\ Cut(edges')
                           /\ building' = "faces" => Cut(edges')
                           /\ Round(edges', faces')
    OBVIOUS
  <2>2. Raw' = Raw /\ \A s : Pieces(s)' = Pieces(s)
    BY <2>1, PiecesKept
  <2>3. QED
    BY <2>2 DEF FacesInv
<1> HIDE DEF Cut, Round
<1>3. CASE UNCHANGED domainVars
  BY <1>1, <1>2, <1>3 DEF domainVars
<1>4. CASE SplitSegments
  <2>1. UNCHANGED soils /\ faces = {} /\ faces' = {} /\ building' # "arrangement"
    BY <1>1, <1>4 DEF SplitSegments
  <2>2. building' = "faces" => Cut(edges')
    <3>1. SUFFICES ASSUME building' = "faces" PROVE Cut(edges')
      OBVIOUS
    <3>2. edges' = UNION {Pieces(s) : s \in Raw}
      BY <1>4, <3>1 DEF SplitSegments
    <3>3. QED
      BY <3>2 DEF Cut
  <2>3. Round(edges', {})
    BY DEF Round
  <2>4. QED
    BY <1>1, <1>2, <2>1, <2>2, <2>3
<1>5. CASE CloseFace
  <2>1. building = "faces" /\ walk # <<>> /\ WalkState(edges, walk, visited) /\ Clear(edges)
        /\ Follow(edges, Last(walk)) = walk[1] /\ Cut(edges)
    BY <1>1, <1>5, NextEdgeIs DEF CloseFace, Closed, WalkInv
  <2>2. /\ Elements(walk) \in SUBSET edges
        /\ \A e \in Elements(walk) : Follow(edges, e) \in Elements(walk)
    BY <2>1, WalkFollows
  <2>3. /\ UNCHANGED <<soils, building, edges>>
        /\ faces' \in SUBSET (faces \cup {Elements(walk)})
    BY <1>5 DEF CloseFace
  <2>4. Round(edges, faces')
    BY <1>1, <2>2, <2>3 DEF Round
  <2>5. QED
    BY <1>1, <1>2, <2>1, <2>3, <2>4
<1>6. CASE StartFace \/ FollowEdge \/ FacesWalked \/ ApplySeed \/ SeedsApplied
  <2>1. /\ UNCHANGED <<soils, edges, faces>>
        /\ building' # "arrangement"
        /\ building' = "faces" => building = "faces"
    BY <1>6 DEF StartFace, FollowEdge, FacesWalked, ApplySeed, SeedsApplied
  <2>2. QED
    BY <1>1, <1>2, <2>1
<1>7. BuildStep \/ UNCHANGED domainVars
  BY DEF SliceNext, BuildDomain, TakeJob, ResolveEdges, MeasureColumn, ColumnsMeasured, CutSlice,
         FinishSlices, slicingVars
<1>8. QED
  BY <1>3, <1>4, <1>5, <1>6, <1>7 DEF BuildStep

\* Between two neighbouring levels of a column, each face is above and below, and no side of
\* it is touched.
LEMMA GapInFace ==
  ASSUME FacesInv, NEW x \in Int, ~OnUpright(x),
         NEW bottom \in Int, NEW top \in Int, bottom <= top, ~OutlineCuts(x, bottom, top),
         NEW g \in Gaps(CutLevels(x, bottom, top)), NEW f \in faces,
         NEW low \in Int, NEW high \in Int, 2 * g[1] < low, low < 2 * g[2],
         2 * g[1] < high, high < 2 * g[2]
  PROVE  /\ ~OnAny(<<2 * x, low>>, Fine(f, 2))
         /\ OddHits(<<2 * x, low>>, Fine(f, 2)) <=> OddHits(<<2 * x, high>>, Fine(f, 2))
<1>1. /\ soils \in SoilInputs /\ Clear(edges) /\ f \in SUBSET edges
      /\ \A e \in edges : \E s \in Raw : e \in Pieces(s)
      /\ \A e \in f : Follow(edges, e) \in f
  BY DEF FacesInv
<1>2. ASSUME NEW u \in Int, NEW v \in Int, u <= v, 2 * g[1] < u, v < 2 * g[2]
      PROVE  /\ ~OnAny(<<2 * x, u>>, Fine(f, 2)) /\ ~OnAny(<<2 * x, v>>, Fine(f, 2))
             /\ OddHits(<<2 * x, u>>, Fine(f, 2)) <=> OddHits(<<2 * x, v>>, Fine(f, 2))
  <2>1. 2 * x \in Int
    OBVIOUS
  <2>2. ASSUME NEW e \in f PROVE Drawn(e) \in Sides /\ Misses(Drawn(e), 2 * x, u, v)
    <3>1. PICK s \in Raw : e \in Pieces(s)
      BY <1>1
    <3>2. s \in Sides
      BY <1>1, RawSides
    <3>3. e \in Sides /\ On(e[1], s) /\ On(e[2], s)
      BY <1>1, <3>1, PieceFacts DEF Sides
    <3>4. Misses(Drawn(s), 2 * x, u, v)
      BY <1>1, <1>2, GapUntouched
    <3>5. QED
      BY <2>1, <3>2, <3>3, <3>4, DrawnPieceMisses
  <2> DEFINE z == 2 * x
  <2>3. z \in Int /\ \A e \in f : Drawn(e) \in Sides /\ Misses(Drawn(e), z, u, v)
    BY <2>1, <2>2
  <2> HIDE DEF z
  <2>4. /\ ~OnAny(<<z, u>>, Fine(f, 2)) /\ ~OnAny(<<z, v>>, Fine(f, 2))
        /\ OddHits(<<z, u>>, Fine(f, 2)) <=> OddHits(<<z, v>>, Fine(f, 2))
    BY <1>1, <1>2, <2>3, FaceAlong
  <2>5. QED
    BY <2>4 DEF z
<1>3. CASE low <= high
  BY <1>2, <1>3
<1>4. CASE high <= low
  BY <1>2, <1>4
<1>5. QED
  BY <1>3, <1>4

\* The point is strictly inside a face whose material is m.
InMaterial(m, p) ==
  \E F \in {Fine(f, 2) : f \in {f \in faces : owner[f] = m}} : StrictlyIn(p, F)

\* material_for_point: in the middle of an interval between neighbouring levels it answers
\* what every unit of the interval has.
InGap(q, p) ==
  \E x, bottom, top \in Int :
    /\ bottom <= top /\ ~OnUpright(x) /\ ~OutlineCuts(x, bottom, top)
    /\ \E g \in Gaps(CutLevels(x, bottom, top)), y \in Int :
          /\ g[1] \in Int /\ g[2] \in Int /\ g[1] <= y /\ y < g[2]
          /\ q = <<2 * x, g[1] + g[2]>> /\ p = <<2 * x, 2 * y + 1>>

LEMMA MaterialInGap ==
  ASSUME FacesInv, ~Uniform, NEW q, NEW p, InGap(q, p),
         NEW c, c \in MaterialsAt(q, 2), c # GeometryError, NEW m
  PROVE  InMaterial(m, p) <=> c = m
<1> PICK x \in Int, bottom \in Int, top \in Int :
        /\ bottom <= top /\ ~OnUpright(x) /\ ~OutlineCuts(x, bottom, top)
        /\ \E g \in Gaps(CutLevels(x, bottom, top)), y \in Int :
              /\ g[1] \in Int /\ g[2] \in Int /\ g[1] <= y /\ y < g[2]
              /\ q = <<2 * x, g[1] + g[2]>> /\ p = <<2 * x, 2 * y + 1>>
  BY DEF InGap
<1>0. PICK g \in Gaps(CutLevels(x, bottom, top)), y \in Int :
        /\ g[1] \in Int /\ g[2] \in Int /\ g[1] <= y /\ y < g[2]
        /\ q = <<2 * x, g[1] + g[2]>> /\ p = <<2 * x, 2 * y + 1>>
  OBVIOUS
<1> DEFINE mid == <<2 * x, g[1] + g[2]>>
           unit == <<2 * x, 2 * y + 1>>
           strict == {owner[f] : f \in {f \in faces : StrictlyIn(mid, Fine(f, 2))}}
           loose == {owner[f] : f \in {f \in faces : InPolygon(mid, Fine(f, 2))}}
<1>1. ASSUME NEW f \in faces
      PROVE  /\ StrictlyIn(mid, Fine(f, 2)) <=> StrictlyIn(unit, Fine(f, 2))
             /\ StrictlyIn(mid, Fine(f, 2)) <=> InPolygon(mid, Fine(f, 2))
  <2> DEFINE u == g[1] + g[2]
             v == 2 * y + 1
  <2>1. u \in Int /\ v \in Int /\ 2 * g[1] < u /\ u < 2 * g[2] /\ 2 * g[1] < v /\ v < 2 * g[2]
    BY <1>0
  <2> HIDE DEF u, v
  <2>2. /\ ~OnAny(<<2 * x, u>>, Fine(f, 2)) /\ ~OnAny(<<2 * x, v>>, Fine(f, 2))
        /\ OddHits(<<2 * x, u>>, Fine(f, 2)) <=> OddHits(<<2 * x, v>>, Fine(f, 2))
    BY <1>0, <2>1, GapInFace
  <2>3. mid = <<2 * x, u>> /\ unit = <<2 * x, v>>
    BY DEF u, v
  <2>4. QED
    BY <2>2, <2>3 DEF StrictlyIn, InPolygon
<1>2. strict = loose
  <2> HIDE DEF mid
  <2>1. QED
    BY <1>1
<1>3. IsFiniteSet(strict)
  <2>1. IsFiniteSet(faces)
    <3>1. CASE faces = {}
      BY <3>1, FS_EmptySet
    <3>2. CASE faces # {}
      <4>1. IsFiniteSet(edges) /\ faces \in SUBSET (SUBSET edges)
        BY <3>2 DEF FacesInv, Clear
      <4>2. IsFiniteSet(SUBSET edges)
        BY <4>1, FS_SUBSET
      <4>3. QED
        BY <4>1, <4>2, FS_Subset
    <3>3. QED
      BY <3>1, <3>2
  <2> DEFINE here == {f \in faces : StrictlyIn(mid, Fine(f, 2))}
             own == [f \in here |-> owner[f]]
  <2>2. IsFiniteSet(here) /\ DOMAIN own = here /\ strict = {own[f] : f \in here}
    BY <2>1, FS_Subset
  <2> HIDE DEF here, own, strict
  <2>3. QED
    BY <2>2, ImageFinite
<1>4. MaterialsAt(mid, 2) =
        IF ~InPolygon(mid, Fine(Ground, 2)) THEN {GeometryError}
        ELSE IF Uniform THEN soils.materials
        ELSE IF strict # {} THEN IF Cardinality(strict) = 1 THEN strict ELSE {GeometryError}
        ELSE IF loose = {} THEN {GeometryError}
        ELSE IF Cardinality(loose) = 1 THEN loose ELSE loose \cup {GeometryError}
  BY DEF MaterialsAt
<1>5. /\ \A z : z \in strict <=> \E f \in faces : StrictlyIn(mid, Fine(f, 2)) /\ owner[f] = z
      /\ InMaterial(m, unit) <=> \E f \in faces : owner[f] = m /\ StrictlyIn(unit, Fine(f, 2))
  BY DEF InMaterial
<1>6. c \in MaterialsAt(mid, 2)
  BY <1>0
<1> HIDE DEF mid, unit, strict, loose
<1>7. c \in strict /\ Cardinality(strict) = 1
  BY <1>2, <1>4, <1>6
<1>8. strict = {c}
  <2>1. PICK d : strict = {d}
    BY <1>3, <1>7, FS_Singleton
  <2>2. QED
    BY <1>7, <2>1
<1>9. InMaterial(m, unit) <=> m \in strict
  BY <1>1, <1>5
<1>10. InMaterial(m, unit) <=> c = m
  BY <1>8, <1>9
<1>11. QED
  BY <1>0, <1>10 DEF unit

\* Each unit of a column lies between two neighbouring levels, and no others.
LEMMA UnitInGap ==
  ASSUME NEW bottom \in Int, NEW top \in Int,
         NEW P \in SUBSET (bottom..top), bottom \in P, top \in P,
         NEW y \in bottom..(top - 1)
  PROVE  /\ \E g \in Gaps(P) : g[1] <= y /\ y < g[2]
         /\ \A g, h \in Gaps(P) : g[1] <= y /\ y < g[2] /\ h[1] <= y /\ y < h[2] => g = h
<1>1. /\ IsFiniteSet(P) /\ P \in SUBSET Int
      /\ \A z \in P : z \in Int
  <2>1. IsFiniteSet(bottom..top)
    BY FS_Interval
  <2>2. IsFiniteSet(P)
    BY <2>1, FS_Subset
  <2>3. QED
    BY <2>2
<1> DEFINE below == {z \in P : z <= y}
           above == {z \in P : z > y}
<1>2. PICK a \in P : a <= y /\ \A z \in P : z <= y => z <= a
  <2>1. below \in SUBSET P /\ bottom \in below /\ \A z : z \in below <=> z \in P /\ z <= y
    BY <1>1
  <2> HIDE DEF below
  <2>2. IsFiniteSet(below) /\ below \in SUBSET Int /\ below # {}
    BY <1>1, <2>1, FS_Subset
  <2>3. Max(below) \in below /\ \A z \in below : z <= Max(below)
    BY <2>2, Extremes
  <2>4. QED
    BY <2>1, <2>3
<1>3. PICK b \in P : b > y /\ \A z \in P : z > y => b <= z
  <2>1. above \in SUBSET P /\ top \in above /\ \A z : z \in above <=> z \in P /\ z > y
    BY <1>1
  <2> HIDE DEF above
  <2>2. IsFiniteSet(above) /\ above \in SUBSET Int /\ above # {}
    BY <1>1, <2>1, FS_Subset
  <2>3. Min(above) \in above /\ \A z \in above : Min(above) <= z
    BY <2>2, Extremes
  <2>4. QED
    BY <2>1, <2>3
<1>4. <<a, b>> \in Gaps(P)
  <2>1. \A z \in P : ~(a < z /\ z < b)
    BY <1>1, <1>2, <1>3
  <2>2. a < b
    BY <1>1, <1>2, <1>3
  <2>3. QED
    BY <2>1, <2>2 DEF Gaps
<1>5. \A g \in Gaps(P) : /\ g = <<g[1], g[2]>> /\ g[1] \in P /\ g[2] \in P
                         /\ \A z \in P : ~(g[1] < z /\ z < g[2])
  BY DEF Gaps
<1>6. ASSUME NEW g \in Gaps(P), NEW h \in Gaps(P), g[1] <= y, y < g[2], h[1] <= y, y < h[2]
      PROVE  g = h
  <2>1. g[1] = h[1]
    BY <1>1, <1>5, <1>6
  <2>2. g[2] = h[2]
    BY <1>1, <1>5, <1>6
  <2>3. QED
    BY <1>5, <2>1, <2>2
<1>7. \E g \in Gaps(P) : g[1] <= y /\ y < g[2]
  <2>1. <<a, b>>[1] = a /\ <<a, b>>[2] = b
    OBVIOUS
  <2>2. QED
    BY <1>2, <1>3, <1>4, <2>1
<1>8. QED
  BY <1>6, <1>7

\* Each unit of U lies in the interval gap[y] of G, each interval is filled with units, and
\* f is its length.
Measured(U, G, gap, f) ==
  /\ IsFiniteSet(U) /\ IsFiniteSet(G)
  /\ \A y \in U : gap[y] \in G
  /\ \A g \in G : f[g] = Cardinality({y \in U : gap[y] = g})

Having(S, c, m) == {g \in S : c[g] = m}
HavingBy(S, gap, c, m) == {y \in S : c[gap[y]] = m}

\* As many units have a material as the intervals of that material are long together.
LEMMA UnitsCounted ==
  ASSUME NEW U, NEW G, NEW gap, NEW f, Measured(U, G, gap, f), NEW c, NEW m
  PROVE  SumOf(f, Having(G, c, m)) = Cardinality(HavingBy(U, gap, c, m))
<1> DEFINE T == {g \in G : c[g] = m}
           S == {y \in U : c[gap[y]] = m}
           one == [y \in U |-> 1]
<1>1. IsFiniteSet(S) /\ IsFiniteSet(T) /\ \A y \in S : one[y] = 1 /\ one[y] \in Int
  BY FS_Subset DEF Measured
<1>2. ASSUME NEW g \in T PROVE f[g] = SumOf(one, {y \in S : gap[y] = g})
  <2> DEFINE A == {y \in S : gap[y] = g}
  <2>1. A = {y \in U : gap[y] = g}
    OBVIOUS
  <2>2. f[g] = Cardinality(A)
    BY <2>1 DEF Measured
  <2>3. IsFiniteSet(A) /\ \A y \in A : one[y] = 1
    BY <1>1, FS_Subset
  <2> HIDE DEF A, one
  <2>4. SumOf(one, A) = 1 * Cardinality(A) /\ Cardinality(A) \in Nat
    BY <2>3, SumConstant, FS_CardinalityType
  <2>5. SumOf(one, A) = Cardinality(A)
    BY <2>4
  <2>6. QED
    BY <2>2, <2>5 DEF A
<1>3. {y \in S : gap[y] \in T} = S
  BY DEF Measured
<1> HIDE DEF S, T, one
<1>4. SumsByClass(S, one, T, gap, f)
  BY <1>2 DEF SumsByClass
<1>5. SumOf(f, T) = SumOf(one, {y \in S : gap[y] \in T})
  BY <1>1, <1>4, SumByClass
<1>6. SumOf(one, S) = 1 * Cardinality(S) /\ Cardinality(S) \in Nat
  BY <1>1, SumConstant, FS_CardinalityType
<1>7. SumOf(f, T) = Cardinality(S)
  BY <1>3, <1>5, <1>6
<1>8. QED
  BY <1>7 DEF S, T, Having, HavingBy

\* The units of the column at x that are in material m.
Units(m, x, bottom, top) ==
  {y \in bottom..(top - 1) : InMaterial(m, <<2 * x, 2 * y + 1>>)}

\* vertical_material_lengths, of a ground of several materials, away from upright boundaries
\* and the outline: a column whose materials are all known has of each as many units as there
\* are in the ground.
LEMMA ColumnCounted ==
  ASSUME FacesInv, ~Uniform, NEW x \in Int, ~OnUpright(x),
         NEW bottom \in Int, NEW top \in Int, bottom <= top, ~OutlineCuts(x, bottom, top),
         NEW lengths \in MaterialLengths(x, bottom, top), ~(lengths[GeometryError] > 0),
         NEW m \in soils.materials
  PROVE  lengths[m] = Cardinality(Units(m, x, bottom, top))
<1>1. soils \in SoilInputs /\ GeometryError \notin soils.materials
  BY SoilInputsAssumption DEF FacesInv
<1>2. PICK G, f : Split(x, bottom, top, lengths, G, f)
  BY <1>1, ColumnSplit
<1>3. PICK M : M = soils.materials
  OBVIOUS
<1>4. /\ G = ColumnGaps(x, bottom, top)
      /\ IsFiniteSet(G) /\ \A g \in G : f[g] \in Nat \ {0} /\ f[g] = g[2] - g[1]
  BY <1>2 DEF Split, GapsFillUp
<1>5. PICK c \in [G -> M] :
         /\ \A g \in G : c[g] \in MaterialsAt(<<2 * x, g[1] + g[2]>>, 2)
         /\ \A k \in M : lengths[k] = SumOf(f, {g \in G : c[g] = k})
  BY <1>2, <1>3 DEF Split, MaterialsIn
<1> DEFINE U == bottom..(top - 1)
           P == CutLevels(x, bottom, top)
           gap == [y \in U |-> CHOOSE g \in G : g[1] <= y /\ y < g[2]]
<1>6. /\ P \in SUBSET (bottom..top) /\ bottom \in P /\ top \in P
  BY <1>1, LevelsWithin
<1>7. U # {} => G = Gaps(P)
  BY <1>4 DEF ColumnGaps
<1>8. \A g \in G : g \in Gaps(P) /\ g[1] \in bottom..top /\ g[2] \in bottom..top /\ g[1] < g[2]
  <2>1. \A g \in G : g \in Gaps(P)
    BY <1>4 DEF ColumnGaps
  <2>2. \A g \in Gaps(P) : g[1] \in P /\ g[2] \in P /\ g[1] < g[2]
    BY DEF Gaps
  <2> HIDE DEF P
  <2>3. QED
    BY <1>6, <2>1, <2>2
<1> HIDE DEF P
<1>9. ASSUME NEW y \in U
      PROVE  /\ gap[y] \in G /\ gap[y][1] <= y /\ y < gap[y][2]
             /\ \A g \in G : g[1] <= y /\ y < g[2] => gap[y] = g
  <2>1. /\ \E g \in G : g[1] <= y /\ y < g[2]
        /\ \A g, h \in G : g[1] <= y /\ y < g[2] /\ h[1] <= y /\ y < h[2] => g = h
    BY <1>6, <1>7, UnitInGap
  <2>2. gap[y] = CHOOSE g \in G : g[1] <= y /\ y < g[2]
    OBVIOUS
  <2> HIDE DEF gap
  <2>3. gap[y] \in G /\ gap[y][1] <= y /\ y < gap[y][2]
    BY <2>1, <2>2
  <2>4. QED
    BY <2>1, <2>3
<1> HIDE DEF gap
<1>10. Measured(U, G, gap, f)
  <2>1. IsFiniteSet(U)
    BY FS_Interval
  <2>2. ASSUME NEW g \in G PROVE f[g] = Cardinality({y \in U : gap[y] = g})
    <3> DEFINE a == g[1]
               b == g[2] - 1
    <3>1. a \in Int /\ b \in Int /\ a <= b /\ bottom <= a /\ b < top
      BY <1>8
    <3>2. {y \in U : gap[y] = g} = a..b
      <4>1. ASSUME NEW y \in U, gap[y] = g PROVE y \in a..b
        BY <1>8, <1>9, <4>1
      <4>2. ASSUME NEW y \in a..b PROVE y \in U /\ gap[y] = g
        <5>1. y \in U /\ g[1] <= y /\ y < g[2]
          BY <1>8, <3>1
        <5>2. QED
          BY <1>9, <5>1
      <4> HIDE DEF a, b, U
      <4>3. QED
        BY <4>1, <4>2
    <3> HIDE DEF a, b
    <3>3. Cardinality(a..b) = b - a + 1
      BY <3>1, FS_Interval
    <3>4. b - a + 1 = f[g]
      BY <1>4, <1>8 DEF a, b
    <3>5. QED
      BY <3>2, <3>3, <3>4
  <2>3. QED
    BY <1>4, <1>9, <2>1, <2>2 DEF Measured
<1>11. ASSUME NEW y \in U PROVE InMaterial(m, <<2 * x, 2 * y + 1>>) <=> c[gap[y]] = m
  <2> DEFINE g == gap[y]
  <2>1. /\ g \in Gaps(CutLevels(x, bottom, top)) /\ g \in G
        /\ g[1] \in Int /\ g[2] \in Int /\ g[1] <= y /\ y < g[2]
    BY <1>8, <1>9 DEF P
  <2>2. c[g] \in MaterialsAt(<<2 * x, g[1] + g[2]>>, 2) /\ c[g] # GeometryError
    BY <1>1, <1>3, <1>5, <2>1
  <2> HIDE DEF g
  <2>3. y \in Int
    OBVIOUS
  <2>4. PICK k \in MaterialsAt(<<2 * x, g[1] + g[2]>>, 2) : k = c[g]
    BY <2>2
  <2>5. k # GeometryError
    BY <2>2, <2>4
  <2>6. InMaterial(m, <<2 * x, 2 * y + 1>>) <=> k = m
    <3>1. PICK q, p : q = <<2 * x, g[1] + g[2]>> /\ p = <<2 * x, 2 * y + 1>>
      OBVIOUS
    <3>2. k \in MaterialsAt(q, 2)
      BY <3>1
    <3>3. InMaterial(m, p) <=> k = m
      <4>1. InGap(q, p)
        BY <2>1, <2>3, <3>1 DEF InGap
      <4>2. QED
        BY <2>5, <3>2, <4>1, MaterialInGap
    <3>4. QED
      BY <3>1, <3>3
  <2>7. QED
    BY <2>4, <2>6 DEF g
<1> HIDE DEF U
<1>12. {y \in U : InMaterial(m, <<2 * x, 2 * y + 1>>)} = {y \in U : c[gap[y]] = m}
  BY <1>11
<1>13. SumOf(f, {g \in G : c[g] = m}) = Cardinality({y \in U : c[gap[y]] = m})
  <2>1. SumOf(f, Having(G, c, m)) = Cardinality(HavingBy(U, gap, c, m))
    BY <1>10, UnitsCounted
  <2>2. QED
    BY <2>1 DEF Having, HavingBy
<1>14. lengths[m] = Cardinality({y \in U : c[gap[y]] = m})
  BY <1>3, <1>5, <1>13
<1>15. QED
  BY <1>12, <1>14 DEF U, Units

\* Of each material there is as much in the column at x as in the ground, unless a boundary
\* or the outline runs through it otherwise than across.
Counted(lengths, x) ==
  (~OnUpright(x) /\ ~OutlineCuts(x, job.arc[x], GroundLevel(x))) =>
    \A m \in soils.materials :
      lengths[m] = Cardinality(Units(m, x, job.arc[x], GroundLevel(x)))

\* ColumnsTrue says so of the last column.
LEMMA TrueIsCounted ==
  ColumnsTrue <=> ((cutting = "columns" /\ columns # <<>> /\ ~Uniform) =>
                      Counted(Last(columns), xNodes[Len(columns)]))
BY DEF ColumnsTrue, Counted, Units, InMaterial

\* The ground and the slide decide what there is.
LEMMA CountedKept ==
  ASSUME UNCHANGED <<soils, faces, owner, job>>
  PROVE  /\ Uniform' <=> Uniform
         /\ \A k, x : Counted(k, x)' <=> Counted(k, x)
<1>1. /\ BoundarySegments' = BoundarySegments /\ Ground' = Ground
      /\ soils' = soils /\ faces' = faces /\ owner' = owner /\ job' = job
  BY DEF BoundarySegments, Ground
<1>2. Uniform' <=> Uniform
  BY <1>1 DEF Uniform
<1>3. \A x : OnUpright(x)' <=> OnUpright(x)
  BY <1>1 DEF OnUpright
<1>4. \A x, bottom, top : OutlineCuts(x, bottom, top)' <=> OutlineCuts(x, bottom, top)
  BY <1>1 DEF OutlineCuts
<1>5. \A m, p : InMaterial(m, p)' <=> InMaterial(m, p)
  BY <1>1 DEF InMaterial
<1>6. \A m, x, bottom, top : Units(m, x, bottom, top)' = Units(m, x, bottom, top)
  BY <1>5 DEF Units
<1>7. ASSUME NEW k, NEW x PROVE Counted(k, x)' <=> Counted(k, x)
  <2>1. GroundLevel(x)' = GroundLevel(x)
    BY DEF GroundLevel
  <2>2. QED
    BY <1>1, <1>3, <1>4, <1>6, <2>1 DEF Counted
<1>8. QED
  BY <1>2, <1>7

\* A column of a ground of several materials that was measured has what there is.
LEMMA ColumnTrue ==
  ASSUME FacesInv, ColumnsInv, job \in Jobs, MeasureColumn, ~UNCHANGED columns, ~Uniform
  PROVE  Counted(Last(columns'), xNodes[Len(columns')])
<1> DEFINE c == Len(columns)
           x == xNodes[c + 1]
<1>1. PICK lengths \in ColumnLengths(x) :
         ~(lengths[GeometryError] > 0) /\ columns' = Append(columns, lengths)
  BY DEF MeasureColumn
<1>2. c < Len(xNodes) /\ \E N : NodesOver(N)
  BY DEF MeasureColumn, ColumnsInv
<1>3. PICK N : NodesOver(N)
  BY <1>2
<1>4. PICK S : columns \in Seq(S)
  BY DEF ColumnsInv
<1>5. columns \in Seq(S \cup {lengths}) /\ lengths \in S \cup {lengths}
  BY <1>4, WiderSequence
<1>6. Len(columns') = c + 1 /\ c \in Nat /\ columns'[c + 1] = lengths
  BY <1>1, <1>5
<1>7. Last(columns') = lengths
  BY <1>6 DEF Last
<1>8. Len(xNodes) \in Nat /\ c + 1 \in 1..Len(xNodes)
  BY <1>2, <1>3, <1>6, NodeFacts
<1>9. x \in Int /\ job.arc[x] \in Int /\ job.arc[x] <= GroundLevel(x)
  BY <1>3, <1>8, NodeFacts
<1> HIDE DEF x
<1>10. PICK bottom, top : bottom = job.arc[x] /\ top = GroundLevel(x)
  OBVIOUS
<1>11. bottom \in Int /\ top \in Int /\ bottom <= top
  BY <1>9, <1>10, GroundIsNumber
<1>12. lengths \in MaterialLengths(x, bottom, top)
  BY <1>1, <1>10 DEF ColumnLengths
<1>13. ASSUME ~OnUpright(x), ~OutlineCuts(x, bottom, top), NEW m \in soils.materials
       PROVE  lengths[m] = Cardinality(Units(m, x, bottom, top))
  BY <1>1, <1>9, <1>11, <1>12, <1>13, ColumnCounted
<1>14. Counted(lengths, x)
  BY <1>10, <1>13 DEF Counted
<1>15. QED
  BY <1>6, <1>7, <1>14 DEF x

\* So each step leaves ColumnsTrue.
LEMMA ColumnsTrueNext ==
  ColumnsTrue /\ FacesInv /\ EdgesInv /\ ColumnsInv /\ [SliceNext]_slicingVars => ColumnsTrue'
<1> SUFFICES ASSUME ColumnsTrue, FacesInv, EdgesInv, ColumnsInv, [SliceNext]_slicingVars
             PROVE  ColumnsTrue'
  OBVIOUS
<1> DEFINE Due == cutting = "columns" /\ columns # <<>> /\ ~Uniform
<1>1. Due => Counted(Last(columns), xNodes[Len(columns)])
  BY TrueIsCounted
<1>2. ASSUME cutting' # "columns" \/ columns' = <<>> PROVE ColumnsTrue'
  BY <1>2 DEF ColumnsTrue
<1>3. ASSUME UNCHANGED <<domainVars, job, xNodes>>,
             (cutting' = "columns" /\ columns' # <<>> /\ ~Uniform) =>
                Counted(Last(columns'), xNodes[Len(columns')])
      PROVE  ColumnsTrue'
  <2>1. UNCHANGED <<soils, faces, owner, job>> /\ xNodes' = xNodes
    BY <1>3 DEF domainVars
  <2>2. (Uniform' <=> Uniform) /\ \A k, x : Counted(k, x)' <=> Counted(k, x)
    BY <2>1, CountedKept
  <2>3. PICK last, x : last = Last(columns') /\ x = xNodes[Len(columns')]
    OBVIOUS
  <2>4. ColumnsTrue' <=> ((cutting' = "columns" /\ columns' # <<>> /\ ~Uniform') =>
                             Counted(last, x)')
    BY <2>1, <2>3 DEF ColumnsTrue, Counted, Units, InMaterial
  <2>5. QED
    BY <1>3, <2>2, <2>3, <2>4
<1>4. CASE BuildDomain \/ TakeJob
  <2>1. cutting = "waiting" /\ columns' = columns
    BY <1>4 DEF BuildDomain, TakeJob, sliceVars
  <2>2. QED
    BY <1>2, <2>1 DEF ColumnsInv
<1>5. CASE ResolveEdges
  <2>1. cutting = "edges" /\ columns' = columns
    BY <1>5 DEF ResolveEdges
  <2>2. QED
    BY <1>2, <2>1 DEF ColumnsInv
<1>6. CASE MeasureColumn
  <2>1. /\ cutting = "columns" /\ UNCHANGED <<domainVars, job, xNodes>>
        /\ cutting' # "columns" \/ ~UNCHANGED columns
    <3>1. PICK S : columns \in Seq(S)
      BY DEF ColumnsInv
    <3>2. ASSUME NEW lengths, columns' = Append(columns, lengths) PROVE ~UNCHANGED columns
      <4>1. columns \in Seq(S \cup {lengths}) /\ lengths \in S \cup {lengths}
        BY <3>1, WiderSequence
      <4>2. Len(columns') = Len(columns) + 1 /\ Len(columns) \in Nat
        BY <3>2, <4>1
      <4>3. QED
        BY <4>2
    <3>3. QED
      BY <1>6, <3>2 DEF MeasureColumn
  <2>2. job \in Jobs
    BY <2>1 DEF EdgesInv
  <2>3. CASE ~UNCHANGED columns
    <3>1. ~Uniform => Counted(Last(columns'), xNodes[Len(columns')])
      BY <1>6, <2>2, <2>3, ColumnTrue
    <3>2. QED
      BY <1>3, <2>1, <3>1
  <2>4. CASE cutting' # "columns"
    BY <1>2, <2>4
  <2>5. QED
    BY <2>1, <2>3, <2>4
<1>7. CASE ColumnsMeasured \/ CutSlice \/ FinishSlices
  <2>1. cutting' # "columns"
    BY <1>7 DEF ColumnsMeasured, CutSlice, FinishSlices
  <2>2. QED
    BY <1>2, <2>1
<1>8. CASE UNCHANGED slicingVars
  <2>1. UNCHANGED <<domainVars, job, xNodes>> /\ cutting' = cutting /\ columns' = columns
    BY <1>8 DEF slicingVars, sliceVars
  <2>2. QED
    BY <1>1, <1>3, <2>1
<1>9. QED
  BY <1>4, <1>5, <1>6, <1>7, <1>8 DEF SliceNext

\* So FacesInv is in every state.
LEMMA FacesInvAlways == SliceSpec => []FacesInv
BY FacesInvInit, FacesInvNext, WalkInvAlways, PTL DEF SliceSpec

\* vertical_material_lengths, whatever boundaries the document draws: away from upright
\* boundaries and from the outline of the ground, the column measured last has of each
\* material as many units of height as there are in the ground.
THEOREM ColumnsAreTrue == SliceSpec => []ColumnsTrue
<1>1. SliceInit => ColumnsTrue
  BY DEF SliceInit, ColumnsTrue
<1>2. QED
  BY <1>1, ColumnsTrueNext, FacesInvAlways, ColumnsInvAlways, PTL DEF SliceSpec
=============================================================================
