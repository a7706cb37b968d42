--------------------------- MODULE SurfaceAnalysis ---------------------------
(***************************************************************************)
(* cli.py: _cmd_analyze() on a document with a prescribed surface: reading *)
(* it (ProjectInput), the context and the solution of the surface          *)
(* (surface_solver.py), the solver of its method (BishopSolver or          *)
(* SpencerSolver) and the result that is written.  No exception is caught  *)
(* on the way: each leaves a traceback and the exit code 1.                *)
(*                                                                         *)
(* A document with a search is followed here up to where the search begins *)
(* or refuses its limits; what run_analysis() does then is AnalysisRun.    *)
(***************************************************************************)
EXTENDS ProjectInput, BishopSolver, SpencerSolver

CONSTANTS
    Documents,      \* the JSON documents that may be given
    ForcedWorkers,  \* what --parallel-workers may be
    Misfits,        \* how far an endpoint may be from the ground or the circle
    MisfitTol       \* 2e-3 on the same scale

ASSUME AnalysisAssumption ==
    /\ ForcedWorkers \subseteq Int
    /\ Misfits \subseteq Nat /\ MisfitTol \in Nat

\* What a numeric field spells is a whole number of twentieths.
Spelled(d) == \A k \in DOMAIN d \ {"null", "searchLimits"} : d[k].value \in Int

ASSUME DocumentAssumption ==
    \A d \in Documents :
        /\ \A section \in {"geometry", "analysis"} \cap DOMAIN d : Spelled(d[section])
        /\ "search" \in DOMAIN d =>
              \A part \in (Methods \cup {"parallel"}) \cap DOMAIN d.search :
                  Spelled(d.search[part])

VARIABLES
    phase,      \* where _cmd_analyze() is
    document,   \* what the input file holds; << >> once it is read
    project,    \* {} or what was parsed
    misfit,     \* the misfits of the surface's endpoints
    written,    \* what the result file or stdout holds, {} or one answer
    exitCode    \* 0, or 1 after a traceback

analyzeVars == <<phase, document, project, misfit, written, exitCode>>
vars == <<analyzeVars, solverVars, bishopVars, spencerVars>>

Init ==
    /\ phase = "load" /\ document \in Documents /\ project = {} /\ misfit = << >> /\ written = {} /\ exitCode = 0
    /\ solving = "idle" /\ task = NoTask /\ answer = {}
    /\ BishopInit /\ SpencerInit

Traceback ==
    /\ phase' = "ended"
    /\ exitCode' = 1

\* load_project_input(), and the option it is run with.
Load ==
    /\ phase = "load"
    /\ project' = Parse(document) /\ document' = << >>
    /\ \E w \in ForcedWorkers :
          IF project' = {} \/ w < 0 THEN Traceback
          ELSE phase' = "context" /\ UNCHANGED exitCode
    /\ UNCHANGED <<misfit, written, solverVars, bishopVars, spencerVars>>

Prescribed == \E p \in project : p.surface # {}

\* build_worker_context(): SoilDomain may refuse the ground.  A search goes on
\* elsewhere.
BuildContext ==
    /\ phase = "context"
    /\ \/ Traceback
       \/ phase' = (IF Prescribed THEN "align" ELSE "search") /\ UNCHANGED exitCode
    /\ UNCHANGED <<document, project, misfit, written, solverVars, bishopVars, spencerVars>>

\* X_SEP_MIN, 0.05, is one twentieth.  The parser only asks for xMin < xMax.
Narrow(f) == f.method # "auto_refine_circular" /\ f.limits.xMax - f.limits.xMin <= 1

\* Each global search looks at its limits before anything else.
StartSearch ==
    /\ phase = "search"
    /\ IF \E p \in project : \E f \in p.search : Narrow(f)
       THEN Traceback ELSE phase' = "searching" /\ UNCHANGED exitCode
    /\ UNCHANGED <<document, project, misfit, written, solverVars, bishopVars, spencerVars>>

Ends == {"left", "right"}

\* Fault: the left endpoint is looked at twice.
AlignedLeft(m) == m["left"].ground <= MisfitTol /\ m["left"].base <= MisfitTol

\* An endpoint outside the circle's span has no level of its base, and raises too.
Aligned(m) == \A e \in Ends : m[e].ground <= MisfitTol /\ m[e].base <= MisfitTol

\* _validate_prescribed_surface_alignment().
AlignEndpoints ==
    /\ phase = "align"
    /\ \E m \in [Ends -> [ground : Misfits, base : Misfits]] :
          /\ misfit' = m
          /\ IF Aligned(m) THEN phase' = "slices" /\ UNCHANGED exitCode ELSE Traceback
    /\ UNCHANGED <<document, project, written, solverVars, bishopVars, spencerVars>>

\* Horizontal forces come from an earthquake or from ponded water.
PullsSideways(p) ==
    \E q \in p.loads :
        \/ \E s \in q.seismic : s.kh > 0
        \/ \E w \in q.groundwater : w.model = "water_surfaces"

\* generate_vertical_slices() may refuse the surface (SliceGeneration); its slices
\* are what the solver sees of it.
GenerateSlices ==
    /\ phase = "slices"
    /\ \/ Traceback /\ UNCHANGED <<task, solving>>
       \/ \E p \in project, horizontal, driving \in BOOLEAN :
             /\ horizontal => PullsSideways(p)
             /\ task' = [method |-> p.analysis.method, fInit |-> p.analysis.fInit,
                         tolerance |-> p.analysis.tolerance,
                         maxIter |-> p.analysis.maxIter \div One,
                         horizontal |-> horizontal, driving |-> driving]
             /\ solving' = "called" /\ phase' = "solving"
             /\ UNCHANGED exitCode
    /\ UNCHANGED <<document, project, misfit, written, answer, bishopVars, spencerVars>>

\* _build_solver() takes the solver of the method.
Bishop == phase = "solving" /\ BishopNext /\ UNCHANGED <<analyzeVars, spencerVars>>
Spencer == phase = "solving" /\ SpencerNext /\ UNCHANGED <<analyzeVars, bishopVars>>

\* The result file, which may fail to open, or stdout, which may be closed: then
\* the result is dropped and the exit code is 0 nevertheless.
Finish ==
    /\ phase = "solving" /\ solving = "returned"
    /\ IF answer = {}
       THEN Traceback /\ UNCHANGED written
       ELSE \/ written' = answer /\ phase' = "ended" /\ UNCHANGED exitCode
            \/ /\ \E toFile \in BOOLEAN :
                     IF toFile THEN Traceback ELSE phase' = "ended" /\ UNCHANGED exitCode
               /\ UNCHANGED written
    /\ UNCHANGED <<document, project, misfit, solverVars, bishopVars, spencerVars>>

Next ==
    \/ Load \/ BuildContext \/ StartSearch \/ AlignEndpoints \/ GenerateSlices
    \/ Bishop \/ Spencer \/ Finish

Spec == Init /\ [][Next]_vars

-----------------------------------------------------------------------------
(* What the later stages take for granted of the fields of a project, each *)
(* with the place that would refuse it, assert it or fail on it.           *)

\* soil_domain.py:682; slice_generator.py:690, 692; profile.py's slope.
GroundComplete(p) ==
    /\ p.geometry.h > 0 /\ p.geometry.l > 0 /\ p.analysis.nSlices >= One
    /\ \A i \in 1..Len(p.soils.assignments) :
          \E k \in 1..Len(p.soils.materials) :
              p.soils.materials[k].id = p.soils.assignments[i].materialId
    /\ \A c \in p.surface : c.xLeft < c.xRight

\* slice_generator.py:66-71, 448-453, 100-116, 523-538, 558-561, 608.
LoadsComplete(p) ==
    \A q \in p.loads :
        /\ \A s \in q.surcharge :
              s.placement # "crest_infinite" => {"xStart", "xEnd"} \subseteq DOMAIN s
        /\ \A s \in q.seismic : s.model = "none" \/ (s.model = "pseudo_static" /\ s.kv = 0)
        /\ \A w \in q.groundwater :
              CASE w.model = "none" -> TRUE
                [] w.model = "water_surfaces" ->
                      /\ Len(w.surface) >= 2
                      /\ \A i \in 1..(Len(w.surface) - 1) : w.surface[i][1] < w.surface[i + 1][1]
                      /\ w.hu.mode \in {"custom", "auto"}
                      /\ w.hu.mode = "custom" =>
                            w.hu.value # <<>> /\ 0 <= w.hu.value[1] /\ w.hu.value[1] <= One
                [] w.model = "ru_coefficient" -> 0 <= w.ru /\ w.ru <= One

\* What DirectSearch, CuckooSearch, CmaesSearch and AutoRefine assume of their
\* configurations; bishop.py:54 and the history[-1] of bishop.py:205.
SettingsComplete(p) ==
    /\ p.analysis.fInit > 0 /\ p.analysis.maxIter >= One
    /\ \A f \in p.search :
          /\ f.limits.xMin < f.limits.xMax
          /\ f.parallel.workers >= 0 /\ f.parallel.minBatchSize >= One
          /\ CASE f.method = "auto_refine_circular" ->
                     f.config.divisions >= 2 * One /\ f.config.keepPct <= 100 * One
               [] f.method = "direct_global_circular" ->
                     f.config.maxEvaluations >= One /\ f.config.stallIterations >= One
               [] f.method = "cuckoo_global_circular" ->
                     /\ f.config.populationSize >= 2 * One /\ f.config.discoveryRate < One
                     /\ 0 < f.config.alphaMin /\ f.config.alphaMin < f.config.alphaMax
               [] f.method = "cmaes_global_circular" ->
                     /\ f.config.prescanEvaluations < f.config.maxEvaluations
                     /\ 0 < f.config.nonconvergedPenalty
                     /\ f.config.nonconvergedPenalty < f.config.invalidPenalty

-----------------------------------------------------------------------------
(* Properties.                                                             *)

\* In a document that json_io.py accepts every load, setting and budget is complete and in
\* range, and every assignment names a material that is there; what a search begins with
\* has limits it can work between.  What fields mean together is left to the later stages,
\* which may still refuse it: a ground whose lines overlap or whose seeds lie outside
\* (BuildContext), a water surface that is too short or a surface out of the slope
\* (GenerateSlices), endpoints off the ground (AlignEndpoints), and limits that are
\* apart, but by no more than X_SEP_MIN (StartSearch).
ParsedIsComplete ==
    \A p \in project :
        /\ GroundComplete(p) /\ LoadsComplete(p) /\ SettingsComplete(p)
        /\ phase = "searching" => p.search # {} /\ \A f \in p.search : ~Narrow(f)

\* What the command writes is the answer to the surface it was given: both ends of
\* the surface lie on the ground and on the circle (surface_solver.py), both
\* residuals of the answer are within the tolerance of the document, and m_alpha is
\* at least 0.2 in every slice; an error on the way leaves nothing written.
AnswerIsEarned ==
    \A a \in written :
        /\ exitCode = 0 /\ Prescribed
        /\ \A e \in Ends : misfit[e].ground <= MisfitTol /\ misfit[e].base <= MisfitTol
        /\ \A p \in project :
              a.force <= p.analysis.tolerance /\ a.moment <= p.analysis.tolerance
        /\ ~a.low
=============================================================================
