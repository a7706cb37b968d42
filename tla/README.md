# SlopeStab in TLA+

SlopeStab computes the factor of safety (FOS) of a slope by limit equilibrium
and searches for the slip surface with the lowest one. Little of what is hard
about it is in the formulas. It is in what surrounds them: a document with many
optional sections that later stages take for complete, an arrangement of soil
boundaries walked face by face, slices dealt out to intervals, iterations whose
last look is one iterate late, a memoising objective with an evaluation budget,
batches in a process pool, fallbacks to serial execution, four search
strategies that stop for one of several reasons, and a gate that kills and
retries its children. This directory models that in TLA+, model-checks it with
TLC on small instances and proves the central parts with TLAPS for every
instance.

Paths below are relative to the repository root; the Python package is
`src/slope_stab`.

- [The system](#the-system)
- [How the modules fit together](#how-the-modules-fit-together)
- [The modules](#the-modules)
- [Runs](#runs)
- [Fairness](#fairness)
- [Proofs](#proofs)
- [Where the code and its documents disagree](#where-the-code-and-its-documents-disagree)
- [What is not modelled](#what-is-not-modelled)
- [Plan](#plan)

## The system

| Component | Code | State it keeps | Operations |
|---|---|---|---|
| Memoising objective evaluator | `search/objective_evaluator.py`, `search/common.py` | cache by normalized key, `total_evaluations`, `valid_evaluations`, `infeasible_evaluations`, best surface, result and score | `evaluate_vector`, `evaluate_vectors_batch`, `remaining_budget` |
| Process pool surface executor | `search/parallel_executor.py`, `search/surface_solver.py` | a `ProcessPoolExecutor`, futures of the call | enter, `evaluate_surfaces`, `close` |
| Parallel policy | `search/auto_parallel_policy.py`, `execution/worker_policy.py` | none | resolve workers, mode and backend |
| Run orchestration | `analysis.py` | the decision, the executor, the search result | `run_analysis` |
| Suite runners | `verification/runner.py`, `testing/unittest_runner.py`, `cli.py` | outcomes, the pool, the exit code | `cli verify`, `cli test` |
| DIRECT search | `search/direct_global.py`, `search/direct_partition.py` | rectangles, ids, incumbent rectangle, diagnostics | `run_direct_global_search` |
| Cuckoo search | `search/cuckoo_global.py` | nests, history, reason | `run_cuckoo_global_search` |
| CMA-ES hybrid search | `search/cmaes_global.py` | prescan rectangles, strategy, stall counter, polish counters | `run_cmaes_global_search` |
| Auto-refine search | `search/auto_refine.py` | retained path, sums per division, winner, refinement counters | `run_auto_refine_search` |
| Surface solver | `lem_core/bishop.py`, `lem_core/spencer.py`, `search/surface_solver.py` | iterates; the best state of the starts | solve one surface, accept or raise |
| Soil domain | `materials/soil_domain.py` | faces and their materials | build; base material, column materials |
| Slice generation | `slicing/slice_generator.py` | edges, columns, slices | `generate_vertical_slices` |
| JSON input | `io/json_io.py` | none | `load_project_input` |
| Guarded gate | `scripts/benchmarks/run_guarded_gate.py` | attempts, timeouts, output files, manifests, `latest.json` | preflight, stages with a retry |
| Verification cases; benchmark and diagnostic scripts | `verification/cases.py`, `scripts/` | tables | sequential measurements |

How they interact. `run_analysis` asks the policy for a decision, opens a
surface executor when the decision is parallel, and gives the search strategy a
batch evaluator (or none). The strategy asks its `CachedObjectiveEvaluator` for
scores; the evaluator looks in its cache, cuts the request at the budget, and
solves the rest in this process or through the executor, which submits one task
per surface and collects the results in the order of the surfaces. DIRECT,
cuckoo and CMA-ES use the evaluator; auto-refine and the refinement passes
after every strategy solve batches of surfaces without a cache. A solve aligns
the ends of the surface with the ground, cuts the slide into slices, asking the
soil domain for the material of every base and column, and hands the slices to
Bishop's or Spencer's method. The two suite
runners use the same policy and the same kind of pool for whole cases, and
rerun everything serially when the pool cannot start. The gate runs the two
suite commands as child processes and believes their output file and exit code.

What makes it hard, and what correctness means there:

- *Budget and cache.* A batch may hold duplicates, cached keys, keys without a
  surface and more keys than the budget allows, and may raise halfway. Every
  key is scored at most once, with the score of that very key; every score is
  paid for once; a key is refused only once the budget is gone; a batch leaves
  what the serial calls would have left.
- *Near ties.* `is_better_score` compares up to `TIE_TOL` and then by surface
  key, so the incumbent depends on the order of evaluation. How far may it
  drift?
- *Processes.* Workers finish in any order, fail, time out and die; processes
  start lazily inside `submit`. Results must come back in order, which failure
  the caller sees must not depend on timing, and nothing may be left running.
- *Fallback.* A pool that cannot start is replaced by serial execution after it
  may have run part of the work: no result of the failed attempt may survive,
  no case may run twice at once, and the report must name what really ran.
- *Exit codes.* Success only if everything ran and passed.
- *Searches.* The budget cuts batches anywhere; refused answers must not be
  taken for scores; the best point must survive divisions, replacements and
  abandonments; several reasons to stop may hold together; the loops must end.
- *Geometry.* Boundaries cross, dangle, stand upright and nest; every face must
  be walked once and owned by one material, and what a slice is told about its
  base and its columns must be true of the ground there.
- *Slices.* The abscissas where the surface meets water and boundaries must
  become edges, each interval must get its slices, and loads that end inside a
  slice must be carried once.
- *Answers.* A factor of safety counts only if the equations were satisfied
  where it was taken, and a fallback only if there was nothing better.
- *Input.* Every field that a later stage uses must have been completed and brought
  into range by the parser; what fields mean together, the stages themselves refuse.
- *The gate.* Both attempts of a stage write the same file, the first may be
  killed in the middle, a child may hang, two gates may share an output root.
- *Refinement.* Kept divisions are cut out of a path with gaps and bends and
  merged again; three passes hand on a winner under different acceptance rules.

`PROJECT.json` lists every such place with its line under `hazards`, and the
properties that watch it.

## How the modules fit together

```
SurfaceCandidates              a solver outcome and the candidate made of it
 |- ObjectiveEvaluator         the evaluator, step by step      => BudgetedMemo
 |   `- EvaluatorCalls         whole calls, against serial ones and SearchObjective
 |       `- ObjectiveEvaluatorProofs
 |- BatchService               (abstract) a batch evaluator
 `- SurfacePool                the executor, over ProcessPool   => BatchService
     `- SurfacePoolProofs      + ProcessPoolProofs
ProcessPool                    concurrent.futures, external
 `- ProcessPoolProofs          lemmas about its steps, whoever submits
ParallelPolicy                 decisions
AnalysisRun                    = ObjectiveEvaluator + SurfacePool + ParallelPolicy
 `- AnalysisRunProofs          from ObjectiveEvaluatorProofs and SurfacePoolProofs
CaseRunner                     = ProcessPool + ParallelPolicy
 `- CaseRunnerProofs           + ProcessPoolProofs
SearchObjective                the evaluator, one call at a time (Ask)
PostRefinement                 the passes after a search
 |- BudgetedSearch             = SearchObjective + PostRefinement
 |   |- DirectSearch           + DirectPartition
 |   |- CuckooSearch
 |   `- CmaesSearch            + DirectPartition
 `- AutoRefine
     `- SearchProofs           about all four searches
PlanarGeometry                 exact geometry on small integers
 `- SoilDomain                 the arrangement, its faces and their materials
     `- SliceGeneration        + SliceEdges
         `- SurfaceProofs
LemSolver                      what a solver is called with and returns
 |- BishopSolver
 `- SpencerSolver
SurfaceAnalysis                = ProjectInput + BishopSolver + SpencerSolver
 `- SurfaceProofs             also about SliceGeneration
GuardedGate                    several gates over one output root
 `- GuardedGateProofs
```

`=>` is a refinement, checked by TLC and, its safety part, proved. Two bridges keep the composition honest:

- `AnalysisRun` instantiates the evaluator and the pool on *shared* variables.
  The evaluator's batch step happens when the pool returns, with the list the
  pool returned, so nothing about order or partial failure is assumed.
  `ImplementsEvaluator` says that the whole is still an evaluator.
- The searches do not carry the evaluator's loop; they use the one-step `Ask`
  of `SearchObjective`. The action property `CallIsOneAsk` says that each
  completed call of `ObjectiveEvaluator`, of one vector or of a batch, is one
  `Ask`; it is checked by the `evaluator` run, and proved of the evaluator
  (`CallsAreAsks`) and of whole runs (`RunCallsAreAsks`).

Every `MC*` module gives the constants their values and, where a run needs it,
a history variable; it models no code. `CaseRunner` needs no such module:
`CaseRunner.cfg` gives its constants their values.

## The modules

### SurfaceCandidates

A solver outcome is a result (converged or not, moments usable or not, FOS), an
exception the candidate evaluation catches, or one it does not.
`CandidateFromResult` and `CandidateOf` are
`candidate_from_result` and its caller `evaluate_surface_candidate`, in
`search/common.py`.

### ObjectiveEvaluator

| Variable | Code |
|---|---|
| `cache` | `_cache`: per key the reason and the score, or `NotCached` |
| `total`, `valid`, `infeasible` | the three counters |
| `best` | best vector and score; its surface follows from the vector |
| `request`, `scanned`, `first`, `cut`, `results`, `merged`, `phase` | the locals of `evaluate_vectors_batch` and where it is |
| `returned` | what the last call returned |
| `solver` | what the solver does with each surface; fixed |

`EvaluateVector` is the whole of `evaluate_vector` (cached, refused, fresh or
raising). A batch is `StartBatch`, one `ScanVector` per vector (cached keys and
duplicates are skipped), `CutBudget`, then `EvaluateInProcess` per key or one
`BatchReturns`/`BatchRaises`, `MergeResult` per result, `FinishBatch` which
caches the overflow as refused and builds the answer in the order of the
request. `EvaluateVector` counts a vector before it evaluates it and a batch when it
merges an answer, so that a call that raises leaves the counter one ahead of the
cache in the first case and as it was in the second (`Ahead`).
Scores carry a tie tolerance so that near ties are near ties here; all
other modules take scores whose unit exceeds `TIE_TOL`.

Vectors are rounded to keys by `Normalize`, and each key has a surface or none.
The score of an outcome that is not valid follows the configuration: an
explicit penalty or the strategy's default.

### BudgetedMemo

What a strategy may rely on: `Evaluate(p)` pays one unit and records the truth,
`Refuse(S)` only when the budget is spent, `Close` when an evaluation raises.

### ProcessPool, SurfacePool, BatchService

`ProcessPool` is `concurrent.futures.ProcessPoolExecutor` as far as
`parallel_executor.py` and the two runners use it: worker processes start
lazily at `Submit`, which may fail for want of a process; a worker takes a task
and finishes it; a worker that dies fails every task not done and breaks the
pool; `shutdown` cancels what is pending and, if told so, waits. Tasks already
handed to the call queue cannot be cancelled (`CallQueueSize`, `MayKeep`).

`SurfacePool` is `ParallelSurfaceExecutor`: `OpenExecutor`, `BeginCall`,
`SubmitTask` per surface, `CollectResult` in order, the three ways a call
raises (`SubmitRaises`, `CollectFailure`, `CollectTimesOut`), `ReturnAnswer`,
`Close`. `BatchService` is its abstract specification: a call is answered with
the candidates of exactly the surfaces given, in their order, or the service
fails; a service that is left comes to rest.

### ParallelPolicy

The decision of `run_analysis`, the worker policy and the classes of workload:
pure operators over the configuration. The class thresholds are the constants
of the code.

### AnalysisRun

`run_analysis` for a search: `StartSerial`, `StartExecutor` or `ExecutorFails`
according to the decision, `SearchCalls` (any calls a strategy may make),
`CallProceeds`, `PoolWorks`, `BatchAnswered`, `BatchRaised`, `SearchRaises`,
`SearchEnds`, `LeaveExecutor`, `Report`. `stage` is the program counter,
`decision` what is reported, `error` what leaves the function.

### CaseRunner

`cli verify` and `cli test`, whose structure is the same: resolve, submit every
target, collect in order, leave the pool (waiting for the rest), on a pool
failure run all targets again serially, and exit. `behaviour` says what each
target does (passes, fails, raises a `RuntimeError`, raises something else);
`suite` selects the differences, such as which exceptions count as a failure
and which exit code they give. A reader that closes standard output is
`stdoutClosed`.

### SearchObjective, BudgetedSearch

`Ask(request, scores, refused)`: the first mentions of new points, cut at the
budget, get their scores; the rest of the new points get the answer `refused`.
Requests are functions from integers to points, which serves sequences and
id-indexed batches alike. `BudgetedSearch` is what the three searches with a
budget share: this objective, the passes and a reason to stop.

The definitions a search has for itself bear its name (`DirectInit`,
`CuckooInit`, `CmaesInit`, `AutoInit`, and so on), so that one module can be
about all four.

### DirectPartition, DirectSearch

Lengths are exact integers: the box has side `6 * 3^GridDepth`, a seed
rectangle half side `3^GridDepth`, and a side divided `level` times half side
`3^(GridDepth - level)`. `Children` is `split_rectangle` for all the selected,
with the ids the code gives; `SelectPotentiallyOptimal` takes the best
rectangle per size, then for each slope `K` the lowest bound, and the
incumbent. `DirectSearch` has `SeedBox`, `StopBeforeDividing` and `Iterate`, a
whole iteration with the four tests that may end the loop, then
`StartRefinement` and `RefineDirectWinner`, the passes of `PostRefinement`.

### CuckooSearch

`SeedNest`/`FillNest`/`Seeded`, then in each iteration `TryNest` per nest,
`TrialsEnd`, `AbandonWorst` or `KeepWorst`, `CloseIteration`; at the end
`StartPolish` and, with `post_polish`, `RefineCuckooWinner`. A Levy step and a
random vector may be any point. Points are numbered in the order of
`surface_key`, so comparing numbers is comparing keys.

### PostRefinement, AutoRefine

`PostRefinement` is what follows
a search: passes that sweep batches of surfaces, a running best inside a pass
and the winner handed on; the local polish keeps what it was given unless it
found a lower FOS. Which passes run, and in which order, is each search's own
(`DirectPasses`, `CuckooPasses`, `CmaesPasses`, `AutoPasses`).

`AutoRefine` begins with the retained path, the ground between the search
limits as a set of segments cut where the ground bends: arc-length lookup
(`PointAt`), extraction of an interval, the merge of adjacent segments. The
search is one `EvaluatePair` per pair of divisions, `RetainDivisions` at the end of an iteration (averages, ranking, next path,
diagnostics) and `RefineAutoWinner`.

### CmaesSearch

`SeedPrescan`, `DividePrescan`, `PrescanEnds`; `BeginRestart`, `Generation`
(with the stall counter and the sigma test), `CmaesStops`, `RestartsEnd`;
`PolishSkipped`, `StartSimplex`, `SimplexCall`, `SimplexEnds`;
`RefineCmaesWinner`.
The strategy (library `cma`) and the simplex method (library `scipy`) propose
any point; whether sigma fell below its limit is any Boolean.

### PlanarGeometry, SoilDomain

`PlanarGeometry` has the predicates of `soil_domain.py` on integer points:
segments, crossings, point in polygon, the order of directions, areas and
centroids. On these points the code's tolerances, which are far below a grid
step, never decide, so comparisons are exact.

`SoilDomain` is `build_soil_domain`. `RawSegments` are the segments of a length of
the ring and the boundaries, by their line and place; the ground's grid is
fine enough for every crossing of two to be on it (`GridAssumption`), and the finer
grid of the queries for the level of a boundary at every abscissa
(`LevelsAssumption`).
`SplitSegments` refuses what the first checks refuse and cuts the segments at
their crossings into directed `edges`; `StartFace`, `FollowEdge` and `CloseFace` walk the faces, one
edge a step, turning clockwise at every node (`NextEdge`), with the limit
`MaxSteps` the traversal gives itself; `FacesWalked` ends it; `ApplySeed` gives
the face around a seed its material, with its five refusals; `SeedsApplied`
requires every face to have one. The queries (`MaterialsAt`, `MaterialLengths`,
`ChordMaterials`) return the set of answers rounding may lead to: on a boundary
the code looks a tolerance to four sides and finds either neighbour or both.

### SliceEdges, SliceGeneration

`SliceEdges` has the pure part of the edges: `MergeClose`, `CutPoints`, the
`Allocation` of slices to intervals by their shares (`ShareOf`, `FloorOf`) and the rank of
what is left of them (`RestOf`, `Ahead`), and the edges that result. `SliceGeneration` builds the domain, takes a job (a slide, loads, a
number of slices), then `ResolveEdges`, `MeasureColumn` per node,
`ColumnsMeasured`, `CutSlice` per slice and `FinishSlices`. A slice record has its
base material, the area of each material, surcharge, pond, seismic force and
pore pressure, for unit weights of one. Where base and water meet is looked for in one
straight piece of the water at a time (`PieceRoots`): the ends of the piece's part over
the slide if they meet there, and at most one point between them, which a change of sign
brackets, or else a bounded minimisation of the distance may stop at. A piece that the
base crosses there and back has no change of sign, and so gets either of the two
crossings or none; a corner of the water that lies on the base is found from both of its
pieces (`RawRoots`). The slip surface is a table of levels
instead of an arc of a circle, so every abscissa is exact.

### LemSolver, BishopSolver, SpencerSolver

What a solver sees of its slices is its task: tolerance, iteration limit,
whether there are horizontal forces, whether the driving moment is positive.
What the equations evaluate to at a factor of safety is chosen freely from
small sets, but once chosen at a value it stays (`seen`), since the code
evaluates deterministic functions. Hence a property holds for every
force and moment equation there could be.

`BishopSolver` is the fixed-point iteration: `StartBishop`, `Iterate` (which
raises at an m_alpha near zero and at a value that is not finite), `GiveUp`,
`AcceptBishop` with the fresh m_alpha at the value that is returned.
`SpencerSolver` is the choice: `TryStart` per start of the two-dimensional root
finder with the best state kept so far, `EndStarts`, the fallback at lambda = 0
(`ProbeNext`, `NoBracket`, `ResolveBracket`) and `AcceptSpencer`.

### ProjectInput, SurfaceAnalysis

`ProjectInput` is the parser: an operator for each section, which returns the
set of what it makes of it, one value or none. A JSON value is a kind (number,
text that spells a number, word, boolean, null, not finite), a word and a
number; conversions do what `float()`, `int()`, `str()` and the boolean check
do with each kind. Numbers are in twentieths.

`SurfaceAnalysis` is `cli analyze` on a document: `Load`, `BuildContext`,
`AlignEndpoints`, `GenerateSlices`, the solver, `Finish`. An exception anywhere
is a traceback and exit code 1; standard output may be closed. A document with a
search is followed up to where the search begins, which is `AnalysisRun`, or where a
global search refuses limits no more than 0.05 apart (`StartSearch`;
`direct_global.py:57`, `cuckoo_global.py:118`, `cmaes_global.py:513`; auto-refine takes
any).

### GuardedGate

`Gates` are processes that share an output root. `main()` is `Validate`,
`Preflight`, then for each stage `Launch`, the child's steps, `TimesOut` or the
child's end, once more after a timeout, `FinishStage`, and at last
`WriteManifest`, `WriteLatest`. A run directory is named by the second the gate
started in, and `output`, `manifest` and `latest` are the files. The child opens
its output file, which truncates it, writes its summary and exits, and it may
fail or be killed between any two of these steps. Whether it accepts its command
line is `CliRefuses`; workers and timeouts are those of the stage. The timeout of the retry is `NextTimeout`, with Python's
rounding to even.

## Runs

| Run | Question | Bounds |
|---|---|---|
| `evaluator` | Do the counters, the cache and the incumbent stay right over any sequence of serial and batch calls, also when one raises, and never pass the budget? Does the evaluator implement `BudgetedMemo`, does a batch leave what serial calls would, is each call one `Ask`? | 4 vectors on 3 keys (two share a key, one key has no surface), budget 2, requests of up to 3, FOS 10, 11 and 20 with tolerance 1 (the two valid keys may be a near tie, which drifts by one tolerance; longer chains are the theorem's), invalid, caught and raising outcomes, batches from 2 keys |
| `surface_pool` | Does the executor answer in order or fail, deterministically, and come to rest? | 2 workers, calls of up to 3 surfaces, timeouts, a worker dying at any moment, `submit` failing |
| `analysis_run` | Is the whole still an evaluator; is nothing left behind, no partial result reported, the backend, workers and reason reported those of what ran; does it end? | 3 keys, budget 2, requests of up to 2, 2 calls, 2 workers; DIRECT and CMA-ES workloads on both sides of a class boundary (8000/8001), 0, 1 and 8 workers asked for, each forced mode, an override of the workers that is refused |
| `case_runner` | Are outcomes in order, and is no worker still at a case when the cases run again; is the exit code honest; does the command end? | 2 workers, up to 3 targets of every behaviour, 0, 1 or 5 workers asked for, 1 or 2 CPUs, both suites |
| `direct` | What does an iteration cost, is the incumbent kept, are the rectangles well shaped, is the reason true, are invalid rectangles left alone, is the surface returned the best? | 2 dimensions (9 seeds), up to 3 iterations, budgets 5, 9, 14 and 16, slopes 0, 1 and 100, 2 passes of at most 1 batch |
| `cuckoo` | Is the elite kept, does no refused point become a nest, is the surface returned the best, does the search end? | 5 points, 2 or 3 nests, budgets 2 to 5, 2 iterations, with and without passes |
| `auto_refine` | Do samples stay on the retained ground, is the winner the best surface ever solved? | ground of length 432 with two bends, 2 to 4 divisions keeping 1 or 2, up to 3 iterations, 3 passes of up to 2 batches |
| `cmaes` | Are the optimizers driven by real answers only, is the winner the best of all stages? | 1 dimension, population 2, 3 iterations, 1 restart, budgets from 4 to 9 against prescans from 2 to 5, with and without polish and its 3 passes |
| `ground_slices` | Do the walks around faces close, has every point at most one material, are columns and bases told the truth, which edges are guaranteed, is every load carried once? | a slope of 24 by 12 units and a basin, 12 sets of boundaries with every choice of two materials for their seeds and wrong seeds, 2 slides, 2 to 4 slices, merging on and off, 8 sets of loads, among them water that the base crosses once, crosses there and back within one piece, and touches |
| `slice_weight` (violation) | Is the weight of a slice its area? | as `ground_slices` |
| `analyze` | Is every document the parser accepts complete and in range, and does a search begin only with limits it can work between; is every answer written earned, is Bishop's a fixed point, is the fallback a last resort? | documents that differ from a plain one of each kind in a field: missing, null, of another kind, at and beside its bounds; 3 factors of safety and 0, 3 residuals, 2 or 3 starts, 3 probes, 2 or 3 iterations |
| `guarded_gate` | Is every passed stage certified by its own last attempt, is exit code 0 earned, does every gate end? | 2 gates, in one second or in two, one of them with both stages, each with workers and a timeout of its own, the other with one; 6 kinds of command line |

Why the bounds are enough. A budget of 2 against three keys gives batches that
fit, that are cut and that are refused altogether; two vectors on one key give
duplicates; the number of calls is not bounded in the evaluator run, since the
cache makes the state space finite. Two workers and three tasks give a task
that runs, one queued in the call queue and one that can still be cancelled,
which is every state a future can be in when another fails; the situations resolve to
every decision the policy can make for them. Three targets let
a failure come first, in the middle and last. In DIRECT two dimensions are the
least with a choice of side to divide, and the budgets stop the search in the
seeds, on them exactly, in the middle of an iteration and at its end. Cuckoo
abandons one, two or all of its nests, with ties and invalid points. In auto-refine the divisions
straddle both bends, and 3 divisions keeping 2 give paths with a gap. The CMA-ES
budgets end the search in the prescan, between and inside generations, and in
the polish. The grounds have a boundary that crosses another, that dangles,
stands upright, closes on itself, passes through the toe, repeats another,
leaves the ground, or is missing; the slides pass through water, bench, fault
and lens, and the loads begin and end inside slices. In `analyze` a document
differs from a plain one in a single field of every section, which is where the
parser's checks are; three factors of safety are the least with an iteration
that returns, one that runs on and one that oscillates, and three starts let a
better state come first, between and last. Two gates suffice for files
that are shared, since a file has one reader, its own gate.

Actions counted as one step are those the code executes in one thread without
yielding to anything the model can see; where another process can act between
two statements (the executor, the runners), they are separate actions.

`CHECK_DEADLOCK FALSE` is set where the program ends: an analysis that
reported, a command that exited, a search that finished, slices that are cut.

## Fairness

- `AnalysisRun`, `SurfacePool`, `CaseRunner`: weak fairness of the main thread
  and of each worker's steps. The main thread is ordinary sequential code, and
  a worker that has a task solves it: the solvers' loops are bounded
  (`max_iterations`). Nothing is assumed of worker deaths, timeouts or failing
  submissions, which may or may not happen. A search may stop calling at any
  time; only the calls it makes are bounded (`MaxCalls`).
- `BatchService`: a call is answered or the service is left; a service that is
  left comes to rest. Both follow from the fairness of `SurfacePool`.
- `CuckooSearch`: weak fairness of `CuckooNext`, one thread whose solves end.
- `GuardedGate`: weak fairness of every gate's own steps, its timeout among
  them: `subprocess.run(timeout=...)` returns at the latest when the time is
  over. Nothing is assumed of a child, which may hang for ever. The probe of the pool
  before the first stage (`run_guarded_gate.py:73-74`) has no timeout: that `Preflight`
  ends is an assumption about the pool, which fails every task when a worker dies, and
  about two workers that square a number.
- `ObjectiveEvaluator`, `DirectSearch`, `AutoRefine`, `CmaesSearch`,
  `SliceGeneration` and `SurfaceAnalysis` are checked for safety and state no
  fairness.

## Proofs

All theorems hold for every value of the constants that satisfies the named
assumptions. Those are types and little more, and TLC evaluates each of them in
the runs whose module extends the one that states it; what else an assumption
says is justified below.

| Module | Theorem | States | Assumptions |
|---|---|---|---|
| `ObjectiveEvaluatorProofs` | `TypeCorrect` | `[]TypeOK` | `EvaluatorAssumption`, `NoneAssumption` |
| | `CountersExact` | `[]AccountingExact`: the counters are the numbers of evaluated, valid and infeasible cache entries, with one paid for ahead exactly when the evaluation of a single vector raised, and never pass `MaxEvaluations` | |
| | `IncumbentBounded` | `[]IncumbentSound`: there is an incumbent as soon as a valid key was evaluated, under its own score, at most one tolerance per further valid key above the lowest score found | |
| | `IncumbentLexicographic` | `[]IncumbentOptimal`: besides `IncumbentSound`, when valid scores are equal or differ by more than the tolerance, it is the least by score and then by surface key | |
| | `EvaluatorImplementsMemo` | the evaluator implements `BudgetedMemo` | |
| | `BatchEqualsSerial` | `BatchMatchesSerial`, an action property: a call leaves and returns what the evaluation of its vectors one by one would | |
| | `CallsAreAsks` | `CallIsOneAsk`, an action property: a whole call is one `Ask` of `SearchObjective` | |
| `SurfacePoolProofs` | `PoolTypeCorrect` | `[]PoolTypeOK` | `PoolAssumption`, `WorkersAssumption` |
| | `TasksMatched` | `[]OneWorkerPerTask` | |
| | `QuietPool` | `[]QuietBetweenCalls` | |
| | `FirstFailureRaised` | `[]FailureDeterministic` | |
| | `PoolImplementsService` | the safety part of `ImplementsBatchService` | |
| `CaseRunnerProofs` | `RunnerTypeCorrect` | `[]RunnerTypeOK` | `RunnerAssumption`, `WorkersAssumption` |
| | `OutcomesKeepOrder` | `[]OutcomesInOrder`: outcomes are those of the targets in their order, and targets run again only when no worker is at one | |
| | `RerunAlone` | `[]RerunDoesNotOverlap` | |
| | `ExitCodeTrue` | `[]ExitCodeHonest` | |
| `AnalysisRunProofs` | `RunTypeCorrect` | `[]RunTypeOK` | `AnalysisAssumption` |
| | `NothingIsLeft` | `[]NothingLeftBehind` | |
| | `ResultIsWhole` | `[]NoPartialResult` | |
| | `BackendReported` | `[]ReportNamesBackend`: parallel is reported exactly if the executor was started, with two workers or more and not more than the machine has, else one worker; the reason is one there is for that request and that backend | |
| | `RunImplementsEvaluator` | `ImplementsEvaluator`: a run, serial or parallel, is a run of `ObjectiveEvaluator` | |
| | `RunMatchesSerial` | `BatchMatchesSerial`, for the calls of a whole run | |
| | `RunCallsAreAsks` | `CallIsOneAsk`, for the calls of a whole run | |
| `SearchProofs`, DIRECT | `DirectTypeCorrect` | `[]DirectTypeOK` | `PartitionAssumption`, `TrisectionAssumption`, `DirectAssumption`, `PostRefinementAssumption` |
| | `DirectReasonTruthful` | `[]ReasonTruthful` | |
| | `DirectAspectBounded` | `[]AspectBounded` | |
| | `DirectIncumbentKept` | `[]IncumbentKept` | |
| | `DirectInvalidNeverDivided` | `InvalidNeverDivided`, an action property | |
| | `DirectIterationCost` | `[]IterationCost` | |
| cuckoo | `CuckooTypeCorrect` | `[]CuckooTypeOK` | `CuckooAssumption`, `PostRefinementAssumption` |
| | `CuckooNoRefusedNest` | `[]NoRefusedNest` | |
| | `CuckooEliteKept` | `[]EliteKept` | |
| CMA-ES | `CmaesTypeCorrect` | `[]CmaesTypeOK` | as DIRECT, with `CmaesAssumption` for `DirectAssumption` |
| | `CmaesWinnerIsBestFound` | `[]WinnerIsBestFound` | |
| | `CmaesOptimizersSeeRealAnswers` | `OptimizersSeeRealAnswers`, an action property | and `RefusalToldApart` |
| auto-refine | `AutoRefineSamplesSound` | `[]SamplesOnRetainedGround` | `GroundAssumption`, `AutoRefineAssumption`, `UnitAssumption`, `PowerAssumption`, `PostRefinementAssumption`, `CirclesNumbered` |
| | `AutoRefineWinnerIsBest` | `[]WinnerIsBest` | |
| `SurfaceProofs`, the command | `AcceptedIsComplete` | `[]ParsedIsComplete`: the fields of an accepted document are complete and in range, and a search begins only with limits more than 0.05 apart, or is auto-refine | `SolverAssumption`, `BishopAssumption`, `SpencerAssumption`, `AnalysisAssumption`, `DocumentAssumption` |
| | `FixedPoint` | `[]FixedPointIsTrue` | |
| | `AnswerEarned` | `[]AnswerIsEarned` | |
| | `BestStartKept` | `[]NoBetterStartLost` | |
| | `FallbackLast` | `[]FallbackIsLastResort` | |
| | `RootBracketed` | `[]BracketHoldsARoot` | |
| the ground | `FaceWalksClose` | `[]WalksClose` | `SoilInputsAssumption`, `GridAssumption` |
| | `FaceWalksNeverGiveUp` | `FollowEdge` never refuses: no walk reaches `MaxSteps` | |
| the slices | `EdgesAreSound` | `[]EdgesSound`: the edges span the slide, keep the roots found, and have one for every piece of water that the base crosses from side to side or touches; each interval gets its share of slices within one | `JobsAssumption` |
| | `LoadsAreCarried` | `[]WholeLoadCarried`: the slices carry together what lies on the slide, wherever a load begins or ends between edges, and the slide itself unless a column runs along an upright boundary | and `SlopeAssumption`, `StepsAssumption`, `SoilInputsAssumption` |
| | `HeavierOnlyAtUprights` | without a column along an upright boundary, each slice weighs what the soil over its base does (`WeightIsSelfWeight`) | as `LoadsAreCarried` |
| | `ColumnsAreTrue` | `[]ColumnsTrue`: a column has of each material what the ground has, away from upright boundaries and the outline | and `GridAssumption`, `LevelsAssumption` |
| `GuardedGateProofs` | `GateTypeCorrect` | `[]GateTypeOK` | `ConfigAssumption` |
| | `RetriesEarned` | `[]RetriesAreEarned`: a retry follows a timeout and has more time, whatever the rounding | |
| | `StagesRunnable` | `[]StagesAreRunnable`: what the gate accepts, the CLI accepts | |
| | `ExitHonest` | `[]GateExitHonest` | |
| | `VerdictFromLastAttempt` | `[]VerdictIsLastAttempts` | |
| | `LatestPublished` | `[]LatestIsPublished`: `latest.json` names a run with a manifest and tells its verdict | |

`ProcessPoolProofs` holds the lemmas that the executor and the runners share.

What the assumptions say besides types:

- The pool may start as many processes as the machine has
  (`AnalysisAssumption`): `Workers` is that bound.
- `DocumentAssumption` is the scale of the parser's model: a numeric field of a
  document spells a whole number of twentieths, or is of another kind.
- Scores are natural numbers up to the score of an invalid surface. That is
  `Infinity` for DIRECT and `Invalid` for cuckoo; both are above every factor of
  safety, as an infinite float is. For CMA-ES a score from `LeastPenalty` on is a
  penalty. `Invalid = Infinity` in `DirectAssumption` says that the passes and the
  global stage call the same surfaces invalid.
- Cuckoo's `RefusedAnswer` and the `RefusedPenalty` of CMA-ES tell a refused
  vector from one that was evaluated and has no surface. The code returns one
  score for both; they are kept apart in the models so that properties can speak
  of the difference. The first is above `Invalid`, so that every comparison of the
  search comes out alike for the two; `RefusalToldApart` says that the second
  is no score of the model.
- `TrisectionAssumption` is the law of powers `3^(n+1) = 3 * 3^n` over the depth of
  the grid, which the arithmetic of the prover does not have. The depth itself is
  arbitrary; `DirectConfigurationType` has no more iterations than levels, and
  `Divisible` of the CMA-ES prescan waits at the last one.
- `PowerAssumption` is the same law for the number of divisions, over the
  iterations. `UnitAssumption` is the scale of the retained path: its unit of length
  is so small that no division of any iteration is shorter than one unit
  (`divisions ^ iterations <= GroundLength`); the code's lengths are floats of a
  ground in metres, and any fixed ground and configuration has such a unit. That
  boundaries and midpoints are whole numbers of units, as in the run, the proof
  does not use: it holds when they are rounded down.
- `GridAssumption` is the scale of `SoilDomain`: the crossings of the ground's lines
  are points of its grid. The coordinates of a document are decimals, so that
  their crossings are fractions and any fixed document has such a grid.
  Without it a crossing would be rounded to a point beside its segment. The
  theorems say nothing of the tolerances, by which the code takes points closer
  than a ten millionth of the span for one.
- `LevelsAssumption` is the scale of the queries in the same way: at each abscissa of
  the fine grid the level of a line of the ground is a point of that grid. Any fixed
  document and slide have such a grid, for the levels are fractions too; without it
  the levels between which a column is cut would be rounded. `SoilInputsAssumption`
  says besides types that a ground has finitely many materials, none of which is the
  mark for an error.
- `JobsAssumption` describes a slide. Its grid has at least as many steps as it gets
  slices: the code's abscissas are floats, and any fixed number of slices has
  such a grid. The water is a polyline of two points or more whose abscissas
  increase, and the surcharge is on an interval or on the crest, as
  `json_io.py:235-245` and `183-196` let them through. `SlopeAssumption`: the crest is
  to the right of the toe.
- `CirclesNumbered`: the circle through two points of the ground is a numbered
  surface, with factors of safety like all others, or none.

A theorem about one search uses the assumptions of that search and of what it
extends; those of the other three, which `SearchProofs` extends as well, are
about constants of their own (their configurations may be the empty set).

The arguments, and why the properties need strengthening:

*Evaluator.* In the middle of a batch the counters lag behind what has been
scanned, cut and evaluated. `CallInv` ties the locals of a call to the cache:
`first` holds distinct keys, every key scanned is cached or among them, the
merged ones are cached and the others are not. `Inv2` adds that the budget
suffices for what is still to be merged and that every result is the solver's
for its own key; `CountInv` makes the counters cardinalities of sets of keys, up to the
one a vector that raises leaves ahead. `RequestInv`, that there is a request exactly
during a batch, tells this case from a batch that raises.
The lemma `StateStep` classifies every step by what it does (install one key,
refuse a set of keys that may be empty, raise), so that each theorem argues over
three cases; installing is `Evaluate` of the memo, refusing `Refuse`, raising
`Close`.

*Calls.* `BatchMatchesSerial` and `CallIsOneAsk` compare the two ends of a call, which
may be many steps apart: `atCall`, a history variable of `EvaluatorCalls`, keeps the
evaluator's state from its beginning. `Replays` is the serial evaluation of the
request as a sequence of states, which begins with `atCall` and makes one `SerialStep`
for each key. The `Place` of a position of the request is the number of new keys up to
it, new being those that were not cached when the call began and did not occur before.
`CallsInv` then says where the call has got to: the new keys scanned are those of
`first`, each at its place, and the present state is that of the replay at
every position whose place is the number of keys merged. Merging an answer is
the step of the replay at the next new key (`InstallIsSerialStep`), and any other key
leaves both sides alone (`SamePlace`). The keys beyond the budget are refused in one step by the
code and one by one by the replay, which finds the budget spent (`ReplayRefuses`).
`BatchMatchesSerial` is stated with a fold; that a fold over the request is its replay
(`FoldIsReplay`) needs no induction theorem, since a function defined by what it
does at each position differs from the replay at a least one or at none.
`SearchObjective` describes a call without steps, by the number of new points
before each; `AskOfPlaces` shows this number to be the place, so that the points within
the budget are those that were paid for. A call that raises returns nothing to compare.

*Pool.* Which failure a call raises depends on what has been collected before,
and that in turn on which futures are finished. `PoolShape` says that busy
workers and running tasks are matched and that a task fails only with a worker;
every step of the pool keeps it, and keeps finished futures finished (`Stands`).
`CallInv` adds where the call is and that what is collected are the candidates
of the first surfaces, none of which raises. The refinement maps a step of
the pool to a stutter of `BatchService`, and the return of a call to its answer.

*Runners.* `RunnerInv` adds to `PoolShape` at which stage the pool may be in
which state (nothing is in the pool when the command runs targets itself), that
the outcomes so far are those of the first targets, and that whatever was raised
has a cause: a lost pool or a target that raised. The exit code then follows
from the outcomes being complete when they are summarised.

*Whole run.* `RunInv` is the invariant of the evaluator (`Inv2`, `CountInv`) and
that of the pool (`CallInv`) on the variables they share, and what ties them:
`Served` says that while the pool is in a call its surfaces are those of the
keys the evaluator has cut, so that the list it returns is a list the
evaluator's `BatchReturns` accepts; `StageSound` says at which stage of
`run_analysis` the pool may be in which state; `Decided`, that the decision in
force names the backend in use. The steps of the two parts are not taken apart
again: their lemmas in `ObjectiveEvaluatorProofs` and `SurfacePoolProofs` are
applied to the instances. For the calls of a run, `RecordedSpec` adds the history
variable, which stands still while the pool or the run take steps of their own; a run so
recorded is one of `HistorySpec` (`RunIsHistory`).

*Searches.* The lemmas on `SearchObjective` say what a call does whatever is
asked: the spending grows by the number of points evaluated, never passes
`maxEvaluations`, and reaches it if a point is refused; the answers known stay;
and the first new point of a request is evaluated as long as there is budget
(`FirstPaid`). Those on `PostRefinement` say that a batch leaves the better of
the best so far and of its answers, and that every surface solved is beaten
(`SolvedBeaten`). Choices by `CHOOSE` are well defined on finite sets that are
totally ordered; least elements come from the well-foundedness of the natural
numbers (`LeastNatural`), which takes the place of an induction.

- *DIRECT.* `DirectInv` says that the live rectangles are a finite set on the grid
  with ids of their own, each with the answer of its centre (`LiveSound`); that
  no answer is below all of them (`Covered`); that the incumbent is the best of
  them; and that the last record is up to date. Sides differ by one trisection
  (`Shaped`) since a longest side is always divided. Invalid rectangles
  are not divided since their bound is infinite for every slope and the incumbent
  is valid. `IterationCost` needs geometry: children are not the thirds of their
  parent (they overlap), so disjointness is not inductive. `Tiled` gives each
  rectangle a *virtual* box around its centre, half as long as the rectangle,
  which its children do divide into thirds; centres are as far apart as these
  boxes (`Apart`), hence distinct, every point asked for is the centre of a
  live rectangle, and so each child's centre that is moved is new and is paid
  for. `CostInv` adds up.
- *Cuckoo.* `NestsSound` and `EliteSound`: as long as the budget lasts and not all nests
  are abandoned, a best point of all is a nest. A trial replaces a nest only by a
  better one. In an abandonment the nests kept are those of the lowest
  positions; `Position` is a count of the nests before one, so that the best nest is
  at position 0 requires that (rank, index) is a total order. No refused
  point becomes a nest since the loop takes only the first result of a batch
  that spends the budget, and that one is evaluated (`FirstPaid`).
- *CMA-ES.* `CmaesInv` carries the finite memo, the prescan's partition and, past it,
  a valid point; from the end of the polish on every valid point and every surface
  solved is beaten by the best so far. `RefusalsLate` says that a refusal only
  occurs as the budget ends, and that the calls left to the simplex method
  never exceed what remains of it.
- *Auto-refine.* `AutoInv`: before the passes the winner is the best of everything
  solved by FOS and key, and at least as good as the best of the iteration
  (`IterationsSound`); in the passes only that no FOS is lower (`FosBeaten`),
  because the local polish turns down an equal FOS with a smaller key.
- *Auto-refine, the path.* `PathInv`: the segments do not overlap and contain no
  bend, and the path is at least `divisions ^ n` units long when `n` iterations
  are left; without the second part a division could have no length and two
  midpoints could be one. The code adds lengths segment by segment; `TotalLength`
  and `Traversed` are folds over sets of segments, about which no induction theorem
  can be used here. So the proof counts: the *cells* of a path are the unit steps
  of the ground it covers, and that a fold over its segments is the cardinality of
  its cells (`TotalIsCells`, `TraversedIsStepsTo`) is shown by a smallest set of
  segments for which it is not. With cells, `PointAt` is between the ends of a
  segment and rises with the distance (`PointAtOnPath`, `PointAtRises`); a
  division's piece of the path covers as many cells as it is long
  (`ExtractCovers`); merging adjacent segments keeps the cells and the absence of
  overlaps (`MergeSound`, `MergeCovers`); and some division is always retained
  (`SomeRetained`), since among finitely many averages one is not above another.

*Parser.* `AcceptedIsComplete` has a lemma for each section of the document: what
`ProjectInput` returns for it has the properties later stages rely on,
whatever the document holds; that nothing else ever changes the project, and that
`StartSearch` lets no narrow limits of a global search through, is the rest of the proof.

*Solvers.* `FixedPointIsTrue` speaks of values met in the past; `BishopSound`
keeps the last step with the iterate it came from, and that what was once met at
a value stays (`seen`), so that a value visited twice cannot answer differently.
`SpencerChoice` carries that the best state kept is the least of the eligible
ones met. The command's part, `AnswerInv`, follows the tolerance from the
document through the project to the solver's task, which needs that `Parse`
yields at most one reading of the analysis section (`ReadOnce`).

*Ground.* That walks close is a property of the whole arrangement. `Clear` says
what it has to be: edges in both directions, and no two edges from one node in the
same direction. The second part is where the checks of the code come in
(`PiecesClear`): pieces of one segment that lead the same way would have a split point
inside (`SameSegment`), and segments that share more than a point were refused
as overlapping (`TwoSegments`). On directions as different as that,
`AngleBefore`, with its quarters and its sign of a cross product, is a strict total
order (`AngleOrder`), so that the neighbour clockwise-next to another exists and is
next to no third (`ClockwiseDiffers`), and `NextEdge` is an injection of the
edges into themselves (`FollowInjective`). `WalkInv` adds that the edges visited
are closed under being followed from, whence a walk can enter neither them nor
itself but at its start. A walk is no longer than there are edges, and
`MaxSteps` is above that.

*Slices, edges.* `EdgesInv` says that once they are there the edges are what
`ResolveEdges` made of the ground and of some choice of roots that the search of the
pieces allows, and no later step changes either, so that the work is about
`SliceEdgesAt`. A piece crossed from side to side or touched has a root in every such
choice (`PiecesFound`). Its operators are sums, means and ranks, about which no induction
theorem can be used here. `SumRemove`, that a sum over a finite set may be taken
in any order, is shown by a smallest set for which it may not, and the other laws of sums
follow from it in the same way. `Ahead` is a strict total order, so that a rank counts the
intervals before one, and taking back in turn takes all that is to be taken if
there is enough of it (`TakenInTurn`); together they give `AllocationSound`: the counts
are at least one, at most one above the share or one, and sum up to the number of slices.
`MergeCloseFacts` and `CutPointsFacts` say that merging keeps the ends and, with
no tolerance, every root. `EdgesBetween` counts the equal steps between two neighbouring points,
which are all different as the interval has as many grid steps as slices
(`SpacedFacts`), and `EdgesTogether` adds these counts over the intervals.

*Slices, loads.* What an interval carries is the growth of a function of the abscissa
from its left end to its right (`SurchargeGrows`, `PondGrows`), whatever part of it is
loaded or under water. So the loads of slices that adjoin each other
telescope (`LoadsTelescope`), and by `EdgesInv` the slices adjoin and span the slide.
`LoadInv` says that each slice cut so far carries what `SurchargeOn` and
`Pond` give for its own edges.

*Slices, weight.* A slice's weight is a sum over the materials of trapezoids between
columns, and has to be the trapezoids of the height. `ColumnsInv` carries that every
column measured so far that does not run along an upright boundary is *filled*: its
lengths by material sum to its height. That needs `GapsFill`, that the intervals
between neighbouring levels fill what is between the outermost, and
`SumByClass`, that a sum may be taken by class, here the material; both are
shown by a smallest set that is a counterexample. Levels of upright segments
are the only ones that may lie outside the column (`LevelsWithin`). Sums over columns and
over materials may be exchanged, and areas of slices that adjoin telescope.

*Slices, columns.* That a column is filled does not say that its materials are
right. `material_for_point` is asked in the middle of an interval only, and
`ColumnsTrue` speaks of all its units; the proof shows that
nothing changes within an interval. `FacesInv` says that each face consists of pieces of
the ground's lines and is closed under `Follow`, as the walk was that found it. A line that does
not touch the vertical between two points (`Misses`) is hit by the rays to the right
from both or from neither, unless just one of its ends lies beside the interval (`HitsChange`);
and these ends pair up, since each edge of a face that ends there is followed
by one that begins there (`SameNumberOf`, a bijection). So the parity of the hits, which is what
`StrictlyIn` looks at, is one and the same along the interval (`Parity`). No
line touches the interval inside: the boundaries are cut at their exact levels
(`GapUntouched`), and the outline is excluded by the property. Hence
each unit has the material of the middle of its interval (`MaterialInGap`), and
the units counted by interval are the lengths summed by material (`UnitsCounted`).

*Gate.* `TypeInv` already has what the attempts look like (`Earned`): that the
second timeout is larger is arithmetic about `NextTimeout`. `StagesSound` says
which stages are done when `main()` is where. `VerdictSound` is the induction
behind `VerdictIsLastAttempts`: from the child's last write to the verdict the
file is the one this child wrote, since only one child runs in a directory that
no other gate shares. `PublishSound` says who may have written each manifest.

Only model-checked:

- liveness and fairness everywhere (so also the fairness part of each
  refinement), which the prover cannot do;
- `OneMaterialPerPoint`: that two faces overlap nowhere is about all points of the
  plane, and needs the Jordan curve theorem for what the walks enclose; the
  proof of `ColumnsAreTrue` gets by with the parity of one face along a line that no
  face crosses;
- `BaseMaterialSound`: with a chord for a vertical the parity argument would have
  to be made for rays that are not perpendicular to it, in coordinates scaled by the
  slice's width and again by each piece of the chord.

The type invariants of `ObjectiveEvaluator`, `SurfacePool`, `AnalysisRun`,
`CaseRunner`, `GuardedGate` and of the three searches with a budget are proved;
`RefineTypeOK` of `AutoRefine` documents its state and is in no run.

## Where the code and its documents disagree

With a run whose counterexample shows it:

- **A slice on an upright boundary weighs too much** (`slice_weight`).
  `vertical_material_lengths` (`src/slope_stab/materials/soil_domain.py:530-535`)
  clamps each end of an upright boundary segment to one side of the column only.
  A segment that ends below the base or begins above the top adds a level
  outside the column, and the lengths sum to more than its height (10 instead
  of 8 in the trace), while `docs/surcharge-explainer.md:52` says that the weight
  is "soil self-weight only".

Met while modelling, without a run:

- *Near ties drift.* `is_better_score` (`search/common.py:86`) lets a slightly
  worse score with a smaller key win, so a chain of near ties moves the
  incumbent away from the best score found;
  `docs/cmaes-global-explainer.md:60` promises the best surface found across all
  stages. `IncumbentBounded` states by how much it may drift.
- *A process startup failure is not always caught.* The pool starts its
  processes at `submit` (`search/parallel_executor.py:93`), outside the `try`
  blocks of `run_analysis` (`analysis.py:570-605`); `BUGS.md:84` expects auto
  mode to resolve to serial.
- *A longer interval can get fewer slices than a shorter one.*
  `_allocate_interval_slice_counts` (`slicing/slice_generator.py:267-278`) ranks an
  interval that was raised to one slice by the fraction of its share all the same:
  intervals of lengths 1, 2 and 2 get 2, 1 and 1 of four slices.
  `docs/execplans/slice-at-piezo-surface-intersection.md:190-200` gives the algorithm as
  one slice each first and the rest by largest remainder, which yields 1, 2 and
  1. Hence `EdgesSound` promises an order of the counts only if every share is at least one.
- *DIRECT's rectangles do not partition the box*, as
  `docs/cmaes-global-explainer.md:39` has it. The children of a division
  (`search/direct_partition.py:92`) have a third of the half side and are moved
  by that third, so that they overlap in the middle of their parent, whose outer
  sixths belong to no rectangle.
- *Cuckoo's reason is overwritten.* A search whose budget is spent reports a
  stall when the stall test of the same iteration holds too
  (`search/cuckoo_global.py:230`); `docs/cuckoo-global-explainer.md:65` says the
  loop stops on the first satisfied condition.
- *A base along a straight boundary* gets the upper or the lower material by
  rounding, and not the error for an ambiguous one (`soil_domain.py:486-508`,
  `slice_generator.py:656`).
- *A column is not cut at the outline of the ground.* `vertical_material_lengths`
  takes its levels from the boundaries (`soil_domain.py:529`). A column that leaves and
  enters a concave ground has one material over the gap, that of the middle of the
  interval, or is refused. Hence `ColumnsTrue` speaks of columns the outline does
  not cross (`OutlineCuts`).
- *A face whose centroid lies outside the ground*, which a concave ground can
  have, is dropped without an error (`soil_domain.py:395`, against the check that
  every face has a material, line 716). The ground there has no material, so
  `OneMaterialPerPoint` says that there is at most one.
- *The gate's default timeout* for `verify` is 30 minutes
  (`run_guarded_gate.py:17`), 20 in `README.md:63`.
- Two gates that start in the same second share a run directory
  (`exist_ok=True`), and each may be certified by the other's files.
- Output to a closed stdout ends `cli analyze`, `verify` and `test` with exit
  code 0 and the result dropped.
- Bishop's iteration can return a factor of safety of 0 when an iterate is
  within the tolerance of it.
- Spencer's choice takes the least sum of residuals: a state with one residual
  above the tolerance can shadow one within it, and with no horizontal forces a
  state of low m_alpha can; the command then fails where another start would
  have been accepted, and the fallback is not tried. Its branch for an exact probe
  that fails a second evaluation cannot be reached.
- The global searches refuse limits no more than 0.05 apart, which the parser accepts
  (`json_io.py:467`); auto-refine takes them.
- *A crossing of the water may be left without an edge.* `_surface_water_intersections`
  (`slice_generator.py:166-196`) looks for one root between the ends of a straight piece,
  while `docs/execplans/slice-at-piezo-surface-intersection.md:177-179` computes the
  intersections and locks them as required boundaries: a base that crosses a piece there and back may get
  one of the two, or none, and `EdgesSound` promises no edge there.
- *The next window of auto-refine has gaps.* `docs/auto-refine-explainer.md:154-155` takes
  one window, from the least to the greatest boundary of the divisions retained; the
  code keeps the divisions themselves with the gaps between them
  (`auto_refine.py:287-303`).
- A ground with an island of another soil or a concave ground may be refused:
  the traversal knows only simple faces. A chord through a corner of a boundary is
  not cut there, and the chord of a wide slice may pass over the ground at the toe.
- More intervals than slices: the edges fall back to uniform ones and the
  abscissas of water and boundaries are lost. Roots closer than the merge
  tolerance become their mean.
- Ponded thrust is sampled at toe and crest as if they were on the slope
  (`slice_generator.py:388-391`, `504-506`).
- The assertions at `slice_generator.py:66-71` are not among the exceptions a
  search turns into an invalid surface; by `AcceptedIsComplete` no document the
  parser accepts reaches them.
- The calls of the simplex method are counted both in the core counters and in
  the refinement counters (`search/cmaes_global.py:437-444`), so summing the
  stage fields counts them twice
  (`docs/execplans/bug-005-006-accounting-and-phi-validation.md:107-109`).
- A budget that is spent before the polish skips the refinement passes too,
  which have counters of their own.
- The reason of CMA-ES is kept from one restart to the next: a run can report
  the stall of an earlier restart although the last one used all its
  iterations.
- When no coarse cell improves, the local toe-locked sweep of CMA-ES is centred
  at the first grid cell (`search/cmaes_global.py:311-312`), while
  `docs/cmaes-global-explainer.md:54` centres it at the best one.
- The local polish of auto-refine drops a surface of equal FOS and smaller key
  (`search/auto_refine.py:974-978`), despite its comment on tie-breaks.
- The documents say that DIRECT resolves serial in auto mode; the code also has
  a whitelist for non-uniform soils (`search/auto_parallel_policy.py:50-61`).

## What is not modelled

- *The arithmetic of forces and moments* in Bishop and Spencer, and the library
  root finders: what the equations evaluate to is chosen freely. To the searches
  a solve is one outcome.
- *Floating point.* Geometry is exact on small integers and scores have a unit;
  where rounding decides in the code (on a boundary) the model allows both. The
  code integrates the depth of the pond over a fixed number of samples a slice
  (`slice_generator.py:481-493`); the model's steps are exact, so that
  `WholeLoadCarried` says nothing of the error of that integration.
- *`_combine_external_resultants`* of `slice_generator.py`, which adds up the
  points of application of the loads, and *`_collapse_small_intervals`*, which
  does nothing for distinct grid points.
- *The solvers of roots failing*: `brentq` and `minimize_scalar` are taken to
  converge. A root they miss for want of iterations is an edge less.
- *The tolerance by which DIRECT takes two sides for equally long*
  (`direct_partition.py:81-84`): sides are exact thirds of each other in the model, where
  no tolerance decides. That floats of many divisions stay within it is not asked.
- *Ground without a material*: whether a face was dropped that a slide passes
  through. A query there is refused.
- *Requests that end the program*: a mode or a number of workers that
  `analysis.py:150-154` refuses is no initial state of `AnalysisRun` (`RequestAccepted`). The
  workload class `unsupported` is in `ParallelPolicy`, but no document the parser
  accepts has it.
- *A timeout scale of the gate that is not finite*, which `float()` lets through.
- *Circle geometry*: which circle passes through two midpoints is a constant
  map, and which surfaces a refinement pass proposes is left open. So are the
  points that cma and scipy propose.
- *Result documents* (`dataclasses.asdict`, `json.dumps`), error texts and logs.
- *Verification cases*: a table; the runners see only how many there are.
- *Benchmark and diagnostic scripts* other than the gate: sequential
  measurements that write tables.
- *`_close_small_retained_index_gaps`* and *`_pad_retained_index_runs`* of
  `auto_refine.py`: nothing calls them.

Hazards without a property, and why, are those of `PROJECT.json` that carry a
note and an empty list.

## Plan

Done: evaluator, abstract memo and proofs; pool, executor, batch service and
proofs; their composition to a whole run and proofs; suite runners and proofs;
the four searches with their refinement passes and proofs; soil domain and
slices, and the proofs of faces, edges, loads, weights and columns; solvers, parser and the prescribed-surface
command with proofs; the guarded gate and proofs.

Left: a proof of `OneMaterialPerPoint`, which needs the Jordan curve theorem for the
faces, and of `BaseMaterialSound`, which needs the parity argument of the columns
along a chord.
