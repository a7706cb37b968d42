----------------------------- MODULE GuardedGate -----------------------------
(***************************************************************************)
(* scripts/benchmarks/run_guarded_gate.py: the gate that runs `cli verify` *)
(* and `cli test` as child processes, each under a timeout and with one    *)
(* retry, and then publishes a manifest and the pointer latest.json.       *)
(*                                                                         *)
(* Several gates may run over the same output root.  A run identifier is   *)
(* the UTC second a gate started in, so the directory of a run, with its   *)
(* verify.json and test.json, is shared by gates that start in the same    *)
(* second.  The child is the CLI of this repository, seen through what it  *)
(* leaves: its output file and its exit code.                              *)
(***************************************************************************)
EXTENDS Integers, Sequences

CONSTANTS
    Gates,      \* the gate processes
    Seconds,    \* the seconds a gate may start in: the run identifiers
    Configs     \* the command lines the gates may have been started with

Stages == {"verify", "test"}
Parsed == [skip : SUBSET Stages, serial : BOOLEAN, workers : [Stages -> SUBSET Int],
           timeoutMs : [Stages -> Int], scale : Int \X (Nat \ {0})]

\* The command line after argparse: each stage has its workers, which may be left out,
\* and its timeout; a scale is a fraction <<numerator, denominator>>.
ASSUME ConfigAssumption == Configs \subseteq [Gates -> Parsed]

VARIABLES
    config,     \* each gate's command line
    runId,      \* the second each gate started in
    phase,      \* where each gate's main() is
    preflight,  \* whether the process-pool probe succeeded
    attempts,   \* the attempts of the stage in progress, oldest first
    child,      \* what the child of the attempt in progress has done
    stages,     \* the stages that ran: their verdicts and their attempts
    output,     \* the output files there are, by run directory and stage
    manifest,   \* the manifests there are, by run directory
    latest      \* latest.json, one for all runs: empty or a pointer

vars == <<config, runId, phase, preflight, attempts, child, stages, output,
          manifest, latest>>
files == <<output, manifest, latest>>
fixed == <<config, runId>>

None == "none"

\* How an attempt ended: killed at its timeout, with exit code 0, or with another one.
Attempts == [timeoutMs : Nat, end : {"timeout", "success", "failure"}]
ChildStates == {None, "running", "opened", "wrotePass", "wroteFail"}
Phases == {"start", "preflight", "manifest", "latest", "exited", "raised"} \cup Stages

\* What an output file may hold: a summary, or (whole = FALSE) a truncated one.
Outputs == [by : Gates, attempt : {1, 2}, whole : BOOLEAN, allPassed : BOOLEAN]

\* f with the file name x written, created if need be.
Written(f, x, v) == [y \in DOMAIN f \cup {x} |-> IF y = x THEN v ELSE f[y]]

Init ==
    /\ config \in Configs
    /\ runId \in [Gates -> Seconds]
    /\ phase = [g \in Gates |-> "start"]
    /\ preflight = [g \in Gates |-> FALSE]
    /\ attempts = [g \in Gates |-> <<>>]
    /\ child = [g \in Gates |-> None]
    /\ stages = [g \in Gates |-> <<>>]
    /\ output = <<>>
    /\ manifest = <<>>
    /\ latest = {}

-----------------------------------------------------------------------------
(* The command line.                                                       *)

AboveOne(s) == s[1] > s[2]

Accepted(c) ==
    /\ c.skip # Stages
    /\ \A s \in Stages : c.timeoutMs[s] > 0 /\ \A w \in c.workers[s] : w >= 0
    /\ AboveOne(c.scale)

\* The options a stage passes to the CLI besides its paths: serial wins.
CliOptions(c, s) ==
    IF c.serial THEN {"--serial"}
    ELSE IF c.workers[s] # {} THEN {"--workers"} ELSE {}

\* What argparse and the first check of the CLI's commands turn down.
CliRefuses(options, workers) ==
    \/ {"--serial", "--workers"} \subseteq options
    \/ "--workers" \in options /\ \E w \in workers : w < 0

\* Python's round(): to the nearest integer, halves to the even one.
Rounded(n, d) ==
    LET q == n \div d
        r == 2 * (n % d)
    IN IF r > d \/ (r = d /\ q % 2 = 1) THEN q + 1 ELSE q

NextTimeout(t, scale) ==
    LET scaled == Rounded(t * scale[1], scale[2])
    IN IF scaled > t + 1 THEN scaled ELSE t + 1

-----------------------------------------------------------------------------
(* main().                                                                 *)

Enabled(g, s) == s \notin config[g].skip
AfterPreflight(g, ok) ==
    IF ~ok THEN "manifest" ELSE IF Enabled(g, "verify") THEN "verify" ELSE "test"
\* Fault: the gate stops after its first stage.
AfterAnyStage(g, s) == "manifest"

AfterStage(g, s) ==
    IF s = "verify" /\ Enabled(g, "test") THEN "test" ELSE "manifest"

Validate(g) ==
    /\ phase[g] = "start"
    /\ phase' = [phase EXCEPT ![g] = IF Accepted(config[g]) THEN "preflight" ELSE "raised"]
    /\ UNCHANGED <<fixed, preflight, attempts, child, stages, files>>

\* Any exception of the probe, at the pool's start or in a task, only makes it not ok.
Preflight(g) ==
    /\ phase[g] = "preflight"
    /\ \E ok \in BOOLEAN :
        /\ preflight' = [preflight EXCEPT ![g] = ok]
        /\ phase' = [phase EXCEPT ![g] = AfterPreflight(g, ok)]
    /\ UNCHANGED <<fixed, attempts, child, stages, files>>

OutputOf(g) == <<runId[g], phase[g]>>
InStage(g) == phase[g] \in Stages
LastOf(s) == s[Len(s)]

\* The first attempt, or the one retry, and only after a timeout.
MayLaunch(g) ==
    /\ InStage(g)
    /\ child[g] = None
    /\ \/ attempts[g] = <<>>
       \/ Len(attempts[g]) = 1 /\ attempts[g][1].end = "timeout"

TimeoutOf(g) ==
    IF attempts[g] = <<>> THEN config[g].timeoutMs[phase[g]]
    ELSE NextTimeout(attempts[g][1].timeoutMs, config[g].scale)

Launch(g) ==
    /\ MayLaunch(g)
    /\ child' = [child EXCEPT ![g] = "running"]
    /\ UNCHANGED <<fixed, phase, preflight, attempts, stages, files>>

\* The attempt is over: subprocess.run returned, or it killed the child.
Attempted(g, end) ==
    /\ attempts' = [attempts EXCEPT ![g] = Append(@, [timeoutMs |-> TimeoutOf(g), end |-> end])]
    /\ child' = [child EXCEPT ![g] = None]

\* Fault: the retry has no timeout.
TimesOutOnce(g) ==
    /\ child[g] # None /\ attempts[g] = <<>>
    /\ Attempted(g, "timeout")
    /\ UNCHANGED <<fixed, phase, preflight, stages, files>>

TimesOut(g) ==
    /\ child[g] # None
    /\ Attempted(g, "timeout")
    /\ UNCHANGED <<fixed, phase, preflight, stages, files>>

\* all_passed is read after the last attempt, whichever attempt wrote the file.
\* A missing file and one that is not a JSON document are errors, not verdicts.
ReadAllPassed(file) ==
    file \in DOMAIN output /\ output[file].whole /\ output[file].allPassed

\* Fault: the summary alone decides.
StagePassedOnPaper(g) == ReadAllPassed(OutputOf(g))

StagePassed(g) ==
    LastOf(attempts[g]).end = "success" /\ ReadAllPassed(OutputOf(g))

FinishStage(g) ==
    /\ InStage(g) /\ child[g] = None /\ attempts[g] # <<>> /\ ~MayLaunch(g)
    /\ stages' = [stages EXCEPT ![g] = Append(@,
            [name |-> phase[g], passed |-> StagePassed(g), attempts |-> attempts[g]])]
    /\ attempts' = [attempts EXCEPT ![g] = <<>>]
    /\ phase' = [phase EXCEPT ![g] = AfterStage(g, @)]
    /\ UNCHANGED <<fixed, preflight, child, files>>

\* all() over the stages that ran.
OverallPassed(g) == preflight[g] /\ \A i \in 1..Len(stages[g]) : stages[g][i].passed

WriteManifest(g) ==
    /\ phase[g] = "manifest"
    /\ manifest' = Written(manifest, runId[g], [by |-> g, passed |-> OverallPassed(g)])
    /\ phase' = [phase EXCEPT ![g] = "latest"]
    /\ UNCHANGED <<fixed, preflight, attempts, child, stages, output, latest>>

WriteLatest(g) ==
    /\ phase[g] = "latest"
    /\ latest' = {[run |-> runId[g], passed |-> OverallPassed(g)]}
    /\ phase' = [phase EXCEPT ![g] = "exited"]
    /\ UNCHANGED <<fixed, preflight, attempts, child, stages, output, manifest>>

ExitCode(g) == IF OverallPassed(g) THEN 0 ELSE 2

-----------------------------------------------------------------------------
(* The child: `cli verify --output F` or `cli test --output F`.            *)

\* What the child of g's attempt in progress leaves in its output file.
Summary(g, whole, ok) ==
    [by |-> g, attempt |-> Len(attempts[g]) + 1, whole |-> whole, allPassed |-> ok]

StageRefused(g) ==
    CliRefuses(CliOptions(config[g], phase[g]), config[g].workers[phase[g]])

\* Opening the output file for writing truncates it.
ChildOpens(g) ==
    /\ child[g] = "running"
    /\ ~StageRefused(g)
    /\ child' = [child EXCEPT ![g] = "opened"]
    /\ output' = Written(output, OutputOf(g), Summary(g, FALSE, FALSE))
    /\ UNCHANGED <<fixed, phase, preflight, attempts, stages, manifest, latest>>

ChildWrites(g) ==
    /\ child[g] = "opened"
    /\ \E ok \in BOOLEAN :
        /\ output' = Written(output, OutputOf(g), Summary(g, TRUE, ok))
        /\ child' = [child EXCEPT ![g] = IF ok THEN "wrotePass" ELSE "wroteFail"]
    /\ UNCHANGED <<fixed, phase, preflight, attempts, stages, manifest, latest>>

\* A refused command line and a failure summary leave the file alone, a failed
\* write leaves it truncated, and an error on stdout comes after the write.
ChildFails(g) ==
    /\ child[g] # None
    /\ Attempted(g, "failure")
    /\ UNCHANGED <<fixed, phase, preflight, stages, files>>

\* The exit code follows the verdict: the child's stdout is a file nobody closes.
ChildSucceeds(g) ==
    /\ child[g] = "wrotePass"
    /\ Attempted(g, "success")
    /\ UNCHANGED <<fixed, phase, preflight, stages, files>>

-----------------------------------------------------------------------------
GateStep(g) == \/ Validate(g) \/ Preflight(g) \/ Launch(g) \/ TimesOut(g)
               \/ FinishStage(g) \/ WriteManifest(g) \/ WriteLatest(g)
ChildStep(g) == ChildOpens(g) \/ ChildWrites(g) \/ ChildFails(g) \/ ChildSucceeds(g)
Ended == \A g \in Gates : phase[g] \in {"exited", "raised"}
Finished == Ended /\ UNCHANGED vars

Next == (\E g \in Gates : GateStep(g) \/ ChildStep(g)) \/ Finished

\* The gate's own steps, its timeout among them, are taken; a child may hang.
Spec == Init /\ [][Next]_vars /\ \A g \in Gates : WF_vars(GateStep(g))
-----------------------------------------------------------------------------
\* Every variable holds a value main(), _run_stage() or the CLI can leave in it.
GateTypeOK ==
    /\ config \in Configs /\ runId \in [Gates -> Seconds]
    /\ phase \in [Gates -> Phases] /\ preflight \in [Gates -> BOOLEAN]
    /\ attempts \in [Gates -> Seq(Attempts)] /\ child \in [Gates -> ChildStates]
    /\ stages \in [Gates -> Seq([name : Stages, passed : BOOLEAN, attempts : Seq(Attempts)])]
    /\ DOMAIN output \subseteq Seconds \X Stages /\ output \in [DOMAIN output -> Outputs]
    /\ DOMAIN manifest \subseteq Seconds
    /\ manifest \in [DOMAIN manifest -> [by : Gates, passed : BOOLEAN]]
    /\ latest \subseteq [run : Seconds, passed : BOOLEAN]

\* A gate that shares its run directory with no other.
Alone(g) == \A h \in Gates \ {g} : runId[h] # runId[g]

\* The verdict of a stage that passed is the summary its last attempt wrote, never
\* what a killed first attempt or an earlier stage left in the output file
\* (_run_stage reads the file once, after both attempts used the same path).
VerdictIsLastAttempts ==
    \A g \in Gates : Alone(g) =>
        \A i \in 1..Len(stages[g]) : stages[g][i].passed =>
            LET file == <<runId[g], stages[g][i].name>>
            IN /\ file \in DOMAIN output
               /\ output[file].by = g /\ output[file].whole /\ output[file].allPassed
               /\ output[file].attempt = Len(stages[g][i].attempts)

\* A stage is retried at most once, only when it timed out, and with more time
\* than it had (_run_stage, _next_timeout_ms), however small the timeout or the scale.
RetriesAreEarned ==
    \A g \in Gates : \A i \in 1..Len(stages[g]) :
        LET a == stages[g][i].attempts
        IN Len(a) > 1 => /\ Len(a) = 2 /\ a[1].end = "timeout"
                         /\ a[2].timeoutMs > a[1].timeoutMs

\* The gate exits with 0 only if the probe succeeded and every stage its command
\* line asks for ran and passed; all() over the stages that ran must not be vacuous.
GateExitHonest ==
    \A g \in Gates : phase[g] = "exited" /\ ExitCode(g) = 0 =>
        /\ preflight[g]
        /\ Stages \ config[g].skip = {stages[g][i].name : i \in 1..Len(stages[g])}

\* latest.json never names a run whose manifest is missing, and reports its verdict
\* unless another gate of the same second has rewritten the manifest.
LatestIsPublished ==
    \A p \in latest :
        /\ p.run \in DOMAIN manifest
        /\ Alone(manifest[p.run].by) => manifest[p.run].passed = p.passed

\* What the gate accepts, the CLI accepts: no stage is started with options
\* argparse excludes from each other or with a number of workers it refuses.
StagesAreRunnable ==
    \A g \in Gates : InStage(g) => ~StageRefused(g)

\* Every gate ends, whatever its children do: a child that hangs is killed.
GateEnds == <>Ended
=============================================================================
