-------------------------- MODULE GuardedGateProofs --------------------------
(***************************************************************************)
(* Proofs about GuardedGate, for every set of gates, every set of run      *)
(* identifiers and every command line.                                     *)
(***************************************************************************)
EXTENDS GuardedGate, TLAPS

\* _run_stage(): what its attempts look like at any time.
Earned(a) ==
    Len(a) > 1 => /\ Len(a) = 2 /\ a[1].end = "timeout"
                  /\ a[2].timeoutMs > a[1].timeoutMs

\* A child runs only where an attempt may be made, and a stage keeps its attempts
\* only as long as it lasts.
AttemptsSound ==
    \A g \in Gates :
        /\ Earned(attempts[g])
        /\ \A i \in 1..Len(stages[g]) : Earned(stages[g][i].attempts)
        /\ child[g] # None => attempts[g] = <<>> \/ (Len(attempts[g]) = 1 /\ attempts[g][1].end = "timeout")
        /\ ~InStage(g) => attempts[g] = <<>> /\ child[g] = None

\* main() goes on only with a command line it has accepted.
CommandLineSound ==
    \A g \in Gates : phase[g] \in {"start", "raised"} \/ Accepted(config[g])

\* The stages of g that are done.
StageNames(g) == {stages[g][i].name : i \in 1..Len(stages[g])}

\* A stage runs after a good probe, and only if it is not skipped; the stages done
\* are those in front of where main() is.
StagesSoundAt(g) ==
    /\ InStage(g) => preflight[g] /\ phase[g] \notin config[g].skip
    /\ phase[g] \in {"start", "preflight", "raised", "verify"} => StageNames(g) = {}
    /\ phase[g] = "test" => StageNames(g) = {"verify"} \ config[g].skip
    /\ phase[g] \in {"manifest", "latest", "exited"} /\ preflight[g] =>
          StageNames(g) = Stages \ config[g].skip
StagesSound == \A g \in Gates : StagesSoundAt(g)

\* file holds the passing summary of g's n-th attempt.
Certified(file, g, n) ==
    /\ file \in DOMAIN output
    /\ output[file].by = g /\ output[file].whole /\ output[file].allPassed
    /\ output[file].attempt = n

\* From the child's last write to the verdict, the file stays the one it wrote.
VerdictSoundAt(g) ==
    Alone(g) =>
        /\ child[g] = "wrotePass" => Certified(OutputOf(g), g, Len(attempts[g]) + 1)
        /\ attempts[g] # <<>> /\ LastOf(attempts[g]).end = "success" =>
              Certified(OutputOf(g), g, Len(attempts[g]))
        /\ \A i \in 1..Len(stages[g]) : stages[g][i].passed =>
              Certified(<<runId[g], stages[g][i].name>>, g, Len(stages[g][i].attempts))
VerdictSound == \A g \in Gates : VerdictSoundAt(g)

\* A manifest comes from a gate past it, and latest.json from one that has exited.
PublishSound ==
    /\ \A r \in DOMAIN manifest : \E h \in Gates :
          /\ manifest[r].by = h /\ runId[h] = r /\ phase[h] \in {"latest", "exited"}
          /\ manifest[r].passed = OverallPassed(h)
    /\ \A h \in Gates : phase[h] \in {"latest", "exited"} => runId[h] \in DOMAIN manifest
    /\ \A p \in latest : \E h \in Gates :
          runId[h] = p.run /\ phase[h] = "exited" /\ p.passed = OverallPassed(h)

-----------------------------------------------------------------------------
LEMMA NextTimeoutGrows ==
  ASSUME NEW t \in Nat, NEW scale \in Int \X (Nat \ {0})
  PROVE  NextTimeout(t, scale) \in Nat /\ NextTimeout(t, scale) > t
<1>1. Rounded(t * scale[1], scale[2]) \in Int
  BY DEF Rounded
<1>2. QED BY <1>1 DEF NextTimeout

LEMMA EndsOfSequence ==
  ASSUME NEW S, NEW s \in Seq(S), s # <<>>
  PROVE  s[1] \in S /\ s[Len(s)] \in S /\ Len(s) \in Nat \ {0}
OBVIOUS

LEMMA InitialType == Init => GateTypeOK
BY DEF Init, GateTypeOK, Phases, ChildStates, None, Outputs, Attempts, Stages

LEMMA ParsedLine ==
  ASSUME GateTypeOK, NEW g \in Gates
  PROVE  config[g] \in Parsed
BY ConfigAssumption DEF GateTypeOK

LEMMA TimeoutType ==
  ASSUME GateTypeOK, AttemptsSound, CommandLineSound, NEW g \in Gates, InStage(g)
  PROVE  TimeoutOf(g) \in Nat
<1>1. config[g].timeoutMs[phase[g]] \in Nat /\ config[g].scale \in Int \X (Nat \ {0})
  <2>1. Accepted(config[g])
    BY DEF CommandLineSound, InStage, Stages
  <2>2. phase[g] \in Stages
    BY DEF InStage
  <2>3. QED BY <2>1, <2>2, ParsedLine DEF Parsed, Accepted
<1>2. CASE attempts[g] = <<>>
  BY <1>1, <1>2 DEF TimeoutOf
<1>3. CASE attempts[g] # <<>>
  <2>1. attempts[g] \in Seq(Attempts)
    BY DEF GateTypeOK
  <2>2. attempts[g][1] \in Attempts
    BY <1>3, <2>1, EndsOfSequence, Zenon
  <2>3. attempts[g][1].timeoutMs \in Nat
    BY <2>2 DEF Attempts
  <2>4. QED BY <1>1, <1>3, <2>3, NextTimeoutGrows DEF TimeoutOf
<1>4. QED BY <1>2, <1>3

LEMMA WrittenType ==
  ASSUME NEW A, NEW V, NEW f, DOMAIN f \subseteq A, f \in [DOMAIN f -> V],
         NEW x \in A, NEW v \in V
  PROVE  /\ DOMAIN Written(f, x, v) = DOMAIN f \cup {x}
         /\ DOMAIN Written(f, x, v) \subseteq A
         /\ Written(f, x, v) \in [DOMAIN Written(f, x, v) -> V]
         /\ Written(f, x, v)[x] = v
         /\ \A y \in DOMAIN f : y # x => Written(f, x, v)[y] = f[y]
BY DEF Written

\* What an attempt leaves has its type.
LEMMA AttemptedType ==
  ASSUME GateTypeOK, AttemptsSound, CommandLineSound, NEW g \in Gates, InStage(g),
         NEW end \in {"timeout", "success", "failure"}, Attempted(g, end)
  PROVE  /\ attempts' \in [Gates -> Seq(Attempts)]
         /\ child' \in [Gates -> ChildStates]
<1>1. [timeoutMs |-> TimeoutOf(g), end |-> end] \in Attempts
  BY TimeoutType DEF Attempts
<1>2. QED BY <1>1 DEF Attempted, GateTypeOK, ChildStates, None

\* The summary of a child has its type.
LEMMA SummaryType ==
  ASSUME GateTypeOK, AttemptsSound, NEW g \in Gates, child[g] # None,
         NEW whole \in BOOLEAN, NEW ok \in BOOLEAN
  PROVE  /\ Summary(g, whole, ok) \in Outputs
         /\ OutputOf(g) \in Seconds \X Stages
<1>1. Len(attempts[g]) = 0 \/ Len(attempts[g]) = 1
  BY DEF AttemptsSound
<1>2. InStage(g) /\ runId[g] \in Seconds
  BY DEF AttemptsSound, GateTypeOK
<1>3. Len(attempts[g]) + 1 \in {1, 2}
  <2>1. ASSUME NEW n, n = 0 \/ n = 1 PROVE n + 1 \in {1, 2}
    BY <2>1
  <2>2. QED BY <1>1, <2>1
<1>4. Summary(g, whole, ok) \in Outputs
  BY <1>3 DEF Summary, Outputs
<1>5. OutputOf(g) \in Seconds \X Stages
  BY <1>2 DEF OutputOf, InStage
<1>6. QED BY <1>4, <1>5

TypeInv == GateTypeOK /\ AttemptsSound /\ CommandLineSound

LEMMA TypeStep ==
  ASSUME TypeInv, [Next]_vars
  PROVE  GateTypeOK'
<1> USE DEF TypeInv
<1>1. CASE UNCHANGED vars
  BY <1>1 DEF GateTypeOK, vars, fixed, files
<1>2. ASSUME NEW g \in Gates, Validate(g) PROVE GateTypeOK'
  BY <1>2 DEF Validate, GateTypeOK, Phases, fixed, files
<1>3. ASSUME NEW g \in Gates, Preflight(g) PROVE GateTypeOK'
  BY <1>3 DEF Preflight, GateTypeOK, Phases, Stages, AfterPreflight, fixed, files
<1>4. ASSUME NEW g \in Gates, Launch(g) PROVE GateTypeOK'
  BY <1>4 DEF Launch, GateTypeOK, ChildStates, fixed, files
<1>5. ASSUME NEW g \in Gates, TimesOut(g) PROVE GateTypeOK'
  <2>1. InStage(g)
    BY <1>5 DEF AttemptsSound, TimesOut
  <2>2. QED BY <1>5, <2>1, AttemptedType DEF TimesOut, GateTypeOK, fixed, files
<1>6. ASSUME NEW g \in Gates, FinishStage(g) PROVE GateTypeOK'
  <2>1. [name |-> phase[g], passed |-> StagePassed(g), attempts |-> attempts[g]]
          \in [name : Stages, passed : BOOLEAN, attempts : Seq(Attempts)]
    BY <1>6 DEF FinishStage, InStage, GateTypeOK, StagePassed, ReadAllPassed
  <2> DEFINE StageRecords == [name : Stages, passed : BOOLEAN, attempts : Seq(Attempts)]
             record == [name |-> phase[g], passed |-> StagePassed(g), attempts |-> attempts[g]]
  <2>6. record \in StageRecords /\ stages \in [Gates -> Seq(StageRecords)]
    BY <2>1 DEF GateTypeOK
  <2>7. stages' = [stages EXCEPT ![g] = Append(@, record)]
    BY <1>6 DEF FinishStage
  <2>2. stages' \in [Gates -> Seq(StageRecords)]
    <3> HIDE DEF StageRecords, record
    <3>1. Append(stages[g], record) \in Seq(StageRecords)
      BY <2>6
    <3>2. QED BY <2>6, <2>7, <3>1
  <2>3. attempts' \in [Gates -> Seq(Attempts)]
    BY <1>6 DEF FinishStage, GateTypeOK
  <2>4. phase' \in [Gates -> Phases]
    BY <1>6 DEF FinishStage, GateTypeOK, AfterStage, Phases, Stages
  <2>5. QED BY <1>6, <2>2, <2>3, <2>4 DEF FinishStage, GateTypeOK, fixed, files
<1>7. ASSUME NEW g \in Gates, WriteManifest(g) PROVE GateTypeOK'
  <2>1. runId[g] \in Seconds /\ [by |-> g, passed |-> OverallPassed(g)] \in [by : Gates, passed : BOOLEAN]
    BY DEF GateTypeOK, OverallPassed
  <2>2. DOMAIN manifest' \subseteq Seconds /\ manifest' \in [DOMAIN manifest' -> [by : Gates, passed : BOOLEAN]]
    <3>1. manifest' = Written(manifest, runId[g], [by |-> g, passed |-> OverallPassed(g)])
      BY <1>7 DEF WriteManifest
    <3>2. DOMAIN manifest \subseteq Seconds /\ manifest \in [DOMAIN manifest -> [by : Gates, passed : BOOLEAN]]
      BY DEF GateTypeOK
    <3> DEFINE M == [by : Gates, passed : BOOLEAN]
               m == [by |-> g, passed |-> OverallPassed(g)]
    <3>3. m \in M /\ runId[g] \in Seconds
      BY <2>1
    <3>4. manifest' = Written(manifest, runId[g], m) /\ manifest \in [DOMAIN manifest -> M]
      BY <3>1, <3>2
    <3> HIDE DEF M, m
    <3>5. DOMAIN manifest' \subseteq Seconds /\ manifest' \in [DOMAIN manifest' -> M]
      BY <3>2, <3>3, <3>4, WrittenType, Zenon
    <3>6. QED BY <3>5 DEF M
  <2>3. QED BY <1>7, <2>2 DEF WriteManifest, GateTypeOK, Phases, fixed
<1>8. ASSUME NEW g \in Gates, WriteLatest(g) PROVE GateTypeOK'
  <2>1. OverallPassed(g) \in BOOLEAN
    BY DEF GateTypeOK, OverallPassed
  <2>2. latest' \subseteq [run : Seconds, passed : BOOLEAN]
    BY <1>8, <2>1 DEF WriteLatest, GateTypeOK
  <2>3. QED BY <1>8, <2>2 DEF WriteLatest, GateTypeOK, Phases, fixed
<1>9. ASSUME NEW g \in Gates, ChildOpens(g) PROVE GateTypeOK'
  <2>1. child[g] # None
    BY <1>9 DEF ChildOpens, None
  <2>2. DOMAIN output' \subseteq Seconds \X Stages /\ output' \in [DOMAIN output' -> Outputs]
    <3>1. output' = Written(output, OutputOf(g), Summary(g, FALSE, FALSE))
      BY <1>9 DEF ChildOpens
    <3>2. DOMAIN output \subseteq Seconds \X Stages /\ output \in [DOMAIN output -> Outputs]
      BY DEF GateTypeOK
    <3>3. Summary(g, FALSE, FALSE) \in Outputs /\ OutputOf(g) \in Seconds \X Stages
      BY <2>1, SummaryType
    <3>4. QED BY <3>1, <3>2, <3>3, WrittenType, Zenon
  <2>3. QED BY <1>9, <2>2 DEF ChildOpens, GateTypeOK, ChildStates, fixed
<1>10. ASSUME NEW g \in Gates, ChildWrites(g) PROVE GateTypeOK'
  <2>1. child[g] # None
    BY <1>10 DEF ChildWrites, None
  <2>2. DOMAIN output' \subseteq Seconds \X Stages /\ output' \in [DOMAIN output' -> Outputs]
    <3>1. PICK ok \in BOOLEAN : output' = Written(output, OutputOf(g), Summary(g, TRUE, ok))
      BY <1>10 DEF ChildWrites
    <3>2. DOMAIN output \subseteq Seconds \X Stages /\ output \in [DOMAIN output -> Outputs]
      BY DEF GateTypeOK
    <3>3. Summary(g, TRUE, ok) \in Outputs /\ OutputOf(g) \in Seconds \X Stages
      BY <2>1, SummaryType
    <3>4. QED BY <3>1, <3>2, <3>3, WrittenType, Zenon
  <2>3. QED BY <1>10, <2>2 DEF ChildWrites, GateTypeOK, ChildStates, fixed
<1>11. ASSUME NEW g \in Gates, ChildFails(g) \/ ChildSucceeds(g) PROVE GateTypeOK'
  <2>1. child[g] # None /\ InStage(g)
    BY <1>11 DEF AttemptsSound, ChildFails, ChildSucceeds, None
  <2>2. QED BY <1>11, <2>1, AttemptedType DEF ChildFails, ChildSucceeds, GateTypeOK, fixed, files
<1>12. QED
  BY <1>1, <1>2, <1>3, <1>4, <1>5, <1>6, <1>7, <1>8, <1>9, <1>10, <1>11
     DEF Next, GateStep, ChildStep, Finished

-----------------------------------------------------------------------------
(* Attempts and command lines *)

AttemptsSoundAt(h) ==
    /\ Earned(attempts[h])
    /\ \A i \in 1..Len(stages[h]) : Earned(stages[h][i].attempts)
    /\ child[h] # None => attempts[h] = <<>> \/ (Len(attempts[h]) = 1 /\ attempts[h][1].end = "timeout")
    /\ ~InStage(h) => attempts[h] = <<>> /\ child[h] = None

\* The second attempt of a stage has more time than the first.
LEMMA AttemptedEarned ==
  ASSUME TypeInv, NEW g \in Gates, child[g] # None,
         NEW end \in {"timeout", "success", "failure"}, Attempted(g, end)
  PROVE  Earned(attempts'[g]) /\ child'[g] = None
<1>1. InStage(g) /\ child'[g] = None
  BY DEF Attempted, TypeInv, AttemptsSound, GateTypeOK
<1> DEFINE a == attempts[g]
           last == [timeoutMs |-> TimeoutOf(g), end |-> end]
<1>2. a \in Seq(Attempts) /\ attempts'[g] = Append(a, last)
  BY DEF TypeInv, GateTypeOK, Attempted
<1>3. a = <<>> \/ (Len(a) = 1 /\ a[1].end = "timeout")
  BY DEF TypeInv, AttemptsSound
<1>4. CASE a = <<>>
  <2>1. Len(attempts'[g]) = 1
    BY <1>2, <1>4
  <2>2. QED BY <1>1, <2>1 DEF Earned
<1>5. CASE a # <<>>
  <2>1. Len(attempts'[g]) = 2 /\ attempts'[g][1] = a[1] /\ attempts'[g][2] = last
    BY <1>2, <1>3, <1>5
  <2>2. a[1] \in Attempts
    BY <1>2, <1>5, EndsOfSequence, Zenon
  <2>3. a[1].timeoutMs \in Nat
    BY <2>2 DEF Attempts
  <2>4. Accepted(config[g])
    BY <1>1 DEF TypeInv, CommandLineSound, InStage, Stages
  <2>5. config[g].scale \in Int \X (Nat \ {0})
    BY ParsedLine DEF Parsed, TypeInv
  <2>6. TimeoutOf(g) > a[1].timeoutMs
    BY <1>5, <2>3, <2>5, NextTimeoutGrows DEF TimeoutOf
  <2>7. last.timeoutMs = TimeoutOf(g)
    OBVIOUS
  <2>8. QED BY <1>1, <1>3, <1>5, <2>1, <2>6, <2>7 DEF Earned
<1>6. QED BY <1>4, <1>5

LEMMA AttemptsStep ==
  ASSUME TypeInv, [Next]_vars
  PROVE  AttemptsSound'
<1> SUFFICES ASSUME NEW h \in Gates PROVE AttemptsSoundAt(h)'
  BY DEF AttemptsSound, AttemptsSoundAt
<1>1. AttemptsSoundAt(h) /\ GateTypeOK
  BY DEF AttemptsSound, AttemptsSoundAt, TypeInv
<1>2. CASE attempts'[h] = attempts[h] /\ child'[h] = child[h] /\ stages'[h] = stages[h]
           /\ (InStage(h) => InStage(h)')
  BY <1>1, <1>2 DEF AttemptsSoundAt
<1>3. CASE UNCHANGED vars
  BY <1>2, <1>3 DEF vars, fixed, files, InStage
<1>4. ASSUME NEW g \in Gates, Validate(g) \/ Preflight(g) \/ WriteManifest(g) \/ WriteLatest(g)
      PROVE  AttemptsSoundAt(h)'
  <2>1. ~InStage(g) /\ \A k \in Gates \ {g} : phase'[k] = phase[k]
    BY <1>4, <1>1 DEF Validate, Preflight, WriteManifest, WriteLatest, InStage, Stages, GateTypeOK
  <2>2. UNCHANGED <<attempts, child, stages>>
    BY <1>4 DEF Validate, Preflight, WriteManifest, WriteLatest
  <2>3. QED BY <1>2, <2>1, <2>2 DEF InStage
<1>5. ASSUME NEW g \in Gates, Launch(g)
      PROVE  AttemptsSoundAt(h)'
  <2>1. CASE h = g
    BY <1>1, <1>5, <2>1 DEF Launch, MayLaunch, AttemptsSoundAt, InStage
  <2>2. CASE h # g
    BY <1>1, <1>2, <1>5, <2>2 DEF Launch, InStage, GateTypeOK
  <2>3. QED BY <2>1, <2>2
<1>6. ASSUME NEW g \in Gates, FinishStage(g)
      PROVE  AttemptsSoundAt(h)'
  <2>1. CASE h = g
    <3> DEFINE StageRecords == [name : Stages, passed : BOOLEAN, attempts : Seq(Attempts)]
               record == [name |-> phase[g], passed |-> StagePassed(g), attempts |-> attempts[g]]
    <3>1. stages[g] \in Seq(StageRecords) /\ stages'[g] = Append(stages[g], record)
      BY <1>1, <1>6 DEF FinishStage, GateTypeOK
    <3>2. attempts'[g] = <<>> /\ child'[g] = None
      BY <1>1, <1>6 DEF FinishStage, GateTypeOK
    <3>3. Earned(record.attempts)
      BY <1>1, <2>1 DEF AttemptsSoundAt
    <3>4. ASSUME NEW i \in 1..Len(stages'[g]) PROVE Earned(stages'[g][i].attempts)
      <4> HIDE DEF StageRecords, record
      <4>1. CASE i \in 1..Len(stages[g])
        BY <1>1, <2>1, <3>1, <4>1 DEF AttemptsSoundAt
      <4>2. CASE i = Len(stages[g]) + 1
        BY <3>1, <3>3, <4>2
      <4>3. QED BY <3>1, <4>1, <4>2
    <3>5. Earned(attempts'[g])
      BY <3>2 DEF Earned
    <3>6. QED BY <2>1, <3>2, <3>4, <3>5 DEF AttemptsSoundAt
  <2>2. CASE h # g
    BY <1>1, <1>2, <1>6, <2>2 DEF FinishStage, InStage, GateTypeOK
  <2>3. QED BY <2>1, <2>2
<1>7. ASSUME NEW g \in Gates, NEW end \in {"timeout", "success", "failure"},
             child[g] # None, Attempted(g, end), UNCHANGED <<phase, stages>>
      PROVE  AttemptsSoundAt(h)'
  <2>1. CASE h = g
    <3>1. Earned(attempts'[g]) /\ child'[g] = None
      BY <1>7, AttemptedEarned
    <3>2. InStage(g) /\ InStage(g)'
      BY <1>1, <1>7, <2>1 DEF AttemptsSoundAt, InStage
    <3>3. QED BY <1>1, <1>7, <2>1, <3>1, <3>2 DEF AttemptsSoundAt
  <2>2. CASE h # g
    BY <1>1, <1>2, <1>7, <2>2 DEF Attempted, InStage, GateTypeOK
  <2>3. QED BY <2>1, <2>2
<1>8. ASSUME NEW g \in Gates, TimesOut(g) \/ ChildFails(g) \/ ChildSucceeds(g)
      PROVE  AttemptsSoundAt(h)'
  BY <1>7, <1>8 DEF TimesOut, ChildFails, ChildSucceeds, None
<1>9. ASSUME NEW g \in Gates, ChildOpens(g) \/ ChildWrites(g)
      PROVE  AttemptsSoundAt(h)'
  <2>1. CASE h = g
    BY <1>1, <1>9, <2>1 DEF ChildOpens, ChildWrites, AttemptsSoundAt, InStage, None
  <2>2. CASE h # g
    BY <1>1, <1>2, <1>9, <2>2 DEF ChildOpens, ChildWrites, InStage, GateTypeOK
  <2>3. QED BY <2>1, <2>2
<1>10. QED
  BY <1>3, <1>4, <1>5, <1>6, <1>8, <1>9 DEF Next, GateStep, ChildStep, Finished

LEMMA CommandLineStep ==
  ASSUME TypeInv, [Next]_vars
  PROVE  CommandLineSound'
<1> SUFFICES ASSUME NEW h \in Gates
             PROVE  phase'[h] \in {"start", "raised"} \/ Accepted(config'[h])
  BY DEF CommandLineSound
<1>1. UNCHANGED config
  BY DEF Next, GateStep, ChildStep, Finished, Validate, Preflight, Launch, TimesOut,
         FinishStage, WriteManifest, WriteLatest, ChildOpens, ChildWrites, ChildFails,
         ChildSucceeds, vars, fixed
<1>2. CASE phase[h] \notin {"start", "raised"}
  BY <1>1, <1>2 DEF TypeInv, CommandLineSound
<1>3. CASE phase'[h] = phase[h]
  BY <1>1, <1>3 DEF TypeInv, CommandLineSound
<1>4. CASE phase[h] \in {"start", "raised"} /\ phase'[h] # phase[h]
  <2>1. Validate(h)
    BY <1>4 DEF Next, GateStep, ChildStep, Finished, Validate, Preflight, Launch, TimesOut,
         FinishStage, WriteManifest, WriteLatest, ChildOpens, ChildWrites, ChildFails,
         ChildSucceeds, vars, fixed, InStage, Stages, TypeInv, GateTypeOK
  <2>2. QED BY <1>1, <2>1 DEF Validate, TypeInv, GateTypeOK
<1>5. QED BY <1>2, <1>3, <1>4

LEMMA InitialInv == Init => TypeInv
<1>1. Init => AttemptsSound /\ CommandLineSound
  BY DEF Init, AttemptsSound, Earned, CommandLineSound, InStage, None
<1>2. QED BY <1>1, InitialType DEF TypeInv

LEMMA InvStep == TypeInv /\ [Next]_vars => TypeInv'
BY TypeStep, AttemptsStep, CommandLineStep DEF TypeInv

\* Every variable keeps its type: main(), its stages and their children leave nothing
\* else in the state, whatever the command lines.
THEOREM GateTypeCorrect == Spec => []GateTypeOK
<1>1. TypeInv => GateTypeOK
  BY DEF TypeInv
<1>2. QED BY <1>1, InitialInv, InvStep, PTL DEF Spec

\* A stage is retried at most once, only after a timeout, and with more time than the
\* first attempt had, for every timeout and every scale above one: _run_stage() and
\* _next_timeout_ms(), whose rounding could otherwise give the same timeout again.
THEOREM RetriesEarned == Spec => []RetriesAreEarned
<1>1. TypeInv => RetriesAreEarned
  BY DEF TypeInv, AttemptsSound, Earned, RetriesAreEarned
<1>2. QED BY <1>1, InitialInv, InvStep, PTL DEF Spec

\* No stage is started with a command line the CLI turns down: what the checks of
\* main() accept and _run_stage() passes on, argparse and the CLI's checks accept.
THEOREM StagesRunnable == Spec => []StagesAreRunnable
<1>1. TypeInv => StagesAreRunnable
  <2> SUFFICES ASSUME TypeInv, NEW g \in Gates, InStage(g)
               PROVE  ~StageRefused(g)
    BY DEF StagesAreRunnable
  <2>1. Accepted(config[g])
    BY DEF TypeInv, CommandLineSound, InStage, Stages
  <2>2. phase[g] \in Stages /\ config[g].workers[phase[g]] \subseteq Int
    BY ParsedLine DEF TypeInv, Parsed, InStage
  <2>3. QED BY <2>1, <2>2 DEF Accepted, StageRefused, CliRefuses, CliOptions
<1>2. QED BY <1>1, InitialInv, InvStep, PTL DEF Spec

-----------------------------------------------------------------------------
(* The stages that ran *)

LEMMA StageAppended ==
  ASSUME TypeInv, NEW g \in Gates, FinishStage(g)
  PROVE  /\ Len(stages[g]) \in Nat /\ Len(stages'[g]) = Len(stages[g]) + 1
         /\ \A i \in 1..Len(stages[g]) : stages'[g][i] = stages[g][i]
         /\ stages'[g][Len(stages[g]) + 1] =
              [name |-> phase[g], passed |-> StagePassed(g), attempts |-> attempts[g]]
         /\ \A h \in Gates \ {g} : stages'[h] = stages[h]
<1> DEFINE record == [name |-> phase[g], passed |-> StagePassed(g), attempts |-> attempts[g]]
           StageRecords == [name : Stages, passed : BOOLEAN, attempts : Seq(Attempts)]
<1>1. stages \in [Gates -> Seq(StageRecords)] /\ stages' = [stages EXCEPT ![g] = Append(@, record)]
  BY DEF TypeInv, GateTypeOK, FinishStage
<1> HIDE DEF record, StageRecords
<1>2. stages[g] \in Seq(StageRecords) /\ stages'[g] = Append(stages[g], record)
        /\ \A h \in Gates \ {g} : stages'[h] = stages[h]
  BY <1>1
<1>3. QED BY <1>2 DEF record

LEMMA StageNamed ==
  ASSUME TypeInv, NEW g \in Gates, FinishStage(g)
  PROVE  StageNames(g)' = StageNames(g) \cup {phase[g]}
<1>1. Len(stages[g]) \in Nat /\ Len(stages'[g]) = Len(stages[g]) + 1
  BY StageAppended
<1>2. ASSUME NEW n \in Nat PROVE 1..(n + 1) = (1..n) \cup {n + 1}
  OBVIOUS
<1>3. 1..Len(stages'[g]) = (1..Len(stages[g])) \cup {Len(stages[g]) + 1}
  BY <1>1, <1>2
<1>4. stages'[g][Len(stages[g]) + 1].name = phase[g]
  <2> DEFINE record == [name |-> phase[g], passed |-> StagePassed(g), attempts |-> attempts[g]]
  <2>1. stages'[g][Len(stages[g]) + 1] = record
    BY StageAppended
  <2>2. record.name = phase[g]
    OBVIOUS
  <2>3. QED BY <2>1, <2>2
<1>5. \A i \in 1..Len(stages[g]) : stages'[g][i].name = stages[g][i].name
  BY StageAppended
<1>6. QED BY <1>3, <1>4, <1>5, Zenon DEF StageNames

LEMMA InitialStages == Init => StagesSound
<1> SUFFICES ASSUME Init, NEW g \in Gates PROVE StagesSoundAt(g)
  BY DEF StagesSound
<1>1. stages[g] = <<>> /\ phase[g] = "start"
  BY DEF Init
<1>2. 1..Len(stages[g]) = {}
  BY <1>1
<1>3. StageNames(g) = {}
  BY <1>2, Zenon DEF StageNames
<1>4. QED BY <1>1, <1>3 DEF StagesSoundAt, InStage, Stages

LEMMA StagesStep ==
  ASSUME TypeInv, StagesSound, [Next]_vars
  PROVE  StagesSound'
<1> SUFFICES ASSUME NEW h \in Gates PROVE StagesSoundAt(h)'
  BY DEF StagesSound
<1>1. StagesSoundAt(h) /\ GateTypeOK
  BY DEF StagesSound, TypeInv
<1>2. CASE config'[h] = config[h] /\ preflight'[h] = preflight[h] /\ stages'[h] = stages[h]
           /\ phase'[h] = phase[h]
  BY <1>1, <1>2 DEF StagesSoundAt, StageNames, InStage
<1>3. CASE UNCHANGED vars
  BY <1>2, <1>3 DEF vars, fixed, files
<1>4. ASSUME NEW g \in Gates, GateStep(g) \/ ChildStep(g), g # h PROVE StagesSoundAt(h)'
  BY <1>1, <1>2, <1>4, StageAppended
     DEF GateStep, ChildStep, Validate, Preflight, Launch, TimesOut, FinishStage, WriteManifest,
         WriteLatest, ChildOpens, ChildWrites, ChildFails, ChildSucceeds, fixed, GateTypeOK
<1>5. ASSUME Launch(h) \/ TimesOut(h) \/ ChildStep(h) PROVE StagesSoundAt(h)'
  BY <1>2, <1>5 DEF ChildStep, Launch, TimesOut, ChildOpens, ChildWrites, ChildFails,
         ChildSucceeds, fixed
<1>6. ASSUME Validate(h) PROVE StagesSoundAt(h)'
  <2>1. StageNames(h)' = StageNames(h) /\ config' = config /\ preflight' = preflight
    BY <1>6 DEF Validate, StageNames, fixed
  <2>2. phase[h] = "start" /\ phase'[h] \in {"preflight", "raised"}
    BY <1>1, <1>6 DEF Validate, GateTypeOK
  <2>3. QED BY <1>1, <2>1, <2>2 DEF StagesSoundAt, InStage, Stages
<1>7. ASSUME Preflight(h) PROVE StagesSoundAt(h)'
  <2>1. Accepted(config[h]) /\ config[h].skip \subseteq Stages
    BY <1>7, ParsedLine DEF Preflight, TypeInv, CommandLineSound, Parsed
  <2>2. config[h].skip # Stages
    BY <2>1 DEF Accepted
  <2>3. StageNames(h) = {} /\ StageNames(h)' = {} /\ config' = config
    BY <1>1, <1>7 DEF Preflight, StagesSoundAt, StageNames, fixed
  <2>4. PICK ok \in BOOLEAN : preflight'[h] = ok /\ phase'[h] = AfterPreflight(h, ok)
    BY <1>7, <1>1 DEF Preflight, GateTypeOK
  <2>5. QED BY <2>1, <2>2, <2>3, <2>4 DEF AfterPreflight, StagesSoundAt, Enabled, InStage, Stages
<1>8. ASSUME FinishStage(h) PROVE StagesSoundAt(h)'
  <2>1. StageNames(h)' = StageNames(h) \cup {phase[h]}
    BY <1>8, StageNamed
  <2>2. config' = config /\ preflight' = preflight /\ phase'[h] = AfterStage(h, phase[h])
    BY <1>8, <1>1 DEF FinishStage, fixed, GateTypeOK
  <2>3. phase[h] \in Stages /\ preflight[h] /\ phase[h] \notin config[h].skip
    BY <1>8, <1>1 DEF FinishStage, InStage, StagesSoundAt
  <2>4. config[h].skip \subseteq Stages
    BY ParsedLine DEF TypeInv, Parsed
  <2>5. CASE phase[h] = "verify"
    BY <1>1, <2>1, <2>2, <2>3, <2>4, <2>5
       DEF StagesSoundAt, AfterStage, Enabled, InStage, Stages
  <2>6. CASE phase[h] = "test"
    BY <1>1, <2>1, <2>2, <2>3, <2>4, <2>6
       DEF StagesSoundAt, AfterStage, Enabled, InStage, Stages
  <2>7. QED BY <2>3, <2>5, <2>6 DEF Stages
<1>9. ASSUME WriteManifest(h) \/ WriteLatest(h) PROVE StagesSoundAt(h)'
  <2>1. StageNames(h)' = StageNames(h) /\ config' = config /\ preflight' = preflight
    BY <1>9 DEF WriteManifest, WriteLatest, StageNames, fixed
  <2>2. phase[h] \in {"manifest", "latest"} /\ phase'[h] \in {"latest", "exited"}
    BY <1>1, <1>9 DEF WriteManifest, WriteLatest, GateTypeOK
  <2>3. QED BY <1>1, <2>1, <2>2 DEF StagesSoundAt, InStage, Stages
<1>10. QED
  BY <1>3, <1>4, <1>5, <1>6, <1>7, <1>8, <1>9 DEF Next, GateStep, Finished

\* Exit code 0 means that the probe succeeded and that every stage the command line
\* asks for ran and passed: main() cannot get there with a stage left out.
THEOREM ExitHonest == Spec => []GateExitHonest
<1> DEFINE Inv == TypeInv /\ StagesSound
<1>1. Init => Inv
  <2>1. Init => StagesSound
    BY InitialStages
  <2>2. QED BY <2>1, InitialInv
<1>2. Inv /\ [Next]_vars => Inv'
  BY InvStep, StagesStep
<1>3. Inv => GateExitHonest
  BY DEF StagesSound, StagesSoundAt, StageNames, GateExitHonest, ExitCode, OverallPassed
<1>4. QED BY <1>1, <1>2, <1>3, PTL DEF Spec

-----------------------------------------------------------------------------
(* The verdicts *)

LEMMA FixedFields == [Next]_vars => config' = config /\ runId' = runId
BY DEF Next, GateStep, ChildStep, Finished, Validate, Preflight, Launch, TimesOut, FinishStage,
       WriteManifest, WriteLatest, ChildOpens, ChildWrites, ChildFails, ChildSucceeds, vars, fixed

\* A write to another run directory, or for another stage, leaves a file as it was.
LEMMA CertifiedKept ==
  ASSUME TypeInv, NEW g \in Gates, NEW n, NEW f \in Seconds \X Stages,
         NEW file \in Seconds \X Stages, NEW v \in Outputs,
         output' = Written(output, file, v), f # file, Certified(f, g, n)
  PROVE  Certified(f, g, n)'
<1>1. DOMAIN output \subseteq Seconds \X Stages /\ output \in [DOMAIN output -> Outputs]
  BY DEF TypeInv, GateTypeOK
<1>2. DOMAIN output' = DOMAIN output \cup {file}
        /\ \A y \in DOMAIN output : y # file => output'[y] = output[y]
  <2>1. DOMAIN Written(output, file, v) = DOMAIN output \cup {file}
          /\ \A y \in DOMAIN output : y # file => Written(output, file, v)[y] = output[y]
    BY DEF Written
  <2>2. QED BY <2>1
<1>3. QED BY <1>2 DEF Certified

\* The verdicts of h stand as long as its attempts, its child, its stages and its
\* phase do, and its files are not written.
LEMMA VerdictKept ==
  ASSUME TypeInv, NEW h \in Gates, VerdictSoundAt(h), runId' = runId,
         attempts'[h] = attempts[h], child'[h] = child[h], stages'[h] = stages[h],
         phase'[h] = phase[h],
         \A n, s : Alone(h) /\ Certified(<<runId[h], s>>, h, n) =>
                     Certified(<<runId[h], s>>, h, n)'
  PROVE  VerdictSoundAt(h)'
BY DEF VerdictSoundAt, Alone, OutputOf, LastOf

\* What a child of another gate writes is in another directory.
LEMMA OthersFilesKept ==
  ASSUME TypeInv, NEW g \in Gates, NEW h \in Gates \ {g}, ChildOpens(g) \/ ChildWrites(g)
  PROVE  \A n, s : Alone(h) /\ Certified(<<runId[h], s>>, h, n) => Certified(<<runId[h], s>>, h, n)'
<1> SUFFICES ASSUME NEW n, NEW s, Alone(h), Certified(<<runId[h], s>>, h, n)
             PROVE  Certified(<<runId[h], s>>, h, n)'
  <2>1. runId' = runId
    BY DEF ChildOpens, ChildWrites, fixed
  <2>2. QED BY <2>1
<1>1. child[g] # None
  BY DEF ChildOpens, ChildWrites, None
<1>2. PICK whole \in BOOLEAN, ok \in BOOLEAN :
        output' = Written(output, OutputOf(g), Summary(g, whole, ok))
  BY DEF ChildOpens, ChildWrites
<1>3. Summary(g, whole, ok) \in Outputs /\ OutputOf(g) \in Seconds \X Stages
  BY <1>1, SummaryType DEF TypeInv
<1>4. <<runId[h], s>> # OutputOf(g)
  BY DEF Alone, OutputOf
<1>5. <<runId[h], s>> \in Seconds \X Stages
  BY DEF Certified, TypeInv, GateTypeOK
<1>6. Certified(<<runId[h], s>>, h, n)'
  <2>1. runId' = runId
    BY DEF ChildOpens, ChildWrites, fixed
  <2> DEFINE f == <<runId[h], s>>
  <2>2. f' = f
    BY <2>1
  <2>3. f \in Seconds \X Stages /\ f # OutputOf(g) /\ Certified(f, h, n)
    BY <1>4, <1>5
  <2>4. Certified(f, h, n)'
    BY <1>2, <1>3, <2>2, <2>3, CertifiedKept
  <2>5. QED BY <2>4
<1>7. QED BY <1>6

\* The stage in progress has a file of its own.
LEMMA OwnFilesKept ==
  ASSUME TypeInv, StagesSound, NEW g \in Gates, ChildOpens(g) \/ ChildWrites(g),
         NEW i \in 1..Len(stages[g]), NEW n, Certified(<<runId[g], stages[g][i].name>>, g, n)
  PROVE  Certified(<<runId[g], stages[g][i].name>>, g, n)'
<1>1. child[g] # None
  BY DEF ChildOpens, ChildWrites, None
<1>2. InStage(g)
  BY <1>1 DEF TypeInv, AttemptsSound
<1>3. stages[g][i].name # phase[g]
  <2>1. stages[g][i].name \in StageNames(g)
    BY DEF StageNames
  <2>2. QED BY <1>2, <2>1 DEF StagesSound, StagesSoundAt, InStage, Stages
<1>4. PICK whole \in BOOLEAN, ok \in BOOLEAN :
        output' = Written(output, OutputOf(g), Summary(g, whole, ok))
  BY DEF ChildOpens, ChildWrites
<1>5. Summary(g, whole, ok) \in Outputs /\ OutputOf(g) \in Seconds \X Stages
  BY <1>1, SummaryType DEF TypeInv
<1>6. runId' = runId /\ stages' = stages
  BY DEF ChildOpens, ChildWrites, fixed
<1>7. QED
  <2> DEFINE f == <<runId[g], stages[g][i].name>>
  <2>1. f' = f
    BY <1>6
  <2>2. f \in Seconds \X Stages /\ f # OutputOf(g) /\ Certified(f, g, n)
    BY <1>3 DEF Certified, TypeInv, GateTypeOK, OutputOf
  <2>3. Certified(f, g, n)'
    BY <1>4, <1>5, <2>1, <2>2, CertifiedKept
  <2>4. QED BY <2>3

\* What the child writes last is the summary of the attempt in progress.
LEMMA OwnFileWritten ==
  ASSUME TypeInv, NEW g \in Gates, ChildWrites(g), child'[g] = "wrotePass"
  PROVE  Certified(OutputOf(g), g, Len(attempts[g]) + 1)'
<1>1. child[g] # None
  BY DEF ChildWrites, None
<1>2. PICK ok \in BOOLEAN :
        /\ output' = Written(output, OutputOf(g), Summary(g, TRUE, ok))
        /\ child' = [child EXCEPT ![g] = IF ok THEN "wrotePass" ELSE "wroteFail"]
  BY DEF ChildWrites
<1>3. ok
  BY <1>2 DEF TypeInv, GateTypeOK
<1>4. Summary(g, TRUE, ok) \in Outputs /\ OutputOf(g) \in Seconds \X Stages
  BY <1>1, SummaryType DEF TypeInv
<1>5. DOMAIN output \subseteq Seconds \X Stages /\ output \in [DOMAIN output -> Outputs]
  BY DEF TypeInv, GateTypeOK
<1>6. OutputOf(g) \in DOMAIN output' /\ output'[OutputOf(g)] = Summary(g, TRUE, ok)
  <2> DEFINE W == Written(output, OutputOf(g), Summary(g, TRUE, ok))
  <2>1. DOMAIN W = DOMAIN output \cup {OutputOf(g)} /\ W[OutputOf(g)] = Summary(g, TRUE, ok)
    BY DEF Written
  <2>2. output' = W
    BY <1>2
  <2> HIDE DEF W
  <2>3. QED BY <2>1, <2>2
<1>7. OutputOf(g)' = OutputOf(g) /\ attempts' = attempts
  BY DEF ChildWrites, fixed, OutputOf
<1>8. QED BY <1>3, <1>6, <1>7 DEF Certified, Summary

LEMMA VerdictStep ==
  ASSUME TypeInv, StagesSound, VerdictSound, [Next]_vars
  PROVE  VerdictSound'
<1> SUFFICES ASSUME NEW h \in Gates PROVE VerdictSoundAt(h)'
  BY DEF VerdictSound
<1>1. VerdictSoundAt(h) /\ GateTypeOK /\ config' = config /\ runId' = runId
  BY FixedFields DEF VerdictSound, TypeInv
<1>2. CASE output' = output /\ attempts'[h] = attempts[h] /\ child'[h] = child[h]
           /\ stages'[h] = stages[h] /\ phase'[h] = phase[h]
  <2>1. \A n, s : Certified(<<runId[h], s>>, h, n) => Certified(<<runId[h], s>>, h, n)'
    BY <1>1, <1>2 DEF Certified
  <2>2. QED BY <1>1, <1>2, <2>1, VerdictKept
<1>3. CASE UNCHANGED vars
  BY <1>2, <1>3 DEF vars, fixed, files
<1>4. ASSUME NEW g \in Gates, GateStep(g) \/ ChildFails(g) \/ ChildSucceeds(g), g # h
      PROVE  VerdictSoundAt(h)'
  BY <1>1, <1>2, <1>4, StageAppended
     DEF GateStep, Validate, Preflight, Launch, TimesOut, FinishStage, WriteManifest,
         WriteLatest, ChildFails, ChildSucceeds, Attempted, files, GateTypeOK
<1>5. ASSUME NEW g \in Gates, ChildOpens(g) \/ ChildWrites(g), g # h PROVE VerdictSoundAt(h)'
  <2>1. attempts'[h] = attempts[h] /\ child'[h] = child[h]
           /\ stages'[h] = stages[h] /\ phase'[h] = phase[h]
    BY <1>1, <1>5 DEF ChildOpens, ChildWrites, GateTypeOK
  <2>2. QED BY <1>1, <1>5, <2>1, OthersFilesKept, VerdictKept
<1>6. ASSUME Validate(h) \/ Preflight(h) \/ WriteManifest(h) \/ WriteLatest(h)
      PROVE  VerdictSoundAt(h)'
  <2>1. attempts[h] = <<>> /\ child[h] = None
    BY <1>6 DEF Validate, Preflight, WriteManifest, WriteLatest, TypeInv, AttemptsSound,
         InStage, Stages
  <2>2. UNCHANGED <<attempts, child, stages, output>>
    BY <1>6 DEF Validate, Preflight, WriteManifest, WriteLatest, files
  <2>3. QED BY <1>1, <2>1, <2>2 DEF VerdictSoundAt, Alone, Certified, None
<1>7. ASSUME Launch(h) PROVE VerdictSoundAt(h)'
  <2>1. child'[h] = "running" /\ UNCHANGED <<attempts, stages, output, phase>>
    BY <1>1, <1>7 DEF Launch, files, GateTypeOK
  <2>2. QED BY <1>1, <2>1 DEF VerdictSoundAt, Alone, Certified, OutputOf, LastOf
<1>8. ASSUME NEW end \in {"timeout", "success", "failure"}, Attempted(h, end), child[h] # None,
             end = "success" => child[h] = "wrotePass", UNCHANGED <<phase, stages, output>>
      PROVE  VerdictSoundAt(h)'
  <2> DEFINE record == [timeoutMs |-> TimeoutOf(h), end |-> end]
  <2>1. attempts[h] \in Seq(Attempts) /\ attempts'[h] = Append(attempts[h], record)
          /\ child'[h] = None
    BY <1>1, <1>8 DEF Attempted, GateTypeOK
  <2>2. Len(attempts'[h]) = Len(attempts[h]) + 1 /\ LastOf(attempts'[h]) = record
    <3> HIDE DEF record
    <3>1. QED BY <2>1 DEF LastOf
  <2>3. LastOf(attempts'[h]).end = end
    BY <2>2
  <2>4. Alone(h) /\ end = "success" => Certified(OutputOf(h), h, Len(attempts[h]) + 1)
    BY <1>1, <1>8 DEF VerdictSoundAt
  <2>5. Alone(h) /\ end = "success" => Certified(OutputOf(h), h, Len(attempts[h]))'
    BY <1>1, <1>8, <2>2, <2>4 DEF Certified, OutputOf
  <2>6. Alone(h)' = Alone(h)
    BY <1>1 DEF Alone
  <2>7. ASSUME Alone(h), NEW i \in 1..Len(stages[h]), stages[h][i].passed
        PROVE  Certified(<<runId[h], stages[h][i].name>>, h, Len(stages[h][i].attempts))'
    BY <1>1, <1>8, <2>7 DEF VerdictSoundAt, Certified
  <2>8. QED
    BY <1>8, <2>1, <2>3, <2>5, <2>6, <2>7 DEF VerdictSoundAt, None
<1>9. ASSUME TimesOut(h) \/ ChildFails(h) \/ ChildSucceeds(h) PROVE VerdictSoundAt(h)'
  BY <1>8, <1>9 DEF TimesOut, ChildFails, ChildSucceeds, None, files
<1>10. ASSUME FinishStage(h) PROVE VerdictSoundAt(h)'
  <2>1. attempts'[h] = <<>> /\ child'[h] = None /\ attempts[h] # <<>> /\ output' = output
    BY <1>1, <1>10 DEF FinishStage, files, GateTypeOK
  <2> DEFINE record == [name |-> phase[h], passed |-> StagePassed(h), attempts |-> attempts[h]]
             n == Len(stages[h])
  <2>2. Len(stages'[h]) = n + 1 /\ n \in Nat /\ stages'[h][n + 1] = record
          /\ \A i \in 1..n : stages'[h][i] = stages[h][i]
    BY <1>10, StageAppended
  <2>3. ASSUME Alone(h), NEW i \in 1..n, stages[h][i].passed
        PROVE  Certified(<<runId[h], stages[h][i].name>>, h, Len(stages[h][i].attempts))
    BY <1>1, <2>3 DEF VerdictSoundAt
  <2>4. ASSUME Alone(h), record.passed
        PROVE  Certified(<<runId[h], record.name>>, h, Len(record.attempts))
    BY <1>1, <2>1, <2>4 DEF VerdictSoundAt, StagePassed, OutputOf
  <2>5. ASSUME Alone(h), NEW i \in 1..(n + 1), stages'[h][i].passed
        PROVE  Certified(<<runId[h], stages'[h][i].name>>, h, Len(stages'[h][i].attempts))
    <3> HIDE DEF record
    <3>1. CASE i \in 1..n
      BY <2>2, <2>3, <2>5, <3>1
    <3>2. CASE i = n + 1
      BY <2>2, <2>4, <2>5, <3>2
    <3>3. QED BY <2>2, <3>1, <3>2
  <2>6. QED BY <1>1, <2>1, <2>2, <2>5 DEF VerdictSoundAt, Alone, Certified, None
<1>11. ASSUME ChildOpens(h) \/ ChildWrites(h) PROVE VerdictSoundAt(h)'
  <2>1. UNCHANGED <<attempts, stages, phase>> /\ child[h] # None
    BY <1>11 DEF ChildOpens, ChildWrites, None
  <2>2. attempts[h] = <<>> \/ LastOf(attempts[h]).end = "timeout"
    BY <2>1 DEF TypeInv, AttemptsSound, LastOf
  <2>3. child'[h] = "wrotePass" => Certified(OutputOf(h), h, Len(attempts[h]) + 1)'
    BY <1>1, <1>11, OwnFileWritten DEF ChildOpens, GateTypeOK
  <2>4. ASSUME Alone(h), NEW i \in 1..Len(stages[h]), stages[h][i].passed
        PROVE  Certified(<<runId[h], stages[h][i].name>>, h, Len(stages[h][i].attempts))'
    <3>1. Certified(<<runId[h], stages[h][i].name>>, h, Len(stages[h][i].attempts))
      BY <1>1, <2>4 DEF VerdictSoundAt
    <3> DEFINE k == Len(stages[h][i].attempts)
    <3>2. k' = k
      BY <2>1
    <3>3. Certified(<<runId[h], stages[h][i].name>>, h, k)
      BY <3>1
    <3> HIDE DEF k
    <3>4. \A n : Certified(<<runId[h], stages[h][i].name>>, h, n) =>
                 Certified(<<runId[h], stages[h][i].name>>, h, n)'
      BY <1>11, OwnFilesKept
    <3>5. QED BY <3>2, <3>3, <3>4 DEF Certified, k
  <2>5. Alone(h)' = Alone(h)
    BY <1>1 DEF Alone
  <2>6. QED BY <1>1, <2>1, <2>2, <2>3, <2>4, <2>5 DEF VerdictSoundAt, LastOf
<1>12. QED
  BY <1>3, <1>4, <1>5, <1>6, <1>7, <1>9, <1>10, <1>11 DEF Next, GateStep, ChildStep, Finished

\* A stage that passed was certified by its own last attempt: what a killed attempt or
\* another stage left in the run directory is never read as its summary.
THEOREM VerdictFromLastAttempt == Spec => []VerdictIsLastAttempts
<1> DEFINE Inv == TypeInv /\ StagesSound /\ VerdictSound
<1>1. Init => Inv
  <2>1. Init => StagesSound
    BY InitialStages
  <2>2. Init => VerdictSound
    BY DEF Init, VerdictSound, VerdictSoundAt, None
  <2>3. QED BY <2>1, <2>2, InitialInv
<1>2. Inv /\ [Next]_vars => Inv'
  BY InvStep, StagesStep, VerdictStep
<1>3. Inv => VerdictIsLastAttempts
  BY DEF VerdictSound, VerdictSoundAt, VerdictIsLastAttempts, Certified
<1>4. QED BY <1>1, <1>2, <1>3, PTL DEF Spec

-----------------------------------------------------------------------------
(* What is published *)

\* From the manifest on, a gate's verdict does not change.
LEMMA OverallKept ==
  ASSUME TypeInv, [Next]_vars, NEW h \in Gates, phase[h] \in {"latest", "exited"}
  PROVE  OverallPassed(h)' = OverallPassed(h) /\ phase'[h] \in {"latest", "exited"}
<1>1. stages'[h] = stages[h] /\ preflight'[h] = preflight[h] /\ phase'[h] \in {"latest", "exited"}
  <2>1. ~InStage(h) /\ GateTypeOK
    BY DEF InStage, Stages, TypeInv
  <2>2. ASSUME NEW g \in Gates, FinishStage(g) PROVE stages'[h] = stages[h]
    <3>1. g # h
      BY <2>1, <2>2 DEF FinishStage
    <3>2. QED BY <2>2, <3>1, StageAppended
  <2>3. QED BY <2>1, <2>2 DEF Next, GateStep, ChildStep, Finished, Validate, Preflight, Launch,
         TimesOut, FinishStage, WriteManifest, WriteLatest, ChildOpens, ChildWrites,
         ChildFails, ChildSucceeds, vars, InStage, GateTypeOK
<1>2. QED BY <1>1 DEF OverallPassed

LEMMA PublishStep ==
  ASSUME TypeInv, PublishSound, [Next]_vars
  PROVE  PublishSound'
<1>1. GateTypeOK /\ runId' = runId
  BY FixedFields DEF TypeInv
<1>2. \A r \in DOMAIN manifest : manifest[r].by \in Gates
  BY <1>1 DEF GateTypeOK
<1>3. CASE manifest' = manifest /\ latest' = latest
           /\ \A h \in Gates : phase'[h] \in {"latest", "exited"} => phase[h] \in {"latest", "exited"}
  <2>1. \A h \in Gates : phase[h] = "exited" => phase'[h] = "exited"
    BY <1>1 DEF Next, GateStep, ChildStep, Finished, Validate, Preflight, Launch,
         TimesOut, FinishStage, WriteManifest, WriteLatest, ChildOpens, ChildWrites,
         ChildFails, ChildSucceeds, vars, InStage, Stages, GateTypeOK
  <2>2. ASSUME NEW r \in DOMAIN manifest
        PROVE  \E h \in Gates : manifest[r].by = h /\ runId[h] = r /\ phase'[h] \in {"latest", "exited"}
                 /\ manifest[r].passed = OverallPassed(h)'
    BY OverallKept DEF PublishSound
  <2>3. ASSUME NEW p \in latest
        PROVE  \E h \in Gates : runId[h] = p.run /\ phase'[h] = "exited" /\ p.passed = OverallPassed(h)'
    <3>1. PICK h \in Gates : runId[h] = p.run /\ phase[h] = "exited" /\ p.passed = OverallPassed(h)
      BY DEF PublishSound
    <3>2. QED BY <2>1, <3>1, OverallKept
  <2>4. \A r \in DOMAIN manifest' :
          \E h \in Gates : manifest'[r].by = h /\ runId'[h] = r /\ phase'[h] \in {"latest", "exited"}
             /\ manifest'[r].passed = OverallPassed(h)'
    BY <1>1, <1>3, <2>2
  <2>5. \A h \in Gates : phase'[h] \in {"latest", "exited"} => runId'[h] \in DOMAIN manifest'
    BY <1>1, <1>3 DEF PublishSound
  <2>6. \A p \in latest' :
          \E h \in Gates : runId'[h] = p.run /\ phase'[h] = "exited" /\ p.passed = OverallPassed(h)'
    BY <1>1, <1>3, <2>3
  <2>7. QED BY <2>4, <2>5, <2>6 DEF PublishSound
<1>4. ASSUME NEW g \in Gates, WriteManifest(g) PROVE PublishSound'
  <2> DEFINE m == [by |-> g, passed |-> OverallPassed(g)]
  <2>1. manifest' = Written(manifest, runId[g], m) /\ latest' = latest
          /\ phase' = [phase EXCEPT ![g] = "latest"] /\ phase[g] = "manifest"
    BY <1>4 DEF WriteManifest
  <2>2. DOMAIN manifest' = DOMAIN manifest \cup {runId[g]} /\ manifest'[runId[g]] = m
          /\ \A r \in DOMAIN manifest : r # runId[g] => manifest'[r] = manifest[r]
    BY <2>1 DEF Written
  <2>3. \A h \in Gates : OverallPassed(h)' = OverallPassed(h)
    BY <1>4 DEF WriteManifest, OverallPassed
  <2>4. phase'[g] = "latest" /\ \A h \in Gates \ {g} : phase'[h] = phase[h]
    BY <1>1, <2>1 DEF GateTypeOK
  <2>5. m.by = g /\ m.passed = OverallPassed(g)
    OBVIOUS
  <2>6. ASSUME NEW r \in DOMAIN manifest'
        PROVE  \E h \in Gates : manifest'[r].by = h /\ runId[h] = r /\ phase'[h] \in {"latest", "exited"}
                 /\ manifest'[r].passed = OverallPassed(h)'
    <3> HIDE DEF m
    <3>1. CASE r = runId[g]
      BY <2>2, <2>3, <2>4, <2>5, <3>1
    <3>2. CASE r # runId[g]
      <4>1. r \in DOMAIN manifest /\ manifest'[r] = manifest[r] /\ manifest[r].by \in Gates
        BY <1>2, <2>2, <3>2
      <4>2. PICK h \in Gates : manifest[r].by = h /\ runId[h] = r /\ phase[h] \in {"latest", "exited"}
                 /\ manifest[r].passed = OverallPassed(h)
        BY <4>1 DEF PublishSound
      <4>3. phase'[h] \in {"latest", "exited"}
        BY <2>4, <4>2
      <4>4. QED BY <2>3, <4>1, <4>2, <4>3
    <3>3. QED BY <3>1, <3>2
  <2>7. \A h \in Gates : phase'[h] \in {"latest", "exited"} => runId[h] \in DOMAIN manifest'
    BY <2>2, <2>4 DEF PublishSound
  <2>8. ASSUME NEW p \in latest
        PROVE  \E h \in Gates : runId[h] = p.run /\ phase'[h] = "exited" /\ p.passed = OverallPassed(h)'
    <3>1. PICK h \in Gates : runId[h] = p.run /\ phase[h] = "exited" /\ p.passed = OverallPassed(h)
      BY DEF PublishSound
    <3>2. QED BY <2>1, <2>3, <2>4, <3>1
  <2>9. QED BY <1>1, <2>1, <2>6, <2>7, <2>8 DEF PublishSound, OverallPassed
<1>5. ASSUME NEW g \in Gates, WriteLatest(g) PROVE PublishSound'
  <2>1. phase[g] = "latest" /\ phase'[g] = "exited"
          /\ \A h \in Gates \ {g} : phase'[h] = phase[h]
    BY <1>1, <1>5 DEF WriteLatest, GateTypeOK
  <2>2. manifest' = manifest /\ latest' = {[run |-> runId[g], passed |-> OverallPassed(g)]}
    BY <1>5 DEF WriteLatest
  <2>3. \A h \in Gates : OverallPassed(h)' = OverallPassed(h)
    BY <1>5 DEF WriteLatest, OverallPassed
  <2>4. ASSUME NEW r \in DOMAIN manifest
        PROVE  \E h \in Gates : manifest[r].by = h /\ runId[h] = r /\ phase'[h] \in {"latest", "exited"}
                 /\ manifest[r].passed = OverallPassed(h)'
    BY <2>1, <2>3 DEF PublishSound
  <2>5. \A h \in Gates : phase'[h] \in {"latest", "exited"} => runId[h] \in DOMAIN manifest
    BY <2>1 DEF PublishSound
  <2>6. ASSUME NEW p \in latest'
        PROVE  \E h \in Gates : runId[h] = p.run /\ phase'[h] = "exited" /\ p.passed = OverallPassed(h)'
    BY <2>1, <2>2, <2>3
  <2>7. QED BY <1>1, <2>2, <2>4, <2>5, <2>6 DEF PublishSound, OverallPassed
<1>6. ASSUME NEW g \in Gates,
             Validate(g) \/ Preflight(g) \/ Launch(g) \/ TimesOut(g) \/ FinishStage(g) \/ ChildStep(g)
      PROVE  PublishSound'
  BY <1>1, <1>3, <1>6 DEF Validate, Preflight, Launch, TimesOut, FinishStage, ChildStep,
         ChildOpens, ChildWrites, ChildFails, ChildSucceeds, files, AfterPreflight, AfterStage,
         GateTypeOK
<1>7. CASE UNCHANGED vars
  BY <1>3, <1>7 DEF vars, files
<1>8. QED BY <1>4, <1>5, <1>6, <1>7 DEF Next, GateStep, Finished

\* latest.json never points at a run without a manifest, and tells its verdict, however
\* the gates that share an output root interleave, as long as no two share a second.
THEOREM LatestPublished == Spec => []LatestIsPublished
<1> DEFINE Inv == TypeInv /\ PublishSound
<1>1. Init => Inv
  <2>1. Init => PublishSound
    BY DEF Init, PublishSound
  <2>2. QED BY <2>1, InitialInv
<1>2. Inv /\ [Next]_vars => Inv'
  BY InvStep, PublishStep
<1>3. Inv => LatestIsPublished
  <2> SUFFICES ASSUME Inv, NEW p \in latest
               PROVE  /\ p.run \in DOMAIN manifest
                      /\ Alone(manifest[p.run].by) => manifest[p.run].passed = p.passed
    BY DEF LatestIsPublished
  <2>1. PICK h \in Gates : runId[h] = p.run /\ phase[h] = "exited" /\ p.passed = OverallPassed(h)
    BY DEF PublishSound
  <2>2. p.run \in DOMAIN manifest
    BY <2>1 DEF PublishSound
  <2>3. runId[manifest[p.run].by] = p.run /\ manifest[p.run].passed = OverallPassed(manifest[p.run].by)
    BY <2>2 DEF PublishSound
  <2>4. Alone(manifest[p.run].by) => h = manifest[p.run].by
    BY <2>1, <2>3 DEF Alone
  <2>5. QED BY <2>1, <2>2, <2>3, <2>4
<1>4. QED BY <1>1, <1>2, <1>3, PTL DEF Spec
=============================================================================
