---------------------------- MODULE MCGuardedGate ----------------------------
(* Two gates over one output root: the first runs both stages or is refused, *)
(* the second runs one stage.                                                *)
EXTENDS GuardedGate

Both(x) == [stage \in Stages |-> x]
Line(skip, serial, workers, timeoutMs, scale) ==
    [skip |-> skip, serial |-> serial, workers |-> workers,
     timeoutMs |-> timeoutMs, scale |-> scale]

NoWorkers == Both({})
Times == [verify |-> 1, test |-> 3]
FirstGate ==
    {Line({}, FALSE, NoWorkers, Times, <<101, 100>>),
     Line(Stages, FALSE, NoWorkers, Both(1), <<3, 2>>),
     Line({}, FALSE, [verify |-> {}, test |-> {-1}], Both(1), <<3, 2>>),
     Line({}, TRUE, NoWorkers, [verify |-> 1, test |-> 0], <<3, 2>>),
     Line({}, TRUE, NoWorkers, Both(1), <<1, 1>>)}
OneStage == Line({"test"}, TRUE, Both({2}), Both(3), <<3, 2>>)
OtherStage == Line({"verify"}, FALSE, [verify |-> {}, test |-> {0}], Both(1), <<3, 1>>)

MCGates == {1, 2}
MCConfigs == {<<a, OneStage>> : a \in FirstGate}
             \cup {<<Line(Stages, TRUE, NoWorkers, Both(1), <<3, 2>>), OtherStage>>}
=============================================================================
