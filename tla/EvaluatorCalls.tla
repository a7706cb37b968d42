--------------------------- MODULE EvaluatorCalls ---------------------------
(***************************************************************************)
(* The calls of ObjectiveEvaluator seen from outside: what a whole call    *)
(* has done by the time it returns.  The history variable atCall keeps the *)
(* evaluator's state at the start of a call, so that what a batch returns  *)
(* can be compared with what the evaluation of its vectors one by one      *)
(* would have returned, and a call with one Ask of SearchObjective.        *)
(***************************************************************************)
EXTENDS ObjectiveEvaluator, SequencesExt

VARIABLE atCall

StateNow == [cache |-> cache, total |-> total, valid |-> valid,
             infeasible |-> infeasible, best |-> best]

\* A step that ends a call leaves atCall at the state in which the call began.
Remember == atCall' = IF phase = "idle" THEN StateNow ELSE atCall

HistoryInit == Init /\ atCall = StateNow

HistorySpec == HistoryInit /\ [][Next /\ Remember]_<<vars, atCall>>

-----------------------------------------------------------------------------
(* The serial evaluation of a request, as a fold over its keys *)

\* evaluate_vector on a state, for a key that does not raise.
SerialStep(s, k) ==
  LET e == EntryOf(Candidate(k))
      better == \/ s.best = NoBest
                \/ e.score < s.best.score - TieTol
                \/ /\ e.score - s.best.score \in -TieTol..TieTol
                   /\ SurfaceOf[k] < SurfaceOf[s.best.vector]
  IN  IF s.cache[k] # NotCached THEN s
      ELSE IF s.total >= MaxEvaluations THEN [s EXCEPT !.cache[k] = RefusedEntry]
      ELSE [cache |-> [s.cache EXCEPT ![k] = e],
            total |-> s.total + 1,
            valid |-> s.valid + (IF e.reason = "valid" THEN 1 ELSE 0),
            infeasible |-> s.infeasible + (IF e.reason = "valid" THEN 0 ELSE 1),
            best |-> IF e.reason = "valid" /\ better
                       THEN [vector |-> k, score |-> e.score] ELSE s.best]

(* Batch semantics match serial: when a batch call returns, cache, budget, *)
(* counters, incumbent and the answers are those of evaluating its vectors *)
(* one by one in order (test_batch_semantics_match_serial).                *)
BatchMatchesSerial ==
  [][/\ phase = "merging" /\ phase' = "idle" =>
          LET serial == FoldLeft(SerialStep, atCall, request)
          IN  /\ StateNow' = serial
              /\ returned' = [i \in DOMAIN request |-> serial.cache[request[i]]]
     /\ \A v \in Vectors :
          EvaluateVector(v) /\ phase' = "idle" =>
            LET serial == SerialStep(StateNow, Normalize[v])
            IN  StateNow' = serial /\ returned' = <<serial.cache[Normalize[v]]>>
    ]_<<vars, atCall>>

-----------------------------------------------------------------------------
(* What SearchObjective says of a call, in the state at its start *)

\* Scores are handed to MemoAfter, none is chosen.
NoScores(k) == {}

Known(entries) == Restrict(entries, {k \in Keys : entries[k] # NotCached})

Objective == INSTANCE SearchObjective WITH
  ScoresAt <- NoScores, config <- [maxEvaluations |-> MaxEvaluations],
  memo <- Known(atCall.cache), spent <- atCall.total

IsAskOf(keys) ==
  /\ Known(cache) =
       Objective!MemoAfter(keys, [k \in Keys |-> EntryOf(Candidate(k))], RefusedEntry)
  /\ total = Objective!SpentAfter(keys)

(* A call of the evaluator, of one vector or of a batch, however many steps *)
(* its loops take, amounts to one Ask of SearchObjective, on which the      *)
(* models of the search strategies are built: the same points evaluated,    *)
(* the same points refused.                                                 *)
CallIsOneAsk ==
  [][/\ phase = "merging" /\ phase' = "idle" =>
          \A keys \in {request} : IsAskOf(keys)'
     /\ \A v \in Vectors :
          EvaluateVector(v) /\ phase' = "idle" => IsAskOf(<<Normalize[v]>>)'
    ]_<<vars, atCall>>
=============================================================================
