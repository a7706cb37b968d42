---------------------------- MODULE SpencerSolver ----------------------------
(***************************************************************************)
(* lem_core/spencer.py: the choice SpencerSolver makes among the roots its *)
(* starts lead to, and the fallback to lambda = 0.                         *)
(***************************************************************************)
EXTENDS LemSolver

CONSTANTS
    PlainStarts,        \* how many starts there are without horizontal forces
    HorizontalStarts,   \* and with them
    Probes              \* the factors of safety the fallback probes, ascending

ASSUME SpencerAssumption ==
    /\ PlainStarts \in Nat \ {0} /\ HorizontalStarts \in Nat \ {0}
    /\ Probes \in Seq(FosValues \ {0})
    /\ \A i, k \in 1..Len(Probes) : i < k => Probes[i] < Probes[k]

VARIABLES
    starts,     \* how many starts are done
    best,       \* best_state, {} before there is one
    bestAny,    \* best_any_norm and its m_alpha, {} before there is one
    met,        \* what the starts led to so far, which nothing reads
    probe,      \* how many probes are done
    lastProbe,  \* <<last_f, last_r>>, or << >>
    bracket     \* <<left, right>> with the residuals found there, or << >>

spencerVars == <<starts, best, bestAny, met, probe, lastProbe, bracket>>

\* _SpencerState; the residuals are absolute values.
States == [fos : FosValues \ {0}, force : Residuals, moment : Residuals, low : BOOLEAN]

Norm(s) == s.force + s.moment

Summary(s) == [norm |-> Norm(s), low |-> s.low]

SpencerInit ==
    /\ starts = 0 /\ best = {} /\ bestAny = {} /\ met = {}
    /\ probe = 0 /\ lastProbe = << >> /\ bracket = << >>

StartSpencer ==
    /\ solving = "called" /\ task.method = "spencer"
    /\ IF Refused THEN Raise
       ELSE solving' = "starts" /\ UNCHANGED <<task, answer>>
    /\ UNCHANGED spencerVars

StartCount == IF task.horizontal THEN HorizontalStarts ELSE PlainStarts

\* Only with horizontal forces is a state of low m_alpha passed over.
Eligible(s) == ~(task.horizontal /\ s.low)

KeepBetter(s) == IF \A b \in best : Norm(s) < Norm(b) THEN {s} ELSE best

\* root() of one start: no success, a lambda out of bounds, or equations that
\* cannot be evaluated pass it over; otherwise it leads to some state.
TryStart ==
    /\ solving = "starts" /\ starts < StartCount
    /\ starts' = starts + 1
    /\ \/ UNCHANGED <<best, bestAny, met>>
       \/ \E s \in States :
             /\ met' = met \cup {Summary(s)}
             /\ bestAny' = IF \A b \in bestAny : Norm(s) < b.norm THEN {Summary(s)}
                           ELSE bestAny
             /\ best' = IF Eligible(s) THEN KeepBetter(s) ELSE best
    /\ UNCHANGED <<solverVars, probe, lastProbe, bracket>>

\* Fault: the fallback also replaces a candidate that is not good enough.
FallbackUnlessGood == best = {} \/ \E b \in best : b.force > task.tolerance

NeedsFallback == best = {}

\* After the last start: the best state, or the fallback, which is only for slices
\* with horizontal forces.
EndStarts ==
    /\ solving = "starts" /\ starts = StartCount
    /\ IF ~NeedsFallback
       THEN solving' = "two_dimensional" /\ UNCHANGED <<task, answer>>
       ELSE IF task.horizontal
       THEN solving' = "probing" /\ UNCHANGED <<task, answer>>
       ELSE Raise
    /\ UNCHANGED spencerVars

-----------------------------------------------------------------------------
(* solve_lambda_zero_fallback(): the force residual at lambda = 0 of the   *)
(* probes in ascending order, until one is within the tolerance or two     *)
(* neighbours differ in sign.                                              *)

SignedResiduals == Residuals \cup {-r : r \in Residuals}

Abs(r) == Distance(r, 0)

\* A probe that cannot be evaluated, or not to a finite residual, is left out and
\* the one before it remains the last.
Skips == UNCHANGED lastProbe

Brackets(r) == lastProbe # << >> /\ r * lastProbe[2] < 0

ProbeNext ==
    /\ solving = "probing" /\ probe < Len(Probes)
    /\ probe' = probe + 1
    /\ \/ /\ Skips
          /\ UNCHANGED <<solving, bracket>>
       \/ \E r \in SignedResiduals :
             IF Abs(r) <= task.tolerance
             THEN /\ bracket' = <<<<Probes[probe'], r>>, <<Probes[probe'], r>>>>
                  /\ solving' = "bracketed" /\ UNCHANGED lastProbe
             ELSE IF Brackets(r)
             THEN /\ bracket' = <<lastProbe, <<Probes[probe'], r>>>>
                  /\ solving' = "bracketed" /\ UNCHANGED lastProbe
             ELSE lastProbe' = <<Probes[probe'], r>> /\ UNCHANGED <<bracket, solving>>
    /\ UNCHANGED <<task, answer, starts, best, bestAny, met>>

NoBracket ==
    /\ solving = "probing" /\ probe = Len(Probes)
    /\ Raise
    /\ UNCHANGED spencerVars

Acceptable(s) ==
    /\ s.force <= task.tolerance
    /\ s.moment <= task.tolerance
    /\ ~s.low

\* The state at the exact probe, which keeps its residual, or at what brentq()
\* returns, which may also fail or stop short of a root.
ZeroLambdaStates ==
    IF bracket[1] = bracket[2]
    THEN {s \in States : s.fos = bracket[1][1] /\ s.force = Abs(bracket[1][2])}
    ELSE {s \in States : bracket[1][1] <= s.fos /\ s.fos <= bracket[2][1]}

ResolveBracket ==
    /\ solving = "bracketed"
    /\ \/ \E s \in ZeroLambdaStates :
             IF Acceptable(s)
             THEN /\ best' = {s} /\ solving' = "lambda_zero_fallback"
                  /\ UNCHANGED <<task, answer>>
             ELSE Raise /\ UNCHANGED best
       \/ /\ bracket[1] # bracket[2]
          /\ Raise /\ UNCHANGED best
    /\ UNCHANGED <<starts, bestAny, met, probe, lastProbe, bracket>>

\* Whatever path the state came by, it is checked once more.
AcceptSpencer ==
    /\ solving \in {"two_dimensional", "lambda_zero_fallback"}
    /\ \E s \in best :
          IF Acceptable(s)
          THEN Return([fos |-> s.fos, force |-> s.force, moment |-> s.moment,
                       low |-> s.low, path |-> solving])
          ELSE Raise
    /\ UNCHANGED spencerVars

SpencerNext ==
    \/ StartSpencer \/ TryStart \/ EndStarts
    \/ ProbeNext \/ NoBracket \/ ResolveBracket
    \/ AcceptSpencer

-----------------------------------------------------------------------------
(* What the choice promises.                                               *)

\* The state that is returned from the starts has the least combined residual of
\* all those the starts led to, those of low m_alpha left out when there are
\* horizontal forces: no start that did better is lost on the way.
NoBetterStartLost ==
    \A a \in Returned : a.path = "two_dimensional" =>
        /\ Summary(a) \in met
        /\ \A s \in met : Eligible(s) => Norm(a) <= s.norm

\* The fallback answers only when there are horizontal forces and every start led
\* nowhere or to a low m_alpha: a state that the fallback replaces was never an
\* answer of the two equations together.
FallbackIsLastResort ==
    solving \in {"probing", "bracketed", "lambda_zero_fallback"} =>
        task.horizontal /\ \A s \in met : s.low

\* brentq() is called on two probes in ascending order at which the residual was
\* found finite and of opposite sign, however many probes between them could not
\* be evaluated.
BracketHoldsARoot ==
    solving = "bracketed" =>
        \/ bracket[1] = bracket[2] /\ Abs(bracket[1][2]) <= task.tolerance
        \/ bracket[1][1] < bracket[2][1] /\ bracket[1][2] * bracket[2][2] < 0
=============================================================================
