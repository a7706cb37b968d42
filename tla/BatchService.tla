---------------------------- MODULE BatchService ----------------------------
(***************************************************************************)
(* What a search may expect of its batch evaluator, whatever runs behind   *)
(* it: every call is answered with the candidates of the surfaces it was   *)
(* given, in the order given, or it fails; a failed service answers no     *)
(* further call, and once it is left - after a failure or at the end of    *)
(* the search - it comes to rest.                                          *)
(***************************************************************************)
EXTENDS SurfaceCandidates, Sequences

CONSTANTS Requests       \* the sequences of surfaces a call may carry

VARIABLES
  solver,      \* what the solver does with each surface; never changes
  state,       \* "ready", "serving", "draining" or "closed"
  request,     \* the surfaces of the last call
  answer       \* the candidates the last answered call returned

serviceVars == <<solver, state, request, answer>>

CONSTANT Solvers         \* what the solver may be

ServiceInit ==
  /\ solver \in Solvers
  /\ state = "ready" /\ request = <<>> /\ answer = <<>>

Call(r) ==
  /\ state = "ready"
  /\ state' = "serving" /\ request' = r
  /\ UNCHANGED <<solver, answer>>

Answer ==
  /\ state = "serving"
  /\ \A i \in DOMAIN request : solver[request[i]].kind # "raises"
  /\ answer' = [i \in DOMAIN request |-> CandidateOf(solver[request[i]])]
  /\ state' = "ready"
  /\ UNCHANGED <<solver, request>>

Leave ==
  /\ state \in {"ready", "serving"}
  /\ state' = "draining"
  /\ UNCHANGED <<solver, request, answer>>

Rest ==
  /\ state = "draining"
  /\ state' = "closed"
  /\ UNCHANGED <<solver, request, answer>>

ServiceNext == (\E r \in Requests : Call(r)) \/ Answer \/ Leave \/ Rest

\* A call does not stay unanswered, and a service that is left comes to rest.
ServiceFairness ==
  /\ WF_serviceVars(state = "serving" /\ (Answer \/ Leave))
  /\ WF_serviceVars(Rest)

ServiceSpec == ServiceInit /\ [][ServiceNext]_serviceVars /\ ServiceFairness
=============================================================================
