---------------------- MODULE ObjectiveEvaluatorProofs ----------------------
(***************************************************************************)
(* Proofs about ObjectiveEvaluator, for every set of keys, every budget,   *)
(* every solver and every request length: type correctness, the exactness  *)
(* of the counters, the bound on the incumbent, that the evaluator         *)
(* implements BudgetedMemo, and that each of its calls does what the       *)
(* serial evaluation of its vectors would, which is one Ask of             *)
(* SearchObjective.                                                        *)
(***************************************************************************)
EXTENDS EvaluatorCalls, FiniteSetTheorems, WellFoundedInduction, TLAPS

InCall == phase \in {"scanning", "evaluating", "merging"}

\* The loop invariants of evaluate_vectors_batch.
CallInv ==
  /\ phase # "merging" => merged = 0
  /\ phase \in {"evaluating", "merging"} => scanned = Len(request)
  /\ phase = "merging" => results \in [1..cut -> Candidates]
  /\ InCall =>
       /\ \A i \in 1..scanned : cache[request[i]] # NotCached \/ Seen(request[i])
       /\ \A i \in 1..merged : cache[first[i]] # NotCached
       /\ \A i \in (merged + 1)..Len(first) : cache[first[i]] = NotCached
       /\ \A i, j \in 1..Len(first) : first[i] = first[j] => i = j

\* The budget as the batch call commits it: what is still to be merged fits,
\* and a key is left over only when nothing else will fit.
BudgetInv ==
  /\ total <= MaxEvaluations
  /\ \A k \in Keys : cache[k] # NotCached /\ cache[k].reason = "max_evaluations"
       => total = MaxEvaluations /\ cache[k] = RefusedEntry
  /\ phase \in {"evaluating", "merging"} =>
       /\ total + (cut - merged) <= MaxEvaluations
       /\ cut < Len(first) => total + (cut - merged) = MaxEvaluations

\* There is a request exactly during the call of a batch.
RequestInv ==
  /\ phase = "idle" => request = <<>>
  /\ InCall => request # <<>>

CountInv ==
  /\ IsFiniteSet(EvaluatedKeys)
  /\ IsFiniteSet(ValidKeys)
  /\ total = Cardinality(EvaluatedKeys) + Ahead
  /\ valid = Cardinality(ValidKeys)
  /\ valid + infeasible = Cardinality(EvaluatedKeys)

-----------------------------------------------------------------------------
(* Facts about candidates and entries *)

LEMMA ScoreType == \A r \in Reasons : ScoreForReason(r) \in Int
BY EvaluatorAssumption DEF ScoreForReason

LEMMA EntryType ==
  ASSUME NEW c \in Candidates
  PROVE  /\ EntryOf(c) \in Entries
         /\ EntryOf(c).reason = c.reason
         /\ EntryOf(c).reason # "max_evaluations"
BY ScoreType DEF Candidates, EntryOf, Entries, Reasons

LEMMA RefusedType ==
  /\ RefusedEntry \in Entries
  /\ RefusedEntry.reason = "max_evaluations"
BY EvaluatorAssumption DEF RefusedEntry, Entries

LEMMA CandidateType ==
  ASSUME TypeOK, NEW k \in Keys
  PROVE  Candidate(k) \in Candidates
<1>1. InvalidGeometry \in Candidates /\ CaughtException \in Candidates
  BY DEF InvalidGeometry, CaughtException, Candidates, Reasons
<1>2. \A o \in OutcomeType : CandidateOf(o) \in Candidates
  <2>1. \A o \in OutcomeType : CandidateFromResult(o) \in Candidates
    BY DEF OutcomeType, CandidateFromResult, Candidates, Reasons
  <2>2. QED BY <1>1, <2>1 DEF CandidateOf
<1>3. SurfaceOf[k] # NoSurface => solver[SurfaceOf[k]] \in OutcomeType
  BY EvaluatorAssumption DEF TypeOK
<1>4. QED BY <1>1, <1>2, <1>3 DEF Candidate

-----------------------------------------------------------------------------
(* What installing an entry does to the evaluator's own state *)

LEMMA InstallType ==
  ASSUME TypeOK, NEW k \in Keys, NEW e \in Entries, Install(k, e)
  PROVE  /\ cache' \in [Keys -> Entries \cup {NotCached}]
         /\ cache'[k] = e
         /\ \A j \in Keys : j # k => cache'[j] = cache[j]
         /\ total' = total + 1
         /\ valid' \in Nat /\ infeasible' \in Nat
         /\ best' \in Incumbents \cup {NoBest}
BY DEF TypeOK, Install, UpdateIncumbent, Entries, Incumbents

LEMMA InstallCounts ==
  ASSUME TypeOK, CountInv, NEW k \in Keys, NEW e \in Entries, cache[k] = NotCached,
         e.reason # "max_evaluations", Install(k, e), phase # "raised"
  PROVE  /\ IsFiniteSet(EvaluatedKeys')
         /\ IsFiniteSet(ValidKeys')
         /\ valid' = Cardinality(ValidKeys')
         /\ total' = Cardinality(EvaluatedKeys')
         /\ valid' + infeasible' = Cardinality(EvaluatedKeys')
<1>1. EvaluatedKeys' = EvaluatedKeys \cup {k} /\ k \notin EvaluatedKeys
  BY InstallType, NoneAssumption DEF EvaluatedKeys
<1>2. ValidKeys' = (IF e.reason = "valid" THEN ValidKeys \cup {k} ELSE ValidKeys)
      /\ k \notin ValidKeys
  BY InstallType, NoneAssumption DEF ValidKeys
<1>3. /\ IsFiniteSet(EvaluatedKeys')
      /\ Cardinality(EvaluatedKeys') = Cardinality(EvaluatedKeys) + 1
  BY <1>1, FS_AddElement DEF CountInv
<1>4. /\ IsFiniteSet(ValidKeys')
      /\ Cardinality(ValidKeys') =
           Cardinality(ValidKeys) + (IF e.reason = "valid" THEN 1 ELSE 0)
  <2>1. CASE e.reason = "valid"
    BY <1>2, <2>1, FS_AddElement DEF CountInv
  <2>2. CASE e.reason # "valid"
    <3>1. ValidKeys' = ValidKeys
      BY <1>2, <2>2
    <3>2. Cardinality(ValidKeys) \in Nat
      BY FS_CardinalityType DEF CountInv
    <3>3. QED BY <2>2, <3>1, <3>2 DEF CountInv
  <2>3. QED BY <2>1, <2>2
<1>5. /\ Cardinality(EvaluatedKeys) \in Nat /\ Cardinality(ValidKeys) \in Nat
      /\ total = Cardinality(EvaluatedKeys) /\ valid = Cardinality(ValidKeys)
      /\ valid + infeasible = Cardinality(EvaluatedKeys)
  BY FS_CardinalityType DEF CountInv, Ahead
<1>6. total \in Nat /\ valid \in Nat /\ infeasible \in Nat
  BY DEF TypeOK
<1>7. /\ total' = total + 1
      /\ valid' = IF e.reason = "valid" THEN valid + 1 ELSE valid
      /\ infeasible' = IF e.reason = "valid" THEN infeasible ELSE infeasible + 1
  BY DEF Install
<1>8. QED
  BY <1>3, <1>4, <1>5, <1>6, <1>7

-----------------------------------------------------------------------------
(* Type correctness.  The answers of a batch are entries, never a missing  *)
(* one, because every key of the request has been scanned: this is what    *)
(* CallInv adds.                                                           *)

Inv1 == TypeOK /\ CallInv

LEMMA Inv1Init == Init => Inv1
BY EvaluatorAssumption DEF Init, Inv1, TypeOK, CallInv, InCall, Phases, Seen

LEMMA EvaluateVectorInv1 ==
  ASSUME Inv1, NEW v \in Vectors, EvaluateVector(v)
  PROVE  Inv1'
<1> DEFINE k == Normalize[v]
<1>k. k \in Keys /\ phase = "idle"
  BY EvaluatorAssumption DEF EvaluateVector
<1>1. CASE EvaluateCached(k)
  BY <1>1, <1>k DEF EvaluateCached, Inv1, TypeOK, CallInv, InCall, stateVars, callVars, Seen
<1>2. CASE EvaluateRefused(k)
  BY <1>2, <1>k, RefusedType DEF EvaluateRefused, Inv1, TypeOK, CallInv, InCall, callVars, Seen
<1>3. CASE EvaluateFresh(k)
  <2> DEFINE e == EntryOf(Candidate(k))
  <2>1. e \in Entries
    BY <1>k, CandidateType, EntryType DEF Inv1
  <2>2. Install(k, e) /\ returned' = <<e>> /\ UNCHANGED <<solver, phase, callVars>>
    BY <1>3 DEF EvaluateFresh
  <2>3. TypeOK
    BY DEF Inv1
  <2> HIDE DEF e, k
  <2>4. TypeOK'
    <3>1. returned' \in Seq(Entries)
      BY <2>1, <2>2
    <3>2. /\ cache' \in [Keys -> Entries \cup {NotCached}]
          /\ total' \in Nat /\ valid' \in Nat /\ infeasible' \in Nat
          /\ best' \in Incumbents \cup {NoBest}
      BY <1>k, <2>1, <2>2, <2>3, InstallType DEF TypeOK
    <3>3. QED BY <2>2, <2>3, <3>1, <3>2 DEF TypeOK, callVars
  <2>5. CallInv'
    BY <1>k, <2>2 DEF Inv1, CallInv, InCall, callVars
  <2>6. QED BY <2>4, <2>5 DEF Inv1
<1>4. CASE EvaluateRaises(k)
  BY <1>4, <1>k DEF EvaluateRaises, Inv1, TypeOK, CallInv, InCall, callVars, Seen, Phases
<1>5. QED
  BY <1>1, <1>2, <1>3, <1>4 DEF EvaluateVector

LEMMA StartBatchInv1 ==
  ASSUME Inv1, NEW vs \in VectorSeqs, StartBatch(vs)
  PROVE  Inv1'
<1>1. request' \in Seq(Keys)
  BY EvaluatorAssumption DEF StartBatch, VectorSeqs
<1>2. TypeOK'
  BY <1>1 DEF StartBatch, Inv1, TypeOK, stateVars, Phases
<1>3. CallInv'
  BY DEF StartBatch, CallInv, InCall
<1>4. QED BY <1>2, <1>3 DEF Inv1

LEMMA ScanVectorInv1 ==
  ASSUME Inv1, ScanVector
  PROVE  Inv1'
<1> DEFINE k == request[scanned + 1]
<1>k. k \in Keys /\ scanned + 1 \in 1..Len(request)
  BY DEF ScanVector, Inv1, TypeOK
<1>1. /\ phase' = phase /\ phase = "scanning" /\ scanned' = scanned + 1
      /\ first' = IF SkipVector(k) THEN first ELSE Append(first, k)
      /\ UNCHANGED <<solver, cache, total, valid, infeasible, best, request, cut,
                     results, merged, returned>>
  BY DEF ScanVector, stateVars
<1>2. TypeOK
  BY DEF Inv1
<1> HIDE DEF k
<1>3. /\ first' \in Seq(Keys) /\ Len(first') >= Len(first)
      /\ \A i \in 1..Len(first) : first'[i] = first[i]
  BY <1>k, <1>1, <1>2 DEF TypeOK
<1>4. TypeOK'
  BY <1>k, <1>1, <1>2, <1>3 DEF TypeOK
<1>5. CASE SkipVector(k)
  <2>1. first' = first /\ (cache[k] # NotCached \/ Seen(k))
    BY <1>1, <1>5 DEF SkipVector
  <2>2. \A i \in 1..scanned' : cache'[request'[i]] # NotCached \/ Seen(request[i])'
    BY <1>1, <1>2, <2>1 DEF k, Inv1, CallInv, InCall, Seen, TypeOK
  <2>3. QED
    BY <1>1, <1>4, <2>1, <2>2 DEF Inv1, CallInv, InCall
<1>6. CASE ~SkipVector(k)
  <2>1. /\ first' = Append(first, k) /\ cache[k] = NotCached
        /\ \A i \in 1..Len(first) : first[i] # k
    BY <1>1, <1>6 DEF SkipVector, Seen
  <2>2. /\ Len(first') = Len(first) + 1 /\ first'[Len(first) + 1] = k
    BY <1>k, <1>2, <2>1 DEF TypeOK
  <2>3. \A i \in 1..scanned' : cache'[request'[i]] # NotCached \/ Seen(request[i])'
    <3> SUFFICES ASSUME NEW i \in 1..scanned'
                 PROVE  cache'[request'[i]] # NotCached \/ Seen(request[i])'
      OBVIOUS
    <3>1. CASE i = scanned + 1
      <4>1. request'[i] = k /\ Len(first) + 1 \in 1..Len(first')
        BY <1>1, <1>2, <2>2, <3>1 DEF k, TypeOK
      <4>2. QED BY <2>2, <4>1 DEF Seen
    <3>2. CASE i \in 1..scanned
      <4>1. cache[request[i]] # NotCached \/ Seen(request[i])
        BY <1>1, <3>2 DEF Inv1, CallInv, InCall
      <4>2. ASSUME Seen(request[i])
            PROVE  Seen(request[i])'
        <5>1. PICK j \in 1..Len(first) : first[j] = request[i]
          BY <4>2 DEF Seen
        <5>2. j \in 1..Len(first') /\ first'[j] = request'[i]
          BY <1>1, <1>2, <1>3, <5>1 DEF TypeOK
        <5>3. QED BY <5>2 DEF Seen
      <4>3. QED BY <1>1, <4>1, <4>2
    <3>3. QED BY <1>1, <1>2, <3>1, <3>2 DEF TypeOK
  <2>4. \A i \in (merged' + 1)..Len(first') : cache'[first'[i]] = NotCached
    BY <1>1, <1>2, <1>3, <2>1, <2>2 DEF Inv1, CallInv, InCall, TypeOK
  <2>5. \A i, j \in 1..Len(first') : first'[i] = first'[j] => i = j
    BY <1>1, <1>2, <1>3, <2>1, <2>2 DEF Inv1, CallInv, InCall, TypeOK
  <2>6. QED
    BY <1>1, <1>4, <2>3, <2>4, <2>5 DEF Inv1, CallInv, InCall
<1>7. QED BY <1>5, <1>6

-----------------------------------------------------------------------------
(* Results go back where their surfaces came from *)

LEMMA SubmittedFinite ==
  ASSUME TypeOK, NEW i \in Nat
  PROVE  /\ IsFiniteSet({j \in 1..i : HasSurface(j)})
         /\ SubmittedUpTo(i) \in Nat
<1>1. IsFiniteSet(1..i)
  BY FS_Interval
<1>2. QED BY <1>1, FS_Subset, FS_CardinalityType DEF SubmittedUpTo

LEMMA SubmittedIncreases ==
  ASSUME TypeOK, NEW i \in Nat, NEW j \in Nat, i < j, HasSurface(j)
  PROVE  SubmittedUpTo(i) < SubmittedUpTo(j)
<1> DEFINE S(n) == {m \in 1..n : HasSurface(m)}
<1>1. IsFiniteSet(S(i)) /\ IsFiniteSet(S(j))
  BY SubmittedFinite
<1>2. j \notin S(i) /\ S(i) \cup {j} \subseteq S(j)
  OBVIOUS
<1>3. Cardinality(S(i) \cup {j}) = Cardinality(S(i)) + 1
  BY <1>1, <1>2, FS_AddElement
<1>4. Cardinality(S(i) \cup {j}) <= Cardinality(S(j))
  BY <1>1, <1>2, FS_Subset
<1>5. Cardinality(S(i)) \in Nat /\ Cardinality(S(j)) \in Nat
  BY <1>1, FS_CardinalityType
<1>6. QED BY <1>3, <1>4, <1>5 DEF SubmittedUpTo

LEMMA SubmittedPositions ==
  ASSUME TypeOK, NEW i \in 1..cut, HasSurface(i)
  PROVE  /\ SubmittedUpTo(i) \in 1..SubmittedUpTo(cut)
         /\ NthSubmitted(SubmittedUpTo(i)) = i
<1>1. i \in Nat /\ cut \in Nat /\ i <= cut
  BY DEF TypeOK
<1>2. SubmittedUpTo(0) < SubmittedUpTo(i)
  BY <1>1, SubmittedIncreases
<1>3. SubmittedUpTo(i) <= SubmittedUpTo(cut)
  <2>1. {j \in 1..i : HasSurface(j)} \subseteq {j \in 1..cut : HasSurface(j)}
    BY <1>1
  <2>2. QED BY <1>1, <2>1, SubmittedFinite, FS_Subset DEF SubmittedUpTo
<1>4. SubmittedUpTo(0) \in Nat /\ SubmittedUpTo(i) \in Nat /\ SubmittedUpTo(cut) \in Nat
  BY <1>1, SubmittedFinite
<1>5. ASSUME NEW j \in 1..cut, HasSurface(j), SubmittedUpTo(j) = SubmittedUpTo(i)
      PROVE  j = i
  <2>1. j \in Nat
    BY <1>1
  <2>2. SubmittedUpTo(j) \in Nat
    BY <2>1, SubmittedFinite
  <2>3. ~(j < i) /\ ~(i < j)
    BY <1>1, <1>4, <1>5, <2>1, <2>2, SubmittedIncreases
  <2>4. QED BY <1>1, <2>1, <2>3
<1>6. NthSubmitted(SubmittedUpTo(i)) = i
  BY <1>5 DEF NthSubmitted
<1>7. QED BY <1>2, <1>3, <1>4, <1>6

LEMMA BatchResults ==
  ASSUME TypeOK, BatchAnswers
  PROVE  results' = [i \in 1..cut |-> Candidate(first[i])]
<1>1. results' = [i \in 1..cut |->
                   IF HasSurface(i) THEN BatchContract[BatchIndex(i)] ELSE InvalidGeometry]
  BY DEF BatchAnswers, BatchReturns
<1>2. ASSUME NEW i \in 1..cut, HasSurface(i)
      PROVE  BatchContract[BatchIndex(i)] = Candidate(first[i])
  BY <1>2, SubmittedPositions DEF BatchContract, BatchIndex
<1>3. ASSUME NEW i \in 1..cut, ~HasSurface(i)
      PROVE  Candidate(first[i]) = InvalidGeometry
  BY <1>3 DEF HasSurface, Candidate
<1>4. QED BY <1>1, <1>2, <1>3

-----------------------------------------------------------------------------

LEMMA CutBudgetInv1 ==
  ASSUME Inv1, CutBudget
  PROVE  Inv1'
<1>1. CutPoint \in 0..Len(first)
  BY EvaluatorAssumption DEF CutPoint, RemainingBudget, Inv1, TypeOK
<1>2. TypeOK'
  BY <1>1 DEF CutBudget, Inv1, TypeOK, CallInv, stateVars, Phases
<1>3. CallInv'
  BY DEF CutBudget, Inv1, TypeOK, CallInv, InCall, stateVars, Seen
<1>4. QED BY <1>2, <1>3 DEF Inv1

\* Both ways of evaluating leave the candidates of the keys in results.
LEMMA ResultsInv1 ==
  ASSUME Inv1, phase = "evaluating", phase' = "merging",
         results' = [i \in 1..cut |-> Candidate(first[i])],
         UNCHANGED <<solver, stateVars, request, scanned, first, cut, merged, returned>>
  PROVE  Inv1'
<1>1. \A i \in 1..cut : first[i] \in Keys
  BY DEF Inv1, TypeOK
<1>2. results' \in [1..cut -> Candidates]
  BY <1>1, CandidateType DEF Inv1
<1>3. results' \in Seq(Candidates)
  BY <1>2 DEF Inv1, TypeOK
<1>4. TypeOK'
  BY <1>3 DEF Inv1, TypeOK, stateVars, Phases
<1>5. CallInv'
  BY <1>2 DEF Inv1, CallInv, InCall, stateVars, Seen
<1>6. QED BY <1>4, <1>5 DEF Inv1

LEMMA MergeResultInv1 ==
  ASSUME Inv1, MergeResult
  PROVE  Inv1'
<1> DEFINE k == first[merged + 1]
           e == EntryOf(results[merged + 1])
<1>1. /\ phase = "merging" /\ merged < cut /\ merged' = merged + 1
      /\ Install(k, e)
      /\ UNCHANGED <<solver, phase, request, scanned, first, cut, results, returned>>
  BY DEF MergeResult
<1>2. TypeOK /\ CallInv
  BY DEF Inv1
<1>3. k \in Keys /\ merged + 1 \in 1..Len(first) /\ merged + 1 \in 1..cut
  BY <1>1, <1>2 DEF TypeOK
<1>4. e \in Entries
  BY <1>1, <1>2, <1>3, EntryType DEF CallInv
<1> HIDE DEF e
<1>5. TypeOK'
  <2>1. /\ cache' \in [Keys -> Entries \cup {NotCached}]
        /\ total' \in Nat /\ valid' \in Nat /\ infeasible' \in Nat
        /\ best' \in Incumbents \cup {NoBest}
    BY <1>1, <1>2, <1>3, <1>4, InstallType DEF TypeOK
  <2>2. QED BY <1>1, <1>2, <1>3, <2>1 DEF TypeOK
<1>6. /\ cache'[k] # NotCached
      /\ \A j \in Keys : j # k => cache'[j] = cache[j]
  BY <1>1, <1>2, <1>3, <1>4, InstallType, NoneAssumption
<1>7. \A i \in (merged' + 1)..Len(first') : cache'[first'[i]] = NotCached
  <2> SUFFICES ASSUME NEW i \in (merged' + 1)..Len(first')
               PROVE  cache'[first'[i]] = NotCached
    OBVIOUS
  <2>1. i \in (merged + 1)..Len(first) /\ i # merged + 1 /\ i \in 1..Len(first)
    BY <1>1, <1>2 DEF TypeOK
  <2>2. first[i] # k /\ first[i] \in Keys
    BY <1>1, <1>2, <1>3, <2>1 DEF CallInv, InCall, TypeOK
  <2>3. QED BY <1>1, <1>2, <1>6, <2>1, <2>2 DEF CallInv, InCall
<1>8. \A i \in 1..scanned' : cache'[request'[i]] # NotCached \/ Seen(request[i])'
  <2>1. \A i \in 1..scanned : request[i] \in Keys
    BY <1>2 DEF TypeOK
  <2>2. QED
    BY <1>1, <1>2, <1>6, <2>1 DEF CallInv, InCall, Seen
<1>9. \A i \in 1..merged' : cache'[first'[i]] # NotCached
  <2>1. \A i \in 1..merged' : first[i] \in Keys /\ (i \in 1..merged \/ i = merged + 1)
    BY <1>1, <1>2 DEF TypeOK
  <2>2. QED
    BY <1>1, <1>2, <1>6, <2>1 DEF CallInv, InCall
<1>10. CallInv'
  BY <1>1, <1>2, <1>7, <1>8, <1>9 DEF CallInv, InCall
<1>11. QED BY <1>5, <1>10 DEF Inv1

LEMMA FinishBatchInv1 ==
  ASSUME Inv1, FinishBatch
  PROVE  Inv1'
<1>1. TypeOK /\ CallInv /\ phase = "merging" /\ merged = cut
  BY DEF Inv1, FinishBatch
<1>2. cache' \in [Keys -> Entries \cup {NotCached}]
  BY <1>1, RefusedType DEF FinishBatch, TypeOK
<1>3. ASSUME NEW i \in 1..Len(request)
      PROVE  cache'[request[i]] \in Entries
  <2>1. request[i] \in Keys /\ i \in 1..scanned
    BY <1>1, <1>3 DEF TypeOK, CallInv
  <2>2. CASE cache[request[i]] # NotCached
    BY <1>1, <2>1, <2>2, RefusedType DEF FinishBatch, TypeOK
  <2>3. CASE cache[request[i]] = NotCached
    <3>1. PICK j \in 1..Len(first) : first[j] = request[i]
      BY <1>1, <2>1, <2>3 DEF CallInv, InCall, Seen
    <3>2. j \notin 1..cut
      <4>1. ASSUME j \in 1..cut
            PROVE  FALSE
        BY <1>1, <2>3, <3>1, <4>1 DEF CallInv, InCall, TypeOK
      <4>2. QED BY <4>1
    <3>3. request[i] \in Overflow
      BY <1>1, <3>1, <3>2 DEF Overflow, TypeOK
    <3>4. QED BY <2>1, <3>3, RefusedType DEF FinishBatch
  <2>4. QED BY <2>2, <2>3
<1>4. returned' \in Seq(Entries)
  <2>1. returned' = [i \in 1..Len(request) |-> cache'[request[i]]]
    BY <1>1 DEF FinishBatch, TypeOK
  <2>2. returned' \in [1..Len(request) -> Entries]
    BY <1>3, <2>1
  <2>3. Len(request) \in Nat
    BY <1>1 DEF TypeOK
  <2>4. QED BY <2>2, <2>3
<1>5. TypeOK'
  BY <1>1, <1>2, <1>4 DEF FinishBatch, TypeOK, Phases
<1>6. CallInv'
  BY DEF FinishBatch, CallInv, InCall
<1>7. QED BY <1>5, <1>6 DEF Inv1

LEMMA Inv1Step ==
  ASSUME Inv1, [Next]_vars
  PROVE  Inv1'
<1>1. CASE UNCHANGED vars
  BY <1>1 DEF Inv1, TypeOK, CallInv, InCall, Seen, vars, stateVars, callVars
<1>2. ASSUME NEW v \in Vectors, EvaluateVector(v) PROVE Inv1'
  BY <1>2, EvaluateVectorInv1
<1>3. ASSUME NEW vs \in VectorSeqs, StartBatch(vs) PROVE Inv1'
  BY <1>3, StartBatchInv1
<1>4. CASE ScanVector
  BY <1>4, ScanVectorInv1
<1>5. CASE CutBudget
  BY <1>5, CutBudgetInv1
<1>6. CASE EvaluateInProcess
  BY <1>6, ResultsInv1 DEF EvaluateInProcess
<1>7. CASE InProcessRaises \/ BatchRaises
  BY <1>7 DEF InProcessRaises, BatchRaises, Inv1, TypeOK, CallInv, InCall, Phases,
              stateVars, callVars
<1>8. CASE BatchAnswers
  <2>1. results' = [i \in 1..cut |-> Candidate(first[i])]
    BY <1>8, BatchResults DEF Inv1
  <2>2. QED BY <1>8, <2>1, ResultsInv1 DEF BatchAnswers, BatchReturns
<1>9. CASE MergeResult
  BY <1>9, MergeResultInv1
<1>10. CASE FinishBatch
  BY <1>10, FinishBatchInv1
<1>11. QED
  BY <1>1, <1>2, <1>3, <1>4, <1>5, <1>6, <1>7, <1>8, <1>9, <1>10 DEF Next

(* Every variable keeps its type; in particular a batch call answers every *)
(* vector of its request, whatever was cached, duplicated or cut off.      *)
THEOREM TypeCorrect == Spec => []TypeOK
<1>1. Init => Inv1
  BY Inv1Init
<1>2. Inv1 /\ [Next]_vars => Inv1'
  BY Inv1Step
<1>3. Inv1 => TypeOK
  BY DEF Inv1
<1>4. QED BY <1>1, <1>2, <1>3, PTL DEF Spec

-----------------------------------------------------------------------------
(* The budget, and what the results of a batch are *)

ResultsInv ==
  phase = "merging" => \A i \in 1..cut : results[i] = Candidate(first[i])

Inv2 == Inv1 /\ BudgetInv /\ ResultsInv /\ RequestInv

LEMMA Inv2Init == Init => Inv2
<1>1. Init => BudgetInv
  BY EvaluatorAssumption DEF Init, BudgetInv
<1>2. Init => RequestInv
  BY DEF Init, RequestInv, InCall
<1>3. QED BY <1>1, <1>2, Inv1Init DEF Inv2, Init, ResultsInv

LEMMA EvaluateVectorBudget ==
  ASSUME Inv2, NEW v \in Vectors, EvaluateVector(v)
  PROVE  BudgetInv'
<1> DEFINE k == Normalize[v]
<1>k. k \in Keys /\ phase = "idle" /\ TypeOK /\ BudgetInv
  BY EvaluatorAssumption DEF EvaluateVector, Inv2, Inv1
<1>1. CASE EvaluateCached(k)
  BY <1>1, <1>k DEF EvaluateCached, BudgetInv, stateVars, callVars
<1>2. CASE EvaluateRefused(k)
  BY <1>2, <1>k, RefusedType, EvaluatorAssumption
  DEF EvaluateRefused, BudgetInv, BudgetSpent, TypeOK
<1>3. CASE EvaluateFresh(k)
  <2> DEFINE e == EntryOf(Candidate(k))
  <2>1. e \in Entries /\ e.reason # "max_evaluations"
    BY <1>k, CandidateType, EntryType
  <2>2. Install(k, e) /\ phase' = "idle" /\ total < MaxEvaluations
    BY <1>3, <1>k, EvaluatorAssumption DEF EvaluateFresh, BudgetSpent, TypeOK
  <2> HIDE DEF e, k
  <2>3. /\ cache'[k] = e /\ total' = total + 1
        /\ \A j \in Keys : j # k => cache'[j] = cache[j]
    BY <1>k, <2>1, <2>2, InstallType
  <2>4. \A j \in Keys : ~(cache[j] # NotCached /\ cache[j].reason = "max_evaluations")
    BY <1>k, <2>2, EvaluatorAssumption DEF BudgetInv, TypeOK
  <2>5. QED
    BY <1>k, <2>1, <2>2, <2>3, <2>4, EvaluatorAssumption DEF BudgetInv, TypeOK
<1>4. CASE EvaluateRaises(k)
  <2>1. total < MaxEvaluations /\ total' = total + 1 /\ cache' = cache /\ phase' = "raised"
    BY <1>4, <1>k, EvaluatorAssumption DEF EvaluateRaises, BudgetSpent, TypeOK
  <2>2. QED
    BY <1>k, <2>1, EvaluatorAssumption DEF BudgetInv, TypeOK
<1>5. QED
  BY <1>1, <1>2, <1>3, <1>4 DEF EvaluateVector

LEMMA MergeBudget ==
  ASSUME Inv2, MergeResult
  PROVE  BudgetInv'
<1> DEFINE k == first[merged + 1]
           e == EntryOf(results[merged + 1])
<1>1. /\ phase = "merging" /\ merged < cut /\ merged' = merged + 1
      /\ Install(k, e)
      /\ UNCHANGED <<phase, first, cut>>
  BY DEF MergeResult
<1>2. TypeOK /\ CallInv /\ BudgetInv
  BY DEF Inv2, Inv1
<1>3. k \in Keys /\ merged + 1 \in 1..cut
  BY <1>1, <1>2 DEF TypeOK
<1>4. e \in Entries /\ e.reason # "max_evaluations"
  BY <1>1, <1>2, <1>3, EntryType DEF CallInv
<1> HIDE DEF e, k
<1>5. /\ cache'[k] = e /\ total' = total + 1
      /\ \A j \in Keys : j # k => cache'[j] = cache[j]
  BY <1>1, <1>2, <1>3, <1>4, InstallType
<1>6. total < MaxEvaluations
  BY <1>1, <1>2, EvaluatorAssumption DEF BudgetInv, TypeOK
<1>7. \A j \in Keys : ~(cache[j] # NotCached /\ cache[j].reason = "max_evaluations")
  BY <1>2, <1>6, EvaluatorAssumption DEF BudgetInv, TypeOK
<1>8. /\ total' + (cut' - merged') = total + (cut - merged)
      /\ total' <= MaxEvaluations
  BY <1>1, <1>2, <1>5, <1>6, EvaluatorAssumption DEF TypeOK
<1>9. QED
  BY <1>1, <1>2, <1>4, <1>5, <1>7, <1>8, EvaluatorAssumption DEF BudgetInv

\* The keys the budget left over are new, and there are some only when the
\* merges have used the whole budget.
LEMMA OverflowFacts ==
  ASSUME Inv2, FinishBatch
  PROVE  /\ Overflow \subseteq Keys
         /\ \A k \in Overflow : cache[k] = NotCached
         /\ Overflow # {} => total = MaxEvaluations
<1>1. phase = "merging" /\ merged = cut
  BY DEF FinishBatch
<1>2. \A i \in (cut + 1)..Len(first) : i \in 1..Len(first) /\ first[i] \in Keys
  BY DEF Inv2, Inv1, TypeOK
<1>3. \A i \in (cut + 1)..Len(first) : cache[first[i]] = NotCached
  BY <1>1 DEF Inv2, Inv1, CallInv, InCall
<1>4. Overflow # {} => cut < Len(first)
  BY DEF Overflow, Inv2, Inv1, TypeOK
<1>5. cut < Len(first) => total = MaxEvaluations
  BY <1>1, EvaluatorAssumption DEF Inv2, Inv1, BudgetInv, TypeOK
<1>6. QED BY <1>2, <1>3, <1>4, <1>5 DEF Overflow

LEMMA FinishBudget ==
  ASSUME Inv2, FinishBatch
  PROVE  BudgetInv'
<1>1. /\ phase' = "idle" /\ total' = total
      /\ cache' = [k \in Keys |-> IF k \in Overflow THEN RefusedEntry ELSE cache[k]]
  BY DEF FinishBatch
<1>2. Overflow # {} => total = MaxEvaluations
  BY OverflowFacts
<1>3. QED
  BY <1>1, <1>2 DEF Inv2, BudgetInv

LEMMA RequestStep ==
  ASSUME RequestInv, [Next]_vars
  PROVE  RequestInv'
<1>1. CASE UNCHANGED vars
  BY <1>1 DEF RequestInv, InCall, vars, callVars
<1>2. ASSUME NEW v \in Vectors, EvaluateVector(v) PROVE RequestInv'
  <2>1. phase = "idle" /\ phase' \in {"idle", "raised"} /\ request' = request
    BY <1>2 DEF EvaluateVector, EvaluateCached, EvaluateRefused, EvaluateFresh, EvaluateRaises,
                callVars
  <2>2. QED BY <2>1 DEF RequestInv, InCall
<1>3. ASSUME NEW vs \in VectorSeqs, StartBatch(vs) PROVE RequestInv'
  <2>1. PICK n \in 1..MaxRequest : vs \in [1..n -> Vectors]
    BY DEF VectorSeqs
  <2>2. n \in Nat /\ 1 \in DOMAIN vs
    BY <2>1, EvaluatorAssumption
  <2>3. request' # <<>> /\ phase' = "scanning"
    BY <1>3, <2>2 DEF StartBatch
  <2>4. QED BY <2>3 DEF RequestInv, InCall
<1>4. CASE ScanVector \/ CutBudget \/ EvaluateInProcess \/ BatchAnswers \/ MergeResult
  <2>1. InCall /\ InCall' /\ request' = request
    BY <1>4 DEF ScanVector, CutBudget, EvaluateInProcess, BatchAnswers, BatchReturns,
                MergeResult, InCall
  <2>2. QED BY <2>1 DEF RequestInv, InCall
<1>5. CASE InProcessRaises \/ BatchRaises
  BY <1>5 DEF InProcessRaises, BatchRaises, RequestInv, InCall
<1>6. CASE FinishBatch
  BY <1>6 DEF FinishBatch, RequestInv, InCall
<1>7. QED BY <1>1, <1>2, <1>3, <1>4, <1>5, <1>6 DEF Next

LEMMA Inv2Step ==
  ASSUME Inv2, [Next]_vars
  PROVE  Inv2'
<1>1. Inv1'
  BY Inv1Step DEF Inv2
<1>2. TypeOK /\ CallInv /\ BudgetInv /\ ResultsInv
  BY DEF Inv2, Inv1
<1>3. BudgetInv'
  <2>1. CASE UNCHANGED vars
    BY <1>2, <2>1 DEF BudgetInv, vars, stateVars, callVars
  <2>2. ASSUME NEW v \in Vectors, EvaluateVector(v) PROVE BudgetInv'
    BY <2>2, EvaluateVectorBudget
  <2>3. ASSUME NEW vs \in VectorSeqs, StartBatch(vs) PROVE BudgetInv'
    BY <1>2, <2>3 DEF StartBatch, BudgetInv, stateVars
  <2>4. CASE ScanVector
    BY <1>2, <2>4 DEF ScanVector, BudgetInv, stateVars
  <2>5. CASE CutBudget
    <3>1. /\ total + CutPoint <= MaxEvaluations
          /\ CutPoint < Len(first) => total + CutPoint = MaxEvaluations
      BY <1>2, EvaluatorAssumption DEF CutPoint, RemainingBudget, BudgetInv, TypeOK
    <3>2. merged = 0 /\ CutPoint \in Nat
      BY <1>2, <2>5, EvaluatorAssumption
      DEF CutBudget, CallInv, CutPoint, RemainingBudget, TypeOK
    <3>3. QED
      BY <1>2, <2>5, <3>1, <3>2 DEF CutBudget, BudgetInv, stateVars
  <2>6. CASE EvaluateInProcess \/ BatchAnswers
    BY <1>2, <2>6
    DEF EvaluateInProcess, BatchAnswers, BatchReturns, BudgetInv, stateVars
  <2>7. CASE InProcessRaises \/ BatchRaises
    BY <1>2, <2>7 DEF InProcessRaises, BatchRaises, BudgetInv, stateVars
  <2>8. CASE MergeResult
    BY <2>8, MergeBudget
  <2>9. CASE FinishBatch
    BY <2>9, FinishBudget
  <2>10. QED
    BY <2>1, <2>2, <2>3, <2>4, <2>5, <2>6, <2>7, <2>8, <2>9 DEF Next
<1>4. ResultsInv'
  <2>1. CASE phase' # "merging"
    BY <2>1 DEF ResultsInv
  <2>2. CASE EvaluateInProcess \/ BatchAnswers
    <3>1. results' = [i \in 1..cut |-> Candidate(first[i])]
      BY <1>2, <2>2, BatchResults DEF EvaluateInProcess
    <3>2. UNCHANGED <<solver, first, cut>>
      BY <2>2 DEF EvaluateInProcess, BatchAnswers, BatchReturns
    <3>3. QED BY <3>1, <3>2 DEF ResultsInv, Candidate
  <2>3. CASE MergeResult \/ UNCHANGED vars
    BY <1>2, <2>3
    DEF MergeResult, vars, callVars, ResultsInv, Candidate
  <2>4. phase' = "merging" => EvaluateInProcess \/ BatchAnswers \/ MergeResult \/ UNCHANGED vars
    BY DEF Next, EvaluateVector, EvaluateCached, EvaluateRefused, EvaluateFresh,
           EvaluateRaises, StartBatch, ScanVector, CutBudget, InProcessRaises, BatchRaises,
           FinishBatch
  <2>5. QED BY <2>1, <2>2, <2>3, <2>4
<1>5. RequestInv'
  BY RequestStep DEF Inv2
<1>6. QED BY <1>1, <1>3, <1>4, <1>5 DEF Inv2

-----------------------------------------------------------------------------
(* Every step changes the evaluator's own state in one of three ways: it   *)
(* installs the score of one new key, it refuses new keys (possibly none), *)
(* or it raises.                                                           *)

Installs(k) ==
  /\ phase # "raised" /\ phase' # "raised"
  /\ cache[k] = NotCached
  /\ total < MaxEvaluations
  /\ Install(k, EntryOf(Candidate(k)))

Refuses(S) ==
  /\ phase' = "raised" <=> phase = "raised"
  /\ phase = "raised" => request' = request
  /\ \A k \in S : cache[k] = NotCached
  /\ S # {} => total = MaxEvaluations /\ phase # "raised"
  /\ cache' = [k \in Keys |-> IF k \in S THEN RefusedEntry ELSE cache[k]]
  /\ UNCHANGED <<total, valid, infeasible, best>>

StepRaises ==
  /\ phase # "raised" /\ phase' = "raised" /\ request' = request
  /\ \/ request # <<>> /\ total' = total
     \/ request = <<>> /\ total < MaxEvaluations /\ total' = total + 1
  /\ UNCHANGED <<cache, valid, infeasible, best>>

LEMMA StateStep ==
  ASSUME Inv2, [Next]_vars
  PROVE  /\ solver' = solver
         /\ \/ \E k \in Keys : Installs(k)
            \/ \E S \in SUBSET Keys : Refuses(S)
            \/ StepRaises
<1>1. TypeOK /\ CallInv /\ BudgetInv /\ ResultsInv
  BY DEF Inv2, Inv1
<1>2. ASSUME UNCHANGED stateVars, phase' = "raised" <=> phase = "raised",
             phase = "raised" => request' = request
      PROVE  Refuses({})
  BY <1>1, <1>2 DEF Refuses, stateVars, TypeOK
<1>3. ASSUME NEW v \in Vectors, EvaluateVector(v)
      PROVE  /\ solver' = solver
             /\ \/ \E k \in Keys : Installs(k)
                \/ \E S \in SUBSET Keys : Refuses(S)
                \/ StepRaises
  <2> DEFINE k == Normalize[v]
  <2>k. k \in Keys /\ phase = "idle"
    BY <1>3, EvaluatorAssumption DEF EvaluateVector
  <2>1. CASE EvaluateCached(k)
    <3>1. Refuses({}) /\ solver' = solver
      BY <1>2, <2>1 DEF EvaluateCached, callVars
    <3>2. QED BY <3>1
  <2>2. CASE EvaluateRefused(k)
    <3>1. total = MaxEvaluations
      BY <1>1, <2>2, EvaluatorAssumption DEF EvaluateRefused, BudgetSpent, BudgetInv, TypeOK
    <3>2. cache' = [j \in Keys |-> IF j \in {k} THEN RefusedEntry ELSE cache[j]]
      BY <1>1, <2>2 DEF EvaluateRefused, TypeOK
    <3>3. Refuses({k}) /\ solver' = solver
      BY <2>k, <2>2, <3>1, <3>2 DEF EvaluateRefused, Refuses
    <3>4. QED BY <2>k, <3>3
  <2>3. CASE EvaluateFresh(k)
    <3>1. Installs(k) /\ solver' = solver
      BY <1>1, <2>k, <2>3, EvaluatorAssumption
      DEF EvaluateFresh, Installs, BudgetSpent, TypeOK
    <3>2. QED BY <2>k, <3>1
  <2>4. CASE EvaluateRaises(k)
    <3>1. StepRaises /\ solver' = solver
      BY <1>1, <2>k, <2>4, EvaluatorAssumption
      DEF EvaluateRaises, StepRaises, BudgetSpent, TypeOK, Inv2, RequestInv, callVars
    <3>2. QED BY <3>1
  <2>5. QED BY <1>3, <2>1, <2>2, <2>3, <2>4 DEF EvaluateVector
<1>4. CASE UNCHANGED vars
  <2>1. Refuses({}) /\ solver' = solver
    BY <1>2, <1>4 DEF vars, callVars
  <2>2. QED BY <2>1
<1>5. ASSUME \/ \E vs \in VectorSeqs : StartBatch(vs)
             \/ ScanVector \/ CutBudget \/ EvaluateInProcess \/ BatchAnswers
      PROVE  solver' = solver /\ \E S \in SUBSET Keys : Refuses(S)
  <2>1. UNCHANGED stateVars /\ solver' = solver
    BY <1>5 DEF StartBatch, ScanVector, CutBudget, EvaluateInProcess, BatchAnswers, BatchReturns
  <2>2. phase # "raised" /\ phase' # "raised"
    BY <1>5 DEF StartBatch, ScanVector, CutBudget, EvaluateInProcess, BatchAnswers, BatchReturns
  <2>3. Refuses({})
    BY <1>2, <2>1, <2>2
  <2>4. QED BY <2>1, <2>3
<1>6. CASE InProcessRaises \/ BatchRaises
  <2>1. StepRaises /\ solver' = solver
    BY <1>6 DEF InProcessRaises, BatchRaises, StepRaises, stateVars, callVars, Inv2, RequestInv,
                InCall
  <2>2. QED BY <2>1
<1>7. CASE MergeResult
  <2>1. /\ merged + 1 \in 1..cut /\ merged + 1 \in (merged + 1)..Len(first)
        /\ merged + 1 \in 1..Len(first) /\ phase = "merging" /\ phase' = "merging"
    BY <1>1, <1>7 DEF MergeResult, TypeOK
  <2>2. first[merged + 1] \in Keys /\ cache[first[merged + 1]] = NotCached
    BY <1>1, <2>1 DEF CallInv, InCall, TypeOK
  <2>3. results[merged + 1] = Candidate(first[merged + 1])
    BY <1>1, <2>1 DEF ResultsInv
  <2>4. total < MaxEvaluations
    BY <1>1, <1>7, <2>1, EvaluatorAssumption DEF BudgetInv, TypeOK, MergeResult
  <2>5. Installs(first[merged + 1]) /\ solver' = solver
    BY <1>7, <2>1, <2>2, <2>3, <2>4 DEF MergeResult, Installs
  <2>6. QED BY <2>2, <2>5
<1>8. CASE FinishBatch
  <2>1. Refuses(Overflow) /\ solver' = solver
    BY <1>8, OverflowFacts DEF FinishBatch, Refuses
  <2>2. QED BY <1>8, <2>1, OverflowFacts
<1>9. QED
  BY <1>3, <1>4, <1>5, <1>6, <1>7, <1>8 DEF Next

-----------------------------------------------------------------------------
(* The counters *)

LEMMA RefusedKeysSame ==
  ASSUME Inv2, NEW S \in SUBSET Keys, Refuses(S)
  PROVE  EvaluatedKeys' = EvaluatedKeys /\ ValidKeys' = ValidKeys
BY RefusedType, NoneAssumption DEF Refuses, EvaluatedKeys, ValidKeys

LEMMA CountStep ==
  ASSUME Inv2, CountInv, [Next]_vars
  PROVE  CountInv'
<1>1. ASSUME NEW k \in Keys, Installs(k)
      PROVE  CountInv'
  <2>1. TypeOK
    BY DEF Inv2, Inv1
  <2>2. /\ EntryOf(Candidate(k)) \in Entries
        /\ EntryOf(Candidate(k)).reason # "max_evaluations"
    BY <2>1, CandidateType, EntryType
  <2>3. /\ IsFiniteSet(EvaluatedKeys') /\ IsFiniteSet(ValidKeys')
        /\ valid' = Cardinality(ValidKeys') /\ total' = Cardinality(EvaluatedKeys')
        /\ valid' + infeasible' = Cardinality(EvaluatedKeys')
    BY <1>1, <2>1, <2>2, InstallCounts DEF Installs
  <2>4. Ahead' = 0 /\ total' \in Nat
    BY <1>1, <2>3, FS_CardinalityType DEF Installs, Ahead
  <2>5. QED BY <2>3, <2>4 DEF CountInv
<1>2. ASSUME NEW S \in SUBSET Keys, Refuses(S)
      PROVE  CountInv'
  <2>1. EvaluatedKeys' = EvaluatedKeys /\ ValidKeys' = ValidKeys
    BY <1>2, RefusedKeysSame
  <2>2. Ahead' = Ahead /\ UNCHANGED <<total, valid, infeasible>>
    BY <1>2 DEF Refuses, Ahead
  <2>3. QED BY <2>1, <2>2 DEF CountInv
<1>3. CASE StepRaises
  <2>1. EvaluatedKeys' = EvaluatedKeys /\ ValidKeys' = ValidKeys
    BY <1>3 DEF StepRaises, EvaluatedKeys, ValidKeys
  <2>2. Ahead = 0 /\ Cardinality(EvaluatedKeys) \in Nat
    BY <1>3, FS_CardinalityType DEF StepRaises, Ahead, CountInv
  <2>3. total' = total + Ahead' /\ UNCHANGED <<valid, infeasible>>
    <3>1. total \in Nat
      BY <2>2 DEF CountInv
    <3>2. QED BY <1>3, <3>1 DEF StepRaises, Ahead
  <2>4. QED BY <2>1, <2>2, <2>3 DEF CountInv
<1>4. QED BY <1>1, <1>2, <1>3, StateStep

LEMMA CountInit == Init => CountInv
<1>1. ASSUME Init
      PROVE  EvaluatedKeys = {} /\ ValidKeys = {}
  BY <1>1 DEF Init, EvaluatedKeys, ValidKeys
<1>2. ASSUME Init
      PROVE  Ahead = 0 /\ total = 0 /\ valid = 0 /\ infeasible = 0
  BY <1>2 DEF Init, Ahead
<1>3. QED BY <1>1, <1>2, FS_EmptySet DEF CountInv

(* Every unit of the budget is one cached evaluation, of its kind, or the  *)
(* one that raised; and the budget is never exceeded.                      *)
THEOREM CountersExact == Spec => []AccountingExact
<1>1. Init => Inv2 /\ CountInv
  BY Inv2Init, CountInit
<1>2. Inv2 /\ CountInv /\ [Next]_vars => (Inv2 /\ CountInv)'
  BY Inv2Step, CountStep
<1>3. Inv2 /\ CountInv => AccountingExact
  BY DEF CountInv, Inv2, BudgetInv, AccountingExact
<1>4. QED BY <1>1, <1>2, <1>3, PTL DEF Spec

-----------------------------------------------------------------------------
(* The incumbent *)

\* What an installation does to the valid keys and the incumbent.
LEMMA InstallIncumbent ==
  ASSUME Inv2, NEW k \in Keys, Installs(k)
  PROVE  LET e == EntryOf(Candidate(k))
         IN  /\ e.score \in Int
             /\ k \notin ValidKeys
             /\ ValidKeys' = IF e.reason = "valid" THEN ValidKeys \cup {k} ELSE ValidKeys
             /\ cache'[k] = e
             /\ \A j \in ValidKeys : cache'[j] = cache[j]
             /\ valid' = IF e.reason = "valid" THEN valid + 1 ELSE valid
             /\ best' = IF e.reason = "valid" /\ IsBetterScore(k, e.score)
                          THEN [vector |-> k, score |-> e.score] ELSE best
<1> DEFINE e == EntryOf(Candidate(k))
<1>1. TypeOK
  BY DEF Inv2, Inv1
<1>2. e \in Entries /\ Install(k, e) /\ cache[k] = NotCached
  BY <1>1, CandidateType, EntryType DEF Installs
<1> HIDE DEF e
<1>3. /\ cache'[k] = e
      /\ \A j \in Keys : j # k => cache'[j] = cache[j]
  BY <1>1, <1>2, InstallType
<1>4. k \notin ValidKeys /\ \A j \in ValidKeys : j \in Keys
  BY <1>2 DEF ValidKeys
<1>5. ValidKeys' = IF e.reason = "valid" THEN ValidKeys \cup {k} ELSE ValidKeys
  BY <1>2, <1>3, <1>4, NoneAssumption DEF ValidKeys
<1>6. e.score \in Int
  BY <1>2 DEF Entries
<1>7. QED
  BY <1>2, <1>3, <1>4, <1>5, <1>6 DEF Install, UpdateIncumbent, e

\* The slack of IncumbentSound grows by one tolerance with every valid score.
LEMMA SlackGrows ==
  ASSUME NEW n \in Nat
  PROVE  /\ TieTol * ((n + 1) - 1) \in Nat
         /\ n > 0 => /\ TieTol * (n - 1) \in Nat
                     /\ TieTol * ((n + 1) - 1) = TieTol * (n - 1) + TieTol
<1>1. TieTol \in Nat
  BY EvaluatorAssumption
<1>2. TieTol * ((n + 1) - 1) = TieTol * n /\ TieTol * n \in Nat
  BY <1>1
<1>3. n > 0 => TieTol * n = TieTol * (n - 1) + TieTol /\ TieTol * (n - 1) \in Nat
  BY <1>1
<1>4. QED BY <1>2, <1>3

LEMMA ValidScores ==
  ASSUME TypeOK
  PROVE  \A k \in ValidKeys : k \in Keys /\ cache[k].score \in Int
BY DEF TypeOK, ValidKeys, Entries

LEMMA IncumbentInstalls ==
  ASSUME Inv2, CountInv, IncumbentSound, NEW k \in Keys, Installs(k)
  PROVE  IncumbentSound'
<1> DEFINE e == EntryOf(Candidate(k))
<1>1. TypeOK
  BY DEF Inv2, Inv1
<1>2. /\ e.score \in Int
      /\ k \notin ValidKeys
      /\ ValidKeys' = IF e.reason = "valid" THEN ValidKeys \cup {k} ELSE ValidKeys
      /\ cache'[k] = e
      /\ \A j \in ValidKeys : cache'[j] = cache[j]
      /\ valid' = IF e.reason = "valid" THEN valid + 1 ELSE valid
      /\ best' = IF e.reason = "valid" /\ IsBetterScore(k, e.score)
                   THEN [vector |-> k, score |-> e.score] ELSE best
  BY InstallIncumbent
<1> HIDE DEF e
<1>3. \A j \in ValidKeys : j \in Keys /\ cache[j].score \in Int
  BY <1>1, ValidScores
<1>4. valid \in Nat /\ TieTol \in Nat
  BY <1>1, EvaluatorAssumption DEF TypeOK
<1>5. [vector |-> k, score |-> e.score] # NoBest
  BY <1>2, NoneAssumption DEF Incumbents
<1>6. valid = 0 => ValidKeys = {}
  BY FS_EmptySet DEF CountInv
<1>7. CASE e.reason # "valid"
  BY <1>2, <1>7 DEF IncumbentSound
<1>8. CASE e.reason = "valid" /\ best = NoBest
  <2>1. valid = 0 /\ ValidKeys' = {k} /\ valid' = 1
    BY <1>2, <1>6, <1>8 DEF IncumbentSound
  <2>2. best' = [vector |-> k, score |-> e.score]
    BY <1>2, <1>8 DEF IsBetterScore
  <2>3. TieTol * (valid' - 1) = 0
    BY <1>4, <2>1
  <2>4. QED
    BY <1>2, <1>5, <2>1, <2>2, <2>3 DEF IncumbentSound
<1>9. CASE e.reason = "valid" /\ best # NoBest
  <2>1. /\ best \in Incumbents /\ best.vector \in ValidKeys /\ best.score \in Int
        /\ best.score = cache[best.vector].score
    BY <1>1, <1>9 DEF IncumbentSound, TypeOK, Incumbents
  <2>2. valid > 0 /\ valid' = valid + 1
    BY <1>2, <1>4, <1>9 DEF IncumbentSound
  <2> DEFINE slack == TieTol * (valid - 1)
             slackNext == TieTol * (valid' - 1)
  <2>3. slack \in Nat /\ slackNext = slack + TieTol
    BY <1>4, <2>2, SlackGrows
  <2>4. \A j \in ValidKeys : best.score <= cache[j].score + slack
    BY <1>9 DEF IncumbentSound
  <2> HIDE DEF slack, slackNext
  <2>5. best'.score \in Int /\ best'.score <= e.score + TieTol
        /\ best'.score <= best.score + TieTol
    BY <1>2, <1>4, <1>9, <2>1 DEF IsBetterScore
  <2>6. \A j \in ValidKeys' : best'.score <= cache'[j].score + slackNext
    <3> SUFFICES ASSUME NEW j \in ValidKeys'
                 PROVE  best'.score <= cache'[j].score + slackNext
      OBVIOUS
    <3>1. CASE j = k
      BY <1>2, <1>4, <2>3, <2>5, <3>1
    <3>2. CASE j \in ValidKeys
      <4>1. cache[j].score \in Int /\ best.score <= cache[j].score + slack
            /\ cache'[j] = cache[j]
        BY <1>2, <1>3, <2>4, <3>2
      <4>2. QED BY <1>4, <2>1, <2>3, <2>5, <4>1
    <3>3. QED BY <1>2, <1>9, <3>1, <3>2
  <2>7. best' # NoBest /\ best'.vector \in ValidKeys' /\ best'.score = cache'[best'.vector].score
    BY <1>2, <1>5, <1>9, <2>1
  <2>8. valid' # 0
    BY <1>4, <2>2
  <2>9. QED
    BY <2>6, <2>7, <2>8 DEF IncumbentSound, slackNext
<1>10. QED BY <1>7, <1>8, <1>9

LEMMA IncumbentStep ==
  ASSUME Inv2, CountInv, IncumbentSound, [Next]_vars
  PROVE  IncumbentSound'
<1>1. ASSUME NEW k \in Keys, Installs(k)
      PROVE  IncumbentSound'
  BY <1>1, IncumbentInstalls
<1>2. ASSUME NEW S \in SUBSET Keys, Refuses(S)
      PROVE  IncumbentSound'
  <2>1. ValidKeys' = ValidKeys
    BY <1>2, RefusedKeysSame
  <2>2. \A k \in ValidKeys : cache'[k] = cache[k]
    BY <1>2 DEF Refuses, ValidKeys
  <2>3. QED BY <1>2, <2>1, <2>2 DEF Refuses, IncumbentSound
<1>3. CASE StepRaises
  BY <1>3 DEF StepRaises, IncumbentSound, ValidKeys
<1>4. QED BY <1>1, <1>2, <1>3, StateStep

(* The incumbent is a valid entry, and at most one tie tolerance per valid *)
(* score above the lowest of them.                                         *)
THEOREM IncumbentBounded == Spec => []IncumbentSound
<1>1. Init => Inv2 /\ CountInv /\ IncumbentSound
  <2>1. Init => IncumbentSound
    BY DEF Init, IncumbentSound
  <2>2. QED BY <2>1, Inv2Init, CountInit
<1>2. Inv2 /\ CountInv /\ IncumbentSound /\ [Next]_vars
        => (Inv2 /\ CountInv /\ IncumbentSound)'
  BY Inv2Step, CountStep, IncumbentStep
<1>3. QED BY <1>1, <1>2, PTL DEF Spec

-----------------------------------------------------------------------------
(* Away from near-ties the incumbent is the lexicographic minimum.  While  *)
(* the scores found are separated, those found before were too, so the     *)
(* property is inductive as it stands.                                     *)

LEMMA ValidSurface ==
  ASSUME TypeOK, NEW k \in Keys, EntryOf(Candidate(k)).reason = "valid"
  PROVE  SurfaceOf[k] \in Int
<1>1. Candidate(k).reason = "valid"
  BY CandidateType, EntryType
<1>2. SurfaceOf[k] # NoSurface
  BY <1>1 DEF Candidate, InvalidGeometry
<1>3. QED BY <1>2, EvaluatorAssumption

\* A cached valid entry belongs to a key that has a surface.
SurfacesInv == \A k \in ValidKeys : SurfaceOf[k] \in Int

LEMMA SurfacesStep ==
  ASSUME Inv2, SurfacesInv, [Next]_vars
  PROVE  SurfacesInv'
<1>1. ASSUME NEW k \in Keys, Installs(k)
      PROVE  SurfacesInv'
  <2>1. TypeOK
    BY DEF Inv2, Inv1
  <2>2. QED BY <1>1, <2>1, InstallIncumbent, ValidSurface DEF SurfacesInv
<1>2. ASSUME NEW S \in SUBSET Keys, Refuses(S)
      PROVE  SurfacesInv'
  BY <1>2, RefusedKeysSame DEF SurfacesInv
<1>3. CASE StepRaises
  BY <1>3 DEF StepRaises, SurfacesInv, ValidKeys
<1>4. QED BY <1>1, <1>2, <1>3, StateStep

LEMMA OptimalInstalls ==
  ASSUME Inv2, SurfacesInv, IncumbentSound, CountInv, LowestFirst,
         NEW k \in Keys, Installs(k), ScoresSeparated'
  PROVE  LowestFirst'
<1> DEFINE e == EntryOf(Candidate(k))
<1>1. TypeOK
  BY DEF Inv2, Inv1
<1>2. /\ e.score \in Int
      /\ k \notin ValidKeys
      /\ ValidKeys' = IF e.reason = "valid" THEN ValidKeys \cup {k} ELSE ValidKeys
      /\ cache'[k] = e
      /\ \A j \in ValidKeys : cache'[j] = cache[j]
      /\ best' = IF e.reason = "valid" /\ IsBetterScore(k, e.score)
                   THEN [vector |-> k, score |-> e.score] ELSE best
  BY InstallIncumbent
<1>3. e.reason = "valid" => SurfaceOf[k] \in Int
  BY <1>1, ValidSurface
<1> HIDE DEF e
<1>4. \A j \in ValidKeys : j \in Keys /\ cache[j].score \in Int /\ SurfaceOf[j] \in Int
  BY <1>1, ValidScores DEF SurfacesInv
<1>5. TieTol \in Nat
  BY EvaluatorAssumption
<1>6. ScoresSeparated
  BY <1>2 DEF ScoresSeparated
<1>7. CASE e.reason # "valid"
  BY <1>2, <1>6, <1>7 DEF LowestFirst
<1>8. CASE e.reason = "valid" /\ best = NoBest
  <2>1. ValidKeys = {}
    BY <1>8, FS_EmptySet DEF CountInv, IncumbentSound
  <2>2. best' = [vector |-> k, score |-> e.score] /\ ValidKeys' = {k}
    BY <1>2, <1>8, <2>1 DEF IsBetterScore
  <2>3. QED BY <1>2, <1>3, <1>8, <2>2 DEF LowestFirst
<1>9. CASE e.reason = "valid" /\ best # NoBest
  <2>1. /\ best.vector \in ValidKeys /\ best.score \in Int
        /\ best.score = cache[best.vector].score
    BY <1>4, <1>9 DEF IncumbentSound
  <2>2. \A j \in ValidKeys :
          \/ best.score < cache[j].score
          \/ best.score = cache[j].score /\ SurfaceOf[best.vector] <= SurfaceOf[j]
    BY <1>6 DEF LowestFirst
  <2>3. k \in ValidKeys' /\ best.vector \in ValidKeys'
    BY <1>2, <1>9, <2>1
  <2>4. \/ e.score = best.score
        \/ e.score > best.score + TieTol
        \/ best.score > e.score + TieTol
    BY <1>2, <2>1, <2>3 DEF ScoresSeparated
  <2>5. CASE IsBetterScore(k, e.score)
    <3>1. best' = [vector |-> k, score |-> e.score]
      BY <1>2, <1>9, <2>5
    <3>2. \/ e.score < best.score
          \/ e.score = best.score /\ SurfaceOf[k] < SurfaceOf[best.vector]
      BY <1>2, <1>5, <1>9, <2>1, <2>4, <2>5 DEF IsBetterScore
    <3>3. SurfaceOf[best.vector] \in Int /\ SurfaceOf[k] \in Int
      BY <1>3, <1>4, <1>9, <2>1
    <3>4. ASSUME NEW j \in ValidKeys'
          PROVE  \/ best'.score < cache'[j].score
                 \/ best'.score = cache'[j].score /\ SurfaceOf[best'.vector] <= SurfaceOf[j]
      <4>1. CASE j = k
        BY <1>2, <3>1, <3>3, <4>1
      <4>2. CASE j \in ValidKeys
        <5>1. cache'[j] = cache[j] /\ cache[j].score \in Int /\ SurfaceOf[j] \in Int
          BY <1>2, <1>4, <4>2
        <5>2. QED BY <1>2, <2>1, <2>2, <3>1, <3>2, <3>3, <4>2, <5>1
      <4>3. QED BY <1>2, <1>9, <4>1, <4>2
    <3>5. QED BY <3>4 DEF LowestFirst
  <2>6. CASE ~IsBetterScore(k, e.score)
    <3>1. best' = best
      BY <1>2, <2>6
    <3>2. SurfaceOf[best.vector] \in Int /\ SurfaceOf[k] \in Int
      BY <1>3, <1>4, <1>9, <2>1
    <3>3. \/ best.score < e.score
          \/ best.score = e.score /\ SurfaceOf[best.vector] <= SurfaceOf[k]
      BY <1>2, <1>5, <1>9, <2>1, <2>4, <2>6, <3>2 DEF IsBetterScore
    <3>4. QED
      BY <1>2, <1>9, <2>2, <3>1, <3>3 DEF LowestFirst
  <2>7. QED BY <2>5, <2>6
<1>10. QED BY <1>7, <1>8, <1>9

LEMMA OptimalStep ==
  ASSUME Inv2, CountInv, SurfacesInv, IncumbentSound, LowestFirst, [Next]_vars
  PROVE  LowestFirst'
<1>1. ASSUME NEW k \in Keys, Installs(k)
      PROVE  LowestFirst'
  BY <1>1, OptimalInstalls DEF LowestFirst
<1>2. ASSUME NEW S \in SUBSET Keys, Refuses(S)
      PROVE  LowestFirst'
  <2>1. ValidKeys' = ValidKeys
    BY <1>2, RefusedKeysSame
  <2>2. \A k \in ValidKeys : cache'[k] = cache[k]
    BY <1>2 DEF Refuses, ValidKeys
  <2>3. QED BY <1>2, <2>1, <2>2 DEF Refuses, LowestFirst, ScoresSeparated
<1>3. CASE StepRaises
  BY <1>3 DEF StepRaises, LowestFirst, ScoresSeparated, ValidKeys
<1>4. QED BY <1>1, <1>2, <1>3, StateStep

(* The incumbent is a valid entry under its own score, at most one         *)
(* tolerance above the lowest for every valid point after the first; and   *)
(* while no two scores found are a near-tie it is the lowest of them and   *)
(* the first surface among its equals: no order of evaluation changes it.  *)
THEOREM IncumbentLexicographic == Spec => []IncumbentOptimal
<1> DEFINE IInv == Inv2 /\ CountInv /\ SurfacesInv /\ IncumbentSound /\ LowestFirst
<1>1. Init => IInv
  <2>1. Init => SurfacesInv /\ IncumbentSound /\ LowestFirst
    BY DEF Init, SurfacesInv, IncumbentSound, LowestFirst, ValidKeys
  <2>2. QED BY <2>1, Inv2Init, CountInit
<1>2. IInv /\ [Next]_vars => IInv'
  BY Inv2Step, CountStep, SurfacesStep, IncumbentStep, OptimalStep
<1>3. IInv => IncumbentOptimal
  BY DEF IncumbentOptimal
<1> HIDE DEF IInv
<1>4. QED BY <1>1, <1>2, <1>3, PTL DEF Spec

-----------------------------------------------------------------------------
(* The refinement *)

LEMMA MemoStep ==
  ASSUME Inv2, [Next]_vars
  PROVE  [Memo!MemoNext]_Memo!memoVars
<1>1. [k \in Keys |-> EntryOf(Candidate(k))]' = [k \in Keys |-> EntryOf(Candidate(k))]
  BY StateStep DEF Candidate
<1>2. ASSUME NEW k \in Keys, Installs(k)
      PROVE  Memo!Evaluate(k)
  <2>1. cache' = [cache EXCEPT ![k] = EntryOf(Candidate(k))] /\ total' = total + 1
    BY <1>2 DEF Installs, Install
  <2>2. [j \in Keys |-> EntryOf(Candidate(j))][k] = EntryOf(Candidate(k))
    OBVIOUS
  <2>3. QED BY <1>1, <1>2, <2>1, <2>2 DEF Installs, Memo!Evaluate
<1>3. ASSUME NEW S \in SUBSET Keys, Refuses(S), S # {}
      PROVE  Memo!Refuse(S)
  BY <1>1, <1>3 DEF Refuses, Memo!Refuse
<1>4. ASSUME Refuses({})
      PROVE  UNCHANGED Memo!memoVars
  <2>1. cache' = cache
    BY <1>4 DEF Refuses, Inv2, Inv1, TypeOK
  <2>2. QED BY <1>1, <1>4, <2>1 DEF Refuses, Memo!memoVars
<1>5. CASE StepRaises
  BY <1>1, <1>5 DEF StepRaises, Memo!Close, Memo!MemoNext
<1>6. QED
  BY <1>2, <1>3, <1>4, <1>5, StateStep DEF Memo!MemoNext

(* The evaluator implements the budgeted memo, for every solver and every  *)
(* sequence of single and batch requests.                                  *)
THEOREM EvaluatorImplementsMemo == Spec => ImplementsBudgetedMemo
<1>1. Init => Memo!MemoInit
  BY DEF Init, Memo!MemoInit
<1>2. Inv2 /\ [Next]_vars => [Memo!MemoNext]_Memo!memoVars
  BY MemoStep
<1>3. QED
  BY <1>1, <1>2, Inv2Init, Inv2Step, PTL DEF Spec, ImplementsBudgetedMemo, Memo!MemoSpec

-----------------------------------------------------------------------------
(* The calls seen from outside *)

\* A set of natural numbers has a least one.
LEMMA LeastNatural ==
  ASSUME NEW T, T \subseteq Nat, T # {}
  PROVE  \E x \in T : \A y \in T : x <= y
<1> DEFINE R == {ss \in Nat \X Nat : ss[1] < ss[2]}
<1>1. OpToRel(<, Nat) = R
  BY DEF OpToRel
<1>2. IsWellFoundedOn(R, Nat)
  BY <1>1, NatLessThanWellFounded, Zenon
<1> HIDE DEF R
<1>3. PICK x \in T : \A y \in T : ~(<<y, x>> \in R)
  BY <1>2, WFMin, Zenon
<1>4. ASSUME NEW y \in T
      PROVE  x <= y
  <2>1. x \in Nat /\ y \in Nat
    OBVIOUS
  <2>2. <<y, x>> \in R <=> y < x
    BY <2>1 DEF R
  <2>3. QED
    BY <1>3, <2>1, <2>2
<1>5. QED
  BY <1>4

-----------------------------------------------------------------------------
(* The serial evaluation of one key *)

StateType ==
  [cache : [Keys -> Entries \cup {NotCached}], total : Nat, valid : Nat, infeasible : Nat,
   best : Incumbents \cup {NoBest}]

LEMMA StateNowType == TypeOK => StateNow \in StateType
BY DEF TypeOK, StateNow, StateType

\* It caches its key, leaves what is cached alone, and makes a state of a state.
LEMMA SerialStepFacts ==
  ASSUME TypeOK, NEW s \in StateType, NEW k \in Keys
  PROVE  /\ SerialStep(s, k) \in StateType
         /\ SerialStep(s, k).cache[k] # NotCached
         /\ \A j \in Keys : s.cache[j] # NotCached => SerialStep(s, k).cache[j] = s.cache[j]
         /\ s.cache[k] # NotCached => SerialStep(s, k) = s
         /\ s.cache[k] = NotCached /\ s.total >= MaxEvaluations =>
              SerialStep(s, k) = [s EXCEPT !.cache[k] = RefusedEntry]
<1> DEFINE e == EntryOf(Candidate(k))
<1>1. e \in Entries /\ RefusedEntry \in Entries
  BY CandidateType, EntryType, RefusedType
<1>2. e # NotCached /\ RefusedEntry # NotCached
  BY <1>1, NoneAssumption
<1>3. CASE s.cache[k] # NotCached
  BY <1>3 DEF SerialStep
<1>4. CASE s.cache[k] = NotCached /\ s.total >= MaxEvaluations
  <2>1. SerialStep(s, k) = [s EXCEPT !.cache[k] = RefusedEntry]
    BY <1>4 DEF SerialStep
  <2>2. QED
    BY <1>1, <1>2, <1>4, <2>1 DEF StateType
<1>5. CASE s.cache[k] = NotCached /\ ~(s.total >= MaxEvaluations)
  <2> DEFINE better == \/ s.best = NoBest
                       \/ e.score < s.best.score - TieTol
                       \/ /\ e.score - s.best.score \in -TieTol..TieTol
                          /\ SurfaceOf[k] < SurfaceOf[s.best.vector]
             after == [cache |-> [s.cache EXCEPT ![k] = e],
                       total |-> s.total + 1,
                       valid |-> s.valid + (IF e.reason = "valid" THEN 1 ELSE 0),
                       infeasible |-> s.infeasible + (IF e.reason = "valid" THEN 0 ELSE 1),
                       best |-> IF e.reason = "valid" /\ better
                                  THEN [vector |-> k, score |-> e.score] ELSE s.best]
  <2>1. SerialStep(s, k) = after
    BY <1>5 DEF SerialStep
  <2> HIDE DEF better, e
  <2>2. [vector |-> k, score |-> e.score] \in Incumbents
    BY <1>1 DEF Entries, Incumbents
  <2>3. after \in StateType
    BY <1>1, <2>2 DEF StateType
  <2>4. /\ after.cache[k] # NotCached
        /\ \A j \in Keys : s.cache[j] # NotCached => after.cache[j] = s.cache[j]
    BY <1>2, <1>5 DEF StateType
  <2> HIDE DEF after
  <2>5. QED
    BY <1>5, <2>1, <2>3, <2>4
<1>6. QED
  BY <1>3, <1>4, <1>5

\* Installing the score of a new key is its serial evaluation.
LEMMA InstallIsSerialStep ==
  ASSUME TypeOK, NEW k \in Keys, cache[k] = NotCached, total < MaxEvaluations,
         Install(k, EntryOf(Candidate(k)))
  PROVE  StateNow' = SerialStep(StateNow, k)
<1> DEFINE e == EntryOf(Candidate(k))
           s == StateNow
           better == \/ s.best = NoBest
                     \/ e.score < s.best.score - TieTol
                     \/ /\ e.score - s.best.score \in -TieTol..TieTol
                        /\ SurfaceOf[k] < SurfaceOf[s.best.vector]
<1>1. e \in Entries
  BY CandidateType, EntryType
<1>2. SerialStep(s, k) =
        [cache |-> [s.cache EXCEPT ![k] = e],
         total |-> s.total + 1,
         valid |-> s.valid + (IF e.reason = "valid" THEN 1 ELSE 0),
         infeasible |-> s.infeasible + (IF e.reason = "valid" THEN 0 ELSE 1),
         best |-> IF e.reason = "valid" /\ better
                    THEN [vector |-> k, score |-> e.score] ELSE s.best]
  <2>1. s.cache[k] = NotCached /\ ~(s.total >= MaxEvaluations)
    BY EvaluatorAssumption DEF StateNow, TypeOK
  <2>2. QED
    BY <2>1 DEF SerialStep
<1>3. IsBetterScore(k, e.score) <=> better
  <2>1. CASE best = NoBest
    BY <2>1 DEF IsBetterScore, StateNow
  <2>2. CASE best # NoBest
    <3>1. best.score \in Int /\ e.score \in Int
      BY <1>1, <2>2 DEF TypeOK, Incumbents, Entries
    <3> HIDE DEF e
    <3>2. e.score - best.score \in -TieTol..TieTol <=>
            e.score <= best.score + TieTol /\ e.score >= best.score - TieTol
      BY <3>1, EvaluatorAssumption
    <3>3. s.best = best
      BY DEF StateNow
    <3>4. QED
      BY <2>2, <3>2, <3>3 DEF IsBetterScore
  <2>3. QED
    BY <2>1, <2>2
<1> HIDE DEF e, better
<1>4. /\ cache' = [cache EXCEPT ![k] = e] /\ total' = total + 1
      /\ valid' = IF e.reason = "valid" THEN valid + 1 ELSE valid
      /\ infeasible' = IF e.reason = "valid" THEN infeasible ELSE infeasible + 1
      /\ best' = IF e.reason = "valid" /\ better THEN [vector |-> k, score |-> e.score] ELSE best
  BY <1>3 DEF Install, UpdateIncumbent, e
<1>5. valid + 0 = valid /\ infeasible + 0 = infeasible
  BY DEF TypeOK
<1>6. QED
  BY <1>2, <1>4, <1>5 DEF StateNow

-----------------------------------------------------------------------------
(* The serial evaluation of a request, one key after the other *)

\* S lists the states that r goes through from a.
Replays(a, r, S) ==
  S = [n \in 0..Len(r) |->
         IF n = 0 THEN a ELSE SerialStep(S[n - 1], r[n])]

LEMMA ReplayExists ==
  ASSUME NEW a, NEW r \in Seq(Keys)
  PROVE  \E S : Replays(a, r, S)
<1> DEFINE L == Len(r)
           Upto(S, m) == S = [n \in 0..m |->
                                IF n = 0 THEN a ELSE SerialStep(S[n - 1], r[n])]
           Bad == {m \in Nat : ~\E S : Upto(S, m)}
<1>1. Bad = {}
  <2>1. SUFFICES ASSUME Bad # {} PROVE FALSE
    OBVIOUS
  <2>2. PICK m \in Bad : \A i \in Bad : m <= i
    <3>1. Bad \subseteq Nat
      OBVIOUS
    <3> HIDE DEF Bad
    <3>2. QED
      BY <2>1, <3>1, LeastNatural
  <2>3. CASE m = 0
    <3>1. Upto([n \in 0..0 |-> a], 0)
      OBVIOUS
    <3>2. QED
      BY <2>2, <2>3, <3>1
  <2>4. CASE m # 0
    <3>1. m \in Nat /\ m - 1 \in Nat /\ ~(m <= m - 1)
      BY <2>4
    <3>2. m - 1 \notin Bad
      <4> HIDE DEF Bad
      <4>1. QED
        BY <2>2, <3>1
    <3>3. PICK S : Upto(S, m - 1)
      BY <3>1, <3>2
    <3> DEFINE F == [n \in 0..m |-> IF n = 0 THEN a ELSE SerialStep(S[n - 1], r[n])]
    <3>4. ASSUME NEW n \in 0..(m - 1) PROVE F[n] = S[n]
      BY <3>1, <3>3
    <3>5. ASSUME NEW n \in 0..m
          PROVE  F[n] = IF n = 0 THEN a ELSE SerialStep(F[n - 1], r[n])
      <4>1. CASE n = 0
        BY <4>1
      <4>2. CASE n # 0
        <5>1. n - 1 \in 0..(m - 1)
          BY <3>1, <4>2
        <5>2. F[n - 1] = S[n - 1]
          BY <3>4, <5>1
        <5>3. QED
          BY <4>2, <5>2
      <4>3. QED
        BY <4>1, <4>2
    <3>6. Upto(F, m)
      <4>1. F = [n \in 0..m |-> F[n]]
        OBVIOUS
      <4> HIDE DEF F
      <4>2. QED
        BY <3>5, <4>1
    <3>7. QED
      BY <2>2, <3>6
  <2>5. QED
    BY <2>3, <2>4
<1>2. QED
  BY <1>1 DEF Replays

LEMMA ReplaySteps ==
  ASSUME NEW a, NEW r \in Seq(Keys), NEW S, Replays(a, r, S)
  PROVE  /\ S[0] = a
         /\ \A n \in 1..Len(r) : S[n] = SerialStep(S[n - 1], r[n])
BY DEF Replays

\* Whatever was cached when the call began, and every key evaluated so far, is cached.
LEMMA ReplayCaches ==
  ASSUME TypeOK, NEW a \in StateType, NEW r \in Seq(Keys), NEW S, Replays(a, r, S), NEW n \in 0..Len(r)
  PROVE  /\ S[n] \in StateType
         /\ \A k \in Keys : a.cache[k] # NotCached => S[n].cache[k] # NotCached
         /\ \A i \in 1..n : S[n].cache[r[i]] # NotCached
<1> DEFINE Good(m) == /\ S[m] \in StateType
                      /\ \A k \in Keys : a.cache[k] # NotCached => S[m].cache[k] # NotCached
                      /\ \A i \in 1..m : S[m].cache[r[i]] # NotCached
           Bad == {m \in 0..Len(r) : ~Good(m)}
<1>1. SUFFICES ASSUME Bad # {} PROVE FALSE
  OBVIOUS
<1>2. Bad \subseteq Nat /\ Len(r) \in Nat
  OBVIOUS
<1>3. PICK m \in Bad : \A i \in Bad : m <= i
  <2> HIDE DEF Bad
  <2>1. QED
    BY <1>1, <1>2, LeastNatural
<1>4. Good(0)
  BY ReplaySteps
<1>5. m \in 1..Len(r) /\ m - 1 \in 0..Len(r) /\ ~(m <= m - 1)
  BY <1>2, <1>3, <1>4
<1>6. Good(m - 1)
  <2>1. m - 1 \notin Bad
    <3> HIDE DEF Bad
    <3>1. QED
      BY <1>3, <1>5
  <2>2. QED
    BY <1>5, <2>1
<1>7. S[m] = SerialStep(S[m - 1], r[m]) /\ r[m] \in Keys
  BY <1>5, ReplaySteps
<1>8. S[m - 1] \in StateType
  BY <1>6
<1>9. /\ S[m] \in StateType /\ S[m].cache[r[m]] # NotCached
      /\ \A j \in Keys : S[m - 1].cache[j] # NotCached => S[m].cache[j] = S[m - 1].cache[j]
  <2> DEFINE s == S[m - 1]
             k == r[m]
  <2>1. s \in StateType /\ k \in Keys /\ S[m] = SerialStep(s, k)
    BY <1>7, <1>8
  <2> HIDE DEF s, k
  <2>2. /\ S[m] \in StateType /\ S[m].cache[k] # NotCached
        /\ \A j \in Keys : s.cache[j] # NotCached => S[m].cache[j] = s.cache[j]
    BY <2>1, SerialStepFacts
  <2>3. QED
    BY <2>2 DEF s, k
<1>10. \A i \in 1..m : S[m].cache[r[i]] # NotCached
  <2>1. TAKE i \in 1..m
  <2>2. CASE i = m
    BY <1>9, <2>2
  <2>3. CASE i # m
    <3>1. i \in 1..(m - 1) /\ r[i] \in Keys
      BY <1>5, <2>3
    <3>2. QED
      BY <1>6, <1>9, <3>1
  <2>4. QED
    BY <2>2, <2>3
<1>11. Good(m)
  BY <1>6, <1>9, <1>10
<1>12. QED
  BY <1>3, <1>11

-----------------------------------------------------------------------------
(* The positions of a request r that hold the first mention of a key not   *)
(* cached in a, among the first n, and how many of them there are.         *)

Mentions(a, r, n) ==
  {i \in 1..n : a.cache[r[i]] = NotCached /\ \A j \in 1..(i - 1) : r[j] # r[i]}

Place(a, r, n) == Cardinality(Mentions(a, r, n))

LEMMA MentionsFinite ==
  ASSUME NEW a, NEW r, NEW n \in Nat
  PROVE  IsFiniteSet(Mentions(a, r, n)) /\ Place(a, r, n) \in Nat
<1>1. IsFiniteSet(1..n) /\ Mentions(a, r, n) \subseteq 1..n
  BY FS_Interval DEF Mentions
<1>2. IsFiniteSet(Mentions(a, r, n))
  BY <1>1, FS_Subset
<1>3. QED
  BY <1>2, FS_CardinalityType DEF Place

LEMMA PlaceZero ==
  ASSUME NEW a, NEW r
  PROVE  Mentions(a, r, 0) = {} /\ Place(a, r, 0) = 0
<1>1. Mentions(a, r, 0) = {}
  BY DEF Mentions
<1>2. QED
  BY <1>1, FS_EmptySet DEF Place

\* A mention adds one place, anything else none.
LEMMA PlaceNext ==
  ASSUME NEW a, NEW r, NEW n \in Nat, n # 0
  PROVE  /\ n \in Mentions(a, r, n) =>
              /\ Mentions(a, r, n) = Mentions(a, r, n - 1) \cup {n}
              /\ Place(a, r, n) = Place(a, r, n - 1) + 1
         /\ n \notin Mentions(a, r, n) =>
              /\ Mentions(a, r, n) = Mentions(a, r, n - 1)
              /\ Place(a, r, n) = Place(a, r, n - 1)
<1>1. n - 1 \in Nat
  OBVIOUS
<1>2. n \notin Mentions(a, r, n - 1)
  BY DEF Mentions
<1>3. CASE n \in Mentions(a, r, n)
  <2>1. Mentions(a, r, n) = Mentions(a, r, n - 1) \cup {n}
    BY <1>3 DEF Mentions
  <2>2. IsFiniteSet(Mentions(a, r, n - 1))
    BY <1>1, MentionsFinite
  <2>3. QED
    BY <1>2, <1>3, <2>1, <2>2, FS_AddElement DEF Place
<1>4. CASE n \notin Mentions(a, r, n)
  <2>1. Mentions(a, r, n) = Mentions(a, r, n - 1)
    BY <1>4 DEF Mentions
  <2>2. QED
    BY <1>4, <2>1 DEF Place
<1>5. QED
  BY <1>3, <1>4

\* Places never go back, and no two mentions have the same one.
LEMMA PlaceGrows ==
  ASSUME NEW a, NEW r, NEW m \in Nat, NEW n \in Nat, m <= n
  PROVE  /\ Mentions(a, r, m) \subseteq Mentions(a, r, n)
         /\ Place(a, r, m) <= Place(a, r, n)
         /\ m # n /\ n \in Mentions(a, r, n) => Place(a, r, m) < Place(a, r, n)
<1>1. \A i, j \in Nat : i <= j => /\ Mentions(a, r, i) \subseteq Mentions(a, r, j)
                                  /\ Place(a, r, i) <= Place(a, r, j)
  <2>1. TAKE i, j \in Nat
  <2>2. HAVE i <= j
  <2>3. Mentions(a, r, i) \subseteq Mentions(a, r, j)
    BY <2>2 DEF Mentions
  <2>4. IsFiniteSet(Mentions(a, r, j))
    BY MentionsFinite
  <2>5. QED
    BY <2>3, <2>4, FS_Subset DEF Place
<1>2. ASSUME m # n, n \in Mentions(a, r, n)
      PROVE  Place(a, r, m) < Place(a, r, n)
  <2>1. n # 0 /\ n - 1 \in Nat /\ m <= n - 1
    BY <1>2
  <2>2. Place(a, r, n) = Place(a, r, n - 1) + 1
    BY <1>2, <2>1, PlaceNext
  <2>3. Place(a, r, m) <= Place(a, r, n - 1)
    BY <1>1, <2>1
  <2>4. Place(a, r, m) \in Nat /\ Place(a, r, n - 1) \in Nat
    BY <2>1, MentionsFinite
  <2>5. QED
    BY <2>2, <2>3, <2>4
<1>3. QED
  BY <1>1, <1>2

\* Every place up to the last is that of a mention.
LEMMA PlaceOnto ==
  ASSUME NEW a, NEW r, NEW n \in Nat, NEW j \in 1..Place(a, r, n)
  PROVE  \E i \in Mentions(a, r, n) : Place(a, r, i) = j
<1> DEFINE P(i) == Place(a, r, i)
           T == {i \in 0..n : P(i) >= j}
<1>1. \A i \in Nat : P(i) \in Nat
  BY MentionsFinite
<1>2. n \in T /\ T \subseteq Nat
  BY <1>1
<1>3. PICK i \in T : \A m \in T : i <= m
  <2> HIDE DEF T
  <2>1. QED
    BY <1>2, LeastNatural
<1>4. i # 0
  BY <1>3, PlaceZero
<1>5. i \in Nat /\ i - 1 \in Nat /\ i - 1 \in 0..n /\ ~(i <= i - 1)
  BY <1>3, <1>4
<1>6. i - 1 \notin T
  <2> HIDE DEF T
  <2>1. QED
    BY <1>3, <1>5
<1>7. P(i - 1) < j /\ P(i) >= j
  BY <1>1, <1>3, <1>5, <1>6
<1>8. /\ i \in Mentions(a, r, i) => P(i) = P(i - 1) + 1
      /\ i \notin Mentions(a, r, i) => P(i) = P(i - 1)
  BY <1>4, <1>5, PlaceNext
<1>9. i \in Mentions(a, r, i) /\ P(i) = j
  BY <1>1, <1>5, <1>7, <1>8
<1>10. Mentions(a, r, i) \subseteq Mentions(a, r, n)
  BY <1>5, PlaceGrows
<1>11. QED
  BY <1>9, <1>10

\* A key that is not mentioned first was cached, or mentioned before.
LEMMA SerialStutters ==
  ASSUME TypeOK, NEW a \in StateType, NEW r \in Seq(Keys), NEW S, Replays(a, r, S),
         NEW n \in 1..Len(r), n \notin Mentions(a, r, n)
  PROVE  S[n] = S[n - 1]
<1>1. n \in Nat /\ n - 1 \in 0..Len(r) /\ r[n] \in Keys
  OBVIOUS
<1>2. /\ S[n - 1] \in StateType
      /\ \A k \in Keys : a.cache[k] # NotCached => S[n - 1].cache[k] # NotCached
      /\ \A i \in 1..(n - 1) : S[n - 1].cache[r[i]] # NotCached
  BY <1>1, ReplayCaches
<1>3. a.cache[r[n]] # NotCached \/ \E j \in 1..(n - 1) : r[j] = r[n]
  BY DEF Mentions
<1>4. S[n - 1].cache[r[n]] # NotCached
  BY <1>1, <1>2, <1>3
<1>5. S[n] = SerialStep(S[n - 1], r[n])
  BY ReplaySteps
<1> DEFINE s == S[n - 1]
           k == r[n]
<1>6. s \in StateType /\ k \in Keys /\ s.cache[k] # NotCached /\ S[n] = SerialStep(s, k)
  BY <1>1, <1>2, <1>4, <1>5
<1> HIDE DEF s, k
<1>7. S[n] = s
  BY <1>6, SerialStepFacts
<1>8. QED
  BY <1>7 DEF s

LEMMA SamePlace ==
  ASSUME TypeOK, NEW a \in StateType, NEW r \in Seq(Keys), NEW S, Replays(a, r, S),
         NEW m \in 0..Len(r), NEW n \in 0..Len(r), Place(a, r, m) = Place(a, r, n)
  PROVE  S[m] = S[n]
<1>1. ASSUME NEW i \in 0..Len(r), NEW j \in 0..Len(r), i <= j,
             Place(a, r, i) = Place(a, r, j)
      PROVE  S[i] = S[j]
  <2> DEFINE Bad == {k \in i..j : S[k] # S[i]}
  <2>1. SUFFICES ASSUME Bad # {} PROVE FALSE
    BY <1>1
  <2>2. Bad \subseteq Nat
    OBVIOUS
  <2>3. PICK k \in Bad : \A l \in Bad : k <= l
    <3> HIDE DEF Bad
    <3>1. QED
      BY <2>1, <2>2, LeastNatural
  <2>4. k \in 1..Len(r) /\ k - 1 \in i..j /\ k \in Nat /\ k - 1 \in Nat /\ ~(k <= k - 1)
    BY <2>3
  <2>5. k - 1 \notin Bad
    <3> HIDE DEF Bad
    <3>1. QED
      BY <2>3, <2>4
  <2>6. S[k - 1] = S[i]
    BY <2>4, <2>5
  <2>7. /\ Place(a, r, i) <= Place(a, r, k - 1) /\ Place(a, r, k) <= Place(a, r, j)
        /\ k \in Mentions(a, r, k) => Place(a, r, k - 1) < Place(a, r, k)
    <3>1. i \in Nat /\ j \in Nat /\ k \in Nat /\ k - 1 \in Nat
      BY <2>4
    <3>2. i <= k - 1 /\ k <= j /\ k - 1 <= k /\ k - 1 # k
      BY <2>3, <2>4
    <3>3. QED
      BY <3>1, <3>2, PlaceGrows
  <2>8. k \notin Mentions(a, r, k)
    <3>1. i \in Nat /\ j \in Nat
      OBVIOUS
    <3>2. Place(a, r, i) \in Nat /\ Place(a, r, k - 1) \in Nat /\ Place(a, r, k) \in Nat
          /\ Place(a, r, j) \in Nat
      BY <2>4, <3>1, MentionsFinite
    <3>3. QED
      BY <1>1, <2>7, <3>2
  <2>9. S[k] = S[k - 1]
    BY <2>4, <2>8, SerialStutters
  <2>10. QED
    BY <2>3, <2>6, <2>9
<1>2. m <= n \/ n <= m
  OBVIOUS
<1>3. QED
  BY <1>1, <1>2

-----------------------------------------------------------------------------
(* What a call has done at each of its steps *)

CallsInv ==
  /\ atCall \in StateType
  /\ InCall =>
       /\ total = atCall.total + merged
       /\ \A k \in Keys : cache[k] = IF \E i \in 1..merged : first[i] = k
                                       THEN EntryOf(Candidate(k)) ELSE atCall.cache[k]
       /\ Place(atCall, request, scanned) = Len(first)
       /\ \A i \in Mentions(atCall, request, scanned) :
            /\ Place(atCall, request, i) \in 1..Len(first)
            /\ first[Place(atCall, request, i)] = request[i]
       /\ \E S : /\ Replays(atCall, request, S)
                 /\ \A n \in 0..Len(request) :
                      Place(atCall, request, n) = merged => S[n] = StateNow

LEMMA ReplaySame ==
  ASSUME solver' = solver, NEW S
  PROVE  Replays(atCall, request, S)' <=> Replays(atCall', request', S)
<1>1. \A k : Candidate(k)' = Candidate(k)
  BY DEF Candidate
<1>2. \A s, k : SerialStep(s, k)' = SerialStep(s, k)
  BY <1>1 DEF SerialStep
<1>3. QED
  BY <1>2 DEF Replays

LEMMA CallsSame ==
  ASSUME CallsInv, InCall, UNCHANGED <<solver, stateVars, request, scanned, first, merged, atCall>>
  PROVE  CallsInv'
<1>1. /\ solver' = solver /\ cache' = cache /\ total' = total /\ request' = request
      /\ scanned' = scanned /\ first' = first /\ merged' = merged /\ atCall' = atCall
      /\ StateNow' = StateNow
  BY DEF stateVars, StateNow
<1>2. \A k : Candidate(k)' = Candidate(k)
  BY <1>1 DEF Candidate
<1>3. PICK S : /\ Replays(atCall, request, S)
               /\ \A n \in 0..Len(request) :
                    Place(atCall, request, n) = merged => S[n] = StateNow
  BY DEF CallsInv
<1>4. Replays(atCall, request, S)'
  BY <1>1, <1>3, ReplaySame
<1>5. QED
  BY <1>1, <1>2, <1>3, <1>4 DEF CallsInv

LEMMA CallsStart ==
  ASSUME Inv2, NEW vs \in VectorSeqs, StartBatch(vs), Remember
  PROVE  CallsInv'
<1>1. TypeOK /\ TypeOK'
  BY StartBatchInv1 DEF Inv2, Inv1
<1>2. /\ atCall' = StateNow /\ request' \in Seq(Keys) /\ solver' = solver
      /\ cache' = cache /\ total' = total /\ merged' = 0 /\ scanned' = 0 /\ first' = <<>>
      /\ StateNow' = StateNow
  BY <1>1 DEF StartBatch, Remember, stateVars, StateNow, TypeOK
<1>3. atCall' \in StateType
  BY <1>1, <1>2, StateNowType
<1>4. PICK S : Replays(atCall', request', S)
  BY <1>2, ReplayExists
<1>5. Replays(atCall, request, S)'
  BY <1>2, <1>4, ReplaySame
<1>6. ASSUME NEW n \in 0..Len(request'), Place(atCall', request', n) = 0
      PROVE  S[n] = StateNow'
  <2>1. Place(atCall', request', 0) = 0 /\ 0 \in 0..Len(request')
    BY <1>2, PlaceZero
  <2>2. S[0] = S[n]
    BY <1>1, <1>2, <1>3, <1>4, <1>6, <2>1, SamePlace
  <2>3. S[0] = atCall'
    BY <1>2, <1>4, ReplaySteps
  <2>4. QED
    BY <1>2, <2>2, <2>3
<1>7. Mentions(atCall', request', 0) = {} /\ Place(atCall', request', 0) = 0
  BY PlaceZero
<1>8. total' = atCall'.total + merged' /\ cache' = atCall'.cache
  BY <1>1, <1>2 DEF StateNow, TypeOK
<1>9. QED
  BY <1>2, <1>3, <1>5, <1>6, <1>7, <1>8 DEF CallsInv

\* A vector is put in first exactly when it is the first mention of its key.
LEMMA SkipIsNoMention ==
  ASSUME Inv2, CallsInv, ScanVector
  PROVE  SkipVector(request[scanned + 1]) <=>
           scanned + 1 \notin Mentions(atCall, request, scanned + 1)
<1> DEFINE k == request[scanned + 1]
<1>1. /\ k \in Keys /\ InCall /\ merged = 0 /\ scanned \in Nat
      /\ \A i \in 1..scanned : request[i] \in Keys
  BY DEF ScanVector, InCall, Inv2, Inv1, TypeOK, CallInv
<1>2. \A j \in Keys : cache[j] = atCall.cache[j]
  BY <1>1 DEF CallsInv
<1>3. scanned + 1 \notin Mentions(atCall, request, scanned + 1) <=>
        atCall.cache[k] # NotCached \/ \E j \in 1..scanned : request[j] = k
  BY <1>1 DEF Mentions
<1>4. ASSUME Seen(k)
      PROVE  \E j \in 1..scanned : request[j] = k
  <2>1. PICK j \in 1..Len(first) : first[j] = k
    BY <1>4 DEF Seen
  <2>2. PICK i \in Mentions(atCall, request, scanned) : Place(atCall, request, i) = j
    BY <1>1, PlaceOnto DEF CallsInv
  <2>3. first[j] = request[i]
    BY <1>1, <2>2 DEF CallsInv
  <2>4. i \in 1..scanned
    BY DEF Mentions
  <2>5. QED
    BY <2>1, <2>3, <2>4
<1>5. ASSUME NEW j \in 1..scanned, request[j] = k
      PROVE  cache[k] # NotCached \/ Seen(k)
  BY <1>1, <1>5 DEF Inv2, Inv1, CallInv
<1>6. QED
  BY <1>1, <1>2, <1>3, <1>4, <1>5 DEF SkipVector

LEMMA CallsScan ==
  ASSUME Inv2, CallsInv, ScanVector, Remember
  PROVE  CallsInv'
<1> DEFINE n == scanned + 1
           M(m) == Mentions(atCall, request, m)
           P(m) == Place(atCall, request, m)
<1>1. /\ InCall /\ n \in Nat /\ n # 0 /\ n - 1 = scanned /\ n \in 1..Len(request)
      /\ merged = 0 /\ first \in Seq(Keys) /\ request[n] \in Keys
  BY DEF ScanVector, InCall, Inv2, Inv1, TypeOK, CallInv
<1>2. /\ solver' = solver /\ cache' = cache /\ total' = total /\ request' = request
      /\ scanned' = n /\ merged' = merged /\ atCall' = atCall /\ StateNow' = StateNow
      /\ first' = IF SkipVector(request[n]) THEN first ELSE Append(first, request[n])
  BY DEF ScanVector, Remember, stateVars, StateNow
<1>3. /\ n \in M(n) => M(n) = M(scanned) \cup {n} /\ P(n) = P(scanned) + 1
      /\ n \notin M(n) => M(n) = M(scanned) /\ P(n) = P(scanned)
  BY <1>1, PlaceNext
<1>4. /\ P(scanned) = Len(first)
      /\ \A i \in M(scanned) : P(i) \in 1..Len(first) /\ first[P(i)] = request[i]
  BY <1>1 DEF CallsInv
<1>5. SkipVector(request[n]) <=> n \notin M(n)
  BY SkipIsNoMention
<1> HIDE DEF n, M, P
<1>6. /\ P(n) = Len(first')
      /\ \A i \in M(n) : P(i) \in 1..Len(first') /\ first'[P(i)] = request[i]
  <2>1. CASE n \in M(n)
    <3>1. /\ first' = Append(first, request[n])
          /\ M(n) = M(scanned) \cup {n} /\ P(n) = Len(first) + 1
      BY <1>2, <1>3, <1>4, <1>5, <2>1
    <3>2. /\ Len(first') = Len(first) + 1 /\ first'[Len(first) + 1] = request[n]
          /\ \A j \in 1..Len(first) : first'[j] = first[j]
      BY <1>1, <3>1
    <3>3. \A i \in M(n) : P(i) \in 1..Len(first') /\ first'[P(i)] = request[i]
      BY <1>1, <1>4, <3>1, <3>2
    <3>4. QED
      BY <3>1, <3>2, <3>3
  <2>2. CASE n \notin M(n)
    BY <1>2, <1>3, <1>4, <1>5, <2>2
  <2>3. QED
    BY <2>1, <2>2
<1>7. PICK S : /\ Replays(atCall, request, S)
               /\ \A m \in 0..Len(request) : P(m) = merged => S[m] = StateNow
  BY <1>1 DEF CallsInv, P
<1>8. Replays(atCall, request, S)'
  BY <1>2, <1>7, ReplaySame
<1>9. \A k \in Keys : cache'[k] = IF \E i \in 1..merged' : first'[i] = k
                                     THEN EntryOf(Candidate(k))' ELSE atCall'.cache[k]
  BY <1>1, <1>2 DEF CallsInv
<1>10. QED
  BY <1>1, <1>2, <1>6, <1>7, <1>8, <1>9 DEF CallsInv, M, P

\* A merged result is the serial evaluation of the key's first mention.
LEMMA CallsMerge ==
  ASSUME Inv2, CallsInv, MergeResult, Remember
  PROVE  CallsInv'
<1> DEFINE p == merged + 1
           k == first[p]
           P(n) == Place(atCall, request, n)
<1>1. /\ TypeOK /\ InCall /\ scanned = Len(request) /\ request \in Seq(Keys)
      /\ atCall \in StateType
      /\ merged \in Nat /\ p \in Nat /\ p # 0 /\ p \in 1..cut /\ p \in 1..Len(first)
      /\ k \in Keys /\ cache[k] = NotCached /\ total < MaxEvaluations /\ total \in Nat
      /\ results[p] = Candidate(k)
  <2>1. /\ TypeOK /\ phase = "merging" /\ merged < cut
    BY DEF MergeResult, Inv2, Inv1
  <2>2. /\ merged \in Nat /\ p \in 1..cut /\ p \in 1..Len(first) /\ k \in Keys
        /\ total \in Nat /\ cut \in Nat
    BY <2>1 DEF TypeOK
  <2>3. total < MaxEvaluations
    BY <2>1, <2>2, EvaluatorAssumption DEF Inv2, BudgetInv
  <2>4. results[p] = Candidate(k)
    BY <2>1, <2>2 DEF Inv2, ResultsInv
  <2>5. cache[k] = NotCached
    BY <2>1, <2>2 DEF Inv2, Inv1, CallInv, InCall
  <2>6. scanned = Len(request) /\ request \in Seq(Keys) /\ atCall \in StateType
    BY <2>1 DEF TypeOK, Inv2, Inv1, CallInv, CallsInv
  <2>7. QED
    BY <2>1, <2>2, <2>3, <2>4, <2>5, <2>6 DEF InCall
<1>2. /\ Install(k, EntryOf(Candidate(k)))
      /\ solver' = solver /\ request' = request /\ scanned' = scanned /\ first' = first
      /\ merged' = p /\ atCall' = atCall /\ phase' = phase
  BY <1>1 DEF MergeResult, Remember
<1>3. StateNow' = SerialStep(StateNow, k)
  <2> HIDE DEF k
  <2>1. QED
    BY <1>1, <1>2, InstallIsSerialStep
<1>4. /\ total' = total + 1
      /\ \A j \in Keys : cache'[j] = IF j = k THEN EntryOf(Candidate(k)) ELSE cache[j]
  BY <1>1, <1>2 DEF Install, TypeOK
<1>5. PICK i \in Mentions(atCall, request, scanned) : P(i) = p
  <2>1. p \in 1..P(scanned) /\ scanned \in Nat
    BY <1>1 DEF CallsInv
  <2>2. QED
    BY <2>1, PlaceOnto
<1>6. first[p] = request[i] /\ i \in 1..Len(request) /\ i \in Mentions(atCall, request, i)
  BY <1>1, <1>5 DEF CallsInv, Mentions
<1>7. PICK S : /\ Replays(atCall, request, S)
               /\ \A n \in 0..Len(request) : P(n) = merged => S[n] = StateNow
  BY <1>1 DEF CallsInv
<1>8. i - 1 \in 0..Len(request) /\ i \in 0..Len(request) /\ i \in Nat /\ i # 0 /\ i - 1 \in Nat
  BY <1>6
<1>9. S[i] = StateNow'
  <2>1. P(i) = P(i - 1) + 1
    BY <1>6, <1>8, PlaceNext
  <2>2. P(i - 1) \in Nat
    BY <1>8, MentionsFinite
  <2>3. S[i - 1] = StateNow
    BY <1>1, <1>5, <1>7, <1>8, <2>1, <2>2
  <2>4. QED
    BY <1>1, <1>3, <1>6, <1>7, <2>3, ReplaySteps
<1>10. ASSUME NEW n \in 0..Len(request), P(n) = p
       PROVE  S[n] = StateNow'
  BY <1>1, <1>5, <1>7, <1>8, <1>9, <1>10, SamePlace
<1>11. Replays(atCall, request, S)'
  BY <1>2, <1>7, ReplaySame
<1>12. \A j : Candidate(j)' = Candidate(j)
  BY <1>2 DEF Candidate
<1>13. \A j \in Keys : cache'[j] = IF \E m \in 1..p : first[m] = j
                                     THEN EntryOf(Candidate(j)) ELSE atCall.cache[j]
  <2>1. TAKE j \in Keys
  <2>2. cache[j] = IF \E m \in 1..merged : first[m] = j
                     THEN EntryOf(Candidate(j)) ELSE atCall.cache[j]
    BY <1>1 DEF CallsInv
  <2>3. (\E m \in 1..p : first[m] = j) <=> j = k \/ \E m \in 1..merged : first[m] = j
    BY <1>1
  <2>4. QED
    BY <1>4, <2>2, <2>3
<1>14. total' = atCall.total + p
  BY <1>1, <1>4 DEF CallsInv, StateType
<1> HIDE DEF p, k
<1>15. QED
  BY <1>1, <1>2, <1>7, <1>10, <1>11, <1>12, <1>13, <1>14 DEF CallsInv

-----------------------------------------------------------------------------
(* Every step *)

LEMMA CallsStep ==
  ASSUME Inv2, CallsInv, Next, Remember
  PROVE  CallsInv'
<1>1. TypeOK
  BY DEF Inv2, Inv1
<1>2. atCall' \in StateType
  BY <1>1, StateNowType DEF Remember, CallsInv
<1>3. CASE phase' \in {"idle", "raised"}
  BY <1>2, <1>3 DEF CallsInv, InCall
<1>4. ASSUME NEW vs \in VectorSeqs, StartBatch(vs) PROVE CallsInv'
  BY <1>4, CallsStart
<1>5. CASE ScanVector
  BY <1>5, CallsScan
<1>6. CASE MergeResult
  BY <1>6, CallsMerge
<1>7. CASE CutBudget \/ EvaluateInProcess \/ BatchAnswers
  <2>1. InCall /\ UNCHANGED <<solver, stateVars, request, scanned, first, merged, atCall>>
    BY <1>7 DEF CutBudget, EvaluateInProcess, BatchAnswers, BatchReturns, Remember, InCall
  <2>2. QED
    BY <2>1, CallsSame
<1>8. \/ phase' \in {"idle", "raised"}
      \/ \E vs \in VectorSeqs : StartBatch(vs)
      \/ ScanVector \/ MergeResult \/ CutBudget \/ EvaluateInProcess \/ BatchAnswers
  BY DEF Next, EvaluateVector, EvaluateCached, EvaluateRefused, EvaluateFresh,
         EvaluateRaises, InProcessRaises, BatchRaises, FinishBatch
<1>9. QED
  BY <1>3, <1>4, <1>5, <1>6, <1>7, <1>8

LEMMA CallsInit ==
  ASSUME Init, atCall = StateNow
  PROVE  Inv2 /\ CallsInv
<1>1. Inv2
  BY Inv2Init
<1>2. atCall \in StateType /\ phase = "idle"
  BY <1>1, StateNowType DEF Init, Inv2, Inv1
<1>3. QED
  BY <1>1, <1>2 DEF CallsInv, InCall

\* One step of HistorySpec.
LEMMA CallsHistoryStep ==
  ASSUME Inv2, CallsInv, [Next /\ Remember]_<<vars, atCall>>
  PROVE  Inv2' /\ CallsInv'
<1>1. CASE Next /\ Remember
  BY <1>1, Inv2Step, CallsStep
<1>2. CASE UNCHANGED <<vars, atCall>>
  <2>1. Inv2'
    BY <1>2, Inv2Step
  <2>2. /\ UNCHANGED <<solver, stateVars, request, scanned, first, merged, atCall>>
        /\ phase' = phase /\ atCall' = atCall
    BY <1>2 DEF vars, callVars
  <2>3. CASE InCall
    BY <2>2, <2>1, <2>3, CallsSame
  <2>4. CASE ~InCall
    <3>1. ~InCall'
      BY <2>2, <2>4 DEF InCall
    <3>2. QED
      BY <2>2, <2>1, <3>1 DEF CallsInv
  <2>5. QED
    BY <2>1, <2>3, <2>4
<1>3. QED
  BY <1>1, <1>2

-----------------------------------------------------------------------------
(* The end of a batch call *)

\* When the budget is spent, what is mentioned after it is refused.
LEMMA ReplayRefuses ==
  ASSUME Inv2, CallsInv, phase = "merging", merged = cut,
         NEW S, Replays(atCall, request, S),
         \A n \in 0..Len(request) : Place(atCall, request, n) = merged => S[n] = StateNow,
         NEW m \in 0..Len(request), Place(atCall, request, m) >= cut
  PROVE  S[m] = [StateNow EXCEPT !.cache =
                   [k \in Keys |->
                      IF \E i \in Mentions(atCall, request, m) :
                           Place(atCall, request, i) > cut /\ request[i] = k
                        THEN RefusedEntry ELSE cache[k]]]
<1> DEFINE M(n) == Mentions(atCall, request, n)
           P(n) == Place(atCall, request, n)
           Late(n, k) == \E i \in M(n) : P(i) > cut /\ request[i] = k
           After(n) == [StateNow EXCEPT !.cache =
                          [k \in Keys |-> IF Late(n, k) THEN RefusedEntry ELSE cache[k]]]
           Bad == {n \in 0..Len(request) : P(n) >= cut /\ S[n] # After(n)}
<1>1. /\ TypeOK /\ InCall /\ scanned = Len(request) /\ request \in Seq(Keys)
      /\ atCall \in StateType /\ cut \in Nat /\ total \in Nat
      /\ StateNow \in StateType /\ StateNow.cache = cache /\ StateNow.total = total
  <2>1. TypeOK
    BY DEF Inv2, Inv1
  <2>2. StateNow \in StateType
    BY <2>1, StateNowType
  <2>3. QED
    BY <2>1, <2>2 DEF Inv2, Inv1, CallInv, InCall, TypeOK, CallsInv, StateNow
<1>2. \A n \in 0..Len(request) : P(n) \in Nat
  BY MentionsFinite
<1>3. SUFFICES ASSUME Bad # {} PROVE FALSE
  OBVIOUS
<1>4. PICK n \in Bad : \A i \in Bad : n <= i
  <2>1. Bad \subseteq Nat
    OBVIOUS
  <2> HIDE DEF Bad
  <2>2. QED
    BY <1>3, <2>1, LeastNatural
<1>5. n \in 0..Len(request) /\ P(n) >= cut /\ S[n] # After(n) /\ n \in Nat /\ P(n) \in Nat
  BY <1>2, <1>4
<1>6. \A i \in M(n) : i \in 1..n /\ i \in Nat /\ i <= n /\ P(i) \in Nat /\ P(i) <= P(n)
  <2>1. \A i \in M(n) : i \in 1..n /\ i \in Nat /\ i <= n
    BY <1>5 DEF Mentions
  <2> HIDE DEF M
  <2>2. QED
    BY <1>5, <2>1, MentionsFinite, PlaceGrows
<1> HIDE DEF Bad, M, P
<1>7. CASE P(n) = cut
  <2>1. \A k : ~Late(n, k)
    BY <1>1, <1>5, <1>6, <1>7
  <2>2. [k \in Keys |-> IF Late(n, k) THEN RefusedEntry ELSE cache[k]] = StateNow.cache
    BY <1>1, <2>1 DEF StateType
  <2> HIDE DEF Late
  <2>3. After(n) = StateNow
    BY <1>1, <2>2 DEF StateType
  <2>4. S[n] = StateNow
    BY <1>5, <1>7 DEF P
  <2>5. QED
    BY <1>5, <2>3, <2>4
<1>8. CASE P(n) > cut
  <2>1. n # 0
    BY <1>1, <1>8, PlaceZero DEF P
  <2>2. n \in 1..Len(request) /\ n - 1 \in 0..Len(request) /\ n - 1 \in Nat /\ ~(n <= n - 1)
        /\ request[n] \in Keys
    BY <1>1, <1>5, <2>1
  <2>3. /\ n \in M(n) => M(n) = M(n - 1) \cup {n} /\ P(n) = P(n - 1) + 1
        /\ n \notin M(n) => M(n) = M(n - 1) /\ P(n) = P(n - 1)
    BY <1>5, <2>1, PlaceNext DEF M, P
  <2>4. P(n - 1) >= cut
    BY <1>1, <1>2, <1>5, <1>8, <2>2, <2>3
  <2>5. S[n - 1] = After(n - 1)
    BY <1>4, <2>2, <2>4 DEF Bad
  <2>6. CASE n \notin M(n)
    <3>1. S[n] = S[n - 1]
      BY <1>1, <2>2, <2>6, SerialStutters DEF M
    <3>2. After(n) = After(n - 1)
      BY <2>3, <2>6
    <3>3. QED
      BY <1>5, <2>5, <3>1, <3>2
  <2>7. CASE n \in M(n)
    <3> DEFINE k == request[n]
    <3>1. P(n) \in 1..Len(first) /\ first[P(n)] = k
      <4>1. M(n) \subseteq Mentions(atCall, request, scanned)
        BY <1>1, <1>5, PlaceGrows DEF M
      <4>2. QED
        BY <1>1, <2>7, <4>1 DEF CallsInv, P
    <3>2. k \in Keys /\ cache[k] = NotCached /\ total = MaxEvaluations
      <4>1. P(n) \in (merged + 1)..Len(first) /\ cut < Len(first)
        BY <1>1, <1>5, <1>8, <3>1
      <4>2. cache[k] = NotCached
        BY <1>1, <3>1, <4>1 DEF Inv2, Inv1, CallInv
      <4>3. total = MaxEvaluations
        BY <1>1, <4>1, EvaluatorAssumption DEF Inv2, BudgetInv
      <4>4. QED
        BY <2>2, <4>2, <4>3
    <3>3. ~Late(n - 1, k)
      <4>1. \A j \in 1..(n - 1) : request[j] # k
        BY <2>7 DEF M, Mentions
      <4>2. M(n - 1) \subseteq 1..(n - 1)
        BY DEF M, Mentions
      <4>3. QED
        BY <4>1, <4>2
    <3>4. \A j : Late(n, j) <=> Late(n - 1, j) \/ j = k
      BY <1>8, <2>3, <2>7
    <3>5. S[n] = SerialStep(After(n - 1), k)
      BY <1>1, <2>2, <2>5, ReplaySteps
    <3> HIDE DEF Late, k
    <3>6. /\ After(n - 1) \in StateType /\ After(n - 1).cache[k] = NotCached
          /\ After(n - 1).total >= MaxEvaluations
      <4> DEFINE c == [j \in Keys |-> IF Late(n - 1, j) THEN RefusedEntry ELSE cache[j]]
      <4>1. c \in [Keys -> Entries \cup {NotCached}]
        BY <1>1, RefusedType DEF TypeOK
      <4>2. c[k] = NotCached
        BY <3>2, <3>3
      <4>3. After(n - 1) = [StateNow EXCEPT !.cache = c]
        OBVIOUS
      <4> HIDE DEF c, After
      <4>4. /\ After(n - 1) \in StateType /\ After(n - 1).cache = c
            /\ After(n - 1).total = total
        BY <1>1, <4>1, <4>3 DEF StateType
      <4>5. QED
        BY <3>2, <4>2, <4>4, EvaluatorAssumption
    <3>7. S[n] = [After(n - 1) EXCEPT !.cache[k] = RefusedEntry]
      <4> DEFINE s == After(n - 1)
      <4> HIDE DEF After
      <4>1. QED
        BY <1>1, <3>2, <3>5, <3>6, SerialStepFacts
    <3>8. [After(n - 1) EXCEPT !.cache[k] = RefusedEntry] = After(n)
      <4> DEFINE c(i) == [j \in Keys |-> IF Late(i, j) THEN RefusedEntry ELSE cache[j]]
      <4>1. [c(n - 1) EXCEPT ![k] = RefusedEntry] = c(n)
        BY <3>2, <3>4
      <4> HIDE DEF c
      <4>2. [[StateNow EXCEPT !.cache = c(n - 1)] EXCEPT !.cache[k] = RefusedEntry]
              = [StateNow EXCEPT !.cache = c(n)]
        BY <1>1, <4>1 DEF StateType
      <4>3. QED
        BY <4>2 DEF c
    <3>9. QED
      BY <1>5, <3>7, <3>8
  <2>8. QED
    BY <2>6, <2>7
<1>9. QED
  BY <1>1, <1>5, <1>7, <1>8

-----------------------------------------------------------------------------
(* FoldLeft goes through the states of the replay.  It is defined by a      *)
(* function on the subsets of the positions, which takes the greatest out   *)
(* first.                                                                   *)

LEMMA MaxOfPositions ==
  ASSUME NEW L \in Nat
  PROVE  /\ \A s \in SUBSET (1..L) : s # {} => Max(s) \in s
         /\ L # 0 => Max(1..L) = L
<1>1. ASSUME NEW s \in SUBSET (1..L), s # {}
      PROVE  Max(s) \in s
  <2> DEFINE T == {L - x : x \in s}
  <2>0. \A x \in s : x \in 1..L /\ L - x \in Nat
    OBVIOUS
  <2>1. T \subseteq Nat /\ T # {}
    <3>1. PICK x \in s : TRUE
      BY <1>1
    <3>2. L - x \in T
      OBVIOUS
    <3>3. QED
      BY <2>0, <3>2
  <2>2. PICK t \in T : \A u \in T : t <= u
    <3> HIDE DEF T
    <3>1. QED
      BY <2>1, LeastNatural
  <2>3. PICK x \in s : t = L - x
    BY <2>2
  <2>4. \A y \in s : x >= y
    <3>1. TAKE y \in s
    <3>2. L - y \in T
      OBVIOUS
    <3>3. L - x <= L - y
      BY <2>2, <2>3, <3>2
    <3>4. x \in Int /\ y \in Int
      BY <2>0
    <3>5. QED
      BY <3>3, <3>4
  <2>5. QED
    BY <2>4 DEF Max
<1>2. ASSUME L # 0
      PROVE  Max(1..L) = L
  <2>1. L \in 1..L /\ \A y \in 1..L : L >= y
    BY <1>2
  <2>2. ASSUME NEW x \in 1..L, \A y \in 1..L : x >= y
        PROVE  x = L
    BY <2>1, <2>2
  <2>3. QED
    BY <2>1, <2>2 DEF Max
<1>3. QED
  BY <1>1, <1>2

Folds(a, r, g) ==
  g = [s \in SUBSET (1..Len(r)) |->
         IF s = {} THEN a ELSE SerialStep(g[s \ {Max(s)}], r[Max(s)])]

LEMMA FoldExists ==
  ASSUME NEW a, NEW r \in Seq(Keys)
  PROVE  \E g : Folds(a, r, g)
<1> DEFINE L == Len(r)
           Upto(n) == {s \in SUBSET (1..L) : Cardinality(s) <= n}
           FoldsUpto(g, n) ==
             g = [s \in Upto(n) |->
                    IF s = {} THEN a ELSE SerialStep(g[s \ {Max(s)}], r[Max(s)])]
           Bad == {n \in Nat : ~\E g : FoldsUpto(g, n)}
<1>0. L \in Nat
  OBVIOUS
<1>1. L \in Nat /\ IsFiniteSet(1..L) /\ Cardinality(1..L) = L
  <2>1. IsFiniteSet(1..L) /\ Cardinality(1..L) = L - 1 + 1
    BY <1>0, FS_Interval
  <2>2. QED
    BY <1>0, <2>1
<1>2. \A s \in SUBSET (1..L) :
        IsFiniteSet(s) /\ Cardinality(s) \in Nat /\ Cardinality(s) <= L
  BY <1>1, FS_Subset, FS_CardinalityType
<1>3. Bad = {}
  <2>1. SUFFICES ASSUME Bad # {} PROVE FALSE
    OBVIOUS
  <2>2. PICK n \in Bad : \A m \in Bad : n <= m
    <3>1. Bad \subseteq Nat
      OBVIOUS
    <3> HIDE DEF Bad
    <3>2. QED
      BY <2>1, <3>1, LeastNatural
  <2>3. CASE n = 0
    <3>1. Upto(0) = {{}}
      BY <1>2, FS_EmptySet
    <3>2. FoldsUpto([s \in Upto(0) |-> a], 0)
      BY <3>1
    <3>3. QED
      BY <2>2, <2>3, <3>2
  <2>4. CASE n # 0
    <3>1. n \in Nat /\ n - 1 \in Nat /\ ~(n <= n - 1)
      BY <2>4
    <3>2. n - 1 \notin Bad
      <4> HIDE DEF Bad
      <4>1. QED
        BY <2>2, <3>1
    <3>3. PICK g : FoldsUpto(g, n - 1)
      BY <3>1, <3>2
    <3> DEFINE f == [s \in Upto(n) |->
                       IF s = {} THEN a ELSE SerialStep(g[s \ {Max(s)}], r[Max(s)])]
    <3>4. ASSUME NEW s \in Upto(n - 1) PROVE f[s] = g[s]
      <4>1. s \in Upto(n)
        BY <1>2, <3>1
      <4>2. g[s] = IF s = {} THEN a ELSE SerialStep(g[s \ {Max(s)}], r[Max(s)])
        BY <3>3
      <4>3. QED
        BY <4>1, <4>2
    <3>5. ASSUME NEW s \in Upto(n)
          PROVE  f[s] = IF s = {} THEN a ELSE SerialStep(f[s \ {Max(s)}], r[Max(s)])
      <4>1. CASE s = {}
        BY <4>1
      <4>2. CASE s # {}
        <5> DEFINE x == Max(s)
        <5>1. x \in s
          BY <1>1, <4>2, MaxOfPositions
        <5> HIDE DEF x
        <5>2. Cardinality(s \ {x}) = Cardinality(s) - 1
          BY <1>2, <5>1, FS_RemoveElement
        <5>3. s \ {x} \in Upto(n - 1)
          <6>1. s \in SUBSET (1..L) /\ s \ {x} \in SUBSET (1..L)
            OBVIOUS
          <6>2. Cardinality(s) \in Nat /\ Cardinality(s) <= n
            BY <1>2
          <6>3. Cardinality(s) - 1 <= n - 1
            BY <3>1, <6>2
          <6>4. QED
            BY <5>2, <6>1, <6>3
        <5>4. f[s \ {x}] = g[s \ {x}]
          BY <3>4, <5>3
        <5>5. f[s] = SerialStep(g[s \ {x}], r[x])
          BY <4>2 DEF x
        <5>6. QED
          BY <4>2, <5>4, <5>5 DEF x
      <4>3. QED
        BY <4>1, <4>2
    <3>6. FoldsUpto(f, n)
      <4> HIDE DEF Upto
      <4>1. f = [s \in Upto(n) |-> f[s]]
        OBVIOUS
      <4> HIDE DEF f
      <4>2. QED
        BY <3>5, <4>1
    <3>7. QED
      BY <2>2, <3>6
  <2>5. QED
    BY <2>3, <2>4
<1>4. Upto(L) = SUBSET (1..L)
  BY <1>2
<1>5. PICK g : FoldsUpto(g, L)
  BY <1>1, <1>3
<1> HIDE DEF Upto
<1>6. QED
  BY <1>4, <1>5 DEF Folds

LEMMA FoldIsReplay ==
  ASSUME NEW a, NEW r \in Seq(Keys), NEW S, Replays(a, r, S)
  PROVE  FoldLeft(SerialStep, a, r) = S[Len(r)]
<1> DEFINE L == Len(r)
<1>1. L \in Nat /\ DOMAIN r = 1..L
  OBVIOUS
<1>2. FoldLeft(SerialStep, a, r) = (CHOOSE g : Folds(a, r, g))[1..L]
  BY <1>1 DEF FoldLeft, MapThenFoldSet, Folds
<1>3. PICK g : Folds(a, r, g) /\ FoldLeft(SerialStep, a, r) = g[1..L]
  BY <1>2, FoldExists
<1> DEFINE Bad == {n \in 0..L : g[1..n] # S[n]}
<1>4. SUFFICES ASSUME Bad # {} PROVE FALSE
  BY <1>1, <1>3
<1>5. PICK n \in Bad : \A m \in Bad : n <= m
  <2>1. Bad \subseteq Nat
    BY <1>1
  <2> HIDE DEF Bad
  <2>2. QED
    BY <1>4, <2>1, LeastNatural
<1>6. n \in 0..L /\ n \in Nat /\ 1..n \in SUBSET (1..L) /\ g[1..n] # S[n]
  BY <1>1, <1>5
<1>7. g[1..n] = IF 1..n = {} THEN a ELSE SerialStep(g[(1..n) \ {Max(1..n)}], r[Max(1..n)])
  <2>1. g = [s \in SUBSET (1..L) |->
               IF s = {} THEN a ELSE SerialStep(g[s \ {Max(s)}], r[Max(s)])]
    BY <1>3 DEF Folds
  <2> DEFINE t == 1..n
  <2>2. t \in SUBSET (1..L)
    BY <1>6
  <2> HIDE DEF t
  <2>3. g[t] = IF t = {} THEN a ELSE SerialStep(g[t \ {Max(t)}], r[Max(t)])
    BY <2>1, <2>2
  <2>4. QED
    BY <2>3 DEF t
<1>8. CASE n = 0
  BY <1>6, <1>7, <1>8, ReplaySteps
<1>9. CASE n # 0
  <2>1. /\ n \in 1..L /\ n - 1 \in 0..L /\ ~(n <= n - 1)
        /\ 1..n # {} /\ (1..n) \ {n} = 1..(n - 1)
    BY <1>1, <1>6, <1>9
  <2>2. Max(1..n) = n
    BY <1>6, <1>9, MaxOfPositions
  <2>3. g[1..n] = SerialStep(g[1..(n - 1)], r[n])
    BY <1>7, <2>1, <2>2
  <2>4. n - 1 \notin Bad
    <3> HIDE DEF Bad
    <3>1. QED
      BY <1>5, <2>1
  <2>5. g[1..(n - 1)] = S[n - 1]
    BY <2>1, <2>4
  <2>6. S[n] = SerialStep(S[n - 1], r[n])
    BY <2>1, ReplaySteps
  <2>7. QED
    BY <1>6, <2>3, <2>5, <2>6
<1>10. QED
  BY <1>8, <1>9

\* The call that began at atCall has evaluated the first c of the first
\* mentions of keys, which are as many as the budget reaches, and has refused
\* the others.
AmountsTo(keys, c) ==
  LET M == Mentions(atCall, keys, Len(keys))
      P(i) == Place(atCall, keys, i)
      last == Place(atCall, keys, Len(keys))
  IN  /\ c <= last /\ atCall.total + c <= MaxEvaluations
      /\ c < last => atCall.total + c = MaxEvaluations
      /\ total = atCall.total + c
      /\ \A k \in Keys : cache[k] =
           IF \E i \in M : P(i) <= c /\ keys[i] = k THEN EntryOf(Candidate(k))
           ELSE IF \E i \in M : keys[i] = k THEN RefusedEntry
           ELSE atCall.cache[k]

\* Such a call is one Ask.
LEMMA AskOfPlaces ==
  TypeOK /\ atCall \in StateType =>
    \A keys \in Seq(Keys), c \in Nat : AmountsTo(keys, c) => IsAskOf(keys)
<1> SUFFICES ASSUME TypeOK, atCall \in StateType, NEW keys \in Seq(Keys), NEW c \in Nat,
                    AmountsTo(keys, c)
             PROVE  IsAskOf(keys)
  OBVIOUS
<1>h. /\ c <= Place(atCall, keys, Len(keys)) /\ atCall.total + c <= MaxEvaluations
      /\ c < Place(atCall, keys, Len(keys)) => atCall.total + c = MaxEvaluations
      /\ total = atCall.total + c
      /\ \A k \in Keys : cache[k] =
           IF \E i \in Mentions(atCall, keys, Len(keys)) :
                Place(atCall, keys, i) <= c /\ keys[i] = k THEN EntryOf(Candidate(k))
           ELSE IF \E i \in Mentions(atCall, keys, Len(keys)) : keys[i] = k THEN RefusedEntry
           ELSE atCall.cache[k]
  BY DEF AmountsTo
<1> DEFINE L == Len(keys)
           M == Mentions(atCall, keys, L)
           P(i) == Place(atCall, keys, i)
           A == {i \in M : P(i) <= c}
           Memo0 == Known(atCall.cache)
           Cached == {k \in Keys : atCall.cache[k] # NotCached}
<1>0. \A S : Objective!Cardinality(S) = Cardinality(S)
  BY DEF Objective!Cardinality, Cardinality
<1>1. /\ L \in Nat /\ DOMAIN keys = 1..L /\ \A i \in 1..L : keys[i] \in Keys
      /\ DOMAIN Memo0 = Cached /\ \A k \in Cached : Memo0[k] = atCall.cache[k]
  BY DEF Known, Restrict
<1>2. \A i \in M : i \in 1..L /\ i \in Nat /\ keys[i] \in Keys
                   /\ atCall.cache[keys[i]] = NotCached /\ P(i) \in Nat /\ P(i) <= P(L)
  <2>1. \A i \in M : i \in 1..L /\ i \in Nat /\ i <= L
    BY <1>1 DEF Mentions
  <2>2. \A i \in M : atCall.cache[keys[i]] = NotCached
    BY DEF Mentions
  <2> HIDE DEF M
  <2>3. QED
    BY <1>1, <2>1, <2>2, MentionsFinite, PlaceGrows
<1>3. Objective!FirstMentions(keys) = M
  BY <1>1 DEF Objective!FirstMentions, Mentions
<1>4. Objective!Affordable(keys) = A
  <2>1. ASSUME NEW i \in M
        PROVE  Cardinality({j \in M : j <= i}) = P(i)
    <3>1. {j \in M : j <= i} = Mentions(atCall, keys, i)
      BY <1>1, <1>2 DEF Mentions
    <3>2. QED
      BY <3>1 DEF Place
  <2>2. Objective!Remaining = MaxEvaluations - atCall.total
    BY DEF Objective!Remaining
  <2>3. \A i \in M : P(i) <= MaxEvaluations - atCall.total <=> P(i) <= c
    <3>1. atCall.total \in Nat /\ MaxEvaluations \in Nat /\ P(L) \in Nat
      BY <1>1, MentionsFinite, EvaluatorAssumption DEF StateType
    <3> HIDE DEF M, P
    <3>2. QED
      BY <1>h, <1>2, <3>1 DEF P
  <2> HIDE DEF M, P
  <2>4. Objective!Affordable(keys) =
          {i \in M : Cardinality({j \in M : j <= i}) <= Objective!Remaining}
    BY <1>0, <1>3 DEF Objective!Affordable
  <2>5. QED
    BY <2>1, <2>2, <2>3, <2>4
<1>5. /\ Objective!NewPoints(keys) = {keys[i] : i \in A}
      /\ Objective!RefusedPoints(keys) = {keys[i] : i \in M \ A}
  BY <1>3, <1>4 DEF Objective!NewPoints, Objective!RefusedPoints
<1>6. \A i, j \in M : keys[i] = keys[j] => i = j
  <2>1. TAKE i, j \in M
  <2>2. ~(i < j /\ keys[i] = keys[j]) /\ ~(j < i /\ keys[i] = keys[j])
    BY <1>2 DEF Mentions
  <2>3. QED
    BY <1>2, <2>2
<1>7. IsFiniteSet(A) /\ Cardinality(A) = c
  <2>1. PICK n \in 0..L : P(n) = c
    <3>1. CASE c = 0
      BY <1>1, <3>1, PlaceZero
    <3>2. CASE c # 0
      <4>1. c \in 1..P(L)
        BY <1>h, <1>1, <3>2, MentionsFinite
      <4>2. PICK n \in M : P(n) = c
        BY <1>1, <4>1, PlaceOnto
      <4>3. QED
        BY <1>2, <4>2
    <3>3. QED
      BY <3>1, <3>2
  <2>2. n \in Nat /\ n <= L
    BY <1>1
  <2>3. ASSUME NEW i \in M
        PROVE  P(i) <= c <=> i <= n
    <3>1. i \in Nat /\ P(i) \in Nat /\ i \in Mentions(atCall, keys, i)
      BY <1>2 DEF Mentions
    <3>2. i <= n => P(i) <= P(n)
      BY <2>2, <3>1, PlaceGrows
    <3>3. n < i => P(n) < P(i)
      BY <2>2, <3>1, PlaceGrows
    <3> HIDE DEF P
    <3>4. QED
      BY <2>1, <2>2, <3>1, <3>2, <3>3
  <2>4. Mentions(atCall, keys, n) = {i \in M : i <= n}
    BY <1>1, <2>2 DEF Mentions
  <2> HIDE DEF M, P
  <2>5. A = Mentions(atCall, keys, n)
    BY <2>3, <2>4
  <2>6. QED
    <3>1. IsFiniteSet(Mentions(atCall, keys, n))
      BY <2>2, MentionsFinite
    <3>2. Cardinality(Mentions(atCall, keys, n)) = c
      BY <2>1 DEF P, Place
    <3> HIDE DEF A
    <3>3. QED
      BY <2>5, <3>1, <3>2
<1>8. Cardinality(Objective!NewPoints(keys)) = c
  <2> DEFINE N == {keys[i] : i \in A}
             f == [i \in A |-> keys[i]]
  <2>1. f \in Bijection(A, N)
    <3>1. A \subseteq M
      OBVIOUS
    <3> HIDE DEF M, P, A
    <3>2. f \in [A -> N] /\ \A y \in N : \E i \in A : f[i] = y
      OBVIOUS
    <3>3. \A i, j \in A : f[i] = f[j] => i = j
      BY <1>6, <3>1
    <3> HIDE DEF f, N
    <3>4. QED
      BY <3>2, <3>3 DEF Bijection, Injection, Surjection, IsInjective
  <2>2. ExistsBijection(A, N)
    BY <2>1 DEF ExistsBijection
  <2> HIDE DEF A, N
  <2>3. Cardinality(N) = c
    BY <1>7, <2>2, FS_Bijection
  <2>4. QED
    BY <1>5, <2>3 DEF N
<1>9. total = Objective!SpentAfter(keys)
  <2>1. Objective!SpentAfter(keys) = atCall.total + Cardinality(Objective!NewPoints(keys))
    BY <1>0 DEF Objective!SpentAfter
  <2>2. QED
    BY <1>h, <1>8, <2>1
<1>10. \A k \in Keys :
         /\ k \in Objective!NewPoints(keys) <=> \E i \in M : P(i) <= c /\ keys[i] = k
         /\ k \in Objective!RefusedPoints(keys) <=> \E i \in M : ~(P(i) <= c) /\ keys[i] = k
  <2> HIDE DEF M, P
  <2>1. QED
    BY <1>5
<1> DEFINE D == Cached \cup Objective!NewPoints(keys) \cup Objective!RefusedPoints(keys)
<1>11. \A k \in Keys : cache[k] =
          IF k \in Objective!NewPoints(keys) THEN EntryOf(Candidate(k))
          ELSE IF k \in Objective!RefusedPoints(keys) THEN RefusedEntry
          ELSE atCall.cache[k]
  BY <1>h, <1>10
<1>12. /\ Objective!NewPoints(keys) \subseteq Keys \ Cached
       /\ Objective!RefusedPoints(keys) \subseteq Keys \ Cached
  <2> HIDE DEF M, P
  <2>1. QED
    BY <1>2, <1>5
<1>13. \A k \in Keys : EntryOf(Candidate(k)) # NotCached /\ RefusedEntry # NotCached
  BY CandidateType, EntryType, RefusedType, NoneAssumption
<1>14. {k \in Keys : cache[k] # NotCached} = D
  <2> HIDE DEF M, P
  <2>1. QED
    BY <1>11, <1>12, <1>13
<1>15. Objective!MemoAfter(keys, [k \in Keys |-> EntryOf(Candidate(k))], RefusedEntry) =
         [k \in D |-> IF k \in Cached THEN atCall.cache[k]
                      ELSE IF k \in Objective!NewPoints(keys) THEN EntryOf(Candidate(k))
                      ELSE RefusedEntry]
  <2> HIDE DEF M, P
  <2>1. QED
    BY <1>1, <1>12 DEF Objective!MemoAfter
<1>16. Known(cache) = [k \in D |-> cache[k]]
  <2> HIDE DEF M, P, D
  <2>1. QED
    BY <1>14 DEF Known, Restrict
<1>17. \A k \in D : cache[k] = IF k \in Cached THEN atCall.cache[k]
                               ELSE IF k \in Objective!NewPoints(keys) THEN EntryOf(Candidate(k))
                               ELSE RefusedEntry
  <2> HIDE DEF M, P
  <2>1. QED
    BY <1>11, <1>12
<1>18. QED
  <2> HIDE DEF M, P, D, Cached
  <2>1. Known(cache) =
          Objective!MemoAfter(keys, [k \in Keys |-> EntryOf(Candidate(k))], RefusedEntry)
    BY <1>15, <1>16, <1>17
  <2>2. QED
    BY <1>9, <2>1 DEF IsAskOf

-----------------------------------------------------------------------------
(* What a call has done when it returns *)

\* The keys refused at the end are the first mentions past the cut.
LEMMA OverflowMentions ==
  ASSUME Inv2, CallsInv, FinishBatch, NEW k
  PROVE  k \in Overflow <=>
           \E i \in Mentions(atCall, request, Len(request)) :
             Place(atCall, request, i) > cut /\ request[i] = k
<1>1. /\ InCall /\ scanned = Len(request) /\ scanned \in Nat
      /\ cut \in Nat /\ Len(first) \in Nat
  BY DEF FinishBatch, InCall, Inv2, Inv1, TypeOK, CallInv
<1>2. /\ Place(atCall, request, scanned) = Len(first)
      /\ \A i \in Mentions(atCall, request, scanned) :
           /\ Place(atCall, request, i) \in 1..Len(first)
           /\ first[Place(atCall, request, i)] = request[i]
  BY <1>1 DEF CallsInv
<1>3. ASSUME NEW i \in Mentions(atCall, request, scanned),
             Place(atCall, request, i) > cut, request[i] = k
      PROVE  k \in Overflow
  BY <1>1, <1>2, <1>3 DEF Overflow
<1>4. ASSUME k \in Overflow
      PROVE  \E i \in Mentions(atCall, request, scanned) :
               Place(atCall, request, i) > cut /\ request[i] = k
  <2>1. PICK j \in (cut + 1)..Len(first) : first[j] = k
    BY <1>4 DEF Overflow
  <2>2. j \in 1..Len(first) /\ j > cut
    BY <1>1
  <2>3. PICK i \in Mentions(atCall, request, scanned) : Place(atCall, request, i) = j
    BY <1>1, <1>2, <2>2, PlaceOnto
  <2>4. QED
    BY <1>2, <2>1, <2>2, <2>3
<1>5. QED
  BY <1>1, <1>3, <1>4

LEMMA BatchEnds ==
  ASSUME Inv2, CallsInv, FinishBatch
  PROVE  /\ StateNow' = FoldLeft(SerialStep, atCall, request)
         /\ returned' = [i \in DOMAIN request |->
                           FoldLeft(SerialStep, atCall, request).cache[request[i]]]
<1> DEFINE late(k) == \E i \in Mentions(atCall, request, Len(request)) :
                        Place(atCall, request, i) > cut /\ request[i] = k
<1>1. /\ TypeOK /\ InCall /\ phase = "merging" /\ merged = cut /\ scanned = Len(request)
      /\ request \in Seq(Keys) /\ cut \in Nat /\ cut <= Len(first)
  BY DEF FinishBatch, InCall, Inv2, Inv1, TypeOK, CallInv
<1>2. PICK S : /\ Replays(atCall, request, S)
               /\ \A n \in 0..Len(request) :
                    Place(atCall, request, n) = merged => S[n] = StateNow
  BY <1>1 DEF CallsInv
<1>3. S[Len(request)] = [StateNow EXCEPT !.cache =
                           [k \in Keys |-> IF late(k) THEN RefusedEntry ELSE cache[k]]]
  <2>1. Len(request) \in 0..Len(request) /\ Place(atCall, request, Len(request)) >= cut
    BY <1>1 DEF CallsInv
  <2>2. QED
    BY <1>1, <1>2, <2>1, ReplayRefuses
<1>4. \A k : k \in Overflow <=> late(k)
  BY OverflowMentions
<1> HIDE DEF late
<1>5. /\ cache' = [k \in Keys |-> IF k \in Overflow THEN RefusedEntry ELSE cache[k]]
      /\ total' = total /\ valid' = valid /\ infeasible' = infeasible /\ best' = best
      /\ returned' = [i \in DOMAIN request |-> cache'[request[i]]]
  BY DEF FinishBatch
<1>6. cache' = [k \in Keys |-> IF late(k) THEN RefusedEntry ELSE cache[k]]
  BY <1>4, <1>5
<1>7. StateNow' = [StateNow EXCEPT !.cache = cache']
  BY <1>5 DEF StateNow
<1>8. StateNow' = S[Len(request)] /\ StateNow'.cache = cache'
  BY <1>3, <1>6, <1>7 DEF StateNow
<1>9. FoldLeft(SerialStep, atCall, request) = S[Len(request)]
  BY <1>1, <1>2, FoldIsReplay
<1>10. QED
  BY <1>5, <1>8, <1>9

LEMMA VectorEnds ==
  ASSUME TypeOK, NEW v \in Vectors, EvaluateVector(v), phase' = "idle"
  PROVE  /\ StateNow' = SerialStep(StateNow, Normalize[v])
         /\ returned' = <<SerialStep(StateNow, Normalize[v]).cache[Normalize[v]]>>
<1> DEFINE k == Normalize[v]
<1>1. k \in Keys /\ StateNow \in StateType /\ StateNow.cache = cache /\ StateNow.total = total
  BY EvaluatorAssumption, StateNowType DEF StateNow
<1> HIDE DEF k
<1>2. CASE EvaluateCached(k)
  <2>1. StateNow' = StateNow /\ cache[k] # NotCached /\ returned' = <<cache[k]>>
    BY <1>2 DEF EvaluateCached, stateVars, StateNow
  <2>2. SerialStep(StateNow, k) = StateNow
    BY <1>1, <2>1, SerialStepFacts
  <2>3. QED
    BY <1>1, <2>1, <2>2 DEF k
<1>3. CASE EvaluateRefused(k)
  <2>1. /\ cache[k] = NotCached /\ total >= MaxEvaluations
        /\ cache' = [cache EXCEPT ![k] = RefusedEntry] /\ returned' = <<RefusedEntry>>
        /\ total' = total /\ valid' = valid /\ infeasible' = infeasible /\ best' = best
    BY <1>3 DEF EvaluateRefused, BudgetSpent
  <2>2. SerialStep(StateNow, k) = [StateNow EXCEPT !.cache[k] = RefusedEntry]
    BY <1>1, <2>1, SerialStepFacts
  <2>3. StateNow' = [StateNow EXCEPT !.cache[k] = RefusedEntry]
    BY <2>1 DEF StateNow
  <2>4. StateNow'.cache[k] = RefusedEntry
    BY <1>1, <2>1 DEF StateNow, TypeOK
  <2>5. QED
    BY <2>1, <2>2, <2>3, <2>4 DEF k
<1>4. CASE EvaluateFresh(k)
  <2>1. /\ cache[k] = NotCached /\ total < MaxEvaluations
        /\ Install(k, EntryOf(Candidate(k))) /\ returned' = <<EntryOf(Candidate(k))>>
    BY <1>4, EvaluatorAssumption DEF EvaluateFresh, BudgetSpent, TypeOK
  <2>2. StateNow' = SerialStep(StateNow, k)
    BY <1>1, <2>1, InstallIsSerialStep
  <2>3. StateNow'.cache[k] = EntryOf(Candidate(k))
    BY <1>1, <2>1 DEF Install, StateNow, TypeOK
  <2>4. QED
    BY <2>1, <2>2, <2>3 DEF k
<1>5. ~EvaluateRaises(k)
  BY DEF EvaluateRaises
<1>6. QED
  BY <1>2, <1>3, <1>4, <1>5 DEF EvaluateVector, k

(* Evaluation in batches, with duplicates, cached keys, a budget that runs  *)
(* out and a batch evaluator or none, leaves the cache, the counters and    *)
(* the incumbent of a serial evaluation and returns its answers             *)
(* (evaluate_vectors_batch against evaluate_vector).                        *)
THEOREM BatchEqualsSerial == HistorySpec => BatchMatchesSerial
<1>1. Init /\ atCall = StateNow => Inv2 /\ CallsInv
  BY CallsInit
<1>2. Inv2 /\ CallsInv /\ [Next /\ Remember]_<<vars, atCall>> => Inv2' /\ CallsInv'
  BY CallsHistoryStep
<1> DEFINE Same ==
      /\ phase = "merging" /\ phase' = "idle" =>
           LET serial == FoldLeft(SerialStep, atCall, request)
           IN  /\ StateNow' = serial
               /\ returned' = [i \in DOMAIN request |-> serial.cache[request[i]]]
      /\ \A v \in Vectors :
           EvaluateVector(v) /\ phase' = "idle" =>
             LET serial == SerialStep(StateNow, Normalize[v])
             IN  StateNow' = serial /\ returned' = <<serial.cache[Normalize[v]]>>
<1>3. Inv2 /\ CallsInv /\ [Next /\ Remember]_<<vars, atCall>> => [Same]_<<vars, atCall>>
  <2> SUFFICES ASSUME Inv2, CallsInv, Next
               PROVE  Same
    OBVIOUS
  <2>1. ASSUME phase = "merging", phase' = "idle"
        PROVE  FinishBatch
    BY <2>1 DEF Next, EvaluateVector, StartBatch, ScanVector, CutBudget, EvaluateInProcess,
                InProcessRaises, BatchAnswers, BatchReturns, BatchRaises, MergeResult
  <2>2. TypeOK
    BY DEF Inv2, Inv1
  <2>3. QED
    BY <2>1, <2>2, BatchEnds, VectorEnds
<1>4. QED
  BY <1>1, <1>2, <1>3, PTL DEF HistorySpec, HistoryInit, BatchMatchesSerial

-----------------------------------------------------------------------------
(* A call is one Ask *)

LEMMA AskOfPlacesNext ==
  (TypeOK /\ atCall \in StateType =>
     \A keys \in Seq(Keys), c \in Nat : AmountsTo(keys, c) => IsAskOf(keys))'
BY AskOfPlaces, PTL

LEMMA BatchIsAsk ==
  ASSUME Inv2, CallsInv, Inv2', CallsInv', FinishBatch, Remember, NEW keys, keys = request
  PROVE  IsAskOf(keys)'
<1> DEFINE L == Len(keys)
           M == Mentions(atCall, keys, L)
           P(i) == Place(atCall, keys, i)
<1>1. /\ InCall /\ phase = "merging" /\ merged = cut /\ scanned = L /\ cut \in Nat
      /\ keys \in Seq(Keys) /\ L \in Nat /\ cut <= Len(first) /\ Len(first) \in Nat
      /\ TypeOK' /\ atCall' \in StateType /\ total \in Nat /\ atCall.total \in Nat
  <2>1. TypeOK /\ TypeOK' /\ atCall \in StateType /\ atCall' \in StateType
    BY DEF Inv2, Inv1, CallsInv
  <2>2. phase = "merging" /\ merged = cut
    BY DEF FinishBatch
  <2>3. InCall /\ scanned = L
    BY <2>2 DEF InCall, Inv2, Inv1, CallInv
  <2>4. /\ cut \in Nat /\ keys \in Seq(Keys) /\ L \in Nat /\ cut <= Len(first)
        /\ Len(first) \in Nat /\ total \in Nat
    BY <2>1 DEF TypeOK
  <2>5. atCall.total \in Nat
    BY <2>1 DEF StateType
  <2>6. QED
    BY <2>1, <2>2, <2>3, <2>4, <2>5
<1>2. /\ atCall' = atCall /\ total' = total /\ solver' = solver
      /\ cache' = [k \in Keys |-> IF k \in Overflow THEN RefusedEntry ELSE cache[k]]
  BY <1>1 DEF FinishBatch, Remember
<1>3. /\ total = atCall.total + cut /\ P(L) = Len(first)
      /\ \A i \in M : P(i) \in 1..Len(first) /\ first[P(i)] = request[i]
      /\ \A k \in Keys : cache[k] = IF \E i \in 1..cut : first[i] = k
                                      THEN EntryOf(Candidate(k)) ELSE atCall.cache[k]
  BY <1>1 DEF CallsInv
<1>4. atCall.total + cut <= MaxEvaluations /\ (cut < P(L) => atCall.total + cut = MaxEvaluations)
  <2>1. total <= MaxEvaluations /\ (cut < Len(first) => total = MaxEvaluations)
    BY <1>1, EvaluatorAssumption DEF Inv2, BudgetInv
  <2> HIDE DEF P
  <2>2. QED
    BY <1>3, <2>1
<1>5. ASSUME NEW k \in Keys
      PROVE  (\E i \in 1..cut : first[i] = k) <=> \E i \in M : P(i) <= cut /\ keys[i] = k
  <2>1. ASSUME NEW i \in M, P(i) <= cut, keys[i] = k
        PROVE  \E j \in 1..cut : first[j] = k
    <3>1. P(i) \in 1..cut /\ first[P(i)] = k
      <4> HIDE DEF M, P
      <4>1. QED
        BY <1>1, <1>3, <2>1
    <3>2. QED
      BY <3>1
  <2>2. ASSUME NEW j \in 1..cut, first[j] = k
        PROVE  \E i \in M : P(i) <= cut /\ keys[i] = k
    <3>1. j \in 1..P(L) /\ j <= cut
      <4> HIDE DEF P
      <4>1. QED
        BY <1>1, <1>3
    <3>2. PICK i \in M : P(i) = j
      BY <1>1, <3>1, PlaceOnto
    <3>3. QED
      BY <1>3, <2>2, <3>1, <3>2
  <2>3. QED
    BY <2>1, <2>2
<1>6. \A k \in Keys : k \in Overflow <=> \E i \in M : P(i) > cut /\ keys[i] = k
  BY OverflowMentions
<1>7. \A i, j \in M : keys[i] = keys[j] => P(i) = P(j)
  <2>1. \A i, j \in 1..Len(first) : first[i] = first[j] => i = j
    BY <1>1 DEF Inv2, Inv1, CallInv
  <2> HIDE DEF M, P
  <2>2. QED
    BY <1>3, <2>1
<1>8. \A i \in M : P(i) \in Nat
  <2> HIDE DEF M, P
  <2>1. QED
    BY <1>3
<1>9. \A k \in Keys : cache'[k] =
        IF \E i \in M : P(i) <= cut /\ keys[i] = k THEN EntryOf(Candidate(k))
        ELSE IF \E i \in M : keys[i] = k THEN RefusedEntry
        ELSE atCall.cache[k]
  <2> HIDE DEF M, P
  <2>1. TAKE k \in Keys
  <2>2. CASE \E i \in M : P(i) <= cut /\ keys[i] = k
    <3>1. k \notin Overflow
      BY <1>1, <1>6, <1>7, <1>8, <2>2
    <3>2. QED
      BY <1>2, <1>3, <1>5, <2>2, <3>1
  <2>3. CASE ~\E i \in M : P(i) <= cut /\ keys[i] = k
    <3>1. k \in Overflow <=> \E i \in M : keys[i] = k
      BY <1>1, <1>6, <1>8, <2>3
    <3>2. cache[k] = atCall.cache[k]
      BY <1>3, <1>5, <2>3
    <3>3. QED
      BY <1>2, <2>3, <3>1, <3>2
  <2>4. QED
    BY <2>2, <2>3
<1>10. \A k : Candidate(k)' = Candidate(k)
  BY <1>2 DEF Candidate
<1>11. PICK c \in Nat : c = cut
  BY <1>1
<1>12. AmountsTo(keys, c)'
  <2>1. \A k \in Keys : cache'[k] =
          IF \E i \in M : P(i) <= c /\ keys[i] = k THEN EntryOf(Candidate(k))'
          ELSE IF \E i \in M : keys[i] = k THEN RefusedEntry
          ELSE atCall.cache[k]
    BY <1>9, <1>10, <1>11
  <2>2. /\ c <= P(L) /\ atCall.total + c <= MaxEvaluations
        /\ c < P(L) => atCall.total + c = MaxEvaluations
        /\ total' = atCall.total + c
    BY <1>1, <1>2, <1>3, <1>4, <1>11
  <2>3. QED
    BY <1>2, <2>1, <2>2 DEF AmountsTo
<1>13. QED
  BY <1>1, <1>12, AskOfPlacesNext

\* The key of a single vector is a request of one.
LEMMA VectorIsAsk ==
  ASSUME Inv2, Inv2', CallsInv', NEW v \in Vectors, EvaluateVector(v), phase' = "idle", Remember
  PROVE  IsAskOf(<<Normalize[v]>>)'
<1> DEFINE k == Normalize[v]
           keys == <<k>>
           a == StateNow
           M == Mentions(a, keys, 1)
<1>1. /\ TypeOK /\ TypeOK' /\ atCall' \in StateType /\ atCall' = a /\ solver' = solver
      /\ k \in Keys /\ total \in Nat /\ total <= MaxEvaluations
      /\ a.cache = cache /\ a.total = total
  <2>1. TypeOK /\ TypeOK' /\ atCall' \in StateType /\ total <= MaxEvaluations
    BY DEF Inv2, Inv1, BudgetInv, CallsInv
  <2>2. phase = "idle" /\ solver' = solver
    BY DEF EvaluateVector, EvaluateCached, EvaluateRefused, EvaluateFresh, EvaluateRaises
  <2>3. k \in Keys
    BY EvaluatorAssumption
  <2>4. total \in Nat
    BY <2>1 DEF TypeOK
  <2>5. QED
    BY <2>1, <2>2, <2>3, <2>4 DEF Remember, StateNow
<1> HIDE DEF k, a
<1>2. keys \in Seq(Keys) /\ Len(keys) = 1 /\ keys[1] = k
  BY <1>1
<1>3. M = IF cache[k] = NotCached THEN {1} ELSE {}
  BY <1>1, <1>2 DEF Mentions
<1>4. /\ cache[k] = NotCached => Place(a, keys, 1) = 1
      /\ cache[k] # NotCached => Place(a, keys, 1) = 0
  <2>1. IsFiniteSet({}) /\ Cardinality({}) = 0 /\ Cardinality({1}) = 1
    BY FS_EmptySet, FS_Singleton
  <2>2. QED
    BY <1>3, <2>1 DEF Place
<1>5. \A j : Candidate(j)' = Candidate(j)
  BY <1>1 DEF Candidate
<1> HIDE DEF keys, M
<1>6. ASSUME NEW c \in Nat, c <= Place(a, keys, 1), total + c <= MaxEvaluations,
             c < Place(a, keys, 1) => total + c = MaxEvaluations,
             total' = total + c,
             \A j \in Keys : cache'[j] =
               IF \E i \in M : Place(a, keys, i) <= c /\ keys[i] = j THEN EntryOf(Candidate(j))
               ELSE IF \E i \in M : keys[i] = j THEN RefusedEntry ELSE cache[j]
      PROVE  IsAskOf(<<Normalize[v]>>)'
  <2>1. \A j \in Keys : cache'[j] =
          IF \E i \in M : Place(a, keys, i) <= c /\ keys[i] = j THEN EntryOf(Candidate(j))'
          ELSE IF \E i \in M : keys[i] = j THEN RefusedEntry ELSE a.cache[j]
    BY <1>1, <1>5, <1>6
  <2>2. AmountsTo(keys, c)'
    BY <1>1, <1>2, <1>6, <2>1 DEF AmountsTo, M
  <2>3. IsAskOf(keys)'
    BY <1>1, <1>2, <2>2, AskOfPlacesNext
  <2>4. QED
    BY <2>3 DEF keys, k
<1>7. CASE EvaluateCached(k)
  <2>1. cache[k] # NotCached /\ cache' = cache /\ total' = total
    BY <1>7 DEF EvaluateCached, stateVars
  <2>2. QED
    BY <1>1, <1>3, <1>4, <1>6, <2>1
<1>8. CASE EvaluateRefused(k)
  <2>1. /\ cache[k] = NotCached /\ total = MaxEvaluations /\ total' = total
        /\ \A j \in Keys : cache'[j] = IF j = k THEN RefusedEntry ELSE cache[j]
    BY <1>1, <1>8, EvaluatorAssumption DEF EvaluateRefused, BudgetSpent, TypeOK
  <2>2. QED
    BY <1>1, <1>2, <1>3, <1>4, <1>6, <2>1
<1>9. CASE EvaluateFresh(k)
  <2>1. /\ cache[k] = NotCached /\ total < MaxEvaluations /\ total' = total + 1
        /\ \A j \in Keys : cache'[j] = IF j = k THEN EntryOf(Candidate(k)) ELSE cache[j]
    BY <1>1, <1>9, EvaluatorAssumption DEF EvaluateFresh, Install, BudgetSpent, TypeOK
  <2>2. total + 1 <= MaxEvaluations
    BY <1>1, <2>1, EvaluatorAssumption
  <2>3. QED
    BY <1>1, <1>2, <1>3, <1>4, <1>6, <2>1, <2>2
<1>10. ~EvaluateRaises(k)
  BY DEF EvaluateRaises
<1>11. QED
  BY <1>7, <1>8, <1>9, <1>10 DEF EvaluateVector, k

(* A call of the evaluator, however many steps its loops take, is one Ask   *)
(* of SearchObjective, the objective on which the search models are built:  *)
(* it evaluates the points Ask evaluates, refuses those it refuses, and     *)
(* spends what it spends.                                                   *)
THEOREM CallsAreAsks == HistorySpec => CallIsOneAsk
<1>1. Init /\ atCall = StateNow => Inv2 /\ CallsInv
  BY CallsInit
<1>2. Inv2 /\ CallsInv /\ [Next /\ Remember]_<<vars, atCall>> => Inv2' /\ CallsInv'
  BY CallsHistoryStep
<1> DEFINE OneAsk ==
      /\ phase = "merging" /\ phase' = "idle" => \A keys \in {request} : IsAskOf(keys)'
      /\ \A v \in Vectors :
           EvaluateVector(v) /\ phase' = "idle" => IsAskOf(<<Normalize[v]>>)'
<1>3. Inv2 /\ CallsInv /\ [Next /\ Remember]_<<vars, atCall>> => [OneAsk]_<<vars, atCall>>
  <2> SUFFICES ASSUME Inv2, CallsInv, Next, Remember
               PROVE  OneAsk
    OBVIOUS
  <2>1. Inv2' /\ CallsInv'
    BY <1>2
  <2>2. ASSUME phase = "merging", phase' = "idle"
        PROVE  FinishBatch
    BY <2>2 DEF Next, EvaluateVector, StartBatch, ScanVector, CutBudget, EvaluateInProcess,
                InProcessRaises, BatchAnswers, BatchReturns, BatchRaises, MergeResult
  <2>3. ASSUME phase = "merging", phase' = "idle", NEW keys \in {request}
        PROVE  IsAskOf(keys)'
    BY <2>1, <2>2, <2>3, BatchIsAsk
  <2>4. ASSUME NEW v \in Vectors, EvaluateVector(v), phase' = "idle"
        PROVE  IsAskOf(<<Normalize[v]>>)'
    BY <2>1, <2>4, VectorIsAsk
  <2>5. QED
    BY <2>3, <2>4
<1>4. QED
  BY <1>1, <1>2, <1>3, PTL DEF HistorySpec, HistoryInit, CallIsOneAsk
=============================================================================
