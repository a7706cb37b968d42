---------------------------- MODULE SearchProofs ----------------------------
(***************************************************************************)
(* Proofs about the four searches, DirectSearch, CuckooSearch, CmaesSearch *)
(* and AutoRefine.                                                         *)
(*                                                                         *)
(* They share the objective with its memo and budget (SearchObjective),    *)
(* the surfaces and the passes of PostRefinement, and DIRECT and the       *)
(* prescan of CMA-ES their grid (DirectPartition): the lemmas on these are *)
(* stated once.  Where the searches differ, in their configurations, their *)
(* passes and the score of a vector without a surface, each has a constant *)
(* or a definition with a name of its own.                                 *)
(***************************************************************************)
EXTENDS DirectSearch, CuckooSearch, CmaesSearch, AutoRefine,
        FiniteSetTheorems, WellFoundedInduction, TLAPS

-----------------------------------------------------------------------------
(* Finite sets: images, least elements and ranks                           *)

\* What a set is mapped to has no more elements than it, and is finite if it is.
LEMMA ImageFinite ==
  ASSUME NEW S, IsFiniteSet(S), NEW f, DOMAIN f = S
  PROVE  /\ IsFiniteSet({f[x] : x \in S})
         /\ Cardinality({f[x] : x \in S}) <= Cardinality(S)
<1> DEFINE T == {f[x] : x \in S}
           g == [x \in S |-> f[x]]
<1>1. g \in Surjection(S, T)
  BY DEF Surjection
<1>2. QED
  BY <1>1, FS_Surjection

\* A set of natural numbers has a least element.
LEMMA LeastNatural ==
  ASSUME NEW T, T \subseteq Nat, T # {}
  PROVE  \E x \in T : \A y \in T : x <= y
<1> DEFINE R == {ss \in Nat \X Nat : ss[1] < ss[2]}
<1>1. OpToRel(<, Nat) = R
  BY DEF OpToRel
<1>2. IsWellFoundedOn(R, Nat)
  BY <1>1, NatLessThanWellFounded, Zenon
<1> HIDE DEF R
<1>3. PICK x \in T : \A y \in T : ~(<<y, x>> \in R)
  BY <1>2, WFMin, Zenon
<1>4. ASSUME NEW y \in T
      PROVE  x <= y
  <2>1. x \in Nat /\ y \in Nat
    OBVIOUS
  <2>2. <<y, x>> \in R <=> y < x
    BY <2>1 DEF R
  <2>3. QED
    BY <1>3, <2>1, <2>2
<1>5. QED
  BY <1>4

\* Min is that element.
LEMMA MinFacts ==
  ASSUME NEW T, T \subseteq Nat, T # {}
  PROVE  /\ Min(T) \in T /\ \A n \in T : Min(T) <= n
         /\ \A m \in T : (\A n \in T : m <= n) => m = Min(T)
<1>1. PICK x \in T : \A y \in T : x <= y
  BY LeastNatural
<1>2. Min(T) \in T /\ \A n \in T : Min(T) <= n
  BY <1>1 DEF Min
<1>3. ASSUME NEW m \in T, \A n \in T : m <= n
      PROVE  m = Min(T)
  <2>1. m <= Min(T) /\ Min(T) <= m /\ m \in Nat /\ Min(T) \in Nat
    BY <1>2, <1>3
  <2>2. QED
    BY <2>1
<1>4. QED
  BY <1>2, <1>3

\* Among finitely many elements one has the least value: else there would be a
\* smallest set of them without.
LEMMA LeastValue ==
  ASSUME NEW S, IsFiniteSet(S), S # {}, NEW f, \A x \in S : f[x] \in Int
  PROVE  \E x \in S : \A y \in S : f[x] <= f[y]
<1> DEFINE HasLeast(T) == \E x \in T : \A y \in T : f[x] <= f[y]
           Bad == {n \in Nat : \E T \in SUBSET S : T # {} /\ Cardinality(T) = n /\ ~HasLeast(T)}
<1>1. SUFFICES ASSUME Bad # {}
               PROVE  FALSE
  <2>1. Cardinality(S) \in Nat
    BY FS_CardinalityType
  <2>2. QED
    BY <1>1, <2>1
<1>2. PICK n \in Bad : \A m \in Bad : n <= m
  BY <1>1, LeastNatural
<1>3. PICK T \in SUBSET S : T # {} /\ Cardinality(T) = n /\ ~HasLeast(T)
  BY <1>2
<1>4. PICK x \in T : TRUE
  BY <1>3
<1>5. IsFiniteSet(T)
  BY FS_Subset
<1>6. IsFiniteSet(T \ {x}) /\ Cardinality(T \ {x}) = n - 1
  BY <1>3, <1>5, FS_RemoveElement
<1>7. CASE T \ {x} = {}
  <2>1. T = {x} /\ f[x] \in Int
    BY <1>7
  <2>2. HasLeast(T)
    BY <2>1
  <2>3. QED
    BY <1>3, <2>2
<1>8. CASE T \ {x} # {}
  <2>1. n \in Nat /\ n - 1 \in Nat
    BY <1>6, FS_CardinalityType
  <2>2. n - 1 \notin Bad
    BY <1>2, <2>1
  <2>3. HasLeast(T \ {x})
    BY <1>6, <1>8, <2>1, <2>2
  <2>4. PICK z \in T \ {x} : \A y \in T \ {x} : f[z] <= f[y]
    BY <2>3
  <2>5. f[x] \in Int /\ f[z] \in Int /\ \A y \in T : f[y] \in Int
    OBVIOUS
  <2>6. CASE f[x] <= f[z]
    <3>1. \A y \in T : f[x] <= f[y]
      BY <2>4, <2>5, <2>6
    <3>2. QED
      BY <1>3, <3>1
  <2>7. CASE ~(f[x] <= f[z])
    <3>1. \A y \in T : f[z] <= f[y]
      BY <2>4, <2>5, <2>7
    <3>2. QED
      BY <1>3, <3>1
  <2>8. QED
    BY <2>6, <2>7
<1>9. QED
  BY <1>7, <1>8

\* Two values, of which the second decides where the first ties.
LEMMA LeastPair ==
  ASSUME NEW S, IsFiniteSet(S), S # {},
         NEW f, \A x \in S : f[x] \in Int, NEW g, \A x \in S : g[x] \in Int
  PROVE  \E x \in S : \A y \in S : f[x] < f[y] \/ (f[x] = f[y] /\ g[x] <= g[y])
<1>1. PICK a \in S : \A y \in S : f[a] <= f[y]
  BY LeastValue
<1> DEFINE T == {y \in S : f[y] = f[a]}
<1>2. IsFiniteSet(T) /\ T # {}
  BY FS_Subset
<1>3. \A x \in T : g[x] \in Int
  OBVIOUS
<1> HIDE DEF T
<1>4. PICK b \in T : \A y \in T : g[b] <= g[y]
  BY <1>2, <1>3, LeastValue
<1>5. ASSUME NEW y \in S
      PROVE  f[b] < f[y] \/ (f[b] = f[y] /\ g[b] <= g[y])
  <2>1. f[a] \in Int /\ f[y] \in Int /\ f[b] = f[a] /\ b \in S
    BY DEF T
  <2>2. CASE f[y] = f[a]
    BY <1>4, <2>1, <2>2 DEF T
  <2>3. CASE f[y] # f[a]
    BY <1>1, <2>1, <2>3
  <2>4. QED
    BY <2>2, <2>3
<1>6. QED
  BY <1>5 DEF T

\* The rank of an element, by a strict order of a finite set.
Rank(S, order, x) == Cardinality({y \in S : <<y, x>> \in order})

StrictOrder(S, order) ==
  /\ \A x \in S : <<x, x>> \notin order
  /\ \A x, y, z \in S : <<x, y>> \in order /\ <<y, z>> \in order => <<x, z>> \in order
  /\ \A x, y \in S : x # y => <<x, y>> \in order \/ <<y, x>> \in order

\* Ranks are below the size of the set and rise with the order.
LEMMA RankRises ==
  ASSUME NEW S, IsFiniteSet(S), NEW order, StrictOrder(S, order)
  PROVE  /\ \A x \in S : Rank(S, order, x) \in 0..(Cardinality(S) - 1)
         /\ \A x, y \in S : <<x, y>> \in order => Rank(S, order, x) < Rank(S, order, y)
<1> DEFINE below(x) == {y \in S : <<y, x>> \in order}
<1>1. ASSUME NEW x \in S
      PROVE  IsFiniteSet(below(x)) /\ Cardinality(below(x)) \in Nat
  BY FS_Subset, FS_CardinalityType
<1>2. Cardinality(S) \in Nat
  BY FS_CardinalityType
<1>3. ASSUME NEW x \in S
      PROVE  Cardinality(below(x)) < Cardinality(S)
  <2>1. below(x) \in SUBSET S /\ below(x) # S
    BY DEF StrictOrder
  <2>2. Cardinality(below(x)) \in Nat
    BY <1>1
  <2> HIDE DEF below
  <2>3. QED
    BY <1>2, <2>1, <2>2, FS_Subset
<1>4. ASSUME NEW x \in S, NEW y \in S, <<x, y>> \in order
      PROVE  Cardinality(below(x)) < Cardinality(below(y))
  <2>1. below(x) \in SUBSET below(y)
    BY <1>4 DEF StrictOrder
  <2>2. x \in below(y) /\ x \notin below(x)
    BY <1>4 DEF StrictOrder
  <2>3. /\ Cardinality(below(x)) \in Nat /\ Cardinality(below(y)) \in Nat
        /\ IsFiniteSet(below(y)) /\ below(x) # below(y)
    BY <1>1, <2>2
  <2> HIDE DEF below
  <2>4. QED
    BY <2>1, <2>3, FS_Subset
<1>5. QED
  BY <1>1, <1>2, <1>3, <1>4 DEF Rank

\* Ranks tell the elements apart, and every number below the size is one.
LEMMA RankBijective ==
  ASSUME NEW S, IsFiniteSet(S), NEW order, StrictOrder(S, order)
  PROVE  /\ \A x, y \in S : Rank(S, order, x) = Rank(S, order, y) => x = y
         /\ \A n \in 0..(Cardinality(S) - 1) : \E x \in S : Rank(S, order, x) = n
<1> DEFINE N == 0..(Cardinality(S) - 1)
           f == [x \in S |-> Rank(S, order, x)]
<1>1. \A x \in S : Rank(S, order, x) \in N
  BY RankRises
<1>2. \A x, y \in S : <<x, y>> \in order => Rank(S, order, x) < Rank(S, order, y)
  BY RankRises
<1>3. ASSUME NEW x \in S, NEW y \in S, Rank(S, order, x) = Rank(S, order, y), x # y
      PROVE  FALSE
  <2>1. Rank(S, order, x) \in Int /\ Rank(S, order, y) \in Int
    BY <1>1
  <2>2. Rank(S, order, x) < Rank(S, order, y) \/ Rank(S, order, y) < Rank(S, order, x)
    BY <1>2, <1>3 DEF StrictOrder
  <2>3. QED
    BY <1>3, <2>1, <2>2
<1>4. f \in Injection(S, N)
  <2>1. f \in [S -> N]
    BY <1>1
  <2>2. QED
    BY <1>3, <2>1 DEF Injection, IsInjective
<1>5. Cardinality(S) \in Nat
  BY FS_CardinalityType
<1>6. IsFiniteSet(N) /\ Cardinality(N) = Cardinality(S)
  BY <1>5, FS_Interval
<1>7. f \in Surjection(S, N)
  BY <1>4, <1>6, FS_Injection
<1>8. QED
  BY <1>3, <1>7 DEF Surjection

-----------------------------------------------------------------------------
(* The objective                                                           *)

\* What a strategy asks for: finitely many points at numbered positions.
Request(request) == IsFiniteSet(DOMAIN request) /\ DOMAIN request \subseteq Nat

BudgetSound ==
  /\ spent \in Nat /\ config.maxEvaluations \in Nat
  /\ spent <= config.maxEvaluations

\* evaluate_vectors_batch(): the points evaluated are those of the affordable positions.
LEMMA NewPointsCounted ==
  ASSUME NEW request, Request(request)
  PROVE  /\ IsFiniteSet(Affordable(request)) /\ IsFiniteSet(NewPoints(request))
         /\ Cardinality(NewPoints(request)) = Cardinality(Affordable(request))
         /\ Cardinality(NewPoints(request)) \in Nat
<1> DEFINE A == Affordable(request)
           f == [i \in A |-> request[i]]
<1>1. A \in SUBSET DOMAIN request /\ A \subseteq FirstMentions(request)
  BY DEF Affordable, FirstMentions
<1>2. IsFiniteSet(A)
  BY <1>1, FS_Subset DEF Request
<1>3. f \in Surjection(A, NewPoints(request))
  BY DEF NewPoints, Surjection
<1>4. ASSUME NEW i \in A, NEW j \in A, request[i] = request[j]
      PROVE  i = j
  <2>1. i \in Nat /\ j \in Nat
    BY <1>1 DEF Request
  <2>2. ~(i < j) /\ ~(j < i)
    BY <1>1, <1>4 DEF FirstMentions
  <2>3. QED
    BY <2>1, <2>2
<1>5. f \in Injection(A, NewPoints(request))
  BY <1>3, <1>4 DEF Injection, Surjection, IsInjective
<1>6. QED
  BY <1>2, <1>3, <1>5, FS_Surjection, FS_CardinalityType

\* The first `Remaining' of the new points are evaluated, all of them if there are no
\* more, so that a point is refused only by a call that uses up the budget.
LEMMA AffordableBounded ==
  ASSUME NEW request, Request(request), BudgetSound
  PROVE  /\ Cardinality(Affordable(request)) <= Remaining
         /\ FirstMentions(request) \ Affordable(request) # {} =>
              Cardinality(Affordable(request)) = Remaining
<1> DEFINE new == FirstMentions(request)
           A == Affordable(request)
           upTo(i) == {j \in new : j <= i}
<1>1. new \in SUBSET DOMAIN request /\ new \subseteq Nat /\ A \subseteq new
  BY DEF Affordable, FirstMentions, Request
<1>2. IsFiniteSet(new) /\ IsFiniteSet(A) /\ Cardinality(A) \in Nat
  BY <1>1, FS_Subset, FS_CardinalityType DEF Request
<1>3. ASSUME NEW i \in new
      PROVE  IsFiniteSet(upTo(i)) /\ Cardinality(upTo(i)) \in Nat
  BY <1>2, FS_Subset, FS_CardinalityType
<1>4. A = {i \in new : Cardinality(upTo(i)) <= Remaining}
  BY DEF Affordable
<1>5. Remaining \in Nat
  BY DEF BudgetSound, Remaining
<1> HIDE DEF new, A
<1>6. Cardinality(A) <= Remaining
  <2>1. CASE A = {}
    BY <1>5, <2>1, FS_EmptySet
  <2>2. CASE A # {}
    <3> DEFINE f == [x \in A |-> 0 - x]
    <3>1. \A x \in A : x \in Nat /\ f[x] \in Int
      BY <1>1
    <3>2. PICK m \in A : \A y \in A : f[m] <= f[y]
      BY <1>2, <2>2, <3>1, LeastValue
    <3>3. A \in SUBSET upTo(m) /\ m \in new
      BY <1>1, <3>1, <3>2
    <3>4. Cardinality(A) <= Cardinality(upTo(m)) /\ Cardinality(upTo(m)) \in Nat
      BY <1>3, <3>3, FS_Subset
    <3>5. QED
      BY <1>2, <1>4, <1>5, <3>2, <3>4
  <2>3. QED
    BY <2>1, <2>2
<1>7. ASSUME new \ A # {}
      PROVE  Cardinality(A) >= Remaining
  <2>1. PICK i \in new \ A : \A j \in new \ A : i <= j
    BY <1>1, <1>7, LeastNatural
  <2>2. upTo(i) \ {i} \in SUBSET A
    BY <1>1, <2>1
  <2>3. /\ IsFiniteSet(upTo(i)) /\ Cardinality(upTo(i)) \in Nat
        /\ i \in upTo(i) /\ ~(Cardinality(upTo(i)) <= Remaining)
    BY <1>1, <1>3, <1>4, <2>1
  <2> HIDE DEF upTo
  <2>4. Cardinality(upTo(i) \ {i}) = Cardinality(upTo(i)) - 1
    BY <2>3, FS_RemoveElement
  <2>5. Cardinality(upTo(i) \ {i}) <= Cardinality(A)
    BY <1>2, <2>2, FS_Subset
  <2>6. QED
    BY <1>2, <1>5, <2>3, <2>4, <2>5
<1>8. QED
  BY <1>2, <1>5, <1>6, <1>7 DEF new, A

\* What a call does to the cache and the budget, and with which answer it refuses.
Answered(request, refused) ==
  /\ \E scores :
       /\ \A p \in NewPoints(request) : scores[p] \in ScoresAt(p)
       /\ memo' = [p \in DOMAIN memo \cup NewPoints(request) \cup RefusedPoints(request) |->
                     IF p \in DOMAIN memo THEN memo[p]
                     ELSE IF p \in NewPoints(request) THEN scores[p] ELSE refused]
  /\ spent' = SpentAfter(request) /\ config' = config

\* A whole call: it stays within the budget and answers every point asked for; what
\* was known stays known, and only the end of the budget refuses.
LEMMA AnsweredFacts ==
  ASSUME NEW request, Request(request), BudgetSound, IsFiniteSet(DOMAIN memo),
         NEW refused, Answered(request, refused)
  PROVE  /\ config' = config
         /\ spent' \in Nat /\ spent <= spent' /\ spent' <= config.maxEvaluations
         /\ IsFiniteSet(DOMAIN memo')
         /\ DOMAIN memo' = DOMAIN memo \cup {request[i] : i \in DOMAIN request}
         /\ \A p \in DOMAIN memo : memo'[p] = memo[p]
         /\ \A p \in DOMAIN memo' \ DOMAIN memo :
              \/ memo'[p] \in ScoresAt(p)
              \/ memo'[p] = refused /\ spent' = config.maxEvaluations
<1> DEFINE asked == {request[i] : i \in DOMAIN request}
<1>1. PICK scores :
        /\ \A p \in NewPoints(request) : scores[p] \in ScoresAt(p)
        /\ memo' = [p \in DOMAIN memo \cup NewPoints(request) \cup RefusedPoints(request) |->
                      IF p \in DOMAIN memo THEN memo[p]
                      ELSE IF p \in NewPoints(request) THEN scores[p] ELSE refused]
  BY DEF Answered
<1>2. spent' = SpentAfter(request) /\ config' = config
  BY DEF Answered
<1>3. ASSUME NEW p \in asked, p \notin DOMAIN memo
      PROVE  p \in NewPoints(request) \cup RefusedPoints(request)
  <2> DEFINE positions == {i \in DOMAIN request : request[i] = p}
  <2>1. positions \subseteq Nat /\ positions # {}
    BY DEF Request
  <2>2. PICK i \in positions : \A j \in positions : i <= j
    BY <2>1, LeastNatural
  <2>3. \A j \in DOMAIN request : j < i => request[j] # request[i]
    BY <2>1, <2>2 DEF Request
  <2>4. i \in FirstMentions(request)
    BY <1>3, <2>2, <2>3 DEF FirstMentions
  <2>5. QED
    BY <2>2, <2>4 DEF NewPoints, RefusedPoints
<1>4. NewPoints(request) \cup RefusedPoints(request) \subseteq asked
  BY DEF NewPoints, RefusedPoints, Affordable, FirstMentions
<1>5. DOMAIN memo' = DOMAIN memo \cup asked
  BY <1>1, <1>3, <1>4
<1>6. IsFiniteSet(DOMAIN memo')
  <2>1. IsFiniteSet(asked)
    BY ImageFinite DEF Request
  <2> HIDE DEF asked
  <2>2. QED
    BY <1>5, <2>1, FS_Union
<1>7. \A p \in DOMAIN memo : memo'[p] = memo[p]
  BY <1>1
<1>8. /\ spent' = spent + Cardinality(Affordable(request))
      /\ Cardinality(Affordable(request)) \in Nat
  BY <1>2, NewPointsCounted DEF SpentAfter
<1>9. Cardinality(Affordable(request)) <= Remaining
  BY AffordableBounded
<1>10. spent' \in Nat /\ spent <= spent' /\ spent' <= config.maxEvaluations
  BY <1>8, <1>9 DEF Remaining, BudgetSound
<1>11. ASSUME NEW p \in DOMAIN memo', p \notin DOMAIN memo, memo'[p] \notin ScoresAt(p)
       PROVE  memo'[p] = refused /\ spent' = config.maxEvaluations
  <2>1. p \notin NewPoints(request)
    BY <1>1, <1>11
  <2>2. memo'[p] = refused
    BY <1>1, <1>11, <2>1
  <2>3. FirstMentions(request) \ Affordable(request) # {}
    BY <1>3, <1>5, <1>11, <2>1 DEF RefusedPoints
  <2>4. Cardinality(Affordable(request)) = Remaining
    BY <2>3, AffordableBounded
  <2>5. QED
    BY <1>8, <2>2, <2>4 DEF Remaining, BudgetSound
<1>12. QED
  BY <1>2, <1>5, <1>6, <1>7, <1>10, <1>11

\* A call of a search is such a call.
LEMMA EvaluateAnswers ==
  ASSUME NEW request, NEW refused, Evaluate(request, refused)
  PROVE  Answered(request, refused)
BY DEF Evaluate, Ask, MemoAfter, Answered

\* What such a call leaves.
LEMMA EvaluateFacts ==
  ASSUME NEW request, Request(request), BudgetSound, IsFiniteSet(DOMAIN memo),
         NEW refused, Evaluate(request, refused)
  PROVE  /\ config' = config
         /\ spent' \in Nat /\ spent <= spent' /\ spent' <= config.maxEvaluations
         /\ IsFiniteSet(DOMAIN memo')
         /\ DOMAIN memo' = DOMAIN memo \cup {request[i] : i \in DOMAIN request}
         /\ \A p \in DOMAIN memo : memo'[p] = memo[p]
         /\ \A p \in DOMAIN memo' \ DOMAIN memo :
              \/ memo'[p] \in ScoresAt(p)
              \/ memo'[p] = refused /\ spent' = config.maxEvaluations
<1>1. Answered(request, refused)
  BY EvaluateAnswers
<1>2. QED
  BY <1>1, AnsweredFacts

\* The first point of a call is evaluated as long as there is budget left.
LEMMA FirstPaid ==
  ASSUME NEW request, Request(request), BudgetSound, spent < config.maxEvaluations,
         NEW refused, Answered(request, refused),
         NEW i \in DOMAIN request, \A j \in DOMAIN request : i <= j, request[i] \notin DOMAIN memo
  PROVE  memo'[request[i]] \in ScoresAt(request[i])
<1> DEFINE upTo == {j \in FirstMentions(request) : j <= i}
<1>1. i \in Nat /\ DOMAIN request \subseteq Nat
  BY DEF Request
<1>2. i \in FirstMentions(request)
  BY <1>1 DEF FirstMentions
<1>3. upTo = {i}
  <2>1. \A j \in FirstMentions(request) : j \in Nat /\ i <= j
    BY <1>1 DEF FirstMentions
  <2>2. QED
    BY <1>1, <1>2, <2>1
<1>4. Cardinality(upTo) = 1
  BY <1>3, FS_Singleton
<1>5. Cardinality(upTo) <= Remaining
  BY <1>4 DEF BudgetSound, Remaining
<1>6. request[i] \in NewPoints(request)
  BY <1>2, <1>5 DEF Affordable, NewPoints
<1>7. QED
  BY <1>6 DEF Answered

-----------------------------------------------------------------------------
(* The refinement passes                                                   *)

Answers == [surface : Int, fos : Int]

\* min by factor of safety and surface key
LEMMA BestSurfaceFacts ==
  ASSUME NEW found, IsFiniteSet(found), found # {}, found \subseteq Answers
  PROVE  /\ BestSurface(found) \in found
         /\ \A other \in found : other = BestSurface(found) \/ BetterSurface(BestSurface(found), other)
<1> DEFINE f == [a \in found |-> a.fos]
           g == [a \in found |-> a.surface]
<1>1. \A a \in found : f[a] = a.fos /\ g[a] = a.surface /\ f[a] \in Int /\ g[a] \in Int
  BY DEF Answers
<1> HIDE DEF f, g
<1>2. PICK best \in found : \A a \in found : f[best] < f[a] \/ (f[best] = f[a] /\ g[best] <= g[a])
  BY <1>1, LeastPair
<1>3. ASSUME NEW other \in found \ {best}
      PROVE  BetterSurface(best, other)
  <2>1. best \in Answers /\ other \in Answers /\ best # other
    OBVIOUS
  <2>2. best.surface # other.surface \/ best.fos # other.fos
    BY <2>1 DEF Answers
  <2>3. best.fos < other.fos \/ (best.fos = other.fos /\ best.surface <= other.surface)
    BY <1>1, <1>2
  <2>4. QED
    BY <2>1, <2>2, <2>3 DEF BetterSurface, Answers
<1>4. QED
  BY <1>3 DEF BestSurface

\* (fos, surface_key) is transitive.
LEMMA BetterTransitive ==
  ASSUME NEW a \in Answers, NEW b \in Answers, NEW c \in Answers,
         a = b \/ BetterSurface(a, b), b = c \/ BetterSurface(b, c)
  PROVE  a = c \/ BetterSurface(a, c)
BY DEF Answers, BetterSurface

\* The surfaces solved, and those of a batch.
SolvedSound == \A s \in DOMAIN solved : s \in Int /\ solved[s] \in 0..Invalid

BatchSound(batch, n) ==
  /\ n \in Nat /\ DOMAIN batch = 1..n
  /\ \A i \in 1..n : batch[i] # NoSurface => batch[i] \in Int /\ FosOf(batch[i]) \subseteq 0..Invalid

AnswerAt(batch, i) == [surface |-> batch[i], fos |-> solved[batch[i]]]

\* A batch is solved: what was known stays, and what is new is of the batch.
LEMMA BatchSolved ==
  ASSUME SolvedSound, NEW batch, NEW n, BatchSound(batch, n), Solve(batch)
  PROVE  /\ SolvedSound'
         /\ \A s \in DOMAIN solved : s \in DOMAIN solved' /\ solved'[s] = solved[s]
         /\ \A s \in DOMAIN solved' \ DOMAIN solved :
              \E i \in 1..n : batch[i] = s /\ s # NoSurface
         /\ \A i \in 1..n : batch[i] # NoSurface => batch[i] \in DOMAIN solved'
<1>1. /\ DOMAIN solved' = DOMAIN solved \cup Unsolved(batch)
      /\ \A s \in DOMAIN solved : solved'[s] = solved[s]
      /\ \A s \in Unsolved(batch) : solved'[s] \in FosOf(s)
  <2>1. PICK found \in [Unsolved(batch) -> UNION {FosOf(s) : s \in Unsolved(batch)}] :
          /\ \A s \in Unsolved(batch) : found[s] \in FosOf(s)
          /\ solved' = [s \in DOMAIN solved \cup Unsolved(batch) |->
                          IF s \in DOMAIN solved THEN solved[s] ELSE found[s]]
    BY DEF Solve
  <2>2. \A s \in Unsolved(batch) : s \notin DOMAIN solved
    BY DEF Unsolved
  <2>3. QED
    BY <2>1, <2>2
<1>2. \A s \in Unsolved(batch) : \E i \in 1..n : batch[i] = s /\ s # NoSurface
  BY DEF Unsolved, BatchSound
<1>3. \A i \in 1..n : batch[i] # NoSurface => batch[i] \in DOMAIN solved'
  BY <1>1 DEF Unsolved, BatchSound
<1>4. SolvedSound'
  BY <1>1, <1>2 DEF SolvedSound, BatchSound
<1>5. QED
  BY <1>1, <1>2, <1>3, <1>4

\* The best surface so far is then the best of it and of the batch's valid ones.
LEMMA BatchBest ==
  ASSUME SolvedSound, NEW batch, NEW n, BatchSound(batch, n), Solve(batch),
         NEW incumbent \in Answers
  PROVE  LET best == BestAfter(incumbent, solved', batch)
         IN  /\ best \in Answers
             /\ incumbent = best \/ BetterSurface(best, incumbent)
             /\ \A i \in ValidAt(solved', batch) :
                  AnswerAt(batch, i)' = best \/ BetterSurface(best, AnswerAt(batch, i)')
             /\ best = incumbent \/ \E i \in ValidAt(solved', batch) : best = AnswerAt(batch, i)'
<1> DEFINE valid == ValidAt(solved', batch)
           answer(i) == [surface |-> batch[i], fos |-> solved'[batch[i]]]
           found == {answer(i) : i \in valid}
           all == found \cup {incumbent}
           best == BestAfter(incumbent, solved', batch)
<1>1. SolvedSound' /\ \A i \in 1..n : batch[i] # NoSurface => batch[i] \in DOMAIN solved'
  BY BatchSolved
<1>2. valid \subseteq 1..n /\ \A i \in valid : batch[i] # NoSurface
  BY DEF ValidAt, BatchSound
<1>3. \A i \in valid : answer(i) \in Answers
  <2>1. \A i \in valid : batch[i] \in Int /\ solved'[batch[i]] \in 0..Invalid
    BY <1>1, <1>2 DEF SolvedSound
  <2>2. QED
    BY <2>1, PostRefinementAssumption DEF Answers
<1>4. IsFiniteSet(found)
  <2>1. IsFiniteSet(valid)
    <3>1. IsFiniteSet(1..n)
      BY FS_Interval DEF BatchSound
    <3>2. valid \in SUBSET (1..n)
      BY <1>2
    <3>3. QED
      BY <3>1, <3>2, FS_Subset
  <2> DEFINE f == [i \in valid |-> answer(i)]
  <2> HIDE DEF valid, answer
  <2>2. found = {f[i] : i \in valid} /\ DOMAIN f = valid
    OBVIOUS
  <2> HIDE DEF f, found
  <2>3. QED
    BY <2>1, <2>2, ImageFinite
<1>5. IsFiniteSet(all) /\ all # {} /\ all \subseteq Answers
  BY <1>3, <1>4, FS_AddElement
<1>6. best = BestSurface(all)
  BY DEF BestAfter
<1> HIDE DEF best, all
<1>7. best \in all /\ \A other \in all : other = best \/ BetterSurface(best, other)
  BY <1>5, <1>6, BestSurfaceFacts
<1>8. best \in Answers
  BY <1>5, <1>7
<1>9. incumbent = best \/ BetterSurface(best, incumbent)
  BY <1>7 DEF all
<1>10. \A i \in valid : AnswerAt(batch, i)' = answer(i)
  BY DEF AnswerAt
<1>11. \A i \in valid : AnswerAt(batch, i)' = best \/ BetterSurface(best, AnswerAt(batch, i)')
  BY <1>7, <1>10 DEF all
<1>12. best = incumbent \/ \E i \in valid : best = AnswerAt(batch, i)'
  BY <1>7, <1>10 DEF all
<1>13. QED
  BY <1>8, <1>9, <1>11, <1>12 DEF best

\* A batch of a pass is one of these.
LEMMA SweepBatchSound ==
  ASSUME NEW batch \in [1..BatchLength -> Candidates]
  PROVE  BatchSound(batch, BatchLength)
BY PostRefinementAssumption DEF BatchSound, Candidates

PassNames == {"toe_crest", "toe_locked_beta", "local_polish", "coarse_grid", "local_grid"}

\* The passes of a search without the local polish, the only one that may turn down a
\* surface it has found.
PassesSound ==
  /\ SolvedSound
  /\ winner \in Answers /\ running \in Answers
  /\ passesLeft \in Seq(PassNames \ {"local_polish"})
  /\ batches \in Nat

\* What the solver found of a surface is no better than an answer.
SolvedBeaten(best) ==
  \A s \in DOMAIN solved :
    LET found == [surface |-> s, fos |-> solved[s]]
    IN  solved[s] = Invalid \/ found = best \/ BetterSurface(best, found)

\* A batch: its surfaces are solved, and the best surface so far only gets better.
LEMMA SweepKeeps ==
  ASSUME PassesSound, SolvedBeaten(StartOfPass), SweepBatch
  PROVE  /\ PassesSound' /\ SolvedBeaten(StartOfPass)'
         /\ StartOfPass' = StartOfPass \/ BetterSurface(StartOfPass', StartOfPass)
<1>1. PICK batch \in [1..BatchLength -> Candidates] :
        Solve(batch) /\ running' = BestAfter(StartOfPass, solved', batch)
  BY DEF SweepBatch
<1>2. winner' = winner /\ passesLeft' = passesLeft /\ batches' = batches + 1 /\ batches \in Nat
  BY DEF SweepBatch, PassesSound
<1>3. StartOfPass' = running'
  BY <1>2 DEF StartOfPass
<1>4. StartOfPass \in Answers /\ SolvedSound
  BY DEF StartOfPass, PassesSound
<1>5. BatchSound(batch, BatchLength)
  BY SweepBatchSound
<1>6. /\ SolvedSound'
      /\ \A s \in DOMAIN solved : s \in DOMAIN solved' /\ solved'[s] = solved[s]
      /\ \A s \in DOMAIN solved' \ DOMAIN solved :
           \E i \in 1..BatchLength : batch[i] = s /\ s # NoSurface
  BY <1>1, <1>4, <1>5, BatchSolved
<1>7. /\ running' \in Answers
      /\ StartOfPass = running' \/ BetterSurface(running', StartOfPass)
      /\ \A i \in ValidAt(solved', batch) :
           AnswerAt(batch, i)' = running' \/ BetterSurface(running', AnswerAt(batch, i)')
  BY <1>1, <1>4, <1>5, BatchBest
<1> DEFINE answer(s) == [surface |-> s, fos |-> solved'[s]]
<1>8. ASSUME NEW s \in DOMAIN solved', solved'[s] # Invalid
      PROVE  answer(s) = running' \/ BetterSurface(running', answer(s))
  <2>1. CASE s \in DOMAIN solved
    <3>1. answer(s) = StartOfPass \/ BetterSurface(StartOfPass, answer(s))
      BY <1>6, <1>8, <2>1 DEF SolvedBeaten
    <3>2. answer(s) \in Answers
      BY <1>6, PostRefinementAssumption DEF SolvedSound, Answers
    <3>3. QED
      BY <1>4, <1>7, <3>1, <3>2, BetterTransitive
  <2>2. CASE s \notin DOMAIN solved
    <3>1. PICK i \in 1..BatchLength : batch[i] = s /\ s # NoSurface
      BY <1>6, <2>2
    <3>2. i \in ValidAt(solved', batch)
      BY <1>1, <1>8, <3>1 DEF ValidAt
    <3>3. AnswerAt(batch, i)' = answer(s)
      BY <3>1 DEF AnswerAt
    <3>4. QED
      BY <1>7, <3>2, <3>3
  <2>3. QED
    BY <2>1, <2>2
<1>9. PassesSound'
  BY <1>2, <1>6, <1>7 DEF PassesSound
<1>10. SolvedBeaten(StartOfPass)'
  BY <1>3, <1>8 DEF SolvedBeaten
<1>11. QED
  BY <1>3, <1>7, <1>9, <1>10

\* The end of a pass hands its best surface on.
LEMMA EndPassKeeps ==
  ASSUME PassesSound, SolvedBeaten(StartOfPass), EndPass
  PROVE  PassesSound' /\ SolvedBeaten(StartOfPass)' /\ StartOfPass' = StartOfPass
<1>1. Head(passesLeft) \in PassNames \ {"local_polish"}
      /\ Tail(passesLeft) \in Seq(PassNames \ {"local_polish"})
  BY DEF EndPass, PassesSound
<1>2. winner' = StartOfPass /\ batches' = 0 /\ running' = NoWinner /\ solved' = solved
  BY <1>1 DEF EndPass, PassResult
<1>3. StartOfPass' = StartOfPass
  BY <1>2 DEF StartOfPass
<1>4. NoWinner \in Answers
  BY PostRefinementAssumption DEF NoWinner, Answers
<1>5. PassesSound'
  BY <1>1, <1>2, <1>4 DEF PassesSound, SolvedSound, EndPass, StartOfPass
<1>6. QED
  BY <1>2, <1>3, <1>5 DEF SolvedBeaten

\* So no step of a pass loses the best surface.
LEMMA RefineKeeps ==
  ASSUME PassesSound, SolvedBeaten(StartOfPass), Refine
  PROVE  /\ PassesSound' /\ SolvedBeaten(StartOfPass)'
         /\ StartOfPass' = StartOfPass \/ BetterSurface(StartOfPass', StartOfPass)
BY SweepKeeps, EndPassKeeps DEF Refine

-----------------------------------------------------------------------------
(* The partition: lengths                                                  *)

\* There is a first dimension, and a side can be divided finitely often.
LEMMA AxesFacts == 1 \in Axes /\ Axes \subseteq Nat /\ IsFiniteSet(Axes) /\ GridDepth \in Nat
BY PartitionAssumption, FS_Interval DEF Axes

\* Half sizes are positive and each level has a third of the one above.
LEMMA HalfFacts ==
  /\ \A n \in Levels : Half(n) \in Nat \ {0}
  /\ \A n \in Levels : n < GridDepth => Half(n) = 3 * Half(n + 1)
  /\ Box = 6 * Half(0)
<1>1. GridDepth \in Nat
  BY AxesFacts
<1> DEFINE Bad == {n \in 0..GridDepth : ~(3^n > 0)}
<1>2. Bad = {}
  <2>1. SUFFICES ASSUME Bad # {}
                 PROVE  FALSE
    OBVIOUS
  <2>2. PICK n \in Bad : \A m \in Bad : n <= m
    <3>1. Bad \subseteq Nat
      OBVIOUS
    <3>2. QED
      BY <2>1, <3>1, LeastNatural
  <2>3. n \in 0..GridDepth /\ n # 0
    <3>1. 3^0 = 1
      OBVIOUS
    <3>2. 3^0 > 0
      BY <3>1
    <3>3. n # 0
      BY <3>2, Zenon
    <3>4. QED
      BY <3>3
  <2>4. n - 1 \in 0..(GridDepth - 1) /\ n - 1 \notin Bad
    BY <1>1, <2>2, <2>3
  <2>5. 3^((n - 1) + 1) = 3 * 3^(n - 1)
    BY <2>4, TrisectionAssumption
  <2>6. 3^(n - 1) \in Int /\ 3^(n - 1) > 0 /\ (n - 1) + 1 = n
    BY <1>1, <2>4
  <2>7. QED
    BY <2>2, <2>5, <2>6
<1>3. \A n \in 0..GridDepth : 3^n \in Int /\ 3^n > 0
  BY <1>2
<1>4. ASSUME NEW n \in Levels
      PROVE  Half(n) \in Nat \ {0}
  <2>1. GridDepth - n \in 0..GridDepth
    BY <1>1 DEF Levels
  <2>2. QED
    BY <1>3, <2>1 DEF Half
<1>5. ASSUME NEW n \in Levels, n < GridDepth
      PROVE  Half(n) = 3 * Half(n + 1)
  <2>1. GridDepth - (n + 1) \in 0..(GridDepth - 1) /\ (GridDepth - (n + 1)) + 1 = GridDepth - n
    BY <1>1, <1>5 DEF Levels
  <2>2. 3^((GridDepth - (n + 1)) + 1) = 3 * 3^(GridDepth - (n + 1))
    BY <2>1, TrisectionAssumption
  <2>3. QED
    BY <2>1, <2>2 DEF Half
<1>6. Half(0) = 3^GridDepth
  <2>1. GridDepth - 0 = GridDepth
    BY <1>1
  <2>2. QED
    BY <2>1 DEF Half
<1>7. QED
  BY <1>4, <1>5, <1>6 DEF Box

\* A rectangle: inside the box, with sides that differ by at most one trisection.
Shaped(rect) ==
  /\ rect.level \in [Axes -> Levels]
  /\ rect.center \in [Axes -> Int]
  /\ \A d \in Axes : /\ Half(rect.level[d]) <= rect.center[d]
                     /\ rect.center[d] <= Box - Half(rect.level[d])
  /\ \A d, e \in Axes : rect.level[d] <= rect.level[e] + 1

\* A centre is a point of the box's grid.
LEMMA ShapedInBox ==
  ASSUME NEW rect, Shaped(rect)
  PROVE  rect.center \in [Axes -> 1..(Box - 1)]
<1>1. ASSUME NEW d \in Axes
      PROVE  rect.center[d] \in 1..(Box - 1)
  <2>1. rect.level[d] \in Levels /\ rect.center[d] \in Int
    BY DEF Shaped
  <2>2. Half(rect.level[d]) \in Nat \ {0} /\ Box \in Int
    <3>1. 0 \in Levels
      BY AxesFacts DEF Levels
    <3>2. QED
      BY <2>1, <3>1, HalfFacts
  <2>3. Half(rect.level[d]) <= rect.center[d] /\ rect.center[d] <= Box - Half(rect.level[d])
    BY DEF Shaped
  <2>4. QED
    BY <2>1, <2>2, <2>3
<1>2. QED
  BY <1>1 DEF Shaped

\* The dimension a rectangle is divided along: that of a longest side.
LEMMA SplitIsLongest ==
  ASSUME NEW rect, rect.level \in [Axes -> Nat]
  PROVE  /\ SplitDimension(rect) \in Axes
         /\ \A e \in Axes : rect.level[SplitDimension(rect)] <= rect.level[e]
<1> DEFINE levels == {rect.level[d] : d \in Axes}
           longest == {d \in Axes : \A e \in Axes : rect.level[d] <= rect.level[e]}
<1>1. levels \subseteq Nat /\ levels # {}
  BY AxesFacts
<1>2. PICK n \in levels : \A m \in levels : n <= m
  BY <1>1, LeastNatural
<1>3. longest \subseteq Nat /\ longest # {}
  <2>1. PICK d \in Axes : rect.level[d] = n
    BY <1>2
  <2>2. d \in longest
    BY <1>2, <2>1
  <2>3. QED
    BY <2>2, AxesFacts
<1>4. Min(longest) \in longest
  BY <1>3, MinFacts
<1>5. QED
  BY <1>4 DEF SplitDimension

\* Sizes are natural numbers.
LEMMA SizeType ==
  ASSUME NEW rect, rect.level \in [Axes -> Levels]
  PROVE  SizeMetric(rect) \in Nat
<1> DEFINE levels == {rect.level[d] : d \in Axes}
<1>1. levels \subseteq Levels /\ levels \subseteq Nat /\ levels # {}
  BY AxesFacts DEF Levels
<1>2. Min(levels) \in levels
  BY <1>1, MinFacts
<1>3. QED
  BY <1>1, <1>2, HalfFacts DEF SizeMetric

-----------------------------------------------------------------------------
(* The partition: selection                                                *)

\* Live rectangles: finitely many, told apart by their ids.
Partition(rects) ==
  /\ IsFiniteSet(rects)
  /\ \A r \in rects : Shaped(r) /\ r.id \in Nat /\ r.score \in 0..Infinity
  /\ \A r, s \in rects : r.id = s.id => r = s

\* The incumbent rectangle is a live one, and none comes before it.
LEMMA BestOfFacts ==
  ASSUME NEW rects, Partition(rects), NEW some \in SUBSET rects, some # {}
  PROVE  /\ BestOf(some) \in some
         /\ \A r \in some : r = BestOf(some) \/ Better(BestOf(some), r)
         /\ \A r \in some : BestOf(some).score <= r.score
<1> DEFINE f == [r \in some |-> r.score]
           g == [r \in some |-> r.id]
<1>1. IsFiniteSet(some)
  BY FS_Subset DEF Partition
<1>2. \A r \in some : /\ r.score \in Int /\ r.id \in Int
                      /\ f[r] = r.score /\ g[r] = r.id
  BY DEF Partition
<1> HIDE DEF f, g
<1>3. PICK best \in some : \A r \in some : f[best] < f[r] \/ (f[best] = f[r] /\ g[best] <= g[r])
  <2>1. (\A r \in some : f[r] \in Int) /\ (\A r \in some : g[r] \in Int)
    BY <1>2
  <2>2. QED
    BY <1>1, <2>1, LeastPair
<1>4. ASSUME NEW r \in some \ {best}
      PROVE  Better(best, r)
  <2>1. best.id # r.id
    BY DEF Partition
  <2>2. best.score < r.score \/ (best.score = r.score /\ best.id <= r.id)
    BY <1>2, <1>3
  <2>3. QED
    BY <1>2, <2>1, <2>2 DEF Better
<1>5. /\ BestOf(some) \in some
      /\ \A r \in some \ {BestOf(some)} : Better(BestOf(some), r)
  BY <1>4 DEF BestOf
<1>6. QED
  BY <1>2, <1>5 DEF Better

\* A lower bound is at most the score, and infinite for an invalid centre.
LEMMA BoundType ==
  ASSUME NEW rects, Partition(rects), NEW r \in rects, NEW k \in Slopes
  PROVE  /\ LowerBound(r, k) \in Int /\ LowerBound(r, k) <= r.score
         /\ r.score = Infinity => LowerBound(r, k) = Infinity
<1>1. SizeMetric(r) \in Nat /\ k \in Nat /\ r.score \in Int /\ Infinity \in Int
  BY SizeType, PartitionAssumption DEF Partition, Shaped
<1>2. k * SizeMetric(r) \in Nat
  BY <1>1
<1>3. QED
  BY <1>1, <1>2 DEF LowerBound

\* What a slope chooses is a live rectangle and, as long as the best rectangle is valid,
\* a valid one: the best of the incumbent's size has a finite bound.
LEMMA ChosenFacts ==
  ASSUME NEW rects, Partition(rects), rects # {}, NEW k \in Slopes
  PROVE  /\ Chosen(rects, k) \in rects
         /\ BestOf(rects).score < Infinity => Chosen(rects, k).score # Infinity
<1> DEFINE reduced == BestRectanglesPerSize(rects)
           ofSize(r) == {s \in rects : SizeMetric(s) = SizeMetric(r)}
           f == [r \in reduced |-> LowerBound(r, k)]
           lowest == {r \in reduced : \A other \in reduced : LowerBound(r, k) <= LowerBound(other, k)}
<1>1. ASSUME NEW r \in rects
      PROVE  /\ BestOf(ofSize(r)) \in reduced /\ BestOf(ofSize(r)) \in rects
             /\ BestOf(ofSize(r)).score <= r.score
  <2>1. ofSize(r) \in SUBSET rects /\ r \in ofSize(r)
    OBVIOUS
  <2>2. BestOf(ofSize(r)) \in ofSize(r) /\ BestOf(ofSize(r)).score <= r.score
    BY <2>1, BestOfFacts
  <2>3. BestOf(ofSize(r)) \in reduced
    BY DEF BestRectanglesPerSize
  <2>4. QED
    BY <2>1, <2>2, <2>3
<1>2. reduced \in SUBSET rects /\ reduced # {}
  <2>1. ASSUME NEW b \in reduced
        PROVE  b \in rects
    <3>1. PICK r \in rects : b = BestOf(ofSize(r))
      BY DEF BestRectanglesPerSize
    <3>2. QED
      BY <1>1, <3>1
  <2>2. QED
    BY <1>1, <2>1
<1> HIDE DEF reduced
<1>3. IsFiniteSet(reduced)
  BY <1>2, FS_Subset DEF Partition
<1>4. \A r \in reduced : f[r] = LowerBound(r, k) /\ f[r] \in Int
  BY <1>2, BoundType
<1> HIDE DEF f
<1>5. PICK a \in reduced : \A r \in reduced : f[a] <= f[r]
  BY <1>2, <1>3, <1>4, LeastValue
<1>6. a \in lowest /\ lowest \in SUBSET rects
  BY <1>2, <1>4, <1>5
<1>7. Chosen(rects, k) = BestOf(lowest)
  BY DEF Chosen, reduced
<1> HIDE DEF lowest
<1>8. Chosen(rects, k) \in lowest
  BY <1>6, <1>7, BestOfFacts
<1>9. ASSUME BestOf(rects).score < Infinity, Chosen(rects, k).score = Infinity
      PROVE  FALSE
  <2>1. BestOf(rects) \in rects
    BY BestOfFacts
  <2>2. PICK c \in reduced : c \in rects /\ c.score <= BestOf(rects).score
    BY <1>1, <2>1
  <2>3. LowerBound(Chosen(rects, k), k) = Infinity
    BY <1>6, <1>8, <1>9, BoundType
  <2>4. LowerBound(Chosen(rects, k), k) <= LowerBound(c, k)
    BY <1>8 DEF lowest
  <2>5. LowerBound(c, k) \in Int /\ LowerBound(c, k) <= c.score
    BY <2>2, BoundType
  <2>6. c.score \in Int /\ BestOf(rects).score \in Int /\ Infinity \in Int
    BY <2>1, <2>2, PartitionAssumption DEF Partition
  <2>7. QED
    BY <1>9, <2>2, <2>3, <2>4, <2>5, <2>6
<1>10. QED
  BY <1>6, <1>8, <1>9

\* The selection of an iteration, given the incumbent's id.
LEMMA SelectionFacts ==
  ASSUME NEW rects, Partition(rects), rects # {},
         NEW selected, selected = SelectPotentiallyOptimal(rects, {BestOf(rects).id})
  PROVE  /\ selected \in SUBSET rects /\ IsFiniteSet(selected)
         /\ BestOf(rects).score < Infinity => \A r \in selected : r.score # Infinity
<1>1. \A k \in Slopes : /\ Chosen(rects, k) \in rects
                        /\ BestOf(rects).score < Infinity => Chosen(rects, k).score # Infinity
  BY ChosenFacts
<1>2. \A r \in rects : r.id = BestOf(rects).id => r = BestOf(rects)
  BY BestOfFacts DEF Partition
<1>3. BestOf(rects) \in rects /\ BestOf(rects).score \in Int /\ Infinity \in Int
  BY BestOfFacts, PartitionAssumption DEF Partition
<1>4. selected \in SUBSET rects
  BY <1>1 DEF SelectPotentiallyOptimal
<1>5. BestOf(rects).score < Infinity => \A r \in selected : r.score # Infinity
  BY <1>1, <1>2, <1>3 DEF SelectPotentiallyOptimal
<1>6. QED
  BY <1>4, <1>5, FS_Subset DEF Partition

-----------------------------------------------------------------------------
(* The partition: division                                                 *)

\* Rectangles about to be evaluated, with the next ids.
Specs(specs, next) ==
  /\ IsFiniteSet(specs)
  /\ \A s \in specs : Shaped(s) /\ s.id \in Nat /\ next <= s.id /\ s.id < next + Cardinality(specs)
  /\ \A s, t \in specs : s.id = t.id => s = t

\* Their centres, as one request.
LEMMA CentersFacts ==
  ASSUME NEW specs, NEW next, Specs(specs, next)
  PROVE  LET request == CentersById(specs)
         IN  /\ Request(request)
             /\ \A s \in specs : s.id \in DOMAIN request /\ request[s.id] = s.center
             /\ \A i \in DOMAIN request : \E s \in specs : request[i] = s.center
<1> DEFINE request == CentersById(specs)
           f == [s \in specs |-> s.id]
<1>1. DOMAIN request = {s.id : s \in specs}
  BY DEF CentersById
<1>2. {s.id : s \in specs} = {f[s] : s \in specs}
  OBVIOUS
<1>3. IsFiniteSet(DOMAIN request)
  <2>1. IsFiniteSet(specs) /\ DOMAIN f = specs
    BY DEF Specs
  <2> HIDE DEF f
  <2>2. IsFiniteSet({f[s] : s \in specs})
    BY <2>1, ImageFinite
  <2>3. QED
    BY <1>1, <1>2, <2>2
<1>4. DOMAIN request \subseteq Nat
  BY <1>1 DEF Specs
<1>5. ASSUME NEW s \in specs
      PROVE  s.id \in DOMAIN request /\ request[s.id] = s.center
  <2>1. (CHOOSE t \in specs : t.id = s.id) = s
    BY DEF Specs
  <2>2. QED
    BY <1>1, <2>1 DEF CentersById
<1>6. ASSUME NEW i \in DOMAIN request
      PROVE  \E s \in specs : request[i] = s.center
  BY <1>1, <1>5
<1>7. QED
  BY <1>3, <1>4, <1>5, <1>6 DEF Request

\* The evaluated rectangles.
LEMMA ScoredFacts ==
  ASSUME NEW specs, NEW next, Specs(specs, next), NEW answers,
         \A s \in specs : answers[s.center] \in 0..Infinity
  PROVE  /\ Partition(Scored(specs, answers))
         /\ \A s \in specs : \E r \in Scored(specs, answers) :
              r.id = s.id /\ r.center = s.center /\ r.level = s.level
         /\ \A r \in Scored(specs, answers) :
              /\ r.score = answers[r.center]
              /\ \E s \in specs : r.id = s.id /\ r.center = s.center /\ r.level = s.level
<1> DEFINE scored(s) == [id |-> s.id, center |-> s.center, level |-> s.level,
                         score |-> answers[s.center]]
           f == [s \in specs |-> scored(s)]
<1>1. Scored(specs, answers) = {scored(s) : s \in specs}
  BY DEF Scored
<1>2. IsFiniteSet(Scored(specs, answers))
  <2>1. IsFiniteSet(specs) /\ DOMAIN f = specs /\ {scored(s) : s \in specs} = {f[s] : s \in specs}
    BY DEF Specs
  <2> HIDE DEF f, scored
  <2>2. QED
    BY <1>1, <2>1, ImageFinite
<1>3. ASSUME NEW s \in specs
      PROVE  /\ Shaped(scored(s)) /\ scored(s).id \in Nat /\ scored(s).score \in 0..Infinity
             /\ scored(s).id = s.id /\ scored(s).center = s.center /\ scored(s).level = s.level
             /\ scored(s).score = answers[s.center]
  BY DEF Specs, Shaped
<1>4. \A s, t \in specs : scored(s).id = scored(t).id => scored(s) = scored(t)
  BY <1>3 DEF Specs
<1> HIDE DEF scored
<1>5. Partition(Scored(specs, answers))
  BY <1>1, <1>2, <1>3, <1>4 DEF Partition
<1>6. QED
  BY <1>1, <1>3, <1>5

\* split_rectangle(): a child has a third of its parent's longest side and stays within
\* the parent, so within the box.
LEMMA ChildShaped ==
  ASSUME NEW r, Shaped(r), r.level[SplitDimension(r)] < GridDepth, NEW i \in ChildPositions, NEW child,
         child.center = [r.center EXCEPT ![SplitDimension(r)] = @ + (i - 1) * Delta(r)],
         child.level = [r.level EXCEPT ![SplitDimension(r)] = @ + 1]
  PROVE  Shaped(child) /\ (i = 1 => child.center = r.center)
<1> DEFINE split == SplitDimension(r)
<1>1. r.level \in [Axes -> Nat] /\ r.level \in [Axes -> Levels] /\ r.center \in [Axes -> Int]
  BY DEF Shaped, Levels
<1>2. split \in Axes /\ \A e \in Axes : r.level[split] <= r.level[e]
  BY <1>1, SplitIsLongest
<1>3. r.level[split] \in Levels /\ r.level[split] + 1 \in Levels
  <2>1. r.level[split] \in 0..GridDepth /\ r.level[split] < GridDepth /\ GridDepth \in Nat
    BY <1>1, <1>2, AxesFacts DEF Levels
  <2> HIDE DEF split
  <2>2. QED
    BY <2>1 DEF Levels
<1>4. /\ Delta(r) \in Nat \ {0} /\ Half(r.level[split]) = 3 * Delta(r)
      /\ Delta(r) = Half(r.level[split] + 1)
  BY <1>3, HalfFacts DEF Delta
<1>5. Box \in Int
  <2>1. 0 \in Levels
    BY AxesFacts DEF Levels
  <2>2. QED
    BY <2>1, HalfFacts
<1>6. /\ (i - 1) * Delta(r) \in Int /\ -Delta(r) <= (i - 1) * Delta(r)
      /\ (i - 1) * Delta(r) <= Delta(r) /\ (i = 1 => (i - 1) * Delta(r) = 0)
  <2>1. i = 0 \/ i = 1 \/ i = 2
    BY DEF ChildPositions
  <2>2. QED
    BY <1>4, <2>1
<1> DEFINE shift == (i - 1) * Delta(r)
<1>7. /\ child.center = [r.center EXCEPT ![split] = @ + shift]
      /\ child.level = [r.level EXCEPT ![split] = @ + 1]
  OBVIOUS
<1>8. shift \in Int /\ -Delta(r) <= shift /\ shift <= Delta(r) /\ (i = 1 => shift = 0)
  BY <1>6
<1> HIDE DEF split, shift
<1>9. child.level \in [Axes -> Levels] /\ child.center \in [Axes -> Int]
  BY <1>1, <1>2, <1>3, <1>7, <1>8
<1>10. ASSUME NEW d \in Axes
       PROVE  /\ Half(child.level[d]) <= child.center[d]
              /\ child.center[d] <= Box - Half(child.level[d])
  <2>1. Half(r.level[d]) <= r.center[d] /\ r.center[d] <= Box - Half(r.level[d]) /\ r.center[d] \in Int
    BY <1>1 DEF Shaped
  <2>2. CASE d = split
    <3>1. child.level[d] = r.level[split] + 1 /\ child.center[d] = r.center[d] + shift
      BY <1>1, <1>2, <1>7, <2>2
    <3>2. QED
      BY <1>4, <1>5, <1>8, <2>1, <2>2, <3>1
  <2>3. CASE d # split
    BY <1>1, <1>2, <1>7, <2>1, <2>3
  <2>4. QED
    BY <2>2, <2>3
<1>11. ASSUME NEW d \in Axes, NEW e \in Axes
       PROVE  child.level[d] <= child.level[e] + 1
  <2>1. child.level[d] = IF d = split THEN r.level[d] + 1 ELSE r.level[d]
    BY <1>1, <1>7
  <2>2. child.level[e] = IF e = split THEN r.level[e] + 1 ELSE r.level[e]
    BY <1>1, <1>7
  <2>3. r.level[d] \in Nat /\ r.level[e] \in Nat /\ r.level[d] <= r.level[e] + 1
    BY <1>1 DEF Shaped
  <2>4. CASE d = split
    BY <1>2, <2>1, <2>2, <2>3, <2>4
  <2>5. CASE d # split
    BY <2>1, <2>2, <2>3, <2>5
  <2>6. QED
    BY <2>4, <2>5
<1>12. i = 1 => child.center = r.center
  BY <1>1, <1>2, <1>7, <1>8
<1>13. QED
  BY <1>9, <1>10, <1>11, <1>12 DEF Shaped

\* Rectangles by rising id: where one of them comes among those selected.
ById(rects) == {ss \in rects \X rects : ss[1].id < ss[2].id}

\* The position of a rectangle by its id is a rank.
LEMMA RankById ==
  ASSUME NEW rects, Partition(rects)
  PROVE  /\ StrictOrder(rects, ById(rects))
         /\ \A r \in rects : Cardinality({s \in rects : s.id < r.id}) = Rank(rects, ById(rects), r)
<1>1. \A r, s \in rects : <<r, s>> \in ById(rects) <=> r.id < s.id
  BY DEF ById
<1>2. \A r, s \in rects : r.id \in Nat /\ (r # s => r.id # s.id)
  BY DEF Partition
<1>3. StrictOrder(rects, ById(rects))
  BY <1>1, <1>2 DEF StrictOrder
<1>4. ASSUME NEW r \in rects
      PROVE  {s \in rects : s.id < r.id} = {s \in rects : <<s, r>> \in ById(rects)}
  BY <1>1
<1>5. QED
  BY <1>3, <1>4 DEF Rank

ChildOf(selected, next, r, i) ==
  [id |-> next + 3 * Cardinality({s \in selected : s.id < r.id}) + i,
   center |-> [r.center EXCEPT ![SplitDimension(r)] = @ + (i - 1) * Delta(r)],
   level |-> [r.level EXCEPT ![SplitDimension(r)] = @ + 1]]

\* No two children have the same id.
LEMMA ChildOfFacts ==
  ASSUME NEW selected, Partition(selected), NEW next \in Nat,
         \A r \in selected : r.level[SplitDimension(r)] < GridDepth
  PROVE  /\ \A r \in selected, i \in ChildPositions : Shaped(ChildOf(selected, next, r, i))
         /\ \A r \in selected : ChildOf(selected, next, r, 1).center = r.center
         /\ \A r \in selected, i \in ChildPositions :
              ChildOf(selected, next, r, i).id \in next..(next + 3 * Cardinality(selected) - 1)
         /\ \A r, s \in selected, i, j \in ChildPositions :
              ChildOf(selected, next, r, i).id = ChildOf(selected, next, s, j).id => r = s /\ i = j
<1> DEFINE rank(r) == Cardinality({s \in selected : s.id < r.id})
           child(r, i) == ChildOf(selected, next, r, i)
<1>1. IsFiniteSet(selected) /\ Cardinality(selected) \in Nat
  BY FS_CardinalityType DEF Partition
<1>2. /\ \A r \in selected : rank(r) \in 0..(Cardinality(selected) - 1)
      /\ \A r, s \in selected : rank(r) = rank(s) => r = s
  BY <1>1, RankById, RankRises, RankBijective
<1>3. \A r \in selected, i \in ChildPositions : child(r, i).id = next + 3 * rank(r) + i
  BY DEF ChildOf
<1>4. ASSUME NEW r \in selected, NEW i \in ChildPositions
      PROVE  /\ Shaped(child(r, i)) /\ (i = 1 => child(r, i).center = r.center)
             /\ child(r, i).level = [r.level EXCEPT ![SplitDimension(r)] = @ + 1]
  <2>1. Shaped(r)
    BY DEF Partition
  <2>2. /\ child(r, i).center = [r.center EXCEPT ![SplitDimension(r)] = @ + (i - 1) * Delta(r)]
        /\ child(r, i).level = [r.level EXCEPT ![SplitDimension(r)] = @ + 1]
    BY DEF ChildOf
  <2> HIDE DEF child
  <2>3. QED
    BY <2>1, <2>2, ChildShaped
<1> HIDE DEF rank, child
<1>5. ASSUME NEW r \in selected, NEW i \in ChildPositions
      PROVE  child(r, i).id \in next..(next + 3 * Cardinality(selected) - 1)
  <2>1. i \in 0..2 /\ rank(r) \in 0..(Cardinality(selected) - 1)
    BY <1>2 DEF ChildPositions
  <2>2. QED
    BY <1>1, <1>3, <2>1
<1>6. ASSUME NEW r \in selected, NEW i \in ChildPositions,
             NEW s \in selected, NEW j \in ChildPositions, child(r, i).id = child(s, j).id
      PROVE  r = s /\ i = j
  <2>1. rank(r) \in Nat /\ rank(s) \in Nat /\ i \in 0..2 /\ j \in 0..2
    BY <1>1, <1>2 DEF ChildPositions
  <2>2. next + 3 * rank(r) + i = next + 3 * rank(s) + j
    <3>1. child(r, i).id = next + 3 * rank(r) + i
      BY <1>3
    <3>2. child(s, j).id = next + 3 * rank(s) + j
      BY <1>3
    <3>3. QED
      BY <1>6, <3>1, <3>2
  <2>3. rank(r) = rank(s) /\ i = j
    BY <2>1, <2>2
  <2>4. QED
    BY <1>2, <2>3
<1>7. 1 \in ChildPositions
  BY DEF ChildPositions
<1>8. \A r \in selected, i \in ChildPositions : Shaped(child(r, i))
  BY <1>4
<1>9. \A r \in selected : child(r, 1).center = r.center
  BY <1>4, <1>7
<1>10. QED
  BY <1>5, <1>6, <1>8, <1>9 DEF child

\* As many children stand at some positions as those positions and the rectangles allow.
LEMMA ChildrenCounted ==
  ASSUME NEW selected, Partition(selected), NEW next \in Nat,
         \A r \in selected : r.level[SplitDimension(r)] < GridDepth,
         NEW positions \in SUBSET ChildPositions, IsFiniteSet(positions)
  PROVE  LET some == {ChildOf(selected, next, r, i) : r \in selected, i \in positions}
         IN  IsFiniteSet(some) /\ Cardinality(some) = Cardinality(selected) * Cardinality(positions)
<1> DEFINE child(r, i) == ChildOf(selected, next, r, i)
           some == {child(r, i) : r \in selected, i \in positions}
           pairs == selected \X positions
           f == [ri \in pairs |-> child(ri[1], ri[2])]
<1>1. ASSUME NEW r \in selected, NEW i \in positions,
             NEW s \in selected, NEW j \in positions, child(r, i) = child(s, j)
      PROVE  r = s /\ i = j
  <2>1. i \in ChildPositions /\ j \in ChildPositions /\ child(r, i).id = child(s, j).id
    BY <1>1
  <2>2. QED
    BY <2>1, ChildOfFacts
<1> HIDE DEF child
<1>2. f \in Bijection(pairs, some)
  <2>1. f \in [pairs -> some]
    OBVIOUS
  <2>2. ASSUME NEW c \in some
        PROVE  \E p \in pairs : f[p] = c
    <3>1. PICK r \in selected, i \in positions : c = child(r, i)
      OBVIOUS
    <3>2. <<r, i>> \in pairs /\ f[<<r, i>>] = c
      BY <3>1
    <3>3. QED
      BY <3>2
  <2>3. ASSUME NEW p \in pairs, NEW q \in pairs, f[p] = f[q]
        PROVE  p = q
    <3>1. /\ p = <<p[1], p[2]>> /\ p[1] \in selected /\ p[2] \in positions
          /\ q = <<q[1], q[2]>> /\ q[1] \in selected /\ q[2] \in positions
      OBVIOUS
    <3>2. child(p[1], p[2]) = child(q[1], q[2])
      BY <2>3
    <3>3. p[1] = q[1] /\ p[2] = q[2]
      BY <1>1, <3>1, <3>2
    <3>4. QED
      BY <3>1, <3>3
  <2> HIDE DEF f, pairs, some
  <2>4. QED
    BY <2>1, <2>2, <2>3 DEF Bijection, Injection, Surjection, IsInjective
<1>3. IsFiniteSet(pairs) /\ Cardinality(pairs) = Cardinality(selected) * Cardinality(positions)
  BY FS_Product DEF Partition
<1> HIDE DEF pairs, f
<1>4. IsFiniteSet(some) /\ Cardinality(some) = Cardinality(pairs)
  BY <1>2, <1>3, FS_Bijection DEF ExistsBijection
<1>5. QED
  BY <1>3, <1>4 DEF child

\* The children, one for each rectangle and position.
LEMMA ChildrenByPosition ==
  ASSUME NEW selected, NEW next
  PROVE  Children(selected, next) = {ChildOf(selected, next, r, i) : r \in selected, i \in ChildPositions}
BY DEF Children, ChildOf

\* The children of an iteration: three for each rectangle selected, one of them with its
\* centre, numbered from the next id on.
LEMMA ChildrenFacts ==
  ASSUME NEW selected, Partition(selected), NEW next \in Nat,
         \A r \in selected : r.level[SplitDimension(r)] < GridDepth
  PROVE  LET children == Children(selected, next)
         IN  /\ Specs(children, next) /\ Cardinality(children) \in Nat
             /\ \A r \in selected : \E s \in children : s.center = r.center
             /\ \A s \in children : \E r \in selected :
                  s.level = [r.level EXCEPT ![SplitDimension(r)] = @ + 1]
<1> DEFINE child(r, i) == ChildOf(selected, next, r, i)
           children == Children(selected, next)
<1>1. children = {child(r, i) : r \in selected, i \in ChildPositions}
  BY ChildrenByPosition
<1>2. IsFiniteSet(ChildPositions) /\ Cardinality(ChildPositions) = 3
  <2>1. IsFiniteSet(0..2) /\ Cardinality(0..2) = IF 0 > 2 THEN 0 ELSE 2 - 0 + 1
    <3>1. 0 \in Int /\ 2 \in Int
      OBVIOUS
    <3>2. QED
      BY <3>1, FS_Interval, Zenon
  <2>2. QED
    BY <2>1 DEF ChildPositions
<1>3. Cardinality(selected) \in Nat
  BY FS_CardinalityType DEF Partition
<1>4. IsFiniteSet(children) /\ Cardinality(children) = 3 * Cardinality(selected)
  <2>1. IsFiniteSet(children) /\ Cardinality(children) = Cardinality(selected) * 3
    BY <1>1, <1>2, ChildrenCounted
  <2>2. QED
    BY <1>3, <2>1
<1>5. \A r \in selected, i \in ChildPositions :
         /\ Shaped(child(r, i))
         /\ child(r, i).id \in next..(next + 3 * Cardinality(selected) - 1)
  BY ChildOfFacts
<1> \A r \in selected : child(r, 1).center = r.center
  BY ChildOfFacts
<1> \A r \in selected, i \in ChildPositions :
      child(r, i).level = [r.level EXCEPT ![SplitDimension(r)] = @ + 1]
  BY DEF ChildOf
<1>6. \A r, s \in selected, i, j \in ChildPositions : child(r, i).id = child(s, j).id => r = s /\ i = j
  BY ChildOfFacts
<1> HIDE DEF child, children
<1>7. ASSUME NEW c \in children
      PROVE  /\ Shaped(c) /\ c.id \in Nat /\ next <= c.id /\ c.id < next + Cardinality(children)
             /\ \E r \in selected : c.level = [r.level EXCEPT ![SplitDimension(r)] = @ + 1]
  <2>1. PICK r \in selected, i \in ChildPositions : c = child(r, i)
    BY <1>1
  <2>2. c.id \in next..(next + 3 * Cardinality(selected) - 1)
    BY <1>5, <2>1
  <2>3. c.id \in Nat /\ next <= c.id /\ c.id < next + Cardinality(children)
    BY <1>3, <1>4, <2>2
  <2>4. QED
    BY <1>5, <2>1, <2>3
<1>8. \A c, d \in children : c.id = d.id => c = d
  BY <1>1, <1>6
<1>9. ASSUME NEW r \in selected
      PROVE  \E s \in children : s.center = r.center
  <2>1. 1 \in ChildPositions
    BY DEF ChildPositions
  <2>2. child(r, 1) \in children
    BY <1>1, <2>1
  <2>3. QED
    BY <1>5, <2>1, <2>2
<1>10. Specs(children, next)
  BY <1>4, <1>7, <1>8 DEF Specs
<1>11. Cardinality(children) \in Nat
  BY <1>3, <1>4
<1>12. QED
  BY <1>7, <1>9, <1>10, <1>11 DEF children

\* One of them has the centre of the rectangle it comes from.
LEMMA CentreKept ==
  ASSUME NEW selected, Partition(selected), NEW next \in Nat,
         \A r \in selected : r.level[SplitDimension(r)] < GridDepth
  PROVE  \A r \in selected : \E s \in Children(selected, next) : s.center = r.center
<1> DEFINE children == Children(selected, next)
<1>1. /\ Specs(children, next) /\ Cardinality(children) \in Nat
      /\ \A r \in selected : \E s \in children : s.center = r.center
      /\ \A s \in children : \E r \in selected :
           s.level = [r.level EXCEPT ![SplitDimension(r)] = @ + 1]
  BY ChildrenFacts
<1>2. QED
  BY <1>1
-----------------------------------------------------------------------------
(* The partition: seeding                                                  *)

\* The seeds are finitely many: each is a set of axes with coordinates.
LEMMA SeedsFinite == IsFiniteSet(Seeds) /\ Cardinality(Seeds) \in Nat
<1> DEFINE grid == Axes \X SeedCoordinates
           graph(p) == {a \in grid : a[2] = p[a[1]]}
           f == [p \in Seeds |-> graph(p)]
<1>1. IsFiniteSet(SeedCoordinates)
  <2>1. SeedCoordinates = ({Box \div 6} \cup {Box \div 2}) \cup {5 * (Box \div 6)}
    BY DEF SeedCoordinates
  <2>2. IsFiniteSet({Box \div 6} \cup {Box \div 2})
    <3>1. IsFiniteSet({Box \div 6})
      BY FS_Singleton
    <3>2. QED
      BY <3>1, FS_AddElement
  <2>3. QED
    BY <2>1, <2>2, FS_AddElement
<1>2. IsFiniteSet(SUBSET grid)
  BY <1>1, AxesFacts, FS_Product, FS_SUBSET
<1>3. ASSUME NEW p \in Seeds, NEW q \in Seeds, graph(p) = graph(q)
      PROVE  p = q
  <2>1. p \in [Axes -> SeedCoordinates] /\ q \in [Axes -> SeedCoordinates]
    BY DEF Seeds
  <2>2. ASSUME NEW d \in Axes
        PROVE  p[d] = q[d]
    <3>1. <<d, p[d]>> \in grid
      BY <2>1
    <3>2. <<d, p[d]>> \in graph(p)
      BY <3>1
    <3>3. <<d, p[d]>> \in graph(q)
      BY <1>3, <3>2
    <3>4. QED
      BY <3>3
  <2>3. QED
    BY <2>1, <2>2
<1>4. f \in Injection(Seeds, SUBSET grid)
  <2>1. f \in [Seeds -> SUBSET grid]
    OBVIOUS
  <2>2. \A p, q \in Seeds : f[p] = f[q] => p = q
    BY <1>3
  <2>3. QED
    BY <2>1, <2>2 DEF Injection, IsInjective
<1>5. QED
  BY <1>2, <1>4, FS_Injection, FS_CardinalityType

\* The nested loops visit the seeds in a strict order.
SeedOrder == {ss \in Seeds \X Seeds : Before(ss[1], ss[2])}

\* So is the position of a seed.
LEMMA SeedsOrdered ==
  /\ StrictOrder(Seeds, SeedOrder)
  /\ \A p \in Seeds : Cardinality({q \in Seeds : Before(q, p)}) = Rank(Seeds, SeedOrder, p)
<1>1. \A p, q \in Seeds : <<p, q>> \in SeedOrder <=> Before(p, q)
  BY DEF SeedOrder
<1>2. \A p \in Seeds : p \in [Axes -> SeedCoordinates]
  BY DEF Seeds
<1>3. \A x \in SeedCoordinates : x \in Int
  <2>1. Box \in Int
    <3>1. 0 \in Levels
      BY AxesFacts DEF Levels
    <3>2. QED
      BY <3>1, HalfFacts
  <2>2. QED
    BY <2>1 DEF SeedCoordinates
<1>4. ASSUME NEW p \in Seeds
      PROVE  ~Before(p, p)
  BY <1>2, <1>3 DEF Before
<1>5. ASSUME NEW p \in Seeds, NEW q \in Seeds, NEW r \in Seeds, Before(p, q), Before(q, r)
      PROVE  Before(p, r)
  <2>1. PICK d \in Axes : p[d] < q[d] /\ \A e \in Axes : e < d => p[e] = q[e]
    BY <1>5 DEF Before
  <2>2. PICK c \in Axes : q[c] < r[c] /\ \A e \in Axes : e < c => q[e] = r[e]
    BY <1>5 DEF Before
  <2>3. \A e \in Axes : p[e] \in Int /\ q[e] \in Int /\ r[e] \in Int
    BY <1>2, <1>3
  <2>4. d \in Nat /\ c \in Nat /\ \A e \in Axes : e \in Nat
    BY AxesFacts
  <2>5. CASE d <= c
    <3>1. p[d] < r[d]
      BY <2>1, <2>2, <2>3, <2>4, <2>5
    <3>2. \A e \in Axes : e < d => p[e] = r[e]
      BY <2>1, <2>2, <2>4, <2>5
    <3>3. QED
      BY <3>1, <3>2 DEF Before
  <2>6. CASE c < d
    <3>1. p[c] < r[c]
      BY <2>1, <2>2, <2>3, <2>4, <2>6
    <3>2. \A e \in Axes : e < c => p[e] = r[e]
      BY <2>1, <2>2, <2>4, <2>6
    <3>3. QED
      BY <3>1, <3>2 DEF Before
  <2>7. QED
    BY <2>4, <2>5, <2>6
<1>6. ASSUME NEW p \in Seeds, NEW q \in Seeds, p # q
      PROVE  Before(p, q) \/ Before(q, p)
  <2> DEFINE differ == {d \in Axes : p[d] # q[d]}
  <2>1. differ # {}
    BY <1>2, <1>6
  <2>2. differ \subseteq Nat
    BY AxesFacts
  <2>3. PICK d \in differ : \A e \in differ : d <= e
    BY <2>1, <2>2, LeastNatural
  <2>4. \A e \in Axes : e < d => p[e] = q[e]
    BY <2>2, <2>3, AxesFacts
  <2>5. p[d] \in Int /\ q[d] \in Int /\ p[d] # q[d]
    BY <1>2, <1>3
  <2>6. QED
    BY <2>4, <2>5 DEF Before
<1>7. StrictOrder(Seeds, SeedOrder)
  BY <1>1, <1>4, <1>5, <1>6 DEF StrictOrder
<1>8. ASSUME NEW p \in Seeds
      PROVE  {q \in Seeds : Before(q, p)} = {q \in Seeds : <<q, p>> \in SeedOrder}
  BY <1>1
<1>9. QED
  BY <1>7, <1>8 DEF Rank

\* The seeded rectangles: whole trisections of the box, numbered from 0 on.
LEMMA SeedsFacts ==
  /\ Specs(SeedRectangles, 0) /\ SeedRectangles # {}
  /\ Cardinality(SeedRectangles) = Cardinality(Seeds) /\ Cardinality(Seeds) \in Nat
  /\ \A s \in SeedRectangles : s.level = [d \in Axes |-> 0]
<1> DEFINE number(p) == Cardinality({q \in Seeds : Before(q, p)})
           seed(p) == [id |-> number(p), center |-> p, level |-> [d \in Axes |-> 0]]
           f == [p \in Seeds |-> seed(p)]
<1>1. SeedRectangles = {seed(p) : p \in Seeds}
  BY DEF SeedRectangles
<1>2. \A p \in Seeds : number(p) \in 0..(Cardinality(Seeds) - 1)
  BY SeedsFinite, SeedsOrdered, RankRises
<1>3. \A p, q \in Seeds : number(p) = number(q) => p = q
  BY SeedsFinite, SeedsOrdered, RankBijective
<1> HIDE DEF number
<1>4. ASSUME NEW p \in Seeds
      PROVE  Shaped(seed(p))
  <2>1. 0 \in Levels
    BY AxesFacts DEF Levels
  <2>2. Half(0) \in Nat \ {0} /\ Box = 6 * Half(0)
    BY <2>1, HalfFacts
  <2>3. SeedCoordinates = {Half(0), 3 * Half(0), 5 * Half(0)}
    <3>1. Box \div 6 = Half(0) /\ Box \div 2 = 3 * Half(0)
      BY <2>2
    <3>2. QED
      BY <3>1 DEF SeedCoordinates
  <2>4. \A d \in Axes : p[d] \in SeedCoordinates /\ p[d] \in Int /\ Half(0) <= p[d] /\ p[d] <= Box - Half(0)
    BY <2>2, <2>3 DEF Seeds
  <2>5. p \in [Axes -> Int]
    BY <2>4 DEF Seeds
  <2>6. seed(p).level = [d \in Axes |-> 0] /\ seed(p).center = p
    OBVIOUS
  <2> HIDE DEF seed
  <2>7. QED
    BY <2>1, <2>4, <2>5, <2>6 DEF Shaped
<1>5. f \in Bijection(Seeds, SeedRectangles)
  <2>1. f \in [Seeds -> SeedRectangles] /\ \A c \in SeedRectangles : \E p \in Seeds : f[p] = c
    BY <1>1
  <2>2. \A p, q \in Seeds : f[p] = f[q] => p = q
    OBVIOUS
  <2> HIDE DEF f
  <2>3. QED
    BY <2>1, <2>2 DEF Bijection, Injection, Surjection, IsInjective
<1>6. IsFiniteSet(SeedRectangles) /\ Cardinality(SeedRectangles) = Cardinality(Seeds)
  BY <1>5, SeedsFinite, FS_Bijection DEF ExistsBijection
<1>7. SeedRectangles # {}
  <2>1. [d \in Axes |-> Box \div 6] \in Seeds
    BY DEF Seeds, SeedCoordinates
  <2>2. QED
    BY <1>1, <2>1
<1>8. ASSUME NEW s \in SeedRectangles
      PROVE  Shaped(s) /\ s.id \in Nat /\ 0 <= s.id /\ s.id < 0 + Cardinality(SeedRectangles)
             /\ s.level = [d \in Axes |-> 0]
  <2>1. PICK p \in Seeds : s = seed(p)
    BY <1>1
  <2>2. s.id = number(p) /\ s.level = [d \in Axes |-> 0]
    BY <2>1
  <2>3. QED
    BY <1>2, <1>4, <1>6, <2>1, <2>2, SeedsFinite
<1>9. \A s, t \in SeedRectangles : s.id = t.id => s = t
  BY <1>1, <1>3
<1>10. QED
  BY <1>6, <1>7, <1>8, <1>9, SeedsFinite DEF Specs

-----------------------------------------------------------------------------
(* DIRECT: the inductive invariant                                         *)

\* The configuration, the budget and what is known.
KnownSound ==
  /\ config \in DirectConfigurations /\ BudgetSound
  /\ IsFiniteSet(DOMAIN memo)
  /\ \A p \in DOMAIN memo : p \in [Axes -> 1..(Box - 1)] /\ memo[p] \in 0..Infinity

\* Some live rectangle is as good as everything that is known.
Covered == \A p \in DOMAIN memo : \E r \in rectangles : r.score <= memo[p]

\* The live rectangles, none of which was divided more often than there were iterations.
LiveSound ==
  /\ Partition(rectangles) /\ nextRectId \in Nat
  /\ \A r \in rectangles : /\ r.id < nextRectId
                           /\ r.center \in DOMAIN memo /\ r.score = memo[r.center]
                           /\ \A d \in Axes : r.level[d] <= Len(diagnostics)
  /\ Covered

IncumbentSound ==
  /\ stage = "start" => DOMAIN memo = {} /\ rectangles = {} /\ nextRectId = 0 /\ diagnostics = <<>>
  /\ stage # "start" => rectangles # {} /\ incumbentId = BestOf(rectangles).id
  /\ stage \notin {"start", "failed"} => BestOf(rectangles).score < Infinity

Records == [totalEvaluations : Nat, potentiallyOptimal : Nat, incumbentFos : Nat, incumbentSize : Nat]

\* The diagnostics, whose last record is up to date.
HistorySound ==
  /\ diagnostics \in Seq(Records)
  /\ Len(diagnostics) <= config.maxIterations
  /\ stage = "running" => Len(diagnostics) < config.maxIterations
  /\ diagnostics # <<>> => diagnostics[Len(diagnostics)].incumbentFos = BestFound(memo)

\* The stages, and the passes of the last ones.
StagesSound ==
  /\ stage \in {"start", "running", "finished", "refining", "done", "failed"}
  /\ reason \in {"none", "max_evaluations", "min_rectangle_half_size_reached",
                 "stall_tolerance_reached", "max_iterations"}
  /\ stage \in {"start", "running", "finished", "failed"} => DOMAIN solved = {} /\ batches = 0
  /\ stage = "done" => batches = 0
  /\ PassesSound /\ SolvedBeaten(StartOfPass)

\* What the global stage knows of a point is no better than an answer.
KnownBeaten(best) ==
  \A p \in DOMAIN memo :
    LET found == [surface |-> KeyOf(p), fos |-> memo[p]]
    IN  memo[p] = Infinity \/ found = best \/ BetterSurface(best, found)

RefiningSound == stage \in {"refining", "done"} => KnownBeaten(StartOfPass)

DirectInv ==
  /\ KnownSound /\ LiveSound /\ IncumbentSound /\ HistorySound /\ StagesSound /\ RefiningSound
  /\ ReasonTruthful

\* What a configuration of DIRECT holds.
LEMMA ConfigFacts ==
  ASSUME config \in DirectConfigurations
  PROVE  /\ config.maxEvaluations \in Nat \ {0} /\ config.maxIterations \in 1..GridDepth
         /\ config.stallIterations \in Nat \ {0} /\ config.minImprovement \in Nat
         /\ config.minRectangleHalfSize \in Nat
BY DirectAssumption DEF DirectConfigurationType

\* The invariant holds at the start.
LEMMA DirectStarts == DirectInit => DirectInv
<1> SUFFICES ASSUME DirectInit
             PROVE  DirectInv
  OBVIOUS
<1>1. /\ config \in DirectConfigurations /\ DOMAIN memo = {} /\ spent = 0 /\ DOMAIN solved = {}
      /\ winner = NoWinner /\ running = NoWinner /\ passesLeft = DirectPasses /\ batches = 0
      /\ rectangles = {} /\ nextRectId = 0 /\ diagnostics = <<>> /\ stage = "start" /\ reason = "none"
  BY DEF DirectInit, ObjectiveInit, RefinementInit
<1>2. KnownSound
  BY <1>1, ConfigFacts, FS_EmptySet DEF KnownSound, BudgetSound
<1>3. LiveSound /\ IncumbentSound
  BY <1>1, FS_EmptySet DEF LiveSound, IncumbentSound, Partition, Covered
<1>4. HistorySound
  BY <1>1, ConfigFacts, AxesFacts DEF HistorySound
<1>5. DirectPasses \in Seq(PassNames \ {"local_polish"})
  BY DEF DirectPasses, PassNames
<1>6. NoWinner \in Answers
  BY PostRefinementAssumption DEF NoWinner, Answers
<1>7. StagesSound /\ RefiningSound /\ ReasonTruthful
  BY <1>1, <1>5, <1>6 DEF StagesSound, RefiningSound, ReasonTruthful, PassesSound, SolvedSound, SolvedBeaten
<1>8. QED
  BY <1>2, <1>3, <1>4, <1>7 DEF DirectInv

\* The lowest score found is that of the best rectangle.
LEMMA BestFoundIsIncumbents ==
  ASSUME NEW rects, Partition(rects), rects # {}, NEW answers,
         \A r \in rects : r.center \in DOMAIN answers /\ r.score = answers[r.center],
         \A p \in DOMAIN answers : answers[p] \in 0..Infinity /\ \E r \in rects : r.score <= answers[p]
  PROVE  /\ BestFound(answers) = BestOf(rects).score /\ BestOf(rects) \in rects
         /\ BestFound(answers) \in 0..Infinity
         /\ \A p \in DOMAIN answers : BestFound(answers) <= answers[p]
<1> DEFINE scores == {answers[p] : p \in DOMAIN answers}
<1>1. /\ BestOf(rects) \in rects
      /\ \A r \in rects : BestOf(rects).score <= r.score
  BY BestOfFacts
<1>2. BestOf(rects).score \in scores /\ BestOf(rects).score \in 0..Infinity
  BY <1>1 DEF Partition
<1>3. scores \subseteq Nat
  BY PartitionAssumption
<1>4. ASSUME NEW p \in DOMAIN answers
      PROVE  BestOf(rects).score <= answers[p]
  <2>1. PICK r \in rects : r.score <= answers[p]
    OBVIOUS
  <2>2. r.score \in Int /\ answers[p] \in Int /\ BestOf(rects).score \in Int
    BY <1>2, PartitionAssumption DEF Partition
  <2>3. QED
    BY <1>1, <2>1, <2>2
<1>5. \A n \in scores : BestOf(rects).score <= n
  BY <1>4
<1> HIDE DEF scores
<1>6. BestOf(rects).score = Min(scores)
  BY <1>2, <1>3, <1>5, MinFacts
<1>7. QED
  BY <1>1, <1>2, <1>4, <1>6 DEF BestFound, scores

-----------------------------------------------------------------------------
(* DIRECT: the steps                                                       *)

\* A batch of rectangles is evaluated.
LEMMA SpecsEvaluated ==
  ASSUME KnownSound, NEW specs, NEW next, Specs(specs, next), Evaluate(CentersById(specs), Infinity)
  PROVE  /\ KnownSound' /\ config' = config
         /\ \A p \in DOMAIN memo : p \in DOMAIN memo' /\ memo'[p] = memo[p]
         /\ \A s \in specs : s.center \in DOMAIN memo' /\ memo'[s.center] \in 0..Infinity
         /\ \A p \in DOMAIN memo' \ DOMAIN memo : \E s \in specs : p = s.center
<1> DEFINE request == CentersById(specs)
<1>1. /\ Request(request)
      /\ \A s \in specs : s.id \in DOMAIN request /\ request[s.id] = s.center
      /\ \A i \in DOMAIN request : \E s \in specs : request[i] = s.center
  BY CentersFacts
<1> HIDE DEF request
<1>2. /\ config' = config
      /\ spent' \in Nat /\ spent <= spent' /\ spent' <= config.maxEvaluations
      /\ IsFiniteSet(DOMAIN memo')
      /\ DOMAIN memo' = DOMAIN memo \cup {request[i] : i \in DOMAIN request}
      /\ \A p \in DOMAIN memo : memo'[p] = memo[p]
      /\ \A p \in DOMAIN memo' \ DOMAIN memo : memo'[p] \in ScoresAt(p) \/ memo'[p] = Infinity
  <2>1. Evaluate(request, Infinity) /\ BudgetSound /\ IsFiniteSet(DOMAIN memo)
    BY DEF KnownSound, request
  <2>2. /\ config' = config
        /\ spent' \in Nat /\ spent <= spent' /\ spent' <= config.maxEvaluations
        /\ IsFiniteSet(DOMAIN memo')
        /\ DOMAIN memo' = DOMAIN memo \cup {request[i] : i \in DOMAIN request}
        /\ \A p \in DOMAIN memo : memo'[p] = memo[p]
        /\ \A p \in DOMAIN memo' \ DOMAIN memo :
             memo'[p] \in ScoresAt(p) \/ (memo'[p] = Infinity /\ spent' = config.maxEvaluations)
    BY <1>1, <2>1, EvaluateFacts
  <2>3. QED
    BY <2>2
<1>3. \A p \in DOMAIN memo' \ DOMAIN memo : \E s \in specs : p = s.center
  BY <1>1, <1>2
<1>4. \A s \in specs : s.center \in [Axes -> 1..(Box - 1)]
  BY ShapedInBox DEF Specs
<1>5. ASSUME NEW p \in DOMAIN memo'
      PROVE  p \in [Axes -> 1..(Box - 1)] /\ memo'[p] \in 0..Infinity
  <2>1. CASE p \in DOMAIN memo
    BY <1>2, <2>1 DEF KnownSound
  <2>2. CASE p \notin DOMAIN memo
    <3>1. p \in [Axes -> 1..(Box - 1)]
      BY <1>3, <1>4, <1>5, <2>2
    <3>2. ScoresAt(p) \subseteq 0..Infinity /\ Infinity \in Nat
      BY <3>1, DirectAssumption, PartitionAssumption
    <3>3. QED
      BY <1>2, <2>2, <3>1, <3>2
  <2>3. QED
    BY <2>1, <2>2
<1>6. \A s \in specs : s.center \in DOMAIN memo'
  BY <1>1, <1>2
<1>7. KnownSound'
  BY <1>2, <1>5 DEF KnownSound, BudgetSound
<1>8. QED
  BY <1>2, <1>3, <1>5, <1>6, <1>7

\* What is left of the rectangles is as well formed.
LEMMA PartitionSubset ==
  ASSUME NEW rects, Partition(rects), NEW some \in SUBSET rects
  PROVE  Partition(some)
BY FS_Subset DEF Partition

\* Rectangles with new ids join those that stay.
LEMMA PartitionUnion ==
  ASSUME NEW old, Partition(old), NEW new, Partition(new), NEW next \in Nat,
         \A r \in old : r.id < next, \A r \in new : next <= r.id
  PROVE  Partition(old \cup new)
<1>1. IsFiniteSet(old \cup new)
  BY FS_Union DEF Partition
<1>2. ASSUME NEW r \in old \cup new, NEW s \in old \cup new, r.id = s.id
      PROVE  r = s
  <2>1. r.id \in Nat /\ s.id \in Nat
    BY DEF Partition
  <2>2. (r \in old /\ s \in old) \/ (r \in new /\ s \in new)
    BY <1>2, <2>1
  <2>3. QED
    BY <1>2, <2>2 DEF Partition
<1>3. QED
  BY <1>1, <1>2 DEF Partition

\* Division in general: some live rectangles make room for evaluated ones, one of which
\* has the centre of each.  It keeps the partition and never loses the best score.
LEMMA DivisionKeeps ==
  ASSUME KnownSound, LiveSound,
         NEW divided \in SUBSET rectangles,
         NEW specs, Specs(specs, nextRectId), Cardinality(specs) \in Nat,
         \A r \in divided : \E s \in specs : s.center = r.center,
         Evaluate(CentersById(specs), Infinity),
         rectangles' = (rectangles \ divided) \cup Scored(specs, memo'),
         nextRectId' = nextRectId + Cardinality(specs),
         Len(diagnostics) \in Nat, Len(diagnostics)' \in Nat, Len(diagnostics) <= Len(diagnostics)',
         \A s \in specs : \A d \in Axes : s.level[d] <= Len(diagnostics)'
  PROVE  /\ KnownSound' /\ config' = config /\ LiveSound'
         /\ \A p \in DOMAIN memo : p \in DOMAIN memo' /\ memo'[p] = memo[p]
         /\ \A s \in specs : s.center \in DOMAIN memo'
<1> DEFINE new == Scored(specs, memo')
<1>1. /\ KnownSound' /\ config' = config
      /\ \A p \in DOMAIN memo : p \in DOMAIN memo' /\ memo'[p] = memo[p]
      /\ \A s \in specs : s.center \in DOMAIN memo' /\ memo'[s.center] \in 0..Infinity
      /\ \A p \in DOMAIN memo' \ DOMAIN memo : \E s \in specs : p = s.center
  BY SpecsEvaluated
<1>2. /\ Partition(new)
      /\ \A s \in specs : \E r \in new : r.id = s.id /\ r.center = s.center /\ r.level = s.level
      /\ \A r \in new :
           /\ r.score = memo'[r.center]
           /\ \E s \in specs : r.id = s.id /\ r.center = s.center /\ r.level = s.level
  BY <1>1, ScoredFacts
<1> HIDE DEF new
<1>3. rectangles' = (rectangles \ divided) \cup new
  BY DEF new
<1>4. nextRectId \in Nat /\ nextRectId' \in Nat /\ nextRectId <= nextRectId'
  BY DEF LiveSound
<1>5. \A r \in new : nextRectId <= r.id /\ r.id < nextRectId'
  BY <1>2, <1>4 DEF Specs
<1>6. Partition(rectangles')
  <2>1. Partition(rectangles \ divided)
    BY PartitionSubset DEF LiveSound
  <2>2. \A r \in rectangles \ divided : r.id < nextRectId
    BY DEF LiveSound
  <2>3. QED
    BY <1>2, <1>3, <1>4, <1>5, <2>1, <2>2, PartitionUnion
<1>7. ASSUME NEW r \in rectangles'
      PROVE  /\ r.id < nextRectId'
             /\ r.center \in DOMAIN memo' /\ r.score = memo'[r.center]
             /\ \A d \in Axes : r.level[d] <= Len(diagnostics)'
  <2>1. CASE r \in new
    BY <1>1, <1>2, <1>5, <2>1
  <2>2. CASE r \in rectangles
    <3>1. r.id \in Nat /\ \A d \in Axes : r.level[d] \in Nat
      BY <2>2 DEF LiveSound, Partition, Shaped, Levels
    <3>2. QED
      BY <1>1, <1>4, <2>2, <3>1 DEF LiveSound
  <2>3. QED
    BY <1>3, <1>7, <2>1, <2>2
<1>8. ASSUME NEW p \in DOMAIN memo'
      PROVE  \E r \in rectangles' : r.score <= memo'[p]
  <2>1. ASSUME NEW s \in specs
        PROVE  \E r \in rectangles' : r.score = memo'[s.center]
    <3>1. PICK r \in new : r.center = s.center
      BY <1>2
    <3>2. QED
      BY <1>2, <1>3, <3>1
  <2>2. memo'[p] \in Int
    BY <1>1, PartitionAssumption DEF KnownSound
  <2>3. CASE p \in DOMAIN memo
    <3>1. PICK r \in rectangles : r.score <= memo[p]
      BY <2>3 DEF LiveSound, Covered
    <3>2. r.score = memo'[r.center] /\ memo'[p] = memo[p]
      BY <1>1, <2>3 DEF LiveSound
    <3>3. CASE r \in divided
      <4>1. PICK s \in specs : s.center = r.center
        BY <3>3
      <4>2. PICK t \in rectangles' : t.score = memo'[s.center]
        BY <2>1
      <4>3. QED
        BY <3>1, <3>2, <4>1, <4>2
    <3>4. CASE r \notin divided
      BY <1>3, <3>1, <3>2, <3>4
    <3>5. QED
      BY <3>3, <3>4
  <2>4. CASE p \notin DOMAIN memo
    <3>1. PICK s \in specs : p = s.center
      BY <1>1, <1>8, <2>4
    <3>2. PICK r \in rectangles' : r.score = memo'[p]
      BY <2>1, <3>1
    <3>3. r.score <= memo'[p]
      BY <2>2, <3>2
    <3>4. QED
      BY <3>3
  <2>5. QED
    BY <2>3, <2>4
<1>9. LiveSound'
  BY <1>4, <1>6, <1>7, <1>8 DEF LiveSound, Covered
<1>10. QED
  BY <1>1, <1>9

\* What the passes know is untouched by a step of the global stage.
LEMMA PassesUntouched ==
  ASSUME StagesSound, UNCHANGED <<solved, winner, refinementVars>>,
         stage \in {"start", "running"}, stage' \in {"running", "finished", "failed"},
         reason' \in {"none", "max_evaluations", "min_rectangle_half_size_reached",
                      "stall_tolerance_reached", "max_iterations"}
  PROVE  StagesSound' /\ RefiningSound'
BY DEF StagesSound, PassesSound, SolvedSound, SolvedBeaten, StartOfPass, refinementVars, RefiningSound

\* The seeding of the box keeps the invariant.
LEMMA SeedBoxKeeps ==
  ASSUME DirectInv, SeedBox
  PROVE  DirectInv'
<1>1. /\ stage = "start" /\ diagnostics' = diagnostics /\ reason' = reason
      /\ UNCHANGED <<solved, winner, refinementVars>>
      /\ Evaluate(CentersById(SeedRectangles), Infinity)
      /\ rectangles' = Scored(SeedRectangles, memo')
      /\ nextRectId' = Cardinality(Seeds) /\ incumbentId' = BestOf(rectangles').id
      /\ stage' = IF BestFound(memo') = Infinity THEN "failed" ELSE "running"
  BY DEF SeedBox
<1>2. /\ KnownSound /\ LiveSound /\ StagesSound
      /\ DOMAIN memo = {} /\ rectangles = {} /\ nextRectId = 0 /\ diagnostics = <<>>
  BY <1>1 DEF DirectInv, IncumbentSound
<1>3. /\ Len(diagnostics) = 0 /\ Len(diagnostics)' = 0
      /\ \A s \in SeedRectangles : \A d \in Axes : s.level[d] <= Len(diagnostics)'
  BY <1>1, <1>2, SeedsFacts
<1>4. /\ rectangles' = (rectangles \ {}) \cup Scored(SeedRectangles, memo')
      /\ nextRectId' = nextRectId + Cardinality(SeedRectangles)
      /\ Specs(SeedRectangles, nextRectId) /\ Cardinality(SeedRectangles) \in Nat
  BY <1>1, <1>2, SeedsFacts
<1>5. /\ KnownSound' /\ config' = config /\ LiveSound'
  <2>1. /\ {} \in SUBSET rectangles
        /\ \A r \in {} : \E s \in SeedRectangles : s.center = r.center
        /\ Len(diagnostics) \in Nat /\ Len(diagnostics)' \in Nat
        /\ Len(diagnostics) <= Len(diagnostics)'
    BY <1>3
  <2>2. QED
    BY <1>1, <1>2, <1>3, <1>4, <2>1, DivisionKeeps
<1>6. rectangles' # {}
  BY <1>1, SeedsFacts DEF Scored
<1>7. BestFound(memo') = BestOf(rectangles').score /\ BestFound(memo') \in 0..Infinity
  BY <1>5, <1>6, BestFoundIsIncumbents DEF KnownSound, LiveSound, Covered
<1>8. IncumbentSound'
  BY <1>1, <1>6, <1>7, PartitionAssumption DEF IncumbentSound
<1>9. HistorySound'
  <2>1. config.maxIterations \in Nat \ {0}
    BY <1>2, ConfigFacts, AxesFacts DEF KnownSound
  <2>2. QED
    BY <1>1, <1>2, <1>3, <1>5, <2>1 DEF HistorySound
<1>10. StagesSound' /\ RefiningSound'
  BY <1>1, <1>2, PassesUntouched DEF StagesSound
<1>11. ReasonTruthful'
  BY <1>1 DEF ReasonTruthful
<1>12. QED
  BY <1>5, <1>8, <1>9, <1>10, <1>11 DEF DirectInv

\* The search stops because the budget is spent.
LEMMA StopKeeps ==
  ASSUME DirectInv, StopBeforeDividing
  PROVE  DirectInv'
<1>1. /\ stage = "running" /\ BudgetSpent /\ stage' = "finished" /\ reason' = "max_evaluations"
      /\ UNCHANGED <<config, memo, spent, rectangles, nextRectId, incumbentId, diagnostics>>
      /\ UNCHANGED <<solved, winner, refinementVars>>
  BY DEF StopBeforeDividing, objectiveVars
<1>2. KnownSound' /\ LiveSound' /\ HistorySound' /\ IncumbentSound'
  BY <1>1 DEF DirectInv, KnownSound, BudgetSound, LiveSound, Covered, HistorySound, BestFound, IncumbentSound
<1>3. StagesSound' /\ RefiningSound'
  BY <1>1, PassesUntouched DEF DirectInv
<1>4. spent = config.maxEvaluations
  BY <1>1 DEF DirectInv, KnownSound, BudgetSound, BudgetSpent
<1>5. ReasonTruthful'
  BY <1>1, <1>4 DEF ReasonTruthful
<1>6. QED
  BY <1>2, <1>3, <1>5 DEF DirectInv

\* The best surface the evaluator knows.
LEMMA StartRefinementKeeps ==
  ASSUME DirectInv, StartRefinement
  PROVE  DirectInv'
<1> DEFINE valid == {q \in DOMAIN memo : memo[q] < Infinity}
           answer(p) == [surface |-> KeyOf(p), fos |-> memo[p]]
           found == {answer(p) : p \in valid}
<1>1. /\ stage = "finished" /\ winner' = DirectIncumbent /\ stage' = "refining"
      /\ UNCHANGED <<config, memo, spent, rectangles, nextRectId, incumbentId, diagnostics, reason>>
      /\ UNCHANGED <<solved, running, passesLeft, batches>>
  BY DEF StartRefinement, objectiveVars, refinementVars
<1>2. KnownSound' /\ LiveSound' /\ HistorySound' /\ IncumbentSound' /\ ReasonTruthful'
  BY <1>1 DEF DirectInv, KnownSound, BudgetSound, LiveSound, Covered, HistorySound, BestFound,
              IncumbentSound, ReasonTruthful
<1>3. \A p \in DOMAIN memo : answer(p) \in Answers
  BY DirectAssumption, PartitionAssumption DEF DirectInv, KnownSound, Answers
<1>4. IsFiniteSet(found)
  <2> DEFINE f == [p \in valid |-> answer(p)]
  <2>1. IsFiniteSet(valid)
    BY FS_Subset DEF DirectInv, KnownSound
  <2>2. DOMAIN f = valid /\ found = {f[p] : p \in valid}
    OBVIOUS
  <2> HIDE DEF f, found, valid
  <2>3. QED
    BY <2>1, <2>2, ImageFinite
<1>5. found # {}
  <2>1. /\ BestOf(rectangles) \in rectangles /\ BestOf(rectangles).score < Infinity
    BY <1>1, BestOfFacts DEF DirectInv, LiveSound, IncumbentSound
  <2>2. BestOf(rectangles).center \in valid
    BY <2>1 DEF DirectInv, LiveSound
  <2>3. QED
    BY <2>2
<1>6. found \subseteq Answers
  BY <1>3
<1>7. DirectIncumbent = BestSurface(found)
  BY DEF DirectIncumbent
<1>8. winner' \in Answers /\ \A other \in found : other = winner' \/ BetterSurface(winner', other)
  BY <1>1, <1>4, <1>5, <1>6, <1>7, BestSurfaceFacts
<1>9. /\ DOMAIN solved = {} /\ batches = 0 /\ PassesSound
  BY <1>1 DEF DirectInv, StagesSound
<1>10. StartOfPass' = winner'
  BY <1>1, <1>9 DEF StartOfPass
<1>11. StagesSound'
  BY <1>1, <1>8, <1>9 DEF DirectInv, StagesSound, PassesSound, SolvedSound, SolvedBeaten
<1>12. ASSUME NEW p \in DOMAIN memo, memo[p] # Infinity
       PROVE  answer(p) = winner' \/ BetterSurface(winner', answer(p))
  <2>1. p \in valid
    <3>1. memo[p] \in Int /\ memo[p] <= Infinity /\ Infinity \in Int
      BY PartitionAssumption DEF DirectInv, KnownSound
    <3>2. memo[p] < Infinity
      BY <1>12, <3>1
    <3>3. QED
      BY <3>2
  <2>2. answer(p) \in found
    BY <2>1
  <2>3. QED
    BY <1>8, <2>2
<1>13. RefiningSound'
  BY <1>1, <1>10, <1>12 DEF RefiningSound, KnownBeaten
<1>14. QED
  BY <1>2, <1>11, <1>13 DEF DirectInv

\* A step of a pass only improves on the best surface.
LEMMA RefineWinnerKeeps ==
  ASSUME DirectInv, RefineDirectWinner
  PROVE  DirectInv'
<1>1. /\ stage = "refining" /\ Refine
      /\ stage' = IF passesLeft' = <<>> THEN "done" ELSE stage
      /\ UNCHANGED <<config, memo, spent, rectangles, nextRectId, incumbentId, diagnostics, reason>>
  BY DEF RefineDirectWinner, RefineWinner, objectiveVars
<1>2. KnownSound' /\ LiveSound' /\ HistorySound' /\ IncumbentSound' /\ ReasonTruthful'
  BY <1>1 DEF DirectInv, KnownSound, BudgetSound, LiveSound, Covered, HistorySound, BestFound,
              IncumbentSound, ReasonTruthful
<1>3. /\ PassesSound' /\ SolvedBeaten(StartOfPass)'
      /\ StartOfPass' = StartOfPass \/ BetterSurface(StartOfPass', StartOfPass)
  BY <1>1, RefineKeeps DEF DirectInv, StagesSound
<1>4. stage' = "done" => batches' = 0
  BY <1>1 DEF Refine, SweepBatch, EndPass
<1>5. StagesSound'
  BY <1>1, <1>3, <1>4 DEF DirectInv, StagesSound
<1>6. /\ StartOfPass \in Answers /\ StartOfPass' \in Answers
  BY <1>3 DEF DirectInv, StagesSound, PassesSound, StartOfPass
<1>7. ASSUME NEW p \in DOMAIN memo, memo[p] # Infinity
      PROVE  LET found == [surface |-> KeyOf(p), fos |-> memo[p]]
             IN  found = StartOfPass' \/ BetterSurface(StartOfPass', found)
  <2> DEFINE found == [surface |-> KeyOf(p), fos |-> memo[p]]
  <2>1. found = StartOfPass \/ BetterSurface(StartOfPass, found)
    BY <1>1, <1>7 DEF DirectInv, RefiningSound, KnownBeaten
  <2>2. found \in Answers
    BY DirectAssumption, PartitionAssumption DEF DirectInv, KnownSound, Answers
  <2>3. QED
    BY <1>3, <1>6, <2>1, <2>2, BetterTransitive
<1>8. RefiningSound'
  BY <1>1, <1>7 DEF RefiningSound, KnownBeaten
<1>9. QED
  BY <1>2, <1>5, <1>8 DEF DirectInv

\* What an iteration selects: live and valid rectangles that can still be divided.
LEMMA IterationSelects ==
  ASSUME DirectInv, stage = "running",
         NEW selected, selected = SelectPotentiallyOptimal(rectangles, {incumbentId})
  PROVE  /\ selected \in SUBSET rectangles /\ Partition(selected) /\ Cardinality(selected) \in Nat
         /\ \A r \in selected : r.score # Infinity
         /\ \A r \in selected : r.level[SplitDimension(r)] < GridDepth
         /\ \A r \in selected : \A d \in Axes :
              [r.level EXCEPT ![SplitDimension(r)] = @ + 1][d] <= Len(diagnostics) + 1
<1>1. /\ Partition(rectangles) /\ rectangles # {} /\ incumbentId = BestOf(rectangles).id
      /\ BestOf(rectangles).score < Infinity
  BY DEF DirectInv, LiveSound, IncumbentSound
<1>2. /\ selected \in SUBSET rectangles /\ IsFiniteSet(selected)
      /\ \A r \in selected : r.score # Infinity
  BY <1>1, SelectionFacts
<1>3. Partition(selected) /\ Cardinality(selected) \in Nat
  BY <1>1, <1>2, PartitionSubset, FS_CardinalityType
<1>4. Len(diagnostics) \in Nat /\ Len(diagnostics) < GridDepth /\ GridDepth \in Nat
  <2>1. /\ Len(diagnostics) \in Nat /\ Len(diagnostics) < config.maxIterations
        /\ config.maxIterations \in 1..GridDepth
    BY ConfigFacts DEF DirectInv, HistorySound, KnownSound
  <2>2. QED
    BY <2>1, AxesFacts
<1>5. ASSUME NEW r \in selected
      PROVE  /\ r.level[SplitDimension(r)] < GridDepth
             /\ \A d \in Axes : [r.level EXCEPT ![SplitDimension(r)] = @ + 1][d] <= Len(diagnostics) + 1
  <2> r \in rectangles
    BY <1>2
  <2> Shaped(r)
    BY <1>1 DEF Partition
  <2>1. r.level \in [Axes -> Nat] /\ \A d \in Axes : r.level[d] <= Len(diagnostics)
    <3>1. r.level \in [Axes -> Nat]
      BY DEF Shaped, Levels
    <3>2. \A d \in Axes : r.level[d] <= Len(diagnostics)
      BY DEF DirectInv, LiveSound
    <3>3. QED
      BY <3>1, <3>2
  <2>2. SplitDimension(r) \in Axes
    BY <2>1, SplitIsLongest
  <2>3. r.level[SplitDimension(r)] < GridDepth
    BY <1>4, <2>1, <2>2
  <2>4. ASSUME NEW d \in Axes
        PROVE  [r.level EXCEPT ![SplitDimension(r)] = @ + 1][d] <= Len(diagnostics) + 1
    <3>1. r.level[d] \in Nat /\ r.level[d] <= Len(diagnostics)
      BY <2>1
    <3>2. QED
      BY <1>4, <2>1, <2>2, <3>1
  <2>5. QED
    BY <2>3, <2>4
<1>6. QED
  BY <1>2, <1>3, <1>5

\* An iteration: the divided rectangles are replaced by their children.
LEMMA IterateKeeps ==
  ASSUME DirectInv, Iterate
  PROVE  DirectInv'
<1> DEFINE selected == SelectPotentiallyOptimal(rectangles, {incumbentId})
           children == Children(selected, nextRectId)
           record == [totalEvaluations |-> spent', potentiallyOptimal |-> Cardinality(selected),
                      incumbentFos |-> BestFound(memo'),
                      incumbentSize |-> SizeMetric(BestOf(rectangles'))]
<1>1. /\ stage = "running" /\ ~BudgetSpent
      /\ Evaluate(CentersById(children), Infinity)
      /\ rectangles' = (rectangles \ selected) \cup Scored(children, memo')
      /\ nextRectId' = nextRectId + Cardinality(children)
      /\ incumbentId' = BestOf(rectangles').id
      /\ diagnostics' = Append(diagnostics, record)
      /\ reason' = TerminationReason(spent', diagnostics'[Len(diagnostics')].incumbentSize, diagnostics')
      /\ stage' = IF reason' = "none" THEN "running" ELSE "finished"
      /\ UNCHANGED <<solved, winner, refinementVars>>
  BY DEF Iterate
<1>2. /\ selected \in SUBSET rectangles /\ Partition(selected) /\ Cardinality(selected) \in Nat
      /\ \A r \in selected : r.level[SplitDimension(r)] < GridDepth
      /\ \A r \in selected : \A d \in Axes :
           [r.level EXCEPT ![SplitDimension(r)] = @ + 1][d] <= Len(diagnostics) + 1
  BY <1>1, IterationSelects
<1> HIDE DEF selected
<1>3. /\ KnownSound /\ LiveSound /\ HistorySound /\ IncumbentSound /\ StagesSound
      /\ nextRectId \in Nat /\ rectangles # {}
  BY <1>1 DEF DirectInv, LiveSound, IncumbentSound
<1>4. /\ Specs(children, nextRectId) /\ Cardinality(children) \in Nat
      /\ \A r \in selected : \E s \in children : s.center = r.center
      /\ \A s \in children : \E r \in selected :
           s.level = [r.level EXCEPT ![SplitDimension(r)] = @ + 1]
  BY <1>2, <1>3, ChildrenFacts
<1> HIDE DEF children, record
<1>5. /\ Len(diagnostics) \in Nat /\ Len(diagnostics)' = Len(diagnostics) + 1
      /\ Len(diagnostics) < config.maxIterations
      /\ diagnostics'[Len(diagnostics')] = record
      /\ \A i \in 1..Len(diagnostics) : diagnostics'[i] = diagnostics[i]
  BY <1>1, <1>3 DEF HistorySound
<1>6. \A s \in children : \A d \in Axes : s.level[d] <= Len(diagnostics)'
  <2>1. ASSUME NEW s \in children, NEW d \in Axes
        PROVE  s.level[d] <= Len(diagnostics)'
    <3>1. PICK r \in selected : s.level = [r.level EXCEPT ![SplitDimension(r)] = @ + 1]
      BY <1>4
    <3>2. [r.level EXCEPT ![SplitDimension(r)] = @ + 1][d] <= Len(diagnostics) + 1
      BY <1>2
    <3>3. QED
      BY <1>5, <3>1, <3>2
  <2>2. QED
    BY <2>1
<1>7. /\ KnownSound' /\ config' = config /\ LiveSound'
      /\ \A p \in DOMAIN memo : p \in DOMAIN memo' /\ memo'[p] = memo[p]
  <2>1. Len(diagnostics) <= Len(diagnostics)' /\ Len(diagnostics)' \in Nat
    BY <1>5
  <2>2. QED
    BY <1>1, <1>2, <1>3, <1>4, <1>5, <1>6, <2>1, DivisionKeeps
<1>8. /\ BestOf(rectangles) \in rectangles /\ BestOf(rectangles).score < Infinity
      /\ BestOf(rectangles).center \in DOMAIN memo
      /\ BestOf(rectangles).score = memo[BestOf(rectangles).center]
  BY <1>1, <1>3, BestOfFacts DEF LiveSound, IncumbentSound
<1>9. rectangles' # {}
  BY <1>7, <1>8 DEF LiveSound, Covered
<1>10. /\ BestFound(memo') = BestOf(rectangles').score /\ BestOf(rectangles') \in rectangles'
       /\ BestFound(memo') \in 0..Infinity
       /\ \A p \in DOMAIN memo' : BestFound(memo') <= memo'[p]
  BY <1>7, <1>9, BestFoundIsIncumbents DEF KnownSound, LiveSound, Covered
<1>11. BestOf(rectangles').score < Infinity
  <2>1. BestFound(memo') <= BestOf(rectangles).score
    BY <1>7, <1>8, <1>10
  <2>2. BestOf(rectangles).score \in Int /\ BestFound(memo') \in Int /\ Infinity \in Int
    BY <1>3, <1>8, <1>10, PartitionAssumption DEF LiveSound, Partition
  <2>3. QED
    BY <1>8, <1>10, <2>1, <2>2
<1>12. IncumbentSound'
  BY <1>1, <1>9, <1>11 DEF IncumbentSound
<1>13. record \in Records /\ record.incumbentFos = BestFound(memo')
  <2>1. SizeMetric(BestOf(rectangles')) \in Nat
    BY <1>7, <1>10, SizeType DEF LiveSound, Partition, Shaped
  <2>2. BestFound(memo') \in Nat /\ spent' \in Nat
    BY <1>7, <1>10, PartitionAssumption DEF KnownSound, BudgetSound
  <2>3. QED
    BY <1>2, <2>1, <2>2 DEF record, Records
<1>14. diagnostics' \in Seq(Records) /\ Len(diagnostics') \in Nat
  BY <1>1, <1>3, <1>13 DEF HistorySound
<1>15. reason' = "none" => Len(diagnostics') # config.maxIterations
  BY <1>1 DEF TerminationReason
<1>16. HistorySound'
  <2>1. config.maxIterations \in Int
    BY <1>3, ConfigFacts, AxesFacts DEF KnownSound
  <2>2. Len(diagnostics)' <= config.maxIterations
    BY <1>5, <2>1
  <2>3. stage' = "running" => Len(diagnostics)' < config.maxIterations
    BY <1>1, <1>5, <1>15, <2>1, <2>2
  <2>4. QED
    BY <1>5, <1>7, <1>13, <1>14, <2>2, <2>3 DEF HistorySound
<1>17. reason' \in {"none", "max_evaluations", "min_rectangle_half_size_reached",
                    "stall_tolerance_reached", "max_iterations"}
  BY <1>1 DEF TerminationReason
<1>18. StagesSound' /\ RefiningSound'
  BY <1>1, <1>3, <1>17, PassesUntouched
<1>19. ASSUME stage' = "finished"
       PROVE  /\ reason' = "max_evaluations" <=> spent' = config.maxEvaluations
              /\ reason' = "max_iterations" => Len(diagnostics') = config.maxIterations
              /\ reason' = "stall_tolerance_reached" =>
                   \E i \in DOMAIN diagnostics' :
                     /\ Len(diagnostics') - i = config.stallIterations
                     /\ diagnostics'[i].incumbentFos < BestFound(memo') + config.minImprovement
  <2>1. /\ spent' \in Nat /\ config.maxEvaluations \in Nat /\ spent' <= config.maxEvaluations
    BY <1>7 DEF KnownSound, BudgetSound
  <2>2. reason' = "max_evaluations" <=> spent' = config.maxEvaluations
    BY <1>1, <1>19, <2>1 DEF TerminationReason
  <2>3. reason' = "max_iterations" => Len(diagnostics') = config.maxIterations
    BY <1>1 DEF TerminationReason
  <2>4. ASSUME reason' = "stall_tolerance_reached"
        PROVE  \E i \in DOMAIN diagnostics' :
                 /\ Len(diagnostics') - i = config.stallIterations
                 /\ diagnostics'[i].incumbentFos < BestFound(memo') + config.minImprovement
    <3>1. Stalled(diagnostics')
      BY <1>1, <2>4 DEF TerminationReason
    <3>2. config.stallIterations \in Nat \ {0} /\ config.minImprovement \in Nat
      BY <1>3, ConfigFacts DEF KnownSound
    <3> DEFINE i == Len(diagnostics') - config.stallIterations
    <3>3. i \in DOMAIN diagnostics' /\ Len(diagnostics') - i = config.stallIterations
      BY <1>14, <3>1, <3>2 DEF Stalled
    <3>4. diagnostics'[i].incumbentFos \in Nat
      <4>1. diagnostics'[i] \in Records
        BY <1>14, <3>3
      <4>2. QED
        BY <4>1 DEF Records
    <3>5. diagnostics'[Len(diagnostics')].incumbentFos = BestFound(memo') /\ BestFound(memo') \in Int
      BY <1>5, <1>10, <1>13, PartitionAssumption
    <3>6. diagnostics'[i].incumbentFos - diagnostics'[Len(diagnostics')].incumbentFos < config.minImprovement
      BY <3>1 DEF Stalled
    <3>7. diagnostics'[i].incumbentFos < BestFound(memo') + config.minImprovement
      BY <3>2, <3>4, <3>5, <3>6
    <3>8. QED
      BY <3>3, <3>7
  <2>5. QED
    BY <2>2, <2>3, <2>4
<1>20. ReasonTruthful'
  BY <1>1, <1>7, <1>19 DEF ReasonTruthful
<1>21. QED
  BY <1>7, <1>12, <1>16, <1>18, <1>20 DEF DirectInv

\* Every step of DIRECT keeps the invariant.
LEMMA DirectStepKeeps ==
  ASSUME DirectInv, [DirectNext]_directVars
  PROVE  DirectInv'
<1>1. CASE SeedBox
  BY <1>1, SeedBoxKeeps
<1>2. CASE StopBeforeDividing
  BY <1>2, StopKeeps
<1>3. CASE Iterate
  BY <1>3, IterateKeeps
<1>4. CASE StartRefinement
  BY <1>4, StartRefinementKeeps
<1>5. CASE RefineDirectWinner
  BY <1>5, RefineWinnerKeeps
<1>6. CASE UNCHANGED directVars
  BY <1>6 DEF directVars, objectiveVars, directSearchVars, refinementVars, DirectInv, KnownSound, BudgetSound,
              LiveSound, Covered, IncumbentSound, HistorySound, BestFound, StagesSound, PassesSound, SolvedSound,
              SolvedBeaten, StartOfPass, RefiningSound, KnownBeaten, ReasonTruthful
<1>7. QED
  BY <1>1, <1>2, <1>3, <1>4, <1>5, <1>6 DEF DirectNext

\* So it holds throughout.
LEMMA DirectInvariant == DirectSpec => []DirectInv
<1>1. DirectInv /\ [DirectNext]_directVars => DirectInv'
  BY DirectStepKeeps
<1>2. QED
  BY <1>1, DirectStarts, PTL DEF DirectSpec

-----------------------------------------------------------------------------
(* DIRECT: what it promises                                                *)

\* The reported reason is the true one: _termination_reason() of direct_global.py says
\* max_evaluations exactly when the budget is spent.
THEOREM DirectReasonTruthful == DirectSpec => []ReasonTruthful
<1>1. DirectInv => ReasonTruthful
  BY DEF DirectInv
<1>2. QED
  BY <1>1, DirectInvariant, PTL

\* No rectangle degenerates: _split_dimension() takes a longest side, so that the sides of
\* a rectangle of run_direct_global_search() differ by at most one trisection.
THEOREM DirectAspectBounded == DirectSpec => []AspectBounded
<1>1. DirectInv => AspectBounded
  BY DEF DirectInv, LiveSound, Partition, Shaped, AspectBounded
<1>2. QED
  BY <1>1, DirectInvariant, PTL

\* The best point is never lost: whatever run_direct_global_search() divides, the incumbent
\* rectangle has the best score of the evaluator, and the surface returned is at least as
\* good as every point and every surface of the passes.
THEOREM DirectIncumbentKept == DirectSpec => []IncumbentKept
<1>1. ASSUME DirectInv
      PROVE  IncumbentKept
  <2>1. ASSUME stage \in {"running", "finished"}
        PROVE  /\ RectangleOf(incumbentId).score = BestFound(memo)
               /\ RectangleOf(incumbentId).score < Infinity
    <3>1. /\ Partition(rectangles) /\ rectangles # {} /\ incumbentId = BestOf(rectangles).id
          /\ BestOf(rectangles).score < Infinity
      BY <1>1, <2>1 DEF DirectInv, LiveSound, IncumbentSound
    <3>2. BestFound(memo) = BestOf(rectangles).score /\ BestOf(rectangles) \in rectangles
      BY <1>1, <3>1, BestFoundIsIncumbents DEF DirectInv, LiveSound, KnownSound, Covered
    <3>3. RectangleOf(incumbentId) = BestOf(rectangles)
      BY <3>1, <3>2 DEF RectangleOf, Partition
    <3>4. QED
      BY <3>1, <3>2, <3>3
  <2>2. ASSUME stage = "done"
        PROVE  \A found \in {[surface |-> KeyOf(p), fos |-> memo[p]] : p \in DOMAIN memo}
                            \cup {[surface |-> s, fos |-> solved[s]] : s \in DOMAIN solved} :
                 found.fos >= Invalid \/ found = winner \/ BetterSurface(winner, found)
    <3>1. StartOfPass = winner /\ KnownBeaten(winner) /\ SolvedBeaten(winner)
      BY <1>1, <2>2 DEF DirectInv, StagesSound, RefiningSound, StartOfPass
    <3>2. Infinity \in Nat /\ Invalid = Infinity
      BY DirectAssumption, PartitionAssumption
    <3>3. ASSUME NEW p \in DOMAIN memo
          PROVE  LET found == [surface |-> KeyOf(p), fos |-> memo[p]]
                 IN  found.fos >= Invalid \/ found = winner \/ BetterSurface(winner, found)
      <4>1. memo[p] = Infinity \/ [surface |-> KeyOf(p), fos |-> memo[p]] = winner
            \/ BetterSurface(winner, [surface |-> KeyOf(p), fos |-> memo[p]])
        BY <3>1 DEF KnownBeaten
      <4>2. memo[p] = Infinity => memo[p] >= Invalid
        BY <3>2
      <4>3. QED
        BY <4>1, <4>2
    <3>4. ASSUME NEW s \in DOMAIN solved
          PROVE  LET found == [surface |-> s, fos |-> solved[s]]
                 IN  found.fos >= Invalid \/ found = winner \/ BetterSurface(winner, found)
      <4>1. solved[s] = Invalid \/ [surface |-> s, fos |-> solved[s]] = winner
            \/ BetterSurface(winner, [surface |-> s, fos |-> solved[s]])
        BY <3>1 DEF SolvedBeaten
      <4>2. solved[s] = Invalid => solved[s] >= Invalid
        BY <3>2
      <4>3. QED
        BY <4>1, <4>2
    <3>5. QED
      BY <3>3, <3>4
  <2>3. QED
    BY <2>1, <2>2 DEF IncumbentKept
<1>2. QED
  BY <1>1, DirectInvariant, PTL

\* select_potentially_optimal() never takes a rectangle whose centre is invalid while a
\* valid one lives, so that none is ever divided.
THEOREM DirectInvalidNeverDivided == DirectSpec => InvalidNeverDivided
<1>1. ASSUME DirectInv, [DirectNext]_directVars, NEW r \in rectangles, r.score = Infinity
      PROVE  r \in rectangles'
  <2>1. CASE SeedBox
    BY <1>1, <2>1 DEF SeedBox, DirectInv, IncumbentSound
  <2>2. CASE Iterate
    <3>1. stage = "running"
          /\ \E children : rectangles' = (rectangles \ SelectPotentiallyOptimal(rectangles, {incumbentId}))
                                         \cup Scored(children, memo')
      BY <2>2 DEF Iterate
    <3>2. r \notin SelectPotentiallyOptimal(rectangles, {incumbentId})
      BY <1>1, <3>1, IterationSelects
    <3>3. QED
      BY <3>1, <3>2
  <2>3. CASE StopBeforeDividing \/ StartRefinement \/ RefineDirectWinner \/ UNCHANGED directVars
    BY <1>1, <2>3 DEF StopBeforeDividing, StartRefinement, RefineDirectWinner, RefineWinner, directVars, directSearchVars
  <2>4. QED
    BY <1>1, <2>1, <2>2, <2>3 DEF DirectNext
<1>2. DirectInv /\ [DirectNext]_directVars => [\A r \in rectangles : r.score = Infinity => r \in rectangles']_directVars
  BY <1>1
<1>3. QED
  BY <1>2, DirectInvariant, PTL DEF DirectSpec, InvalidNeverDivided
-----------------------------------------------------------------------------
(* DIRECT: what an iteration costs                                         *)

\* A call evaluates its new points as far as the budget goes.
LEMMA EvaluationCost ==
  ASSUME NEW request, Request(request), BudgetSound, NEW refused,
         Evaluate(request, refused)
  PROVE  spent' = Min({config.maxEvaluations, spent + Cardinality(FirstMentions(request))})
<1> DEFINE new == FirstMentions(request)
           A == Affordable(request)
           costs == {config.maxEvaluations, spent + Cardinality(new)}
<1>1. spent' = spent + Cardinality(A) /\ Cardinality(A) \in Nat
  <2>1. spent' = spent + Cardinality(NewPoints(request))
    BY DEF Evaluate, Ask, SpentAfter
  <2>2. QED
    BY <2>1, NewPointsCounted
<1>2. A \in SUBSET new /\ IsFiniteSet(new) /\ Cardinality(new) \in Nat
  <2>1. new \in SUBSET DOMAIN request
    BY DEF FirstMentions
  <2>2. IsFiniteSet(new)
    BY <2>1, FS_Subset DEF Request
  <2>3. QED
    BY <2>2, FS_CardinalityType DEF Affordable
<1>3. Cardinality(A) <= Cardinality(new)
  BY <1>2, FS_Subset
<1>4. /\ Cardinality(A) <= config.maxEvaluations - spent
      /\ new \ A # {} => Cardinality(A) = config.maxEvaluations - spent
  BY AffordableBounded DEF Remaining
<1>5. spent \in Nat /\ config.maxEvaluations \in Nat
  BY DEF BudgetSound
<1>6. costs \subseteq Nat /\ costs # {}
  BY <1>2, <1>5
<1>7. spent' \in costs
  <2>1. CASE new \ A = {}
    <3>1. A = new
      BY <1>2, <2>1
    <3>2. QED
      BY <1>1, <3>1
  <2>2. CASE new \ A # {}
    BY <1>1, <1>4, <1>5, <2>2
  <2>3. QED
    BY <2>1, <2>2
<1>8. \A n \in costs : spent' <= n
  BY <1>1, <1>2, <1>3, <1>4, <1>5
<1> HIDE DEF costs
<1>9. spent' = Min(costs)
  BY <1>6, <1>7, <1>8, MinFacts
<1>10. QED
  BY <1>9 DEF costs

\* The new points of a batch of rectangles, when no two of those are at the same centre.
LEMMA NewCentersCounted ==
  ASSUME NEW specs, NEW next, Specs(specs, next), NEW fresh \in SUBSET specs,
         \A s \in specs : s \in fresh <=> s.center \notin DOMAIN memo,
         \A s, t \in fresh : s.center = t.center => s = t
  PROVE  Cardinality(FirstMentions(CentersById(specs))) = Cardinality(fresh)
<1> DEFINE request == CentersById(specs)
           new == FirstMentions(request)
           f == [s \in fresh |-> s.id]
<1>1. DOMAIN request = {s.id : s \in specs}
  BY DEF CentersById
<1>2. \A s \in specs : s.id \in DOMAIN request /\ request[s.id] = s.center
  BY CentersFacts
<1> HIDE DEF request
<1>3. ASSUME NEW s \in fresh
      PROVE  s.id \in new
  <2>1. s.id \in DOMAIN request /\ request[s.id] \notin DOMAIN memo
    BY <1>2
  <2>2. ASSUME NEW j \in DOMAIN request, j < s.id
        PROVE  request[j] # request[s.id]
    <3>1. PICK t \in specs : t.id = j
      BY <1>1
    <3>2. s \in specs /\ s.id \in Nat /\ t.id \in Nat
      BY <3>1 DEF Specs
    <3>3. s # t
      BY <2>2, <3>1, <3>2
    <3>4. t.center # s.center
      BY <3>3
    <3>5. QED
      BY <1>2, <3>1, <3>4
  <2>3. QED
    BY <2>1, <2>2 DEF FirstMentions
<1>4. ASSUME NEW i \in new
      PROVE  \E s \in fresh : f[s] = i
  <2>1. i \in DOMAIN request /\ request[i] \notin DOMAIN memo
    BY DEF FirstMentions
  <2>2. PICK s \in specs : s.id = i
    BY <1>1, <2>1
  <2>3. s \in fresh
    BY <1>2, <2>1, <2>2
  <2>4. QED
    BY <2>2, <2>3
<1>5. \A s, t \in fresh : f[s] = f[t] => s = t
  BY DEF Specs
<1>6. f \in [fresh -> new]
  BY <1>3
<1> HIDE DEF f, new
<1>7. f \in Bijection(fresh, new)
  BY <1>4, <1>5, <1>6 DEF Bijection, Injection, Surjection, IsInjective
<1>8. IsFiniteSet(fresh)
  BY FS_Subset DEF Specs
<1>9. Cardinality(new) = Cardinality(fresh)
  BY <1>7, <1>8, FS_Bijection DEF ExistsBijection
<1>10. QED
  BY <1>9 DEF new, request

\* Around its centre each rectangle has a box to itself, half as long as it is: the centres
\* are as far apart as those boxes.
Apart(r, s) ==
  \E d \in Axes :
    \/ 2 * (r.center[d] - s.center[d]) >= Half(r.level[d]) + Half(s.level[d])
    \/ 2 * (s.center[d] - r.center[d]) >= Half(r.level[d]) + Half(s.level[d])

\* It is symmetric, and the centres differ.
LEMMA ApartFacts ==
  ASSUME NEW r, NEW s, Shaped(r), Shaped(s), Apart(r, s)
  PROVE  Apart(s, r) /\ r.center # s.center
<1>1. PICK d \in Axes :
        \/ 2 * (r.center[d] - s.center[d]) >= Half(r.level[d]) + Half(s.level[d])
        \/ 2 * (s.center[d] - r.center[d]) >= Half(r.level[d]) + Half(s.level[d])
  BY DEF Apart
<1>2. /\ r.center[d] \in Int /\ s.center[d] \in Int
      /\ Half(r.level[d]) \in Nat \ {0} /\ Half(s.level[d]) \in Nat \ {0}
  BY HalfFacts DEF Shaped
<1>3. Apart(s, r)
  BY <1>1, <1>2 DEF Apart
<1>4. r.center[d] # s.center[d]
  BY <1>1, <1>2
<1>5. QED
  BY <1>3, <1>4

\* split_rectangle(): the boxes of the three children are the thirds of their parent's.
LEMMA ChildrenApart ==
  ASSUME NEW r, Shaped(r), r.level[SplitDimension(r)] < GridDepth,
         NEW selected, NEW next, NEW i \in ChildPositions
  PROVE  LET child == ChildOf(selected, next, r, i)
         IN  /\ \A s : Shaped(s) /\ Apart(r, s) => Apart(child, s)
             /\ \A j \in ChildPositions : i # j => Apart(child, ChildOf(selected, next, r, j))
<1> DEFINE split == SplitDimension(r)
           child(j) == ChildOf(selected, next, r, j)
           third == Delta(r)
<1>1. r.level \in [Axes -> Levels] /\ r.level \in [Axes -> Nat] /\ r.center \in [Axes -> Int]
  BY DEF Shaped, Levels
<1>2. split \in Axes
  BY <1>1, SplitIsLongest
<1>3. r.level[split] \in Levels /\ r.level[split] + 1 \in Levels
  <2>1. r.level[split] \in 0..GridDepth /\ r.level[split] < GridDepth /\ GridDepth \in Nat
    BY <1>1, <1>2, AxesFacts DEF Levels
  <2> HIDE DEF split
  <2>2. QED
    BY <2>1 DEF Levels
<1>4. third \in Nat \ {0} /\ Half(r.level[split]) = 3 * third /\ third = Half(r.level[split] + 1)
  BY <1>3, HalfFacts DEF Delta
<1>5. ASSUME NEW j \in ChildPositions
      PROVE  /\ child(j).center[split] = r.center[split] + (j - 1) * third
             /\ Half(child(j).level[split]) = third
             /\ \A d \in Axes \ {split} : child(j).center[d] = r.center[d] /\ child(j).level[d] = r.level[d]
  <2>1. /\ child(j).center = [r.center EXCEPT ![split] = @ + (j - 1) * third]
        /\ child(j).level = [r.level EXCEPT ![split] = @ + 1]
    BY DEF ChildOf
  <2> HIDE DEF split, third, child
  <2>2. QED
    BY <1>1, <1>2, <1>4, <2>1
<1>6. r.center[split] \in Int /\ \A j \in ChildPositions : j = 0 \/ j = 1 \/ j = 2
  BY <1>1, <1>2 DEF ChildPositions
<1> HIDE DEF split, third, child
<1>7. ASSUME NEW s, Shaped(s), Apart(r, s)
      PROVE  Apart(child(i), s)
  <2>1. PICK d \in Axes :
          \/ 2 * (r.center[d] - s.center[d]) >= Half(r.level[d]) + Half(s.level[d])
          \/ 2 * (s.center[d] - r.center[d]) >= Half(r.level[d]) + Half(s.level[d])
    BY <1>7 DEF Apart
  <2>2. s.center[d] \in Int /\ Half(s.level[d]) \in Nat
    BY <1>7, HalfFacts DEF Shaped
  <2>3. CASE d = split
    <3>1. \/ 2 * (child(i).center[d] - s.center[d]) >= Half(child(i).level[d]) + Half(s.level[d])
          \/ 2 * (s.center[d] - child(i).center[d]) >= Half(child(i).level[d]) + Half(s.level[d])
      <4>1. i = 0 \/ i = 1 \/ i = 2
        BY <1>6
      <4>2. child(i).center[d] = r.center[d] + (i - 1) * third /\ Half(child(i).level[d]) = third
        BY <1>5, <2>3
      <4>3. QED
        BY <1>4, <1>6, <2>1, <2>2, <2>3, <4>1, <4>2
    <3>2. QED
      BY <3>1 DEF Apart
  <2>4. CASE d # split
    BY <1>5, <2>1, <2>4 DEF Apart
  <2>5. QED
    BY <2>3, <2>4
<1>8. ASSUME NEW j \in ChildPositions, i # j
      PROVE  Apart(child(i), child(j))
  <2>1. /\ child(i).center[split] = r.center[split] + (i - 1) * third /\ Half(child(i).level[split]) = third
        /\ child(j).center[split] = r.center[split] + (j - 1) * third /\ Half(child(j).level[split]) = third
    BY <1>5
  <2>2. (i = 0 \/ i = 1 \/ i = 2) /\ (j = 0 \/ j = 1 \/ j = 2)
    BY <1>6
  <2>3. \/ 2 * (child(i).center[split] - child(j).center[split])
              >= Half(child(i).level[split]) + Half(child(j).level[split])
        \/ 2 * (child(j).center[split] - child(i).center[split])
              >= Half(child(i).level[split]) + Half(child(j).level[split])
    BY <1>4, <1>6, <1>8, <2>1, <2>2
  <2>4. QED
    BY <1>2, <2>3 DEF Apart
<1>9. QED
  BY <1>7, <1>8 DEF child

\* The seeds have centres apart.
LEMMA SeedsApart ==
  ASSUME NEW s \in SeedRectangles, NEW t \in SeedRectangles, s # t
  PROVE  Apart(s, t)
<1>1. PICK p \in Seeds, q \in Seeds :
        /\ s = [id |-> Cardinality({o \in Seeds : Before(o, p)}), center |-> p, level |-> [d \in Axes |-> 0]]
        /\ t = [id |-> Cardinality({o \in Seeds : Before(o, q)}), center |-> q, level |-> [d \in Axes |-> 0]]
  BY DEF SeedRectangles
<1>2. p # q
  BY <1>1
<1>3. p \in [Axes -> SeedCoordinates] /\ q \in [Axes -> SeedCoordinates]
  BY DEF Seeds
<1>4. PICK d \in Axes : p[d] # q[d]
  BY <1>2, <1>3
<1>5. 0 \in Levels
  BY AxesFacts DEF Levels
<1>6. Half(0) \in Nat \ {0} /\ Box = 6 * Half(0)
  BY <1>5, HalfFacts
<1>7. SeedCoordinates = {Half(0), 3 * Half(0), 5 * Half(0)}
  <2>1. Box \div 6 = Half(0) /\ Box \div 2 = 3 * Half(0)
    BY <1>6
  <2>2. QED
    BY <2>1 DEF SeedCoordinates
<1>8. /\ p[d] = Half(0) \/ p[d] = 3 * Half(0) \/ p[d] = 5 * Half(0)
      /\ q[d] = Half(0) \/ q[d] = 3 * Half(0) \/ q[d] = 5 * Half(0)
  BY <1>3, <1>7
<1>9. 2 * (p[d] - q[d]) >= Half(0) + Half(0) \/ 2 * (q[d] - p[d]) >= Half(0) + Half(0)
  BY <1>4, <1>6, <1>8
<1>10. s.center[d] = p[d] /\ t.center[d] = q[d] /\ s.level[d] = 0 /\ t.level[d] = 0
  BY <1>1
<1>11. QED
  BY <1>9, <1>10 DEF Apart

\* Every point asked for is the centre of a live rectangle, and no two of those are close.
Tiled ==
  /\ \A r, s \in rectangles : r = s \/ Apart(r, s)
  /\ \A p \in DOMAIN memo : \E r \in rectangles : p = r.center

\* Every specification becomes a rectangle with its centre.
LEMMA ScoredAt ==
  ASSUME NEW specs, NEW answers, NEW s \in specs
  PROVE  \E r \in Scored(specs, answers) : s.center = r.center
<1> DEFINE r == [id |-> s.id, center |-> s.center, level |-> s.level, score |-> answers[s.center]]
<1>1. r \in Scored(specs, answers) /\ s.center = r.center
  BY DEF Scored
<1>2. QED
  BY <1>1

\* So scored rectangles are apart as their specifications are.
LEMMA ApartScored ==
  ASSUME NEW specs, NEW answers, \A s, t \in specs : s = t \/ Apart(s, t)
  PROVE  \A r, q \in Scored(specs, answers) : r = q \/ Apart(r, q)
BY DEF Scored, Apart

\* The seeds: each of them is new.
LEMMA SeedBoxTiles ==
  ASSUME DirectInv, SeedBox, spent = 0
  PROVE  Tiled' /\ spent' = Min({config.maxEvaluations, Cardinality(Seeds)})
<1>1. /\ Evaluate(CentersById(SeedRectangles), Infinity) /\ rectangles' = Scored(SeedRectangles, memo')
      /\ KnownSound /\ DOMAIN memo = {}
  BY DEF SeedBox, DirectInv, IncumbentSound
<1>2. Specs(SeedRectangles, 0) /\ \A s \in SeedRectangles : Shaped(s)
  BY SeedsFacts DEF Specs
<1>3. \A s, t \in SeedRectangles : s = t \/ Apart(s, t)
  BY SeedsApart
<1>4. ASSUME NEW p \in DOMAIN memo'
      PROVE  \E r \in rectangles' : p = r.center
  <2>1. PICK s \in SeedRectangles : p = s.center
    BY <1>1, <1>2, SpecsEvaluated
  <2>2. QED
    BY <1>1, <2>1, ScoredAt
<1>5. Tiled'
  <2>1. \A r, q \in rectangles' : r = q \/ Apart(r, q)
    BY <1>1, <1>3, ApartScored
  <2>2. QED
    BY <1>4, <2>1 DEF Tiled, Apart
<1>6. \A s, t \in SeedRectangles : s.center = t.center => s = t
  BY <1>2, <1>3, ApartFacts
<1>7. Cardinality(FirstMentions(CentersById(SeedRectangles))) = Cardinality(Seeds)
  <2>1. Cardinality(FirstMentions(CentersById(SeedRectangles))) = Cardinality(SeedRectangles)
    BY <1>1, <1>2, <1>6, NewCentersCounted
  <2>2. QED
    BY <2>1, SeedsFacts
<1>8. Request(CentersById(SeedRectangles)) /\ BudgetSound
  BY <1>1, <1>2, CentersFacts DEF KnownSound
<1>9. spent' = Min({config.maxEvaluations, spent + Cardinality(Seeds)})
  BY <1>1, <1>7, <1>8, EvaluationCost
<1>10. spent + Cardinality(Seeds) = Cardinality(Seeds)
  BY SeedsFacts
<1>11. QED
  BY <1>5, <1>9, <1>10

OuterOf(selected, next) == {ChildOf(selected, next, r, i) : r \in selected, i \in {0, 2}}

\* Of the three children of a rectangle two are not in the middle.
LEMMA OuterChildrenCounted ==
  ASSUME NEW selected, Partition(selected), NEW next \in Nat,
         \A r \in selected : r.level[SplitDimension(r)] < GridDepth
  PROVE  Cardinality(OuterOf(selected, next)) = 2 * Cardinality(selected)
<1>1. {0, 2} \in SUBSET ChildPositions
  BY DEF ChildPositions
<1>2. IsFiniteSet({0, 2}) /\ Cardinality({0, 2}) = 2
  <2>1. {0} \cup {2} = {0, 2} /\ 2 \notin {0}
    OBVIOUS
  <2>2. IsFiniteSet({0}) /\ Cardinality({0}) = 1
    BY FS_Singleton
  <2>3. IsFiniteSet({0} \cup {2}) /\ Cardinality({0} \cup {2}) = Cardinality({0}) + 1
    BY <2>1, <2>2, FS_AddElement
  <2>4. QED
    BY <2>1, <2>2, <2>3
<1>3. Cardinality({ChildOf(selected, next, r, i) : r \in selected, i \in {0, 2}})
        = Cardinality(selected) * Cardinality({0, 2})
  BY <1>1, <1>2, ChildrenCounted
<1>4. Cardinality(selected) \in Nat
  BY FS_CardinalityType DEF Partition
<1>5. QED
  BY <1>2, <1>3, <1>4 DEF OuterOf

\* An iteration: of the three children of a rectangle the one in the middle is at its
\* centre, and the two others are at new points.
LEMMA IterateTiles ==
  ASSUME DirectInv, Tiled, Iterate,
         NEW selected, selected = SelectPotentiallyOptimal(rectangles, {incumbentId})
  PROVE  /\ Tiled'
         /\ spent' = Min({config.maxEvaluations, spent + 2 * Cardinality(selected)})
<1> DEFINE children == Children(selected, nextRectId)
           child(r, i) == ChildOf(selected, nextRectId, r, i)
           outer == {child(r, i) : r \in selected, i \in {0, 2}}
<1>1. /\ stage = "running" /\ KnownSound /\ nextRectId \in Nat
      /\ Evaluate(CentersById(children), Infinity)
      /\ rectangles' = (rectangles \ selected) \cup Scored(children, memo')
  BY DEF Iterate, DirectInv, LiveSound
<1>2. /\ selected \in SUBSET rectangles /\ Partition(selected) /\ Cardinality(selected) \in Nat
      /\ \A r \in selected : r.level[SplitDimension(r)] < GridDepth
  BY <1>1, IterationSelects
<1>3. /\ Specs(children, nextRectId) /\ \A s \in children : Shaped(s)
      /\ \A r \in selected : \E s \in children : s.center = r.center
  <2>1. Specs(children, nextRectId)
    BY <1>1, <1>2, ChildrenFacts
  <2>2. \A r \in selected : \E s \in children : s.center = r.center
    <3>1. nextRectId \in Nat
      BY <1>1
    <3>2. Partition(selected)
      BY <1>2
    <3>3. \A r \in selected : r.level[SplitDimension(r)] < GridDepth
      BY <1>2
    <3>4. QED
      BY <3>1, <3>2, <3>3, CentreKept
  <2> HIDE DEF children
  <2>3. QED
    BY <2>1, <2>2 DEF Specs
<1>4. children = {child(r, i) : r \in selected, i \in ChildPositions}
  BY ChildrenByPosition
<1> \A s \in children : \E r \in selected, i \in ChildPositions : s = child(r, i)
  BY <1>4
<1>5. \A r \in rectangles : Shaped(r)
  BY DEF DirectInv, LiveSound, Partition
<1>6. /\ \A r \in selected, i \in ChildPositions : Shaped(child(r, i))
      /\ \A r \in selected : child(r, 1).center = r.center
  <2>1. \A r \in selected, i \in ChildPositions : Shaped(child(r, i))
    BY <1>1, <1>2, ChildOfFacts
  <2>2. \A r \in selected : child(r, 1).center = r.center
    BY <1>1, <1>2, ChildOfFacts
  <2>3. QED
    BY <2>1, <2>2
<1>7. ASSUME NEW r \in selected, NEW i \in ChildPositions
      PROVE  /\ \A s : Shaped(s) /\ Apart(r, s) => Apart(child(r, i), s)
             /\ \A j \in ChildPositions : i # j => Apart(child(r, i), child(r, j))
  <2>1. Shaped(r) /\ r.level[SplitDimension(r)] < GridDepth
    BY <1>2, <1>5
  <2>2. QED
    BY <2>1, ChildrenApart
<1> HIDE DEF children, child
<1>8. ASSUME NEW r \in selected, NEW i \in ChildPositions, NEW q \in rectangles, r # q
      PROVE  Apart(child(r, i), q)
  <2>1. Apart(r, q)
    BY <1>2, <1>8 DEF Tiled
  <2>2. QED
    BY <1>5, <1>7, <2>1
<1>9. ASSUME NEW s \in children, NEW t \in children, s # t
      PROVE  Apart(s, t)
  <2>1. PICK r \in selected, i \in ChildPositions : s = child(r, i)
    BY <1>4
  <2>2. PICK q \in selected, j \in ChildPositions : t = child(q, j)
    BY <1>4
  <2>3. CASE r = q
    BY <1>7, <1>9, <2>1, <2>2, <2>3
  <2>4. CASE r # q
    <3>1. Apart(child(q, j), r)
      BY <1>2, <1>8, <2>4
    <3>2. Apart(r, t)
      BY <1>2, <1>3, <1>5, <2>2, <3>1, ApartFacts
    <3>3. QED
      BY <1>3, <1>7, <2>1, <3>2
  <2>5. QED
    BY <2>3, <2>4
<1>10. ASSUME NEW r \in rectangles', NEW q \in rectangles', r # q
       PROVE  Apart(r, q)
  <2>1. ASSUME NEW a \in rectangles \ selected, NEW c \in Scored(children, memo')
        PROVE  Apart(a, c) /\ Apart(c, a)
    <3> a \in rectangles /\ a \notin selected
      OBVIOUS
    <3>1. PICK s \in children : c.center = s.center /\ c.level = s.level
      BY DEF Scored
    <3>2. \E b \in selected, i \in ChildPositions : s = child(b, i)
      BY <3>1
    <3> PICK b \in selected, i \in ChildPositions : s = child(b, i)
      BY <3>2
    <3>3. Apart(s, a)
      <4>1. b # a
        OBVIOUS
      <4>2. QED
        BY <1>8, <3>2, <4>1
    <3>4. Apart(a, s)
      BY <1>3, <1>5, <3>3, ApartFacts
    <3>5. QED
      BY <3>1, <3>3, <3>4 DEF Apart
  <2>2. CASE r \in rectangles \ selected /\ q \in rectangles \ selected
    BY <1>10, <2>2 DEF Tiled
  <2>3. CASE r \in Scored(children, memo') /\ q \in Scored(children, memo')
    BY <1>9, <1>10, <2>3, ApartScored
  <2>4. QED
    BY <1>1, <2>1, <2>2, <2>3
<1>11. ASSUME NEW p \in DOMAIN memo'
       PROVE  \E r \in rectangles' : p = r.center
  <2>1. \A s \in children : \E r \in rectangles' : s.center = r.center
    BY <1>1, ScoredAt
  <2>2. CASE p \in DOMAIN memo
    <3>1. PICK r \in rectangles : p = r.center
      BY <2>2 DEF Tiled
    <3>2. CASE r \in selected
      BY <1>3, <2>1, <3>1, <3>2
    <3>3. CASE r \notin selected
      BY <1>1, <3>1, <3>3
    <3>4. QED
      BY <3>2, <3>3
  <2>3. CASE p \notin DOMAIN memo
    <3>1. \E s \in children : p = s.center
      BY <1>1, <1>3, <2>3, SpecsEvaluated
    <3>2. QED
      BY <2>1, <3>1
  <2>4. QED
    BY <2>2, <2>3
<1>12. Tiled'
  BY <1>10, <1>11 DEF Tiled, Apart
<1>13. ASSUME NEW s \in children
       PROVE  s \in outer <=> s.center \notin DOMAIN memo
  <2>1. PICK r \in selected, i \in ChildPositions : s = child(r, i)
    BY <1>4
  <2>2. i = 0 \/ i = 1 \/ i = 2
    BY DEF ChildPositions
  <2>3. 0 \in ChildPositions /\ 1 \in ChildPositions /\ 2 \in ChildPositions
    BY DEF ChildPositions
  <2>4. CASE i = 1
    <3>1. s.center = r.center /\ r \in rectangles
      BY <1>2, <1>6, <2>1, <2>4
    <3>2. s.center \in DOMAIN memo
      BY <3>1 DEF DirectInv, LiveSound
    <3>3. ASSUME NEW q \in selected, NEW j \in {0, 2}
          PROVE  s # child(q, j)
      <4>1. j \in ChildPositions /\ j # 1
        BY <2>3
      <4>2. CASE q = r
        <5>1. Apart(child(r, 1), child(r, j))
          BY <1>7, <2>3, <4>1
        <5>2. child(r, 1).center # child(r, j).center
          BY <1>6, <2>3, <4>1, <5>1, ApartFacts
        <5>3. QED
          BY <2>1, <2>4, <4>2, <5>2
      <4>3. CASE q # r
        <5>1. Apart(child(q, j), r)
          BY <1>2, <1>8, <4>1, <4>3
        <5>2. child(q, j).center # r.center
          BY <1>5, <1>6, <3>1, <4>1, <5>1, ApartFacts
        <5>3. QED
          BY <3>1, <5>2
      <4>4. QED
        BY <4>2, <4>3
    <3>4. QED
      BY <3>2, <3>3
  <2>5. CASE i # 1
    <3>1. s \in outer
      BY <2>1, <2>2, <2>5
    <3>2. ASSUME s.center \in DOMAIN memo
          PROVE  FALSE
      <4>1. PICK q \in rectangles : s.center = q.center
        BY <3>2 DEF Tiled
      <4>2. CASE q = r
        <5>1. Apart(child(r, i), child(r, 1)) /\ child(r, 1).center = r.center
          BY <1>6, <1>7, <2>3, <2>5
        <5>2. s.center # child(r, 1).center
          BY <1>6, <2>1, <2>3, <5>1, ApartFacts
        <5>3. QED
          BY <4>1, <4>2, <5>1, <5>2
      <4>3. CASE q # r
        <5>1. Apart(s, q)
          BY <1>8, <2>1, <4>3
        <5>2. QED
          BY <1>3, <1>5, <4>1, <5>1, ApartFacts
      <4>4. QED
        BY <4>2, <4>3
    <3>3. QED
      BY <3>1, <3>2
  <2>6. QED
    BY <2>4, <2>5
<1>14. outer \in SUBSET children /\ Cardinality(outer) = 2 * Cardinality(selected)
  <2>1. Cardinality(outer) = 2 * Cardinality(selected)
    <3>1. nextRectId \in Nat
      BY <1>1
    <3>2. Partition(selected)
      BY <1>2
    <3>3. \A r \in selected : r.level[SplitDimension(r)] < GridDepth
      BY <1>2
    <3>4. Cardinality(OuterOf(selected, nextRectId)) = 2 * Cardinality(selected)
      BY <3>1, <3>2, <3>3, OuterChildrenCounted
    <3>5. QED
      BY <3>4 DEF child, OuterOf
  <2>2. {0, 2} \in SUBSET ChildPositions
    BY DEF ChildPositions
  <2>3. outer \in SUBSET children
    BY <1>4, <2>2
  <2>4. QED
    BY <2>1, <2>3
<1>15. \A s, t \in children : s.center = t.center => s = t
  BY <1>3, <1>9, ApartFacts
<1> HIDE DEF outer
<1>16. Cardinality(FirstMentions(CentersById(children))) = 2 * Cardinality(selected)
  <2>1. Cardinality(FirstMentions(CentersById(children))) = Cardinality(outer)
    BY <1>3, <1>13, <1>14, <1>15, NewCentersCounted
  <2>2. QED
    BY <1>14, <2>1
<1>17. Request(CentersById(children)) /\ BudgetSound
  BY <1>1, <1>3, CentersFacts DEF KnownSound
<1>18. spent' = Min({config.maxEvaluations, spent + Cardinality(FirstMentions(CentersById(children)))})
  BY <1>1, <1>17, EvaluationCost
<1>19. QED
  BY <1>12, <1>16, <1>18

CostKnown ==
  /\ stage = "start" => spent = 0
  /\ stage # "start" => spent = EvaluationsBefore(Len(diagnostics) + 1)
  /\ IterationCost

CostInv == DirectInv /\ Tiled /\ CostKnown

\* With the budget unspent the seeds are tiles that cost what they evaluate.
LEMMA SeedBoxCosts ==
  ASSUME CostInv, SeedBox
  PROVE  Tiled' /\ CostKnown'
<1>1. /\ stage = "start" /\ spent = 0 /\ diagnostics = <<>> /\ diagnostics' = diagnostics
      /\ stage' # "start" /\ config' = config
  BY DEF CostInv, CostKnown, SeedBox, DirectInv, IncumbentSound, Evaluate, Ask
<1>2. Tiled' /\ spent' = Min({config.maxEvaluations, Cardinality(Seeds)})
  BY <1>1, SeedBoxTiles DEF CostInv
<1>3. IterationCost'
  BY <1>1 DEF IterationCost
<1>4. spent' = EvaluationsBefore(Len(diagnostics) + 1)'
  <2>1. Len(diagnostics') + 1 = 1
    BY <1>1
  <2>2. QED
    BY <1>1, <1>2, <2>1 DEF EvaluationsBefore
<1>5. QED
  BY <1>1, <1>2, <1>3, <1>4 DEF CostKnown

\* An iteration costs two evaluations for every rectangle it divides.
LEMMA IterateCosts ==
  ASSUME CostInv, Iterate
  PROVE  Tiled' /\ CostKnown'
<1> DEFINE selected == SelectPotentiallyOptimal(rectangles, {incumbentId})
           record == [totalEvaluations |-> spent', potentiallyOptimal |-> Cardinality(selected),
                      incumbentFos |-> BestFound(memo'),
                      incumbentSize |-> SizeMetric(BestOf(rectangles'))]
           n == Len(diagnostics)
<1>1. Tiled' /\ spent' = Min({config.maxEvaluations, spent + 2 * Cardinality(selected)})
  BY IterateTiles DEF CostInv
<1>2. /\ diagnostics' = Append(diagnostics, record)
      /\ record.totalEvaluations = spent' /\ record.potentiallyOptimal = Cardinality(selected)
  BY DEF Iterate
<1>3. /\ stage = "running" /\ stage' # "start" /\ config' = config
      /\ spent = EvaluationsBefore(n + 1) /\ IterationCost
  BY DEF CostInv, CostKnown, Iterate, Evaluate, Ask
<1> HIDE DEF selected, record
<1>4. diagnostics \in Seq(Records) /\ n \in Nat
  BY DEF CostInv, DirectInv, HistorySound
<1>5. /\ DOMAIN diagnostics' = 1..(n + 1) /\ DOMAIN diagnostics = 1..n /\ Len(diagnostics') = n + 1
      /\ \A i \in 1..n : diagnostics'[i] = diagnostics[i]
      /\ diagnostics'[n + 1] = record
  BY <1>2, <1>4
<1> HIDE DEF n
<1>6. \A i \in 1..(n + 1) : EvaluationsBefore(i)' = EvaluationsBefore(i)
  <2>1. ASSUME NEW i \in 1..(n + 1)
        PROVE  EvaluationsBefore(i)' = EvaluationsBefore(i)
    <3>1. CASE i = 1
      BY <1>3, <3>1 DEF EvaluationsBefore
    <3>2. CASE i # 1
      <4>1. i - 1 \in 1..n
        BY <1>4, <3>2
      <4>2. diagnostics'[i - 1] = diagnostics[i - 1]
        BY <1>5, <4>1
      <4>3. QED
        BY <3>2, <4>2 DEF EvaluationsBefore
    <3>3. QED
      BY <3>1, <3>2
  <2>2. QED
    BY <2>1
<1>7. ASSUME NEW i \in DOMAIN diagnostics'
      PROVE  diagnostics'[i].totalEvaluations =
               Min({config.maxEvaluations, EvaluationsBefore(i)' + 2 * diagnostics'[i].potentiallyOptimal})
  <2>1. EvaluationsBefore(i)' = EvaluationsBefore(i)
    BY <1>5, <1>6
  <2>2. CASE i = n + 1
    BY <1>1, <1>2, <1>3, <1>5, <2>1, <2>2
  <2>3. CASE i # n + 1
    <3>1. i \in 1..n
      BY <1>4, <1>5, <2>3
    <3>2. diagnostics'[i] = diagnostics[i]
      BY <1>5, <3>1
    <3>3. diagnostics[i].totalEvaluations =
            Min({config.maxEvaluations, EvaluationsBefore(i) + 2 * diagnostics[i].potentiallyOptimal})
      BY <1>3, <1>5, <3>1 DEF IterationCost
    <3>4. QED
      BY <2>1, <3>2, <3>3
  <2>4. QED
    BY <2>2, <2>3
<1>8. IterationCost'
  BY <1>3, <1>7 DEF IterationCost
<1>9. spent' = EvaluationsBefore(Len(diagnostics) + 1)'
  <2>1. Len(diagnostics') + 1 # 1 /\ Len(diagnostics') + 1 - 1 = n + 1
    BY <1>4, <1>5
  <2>2. diagnostics'[n + 1].totalEvaluations = spent'
    BY <1>2, <1>5
  <2>3. QED
    BY <2>1, <2>2 DEF EvaluationsBefore
<1>10. QED
  BY <1>1, <1>3, <1>8, <1>9 DEF CostKnown

\* What run_direct_global_search() spends: an iteration evaluates exactly two new points
\* for each rectangle it divides, or what is left of the budget, because the child in the
\* middle is answered from the cache and no two rectangles ever have the same centre.
THEOREM DirectIterationCost == DirectSpec => []IterationCost
<1>1. DirectInit => CostInv
  <2>1. ASSUME DirectInit
        PROVE  CostInv
    <3>1. DirectInv
      BY <2>1, DirectStarts
    <3>2. /\ stage = "start" /\ spent = 0 /\ diagnostics = <<>> /\ rectangles = {}
          /\ DOMAIN memo = {}
      BY <2>1 DEF DirectInit, ObjectiveInit
    <3>3. QED
      BY <3>1, <3>2 DEF CostInv, Tiled, CostKnown, IterationCost
  <2>2. QED
    BY <2>1
<1>2. ASSUME CostInv, [DirectNext]_directVars
      PROVE  CostInv'
  <2>1. DirectInv'
    BY <1>2, DirectStepKeeps DEF CostInv
  <2>2. CASE SeedBox
    BY <1>2, <2>1, <2>2, SeedBoxCosts DEF CostInv
  <2>3. CASE Iterate
    BY <1>2, <2>1, <2>3, IterateCosts DEF CostInv
  <2>4. CASE StopBeforeDividing \/ StartRefinement \/ RefineDirectWinner \/ UNCHANGED directVars
    <3>1. /\ UNCHANGED <<config, memo, spent, rectangles, diagnostics>>
          /\ stage = "start" <=> stage' = "start"
      BY <2>4 DEF StopBeforeDividing, StartRefinement, RefineDirectWinner, RefineWinner, directVars, objectiveVars, directSearchVars
    <3>2. Tiled' /\ CostKnown'
      BY <1>2, <3>1 DEF CostInv, Tiled, CostKnown, IterationCost, EvaluationsBefore
    <3>3. QED
      BY <2>1, <3>2 DEF CostInv
  <2>5. QED
    BY <1>2, <2>2, <2>3, <2>4 DEF DirectNext
<1>3. CostInv => IterationCost
  BY DEF CostInv, CostKnown
<1>4. QED
  BY <1>1, <1>2, <1>3, PTL DEF DirectSpec

-----------------------------------------------------------------------------
(* DIRECT: types                                                           *)

Counts == [total : Int, valid : Int, infeasible : Int]

\* What DirectInv does not say of the answers and of the counters of the passes.
AnswersTyped ==
  /\ \A p \in DOMAIN memo : memo[p] \in ScoresAt(p) \cup {Infinity}
  /\ postCounts \in Counts /\ postCounts.total = postCounts.valid + postCounts.infeasible

\* Every surface of a batch is counted as valid or as infeasible.
LEMMA RecordedAdds ==
  ASSUME postCounts \in Counts, postCounts.total = postCounts.valid + postCounts.infeasible, Refine
  PROVE  postCounts' \in Counts /\ postCounts'.total = postCounts'.valid + postCounts'.infeasible
<1>1. CASE EndPass
  BY <1>1 DEF EndPass
<1>2. CASE SweepBatch
  <2>1. PICK batch \in [1..BatchLength -> Candidates] :
          postCounts' = Recorded(postCounts, solved', batch)
    BY <1>2 DEF SweepBatch
  <2> DEFINE valid == Cardinality(ValidAt(solved', batch))
  <2>2. Len(batch) \in Nat
    BY PostRefinementAssumption
  <2>3. valid \in Nat
    <3>1. ValidAt(solved', batch) \in SUBSET (1..BatchLength)
      BY DEF ValidAt
    <3>2. IsFiniteSet(1..BatchLength)
      BY PostRefinementAssumption, FS_Interval
    <3>3. QED
      BY <3>1, <3>2, FS_Subset, FS_CardinalityType
  <2>4. postCounts' = [total |-> postCounts.total + Len(batch), valid |-> postCounts.valid + valid,
                       infeasible |-> postCounts.infeasible + (Len(batch) - valid)]
    BY <2>1 DEF Recorded
  <2> HIDE DEF valid
  <2>5. QED
    BY <2>2, <2>3, <2>4 DEF Counts
<1>3. QED
  BY <1>1, <1>2 DEF Refine

\* The types of DirectSearch, whose rectangle ids are those that _make_rectangle() of
\* run_direct_global_search() has given.
THEOREM DirectTypeCorrect == DirectSpec => []DirectTypeOK
<1>1. DirectInit => AnswersTyped
  BY DEF DirectInit, ObjectiveInit, RefinementInit, AnswersTyped, Counts
<1>2. ASSUME DirectInv, AnswersTyped, [DirectNext]_directVars
      PROVE  AnswersTyped'
  <2>1. ASSUME NEW specs, NEW next, Specs(specs, next), Evaluate(CentersById(specs), Infinity),
               postCounts' = postCounts
        PROVE  AnswersTyped'
    <3>1. Request(CentersById(specs)) /\ BudgetSound /\ IsFiniteSet(DOMAIN memo)
      BY <1>2, <2>1, CentersFacts DEF DirectInv, KnownSound
    <3>2. /\ \A p \in DOMAIN memo : memo'[p] = memo[p]
          /\ \A p \in DOMAIN memo' \ DOMAIN memo : memo'[p] \in ScoresAt(p) \/ memo'[p] = Infinity
      BY <2>1, <3>1, EvaluateFacts
    <3>3. QED
      BY <1>2, <2>1, <3>2, DirectAssumption DEF AnswersTyped
  <2>2. CASE SeedBox
    <3>1. Evaluate(CentersById(SeedRectangles), Infinity) /\ postCounts' = postCounts
      BY <2>2 DEF SeedBox, refinementVars
    <3>2. QED
      BY <2>1, <3>1, SeedsFacts
  <2>3. CASE Iterate
    <3> DEFINE selected == SelectPotentiallyOptimal(rectangles, {incumbentId})
               children == Children(selected, nextRectId)
    <3>1. Evaluate(CentersById(children), Infinity) /\ postCounts' = postCounts /\ stage = "running"
      BY <2>3 DEF Iterate, refinementVars
    <3>2. Partition(selected) /\ \A r \in selected : r.level[SplitDimension(r)] < GridDepth
      BY <1>2, <3>1, IterationSelects
    <3>3. nextRectId \in Nat
      BY <1>2 DEF DirectInv, LiveSound
    <3> HIDE DEF selected
    <3>4. Specs(children, nextRectId)
      BY <3>2, <3>3, ChildrenFacts
    <3>5. QED
      BY <2>1, <3>1, <3>4
  <2>4. CASE RefineDirectWinner
    BY <1>2, <2>4, RecordedAdds DEF RefineDirectWinner, RefineWinner, AnswersTyped, objectiveVars
  <2>5. CASE StopBeforeDividing \/ StartRefinement \/ UNCHANGED directVars
    BY <1>2, <2>5 DEF StopBeforeDividing, StartRefinement, directVars, objectiveVars, refinementVars, AnswersTyped
  <2>6. QED
    BY <1>2, <2>2, <2>3, <2>4, <2>5 DEF DirectNext
<1>3. ASSUME DirectInv, AnswersTyped
      PROVE  DirectTypeOK
  <2>1. spent \in 0..config.maxEvaluations /\ config \in DirectConfigurations
    BY <1>3 DEF DirectInv, KnownSound, BudgetSound
  <2>2. ASSUME NEW r \in rectangles
        PROVE  /\ r.id \in 0..(nextRectId - 1) /\ r.center \in [Axes -> 1..(Box - 1)]
               /\ r.level \in [Axes -> Levels] /\ r.score = memo[r.center]
    <3>1. Shaped(r) /\ r.id \in Nat /\ r.id < nextRectId /\ nextRectId \in Nat /\ r.score = memo[r.center]
      BY <1>3 DEF DirectInv, LiveSound, Partition
    <3>2. r.center \in [Axes -> 1..(Box - 1)] /\ r.level \in [Axes -> Levels]
      BY <3>1, ShapedInBox DEF Shaped
    <3>3. QED
      BY <3>1, <3>2
  <2>3. \A r, s \in rectangles : r.id = s.id => r = s
    BY <1>3 DEF DirectInv, LiveSound, Partition
  <2>4. ASSUME stage # "start"
        PROVE  \E r \in rectangles : r.id = incumbentId
    <3>1. Partition(rectangles) /\ rectangles # {} /\ incumbentId = BestOf(rectangles).id
      BY <1>3, <2>4 DEF DirectInv, LiveSound, IncumbentSound
    <3>2. QED
      BY <3>1, BestOfFacts
  <2>5. QED
    BY <1>3, <2>1, <2>2, <2>3, <2>4 DEF DirectTypeOK, AnswersTyped, DirectInv, StagesSound, HistorySound
<1>4. QED
  BY <1>1, <1>2, <1>3, DirectInvariant, PTL DEF DirectSpec

-----------------------------------------------------------------------------
(* Cuckoo                                                                  *)

\* The configuration, the budget and what is known: only the end of the budget refuses.
CuckooKnown ==
  /\ config \in CuckooConfigurations /\ BudgetSound /\ IsFiniteSet(DOMAIN memo)
  /\ \A p \in DOMAIN memo :
       /\ p \in Points
       /\ memo[p] \in 0..Invalid \/ (memo[p] = RefusedAnswer /\ spent = config.maxEvaluations)

\* What a configuration of the Cuckoo search holds.
LEMMA CuckooConfig ==
  ASSUME config \in CuckooConfigurations
  PROVE  /\ config.maxEvaluations \in Nat /\ config.populationSize \in Nat \ {0, 1}
         /\ config.abandonCount \in Nat \ {0} /\ config.abandonCount <= config.populationSize
<1>1. config \in CuckooConfigurationType
  BY CuckooAssumption
<1>2. config.abandonCount <= config.populationSize
  BY CuckooAssumption
<1>3. QED
  BY <1>1, <1>2 DEF CuckooConfigurationType

\* A call keeps what is known sound.
LEMMA CuckooEvaluated ==
  ASSUME CuckooKnown,
         NEW k \in Nat, NEW request \in [1..k -> Points], Evaluate(request, RefusedAnswer)
  PROVE  /\ CuckooKnown' /\ config' = config /\ spent <= spent'
         /\ DOMAIN memo' = DOMAIN memo \cup {request[i] : i \in 1..k}
         /\ \A p \in DOMAIN memo : memo'[p] = memo[p]
<1>1. Request(request) /\ DOMAIN request = 1..k
  BY FS_Interval DEF Request
<1>2. /\ config' = config
      /\ spent' \in Nat /\ spent <= spent' /\ spent' <= config.maxEvaluations
      /\ IsFiniteSet(DOMAIN memo')
      /\ DOMAIN memo' = DOMAIN memo \cup {request[i] : i \in DOMAIN request}
      /\ \A p \in DOMAIN memo : memo'[p] = memo[p]
      /\ \A p \in DOMAIN memo' \ DOMAIN memo :
           \/ memo'[p] \in ScoresAt(p)
           \/ memo'[p] = RefusedAnswer /\ spent' = config.maxEvaluations
  BY <1>1, EvaluateAnswers, AnsweredFacts DEF CuckooKnown
<1>3. ASSUME NEW p \in DOMAIN memo'
      PROVE  /\ p \in Points
             /\ memo'[p] \in 0..Invalid \/ (memo'[p] = RefusedAnswer /\ spent' = config.maxEvaluations)
  <2>1. CASE p \in DOMAIN memo
    <3>1. spent = config.maxEvaluations => spent' = config.maxEvaluations
      BY <1>2 DEF CuckooKnown, BudgetSound
    <3>2. QED
      BY <1>2, <2>1, <3>1 DEF CuckooKnown
  <2>2. CASE p \notin DOMAIN memo
    <3>1. p \in Points
      BY <1>1, <1>2, <1>3, <2>2
    <3>2. ScoresAt(p) \subseteq 0..Invalid
      BY <3>1, CuckooAssumption
    <3>3. QED
      BY <1>2, <2>2, <3>1, <3>2
  <2>3. QED
    BY <2>1, <2>2
<1>4. CuckooKnown'
  BY <1>2, <1>3 DEF CuckooKnown, BudgetSound
<1>5. QED
  BY <1>1, <1>2, <1>4

\* A request of one point.
LEMMA CuckooTried ==
  ASSUME CuckooKnown, NEW p \in Points, Evaluate(<<p>>, RefusedAnswer)
  PROVE  /\ CuckooKnown' /\ config' = config /\ spent <= spent'
         /\ DOMAIN memo' = DOMAIN memo \cup {p}
         /\ \A q \in DOMAIN memo : memo'[q] = memo[q]
<1> DEFINE request == <<p>>
<1>1. request \in [1..1 -> Points] /\ {request[i] : i \in 1..1} = {p}
  OBVIOUS
<1>2. Evaluate(request, RefusedAnswer) /\ 1 \in Nat
  OBVIOUS
<1> HIDE DEF request
<1>3. /\ CuckooKnown' /\ config' = config /\ spent <= spent'
      /\ DOMAIN memo' = DOMAIN memo \cup {request[i] : i \in 1..1}
      /\ \A q \in DOMAIN memo : memo'[q] = memo[q]
  BY <1>1, <1>2, CuckooEvaluated
<1>4. QED
  BY <1>1, <1>3

\* _is_better() and a cache with a valid point: one point is better than all others.
Scores(answers) ==
  /\ IsFiniteSet(DOMAIN answers)
  /\ \A p \in DOMAIN answers : p \in Nat /\ answers[p] \in Nat

BestOfAll(answers, p) == \A q \in DOMAIN answers : q = p \/ IsBetter(answers, p, q)

\* What is known has scores.
LEMMA KnownScores ==
  ASSUME CuckooKnown
  PROVE  Scores(memo)
<1>1. Points \subseteq Nat /\ Invalid \in Nat /\ RefusedAnswer \in Nat
  BY CuckooAssumption, PostRefinementAssumption
<1>2. \A n \in 0..Invalid : n \in Nat
  BY <1>1
<1>3. \A p \in DOMAIN memo : p \in Nat /\ memo[p] \in Nat
  BY <1>1, <1>2 DEF CuckooKnown
<1>4. QED
  BY <1>3 DEF CuckooKnown, Scores

\* If a valid point is known, one of them is better than all others.
LEMMA BestPoint ==
  ASSUME NEW answers, Scores(answers),
         \E p \in DOMAIN answers : Finite(answers, p)
  PROVE  \E p \in DOMAIN answers : Finite(answers, p) /\ BestOfAll(answers, p)
<1> DEFINE S == DOMAIN answers
           f == [p \in S |-> answers[p]]
           g == [p \in S |-> p]
<1>1. IsFiniteSet(S) /\ S # {} /\ Invalid \in Nat
  BY CuckooAssumption, PostRefinementAssumption DEF Scores
<1>2. \A p \in S : f[p] = answers[p] /\ g[p] = p /\ f[p] \in Int /\ g[p] \in Int
  BY DEF Scores
<1> HIDE DEF f, g
<1>3. PICK b \in S : \A q \in S : f[b] < f[q] \/ (f[b] = f[q] /\ g[b] <= g[q])
  BY <1>1, <1>2, LeastPair
<1>4. \A q \in S : /\ answers[b] < answers[q] \/ (answers[b] = answers[q] /\ b <= q)
                   /\ q \in Nat /\ answers[q] \in Nat
  BY <1>2, <1>3 DEF Scores
<1>5. PICK p \in S : Finite(answers, p)
  OBVIOUS
<1>6. Finite(answers, b)
  BY <1>1, <1>4, <1>5 DEF Finite
<1>7. BestOfAll(answers, b)
  BY <1>4, <1>6 DEF BestOfAll, IsBetter
<1>8. QED
  BY <1>6, <1>7

\* The best point is the only one.
LEMMA BestPointUnique ==
  ASSUME NEW answers, Scores(answers), NEW p \in DOMAIN answers, NEW q \in DOMAIN answers,
         BestOfAll(answers, p), q = p \/ IsBetter(answers, q, p)
  PROVE  q = p
BY DEF BestOfAll, IsBetter, Scores

-----------------------------------------------------------------------------
(* Cuckoo: the inductive invariant                                         *)

Iterates == stage \notin {"seeding", "failed"}

\* The nests are known points, and while they are seeded every valid point becomes one.
NestsSound ==
  /\ population \in Seq(DOMAIN memo)
  /\ Iterates => Len(population) = config.populationSize
  /\ stage = "seeding" =>
       /\ history = <<>>
       /\ \A p \in DOMAIN memo : Finite(memo, p) => \E i \in DOMAIN population : population[i] = p
  /\ Iterates => ~NothingFound
  /\ stage = "failed" => NothingFound

EliteSound ==
  Iterates /\ ~BudgetSpent /\ config.abandonCount < config.populationSize =>
    \E i \in DOMAIN population : BestOfAll(memo, population[i])

PointsBeaten(best) ==
  \A p \in DOMAIN memo :
    LET found == [surface |-> p, fos |-> memo[p]]
    IN  memo[p] >= Invalid \/ found = best \/ BetterSurface(best, found)

PolishSound ==
  /\ stage \notin {"refining", "done"} => DOMAIN solved = {} /\ batches = 0
  /\ stage = "done" => batches = 0
  /\ PassesSound /\ SolvedBeaten(StartOfPass)
  /\ stage \in {"refining", "done"} => PointsBeaten(StartOfPass)

CuckooInv ==
  CuckooKnown /\ NestsSound /\ EliteSound /\ PolishSound /\ NoRefusedNest

\* The invariant holds at the start.
LEMMA CuckooStarts ==
  ASSUME CuckooInit
  PROVE  CuckooInv
<1>1. /\ config \in CuckooConfigurations /\ DOMAIN memo = {} /\ spent = 0 /\ DOMAIN solved = {}
      /\ winner = NoWinner /\ running = NoWinner /\ passesLeft = CuckooPasses /\ batches = 0
      /\ population = <<>> /\ stage = "seeding" /\ history = <<>>
  BY DEF CuckooInit, ObjectiveInit, RefinementInit, NoWinner
<1>2. CuckooKnown
  BY <1>1, CuckooConfig, FS_EmptySet DEF CuckooKnown, BudgetSound
<1>3. NestsSound /\ EliteSound /\ NoRefusedNest
  BY <1>1 DEF NestsSound, EliteSound, Iterates, NoRefusedNest
<1>4. CuckooPasses \in Seq(PassNames \ {"local_polish"})
  BY DEF CuckooPasses, PassNames
<1>5. NoWinner \in Answers
  BY PostRefinementAssumption DEF NoWinner, Answers
<1>6. PolishSound
  BY <1>1, <1>4, <1>5 DEF PolishSound, PassesSound, SolvedSound, SolvedBeaten
<1>7. QED
  BY <1>2, <1>3, <1>6 DEF CuckooInv

-----------------------------------------------------------------------------
(* Cuckoo: the steps                                                       *)

\* Outside the passes nothing of them changes.
LEMMA PolishUntouched ==
  ASSUME PolishSound, UNCHANGED notRefining,
         stage \notin {"refining", "done"}, stage' \notin {"refining", "done"}
  PROVE  PolishSound'
BY DEF PolishSound, PassesSound, SolvedSound, SolvedBeaten, StartOfPass, notRefining, refinementVars

\* A nest is seeded, or an invalid point is passed over.
LEMMA SeedingKeeps ==
  ASSUME CuckooInv, SeedNest \/ FillNest,
         UNCHANGED notRefining
  PROVE  CuckooInv'
<1>1. PICK p \in Points :
        /\ Evaluate(<<p>>, RefusedAnswer)
        /\ \/ population' = Append(population, p)
           \/ population' = population /\ ~Finite(memo', p)
  BY DEF SeedNest, FillNest
<1>2. stage = "seeding" /\ stage' = stage /\ history' = history
  BY DEF SeedNest, FillNest
<1>3. /\ CuckooKnown' /\ config' = config
      /\ DOMAIN memo' = DOMAIN memo \cup {p}
      /\ \A q \in DOMAIN memo : memo'[q] = memo[q]
  BY <1>1, CuckooTried DEF CuckooInv
<1>4. population \in Seq(DOMAIN memo) /\ population \in Seq(DOMAIN memo')
  <2>1. population \in Seq(DOMAIN memo)
    BY DEF CuckooInv, NestsSound
  <2>2. QED
    BY <1>3, <2>1
<1>5. /\ population' \in Seq(DOMAIN memo')
      /\ \A i \in DOMAIN population : i \in DOMAIN population' /\ population'[i] = population[i]
      /\ Finite(memo', p) => \E i \in DOMAIN population' : population'[i] = p
  <2>1. CASE population' = Append(population, p)
    <3>1. Len(population) + 1 \in DOMAIN population' /\ population'[Len(population) + 1] = p
      BY <1>4, <2>1
    <3>2. QED
      BY <1>3, <1>4, <2>1, <3>1
  <2>2. CASE population' = population /\ ~Finite(memo', p)
    BY <1>4, <2>2
  <2>3. QED
    BY <1>1, <2>1, <2>2
<1>6. ASSUME NEW q \in DOMAIN memo', Finite(memo', q)
      PROVE  \E i \in DOMAIN population' : population'[i] = q
  <2>1. CASE q = p
    BY <1>5, <1>6, <2>1
  <2>2. CASE q # p
    <3>1. q \in DOMAIN memo /\ Finite(memo, q)
      BY <1>3, <1>6, <2>2 DEF Finite
    <3>2. PICK i \in DOMAIN population : population[i] = q
      BY <1>2, <3>1 DEF CuckooInv, NestsSound
    <3>3. QED
      BY <1>5, <3>2
  <2>3. QED
    BY <2>1, <2>2
<1>7. history = <<>>
  BY <1>2 DEF CuckooInv, NestsSound
<1>8. NestsSound' /\ EliteSound' /\ NoRefusedNest'
  BY <1>2, <1>5, <1>6, <1>7 DEF NestsSound, EliteSound, Iterates, NoRefusedNest
<1>9. PolishSound'
  BY <1>2, PolishUntouched DEF CuckooInv
<1>10. QED
  BY <1>3, <1>8, <1>9 DEF CuckooInv

\* The seeding has ended: the best point is one of the nests.
LEMMA SeededKeeps ==
  ASSUME CuckooInv, Seeded, UNCHANGED notRefining
  PROVE  CuckooInv'
<1>1. /\ stage = "seeding" /\ Len(population) = config.populationSize
      /\ stage' = IF NothingFound THEN "failed" ELSE "head"
      /\ UNCHANGED <<config, memo, spent, population, history>>
  BY DEF Seeded, Full, objectiveVars
<1>2. CuckooKnown' /\ Scores(memo)
  BY <1>1, KnownScores DEF CuckooInv, CuckooKnown, BudgetSound
<1>3. NestsSound' /\ NoRefusedNest'
  BY <1>1 DEF CuckooInv, NestsSound, Iterates, NothingFound, Finite, NoRefusedNest
<1>4. EliteSound'
  <2>1. ASSUME ~NothingFound
        PROVE  \E i \in DOMAIN population : BestOfAll(memo, population[i])
    <3>1. PICK p \in DOMAIN memo : Finite(memo, p) /\ BestOfAll(memo, p)
      BY <1>2, <2>1, BestPoint DEF NothingFound
    <3>2. PICK i \in DOMAIN population : population[i] = p
      BY <1>1, <3>1 DEF CuckooInv, NestsSound
    <3>3. QED
      BY <3>1, <3>2
  <2>2. QED
    BY <1>1, <2>1 DEF EliteSound, Iterates, BestOfAll
<1>5. PolishSound'
  BY <1>1, PolishUntouched DEF CuckooInv
<1>6. QED
  BY <1>2, <1>3, <1>4, <1>5 DEF CuckooInv

\* The steps that evaluate nothing. An iteration begins with budget left: nothing has
\* been refused then.
LEMMA QuietKeeps ==
  ASSUME CuckooInv, UNCHANGED notRefining,
         \/ BeginIteration \/ LoopEnds \/ TrialsEnd
         \/ KeepWorst \/ CloseIteration
  PROVE  CuckooInv'
<1>1. /\ UNCHANGED <<config, memo, spent, population>>
      /\ Iterates /\ Iterates' /\ stage # "seeding" /\ stage' # "seeding" /\ stage' # "failed"
      /\ stage \notin {"refining", "done"} /\ stage' \notin {"refining", "done"}
  BY DEF BeginIteration, LoopEnds, TrialsEnd, KeepWorst, CloseIteration, objectiveVars, Iterates
<1>2. CuckooKnown' /\ NestsSound' /\ EliteSound'
  BY <1>1 DEF CuckooInv, CuckooKnown, BudgetSound, NestsSound, EliteSound, Iterates,
     NothingFound, BudgetSpent, Finite, BestOfAll, IsBetter
<1>3. PolishSound'
  BY <1>1, PolishUntouched DEF CuckooInv
<1>4. NoRefusedNest'
  <2>1. CASE BeginIteration
    <3>1. spent < config.maxEvaluations
      BY <2>1 DEF BeginIteration, BudgetSpent, CuckooInv, CuckooKnown, BudgetSound
    <3>2. \A p \in DOMAIN memo : memo[p] \in 0..Invalid
      BY <3>1 DEF CuckooInv, CuckooKnown, BudgetSound
    <3>3. RefusedAnswer \notin 0..Invalid
      BY CuckooAssumption, PostRefinementAssumption
    <3>4. \A i \in DOMAIN population : population[i] \in DOMAIN memo
      BY DEF CuckooInv, NestsSound
    <3>5. QED
      BY <1>1, <3>2, <3>3, <3>4 DEF NoRefusedNest
  <2>2. CASE LoopEnds
    BY <1>1, <2>2 DEF CuckooInv, LoopEnds, NoRefusedNest
  <2>3. CASE TrialsEnd \/ KeepWorst \/ CloseIteration
    BY <1>1, <2>3 DEF CuckooInv, TrialsEnd, KeepWorst, CloseIteration, NoRefusedNest
  <2>4. QED
    BY <2>1, <2>2, <2>3
<1>5. QED
  BY <1>2, <1>3, <1>4 DEF CuckooInv

\* A function of the first n positions is a sequence of length n.
LEMMA Listed ==
  ASSUME NEW S, NEW n \in Nat, NEW f \in [1..n -> S]
  PROVE  f \in Seq(S) /\ Len(f) = n /\ DOMAIN f = 1..n
OBVIOUS

\* What is known after a call has scores too.
LEMMA LaterScores ==
  ASSUME CuckooKnown'
  PROVE  Scores(memo')
<1>1. Points \subseteq Nat /\ Invalid \in Nat /\ RefusedAnswer \in Nat
  BY CuckooAssumption, PostRefinementAssumption
<1>2. \A n \in 0..Invalid : n \in Nat
  BY <1>1
<1>3. \A p \in DOMAIN memo' : p \in Nat /\ memo'[p] \in Nat
  BY <1>1, <1>2 DEF CuckooKnown
<1>4. QED
  BY <1>3 DEF CuckooKnown, Scores

\* The best of what is known after a call is what was best before it, or new.
LEMMA BestKept ==
  ASSUME CuckooKnown, CuckooKnown', ~NothingFound,
         \A p \in DOMAIN memo : p \in DOMAIN memo' /\ memo'[p] = memo[p],
         NEW e \in DOMAIN memo, BestOfAll(memo, e)
  PROVE  \E b \in DOMAIN memo' : BestOfAll(memo', b) /\ (b \in DOMAIN memo => b = e)
<1>1. Scores(memo')
  BY LaterScores
<1>2. \E p \in DOMAIN memo' : Finite(memo', p)
  BY DEF NothingFound, Finite
<1>3. PICK b \in DOMAIN memo' : BestOfAll(memo', b)
  BY <1>1, <1>2, BestPoint
<1>4. ASSUME b \in DOMAIN memo
      PROVE  b = e
  <2>1. b = e \/ IsBetter(memo, e, b)
    BY <1>4 DEF BestOfAll
  <2>2. b = e \/ IsBetter(memo', e, b)
    BY <1>4, <2>1 DEF IsBetter, Finite
  <2>3. e \in DOMAIN memo'
    OBVIOUS
  <2>4. QED
    BY <1>1, <1>3, <2>2, <2>3, BestPointUnique
<1>5. QED
  BY <1>3, <1>4

\* A trial: a new best point is better than every nest, so than the one it is tried on.
LEMMA TryNestKeeps ==
  ASSUME CuckooInv, TryNest, UNCHANGED notRefining
  PROVE  CuckooInv'
<1>1. PICK p \in Points, target \in 1..config.populationSize :
        /\ Evaluate(<<p>>, RefusedAnswer)
        /\ population' = IF IsBetter(memo', p, population[target])
                           THEN [population EXCEPT ![target] = p] ELSE population
  BY DEF TryNest
<1>2. /\ stage = "moving" /\ stage' = stage /\ history' = history /\ ~BudgetSpent
      /\ Iterates /\ Iterates'
  BY DEF TryNest, Iterates
<1>3. /\ CuckooKnown' /\ config' = config
      /\ DOMAIN memo' = DOMAIN memo \cup {p}
      /\ \A q \in DOMAIN memo : memo'[q] = memo[q]
  BY <1>1, CuckooTried DEF CuckooInv
<1>4. /\ population \in Seq(DOMAIN memo) /\ Len(population) = config.populationSize
      /\ ~NothingFound
  BY <1>2 DEF CuckooInv, NestsSound
<1>5. /\ DOMAIN population = 1..config.populationSize
      /\ \A i \in 1..config.populationSize : population[i] \in DOMAIN memo
  BY <1>4
<1>6. /\ population' \in Seq(DOMAIN memo') /\ Len(population') = config.populationSize
      /\ DOMAIN population' = 1..config.populationSize
  <2>1. population \in Seq(DOMAIN memo') /\ p \in DOMAIN memo'
    BY <1>3, <1>4
  <2>2. CASE population' = population
    BY <1>4, <2>1, <2>2
  <2>3. CASE population' = [population EXCEPT ![target] = p]
    <3>1. [population EXCEPT ![target] = p] \in [1..config.populationSize -> DOMAIN memo']
      BY <1>5, <2>1, <1>3
    <3>2. config.populationSize \in Nat
      BY CuckooConfig DEF CuckooInv, CuckooKnown
    <3>3. population' \in [1..config.populationSize -> DOMAIN memo']
      BY <2>3, <3>1
    <3>4. QED
      BY <3>2, <3>3, Listed
  <2>4. QED
    BY <1>1, <2>2, <2>3
<1>7. \A i \in 1..config.populationSize :
        population'[i] = IF i = target /\ IsBetter(memo', p, population[target]) THEN p ELSE population[i]
  BY <1>1, <1>5
<1>8. NestsSound'
  <2>1. ~NothingFound'
    BY <1>3, <1>4 DEF NothingFound, Finite
  <2>2. QED
    BY <1>2, <1>3, <1>6, <2>1 DEF NestsSound, Iterates
<1>9. EliteSound'
  <2>1. SUFFICES ASSUME config.abandonCount < config.populationSize
                 PROVE  \E i \in DOMAIN population' : BestOfAll(memo', population'[i])
    BY <1>3 DEF EliteSound
  <2>2. PICK i \in DOMAIN population : BestOfAll(memo, population[i])
    BY <1>2, <2>1 DEF CuckooInv, EliteSound
  <2>3. PICK b \in DOMAIN memo' :
          BestOfAll(memo', b) /\ (b \in DOMAIN memo => b = population[i])
    BY <1>3, <1>4, <1>5, <2>2, BestKept DEF CuckooInv
  <2>4. CASE b \in DOMAIN memo
    <3>1. b = population[i]
      BY <2>3, <2>4
    <3>2. ~IsBetter(memo', p, b) \/ p = b
      <4>1. Scores(memo') /\ p \in DOMAIN memo'
        BY <1>3, LaterScores
      <4>2. QED
        BY <2>3, <4>1, BestPointUnique
    <3>3. population'[i] = b
      BY <1>5, <1>7, <3>1, <3>2
    <3>4. QED
      BY <1>5, <1>6, <2>3, <3>3
  <2>5. CASE b \notin DOMAIN memo
    <3>1. b = p /\ population[target] \in DOMAIN memo
      BY <1>3, <1>5, <2>5
    <3>2. IsBetter(memo', p, population[target])
      BY <1>3, <2>3, <2>5, <3>1 DEF BestOfAll
    <3>3. population'[target] = b
      BY <1>7, <3>1, <3>2
    <3>4. QED
      BY <1>6, <2>3, <3>3
  <2>6. QED
    BY <2>4, <2>5
<1>10. NoRefusedNest'
  <2>1. ASSUME NEW i \in 1..config.populationSize
        PROVE  memo'[population'[i]] # RefusedAnswer
    <3>1. CASE population'[i] = population[i]
      <4>1. memo[population[i]] # RefusedAnswer
        BY <1>2, <1>5 DEF CuckooInv, NoRefusedNest
      <4>2. QED
        BY <1>3, <1>5, <3>1, <4>1
    <3>2. CASE population'[i] # population[i]
      <4>1. population'[i] = p /\ Finite(memo', p)
        BY <1>7, <3>2 DEF IsBetter
      <4>2. QED
        BY <4>1, CuckooAssumption, PostRefinementAssumption DEF Finite
    <3>3. QED
      BY <3>1, <3>2
  <2>2. QED
    BY <1>6, <2>1 DEF NoRefusedNest
<1>11. PolishSound'
  BY <1>2, PolishUntouched DEF CuckooInv
<1>12. QED
  BY <1>3, <1>8, <1>9, <1>10, <1>11 DEF CuckooInv


-----------------------------------------------------------------------------
(* Cuckoo: the ranking of the nests                                        *)

\* The order of the nests by (rank, index), as numbers: s, t and u are the scores of the
\* points x, y and z at the indices i, j and k.
RanksBefore(s, x, i, t, y, j) ==
  \/ s < Invalid /\ (s < t \/ (s = t /\ x < y))
  \/ ~(t < Invalid /\ (t < s \/ (t = s /\ y < x))) /\ i < j

\* It is transitive,
LEMMA RanksBeforeTransitive ==
  ASSUME Invalid \in Nat,
         NEW s \in Nat, NEW x \in Nat, NEW i \in Nat, NEW t \in Nat, NEW y \in Nat, NEW j \in Nat,
         NEW u \in Nat, NEW z \in Nat, NEW k \in Nat,
         RanksBefore(s, x, i, t, y, j), RanksBefore(t, y, j, u, z, k)
  PROVE  RanksBefore(s, x, i, u, z, k)
BY DEF RanksBefore

\* asymmetric
LEMMA RanksBeforeOneWay ==
  ASSUME Invalid \in Nat,
         NEW s \in Nat, NEW x \in Nat, NEW i \in Nat, NEW t \in Nat, NEW y \in Nat, NEW j \in Nat,
         RanksBefore(s, x, i, t, y, j)
  PROVE  ~RanksBefore(t, y, j, s, x, i)
BY DEF RanksBefore

\* and total on the indices.
LEMMA RanksBeforeTotal ==
  ASSUME Invalid \in Nat,
         NEW s \in Nat, NEW x \in Nat, NEW i \in Nat, NEW t \in Nat, NEW y \in Nat, NEW j \in Nat,
         i # j
  PROVE  RanksBefore(s, x, i, t, y, j) \/ RanksBefore(t, y, j, s, x, i)
BY DEF RanksBefore

Nests == 1..config.populationSize

NestOrder == {ji \in Nests \X Nests : ji[1] # ji[2] /\ RankedBefore(ji[1], ji[2])}

NestsKnown ==
  /\ config.populationSize \in Nat /\ population \in [Nests -> DOMAIN memo]

\* It is a strict order, so that the positions tell the nests apart.
LEMMA NestOrderStrict ==
  ASSUME Scores(memo), NestsKnown
  PROVE  StrictOrder(Nests, NestOrder)
<1>1. Invalid \in Nat
  BY CuckooAssumption, PostRefinementAssumption
<1>2. \A i \in Nests : i \in Nat /\ population[i] \in Nat /\ memo[population[i]] \in Nat
  BY DEF Nests, NestsKnown, Scores
<1>3. ASSUME NEW i \in Nests, NEW j \in Nests
      PROVE  <<i, j>> \in NestOrder <=>
               i # j /\ RanksBefore(memo[population[i]], population[i], i, memo[population[j]], population[j], j)
  BY <1>3 DEF NestOrder, RankedBefore, IsBetter, Finite, RanksBefore
<1>4. ASSUME NEW x \in Nests, NEW y \in Nests, NEW z \in Nests,
             <<x, y>> \in NestOrder, <<y, z>> \in NestOrder
      PROVE  <<x, z>> \in NestOrder
  <2>1. /\ RanksBefore(memo[population[x]], population[x], x, memo[population[y]], population[y], y)
        /\ RanksBefore(memo[population[y]], population[y], y, memo[population[z]], population[z], z)
    BY <1>3, <1>4
  <2>2. x # z
    <3>1. ~RanksBefore(memo[population[y]], population[y], y, memo[population[x]], population[x], x)
      BY <1>1, <1>2, <2>1, RanksBeforeOneWay
    <3>2. QED
      BY <2>1, <3>1
  <2>3. RanksBefore(memo[population[x]], population[x], x, memo[population[z]], population[z], z)
    BY <1>1, <1>2, <2>1, RanksBeforeTransitive
  <2>4. QED
    BY <1>3, <2>2, <2>3
<1>5. ASSUME NEW x \in Nests, NEW y \in Nests, x # y
      PROVE  <<x, y>> \in NestOrder \/ <<y, x>> \in NestOrder
  <2>1. \/ RanksBefore(memo[population[x]], population[x], x, memo[population[y]], population[y], y)
        \/ RanksBefore(memo[population[y]], population[y], y, memo[population[x]], population[x], x)
    BY <1>1, <1>2, <1>5, RanksBeforeTotal
  <2>2. QED
    BY <1>3, <1>5, <2>1
<1>6. \A x \in Nests : <<x, x>> \notin NestOrder
  BY DEF NestOrder
<1>7. QED
  BY <1>4, <1>5, <1>6 DEF StrictOrder

\* Every position is that of one nest, and the first is that of a best point.
LEMMA PositionFacts ==
  ASSUME Scores(memo), NestsKnown
  PROVE  /\ \A i \in Nests : Position(i) \in 0..(config.populationSize - 1)
         /\ \A n \in 0..(config.populationSize - 1) : \E i \in Nests : Position(i) = n
         /\ \A e \in Nests :
              /\ \A j \in Nests : population[j] = population[e] => e <= j
              /\ BestOfAll(memo, population[e])
              => Position(e) = 0
<1>1. IsFiniteSet(Nests) /\ Cardinality(Nests) = config.populationSize
  BY FS_Interval DEF Nests, NestsKnown
<1>2. ASSUME NEW i \in Nests
      PROVE  Position(i) = Rank(Nests, NestOrder, i)
  <2>1. {j \in Nests : j # i /\ RankedBefore(j, i)} = {j \in Nests : <<j, i>> \in NestOrder}
    BY DEF NestOrder
  <2>2. \A S : Cardinality(S) = Cardinality(S)
    BY DEF Cardinality
  <2>3. QED
    BY <2>1, <2>2 DEF Position, Rank, Nests
<1>3. \A i \in Nests : Rank(Nests, NestOrder, i) \in 0..(config.populationSize - 1)
  BY <1>1, NestOrderStrict, RankRises
<1>4. \A n \in 0..(config.populationSize - 1) : \E i \in Nests : Rank(Nests, NestOrder, i) = n
  BY <1>1, NestOrderStrict, RankBijective
<1>5. ASSUME NEW e \in Nests, BestOfAll(memo, population[e]),
             \A j \in Nests : population[j] = population[e] => e <= j
      PROVE  Rank(Nests, NestOrder, e) = 0
  <2>1. ASSUME NEW j \in Nests, <<j, e>> \in NestOrder
        PROVE  FALSE
    <3>1. j # e /\ RankedBefore(j, e)
      BY <2>1 DEF NestOrder
    <3>2. /\ e \in Nat /\ j \in Nat /\ population[j] \in DOMAIN memo /\ population[e] \in DOMAIN memo
          /\ \A p \in DOMAIN memo : p \in Nat /\ memo[p] \in Nat
      BY DEF Nests, NestsKnown, Scores
    <3>3. CASE population[j] = population[e]
      BY <1>5, <3>1, <3>2, <3>3 DEF RankedBefore, IsBetter
    <3>4. CASE population[j] # population[e]
      <4>1. IsBetter(memo, population[e], population[j])
        BY <1>5, <3>2, <3>4 DEF BestOfAll
      <4>2. ~IsBetter(memo, population[j], population[e])
        BY <3>2, <4>1 DEF IsBetter
      <4>3. QED
        BY <3>1, <4>1, <4>2 DEF RankedBefore
    <3>5. QED
      BY <3>3, <3>4
  <2>2. {j \in Nests : <<j, e>> \in NestOrder} = {}
    BY <2>1
  <2>3. QED
    BY <2>2, FS_EmptySet DEF Rank
<1>6. QED
  BY <1>2, <1>3, <1>4, <1>5

\* An abandonment: the best point is at the first position, before the tail, and a new
\* best point is one of the vectors of the tail. If the budget ends there, only the first
\* vector, which was paid for, becomes a nest.
LEMMA AbandonWorstKeeps ==
  ASSUME CuckooInv, AbandonWorst, UNCHANGED notRefining
  PROVE  CuckooInv'
<1> DEFINE n == config.populationSize
           k == config.abandonCount
           tail(i) == Position(i) - TailStart
<1>1. PICK vectors \in [1..k -> Points] :
        /\ Evaluate(vectors, RefusedAnswer)
        /\ population' =
             [i \in 1..n |->
                IF tail(i) \in 0..(Taken(spent') - 1) THEN vectors[tail(i) + 1] ELSE population[i]]
  BY DEF AbandonWorst
<1>2. /\ stage = "abandoning" /\ stage' = "closing" /\ history' = history /\ ~BudgetSpent
      /\ Iterates /\ Iterates'
  BY DEF AbandonWorst, Iterates
<1>3. /\ n \in Nat \ {0, 1} /\ k \in Nat \ {0} /\ k <= n /\ config.maxEvaluations \in Nat
      /\ TailStart = n - k
  BY CuckooConfig DEF CuckooInv, CuckooKnown, TailStart
<1>4. /\ CuckooKnown' /\ config' = config
      /\ DOMAIN memo' = DOMAIN memo \cup {vectors[i] : i \in 1..k}
      /\ \A p \in DOMAIN memo : memo'[p] = memo[p]
  BY <1>1, <1>3, CuckooEvaluated DEF CuckooInv
<1>5. /\ population \in Seq(DOMAIN memo) /\ Len(population) = n /\ ~NothingFound
  BY <1>2 DEF CuckooInv, NestsSound
<1>6. NestsKnown /\ Scores(memo) /\ Nests = 1..n /\ DOMAIN population = 1..n
  BY <1>3, <1>5, KnownScores DEF NestsKnown, Nests, CuckooInv
<1>7. /\ \A i \in 1..n : Position(i) \in 0..(n - 1)
      /\ \A m \in 0..(n - 1) : \E i \in 1..n : Position(i) = m
  BY <1>6, PositionFacts
<1>8. Taken(spent') \in 1..k
  BY <1>3 DEF Taken
<1> HIDE DEF n, k, tail
<1>9. ASSUME NEW i \in 1..n
      PROVE  /\ population'[i] \in DOMAIN memo'
             /\ \/ population'[i] = population[i]
                \/ \E m \in 1..Taken(spent') : population'[i] = vectors[m]
  <2>1. CASE tail(i) \in 0..(Taken(spent') - 1)
    <3>1. tail(i) + 1 \in 1..Taken(spent') /\ tail(i) + 1 \in 1..k
      BY <1>3, <1>8, <2>1
    <3>2. population'[i] = vectors[tail(i) + 1]
      BY <1>1, <2>1
    <3>3. QED
      BY <1>4, <3>1, <3>2
  <2>2. CASE tail(i) \notin 0..(Taken(spent') - 1)
    <3>1. population'[i] = population[i]
      BY <1>1, <2>2
    <3>2. QED
      BY <1>4, <1>5, <1>6, <3>1
  <2>3. QED
    BY <2>1, <2>2
<1>10. population' \in Seq(DOMAIN memo') /\ Len(population') = n /\ DOMAIN population' = 1..n
  <2>1. population' \in [1..n -> DOMAIN memo'] /\ n \in Nat
    BY <1>1, <1>3, <1>9
  <2>2. QED
    BY <2>1, Listed
<1>11. NestsSound'
  <2>1. ~NothingFound'
    BY <1>4, <1>5 DEF NothingFound, Finite
  <2>2. QED
    BY <1>2, <1>4, <1>10, <2>1 DEF NestsSound, Iterates, n
<1>12. EliteSound'
  <2>1. SUFFICES ASSUME ~BudgetSpent', k < n
                 PROVE  \E i \in DOMAIN population' : BestOfAll(memo', population'[i])
    BY <1>4 DEF EliteSound, n, k
  <2>2. Taken(spent') = k
    BY <1>4, <2>1 DEF BudgetSpent, Taken, k
  <2>3. PICK e0 \in 1..n : BestOfAll(memo, population[e0])
    BY <1>2, <1>6, <2>1 DEF CuckooInv, EliteSound, n, k
  <2>4. PICK e \in 1..n : population[e] = population[e0] /\ \A j \in 1..n : population[j] = population[e] => e <= j
    <3> DEFINE T == {i \in 1..n : population[i] = population[e0]}
    <3>1. T \subseteq Nat /\ T # {}
      BY <1>3, <2>3
    <3>2. PICK e \in T : \A j \in T : e <= j
      BY <3>1, LeastNatural
    <3>3. QED
      BY <3>2
  <2>5. Position(e) = 0 /\ population[e] \in DOMAIN memo
    <3>1. e \in Nests /\ BestOfAll(memo, population[e]) /\ \A j \in Nests : population[j] = population[e] => e <= j
      BY <1>6, <2>3, <2>4
    <3>2. QED
      BY <1>6, <3>1, PositionFacts DEF NestsKnown
  <2>6. PICK b \in DOMAIN memo' :
          BestOfAll(memo', b) /\ (b \in DOMAIN memo => b = population[e])
    <3>1. BestOfAll(memo, population[e]) /\ \A p \in DOMAIN memo : p \in DOMAIN memo' /\ memo'[p] = memo[p]
      BY <1>4, <2>3, <2>4
    <3>2. QED
      BY <1>4, <1>5, <2>5, <3>1, BestKept DEF CuckooInv
  <2>7. CASE b \in DOMAIN memo
    <3>1. tail(e) < 0
      BY <1>3, <2>1, <2>5 DEF tail
    <3>2. population'[e] = population[e]
      BY <1>1, <3>1
    <3>3. QED
      BY <1>10, <2>6, <2>7, <3>2
  <2>8. CASE b \notin DOMAIN memo
    <3>1. PICK m \in 1..k : vectors[m] = b
      BY <1>4, <2>8
    <3>2. PICK i \in 1..n : Position(i) = n - k + (m - 1)
      <4>1. n - k + (m - 1) \in 0..(n - 1)
        BY <1>3
      <4>2. QED
        BY <1>7, <4>1
    <3>3. tail(i) = m - 1 /\ m - 1 \in 0..(k - 1) /\ tail(i) + 1 = m
      BY <1>3, <3>2 DEF tail
    <3>4. population'[i] = b
      BY <1>1, <2>2, <3>1, <3>3
    <3>5. QED
      BY <1>10, <2>6, <3>4
  <2>9. QED
    BY <2>7, <2>8
<1>13. NoRefusedNest'
  <2>1. \A p \in DOMAIN memo : memo'[p] \in 0..Invalid
    BY <1>2, <1>4 DEF CuckooInv, CuckooKnown, BudgetSound, BudgetSpent
  <2>2. RefusedAnswer \notin 0..Invalid
    BY CuckooAssumption, PostRefinementAssumption
  <2>3. ASSUME NEW m \in 1..Taken(spent')
        PROVE  memo'[vectors[m]] # RefusedAnswer
    <3>1. m \in 1..k /\ vectors[m] \in DOMAIN memo' /\ vectors[m] \in Points
      BY <1>1, <1>3, <1>4, <1>8
    <3>2. CASE spent' < config.maxEvaluations
      BY <1>4, <2>2, <3>1, <3>2 DEF CuckooKnown, BudgetSound
    <3>3. CASE ~(spent' < config.maxEvaluations)
      <4>1. m = 1
        BY <1>3, <1>4, <3>3 DEF Taken, CuckooKnown, BudgetSound
      <4>2. CASE vectors[1] \in DOMAIN memo
        BY <2>1, <2>2, <4>1, <4>2
      <4>3. CASE vectors[1] \notin DOMAIN memo
        <5>1. Request(vectors) /\ 1 \in DOMAIN vectors /\ \A j \in DOMAIN vectors : 1 <= j
          BY <1>1, <1>3, FS_Interval DEF Request
        <5>2. BudgetSound /\ spent < config.maxEvaluations
          BY <1>2 DEF CuckooInv, CuckooKnown, BudgetSound, BudgetSpent
        <5>3. Answered(vectors, RefusedAnswer)
          BY <1>1, EvaluateAnswers
        <5>4. memo'[vectors[1]] \in ScoresAt(vectors[1])
          BY <4>3, <5>1, <5>2, <5>3, FirstPaid
        <5>5. ScoresAt(vectors[1]) \subseteq 0..Invalid
          BY <3>1, <4>1, CuckooAssumption
        <5>6. QED
          BY <2>2, <4>1, <5>4, <5>5
      <4>4. QED
        BY <4>2, <4>3
    <3>4. QED
      BY <3>2, <3>3
  <2>4. ASSUME NEW i \in 1..n
        PROVE  memo'[population'[i]] # RefusedAnswer
    <3>1. CASE population'[i] = population[i]
      BY <1>5, <1>6, <2>1, <2>2, <3>1
    <3>2. CASE \E m \in 1..Taken(spent') : population'[i] = vectors[m]
      BY <2>3, <3>2
    <3>3. QED
      BY <1>9, <3>1, <3>2
  <2>5. QED
    BY <1>10, <2>4 DEF NoRefusedNest
<1>14. PolishSound'
  BY <1>2, PolishUntouched DEF CuckooInv
<1>15. QED
  BY <1>4, <1>11, <1>12, <1>13, <1>14 DEF CuckooInv

\* The polish starts from the best surface the evaluator knows.
LEMMA CuckooStartRefinementKeeps ==
  ASSUME CuckooInv, StartPolish
  PROVE  CuckooInv'
<1> DEFINE valid == {q \in DOMAIN memo : Finite(memo, q)}
           answer(p) == [surface |-> p, fos |-> memo[p]]
           found == {answer(p) : p \in valid}
<1>1. /\ stage = "finished" /\ winner' = BestNest /\ stage' \in {"refining", "done"}
      /\ UNCHANGED <<config, memo, spent, population, history>>
      /\ UNCHANGED <<solved, running, passesLeft, batches>>
      /\ Iterates /\ Iterates'
  BY DEF StartPolish, objectiveVars, refinementVars, Iterates
<1>2. CuckooKnown' /\ NestsSound' /\ EliteSound' /\ NoRefusedNest'
  BY <1>1 DEF CuckooInv, CuckooKnown, BudgetSound, NestsSound, EliteSound, Iterates,
     NothingFound, BudgetSpent, Finite, BestOfAll, IsBetter, NoRefusedNest
<1>3. Scores(memo) /\ Invalid \in Nat
  BY KnownScores, CuckooAssumption, PostRefinementAssumption DEF CuckooInv
<1>4. \A p \in DOMAIN memo : answer(p) \in Answers
  BY <1>3 DEF Scores, Answers
<1>5. IsFiniteSet(found)
  <2> DEFINE f == [p \in valid |-> answer(p)]
  <2>1. IsFiniteSet(valid)
    BY <1>3, FS_Subset DEF Scores
  <2>2. DOMAIN f = valid /\ found = {f[p] : p \in valid}
    OBVIOUS
  <2> HIDE DEF f, found, valid
  <2>3. QED
    BY <2>1, <2>2, ImageFinite
<1>6. found # {}
  BY <1>1 DEF CuckooInv, NestsSound, NothingFound
<1>7. found \subseteq Answers
  BY <1>4
<1>8. BestNest = BestSurface(found)
  BY DEF BestNest
<1>9. winner' \in Answers /\ \A other \in found : other = winner' \/ BetterSurface(winner', other)
  BY <1>1, <1>5, <1>6, <1>7, <1>8, BestSurfaceFacts
<1>10. /\ DOMAIN solved = {} /\ batches = 0 /\ PassesSound
  BY <1>1 DEF CuckooInv, PolishSound
<1>11. StartOfPass' = winner'
  BY <1>1, <1>10 DEF StartOfPass
<1>12. PassesSound' /\ SolvedBeaten(StartOfPass)'
  BY <1>1, <1>9, <1>10 DEF PassesSound, SolvedSound, SolvedBeaten
<1>13. ASSUME NEW p \in DOMAIN memo, ~(memo[p] >= Invalid)
       PROVE  answer(p) = winner' \/ BetterSurface(winner', answer(p))
  <2>1. p \in valid
    BY <1>3, <1>13 DEF Scores, Finite
  <2>2. answer(p) \in found
    BY <2>1
  <2>3. QED
    BY <1>9, <2>2
<1>14. PointsBeaten(StartOfPass)'
  BY <1>1, <1>11, <1>13 DEF PointsBeaten
<1>15. PolishSound'
  BY <1>1, <1>10, <1>12, <1>14 DEF PolishSound
<1>16. QED
  BY <1>2, <1>15 DEF CuckooInv

\* A step of the polish only improves on it.
LEMMA CuckooRefineWinnerKeeps ==
  ASSUME CuckooInv, RefineCuckooWinner
  PROVE  CuckooInv'
<1>1. /\ stage = "refining" /\ Refine
      /\ stage' = IF passesLeft' = <<>> THEN "done" ELSE stage
      /\ UNCHANGED <<config, memo, spent, population, history>>
      /\ Iterates /\ Iterates'
  BY DEF RefineCuckooWinner, RefineWinner, objectiveVars, Iterates
<1>2. CuckooKnown' /\ NestsSound' /\ EliteSound' /\ NoRefusedNest'
  BY <1>1 DEF CuckooInv, CuckooKnown, BudgetSound, NestsSound, EliteSound, Iterates,
     NothingFound, BudgetSpent, Finite, BestOfAll, IsBetter, NoRefusedNest
<1>3. /\ PassesSound' /\ SolvedBeaten(StartOfPass)'
      /\ StartOfPass' = StartOfPass \/ BetterSurface(StartOfPass', StartOfPass)
  BY <1>1, RefineKeeps DEF CuckooInv, PolishSound
<1>4. stage' = "done" => batches' = 0
  BY <1>1 DEF Refine, SweepBatch, EndPass
<1>5. /\ StartOfPass \in Answers /\ StartOfPass' \in Answers
  BY <1>3 DEF CuckooInv, PolishSound, PassesSound, StartOfPass
<1>6. ASSUME NEW p \in DOMAIN memo, ~(memo[p] >= Invalid)
      PROVE  LET found == [surface |-> p, fos |-> memo[p]]
             IN  found = StartOfPass' \/ BetterSurface(StartOfPass', found)
  <2> DEFINE found == [surface |-> p, fos |-> memo[p]]
  <2>1. found = StartOfPass \/ BetterSurface(StartOfPass, found)
    BY <1>1, <1>6 DEF CuckooInv, PolishSound, PointsBeaten
  <2>2. found \in Answers
    BY KnownScores DEF CuckooInv, Scores, Answers
  <2>3. QED
    BY <1>3, <1>5, <2>1, <2>2, BetterTransitive
<1>7. PointsBeaten(StartOfPass)'
  BY <1>1, <1>6 DEF PointsBeaten
<1>8. PolishSound'
  BY <1>1, <1>3, <1>4, <1>7 DEF PolishSound
<1>9. QED
  BY <1>2, <1>8 DEF CuckooInv

\* Every step of the search keeps the invariant.
LEMMA CuckooStepKeeps ==
  ASSUME CuckooInv, [CuckooNext]_cuckooVars
  PROVE  CuckooInv'
<1>1. CASE SearchStep /\ UNCHANGED notRefining
  <2>1. CASE SeedNest \/ FillNest
    BY <1>1, <2>1, SeedingKeeps
  <2>2. CASE Seeded
    BY <1>1, <2>2, SeededKeeps
  <2>3. CASE \/ BeginIteration \/ LoopEnds \/ TrialsEnd
             \/ KeepWorst \/ CloseIteration
    BY <1>1, <2>3, QuietKeeps
  <2>4. CASE TryNest
    BY <1>1, <2>4, TryNestKeeps
  <2>5. CASE AbandonWorst
    BY <1>1, <2>5, AbandonWorstKeeps
  <2>6. QED
    BY <1>1, <2>1, <2>2, <2>3, <2>4, <2>5 DEF SearchStep
<1>2. CASE StartPolish
  BY <1>2, CuckooStartRefinementKeeps
<1>3. CASE RefineCuckooWinner
  BY <1>3, CuckooRefineWinnerKeeps
<1>4. CASE UNCHANGED cuckooVars
  <2>1. UNCHANGED <<config, memo, spent, population, history, stage, solved, winner, running, passesLeft, batches>>
    BY <1>4 DEF cuckooVars, objectiveVars, cuckooSearchVars, refinementVars
  <2>2. CuckooKnown' /\ NestsSound' /\ EliteSound' /\ NoRefusedNest'
    BY <2>1 DEF CuckooInv, CuckooKnown, BudgetSound, NestsSound, EliteSound, Iterates,
       NothingFound, BudgetSpent, Finite, BestOfAll, IsBetter, NoRefusedNest
  <2>3. PolishSound'
    BY <2>1 DEF CuckooInv, PolishSound, PassesSound, SolvedSound, SolvedBeaten, PointsBeaten,
       StartOfPass
  <2>4. QED
    BY <2>2, <2>3 DEF CuckooInv
<1>5. QED
  BY <1>1, <1>2, <1>3, <1>4 DEF CuckooNext

\* So the invariant holds throughout.
LEMMA CuckooInvariant ==
  CuckooSpec => []CuckooInv
<1>1. CuckooInit => CuckooInv
  BY CuckooStarts
<1>2. CuckooInv /\ [CuckooNext]_cuckooVars => CuckooInv'
  BY CuckooStepKeeps
<1>3. QED
  BY <1>1, <1>2, PTL DEF CuckooSpec

-----------------------------------------------------------------------------
(* Cuckoo: what it promises                                                *)

\* A point the budget refused never becomes a nest of run_cuckoo_global_search() once it
\* iterates: the loop over the abandoned nests breaks where the budget ends.
THEOREM CuckooNoRefusedNest == CuckooSpec => []NoRefusedNest
<1>1. CuckooInv => NoRefusedNest
  BY DEF CuckooInv
<1>2. QED
  BY <1>1, CuckooInvariant, PTL

\* The population never loses the best point while the budget lasts, and the surface
\* returned is at least as good as every point and every surface of the passes.
THEOREM CuckooEliteKept == CuckooSpec => []EliteKept
<1>1. ASSUME CuckooInv
      PROVE  EliteKept
  <2>1. ASSUME ~BudgetSpent, ~NothingFound, config.abandonCount < config.populationSize
        PROVE  \E i \in DOMAIN population :
                 \A p \in DOMAIN memo : p = population[i] \/ IsBetter(memo, population[i], p)
    <3>1. \E i \in DOMAIN population : BestOfAll(memo, population[i])
      <4>1. CASE stage = "seeding"
        <5>1. PICK p \in DOMAIN memo : Finite(memo, p) /\ BestOfAll(memo, p)
          BY <1>1, <2>1, KnownScores, BestPoint DEF CuckooInv, NothingFound
        <5>2. PICK i \in DOMAIN population : population[i] = p
          BY <1>1, <4>1, <5>1 DEF CuckooInv, NestsSound
        <5>3. QED
          BY <5>1, <5>2
      <4>2. CASE stage # "seeding"
        BY <1>1, <2>1, <4>2 DEF CuckooInv, EliteSound, NestsSound, Iterates
      <4>3. QED
        BY <4>1, <4>2
    <3>2. QED
      BY <3>1 DEF BestOfAll
  <2>2. ASSUME stage = "done"
        PROVE  \A found \in {[surface |-> p, fos |-> memo[p]] : p \in DOMAIN memo}
                            \cup {[surface |-> s, fos |-> solved[s]] : s \in DOMAIN solved} :
                 found.fos >= Invalid \/ found = winner \/ BetterSurface(winner, found)
    <3>1. PointsBeaten(winner) /\ SolvedBeaten(winner)
      BY <1>1, <2>2 DEF CuckooInv, PolishSound, StartOfPass
    <3>2. Invalid \in Nat /\ Invalid = Invalid
      BY CuckooAssumption, PostRefinementAssumption
    <3>3. ASSUME NEW p \in DOMAIN memo
          PROVE  LET found == [surface |-> p, fos |-> memo[p]]
                 IN  found.fos >= Invalid \/ found = winner \/ BetterSurface(winner, found)
      BY <3>1, <3>2 DEF PointsBeaten
    <3>4. ASSUME NEW s \in DOMAIN solved
          PROVE  LET found == [surface |-> s, fos |-> solved[s]]
                 IN  found.fos >= Invalid \/ found = winner \/ BetterSurface(winner, found)
      <4>1. solved[s] = Invalid \/ [surface |-> s, fos |-> solved[s]] = winner
            \/ BetterSurface(winner, [surface |-> s, fos |-> solved[s]])
        BY <3>1 DEF SolvedBeaten
      <4>2. solved[s] = Invalid => solved[s] >= Invalid
        BY <3>2
      <4>3. QED
        BY <4>1, <4>2
    <3>5. QED
      BY <3>3, <3>4
  <2>3. QED
    BY <2>1, <2>2 DEF EliteKept
<1>2. CuckooInv => EliteKept
  BY <1>1
<1>3. QED
  BY <1>2, CuckooInvariant, PTL

-----------------------------------------------------------------------------
(* Cuckoo: types                                                           *)

\* With the invariant: an iteration that has begun is one of those allowed.
CuckooTypes ==
  /\ \A p \in DOMAIN memo : memo[p] \in ScoresAt(p) \cup {RefusedAnswer}
  /\ Len(population) <= config.populationSize
  /\ attempts \in 0..(AttemptsFactor * config.populationSize)
  /\ stage \in {"seeding", "head", "moving", "abandoning", "closing", "finished",
               "refining", "done", "failed"}
  /\ nest \in 1..(config.populationSize + 1)
  /\ history \in Seq(Nat) /\ Len(history) <= config.maxIterations
  /\ stage \in {"moving", "abandoning", "closing"} => Len(history) < config.maxIterations
  /\ reason \in {"max_iterations", "max_evaluations", "stall_tolerance_reached"}

\* What a call answers is a score of its point, or the refusal.
LEMMA CuckooAnswersTyped ==
  ASSUME CuckooKnown,
         NEW k \in Nat, NEW request \in [1..k -> Points], Evaluate(request, RefusedAnswer),
         \A p \in DOMAIN memo : memo[p] \in ScoresAt(p) \cup {RefusedAnswer}
  PROVE  \A p \in DOMAIN memo' : memo'[p] \in ScoresAt(p) \cup {RefusedAnswer}
<1>1. Request(request)
  BY FS_Interval DEF Request
<1>2. /\ \A p \in DOMAIN memo : memo'[p] = memo[p]
      /\ \A p \in DOMAIN memo' \ DOMAIN memo :
           \/ memo'[p] \in ScoresAt(p)
           \/ memo'[p] = RefusedAnswer /\ spent' = config.maxEvaluations
  BY <1>1, EvaluateAnswers, AnsweredFacts DEF CuckooKnown
<1>3. QED
  BY <1>2

\* The configuration stays, and its sizes are natural numbers.
LEMMA CuckooSizes ==
  ASSUME CuckooKnown
  PROVE  /\ config.populationSize \in Nat \ {0, 1} /\ config.maxIterations \in Nat \ {0}
         /\ AttemptsFactor * config.populationSize \in Nat
<1>1. config \in CuckooConfigurationType /\ AttemptsFactor \in Nat
  BY CuckooAssumption DEF CuckooKnown
<1>2. config.populationSize \in Nat \ {0, 1} /\ config.maxIterations \in Nat \ {0}
  BY <1>1 DEF CuckooConfigurationType
<1>3. QED
  BY <1>1, <1>2

\* The records of the first state are those of the type invariant.
LEMMA CuckooTypesInit ==
  ASSUME CuckooInv, CuckooInit
  PROVE  CuckooTypes
<1>1. /\ DOMAIN memo = {} /\ population = <<>> /\ attempts = 0 /\ stage = "seeding" /\ nest = 1
      /\ history = <<>> /\ reason = "max_iterations"
  BY DEF CuckooInit, ObjectiveInit
<1>2. CuckooKnown
  BY DEF CuckooInv
<1>3. QED
  BY <1>1, <1>2, CuckooSizes DEF CuckooTypes

\* The steps that evaluate: the seeding, a trial and an abandonment.
LEMMA CuckooTypesEvaluating ==
  ASSUME CuckooInv, CuckooInv', CuckooTypes, UNCHANGED notRefining,
         SeedNest \/ FillNest \/ TryNest \/ AbandonWorst
  PROVE  CuckooTypes'
<1>1. CuckooKnown /\ config' = config
  BY DEF CuckooInv, SeedNest, FillNest, TryNest, AbandonWorst, Evaluate, Ask
<1>2. /\ config.populationSize \in Nat \ {0, 1} /\ config.maxIterations \in Nat \ {0}
      /\ AttemptsFactor * config.populationSize \in Nat
  BY <1>1, CuckooSizes
<1>3. \A p \in DOMAIN memo' : memo'[p] \in ScoresAt(p) \cup {RefusedAnswer}
  <2>1. \E k \in Nat : \E request \in [1..k -> Points] : Evaluate(request, RefusedAnswer)
    <3>1. CASE \E p \in Points : Evaluate(<<p>>, RefusedAnswer)
      <4>1. PICK p \in Points : Evaluate(<<p>>, RefusedAnswer)
        BY <3>1
      <4>2. <<p>> \in [1..1 -> Points]
        OBVIOUS
      <4>3. QED
        BY <4>1, <4>2
    <3>2. CASE \E vectors \in [1..config.abandonCount -> Points] : Evaluate(vectors, RefusedAnswer)
      <4>1. config.abandonCount \in Nat
        BY <1>1, CuckooConfig DEF CuckooKnown
      <4>2. QED
        BY <3>2, <4>1
    <3>3. QED
      BY <3>1, <3>2 DEF SeedNest, FillNest, TryNest, AbandonWorst
  <2>2. PICK k \in Nat : \E request \in [1..k -> Points] : Evaluate(request, RefusedAnswer)
    BY <2>1
  <2>3. PICK request \in [1..k -> Points] : Evaluate(request, RefusedAnswer)
    BY <2>2
  <2>4. QED
    BY <1>1, <2>3, CuckooAnswersTyped DEF CuckooTypes
<1>4. CASE SeedNest \/ FillNest
  <2>1. /\ stage = "seeding" /\ Len(population) # config.populationSize
        /\ population' = population \/ \E p \in Points : population' = Append(population, p)
        /\ UNCHANGED <<stage, nest, history, reason>>
    BY <1>4 DEF SeedNest, FillNest, Full
  <2>2. population \in Seq(DOMAIN memo)
    BY DEF CuckooInv, NestsSound
  <2>3. Len(population') <= config.populationSize
    BY <1>2, <2>1, <2>2 DEF CuckooTypes
  <2>4. attempts' \in 0..(AttemptsFactor * config.populationSize)
    BY <1>2, <1>4 DEF CuckooTypes, SeedNest, FillNest, CountAttempt, AttemptsLeft
  <2>5. QED
    BY <1>1, <1>3, <2>1, <2>3, <2>4 DEF CuckooTypes
<1>5. CASE TryNest \/ AbandonWorst
  <2>1. /\ stage \in {"moving", "abandoning"} /\ stage' \in {"moving", "closing"}
        /\ nest' = nest \/ (nest' = nest + 1 /\ nest <= config.populationSize)
        /\ reason' \in {reason, "max_evaluations"}
        /\ UNCHANGED <<attempts, history>>
    BY <1>5 DEF TryNest, AbandonWorst
  <2>2. Len(population') <= config.populationSize
    <3>1. Len(population') = config.populationSize
      BY <1>1, <2>1 DEF CuckooInv, NestsSound, Iterates
    <3>2. QED
      BY <1>2, <3>1
  <2>3. nest' \in 1..(config.populationSize + 1)
    BY <1>2, <2>1 DEF CuckooTypes
  <2>4. QED
    BY <1>1, <1>3, <2>1, <2>2, <2>3 DEF CuckooTypes
<1>6. QED
  BY <1>4, <1>5

\* The other steps.
LEMMA CuckooTypesQuiet ==
  ASSUME CuckooInv, CuckooTypes,
         \/ Seeded \/ BeginIteration \/ LoopEnds \/ TrialsEnd
         \/ KeepWorst \/ CloseIteration
         \/ StartPolish \/ RefineCuckooWinner \/ UNCHANGED cuckooVars
  PROVE  CuckooTypes'
<1>1. CuckooKnown
  BY DEF CuckooInv
<1>2. config.populationSize \in Nat \ {0, 1} /\ config.maxIterations \in Nat \ {0}
  BY <1>1, CuckooSizes
<1>3. UNCHANGED <<config, memo, population, attempts>>
  BY DEF Seeded, BeginIteration, LoopEnds, TrialsEnd, KeepWorst, CloseIteration, StartPolish,
     RefineCuckooWinner, RefineWinner, cuckooVars, cuckooSearchVars, objectiveVars
<1>4. CASE BeginIteration
  <2>1. Len(history) < config.maxIterations
    BY <1>4 DEF BeginIteration
  <2>2. stage' = "moving" /\ nest' = 1 /\ UNCHANGED <<history, reason>>
    BY <1>4 DEF BeginIteration
  <2>3. QED
    BY <1>2, <1>3, <2>1, <2>2 DEF CuckooTypes
<1>5. CASE CloseIteration
  <2>1. /\ stage = "closing" /\ history' = Append(history, BestFound(memo))
        /\ stage' \in {"finished", "head"} /\ nest' = nest
        /\ reason' \in {reason, "stall_tolerance_reached"}
    BY <1>5 DEF CloseIteration
  <2>2. BestFound(memo) \in Nat
    <3> DEFINE T == {memo[p] : p \in DOMAIN memo}
    <3>1. T \subseteq Nat
      BY <1>1, KnownScores DEF Scores
    <3>2. T # {}
      BY <2>1 DEF CuckooInv, NestsSound, Iterates, NothingFound
    <3>3. BestFound(memo) = Min(T)
      BY DEF BestFound, Min
    <3> HIDE DEF T
    <3>4. QED
      BY <3>1, <3>2, <3>3, MinFacts
  <2>3. history' \in Seq(Nat) /\ Len(history') = Len(history) + 1
    BY <2>1, <2>2 DEF CuckooTypes
  <2>4. Len(history') <= config.maxIterations
    BY <1>2, <2>1, <2>3 DEF CuckooTypes
  <2>5. QED
    BY <1>3, <2>1, <2>3, <2>4 DEF CuckooTypes
<1>6. CASE \/ Seeded \/ LoopEnds \/ TrialsEnd \/ KeepWorst
           \/ StartPolish \/ RefineCuckooWinner \/ UNCHANGED cuckooVars
  <2>1. /\ UNCHANGED <<nest, history>>
        /\ reason' \in {reason, "max_evaluations"}
        /\ stage' \in {"failed", "head", "finished", "refining", "done", stage}
           \/ (stage \in {"moving", "abandoning"} /\ stage' \in {"abandoning", "closing"})
    BY <1>6 DEF Seeded, LoopEnds, TrialsEnd, KeepWorst, StartPolish, RefineCuckooWinner, RefineWinner,
       cuckooVars, cuckooSearchVars
  <2>2. QED
    BY <1>3, <2>1 DEF CuckooTypes
<1>7. QED
  BY <1>4, <1>5, <1>6

\* Every variable of the Cuckoo search keeps its type, for every population, budget and
\* number of attempts.
THEOREM CuckooTypeCorrect == CuckooSpec => []CuckooTypeOK
<1>1. CuckooInv /\ CuckooInit => CuckooTypes
  BY CuckooTypesInit
<1>2. ASSUME CuckooInv, CuckooInv', CuckooTypes, [CuckooNext]_cuckooVars
      PROVE  CuckooTypes'
  BY <1>2, CuckooTypesEvaluating, CuckooTypesQuiet DEF CuckooNext, SearchStep
<1>3. ASSUME CuckooInv, CuckooTypes
      PROVE  CuckooTypeOK
  <2>1. DOMAIN memo \subseteq Points /\ config \in CuckooConfigurations /\ spent \in 0..config.maxEvaluations
    BY <1>3 DEF CuckooInv, CuckooKnown, BudgetSound
  <2>2. population \in Seq(DOMAIN memo) /\ (Iterating => Full)
    BY <1>3 DEF CuckooInv, NestsSound, Iterates, Iterating, Full
  <2>3. QED
    BY <1>3, <2>1, <2>2 DEF CuckooTypes, CuckooTypeOK
<1>4. CuckooInv /\ CuckooInv' /\ CuckooTypes /\ [CuckooNext]_cuckooVars => CuckooTypes'
  BY <1>2
<1>5. CuckooInv /\ CuckooTypes => CuckooTypeOK
  BY <1>3
<1>6. QED
  BY <1>1, <1>4, <1>5, CuckooInvariant, PTL DEF CuckooSpec

-----------------------------------------------------------------------------
(* CMA-ES                                                                  *)

\* Specifications have the ids from the next one on: so of the first few there are as
\* many as that.
LEMMA SpecIds ==
  ASSUME NEW specs, NEW next \in Nat, Specs(specs, next)
  PROVE  \A i \in next..(next + Cardinality(specs) - 1) : \E s \in specs : s.id = i
<1> DEFINE N == next..(next + Cardinality(specs) - 1)
           f == [s \in specs |-> s.id]
<1>1. IsFiniteSet(specs) /\ Cardinality(specs) \in Nat
  BY FS_CardinalityType DEF Specs
<1>2. f \in [specs -> N]
  BY <1>1 DEF Specs
<1>3. f \in Injection(specs, N)
  BY <1>2 DEF Specs, Injection, IsInjective
<1>4. IsFiniteSet(N) /\ Cardinality(N) = Cardinality(specs)
  <2> DEFINE last == next + Cardinality(specs) - 1
  <2>1. next \in Int /\ last \in Int /\ last - next + 1 = Cardinality(specs)
        /\ (next > last => Cardinality(specs) = 0)
    BY <1>1
  <2> HIDE DEF last
  <2>2. IsFiniteSet(next..last) /\ Cardinality(next..last) = IF next > last THEN 0 ELSE last - next + 1
    BY <2>1, FS_Interval
  <2>3. N = next..last
    BY DEF last
  <2>4. QED
    BY <2>1, <2>2, <2>3
<1>5. f \in Surjection(specs, N)
  BY <1>1, <1>3, <1>4, FS_Injection
<1>6. QED
  BY <1>5 DEF Surjection

\* The rectangles numbered below a limit are numbered as they all were.
LEMMA FirstSpecs ==
  ASSUME NEW specs, Specs(specs, 0), specs # {}, NEW limit \in Nat \ {0}
  PROVE  LET first == {s \in specs : s.id < limit}
         IN  Specs(first, 0) /\ first # {} /\ Cardinality(first) \in Nat
<1> DEFINE first == {s \in specs : s.id < limit}
           n == Cardinality(specs)
           m == IF limit < n THEN limit ELSE n
           f == [s \in first |-> s.id]
<1>1. IsFiniteSet(specs) /\ n \in Nat /\ IsFiniteSet(first)
  BY FS_CardinalityType, FS_Subset DEF Specs
<1>2. n # 0
  BY <1>1, FS_EmptySet
<1>3. \A s \in specs : s.id \in Nat /\ s.id < n
  BY <1>1 DEF Specs
<1>4. \A i \in 0..(n - 1) : \E s \in specs : s.id = i
  <2>1. \A i \in 0..(0 + n - 1) : \E s \in specs : s.id = i
    BY SpecIds
  <2>2. 0 + n - 1 = n - 1
    BY <1>1
  <2>3. QED
    BY <2>1, <2>2
<1> HIDE DEF n
<1>5. m \in Nat /\ \A i \in 0..(m - 1) : i \in 0..(n - 1) /\ i < limit
  BY <1>1
<1>6. f \in [first -> 0..(m - 1)]
  BY <1>1, <1>3
<1>7. f \in Surjection(first, 0..(m - 1))
  <2>1. \A i \in 0..(m - 1) : \E s \in first : f[s] = i
    BY <1>4, <1>5
  <2>2. QED
    BY <1>6, <2>1 DEF Surjection
<1>8. f \in Injection(first, 0..(m - 1))
  BY <1>6 DEF Specs, Injection, IsInjective
<1>9. Cardinality(first) = m
  <2>1. IsFiniteSet(0..(m - 1)) /\ Cardinality(0..(m - 1)) = m
    <3>1. m \in Nat
      BY <1>5
    <3> HIDE DEF m
    <3>2. 0 \in Int /\ m - 1 \in Int /\ (0 > m - 1 => m = 0) /\ m - 1 - 0 + 1 = m
      BY <3>1
    <3>3. IsFiniteSet(0..(m - 1)) /\ Cardinality(0..(m - 1)) = IF 0 > m - 1 THEN 0 ELSE m - 1 - 0 + 1
      BY <3>2, FS_Interval
    <3>4. QED
      BY <3>2, <3>3
  <2> HIDE DEF first, f, m
  <2>2. QED
    BY <1>1, <1>7, <1>8, <2>1, FS_Surjection
<1>10. \A s \in first : s.id < 0 + Cardinality(first)
  BY <1>1, <1>3, <1>9
<1>11. Specs(first, 0)
  BY <1>1, <1>10 DEF Specs
<1>12. first # {}
  BY <1>2, <1>1, <1>4
<1>13. QED
  BY <1>5, <1>9, <1>11, <1>12

-----------------------------------------------------------------------------
(* CMA-ES: the inductive invariant                                         *)

CmaesPoints == Proposals \cup [Axes -> 1..(Box - 1)]

CmaesKnown ==
  /\ config \in CmaesConfigurations /\ BudgetSound /\ IsFiniteSet(DOMAIN memo)
  /\ \A p \in DOMAIN memo : KeyOf(p) \in Int /\ memo[p] \in 0..Infinity

\* The rectangles of the prescan, of which there is always one to select.
PrescanSound ==
  /\ Partition(rectangles) /\ nextRectId \in Nat
  /\ \A r \in rectangles : r.id < nextRectId
  /\ stage = "start" => rectangles = {} /\ nextRectId = 0
  /\ stage # "start" => rectangles # {}

\* What is known of the valid points is no better than an answer.
ValidBeaten(best) ==
  \A p \in ValidPoints(memo) :
    LET found == [surface |-> KeyOf(p), fos |-> memo[p]]
    IN  found = best \/ BetterSurface(best, found)

\* Past the prescan a valid point is known; the passes start from the best one.
CmaesStagesSound ==
  /\ stage \notin {"start", "prescan", "failed"} => ValidPoints(memo) # {}
  /\ stage \notin {"refining", "done"} => DOMAIN solved = {} /\ batches = 0
  /\ stage = "done" => batches = 0
  /\ PassesSound /\ SolvedBeaten(StartOfPass)
  /\ stage \in {"refining", "done"} => ValidBeaten(StartOfPass)

CmaesInv == CmaesKnown /\ PrescanSound /\ CmaesStagesSound

\* The assumptions about the search.
LEMMA CmaesFacts ==
  /\ \A p \in CmaesPoints : ScoresAt(p) \subseteq 0..Infinity /\ KeyOf(p) \in Int
  /\ RefusedPenalty \in 0..Infinity
  /\ LeastPenalty \in Nat
<1>1. \A p \in CmaesPoints : ScoresAt(p) \subseteq 0..Infinity /\ KeyOf(p) \in Int
  BY CmaesAssumption DEF CmaesPoints
<1>2. RefusedPenalty \in 0..Infinity /\ LeastPenalty \in Nat
  BY PartitionAssumption, CmaesAssumption
<1>3. QED
  BY <1>1, <1>2

\* A call keeps what is known, and every valid point stays valid.
LEMMA CmaesEvaluated ==
  ASSUME CmaesKnown, NEW request, Request(request),
         \A i \in DOMAIN request : request[i] \in CmaesPoints,
         Evaluate(request, RefusedPenalty)
  PROVE  /\ CmaesKnown' /\ config' = config
         /\ DOMAIN memo' = DOMAIN memo \cup {request[i] : i \in DOMAIN request}
         /\ \A p \in DOMAIN memo : memo'[p] = memo[p]
         /\ \A p \in DOMAIN memo' \ DOMAIN memo : memo'[p] \in ScoresAt(p) \cup {RefusedPenalty}
         /\ ValidPoints(memo) \subseteq ValidPoints(memo')
<1>1. /\ config' = config
      /\ spent' \in Nat /\ spent <= spent' /\ spent' <= config.maxEvaluations
      /\ IsFiniteSet(DOMAIN memo')
      /\ DOMAIN memo' = DOMAIN memo \cup {request[i] : i \in DOMAIN request}
      /\ \A p \in DOMAIN memo : memo'[p] = memo[p]
      /\ \A p \in DOMAIN memo' \ DOMAIN memo :
           \/ memo'[p] \in ScoresAt(p)
           \/ memo'[p] = RefusedPenalty /\ spent' = config.maxEvaluations
  BY EvaluateAnswers, AnsweredFacts DEF CmaesKnown
<1>2. ASSUME NEW p \in DOMAIN memo'
      PROVE  KeyOf(p) \in Int /\ memo'[p] \in 0..Infinity
  <2>1. CASE p \in DOMAIN memo
    BY <1>1, <2>1 DEF CmaesKnown
  <2>2. CASE p \notin DOMAIN memo
    <3>1. p \in CmaesPoints
      BY <1>1, <2>2
    <3>2. ScoresAt(p) \subseteq 0..Infinity /\ KeyOf(p) \in Int /\ RefusedPenalty \in 0..Infinity
      BY <3>1, CmaesFacts
    <3>3. QED
      BY <1>1, <2>2, <3>2
  <2>3. QED
    BY <2>1, <2>2
<1>3. CmaesKnown'
  BY <1>1, <1>2 DEF CmaesKnown, BudgetSound
<1>4. ValidPoints(memo) \subseteq ValidPoints(memo')
  BY <1>1 DEF ValidPoints
<1>5. QED
  BY <1>1, <1>3, <1>4

\* The invariant holds before anything is evaluated,
LEMMA CmaesStarts ==
  ASSUME CmaesInit
  PROVE  CmaesInv
<1>1. /\ config \in CmaesConfigurations /\ DOMAIN memo = {} /\ spent = 0 /\ DOMAIN solved = {}
      /\ winner = NoWinner /\ running = NoWinner /\ passesLeft = CmaesPasses /\ batches = 0
      /\ rectangles = {} /\ nextRectId = 0 /\ stage = "start"
  BY DEF CmaesInit, ObjectiveInit, RefinementInit, NoWinner
<1>2. CmaesKnown
  <2>1. config.maxEvaluations \in Nat
    BY <1>1, CmaesAssumption DEF CmaesConfigurationType
  <2>2. QED
    BY <1>1, <2>1, FS_EmptySet DEF CmaesKnown, BudgetSound
<1>3. PrescanSound
  BY <1>1, FS_EmptySet DEF PrescanSound, Partition
<1>4. CmaesPasses \in Seq(PassNames \ {"local_polish"})
  BY DEF CmaesPasses, PassNames
<1>5. NoWinner \in Answers
  BY PostRefinementAssumption DEF NoWinner, Answers
<1>6. CmaesStagesSound
  BY <1>1, <1>4, <1>5 DEF CmaesStagesSound, PassesSound, SolvedSound, SolvedBeaten
<1>7. QED
  BY <1>2, <1>3, <1>6 DEF CmaesInv

-----------------------------------------------------------------------------
(* CMA-ES: the steps                                                       *)

\* Before the passes nothing of them changes.
LEMMA CmaesPassesUntouched ==
  ASSUME CmaesStagesSound, UNCHANGED <<solved, winner, running, passesLeft, batches>>,
         stage \notin {"refining", "done"}, stage' \notin {"refining", "done"},
         stage' \notin {"start", "prescan", "failed"} => ValidPoints(memo') # {}
  PROVE  CmaesStagesSound'
BY DEF CmaesStagesSound, PassesSound, SolvedSound, SolvedBeaten, StartOfPass

\* The centres of rectangles are asked for.
LEMMA SpecsAsked ==
  ASSUME CmaesKnown, NEW specs, NEW next, Specs(specs, next),
         Evaluate(CentersById(specs), RefusedPenalty)
  PROVE  /\ CmaesKnown' /\ config' = config
         /\ \A s \in specs : s.center \in DOMAIN memo' /\ memo'[s.center] \in 0..Infinity
         /\ \A p \in DOMAIN memo : p \in DOMAIN memo' /\ memo'[p] = memo[p]
         /\ \A p \in DOMAIN memo' \ DOMAIN memo : memo'[p] \in ScoresAt(p) \cup {RefusedPenalty}
<1> DEFINE request == CentersById(specs)
<1>1. /\ Request(request)
      /\ \A s \in specs : s.id \in DOMAIN request /\ request[s.id] = s.center
      /\ \A i \in DOMAIN request : \E s \in specs : request[i] = s.center
  BY CentersFacts
<1>2. \A s \in specs : s.center \in CmaesPoints
  BY ShapedInBox DEF Specs, CmaesPoints
<1>3. Evaluate(request, RefusedPenalty)
  OBVIOUS
<1> HIDE DEF request
<1>4. \A i \in DOMAIN request : request[i] \in CmaesPoints
  BY <1>1, <1>2
<1>5. /\ CmaesKnown' /\ config' = config
      /\ DOMAIN memo' = DOMAIN memo \cup {request[i] : i \in DOMAIN request}
      /\ \A p \in DOMAIN memo : memo'[p] = memo[p]
      /\ \A p \in DOMAIN memo' \ DOMAIN memo : memo'[p] \in ScoresAt(p) \cup {RefusedPenalty}
  BY <1>1, <1>3, <1>4, CmaesEvaluated
<1>6. \A s \in specs : s.center \in DOMAIN memo'
  BY <1>1, <1>5
<1>7. QED
  BY <1>5, <1>6 DEF CmaesKnown

\* The prescan has a budget of one evaluation at least.
LEMMA TargetPositive ==
  ASSUME config \in CmaesConfigurations
  PROVE  TargetBudget \in Nat \ {0}
<1> DEFINE limits == {config.maxEvaluations, config.prescanEvaluations}
<1>1. /\ config.maxEvaluations \in Nat /\ config.prescanEvaluations \in Nat \ {0}
      /\ config.prescanEvaluations < config.maxEvaluations
  BY CmaesAssumption DEF CmaesConfigurationType
<1>2. limits \subseteq Nat /\ limits # {} /\ 0 \notin limits
  BY <1>1
<1>3. TargetBudget = Min(limits)
  BY DEF TargetBudget
<1> HIDE DEF limits
<1>4. Min(limits) \in limits
  BY <1>2, MinFacts
<1>5. QED
  BY <1>2, <1>3, <1>4

\* The centre of the whole box is evaluated first.
LEMMA SeedPrescanKeeps ==
  ASSUME CmaesInv, SeedPrescan
  PROVE  CmaesInv'
<1> DEFINE seeds == {s \in SeedRectangles : s.id < TargetBudget}
<1>1. /\ stage = "start" /\ stage' = "prescan"
      /\ Evaluate(CentersById(seeds), RefusedPenalty)
      /\ rectangles' = Scored(seeds, memo') /\ nextRectId' = Cardinality(seeds)
      /\ UNCHANGED <<solved, winner, running, passesLeft, batches>>
  <2>1. \A S : Cardinality(S) = Cardinality(S)
    BY DEF Cardinality
  <2>2. QED
    BY <2>1 DEF SeedPrescan, unchangedByPrescan, refinementVars
<1>2. Specs(seeds, 0) /\ seeds # {} /\ Cardinality(seeds) \in Nat
  <2>1. TargetBudget \in Nat \ {0}
    BY TargetPositive DEF CmaesInv, CmaesKnown
  <2>2. QED
    BY <2>1, SeedsFacts, FirstSpecs
<1> HIDE DEF seeds
<1>3. CmaesKnown' /\ \A s \in seeds : memo'[s.center] \in 0..Infinity
  BY <1>1, <1>2, SpecsAsked DEF CmaesInv
<1>4. /\ Partition(Scored(seeds, memo'))
      /\ \A s \in seeds : \E r \in Scored(seeds, memo') : r.id = s.id
      /\ \A r \in Scored(seeds, memo') : \E s \in seeds : r.id = s.id
  BY <1>2, <1>3, ScoredFacts
<1>5. \A r \in rectangles' : r.id < nextRectId'
  BY <1>1, <1>2, <1>4 DEF Specs
<1>6. rectangles' # {}
  BY <1>1, <1>2, <1>4
<1>7. PrescanSound'
  BY <1>1, <1>2, <1>4, <1>5, <1>6 DEF PrescanSound
<1>8. CmaesStagesSound'
  BY <1>1, CmaesPassesUntouched DEF CmaesInv
<1>9. QED
  BY <1>3, <1>7, <1>8 DEF CmaesInv

\* What a step of the prescan divides, and into what.
CmaesSelected == {Chosen(rectangles, k) : k \in Slopes}

CmaesChildren == Children(CmaesSelected, nextRectId)

\* There is always a best rectangle to select, so that there are children to ask for.
LEMMA DivisionAsks ==
  ASSUME CmaesInv, DividePrescan
  PROVE  /\ stage = "prescan" /\ stage' = "prescan"
         /\ Specs(CmaesChildren, nextRectId) /\ Cardinality(CmaesChildren) \in Nat
         /\ CmaesChildren # {}
         /\ Evaluate(CentersById(CmaesChildren), RefusedPenalty)
         /\ LET kept == KeptChildren(CmaesChildren, spent')
            IN  /\ rectangles' = (rectangles \ CmaesSelected) \cup Scored(kept, memo')
                /\ nextRectId' = nextRectId + Cardinality(kept)
         /\ UNCHANGED <<solved, winner, running, passesLeft, batches>>
<1>1. /\ stage = "prescan" /\ stage' = "prescan"
      /\ Divisible(CmaesSelected)
      /\ Evaluate(CentersById(CmaesChildren), RefusedPenalty)
      /\ LET kept == KeptChildren(CmaesChildren, spent')
         IN  /\ rectangles' = (rectangles \ CmaesSelected) \cup Scored(kept, memo')
             /\ nextRectId' = nextRectId + Cardinality(kept)
      /\ UNCHANGED <<solved, winner, running, passesLeft, batches>>
  <2>1. \A S : Cardinality(S) = Cardinality(S)
    BY DEF Cardinality
  <2>2. SelectPotentiallyOptimal(rectangles, {}) = CmaesSelected
    BY ChildrenByPosition DEF SelectPotentiallyOptimal, CmaesSelected
  <2>3. QED
    BY <2>1, <2>2, ChildrenByPosition DEF DividePrescan, unchangedByPrescan, refinementVars, CmaesChildren
<1>2. Partition(rectangles) /\ rectangles # {} /\ nextRectId \in Nat
  BY <1>1 DEF CmaesInv, PrescanSound
<1>3. CmaesSelected \in SUBSET rectangles /\ CmaesSelected # {}
  <2>1. \A k \in Slopes : Chosen(rectangles, k) \in rectangles
    BY <1>2, ChosenFacts
  <2>2. Slopes # {}
    BY PartitionAssumption
  <2>3. QED
    BY <2>1, <2>2 DEF CmaesSelected
<1>4. Partition(CmaesSelected) /\ \A r \in CmaesSelected : r.level[SplitDimension(r)] < GridDepth
  BY <1>1, <1>2, <1>3, PartitionSubset, ChildrenByPosition DEF Divisible
<1>5. /\ Specs(CmaesChildren, nextRectId) /\ Cardinality(CmaesChildren) \in Nat
      /\ \A r \in CmaesSelected : \E s \in CmaesChildren : s.center = r.center
  BY <1>2, <1>4, ChildrenFacts DEF CmaesChildren
<1>6. CmaesChildren # {}
  BY <1>3, <1>5
<1>7. QED
  BY <1>1, <1>5, <1>6

\* The loop over the children's results keeps the first of them at least.
LEMMA KeptSpecs ==
  ASSUME CmaesInv, DividePrescan
  PROVE  LET kept == KeptChildren(CmaesChildren, spent')
         IN  /\ Specs(kept, nextRectId) /\ kept # {} /\ kept \subseteq CmaesChildren
             /\ Cardinality(kept) \in Nat
<1> DEFINE children == CmaesChildren
           kept == KeptChildren(children, spent')
<1>1. Specs(children, nextRectId) /\ Cardinality(children) \in Nat /\ children # {}
  BY DivisionAsks
<1>2. nextRectId \in Nat
  BY DEF CmaesInv, PrescanSound
<1> HIDE DEF children
<1>3. Specs(kept, nextRectId) /\ kept # {} /\ kept \subseteq children /\ Cardinality(kept) \in Nat
  <2>1. CASE spent' >= TargetBudget
    <3>1. kept = {c \in children : c.id = nextRectId}
      BY <2>1 DEF KeptChildren
    <3>2. Cardinality(children) # 0 /\ IsFiniteSet(children)
      BY <1>1, FS_EmptySet DEF Specs
    <3>3. nextRectId \in nextRectId..(nextRectId + Cardinality(children) - 1)
      BY <1>2, <1>1, <3>2
    <3>4. PICK c \in children : c.id = nextRectId
      BY <1>2, <1>1, <3>3, SpecIds
    <3>5. kept = {c}
      BY <1>1, <3>1, <3>4 DEF Specs
    <3>6. IsFiniteSet(kept) /\ Cardinality(kept) = 1
      BY <3>5, FS_Singleton
    <3>7. QED
      BY <1>2, <1>1, <3>4, <3>5, <3>6 DEF Specs
  <2>2. CASE ~(spent' >= TargetBudget)
    <3>1. kept = children
      BY <2>2 DEF KeptChildren
    <3>2. QED
      BY <1>1, <3>1
  <2>3. QED
    BY <2>1, <2>2
<1>4. QED
  BY <1>3 DEF children

\* A division keeps the prescan sound.
LEMMA DividePrescanKeeps ==
  ASSUME CmaesInv, DividePrescan
  PROVE  CmaesInv'
<1> DEFINE children == CmaesChildren
           kept == KeptChildren(children, spent')
<1>1. /\ stage = "prescan" /\ stage' = "prescan"
      /\ Specs(children, nextRectId) /\ Cardinality(children) \in Nat /\ children # {}
      /\ Evaluate(CentersById(children), RefusedPenalty)
      /\ rectangles' = (rectangles \ CmaesSelected) \cup Scored(kept, memo')
      /\ nextRectId' = nextRectId + Cardinality(kept)
      /\ UNCHANGED <<solved, winner, running, passesLeft, batches>>
  BY DivisionAsks
<1>2. Partition(rectangles) /\ nextRectId \in Nat /\ \A r \in rectangles : r.id < nextRectId
  BY <1>1 DEF CmaesInv, PrescanSound
<1>3. Specs(kept, nextRectId) /\ kept # {} /\ kept \subseteq children /\ Cardinality(kept) \in Nat
  BY KeptSpecs
<1> HIDE DEF children, kept
<1>4. CmaesKnown' /\ \A s \in children : memo'[s.center] \in 0..Infinity
  BY <1>1, SpecsAsked DEF CmaesInv
<1>5. /\ Partition(Scored(kept, memo'))
      /\ \A s \in kept : \E r \in Scored(kept, memo') : r.id = s.id
      /\ \A r \in Scored(kept, memo') : \E s \in kept : r.id = s.id
  <2>1. \A s \in kept : memo'[s.center] \in 0..Infinity
    BY <1>3, <1>4
  <2>2. QED
    BY <1>3, <2>1, ScoredFacts
<1>6. \A r \in Scored(kept, memo') : nextRectId <= r.id /\ r.id < nextRectId'
  BY <1>1, <1>3, <1>5 DEF Specs
<1>7. Partition(rectangles \ CmaesSelected)
  BY <1>2, PartitionSubset
<1>8. Partition(rectangles')
  BY <1>1, <1>2, <1>5, <1>6, <1>7, PartitionUnion
<1>9. nextRectId' \in Nat /\ nextRectId <= nextRectId'
  BY <1>1, <1>2, <1>3
<1>10. \A r \in rectangles' : r.id < nextRectId'
  <2>1. \A r \in rectangles : r.id \in Nat /\ r.id < nextRectId
    BY <1>2 DEF Partition
  <2>2. QED
    BY <1>1, <1>2, <1>6, <1>9, <2>1
<1>11. rectangles' # {}
  BY <1>1, <1>3, <1>5
<1>12. PrescanSound'
  BY <1>1, <1>8, <1>9, <1>10, <1>11 DEF PrescanSound
<1>13. CmaesStagesSound'
  BY <1>1, CmaesPassesUntouched DEF CmaesInv
<1>14. QED
  BY <1>4, <1>12, <1>13 DEF CmaesInv

\* The steps that evaluate nothing.
LEMMA CmaesQuietKeeps ==
  ASSUME CmaesInv,
         \/ PrescanEnds \/ BeginRestart \/ CmaesStops \/ RestartsEnd
         \/ StartSimplex
  PROVE  CmaesInv'
<1>1. /\ UNCHANGED <<config, memo, spent, rectangles, nextRectId>>
      /\ UNCHANGED <<solved, winner, running, passesLeft, batches>>
      /\ stage \notin {"start", "refining", "done"} /\ stage' \notin {"start", "refining", "done"}
      /\ stage' # "failed" => ValidPoints(memo) # {}
      /\ stage' # "prescan"
  BY DEF CmaesInv, CmaesStagesSound, PrescanEnds, BeginRestart, CmaesStops, RestartsEnd,
     StartSimplex, objectiveVars, refinementVars, unchangedByPrescan, unchangedByGenerations,
     unchangedByPolish
<1>2. ValidPoints(memo') = ValidPoints(memo)
  BY <1>1
<1>3. CmaesKnown' /\ PrescanSound'
  BY <1>1 DEF CmaesInv, CmaesKnown, BudgetSound, PrescanSound
<1>4. CmaesStagesSound'
  BY <1>1, <1>2, CmaesPassesUntouched DEF CmaesInv
<1>5. QED
  BY <1>3, <1>4 DEF CmaesInv

\* The libraries' points are evaluated, in a generation or one at a time.
LEMMA ProposalsAsked ==
  ASSUME CmaesInv, Generation \/ SimplexCall
  PROVE  \E request : /\ Request(request) /\ Evaluate(request, RefusedPenalty)
                      /\ \A i \in DOMAIN request : request[i] \in CmaesPoints
<1>1. PICK n \in Nat : \E vectors \in [1..n -> Proposals] : Evaluate(vectors, RefusedPenalty)
  <2>1. CASE Generation
    <3>1. config.populationSize \in Nat
      BY CmaesAssumption DEF CmaesInv, CmaesKnown, CmaesConfigurationType
    <3>2. QED
      BY <2>1, <3>1 DEF Generation
  <2>2. CASE SimplexCall
    <3>1. PICK p \in Proposals : Evaluate(<<p>>, RefusedPenalty)
      BY <2>2 DEF SimplexCall
    <3>2. <<p>> \in [1..1 -> Proposals]
      OBVIOUS
    <3>3. QED
      BY <3>1, <3>2
  <2>3. QED
    BY <2>1, <2>2
<1>2. PICK vectors \in [1..n -> Proposals] : Evaluate(vectors, RefusedPenalty)
  BY <1>1
<1>3. Request(vectors)
  <2>1. IsFiniteSet(1..n)
    BY FS_Interval
  <2>2. QED
    BY <2>1 DEF Request
<1>4. \A i \in DOMAIN vectors : vectors[i] \in CmaesPoints
  BY DEF CmaesPoints
<1>5. QED
  BY <1>2, <1>3, <1>4

\* What they add to the valid points takes none away.
LEMMA ProposalsKeep ==
  ASSUME CmaesInv, Generation \/ SimplexCall
  PROVE  CmaesInv'
<1>1. PICK request : /\ Request(request) /\ Evaluate(request, RefusedPenalty)
                     /\ \A i \in DOMAIN request : request[i] \in CmaesPoints
  BY ProposalsAsked
<1>2. CmaesKnown' /\ ValidPoints(memo) \subseteq ValidPoints(memo')
  BY <1>1, CmaesEvaluated DEF CmaesInv
<1>3. /\ UNCHANGED <<rectangles, nextRectId, solved, winner, running, passesLeft, batches>>
      /\ stage \in {"generation", "simplex"}
      /\ stage' \notin {"start", "prescan", "refining", "done", "failed"}
  BY DEF Generation, TellGeneration, CutShort, SimplexCall, refinementVars,
     unchangedByGenerations, unchangedByPolish
<1>4. ValidPoints(memo') # {}
  BY <1>2, <1>3 DEF CmaesInv, CmaesStagesSound
<1>5. PrescanSound'
  BY <1>3 DEF CmaesInv, PrescanSound
<1>6. CmaesStagesSound'
  BY <1>3, <1>4, CmaesPassesUntouched DEF CmaesInv
<1>7. QED
  BY <1>2, <1>5, <1>6 DEF CmaesInv

\* The evaluator's best surface ends the search, or the passes start from it.
LEMMA CmaesWinnerKeeps ==
  ASSUME CmaesInv, PolishSkipped \/ SimplexEnds
  PROVE  CmaesInv'
<1> DEFINE valid == ValidPoints(memo)
           answer(p) == [surface |-> KeyOf(p), fos |-> memo[p]]
           found == {answer(p) : p \in valid}
<1>1. /\ stage \in {"polish", "simplex"} /\ stage' \in {"refining", "done"}
      /\ winner' = BestValid
      /\ UNCHANGED <<config, memo, spent, rectangles, nextRectId>>
      /\ UNCHANGED <<solved, running, passesLeft, batches>>
  BY DEF PolishSkipped, SimplexEnds, objectiveVars, refinementVars, unchangedByPolish
<1>2. CmaesKnown' /\ PrescanSound'
  BY <1>1 DEF CmaesInv, CmaesKnown, BudgetSound, PrescanSound
<1>3. valid # {} /\ DOMAIN solved = {} /\ batches = 0 /\ PassesSound
  BY <1>1 DEF CmaesInv, CmaesStagesSound
<1>4. valid \in SUBSET DOMAIN memo
  BY DEF ValidPoints
<1>5. \A p \in DOMAIN memo : answer(p) \in Answers
  BY PartitionAssumption DEF CmaesInv, CmaesKnown, Answers
<1>6. IsFiniteSet(found)
  <2> DEFINE f == [p \in valid |-> answer(p)]
  <2>1. IsFiniteSet(valid)
    BY <1>4, FS_Subset DEF CmaesInv, CmaesKnown
  <2>2. DOMAIN f = valid /\ found = {f[p] : p \in valid}
    OBVIOUS
  <2> HIDE DEF f, found, valid
  <2>3. QED
    BY <2>1, <2>2, ImageFinite
<1>7. found # {}
  BY <1>3
<1>8. found \subseteq Answers
  BY <1>4, <1>5
<1>9. BestValid = BestSurface(found)
  BY DEF BestValid
<1>10. winner' \in Answers /\ \A other \in found : other = winner' \/ BetterSurface(winner', other)
  BY <1>1, <1>6, <1>7, <1>8, <1>9, BestSurfaceFacts
<1>11. StartOfPass' = winner'
  BY <1>1, <1>3 DEF StartOfPass
<1>12. PassesSound' /\ SolvedBeaten(StartOfPass)'
  BY <1>1, <1>3, <1>10 DEF PassesSound, SolvedSound, SolvedBeaten
<1>13. \A p \in valid : answer(p) = winner' \/ BetterSurface(winner', answer(p))
  BY <1>10
<1>14. ValidBeaten(StartOfPass)'
  BY <1>1, <1>11, <1>13 DEF ValidBeaten, ValidPoints
<1>15. CmaesStagesSound'
  BY <1>1, <1>3, <1>12, <1>14 DEF CmaesStagesSound, ValidPoints
<1>16. QED
  BY <1>2, <1>15 DEF CmaesInv

\* A step of the passes only improves on it.
LEMMA CmaesRefineWinnerKeeps ==
  ASSUME CmaesInv, RefineCmaesWinner
  PROVE  CmaesInv'
<1>1. /\ stage = "refining" /\ Refine
      /\ stage' = IF passesLeft' = <<>> THEN "done" ELSE stage
      /\ UNCHANGED <<config, memo, spent, rectangles, nextRectId>>
  BY DEF RefineCmaesWinner, RefineWinner, objectiveVars, unchangedByPolish
<1>2. CmaesKnown' /\ PrescanSound'
  BY <1>1 DEF CmaesInv, CmaesKnown, BudgetSound, PrescanSound
<1>3. /\ PassesSound' /\ SolvedBeaten(StartOfPass)'
      /\ StartOfPass' = StartOfPass \/ BetterSurface(StartOfPass', StartOfPass)
  BY <1>1, RefineKeeps DEF CmaesInv, CmaesStagesSound
<1>4. stage' = "done" => batches' = 0
  BY <1>1 DEF Refine, SweepBatch, EndPass
<1>5. /\ StartOfPass \in Answers /\ StartOfPass' \in Answers
  BY <1>3 DEF CmaesInv, CmaesStagesSound, PassesSound, StartOfPass
<1>6. ASSUME NEW p \in ValidPoints(memo)
      PROVE  LET found == [surface |-> KeyOf(p), fos |-> memo[p]]
             IN  found = StartOfPass' \/ BetterSurface(StartOfPass', found)
  <2> DEFINE found == [surface |-> KeyOf(p), fos |-> memo[p]]
  <2>1. found = StartOfPass \/ BetterSurface(StartOfPass, found)
    BY <1>1 DEF CmaesInv, CmaesStagesSound, ValidBeaten
  <2>2. p \in DOMAIN memo
    BY DEF ValidPoints
  <2>3. found \in Answers
    BY <2>2, PartitionAssumption DEF CmaesInv, CmaesKnown, Answers
  <2>4. QED
    BY <1>3, <1>5, <2>1, <2>3, BetterTransitive
<1>7. ValidBeaten(StartOfPass)'
  BY <1>1, <1>6 DEF ValidBeaten, ValidPoints
<1>8. ValidPoints(memo') # {}
  BY <1>1 DEF CmaesInv, CmaesStagesSound
<1>9. CmaesStagesSound'
  BY <1>1, <1>3, <1>4, <1>7, <1>8 DEF CmaesStagesSound
<1>10. QED
  BY <1>2, <1>9 DEF CmaesInv

\* Every step of the search keeps the invariant.
LEMMA CmaesStepKeeps ==
  ASSUME CmaesInv, [CmaesNext]_cmaesVars
  PROVE  CmaesInv'
<1>1. CASE SeedPrescan
  BY <1>1, SeedPrescanKeeps
<1>2. CASE DividePrescan
  BY <1>2, DividePrescanKeeps
<1>3. CASE \/ PrescanEnds \/ BeginRestart \/ CmaesStops \/ RestartsEnd
           \/ StartSimplex
  BY <1>3, CmaesQuietKeeps
<1>4. CASE Generation \/ SimplexCall
  BY <1>4, ProposalsKeep
<1>5. CASE PolishSkipped \/ SimplexEnds
  BY <1>5, CmaesWinnerKeeps
<1>6. CASE RefineCmaesWinner
  BY <1>6, CmaesRefineWinnerKeeps
<1>7. CASE UNCHANGED cmaesVars
  <2>1. UNCHANGED <<config, memo, spent, rectangles, nextRectId, stage,
                    solved, winner, running, passesLeft, batches>>
    BY <1>7 DEF cmaesVars, objectiveVars, cmaesSearchVars, refinementVars
  <2>2. CmaesKnown' /\ PrescanSound'
    BY <2>1 DEF CmaesInv, CmaesKnown, BudgetSound, PrescanSound
  <2>3. CmaesStagesSound'
    BY <2>1 DEF CmaesInv, CmaesStagesSound, PassesSound, SolvedSound, SolvedBeaten, ValidBeaten,
       StartOfPass, ValidPoints
  <2>4. QED
    BY <2>2, <2>3 DEF CmaesInv
<1>8. QED
  BY <1>1, <1>2, <1>3, <1>4, <1>5, <1>6, <1>7 DEF CmaesNext

\* So the invariant holds throughout.
LEMMA CmaesInvariant ==
  CmaesSpec => []CmaesInv
<1>1. CmaesInit => CmaesInv
  BY CmaesStarts
<1>2. CmaesInv /\ [CmaesNext]_cmaesVars => CmaesInv'
  BY CmaesStepKeeps
<1>3. QED
  BY <1>1, <1>2, PTL DEF CmaesSpec

-----------------------------------------------------------------------------
(* CMA-ES: what it promises                                                *)

\* The surface run_cmaes_global_search() returns is at least as good as every valid point
\* of the prescan, the generations and the simplex method, and every surface of the passes.
THEOREM CmaesWinnerIsBestFound == CmaesSpec => []WinnerIsBestFound
<1>1. ASSUME CmaesInv, stage = "done"
      PROVE  /\ \A p \in ValidPoints(memo) :
                  \/ winner.surface = KeyOf(p)
                  \/ BetterSurface(winner, [surface |-> KeyOf(p), fos |-> memo[p]])
             /\ \A s \in DOMAIN solved :
                  \/ solved[s] = Invalid \/ winner.surface = s
                  \/ BetterSurface(winner, [surface |-> s, fos |-> solved[s]])
  <2>1. ValidBeaten(winner) /\ SolvedBeaten(winner)
    BY <1>1 DEF CmaesInv, CmaesStagesSound, StartOfPass
  <2>2. ASSUME NEW p \in ValidPoints(memo)
        PROVE  \/ winner.surface = KeyOf(p)
               \/ BetterSurface(winner, [surface |-> KeyOf(p), fos |-> memo[p]])
    BY <2>1 DEF ValidBeaten
  <2>3. ASSUME NEW s \in DOMAIN solved
        PROVE  \/ solved[s] = Invalid \/ winner.surface = s
               \/ BetterSurface(winner, [surface |-> s, fos |-> solved[s]])
    BY <2>1 DEF SolvedBeaten
  <2>4. QED
    BY <2>2, <2>3
<1>2. CmaesInv => WinnerIsBestFound
  BY <1>1 DEF WinnerIsBestFound
<1>3. QED
  BY <1>2, CmaesInvariant, PTL

-----------------------------------------------------------------------------
(* CMA-ES: what the optimizers are told                                    *)

NothingRefused == \A p \in DOMAIN memo : memo[p] # RefusedPenalty

\* The answer for a point the budget refused is no answer the model gives otherwise: without
\* this a refusal and an evaluated penalty could not be distinguished.
RefusalToldApart == \A p \in CmaesPoints : RefusedPenalty \notin ScoresAt(p)

\* A point is refused only as the budget ends, which the simplex method stays below.
RefusalsLate ==
  /\ spent < config.maxEvaluations => NothingRefused
  /\ stage = "simplex" =>
       /\ NothingRefused
       /\ simplexLeft \in Nat /\ spent + simplexLeft <= config.maxEvaluations

\* A call that leaves budget has refused nothing.
LEMMA NothingRefusedBelow ==
  ASSUME RefusalToldApart, CmaesKnown, RefusalsLate,
         NEW request, Request(request), Evaluate(request, RefusedPenalty),
         \A i \in DOMAIN request : request[i] \in CmaesPoints
  PROVE  spent' < config.maxEvaluations => NothingRefused'
<1>1. /\ spent' \in Nat /\ spent <= spent'
      /\ DOMAIN memo' = DOMAIN memo \cup {request[i] : i \in DOMAIN request}
      /\ \A p \in DOMAIN memo : memo'[p] = memo[p]
      /\ \A p \in DOMAIN memo' \ DOMAIN memo :
           \/ memo'[p] \in ScoresAt(p)
           \/ memo'[p] = RefusedPenalty /\ spent' = config.maxEvaluations
  BY EvaluateAnswers, AnsweredFacts DEF CmaesKnown
<1>2. SUFFICES ASSUME spent' < config.maxEvaluations, NEW p \in DOMAIN memo'
               PROVE  memo'[p] # RefusedPenalty
  BY DEF NothingRefused
<1>3. CASE p \in DOMAIN memo
  <2>1. spent < config.maxEvaluations
    BY <1>1, <1>2 DEF CmaesKnown, BudgetSound
  <2>2. QED
    BY <1>1, <1>3, <2>1 DEF RefusalsLate, NothingRefused
<1>4. CASE p \notin DOMAIN memo
  <2>1. config.maxEvaluations \in Nat
    BY DEF CmaesKnown, BudgetSound
  <2>2. p \in CmaesPoints
    BY <1>1, <1>4
  <2>3. QED
    BY <1>1, <1>2, <1>4, <2>1, <2>2 DEF RefusalToldApart
<1>5. QED
  BY <1>3, <1>4

\* A call for one point costs one evaluation at most, and is answered while there is budget.
LEMMA OneAsked ==
  ASSUME CmaesKnown, NEW p, Evaluate(<<p>>, RefusedPenalty)
  PROVE  /\ spent' \in Nat /\ spent' <= spent + 1
         /\ DOMAIN memo' = DOMAIN memo \cup {p}
         /\ \A q \in DOMAIN memo : memo'[q] = memo[q]
         /\ (spent < config.maxEvaluations /\ p \notin DOMAIN memo) => memo'[p] \in ScoresAt(p)
<1> DEFINE request == <<p>>
<1>1. DOMAIN request = {1} /\ request[1] = p
  OBVIOUS
<1>2. Answered(request, RefusedPenalty)
  BY EvaluateAnswers
<1> HIDE DEF request
<1>3. Request(request)
  BY <1>1, FS_Singleton DEF Request
<1>4. /\ spent' \in Nat
      /\ DOMAIN memo' = DOMAIN memo \cup {request[i] : i \in DOMAIN request}
      /\ \A q \in DOMAIN memo : memo'[q] = memo[q]
  BY <1>2, <1>3, AnsweredFacts DEF CmaesKnown
<1>5. spent' <= spent + 1
  <2>1. NewPoints(request) \subseteq {p}
    BY <1>1 DEF NewPoints, Affordable, FirstMentions
  <2>2. IsFiniteSet({p}) /\ Cardinality({p}) = 1
    BY FS_Singleton
  <2>3. Cardinality(NewPoints(request)) <= Cardinality({p}) /\ Cardinality(NewPoints(request)) \in Nat
    BY <1>3, <2>1, <2>2, FS_Subset, NewPointsCounted
  <2>4. spent' = spent + Cardinality(NewPoints(request))
    BY <1>2 DEF Answered, SpentAfter
  <2>5. QED
    BY <2>2, <2>3, <2>4 DEF CmaesKnown, BudgetSound
<1>6. ASSUME spent < config.maxEvaluations, p \notin DOMAIN memo
      PROVE  memo'[p] \in ScoresAt(p)
  <2>1. 1 \in DOMAIN request /\ (\A j \in DOMAIN request : 1 <= j) /\ request[1] \notin DOMAIN memo
    BY <1>1, <1>6
  <2>2. memo'[request[1]] \in ScoresAt(request[1])
    BY <1>2, <1>3, <1>6, <2>1, FirstPaid DEF CmaesKnown
  <2>3. QED
    BY <1>1, <2>2
<1>7. QED
  BY <1>1, <1>4, <1>5, <1>6

\* The prescan asks for finitely many points, all of the grid.
LEMMA SpecsInGrid ==
  ASSUME NEW specs, NEW next, Specs(specs, next)
  PROVE  /\ Request(CentersById(specs))
         /\ \A i \in DOMAIN CentersById(specs) : CentersById(specs)[i] \in CmaesPoints
<1> DEFINE request == CentersById(specs)
<1>1. Request(request) /\ \A i \in DOMAIN request : \E s \in specs : request[i] = s.center
  BY CentersFacts
<1>2. \A s \in specs : s.center \in CmaesPoints
  BY ShapedInBox DEF Specs, CmaesPoints
<1> HIDE DEF request
<1>3. Request(request) /\ \A i \in DOMAIN request : request[i] \in CmaesPoints
  BY <1>1, <1>2
<1>4. QED
  BY <1>3 DEF request

\* Either step of the prescan asks one request, for points of the grid.
LEMMA PrescanRequests ==
  ASSUME CmaesInv, SeedPrescan \/ DividePrescan
  PROVE  \E request : /\ Request(request) /\ Evaluate(request, RefusedPenalty)
                      /\ \A i \in DOMAIN request : request[i] \in CmaesPoints
<1> DEFINE inGrid(request) == \A i \in DOMAIN request : request[i] \in CmaesPoints
<1>1. CASE SeedPrescan
  <2> DEFINE seeds == {s \in SeedRectangles : s.id < TargetBudget}
  <2>1. Evaluate(CentersById(seeds), RefusedPenalty)
    BY <1>1 DEF SeedPrescan
  <2>2. TargetBudget \in Nat \ {0}
    BY TargetPositive DEF CmaesInv, CmaesKnown
  <2>3. Specs(seeds, 0)
    BY <2>2, SeedsFacts, FirstSpecs
  <2> HIDE DEF seeds
  <2>4. Request(CentersById(seeds)) /\ inGrid(CentersById(seeds))
    BY <2>3, SpecsInGrid
  <2>5. QED
    BY <2>1, <2>4
<1>2. CASE DividePrescan
  <2>1. Specs(CmaesChildren, nextRectId) /\ Evaluate(CentersById(CmaesChildren), RefusedPenalty)
    BY <1>2, DivisionAsks
  <2>2. Request(CentersById(CmaesChildren)) /\ inGrid(CentersById(CmaesChildren))
    BY <2>1, SpecsInGrid
  <2>3. QED
    BY <2>1, <2>2
<1>3. QED
  BY <1>1, <1>2

\* So does a generation.
LEMMA GenerationRequest ==
  ASSUME CmaesInv, NEW vectors \in [1..config.populationSize -> Proposals]
  PROVE  /\ Request(vectors) /\ config.populationSize \in Nat \ {0, 1}
         /\ \A i \in DOMAIN vectors : vectors[i] \in CmaesPoints
<1>1. config.populationSize \in Nat \ {0, 1}
  BY CmaesAssumption DEF CmaesInv, CmaesKnown, CmaesConfigurationType
<1>2. IsFiniteSet(1..config.populationSize)
  BY <1>1, FS_Interval
<1>3. QED
  BY <1>1, <1>2 DEF Request, CmaesPoints

\* Every step of the search keeps this.
LEMMA RefusalsStayLate ==
  ASSUME RefusalToldApart, CmaesInv, RefusalsLate, [CmaesNext]_cmaesVars
  PROVE  RefusalsLate'
<1>1. CASE SeedPrescan \/ DividePrescan
  <2>1. PICK request : /\ Request(request) /\ Evaluate(request, RefusedPenalty)
                       /\ \A i \in DOMAIN request : request[i] \in CmaesPoints
    BY <1>1, PrescanRequests
  <2>2. spent' < config.maxEvaluations => NothingRefused'
    BY <2>1, NothingRefusedBelow DEF CmaesInv
  <2>3. config' = config
    BY <2>1 DEF Evaluate, Ask
  <2>4. stage' # "simplex"
    BY <1>1 DEF SeedPrescan, DividePrescan
  <2>5. QED
    BY <2>2, <2>3, <2>4 DEF RefusalsLate
<1>2. CASE Generation
  <2>1. PICK vectors \in [1..config.populationSize -> Proposals] : Evaluate(vectors, RefusedPenalty)
    BY <1>2 DEF Generation
  <2>2. Request(vectors) /\ \A i \in DOMAIN vectors : vectors[i] \in CmaesPoints
    BY <2>1, GenerationRequest
  <2>3. spent' < config.maxEvaluations => NothingRefused'
    BY <2>1, <2>2, NothingRefusedBelow DEF CmaesInv
  <2>4. config' = config
    BY <2>1 DEF Evaluate, Ask
  <2>5. stage' # "simplex"
    BY <1>2 DEF Generation, TellGeneration, CutShort
  <2>6. QED
    BY <2>3, <2>4, <2>5 DEF RefusalsLate
<1>3. CASE SimplexCall
  <2>1. PICK p \in Proposals : Evaluate(<<p>>, RefusedPenalty)
    BY <1>3 DEF SimplexCall
  <2>2. /\ stage = "simplex" /\ simplexLeft > 0 /\ simplexLeft' = simplexLeft - 1 /\ stage' = stage
        /\ simplexLeft \in Nat /\ spent + simplexLeft <= config.maxEvaluations /\ NothingRefused
    BY <1>3 DEF RefusalsLate, SimplexCall
  <2>3. spent \in Nat /\ config.maxEvaluations \in Nat /\ spent < config.maxEvaluations
    BY <2>2 DEF CmaesInv, CmaesKnown, BudgetSound
  <2>4. config' = config
    BY <2>1 DEF Evaluate, Ask
  <2>5. /\ spent' \in Nat /\ spent' <= spent + 1
        /\ DOMAIN memo' = DOMAIN memo \cup {p}
        /\ \A q \in DOMAIN memo : memo'[q] = memo[q]
        /\ p \notin DOMAIN memo => memo'[p] \in ScoresAt(p)
    BY <2>1, <2>3, OneAsked DEF CmaesInv
  <2>6. NothingRefused'
    <3>1. RefusedPenalty \notin ScoresAt(p)
      BY DEF RefusalToldApart, CmaesPoints
    <3>2. QED
      BY <2>2, <2>5, <3>1 DEF NothingRefused
  <2>7. simplexLeft' \in Nat /\ spent' + simplexLeft' <= config.maxEvaluations
    BY <2>2, <2>3, <2>5
  <2>8. QED
    BY <2>4, <2>6, <2>7 DEF RefusalsLate
<1>4. CASE StartSimplex
  <2> DEFINE limits == {config.polishEvaluations, config.maxEvaluations - spent}
  <2>1. /\ UNCHANGED <<config, memo, spent>> /\ ~(spent >= config.maxEvaluations)
        /\ simplexLeft' = Min(limits)
    BY <1>4 DEF StartSimplex, objectiveVars, BudgetSpent, Remaining, Min
  <2>2. spent \in Nat /\ config.maxEvaluations \in Nat /\ config.polishEvaluations \in Nat
    BY CmaesAssumption DEF CmaesInv, CmaesKnown, BudgetSound, CmaesConfigurationType
  <2>3. limits \subseteq Nat /\ limits # {} /\ config.maxEvaluations - spent \in limits
    BY <2>1, <2>2
  <2> HIDE DEF limits
  <2>4. simplexLeft' \in Nat /\ simplexLeft' <= config.maxEvaluations - spent
    BY <2>1, <2>3, MinFacts
  <2>5. NothingRefused'
    BY <2>1, <2>2 DEF RefusalsLate, NothingRefused
  <2>6. spent' + simplexLeft' <= config'.maxEvaluations
    BY <2>1, <2>2, <2>4
  <2>7. QED
    BY <2>4, <2>5, <2>6 DEF RefusalsLate
<1>5. CASE \/ PrescanEnds \/ BeginRestart \/ CmaesStops \/ RestartsEnd
           \/ PolishSkipped \/ SimplexEnds \/ RefineCmaesWinner
  <2>1. UNCHANGED <<config, memo, spent>> /\ stage' # "simplex"
    BY <1>5 DEF PrescanEnds, BeginRestart, CmaesStops, RestartsEnd, PolishSkipped, SimplexEnds,
       RefineCmaesWinner, RefineWinner, objectiveVars
  <2>2. QED
    BY <2>1 DEF RefusalsLate, NothingRefused
<1>6. CASE UNCHANGED cmaesVars
  <2>1. UNCHANGED <<config, memo, spent, stage, simplexLeft>>
    BY <1>6 DEF cmaesVars, objectiveVars, cmaesSearchVars
  <2>2. QED
    BY <2>1 DEF RefusalsLate, NothingRefused
<1>7. QED
  BY <1>1, <1>2, <1>3, <1>4, <1>5, <1>6 DEF CmaesNext

\* CMAEvolutionStrategy is told, and the simplex method sees, real answers only, when the
\* answer for a refused point can be told from every score.
THEOREM CmaesOptimizersSeeRealAnswers ==
  ASSUME RefusalToldApart
  PROVE  CmaesSpec => OptimizersSeeRealAnswers
<1>1. CmaesInit => RefusalsLate
  BY DEF CmaesInit, ObjectiveInit, RefusalsLate, NothingRefused
<1>2. CmaesInv /\ RefusalsLate /\ [CmaesNext]_cmaesVars => RefusalsLate'
  BY RefusalsStayLate
<1>3. ASSUME CmaesInv, RefusalsLate, RefusalsLate', CmaesNext
      PROVE  /\ told' # told => \A i \in DOMAIN told' : memo'[told'[i]] # RefusedPenalty
             /\ stage = "simplex" => \A p \in DOMAIN memo' : memo'[p] # RefusedPenalty
  <2>1. ASSUME told' # told
        PROVE  \A i \in DOMAIN told' : memo'[told'[i]] # RefusedPenalty
    <3>1. Generation
      BY <1>3, <2>1 DEF CmaesNext, SeedPrescan, DividePrescan, PrescanEnds, BeginRestart,
         CmaesStops, RestartsEnd, PolishSkipped, StartSimplex, SimplexCall, SimplexEnds,
         RefineCmaesWinner, RefineWinner, unchangedByPrescan, unchangedByPolish
    <3>2. PICK vectors \in [1..config.populationSize -> Proposals] :
            /\ Evaluate(vectors, RefusedPenalty)
            /\ IF Repaired(spent') = config.populationSize
                 THEN TellGeneration(vectors) ELSE CutShort
      BY <3>1 DEF Generation
    <3>3. Request(vectors) /\ config.populationSize \in Nat \ {0, 1}
      BY <1>3, <3>2, GenerationRequest
    <3>4. told' = vectors /\ Repaired(spent') = config.populationSize
      BY <2>1, <3>2 DEF CutShort, TellGeneration
    <3>5. /\ config' = config /\ spent' \in Nat
          /\ DOMAIN memo' = DOMAIN memo \cup {vectors[i] : i \in DOMAIN vectors}
      BY <1>3, <3>2, <3>3, EvaluateAnswers, AnsweredFacts DEF CmaesInv, CmaesKnown
    <3>6. spent' < config.maxEvaluations
      BY <1>3, <3>3, <3>4, <3>5 DEF Repaired, CmaesInv, CmaesKnown, BudgetSound
    <3>7. NothingRefused'
      BY <1>3, <3>5, <3>6 DEF RefusalsLate
    <3>8. QED
      BY <3>4, <3>5, <3>7 DEF NothingRefused
  <2>2. ASSUME stage = "simplex"
        PROVE  NothingRefused'
    <3>1. CASE SimplexCall
      <4>1. stage' = "simplex"
        BY <2>2, <3>1 DEF SimplexCall
      <4>2. QED
        BY <1>3, <4>1 DEF RefusalsLate
    <3>2. CASE ~SimplexCall
      <4>1. memo' = memo
        BY <1>3, <2>2, <3>2 DEF CmaesNext, SeedPrescan, DividePrescan, PrescanEnds, BeginRestart,
           CmaesStops, RestartsEnd, Generation, PolishSkipped, StartSimplex, SimplexEnds,
           RefineCmaesWinner, RefineWinner, objectiveVars
      <4>2. QED
        BY <1>3, <2>2, <4>1 DEF RefusalsLate, NothingRefused
    <3>3. QED
      BY <3>1, <3>2
  <2>3. QED
    BY <2>1, <2>2 DEF NothingRefused
<1>4. CmaesInv /\ RefusalsLate /\ RefusalsLate' /\ [CmaesNext]_cmaesVars =>
        [/\ told' # told => \A i \in DOMAIN told' : memo'[told'[i]] # RefusedPenalty
         /\ stage = "simplex" => \A p \in DOMAIN memo' : memo'[p] # RefusedPenalty]_cmaesVars
  BY <1>3
<1>5. QED
  BY <1>1, <1>2, <1>4, CmaesInvariant, PTL DEF CmaesSpec, OptimizersSeeRealAnswers

-----------------------------------------------------------------------------
(* CMA-ES: types                                                           *)

\* Answers are scores or the refusal, and rectangles bear the answers of their centres.
CmaesScored ==
  /\ \A p \in DOMAIN memo : memo[p] \in ScoresAt(p) \cup {RefusedPenalty}
  /\ \A r \in rectangles : r.center \in DOMAIN memo /\ r.score = memo[r.center]

\* A restart is under way only among those allowed, and before its stall limit.
CmaesCounted ==
  /\ restart \in 0..(config.restarts + 1) /\ generation \in 1..config.maxIterations
  /\ stallCounter \in 0..config.stallIterations
  /\ stage = "generation" => restart <= config.restarts /\ stallCounter < config.stallIterations
  /\ told = <<>> \/ told \in [1..config.populationSize -> Proposals]
  /\ simplexLeft \in 0..config.polishEvaluations
  /\ stage \in {"start", "prescan", "restart", "generation", "polish", "simplex", "refining",
               "done", "failed"}

CmaesCounts == postCounts \in Counts /\ postCounts.total = postCounts.valid + postCounts.infeasible

\* The sizes of the configuration.
LEMMA CmaesSizes ==
  ASSUME CmaesKnown
  PROVE  /\ config.populationSize \in Nat \ {0, 1} /\ config.maxIterations \in Nat \ {0}
         /\ config.restarts \in Nat /\ config.stallIterations \in Nat \ {0}
         /\ config.polishEvaluations \in Nat /\ config.maxEvaluations \in Nat
BY CmaesAssumption DEF CmaesConfigurationType, CmaesKnown

\* Rectangles are kept or new, and scored by the answers of the call.
LEMMA ScoredKept ==
  ASSUME CmaesKnown, CmaesScored,
         NEW specs, NEW next, Specs(specs, next), Evaluate(CentersById(specs), RefusedPenalty),
         NEW few, NEW first, Specs(few, first), few \subseteq specs, NEW old \in SUBSET rectangles,
         rectangles' = old \cup Scored(few, memo')
  PROVE  CmaesScored'
<1>1. /\ \A s \in specs : s.center \in DOMAIN memo' /\ memo'[s.center] \in 0..Infinity
      /\ \A p \in DOMAIN memo : p \in DOMAIN memo' /\ memo'[p] = memo[p]
      /\ \A p \in DOMAIN memo' \ DOMAIN memo : memo'[p] \in ScoresAt(p) \cup {RefusedPenalty}
  BY SpecsAsked
<1>2. \A p \in DOMAIN memo' : memo'[p] \in ScoresAt(p) \cup {RefusedPenalty}
  BY <1>1 DEF CmaesScored
<1>3. \A s \in few : memo'[s.center] \in 0..Infinity
  BY <1>1
<1>4. \A r \in Scored(few, memo') :
        r.score = memo'[r.center] /\ \E s \in few : r.center = s.center
  BY <1>3, ScoredFacts
<1>5. ASSUME NEW r \in rectangles'
      PROVE  r.center \in DOMAIN memo' /\ r.score = memo'[r.center]
  <2>1. CASE r \in old
    BY <1>1, <2>1 DEF CmaesScored
  <2>2. CASE r \in Scored(few, memo')
    BY <1>1, <1>4, <2>2
  <2>3. QED
    BY <2>1, <2>2
<1>6. QED
  BY <1>2, <1>5 DEF CmaesScored

\* Every step keeps the scores,
LEMMA CmaesScoredKept ==
  ASSUME CmaesInv, CmaesScored, [CmaesNext]_cmaesVars
  PROVE  CmaesScored'
<1>1. CASE SeedPrescan
  <2> DEFINE seeds == {s \in SeedRectangles : s.id < TargetBudget}
  <2>1. Evaluate(CentersById(seeds), RefusedPenalty) /\ rectangles' = {} \cup Scored(seeds, memo')
    BY <1>1 DEF SeedPrescan
  <2>2. TargetBudget \in Nat \ {0}
    BY TargetPositive DEF CmaesInv, CmaesKnown
  <2>3. Specs(seeds, 0)
    BY <2>2, SeedsFacts, FirstSpecs
  <2> HIDE DEF seeds
  <2>4. seeds \subseteq seeds /\ {} \in SUBSET rectangles /\ CmaesKnown
    BY DEF CmaesInv
  <2>5. QED
    BY <2>1, <2>3, <2>4, ScoredKept
<1>2. CASE DividePrescan
  <2> DEFINE kept == KeptChildren(CmaesChildren, spent')
  <2>1. /\ Specs(CmaesChildren, nextRectId) /\ Evaluate(CentersById(CmaesChildren), RefusedPenalty)
        /\ rectangles' = (rectangles \ CmaesSelected) \cup Scored(kept, memo')
    BY <1>2, DivisionAsks
  <2>2. kept \subseteq CmaesChildren /\ Specs(kept, nextRectId)
    BY <1>2, KeptSpecs
  <2> HIDE DEF kept
  <2>3. QED
    BY <2>1, <2>2, ScoredKept DEF CmaesInv
<1>3. CASE Generation \/ SimplexCall
  <2>1. PICK request : /\ Request(request) /\ Evaluate(request, RefusedPenalty)
                       /\ \A i \in DOMAIN request : request[i] \in CmaesPoints
    BY <1>3, ProposalsAsked
  <2>2. /\ DOMAIN memo' = DOMAIN memo \cup {request[i] : i \in DOMAIN request}
        /\ \A p \in DOMAIN memo : memo'[p] = memo[p]
        /\ \A p \in DOMAIN memo' \ DOMAIN memo : memo'[p] \in ScoresAt(p) \cup {RefusedPenalty}
    BY <2>1, CmaesEvaluated DEF CmaesInv
  <2>3. rectangles' = rectangles
    BY <1>3 DEF Generation, SimplexCall, unchangedByGenerations, unchangedByPolish
  <2>4. QED
    BY <2>2, <2>3 DEF CmaesScored
<1>4. CASE \/ PrescanEnds \/ BeginRestart \/ CmaesStops \/ RestartsEnd
           \/ PolishSkipped \/ StartSimplex \/ SimplexEnds \/ RefineCmaesWinner
           \/ UNCHANGED cmaesVars
  <2>1. UNCHANGED <<memo, rectangles>>
    BY <1>4 DEF PrescanEnds, BeginRestart, CmaesStops, RestartsEnd, PolishSkipped, StartSimplex,
       SimplexEnds, RefineCmaesWinner, RefineWinner, cmaesVars, objectiveVars, cmaesSearchVars,
       unchangedByGenerations, unchangedByPolish
  <2>2. QED
    BY <2>1 DEF CmaesScored
<1>5. QED
  BY <1>1, <1>2, <1>3, <1>4 DEF CmaesNext

\* the counters of the loops
LEMMA CmaesCountedKept ==
  ASSUME CmaesInv, CmaesInv', CmaesCounted, [CmaesNext]_cmaesVars
  PROVE  CmaesCounted'
<1>1. CmaesKnown
  BY DEF CmaesInv
<1>2. /\ config.populationSize \in Nat \ {0, 1} /\ config.maxIterations \in Nat \ {0}
      /\ config.restarts \in Nat /\ config.stallIterations \in Nat \ {0}
      /\ config.polishEvaluations \in Nat /\ config.maxEvaluations \in Nat
  BY <1>1, CmaesSizes
<1>3. CASE Generation
  <2>1. PICK vectors \in [1..config.populationSize -> Proposals] :
          /\ Evaluate(vectors, RefusedPenalty)
          /\ IF Repaired(spent') = config.populationSize
               THEN TellGeneration(vectors) ELSE CutShort
    BY <1>3 DEF Generation
  <2>2. config' = config /\ simplexLeft' = simplexLeft /\ stage = "generation"
    BY <1>3, <2>1 DEF Generation, Evaluate, Ask, unchangedByGenerations
  <2>3. CASE CutShort
    BY <2>2, <2>3 DEF CmaesCounted, CutShort
  <2>4. CASE TellGeneration(vectors)
    <3>1. stallCounter \in Nat /\ stallCounter < config.stallIterations /\ restart <= config.restarts
      BY <1>2, <2>2 DEF CmaesCounted
    <3>2. stallCounter' = stallCounter + 1 \/ stallCounter' = 0
      BY <2>4 DEF TellGeneration
    <3>3. stallCounter' \in 0..config.stallIterations
      BY <1>2, <3>1, <3>2
    <3>4. PICK sigmaSmall \in BOOLEAN :
            LET why == RestartReason(sigmaSmall, stallCounter')
            IN  IF why = "none" /\ generation < config.maxIterations
                  THEN generation' = generation + 1 /\ UNCHANGED <<restart, stage, reason>>
                  ELSE /\ restart' = restart + 1 /\ stage' = "restart"
                       /\ reason' = IF why = "none" THEN reason ELSE why
                       /\ UNCHANGED generation
      BY <2>4 DEF TellGeneration
    <3>5. CASE RestartReason(sigmaSmall, stallCounter') = "none" /\ generation < config.maxIterations
      <4>1. generation' = generation + 1 /\ UNCHANGED <<restart, stage>>
        BY <3>4, <3>5
      <4>2. stallCounter' < config.stallIterations
        BY <1>2, <3>3, <3>5 DEF RestartReason
      <4>3. generation' \in 1..config.maxIterations
        BY <1>2, <3>5, <4>1 DEF CmaesCounted
      <4>4. told' = vectors
        BY <2>4 DEF TellGeneration
      <4>5. QED
        BY <2>1, <2>2, <3>1, <3>3, <4>1, <4>2, <4>3, <4>4 DEF CmaesCounted
    <3>6. CASE ~(RestartReason(sigmaSmall, stallCounter') = "none" /\ generation < config.maxIterations)
      <4>1. restart' = restart + 1 /\ stage' = "restart" /\ generation' = generation
        BY <3>4, <3>6
      <4>2. restart' \in 0..(config.restarts + 1)
        BY <1>2, <3>1, <4>1 DEF CmaesCounted
      <4>3. told' = vectors
        BY <2>4 DEF TellGeneration
      <4>4. QED
        BY <2>1, <2>2, <3>3, <4>1, <4>2, <4>3 DEF CmaesCounted
    <3>7. QED
      BY <3>5, <3>6
  <2>5. QED
    BY <2>1, <2>3, <2>4
<1>4. CASE BeginRestart
  <2>1. /\ restart <= config.restarts /\ stage' = "generation" /\ generation' = 1 /\ stallCounter' = 0
        /\ UNCHANGED <<config, restart, told, simplexLeft>>
    BY <1>4 DEF BeginRestart, objectiveVars, unchangedByGenerations
  <2>2. QED
    BY <1>2, <2>1 DEF CmaesCounted
<1>5. CASE StartSimplex
  <2> DEFINE limits == {config.polishEvaluations, config.maxEvaluations - spent}
  <2>1. /\ simplexLeft' = Min(limits) /\ stage' = "simplex"
        /\ UNCHANGED <<config, restart, generation, stallCounter, told>>
    BY <1>5 DEF StartSimplex, objectiveVars, Remaining, Min, unchangedByPolish
  <2>2. limits \subseteq Nat /\ config.polishEvaluations \in limits
    BY <1>1, <1>2 DEF CmaesKnown, BudgetSound
  <2> HIDE DEF limits
  <2>3. simplexLeft' \in Nat /\ simplexLeft' <= config.polishEvaluations
    BY <2>1, <2>2, MinFacts
  <2>4. QED
    BY <1>2, <2>1, <2>3 DEF CmaesCounted
<1>6. CASE SimplexCall
  <2>1. /\ simplexLeft > 0 /\ simplexLeft' = simplexLeft - 1 /\ stage = "simplex" /\ stage' = stage
        /\ UNCHANGED <<restart, generation, stallCounter, told>>
    BY <1>6 DEF SimplexCall, unchangedByPolish
  <2>2. config' = config
    BY <1>6 DEF SimplexCall, Evaluate, Ask
  <2>3. simplexLeft' \in 0..config.polishEvaluations
    BY <1>2, <2>1 DEF CmaesCounted
  <2>4. QED
    BY <2>1, <2>2, <2>3 DEF CmaesCounted
<1>7. CASE \/ SeedPrescan \/ DividePrescan \/ PrescanEnds \/ CmaesStops
           \/ RestartsEnd \/ PolishSkipped \/ SimplexEnds \/ RefineCmaesWinner
           \/ UNCHANGED cmaesVars
  <2>1. /\ UNCHANGED <<config, restart, generation, stallCounter, told, simplexLeft>>
        /\ stage' \in {"prescan", "failed", "restart", "polish", "done", "refining", stage}
    BY <1>7 DEF SeedPrescan, DividePrescan, PrescanEnds, CmaesStops, RestartsEnd, PolishSkipped,
       SimplexEnds, RefineCmaesWinner, RefineWinner, cmaesVars, objectiveVars, cmaesSearchVars,
       unchangedByPrescan, unchangedByGenerations, unchangedByPolish, Evaluate, Ask
  <2>2. QED
    BY <2>1 DEF CmaesCounted
<1>8. QED
  BY <1>3, <1>4, <1>5, <1>6, <1>7 DEF CmaesNext

\* and those of the polish.
LEMMA CmaesCountsKept ==
  ASSUME CmaesCounts, [CmaesNext]_cmaesVars
  PROVE  CmaesCounts'
<1>1. CASE SimplexCall
  <2>1. PICK p :
          LET one == IF p \in ValidPoints(memo') THEN 1 ELSE 0
          IN  postCounts' = [total |-> postCounts.total + 1, valid |-> postCounts.valid + one,
                             infeasible |-> postCounts.infeasible + (1 - one)]
    BY <1>1 DEF SimplexCall
  <2>2. \/ postCounts' = [total |-> postCounts.total + 1, valid |-> postCounts.valid + 1,
                          infeasible |-> postCounts.infeasible + (1 - 1)]
        \/ postCounts' = [total |-> postCounts.total + 1, valid |-> postCounts.valid + 0,
                          infeasible |-> postCounts.infeasible + (1 - 0)]
    BY <2>1
  <2>3. QED
    BY <2>2 DEF CmaesCounts, Counts
<1>2. CASE RefineCmaesWinner
  <2>1. Refine
    BY <1>2 DEF RefineCmaesWinner, RefineWinner
  <2>2. QED
    BY <2>1, RecordedAdds DEF CmaesCounts
<1>3. CASE \/ SeedPrescan \/ DividePrescan \/ PrescanEnds \/ BeginRestart
           \/ CmaesStops \/ RestartsEnd \/ Generation \/ PolishSkipped
           \/ StartSimplex \/ SimplexEnds \/ UNCHANGED cmaesVars
  <2>1. postCounts' = postCounts
    BY <1>3 DEF SeedPrescan, DividePrescan, PrescanEnds, BeginRestart, CmaesStops, RestartsEnd,
       Generation, PolishSkipped, StartSimplex, SimplexEnds, cmaesVars, refinementVars,
       unchangedByPrescan, unchangedByGenerations
  <2>2. QED
    BY <2>1 DEF CmaesCounts
<1>4. QED
  BY <1>1, <1>2, <1>3 DEF CmaesNext

\* Every variable of the CMA-ES search keeps its type, for every population, budget and
\* number of restarts.
THEOREM CmaesTypeCorrect == CmaesSpec => []CmaesTypeOK
<1>1. ASSUME CmaesInit, CmaesInv
      PROVE  CmaesScored /\ CmaesCounted /\ CmaesCounts
  <2>1. /\ DOMAIN memo = {} /\ rectangles = {} /\ restart = 0 /\ generation = 1 /\ stallCounter = 0
        /\ told = <<>> /\ simplexLeft = 0 /\ stage = "start"
        /\ postCounts = [total |-> 0, valid |-> 0, infeasible |-> 0]
    BY <1>1 DEF CmaesInit, ObjectiveInit, RefinementInit
  <2>2. CmaesCounted
    BY <1>1, <2>1, CmaesSizes DEF CmaesCounted, CmaesInv
  <2>3. QED
    BY <2>1, <2>2 DEF CmaesScored, CmaesCounts, Counts
<1>2. CmaesInv /\ CmaesInv' /\ (CmaesScored /\ CmaesCounted /\ CmaesCounts) /\ [CmaesNext]_cmaesVars
        => (CmaesScored /\ CmaesCounted /\ CmaesCounts)'
  <2>1. SUFFICES ASSUME CmaesInv, CmaesInv', CmaesScored, CmaesCounted, CmaesCounts,
                        [CmaesNext]_cmaesVars
                 PROVE  CmaesScored' /\ CmaesCounted' /\ CmaesCounts'
    OBVIOUS
  <2>2. CmaesScored'
    BY <2>1, CmaesScoredKept
  <2>3. CmaesCounted'
    BY <2>1, CmaesCountedKept
  <2>4. CmaesCounts'
    BY <2>1, CmaesCountsKept
  <2>5. QED
    BY <2>2, <2>3, <2>4
<1>3. ASSUME CmaesInv, CmaesScored, CmaesCounted, CmaesCounts
      PROVE  CmaesTypeOK
  <2>1. config \in CmaesConfigurations /\ spent \in 0..config.maxEvaluations
    BY <1>3 DEF CmaesInv, CmaesKnown, BudgetSound
  <2>2. /\ \A r \in rectangles : r.id < nextRectId /\ r.score = memo[r.center]
        /\ \A r, s \in rectangles : r.id = s.id => r = s
    BY <1>3 DEF CmaesInv, PrescanSound, Partition, CmaesScored
  <2>3. Len(told) \in {0, config.populationSize}
    <3>1. config.populationSize \in Nat
      BY <1>3, CmaesSizes DEF CmaesInv
    <3>2. told \in [1..config.populationSize -> Proposals] => Len(told) = config.populationSize
      BY <3>1, Listed
    <3>3. QED
      BY <1>3, <3>2 DEF CmaesCounted
  <2>4. QED
    BY <1>3, <2>1, <2>2, <2>3 DEF CmaesScored, CmaesCounted, CmaesCounts, CmaesTypeOK
<1>4. CmaesInit /\ CmaesInv => CmaesScored /\ CmaesCounted /\ CmaesCounts
  BY <1>1
<1>5. CmaesInv /\ CmaesScored /\ CmaesCounted /\ CmaesCounts => CmaesTypeOK
  BY <1>3
<1>6. QED
  BY <1>2, <1>4, <1>5, CmaesInvariant, PTL DEF CmaesSpec

-----------------------------------------------------------------------------
(* The retained path: lengths as numbers of steps                          *)

\* g adds up h over the subsets of S.
AddsUp(g, h, S) ==
  g = [s \in SUBSET S |-> IF s = {} THEN 0
                          ELSE LET x == CHOOSE x \in s : TRUE IN h[x] + g[s \ {x}]]

\* There is such a function for every finite set.
LEMMA SumExists ==
  ASSUME NEW S, IsFiniteSet(S), NEW h
  PROVE  \E g : AddsUp(g, h, S)
<1> DEFINE Upto(n) == {s \in SUBSET S : Cardinality(s) <= n}
           Sums(g, n) == g = [s \in Upto(n) |-> IF s = {} THEN 0
                          ELSE h[CHOOSE x \in s : TRUE] + g[s \ {CHOOSE x \in s : TRUE}]]
           Bad == {n \in Nat : ~\E g : Sums(g, n)}
<1>1. \A s \in SUBSET S : IsFiniteSet(s) /\ Cardinality(s) \in Nat
  BY FS_Subset, FS_CardinalityType
<1>2. Bad = {}
  <2>1. SUFFICES ASSUME Bad # {} PROVE FALSE
    OBVIOUS
  <2>2. PICK n \in Bad : \A m \in Bad : n <= m
    BY <2>1, LeastNatural
  <2>3. CASE n = 0
    <3>1. Upto(0) = {{}}
      BY <1>1, FS_EmptySet
    <3> DEFINE g == [s \in Upto(0) |-> 0]
    <3>2. Sums(g, 0)
      BY <3>1
    <3>3. QED
      BY <2>2, <2>3, <3>2
  <2>4. CASE n # 0
    <3>1. n - 1 \in Nat /\ n - 1 \notin Bad
      <4> HIDE DEF Bad
      <4>1. n \in Nat
        BY DEF Bad
      <4>2. n - 1 \in Nat /\ ~(n <= n - 1)
        BY <2>4, <4>1
      <4>3. QED
        BY <2>2, <4>2
    <3>2. PICK g : Sums(g, n - 1)
      BY <3>1
    <3> DEFINE f == [s \in Upto(n) |-> IF s = {} THEN 0
                          ELSE h[CHOOSE x \in s : TRUE] + g[s \ {CHOOSE x \in s : TRUE}]]
    <3>3. ASSUME NEW s \in Upto(n), s # {}, NEW x \in s
          PROVE  s \ {x} \in Upto(n - 1)
      <4>1. Cardinality(s \ {x}) = Cardinality(s) - 1
        BY <1>1, <3>3, FS_RemoveElement
      <4>2. QED
        BY <1>1, <3>1, <4>1
    <3>4. ASSUME NEW s \in Upto(n - 1) PROVE f[s] = g[s]
      <4>1. s \in Upto(n)
        BY <1>1, <3>1
      <4>2. g[s] = IF s = {} THEN 0
                          ELSE h[CHOOSE x \in s : TRUE] + g[s \ {CHOOSE x \in s : TRUE}]
        BY <3>2
      <4>3. QED
        BY <4>1, <4>2
    <3>5. ASSUME NEW s \in Upto(n)
          PROVE  f[s] = IF s = {} THEN 0
                          ELSE h[CHOOSE x \in s : TRUE] + f[s \ {CHOOSE x \in s : TRUE}]
      <4> DEFINE x == CHOOSE x \in s : TRUE
      <4>1. CASE s = {}
        BY <4>1
      <4>2. CASE s # {}
        <5>1. x \in s
          BY <4>2
        <5>2. f[s \ {x}] = g[s \ {x}]
          BY <3>3, <3>4, <4>2, <5>1
        <5>3. f[s] = h[x] + g[s \ {x}]
          BY <4>2
        <5>4. QED
          BY <5>2, <5>3, <4>2
      <4>3. QED
        BY <4>1, <4>2
    <3>6. Sums(f, n)
      <4> HIDE DEF Upto
      <4>1. f = [s \in Upto(n) |-> f[s]]
        OBVIOUS
      <4> HIDE DEF f
      <4>2. QED
        BY <3>5, <4>1
    <3>7. QED
      BY <2>2, <3>6
  <2>5. QED
    BY <2>3, <2>4
<1>3. Cardinality(S) \in Nat /\ Upto(Cardinality(S)) = SUBSET S
  BY <1>1, FS_Subset, FS_CardinalityType
<1>4. PICK g : Sums(g, Cardinality(S))
  BY <1>2, <1>3
<1> HIDE DEF Upto
<1>5. AddsUp(g, h, S)
  BY <1>3, <1>4 DEF AddsUp
<1>6. QED
  BY <1>5

\* The length of a path is the value of one.
LEMMA TotalAddsUp ==
  ASSUME NEW Q, IsFiniteSet(Q), NEW h, \A x \in Q : h[x] = Length(x)
  PROVE  \E g : AddsUp(g, h, Q) /\ TotalLength(Q) = g[Q]
<1> DEFINE Is(g) == g = [s \in SUBSET Q |-> IF s = {} THEN 0 ELSE Length(CHOOSE x \in s : TRUE) + g[s \ {CHOOSE x \in s : TRUE}]]
<1>1. TotalLength(Q) = (CHOOSE g : Is(g))[Q]
  BY DEF TotalLength, MapThenSumSet, MapThenFoldSet
<1>2. \A g : Is(g) <=> AddsUp(g, h, Q)
  BY DEF AddsUp
<1>3. PICK g : AddsUp(g, h, Q)
  BY SumExists
<1> HIDE DEF Is
<1>4. QED
  BY <1>1, <1>2, <1>3

\* The unit steps of the ground a path covers, each named by where it begins.
Cells(Q) == {x \in 0..(GroundLength - 1) : \E s \in Q : s[1] <= x /\ x < s[2]}

\* Segments of the ground that do not overlap and contain no bend.
PathSound(Q) ==
  /\ Q \subseteq (0..GroundLength) \X (0..GroundLength)
  /\ \A s \in Q : s[1] < s[2] /\ \A b \in Breakpoints : ~(s[1] < b /\ b < s[2])
  /\ \A s, t \in Q : s # t => s[2] <= t[1] \/ t[2] <= s[1]

\* As many steps as the distance.
LEMMA IntervalLength ==
  ASSUME NEW a \in Nat, NEW b \in Nat, a <= b
  PROVE  IsFiniteSet(a..(b - 1)) /\ Cardinality(a..(b - 1)) = b - a
<1>1. PICK c \in Int : c = b - 1
  OBVIOUS
<1>2. IsFiniteSet(a..c) /\ Cardinality(a..c) = IF a > c THEN 0 ELSE c - a + 1
  BY FS_Interval
<1>3. Cardinality(a..c) = b - a
  BY <1>1, <1>2
<1>4. QED
  BY <1>1, <1>2, <1>3

\* A path and its cells are finite, and its segments are pairs of places on the ground.
LEMMA PathFacts ==
  ASSUME NEW Q, PathSound(Q)
  PROVE  /\ IsFiniteSet(Q)
         /\ \A s \in Q : s[1] \in Nat /\ s[2] \in Nat /\ s[1] < s[2] /\ s[2] <= GroundLength
                         /\ s = <<s[1], s[2]>>
         /\ IsFiniteSet(Cells(Q)) /\ Cells(Q) \subseteq Nat /\ Cardinality(Cells(Q)) \in Nat
<1>1. IsFiniteSet(0..GroundLength) /\ IsFiniteSet(0..(GroundLength - 1))
  BY GroundAssumption, FS_Interval
<1>2. IsFiniteSet((0..GroundLength) \X (0..GroundLength))
  BY <1>1, FS_Product
<1>3. IsFiniteSet(Q)
  BY <1>2, FS_Subset DEF PathSound
<1>4. IsFiniteSet(Cells(Q))
  BY <1>1, FS_Subset DEF Cells
<1>5. \A s \in Q : s[1] \in Nat /\ s[2] \in Nat /\ s[1] < s[2] /\ s[2] <= GroundLength
                   /\ s = <<s[1], s[2]>>
  BY GroundAssumption DEF PathSound
<1>6. Cells(Q) \subseteq Nat
  BY GroundAssumption DEF Cells
<1>7. QED
  BY <1>3, <1>4, <1>5, <1>6, FS_CardinalityType

\* A part of a path is one.
LEMMA SubpathSound ==
  ASSUME NEW Q, PathSound(Q), NEW P \in SUBSET Q
  PROVE  PathSound(P)
BY DEF PathSound

\* A segment covers as many steps as it is long, apart from those of the others.
LEMMA SegmentCells ==
  ASSUME NEW Q, PathSound(Q), NEW s \in Q
  PROVE  Cardinality(Cells(Q)) = Length(s) + Cardinality(Cells(Q \ {s}))
<1>1. /\ s[1] \in Nat /\ s[2] \in Nat /\ s[1] < s[2] /\ s[2] <= GroundLength
  BY PathFacts
<1> DEFINE own == s[1]..(s[2] - 1)
<1>2. IsFiniteSet(own) /\ Cardinality(own) = Length(s)
  BY <1>1, IntervalLength DEF Length
<1>3. IsFiniteSet(Cells(Q \ {s})) /\ Cardinality(Cells(Q \ {s})) \in Nat
  BY SubpathSound, PathFacts
<1>4. Cells(Q) = own \cup Cells(Q \ {s})
  BY <1>1, GroundAssumption DEF Cells
<1>5. own \cap Cells(Q \ {s}) = {}
  <2>1. SUFFICES ASSUME NEW x \in own, NEW t \in Q \ {s}, t[1] <= x, x < t[2]
                 PROVE  FALSE
    BY DEF Cells
  <2>2. t[1] \in Nat /\ t[2] \in Nat
    BY PathFacts
  <2>3. s[2] <= t[1] \/ t[2] <= s[1]
    BY DEF PathSound
  <2>4. QED
    BY <1>1, <2>1, <2>2, <2>3
<1> HIDE DEF own
<1>6. Cardinality(Cells(Q)) = Length(s) + Cardinality(Cells(Q \ {s})) - Cardinality({})
  BY <1>2, <1>3, <1>4, <1>5, FS_Union
<1>7. Length(s) \in Nat
  BY <1>1 DEF Length
<1>8. QED
  BY <1>3, <1>6, <1>7, FS_EmptySet

\* So the length of a path is the number of its steps: else there would be a smallest set
\* of its segments whose sum is wrong.
LEMMA TotalIsCells ==
  ASSUME NEW Q, PathSound(Q)
  PROVE  TotalLength(Q) = Cardinality(Cells(Q))
<1> DEFINE h == [s \in Q |-> Length(s)]
<1>1. IsFiniteSet(Q)
  BY PathFacts
<1>2. PICK g : AddsUp(g, h, Q) /\ TotalLength(Q) = g[Q]
  BY <1>1, TotalAddsUp
<1> DEFINE Wrong == {n \in Nat : \E P \in SUBSET Q : Cardinality(P) = n /\ g[P] # Cardinality(Cells(P))}
<1>3. Wrong = {}
  <2>1. SUFFICES ASSUME Wrong # {} PROVE FALSE
    OBVIOUS
  <2>2. PICK n \in Wrong : \A m \in Wrong : n <= m
    BY <2>1, LeastNatural
  <2>3. PICK P \in SUBSET Q : Cardinality(P) = n /\ g[P] # Cardinality(Cells(P))
    BY <2>2
  <2>4. IsFiniteSet(P) /\ PathSound(P)
    BY <1>1, FS_Subset, SubpathSound
  <2> DEFINE x == CHOOSE x \in P : TRUE
  <2>5. g[P] = IF P = {} THEN 0 ELSE h[x] + g[P \ {x}]
    BY <1>2 DEF AddsUp
  <2>6. CASE P = {}
    <3>1. Cells(P) = {}
      BY <2>6 DEF Cells
    <3>2. QED
      BY <2>3, <2>5, <2>6, <3>1, FS_EmptySet
  <2>7. CASE P # {}
    <3>1. x \in P
      BY <2>7
    <3> HIDE DEF x
    <3>2. Cardinality(P \ {x}) = n - 1 /\ n - 1 \in Nat
      <4>1. IsFiniteSet(P \ {x}) /\ Cardinality(P \ {x}) = Cardinality(P) - 1
        BY <2>4, <3>1, FS_RemoveElement
      <4>2. QED
        BY <2>3, <4>1, FS_CardinalityType
    <3>3. n \in Nat /\ ~(n <= n - 1)
      BY <3>2
    <3>4. n - 1 \notin Wrong
      <4> HIDE DEF Wrong
      <4>1. QED
        BY <2>2, <3>3
    <3>5. g[P \ {x}] = Cardinality(Cells(P \ {x}))
      BY <3>2, <3>4
    <3>6. g[P] = Length(x) + Cardinality(Cells(P \ {x}))
      BY <2>5, <2>7, <3>1, <3>5
    <3>7. QED
      BY <2>3, <2>4, <3>1, <3>6, SegmentCells
  <2>8. QED
    BY <2>6, <2>7
<1>4. Cardinality(Q) \in Nat
  BY <1>1, FS_CardinalityType
<1>5. QED
  BY <1>2, <1>3, <1>4

\* The number of covered steps before a place.
StepsTo(Q, c) == Cardinality({x \in Cells(Q) : x < c})

\* It is at most the length of the path, and grows with the place.
LEMMA StepsToFacts ==
  ASSUME NEW Q, PathSound(Q)
  PROVE  /\ \A c \in Int : StepsTo(Q, c) \in Nat /\ StepsTo(Q, c) <= TotalLength(Q)
         /\ \A c, d \in Int : (\A x \in Cells(Q) : x < c => x < d) => StepsTo(Q, c) <= StepsTo(Q, d)
         /\ TotalLength(Q) \in Nat
<1>1. IsFiniteSet(Cells(Q)) /\ Cardinality(Cells(Q)) \in Nat
  BY PathFacts
<1>2. \A c \in Int : /\ IsFiniteSet({x \in Cells(Q) : x < c}) /\ StepsTo(Q, c) \in Nat
                     /\ StepsTo(Q, c) <= TotalLength(Q)
  <2>1. SUFFICES ASSUME NEW c \in Int
                 PROVE  /\ IsFiniteSet({x \in Cells(Q) : x < c}) /\ StepsTo(Q, c) \in Nat
                        /\ StepsTo(Q, c) <= TotalLength(Q)
    OBVIOUS
  <2>2. {x \in Cells(Q) : x < c} \in SUBSET Cells(Q)
    OBVIOUS
  <2>3. IsFiniteSet({x \in Cells(Q) : x < c}) /\ Cardinality({x \in Cells(Q) : x < c}) <= Cardinality(Cells(Q))
    BY <1>1, <2>2, FS_Subset
  <2>4. QED
    BY <2>3, TotalIsCells, FS_CardinalityType DEF StepsTo
<1>3. ASSUME NEW c \in Int, NEW d \in Int, \A x \in Cells(Q) : x < c => x < d
      PROVE  StepsTo(Q, c) <= StepsTo(Q, d)
  <2>1. {x \in Cells(Q) : x < c} \in SUBSET {x \in Cells(Q) : x < d}
    BY <1>3
  <2>2. QED
    BY <1>2, <2>1, FS_Subset DEF StepsTo
<1>4. QED
  BY <1>1, <1>2, <1>3, TotalIsCells

\* It is what precedes a segment, and grows by its length along it.
LEMMA TraversedIsStepsTo ==
  ASSUME NEW Q, PathSound(Q), NEW s \in Q
  PROVE  Traversed(Q, s) = StepsTo(Q, s[1])
<1> DEFINE P == {other \in Q : other[1] < s[1]}
<1>1. P \in SUBSET Q /\ PathSound(P)
  BY SubpathSound
<1>2. Cells(P) = {x \in Cells(Q) : x < s[1]}
  <2>1. ASSUME NEW t \in P, NEW x \in 0..(GroundLength - 1), t[1] <= x, x < t[2]
        PROVE  x < s[1]
    <3>1. t # s /\ t[1] \in Nat /\ t[2] \in Nat /\ s[1] \in Nat /\ s[2] \in Nat /\ s[1] < s[2]
          /\ t[1] < s[1]
      BY PathFacts
    <3>2. s[2] <= t[1] \/ t[2] <= s[1]
      BY <3>1 DEF PathSound
    <3>3. QED
      BY <2>1, <3>1, <3>2
  <2>2. ASSUME NEW t \in Q, NEW x \in 0..(GroundLength - 1), t[1] <= x, x < s[1]
        PROVE  t \in P
    <3>1. t[1] \in Nat /\ s[1] \in Nat
      BY PathFacts
    <3>2. QED
      BY <2>2, <3>1
  <2> HIDE DEF P
  <2>3. Cells(P) \subseteq {x \in Cells(Q) : x < s[1]}
    BY <1>1, <2>1 DEF Cells
  <2>4. {x \in Cells(Q) : x < s[1]} \subseteq Cells(P)
    BY <2>2 DEF Cells
  <2>5. QED
    BY <2>3, <2>4
<1>3. QED
  BY <1>1, <1>2, TotalIsCells DEF Traversed, StepsTo

\* Over a segment it grows by the length of the segment.
LEMMA StepsToEnd ==
  ASSUME NEW Q, PathSound(Q), NEW s \in Q
  PROVE  StepsTo(Q, s[2]) = StepsTo(Q, s[1]) + Length(s)
<1>1. /\ s[1] \in Nat /\ s[2] \in Nat /\ s[1] < s[2] /\ s[2] <= GroundLength
  BY PathFacts
<1> DEFINE own == s[1]..(s[2] - 1)
           before == {x \in Cells(Q) : x < s[1]}
<1>2. IsFiniteSet(own) /\ Cardinality(own) = Length(s) /\ Length(s) \in Nat
  BY <1>1, IntervalLength DEF Length
<1>3. IsFiniteSet(before) /\ Cardinality(before) \in Nat
  BY PathFacts, FS_Subset, FS_CardinalityType
<1>4. {x \in Cells(Q) : x < s[2]} = before \cup own
  <2>1. own \subseteq Cells(Q)
    BY <1>1, GroundAssumption DEF Cells
  <2>2. Cells(Q) \subseteq Nat
    BY PathFacts
  <2>3. QED
    BY <1>1, <2>1, <2>2
<1>5. before \cap own = {}
  <2>1. Cells(Q) \subseteq Nat
    BY PathFacts
  <2>2. QED
    BY <1>1, <2>1
<1>6. StepsTo(Q, s[1]) = Cardinality(before) /\ StepsTo(Q, s[2]) = Cardinality(before \cup own)
  BY <1>4 DEF StepsTo
<1> HIDE DEF own, before
<1>7. Cardinality(before \cup own) = Cardinality(before) + Cardinality(own) - Cardinality({})
  BY <1>2, <1>3, <1>5, FS_Union
<1>8. QED
  BY <1>2, <1>3, <1>6, <1>7, FS_EmptySet

\* Of the segments that begin before a place the last covers all steps before it.
LEMMA LastBefore ==
  ASSUME NEW Q, PathSound(Q), NEW c \in Int, NEW s \in Q, s[1] < c
  PROVE  \E t \in Q : /\ t[1] < c /\ \A o \in Q : o[1] < c => o[1] <= t[1]
                      /\ StepsTo(Q, c) <= StepsTo(Q, t[2])
<1> DEFINE P == {t \in Q : t[1] < c}
           f == [t \in P |-> -t[1]]
<1>1. IsFiniteSet(P) /\ P # {}
  BY PathFacts, FS_Subset
<1>2. \A t \in P : t[1] \in Nat /\ f[t] \in Int
  BY PathFacts
<1>3. PICK t \in P : \A o \in P : f[t] <= f[o]
  <2> HIDE DEF P, f
  <2>1. QED
    BY <1>1, <1>2, LeastValue
<1>4. ASSUME NEW o \in P
      PROVE  o[1] <= t[1]
  <2>1. f[o] = -o[1] /\ f[t] = -t[1] /\ f[t] <= f[o] /\ o[1] \in Nat /\ t[1] \in Nat
    BY <1>2, <1>3
  <2>2. QED
    BY <2>1
<1>5. ASSUME NEW x \in Cells(Q), x < c
      PROVE  x < t[2]
  <2>1. PICK o \in Q : o[1] <= x /\ x < o[2]
    BY DEF Cells
  <2>2. /\ x \in Nat /\ o[1] \in Nat /\ o[2] \in Nat /\ t[1] \in Nat /\ t[2] \in Nat
        /\ t[1] < t[2] /\ o[1] < o[2]
    BY PathFacts
  <2>3. o \in P
    BY <1>5, <2>1, <2>2
  <2>4. o = t \/ o[2] <= t[1] \/ t[2] <= o[1]
    BY DEF PathSound
  <2>5. o[1] <= t[1]
    BY <1>4, <2>3
  <2>6. QED
    BY <2>1, <2>2, <2>4, <2>5
<1>6. t[2] \in Int
  BY PathFacts
<1>7. StepsTo(Q, c) <= StepsTo(Q, t[2])
  BY <1>5, <1>6, StepsToFacts
<1>8. QED
  BY <1>4, <1>7

\* The place at a length: on the first segment that reaches so far, as far behind the start
\* of this segment as the length is behind what precedes it.
LEMMA PointAtFacts ==
  ASSUME NEW Q, PathSound(Q), Q # {}, NEW s \in 0..TotalLength(Q)
  PROVE  \E f \in Q : /\ PointAt(Q, s) = f[1] + (s - StepsTo(Q, f[1]))
                      /\ StepsTo(Q, f[1]) <= s /\ s <= StepsTo(Q, f[1]) + Length(f)
                      /\ s > 0 => StepsTo(Q, f[1]) < s
                      /\ \A o \in Q : s <= StepsTo(Q, o[1]) + Length(o) => f[1] <= o[1]
                      /\ \A o \in Q : o[1] < f[1] => StepsTo(Q, f[1]) < s
<1> DEFINE Reaches(o) == s <= StepsTo(Q, o[1]) + Length(o)
           P == {o \in Q : Reaches(o)}
           Is(f) == \A o \in P : f[1] <= o[1]
           f == CHOOSE f \in P : Is(f)
<1>0. s \in Nat /\ TotalLength(Q) \in Nat
  BY StepsToFacts
<1>1. \A o \in Q : /\ o[1] \in Nat /\ o[2] \in Nat /\ o[1] < o[2]
                   /\ StepsTo(Q, o[1]) \in Nat /\ StepsTo(Q, o[2]) \in Nat /\ Length(o) \in Nat
                   /\ StepsTo(Q, o[2]) = StepsTo(Q, o[1]) + Length(o)
  BY PathFacts, StepsToFacts, StepsToEnd DEF Length
<1>2. P # {} /\ IsFiniteSet(P)
  <2>1. PICK any \in Q : TRUE
    OBVIOUS
  <2>2. PICK c \in Int : c = GroundLength + 1
    BY GroundAssumption
  <2>3. any[1] < c
    BY <2>2, PathFacts, GroundAssumption
  <2>4. PICK t \in Q : StepsTo(Q, c) <= StepsTo(Q, t[2])
    BY <2>3, LastBefore
  <2>5. {x \in Cells(Q) : x < c} = Cells(Q)
    BY <2>2, GroundAssumption DEF Cells
  <2>6. StepsTo(Q, c) = TotalLength(Q)
    BY <2>5, TotalIsCells DEF StepsTo
  <2>7. t \in P
    BY <1>0, <1>1, <2>4, <2>6
  <2>8. QED
    BY <2>7, PathFacts, FS_Subset
<1>3. f \in P /\ Is(f)
  <2> DEFINE start == [o \in P |-> o[1]]
  <2>1. \A o \in P : start[o] \in Int
    BY <1>1
  <2>2. PICK g \in P : \A o \in P : start[g] <= start[o]
    <3> HIDE DEF P, start
    <3>1. QED
      BY <1>2, <2>1, LeastValue
  <2>3. Is(g)
    BY <2>2
  <2> HIDE DEF P, Is
  <2>4. QED
    BY <2>2, <2>3
<1>4. PointAt(Q, s) = f[1] + (s - StepsTo(Q, f[1]))
  <2>1. P = {segment \in Q : s <= Traversed(Q, segment) + Length(segment)}
    BY TraversedIsStepsTo
  <2>2. Traversed(Q, f) = StepsTo(Q, f[1])
    BY <1>3, TraversedIsStepsTo
  <2>3. PointAt(Q, s) = f[1] + (s - Traversed(Q, f))
    BY <2>1 DEF PointAt
  <2>4. QED
    BY <2>2, <2>3
<1> HIDE DEF f
<1>5. ASSUME NEW o \in Q, o[1] < f[1]
      PROVE  StepsTo(Q, f[1]) < s
  <2>1. PICK t \in Q : t[1] < f[1] /\ StepsTo(Q, f[1]) <= StepsTo(Q, t[2])
    BY <1>1, <1>3, <1>5, LastBefore
  <2>2. t \notin P
    BY <1>1, <1>3, <2>1
  <2>3. QED
    BY <1>0, <1>1, <1>3, <2>1, <2>2
<1>6. CASE \E o \in Q : o[1] < f[1]
  <2>1. StepsTo(Q, f[1]) < s
    BY <1>5, <1>6
  <2>2. QED
    BY <1>0, <1>1, <1>3, <1>4, <1>5, <2>1
<1>7. CASE \A o \in Q : ~(o[1] < f[1])
  <2>1. {x \in Cells(Q) : x < f[1]} = {}
    BY <1>1, <1>3, <1>7 DEF Cells
  <2>2. StepsTo(Q, f[1]) = 0
    BY <2>1, FS_EmptySet DEF StepsTo
  <2>3. QED
    BY <1>0, <1>3, <1>4, <1>7, <2>2
<1>8. QED
  BY <1>6, <1>7

\* It is on the path, and rises with the length.
LEMMA PointAtOnPath ==
  ASSUME NEW Q, PathSound(Q), Q # {}, NEW s \in 0..TotalLength(Q)
  PROVE  /\ PointAt(Q, s) \in Nat
         /\ \E f \in Q : f[1] <= PointAt(Q, s) /\ PointAt(Q, s) <= f[2] /\ (s > 0 => f[1] < PointAt(Q, s))
<1>1. PICK f \in Q : /\ PointAt(Q, s) = f[1] + (s - StepsTo(Q, f[1]))
                     /\ StepsTo(Q, f[1]) <= s /\ s <= StepsTo(Q, f[1]) + Length(f)
                     /\ s > 0 => StepsTo(Q, f[1]) < s
  BY PointAtFacts
<1>2. /\ f[1] \in Nat /\ f[2] \in Nat /\ StepsTo(Q, f[1]) \in Nat /\ s \in Nat
      /\ Length(f) = f[2] - f[1]
  BY PathFacts, StepsToFacts DEF Length
<1>3. QED
  BY <1>1, <1>2

\* and the place rises with the distance.
LEMMA PointAtRises ==
  ASSUME NEW Q, PathSound(Q), Q # {}, NEW r \in 0..TotalLength(Q), NEW s \in 0..TotalLength(Q),
         r < s
  PROVE  PointAt(Q, r) < PointAt(Q, s)
<1>1. PICK e \in Q : /\ PointAt(Q, r) = e[1] + (r - StepsTo(Q, e[1]))
                     /\ StepsTo(Q, e[1]) <= r /\ r <= StepsTo(Q, e[1]) + Length(e)
                     /\ \A o \in Q : r <= StepsTo(Q, o[1]) + Length(o) => e[1] <= o[1]
  BY PointAtFacts
<1>2. PICK f \in Q : /\ PointAt(Q, s) = f[1] + (s - StepsTo(Q, f[1]))
                     /\ StepsTo(Q, f[1]) <= s /\ s <= StepsTo(Q, f[1]) + Length(f)
                     /\ \A o \in Q : o[1] < f[1] => StepsTo(Q, f[1]) < s
  BY PointAtFacts
<1>3. \A o \in Q : /\ o[1] \in Nat /\ o[2] \in Nat /\ o[1] < o[2]
                   /\ StepsTo(Q, o[1]) \in Nat /\ Length(o) = o[2] - o[1]
  BY PathFacts, StepsToFacts DEF Length
<1>4. r \in Nat /\ s \in Nat
  BY StepsToFacts
<1>5. e[1] <= f[1]
  BY <1>1, <1>2, <1>3, <1>4
<1>6. CASE e = f
  BY <1>1, <1>2, <1>3, <1>4, <1>6
<1>7. CASE e # f
  <2>1. e[2] <= f[1] \/ f[2] <= e[1]
    BY <1>7 DEF PathSound
  <2>2. e[2] <= f[1] /\ e[1] < f[1]
    BY <1>3, <1>5, <2>1
  <2>3. StepsTo(Q, f[1]) < s
    BY <1>2, <2>2
  <2>4. PointAt(Q, r) <= e[2]
    BY <1>1, <1>3, <1>4
  <2>5. QED
    BY <1>1, <1>2, <1>3, <1>4, <2>2, <2>3, <2>4
<1>8. QED
  BY <1>6, <1>7

\* The extrema of two numbers.
LEMMA TwoElements ==
  ASSUME NEW a \in Nat, NEW b \in Nat
  PROVE  /\ Max({a, b}) = IF a >= b THEN a ELSE b
         /\ Min({a, b}) = IF a <= b THEN a ELSE b
<1>1. Max({a, b}) = IF a >= b THEN a ELSE b
  <2>1. CASE a >= b
    <3>1. \A m \in {a, b} : (\A n \in {a, b} : m >= n) => m = a
      BY <2>1
    <3>2. QED
      BY <2>1, <3>1 DEF Max
  <2>2. CASE ~(a >= b)
    <3>1. \A m \in {a, b} : (\A n \in {a, b} : m >= n) => m = b
      BY <2>2
    <3>2. QED
      BY <2>2, <3>1 DEF Max
  <2>3. QED
    BY <2>1, <2>2
<1>2. Min({a, b}) = IF a <= b THEN a ELSE b
  <2>1. CASE a <= b
    BY <2>1, MinFacts
  <2>2. CASE ~(a <= b)
    BY <2>2, MinFacts
  <2>3. QED
    BY <2>1, <2>2
<1>3. QED
  BY <1>1, <1>2

\* What is cut from a segment: from and to are lengths along the path.
PieceOf(Q, s, from, to) ==
  <<s[1] + (IF from >= StepsTo(Q, s[1]) THEN from ELSE StepsTo(Q, s[1])) - StepsTo(Q, s[1]),
    s[1] + (IF to <= StepsTo(Q, s[1]) + Length(s) THEN to ELSE StepsTo(Q, s[1]) + Length(s)) - StepsTo(Q, s[1])>>

\* The pieces of an interval are those of the segments it meets.
LEMMA ExtractIs ==
  ASSUME NEW Q, PathSound(Q), NEW from \in Nat, NEW to \in Nat
  PROVE  ExtractInterval(Q, from, to) =
           {PieceOf(Q, s, from, to) :
              s \in {s \in Q : from < StepsTo(Q, s[1]) + Length(s) /\ StepsTo(Q, s[1]) < to}}
<1>1. \A s \in Q : Traversed(Q, s) = StepsTo(Q, s[1])
  BY TraversedIsStepsTo
<1>2. ASSUME NEW s \in Q
      PROVE  PieceOf(Q, s, from, to) =
        <<s[1] + Max({from, Traversed(Q, s)}) - Traversed(Q, s),
          s[1] + Min({to, Traversed(Q, s) + Length(s)}) - Traversed(Q, s)>>
  <2>1. StepsTo(Q, s[1]) \in Nat /\ Length(s) \in Nat /\ StepsTo(Q, s[1]) + Length(s) \in Nat
    BY PathFacts, StepsToFacts DEF Length
  <2>2. /\ Max({from, StepsTo(Q, s[1])}) = IF from >= StepsTo(Q, s[1]) THEN from ELSE StepsTo(Q, s[1])
        /\ Min({to, StepsTo(Q, s[1]) + Length(s)}) =
             IF to <= StepsTo(Q, s[1]) + Length(s) THEN to ELSE StepsTo(Q, s[1]) + Length(s)
    BY <2>1, TwoElements
  <2>3. QED
    BY <1>1, <2>2 DEF PieceOf
<1>3. QED
  BY <1>1, <1>2 DEF ExtractInterval

\* A piece lies on its segment, and covers what lies from one length to the other.
LEMMA PieceFacts ==
  ASSUME NEW Q, PathSound(Q), NEW from \in Nat, NEW to \in Nat, from < to, NEW s \in Q,
         from < StepsTo(Q, s[1]) + Length(s), StepsTo(Q, s[1]) < to
  PROVE  LET p == PieceOf(Q, s, from, to)
         IN  /\ p \in Nat \X Nat /\ s[1] <= p[1] /\ p[1] < p[2] /\ p[2] <= s[2]
             /\ p[1] >= s[1] + (from - StepsTo(Q, s[1])) /\ p[2] <= s[1] + (to - StepsTo(Q, s[1]))
             /\ \A n \in Nat : /\ from <= n /\ n < to
                               /\ StepsTo(Q, s[1]) <= n /\ n < StepsTo(Q, s[1]) + Length(s)
                               => /\ p[1] <= s[1] + (n - StepsTo(Q, s[1]))
                                  /\ s[1] + (n - StepsTo(Q, s[1])) < p[2]
<1>1. /\ s[1] \in Nat /\ s[2] \in Nat /\ s[1] < s[2] /\ Length(s) = s[2] - s[1]
      /\ StepsTo(Q, s[1]) \in Nat
  BY PathFacts, StepsToFacts DEF Length
<1> DEFINE R == StepsTo(Q, s[1])
           p1 == s[1] + (IF from >= R THEN from ELSE R) - R
           p2 == s[1] + (IF to <= R + Length(s) THEN to ELSE R + Length(s)) - R
<1>2. PieceOf(Q, s, from, to) = <<p1, p2>>
  BY DEF PieceOf
<1>3. /\ p1 \in Nat /\ p2 \in Nat /\ s[1] <= p1 /\ p1 < p2 /\ p2 <= s[2]
      /\ p1 >= s[1] + (from - R) /\ p2 <= s[1] + (to - R)
  BY <1>1
<1>4. ASSUME NEW n \in Nat, from <= n, n < to, R <= n, n < R + Length(s)
      PROVE  p1 <= s[1] + (n - R) /\ s[1] + (n - R) < p2
  BY <1>1, <1>4
<1> HIDE DEF p1, p2
<1>5. QED
  BY <1>2, <1>3, <1>4

\* What the intervals from b[i] to b[i + 1] leave is a path, of at least the length of each.
Extracted(Q, b, I) == UNION {ExtractInterval(Q, b[i], b[i + 1]) : i \in I}

\* They do not overlap, and contain no bend.
LEMMA ExtractSound ==
  ASSUME NEW Q, PathSound(Q), NEW m \in Nat, NEW b \in [0..m -> 0..TotalLength(Q)],
         \A i, j \in 0..m : i < j => b[i] < b[j], NEW I \in SUBSET (0..(m - 1))
  PROVE  PathSound(Extracted(Q, b, I))
<1>0. ASSUME NEW i \in I
      PROVE  i \in 0..m /\ i + 1 \in 0..m /\ b[i] \in Nat /\ b[i + 1] \in Nat /\ b[i] < b[i + 1]
  <2>1. i \in 0..m /\ i + 1 \in 0..m /\ i < i + 1
    OBVIOUS
  <2>2. b[i] \in 0..TotalLength(Q) /\ b[i + 1] \in 0..TotalLength(Q) /\ TotalLength(Q) \in Nat
    BY <2>1, StepsToFacts
  <2>3. QED
    BY <2>1, <2>2
<1> DEFINE Meets(s, i) == b[i] < StepsTo(Q, s[1]) + Length(s) /\ StepsTo(Q, s[1]) < b[i + 1]
<1>1. \A p \in Extracted(Q, b, I) : \E i \in I, s \in Q : Meets(s, i) /\ p = PieceOf(Q, s, b[i], b[i + 1])
  BY <1>0, ExtractIs DEF Extracted
<1>2. ASSUME NEW i \in I, NEW s \in Q, Meets(s, i)
      PROVE  LET p == PieceOf(Q, s, b[i], b[i + 1])
             IN  /\ p \in Nat \X Nat /\ s[1] <= p[1] /\ p[1] < p[2] /\ p[2] <= s[2]
                 /\ p[1] >= s[1] + (b[i] - StepsTo(Q, s[1]))
                 /\ p[2] <= s[1] + (b[i + 1] - StepsTo(Q, s[1]))
  BY <1>0, <1>2, PieceFacts
<1>3. \A s \in Q : /\ s[1] \in Nat /\ s[2] \in Nat /\ s[1] < s[2] /\ s[2] <= GroundLength
                   /\ StepsTo(Q, s[1]) \in Nat
  BY PathFacts, StepsToFacts
<1> HIDE DEF Meets
<1>4. ASSUME NEW p \in Extracted(Q, b, I)
      PROVE  /\ p \in (0..GroundLength) \X (0..GroundLength)
             /\ p[1] < p[2] /\ \A c \in Breakpoints : ~(p[1] < c /\ c < p[2])
  <2>1. PICK i \in I, s \in Q : Meets(s, i) /\ p = PieceOf(Q, s, b[i], b[i + 1])
    BY <1>1
  <2>2. p \in Nat \X Nat /\ s[1] <= p[1] /\ p[1] < p[2] /\ p[2] <= s[2]
    BY <1>2, <2>1
  <2>3. p = <<p[1], p[2]>> /\ p[1] \in Nat /\ p[2] \in Nat
    BY <2>2
  <2>4. p[1] \in 0..GroundLength /\ p[2] \in 0..GroundLength
    BY <1>3, <2>2, <2>3, GroundAssumption
  <2>5. p \in (0..GroundLength) \X (0..GroundLength)
    BY <2>3, <2>4
  <2>6. ASSUME NEW c \in Breakpoints, p[1] < c, c < p[2]
        PROVE  FALSE
    <3>1. c \in Nat /\ ~(s[1] < c /\ c < s[2])
      BY GroundAssumption DEF PathSound
    <3>2. QED
      BY <1>3, <2>2, <2>3, <2>6, <3>1
  <2>7. QED
    BY <2>2, <2>5, <2>6
<1>5. ASSUME NEW p \in Extracted(Q, b, I), NEW q \in Extracted(Q, b, I), p # q
      PROVE  p[2] <= q[1] \/ q[2] <= p[1]
  <2>1. PICK i \in I, s \in Q : Meets(s, i) /\ p = PieceOf(Q, s, b[i], b[i + 1])
    BY <1>1
  <2>2. PICK j \in I, t \in Q : Meets(t, j) /\ q = PieceOf(Q, t, b[j], b[j + 1])
    BY <1>1
  <2>3. /\ p \in Nat \X Nat /\ s[1] <= p[1] /\ p[1] < p[2] /\ p[2] <= s[2]
        /\ p[1] >= s[1] + (b[i] - StepsTo(Q, s[1])) /\ p[2] <= s[1] + (b[i + 1] - StepsTo(Q, s[1]))
        /\ q \in Nat \X Nat /\ t[1] <= q[1] /\ q[1] < q[2] /\ q[2] <= t[2]
        /\ q[1] >= t[1] + (b[j] - StepsTo(Q, t[1])) /\ q[2] <= t[1] + (b[j + 1] - StepsTo(Q, t[1]))
    BY <1>2, <2>1, <2>2
  <2>8. /\ p[1] \in Nat /\ p[2] \in Nat /\ q[1] \in Nat /\ q[2] \in Nat
        /\ s[1] \in Nat /\ s[2] \in Nat /\ t[1] \in Nat /\ t[2] \in Nat
        /\ StepsTo(Q, s[1]) \in Nat
    BY <1>3, <2>3
  <2>9. /\ s[1] <= p[1] /\ p[1] < p[2] /\ p[2] <= s[2]
        /\ p[1] >= s[1] + (b[i] - StepsTo(Q, s[1])) /\ p[2] <= s[1] + (b[i + 1] - StepsTo(Q, s[1]))
        /\ t[1] <= q[1] /\ q[1] < q[2] /\ q[2] <= t[2]
        /\ q[1] >= t[1] + (b[j] - StepsTo(Q, t[1])) /\ q[2] <= t[1] + (b[j + 1] - StepsTo(Q, t[1]))
    BY <2>3
  <2>4. CASE s # t
    <3>1. s[2] <= t[1] \/ t[2] <= s[1]
      BY <2>4 DEF PathSound
    <3>2. CASE s[2] <= t[1]
      <4>1. p[2] <= s[2]
        BY <2>9
      <4>2. t[1] <= q[1]
        BY <2>9
      <4>3. p[2] \in Nat /\ s[2] \in Nat /\ t[1] \in Nat /\ q[1] \in Nat
        BY <2>8
      <4>4. QED
        BY <3>2, <4>1, <4>2, <4>3
    <3>3. CASE t[2] <= s[1]
      <4>1. q[2] <= t[2]
        BY <2>9
      <4>2. s[1] <= p[1]
        BY <2>9
      <4>3. q[2] \in Nat /\ t[2] \in Nat /\ s[1] \in Nat /\ p[1] \in Nat
        BY <2>8
      <4>4. QED
        BY <3>3, <4>1, <4>2, <4>3
    <3>4. QED
      BY <3>1, <3>2, <3>3
  <2>5. CASE s = t
    <3>1. i # j
      BY <1>5, <2>1, <2>2, <2>5
    <3>2. i \in Nat /\ j \in Nat
      OBVIOUS
    <3>3. CASE i < j
      <4>1. b[i + 1] <= b[j]
        <5>1. i + 1 = j \/ i + 1 < j
          BY <3>2, <3>3
        <5>2. QED
          BY <1>0, <5>1
      <4>2. p[2] <= q[1]
        <5>1. p[2] <= s[1] + (b[i + 1] - StepsTo(Q, s[1]))
          BY <2>9
        <5>2. q[1] >= s[1] + (b[j] - StepsTo(Q, s[1]))
          BY <2>5, <2>9
        <5>3. b[i + 1] \in Nat /\ b[j] \in Nat
          BY <1>0
        <5>4. p[2] \in Nat /\ q[1] \in Nat /\ s[1] \in Nat /\ StepsTo(Q, s[1]) \in Nat
          BY <2>8
        <5>5. QED
          BY <4>1, <5>1, <5>2, <5>3, <5>4
      <4>3. QED
        BY <4>2
    <3>4. CASE j < i
      <4>1. b[j + 1] <= b[i]
        <5>1. j + 1 = i \/ j + 1 < i
          BY <3>2, <3>4
        <5>2. QED
          BY <1>0, <5>1
      <4>2. q[2] <= p[1]
        <5>1. q[2] <= s[1] + (b[j + 1] - StepsTo(Q, s[1]))
          BY <2>5, <2>9
        <5>2. p[1] >= s[1] + (b[i] - StepsTo(Q, s[1]))
          BY <2>9
        <5>3. b[j + 1] \in Nat /\ b[i] \in Nat
          BY <1>0
        <5>4. q[2] \in Nat /\ p[1] \in Nat /\ s[1] \in Nat /\ StepsTo(Q, s[1]) \in Nat
          BY <2>8
        <5>5. QED
          BY <4>1, <5>1, <5>2, <5>3, <5>4
      <4>3. QED
        BY <4>2
    <3>5. QED
      BY <3>1, <3>2, <3>3, <3>4
  <2>6. QED
    BY <2>4, <2>5
<1>6. QED
  BY <1>4, <1>5 DEF PathSound

\* The steps numbered from b[i] on are among those left.
LEMMA ExtractCovers ==
  ASSUME NEW Q, PathSound(Q), Q # {}, NEW m \in Nat, NEW b \in [0..m -> 0..TotalLength(Q)],
         \A i, j \in 0..m : i < j => b[i] < b[j], NEW I \in SUBSET (0..(m - 1)), NEW i \in I
  PROVE  b[i + 1] - b[i] <= Cardinality(Cells(Extracted(Q, b, I)))
<1>0. /\ i + 1 \in 0..m /\ i \in 0..m
      /\ b[i] \in Nat /\ b[i + 1] \in Nat /\ b[i] < b[i + 1]
      /\ b[i + 1] <= TotalLength(Q) /\ TotalLength(Q) \in Nat
  <2>1. i \in 0..m /\ i + 1 \in 0..m /\ i < i + 1
    OBVIOUS
  <2>2. b[i] \in 0..TotalLength(Q) /\ b[i + 1] \in 0..TotalLength(Q) /\ TotalLength(Q) \in Nat
    BY <2>1, StepsToFacts
  <2>3. QED
    BY <2>1, <2>2
<1> DEFINE D == b[i]..(b[i + 1] - 1)
           step == [r \in D |-> PointAt(Q, r + 1) - 1]
           E == Cells(Extracted(Q, b, I))
<1>1. \A r \in D : r \in Nat /\ r + 1 \in 0..TotalLength(Q) /\ r + 1 > 0
  BY <1>0
<1>2. ASSUME NEW r \in D
      PROVE  step[r] \in E
  <2>1. PICK f \in Q : /\ PointAt(Q, r + 1) = f[1] + ((r + 1) - StepsTo(Q, f[1]))
                       /\ r + 1 <= StepsTo(Q, f[1]) + Length(f)
                       /\ r + 1 > 0 => StepsTo(Q, f[1]) < r + 1
    BY <1>1, PointAtFacts
  <2>2. f[1] \in Nat /\ f[2] \in Nat /\ StepsTo(Q, f[1]) \in Nat /\ Length(f) = f[2] - f[1] /\ f[2] <= GroundLength
    BY PathFacts, StepsToFacts DEF Length
  <2>3. /\ r \in Nat /\ b[i] <= r /\ r < b[i + 1]
        /\ StepsTo(Q, f[1]) <= r /\ r < StepsTo(Q, f[1]) + Length(f)
    BY <1>0, <1>1, <2>1, <2>2
  <2>4. b[i] < StepsTo(Q, f[1]) + Length(f) /\ StepsTo(Q, f[1]) < b[i + 1]
    BY <1>0, <2>2, <2>3
  <2> DEFINE p == PieceOf(Q, f, b[i], b[i + 1])
  <2>5. p \in Extracted(Q, b, I)
    <3>1. p \in ExtractInterval(Q, b[i], b[i + 1])
      BY <1>0, <2>4, ExtractIs
    <3>2. QED
      BY <3>1 DEF Extracted
  <2>6. p[1] <= f[1] + (r - StepsTo(Q, f[1])) /\ f[1] + (r - StepsTo(Q, f[1])) < p[2]
    BY <1>0, <2>3, <2>4, PieceFacts
  <2> HIDE DEF p
  <2>7. step[r] = f[1] + (r - StepsTo(Q, f[1]))
    BY <2>1, <2>2, <2>3
  <2>8. step[r] \in 0..(GroundLength - 1)
    <3>1. f[1] + (r - StepsTo(Q, f[1])) \in Nat /\ f[1] + (r - StepsTo(Q, f[1])) < f[2]
      BY <2>2, <2>3
    <3>2. QED
      BY <2>2, <2>7, <3>1, GroundAssumption
  <2>9. QED
    BY <2>5, <2>6, <2>7, <2>8 DEF Cells
<1>3. ASSUME NEW r \in D, NEW s \in D, r # s
      PROVE  step[r] # step[s]
  <2>1. r + 1 < s + 1 \/ s + 1 < r + 1
    BY <1>1, <1>3
  <2>2. PointAt(Q, r + 1) \in Nat /\ PointAt(Q, s + 1) \in Nat
    BY <1>1, PointAtOnPath
  <2>3. PointAt(Q, r + 1) < PointAt(Q, s + 1) \/ PointAt(Q, s + 1) < PointAt(Q, r + 1)
    BY <1>1, <2>1, PointAtRises
  <2>4. QED
    BY <2>2, <2>3
<1>4. step \in Injection(D, E)
  <2>1. step \in [D -> E]
    <3> HIDE DEF D, E
    <3>1. QED
      BY <1>2
  <2> HIDE DEF D, E, step
  <2>2. QED
    BY <1>3, <2>1 DEF Injection, IsInjective
<1>5. Cardinality(D) = b[i + 1] - b[i]
  BY <1>0, IntervalLength
<1>6. IsFiniteSet(E)
  BY ExtractSound, PathFacts
<1>7. QED
  BY <1>4, <1>5, <1>6, FS_Injection

\* A bounded set of natural numbers has a greatest element.
LEMMA GreatestNatural ==
  ASSUME NEW T, T \subseteq Nat, T # {}, NEW n \in Nat, \A x \in T : x <= n
  PROVE  \E x \in T : \A y \in T : y <= x
<1> DEFINE D == {n - x : x \in T}
<1>1. D \subseteq Nat /\ D # {}
  <2>1. \A x \in T : x \in Nat /\ x <= n /\ n - x \in Nat
    OBVIOUS
  <2>2. QED
    BY <2>1
<1>2. PICK d \in D : \A e \in D : d <= e
  BY <1>1, LeastNatural
<1>3. PICK x \in T : d = n - x
  BY <1>2
<1>4. ASSUME NEW y \in T
      PROVE  y <= x
  <2>1. d <= n - y /\ x \in Nat /\ y \in Nat
    BY <1>2
  <2>2. QED
    BY <1>3, <2>1
<1>5. QED
  BY <1>4

Starts(Q) == {s[1] : s \in Q}
Stops(Q) == {s[2] : s \in Q}

\* A start and a stop belong to a segment each.
LEMMA EndFacts ==
  ASSUME NEW Q, PathSound(Q)
  PROVE  /\ Starts(Q) \subseteq Nat /\ Stops(Q) \subseteq Nat
         /\ \A x \in Starts(Q) \cup Stops(Q) : x <= GroundLength
         /\ Joins(Q) = (Stops(Q) \cap Starts(Q)) \ Breakpoints
         /\ \A a \in Starts(Q) : \E s \in Q : s[1] = a /\ s[2] \in Stops(Q) /\ s[2] \in Nat /\ a < s[2]
         /\ \A b \in Stops(Q) : \E s \in Q : s[2] = b /\ s[1] \in Starts(Q) /\ s[1] \in Nat /\ s[1] < b
         /\ \A c \in Starts(Q) \cup Stops(Q), s \in Q : ~(s[1] < c /\ c < s[2])
<1>1. \A s \in Q : s[1] \in Nat /\ s[2] \in Nat /\ s[1] < s[2] /\ s[2] <= GroundLength /\ s[1] <= GroundLength
  BY PathFacts, GroundAssumption
<1>2. ASSUME NEW t \in Q, NEW s \in Q
      PROVE  ~(s[1] < t[1] /\ t[1] < s[2]) /\ ~(s[1] < t[2] /\ t[2] < s[2])
  <2>1. s = t \/ s[2] <= t[1] \/ t[2] <= s[1]
    BY DEF PathSound
  <2>2. QED
    BY <1>1, <2>1
<1>3. QED
  BY <1>1, <1>2 DEF Starts, Stops, Joins

\* Where a merged segment ends: at the next end that is not joined to a start.
StopOf(Q, a) == Min({b \in Stops(Q) \ Joins(Q) : b > a})

\* There is one.
LEMMA StopOfFacts ==
  ASSUME NEW Q, PathSound(Q), NEW a \in Starts(Q)
  PROVE  /\ StopOf(Q, a) \in Stops(Q) \ Joins(Q) /\ StopOf(Q, a) > a
         /\ \A b \in Stops(Q) \ Joins(Q) : b > a => StopOf(Q, a) <= b
<1> DEFINE After == {b \in Stops(Q) \ Joins(Q) : b > a}
<1>1. /\ Starts(Q) \subseteq Nat /\ Stops(Q) \subseteq Nat
      /\ \A x \in Stops(Q) : x <= GroundLength
      /\ Joins(Q) \subseteq Starts(Q)
      /\ \A c \in Starts(Q) : \E s \in Stops(Q) : c < s
  BY EndFacts
<1>2. Stops(Q) # {} /\ GroundLength \in Nat
  BY <1>1, GroundAssumption
<1>3. PICK e \in Stops(Q) : \A b \in Stops(Q) : b <= e
  BY <1>1, <1>2, GreatestNatural
<1>4. e \notin Joins(Q)
  <2>1. SUFFICES ASSUME e \in Joins(Q) PROVE FALSE
    OBVIOUS
  <2>2. PICK s \in Stops(Q) : e < s
    BY <1>1, <2>1
  <2>3. QED
    BY <1>1, <1>3, <2>2
<1>5. e \in After
  <2>1. PICK s \in Stops(Q) : a < s
    BY <1>1
  <2>2. s <= e /\ s \in Nat /\ e \in Nat /\ a \in Nat
    BY <1>1, <1>3
  <2>3. QED
    BY <1>3, <1>4, <2>1, <2>2
<1>6. After \subseteq Nat
  BY <1>1
<1>7. StopOf(Q, a) \in After /\ \A b \in After : StopOf(Q, a) <= b
  <2>1. StopOf(Q, a) = Min(After)
    BY DEF StopOf
  <2>2. After # {}
    BY <1>5
  <2> HIDE DEF After
  <2>3. Min(After) \in After /\ \A b \in After : Min(After) <= b
    BY <1>6, <2>2, MinFacts
  <2>4. QED
    BY <2>1, <2>3
<1>8. QED
  BY <1>7

\* The merged segments go from each start that is no joint to it.
LEMMA MergeIs ==
  ASSUME NEW Q, PathSound(Q)
  PROVE  MergeAdjacent(Q) = {<<a, StopOf(Q, a)>> : a \in Starts(Q) \ Joins(Q)}
BY DEF MergeAdjacent, StopOf, Starts, Stops

\* On the way to that end there are joints only.
LEMMA JointsBetween ==
  ASSUME NEW Q, PathSound(Q), NEW a \in Starts(Q), NEW c \in Nat,
         a < c, c < StopOf(Q, a), \A s \in Q : ~(s[1] < c /\ c < s[2])
  PROVE  c \in Joins(Q)
<1> DEFINE Passed == {e \in Stops(Q) : a < e /\ e <= c}
<1>1. /\ Starts(Q) \subseteq Nat /\ Stops(Q) \subseteq Nat
      /\ Joins(Q) \subseteq Starts(Q)
      /\ StopOf(Q, a) \in Stops(Q)
      /\ \A b \in Stops(Q) \ Joins(Q) : b > a => StopOf(Q, a) <= b
  BY EndFacts, StopOfFacts
<1>2. ASSUME NEW d \in Starts(Q), d < c
      PROVE  \E e \in Stops(Q) : d < e /\ e <= c
  <2>1. PICK s \in Q : s[1] = d /\ s[2] \in Stops(Q) /\ s[2] \in Nat /\ d < s[2]
    BY EndFacts
  <2>2. ~(s[1] < c /\ c < s[2])
    OBVIOUS
  <2>3. s[2] <= c
    BY <1>2, <2>1, <2>2
  <2>4. QED
    BY <2>1, <2>3
<1>3. PICK e \in Passed : \A x \in Passed : x <= e
  <2>1. Passed # {} /\ Passed \subseteq Nat /\ \A x \in Passed : x <= c
    BY <1>1, <1>2
  <2> HIDE DEF Passed
  <2>2. QED
    BY <2>1, GreatestNatural
<1>4. e \in Joins(Q)
  <2>1. e \in Nat /\ a \in Nat /\ StopOf(Q, a) \in Nat /\ e < StopOf(Q, a) /\ e > a
    BY <1>1, <1>3
  <2>2. QED
    BY <1>1, <1>3, <2>1
<1>5. e = c
  <2>1. SUFFICES ASSUME e < c PROVE FALSE
    BY <1>1, <1>3
  <2>2. PICK f \in Stops(Q) : e < f /\ f <= c
    BY <1>1, <1>2, <1>4, <2>1
  <2>3. f \in Passed
    BY <1>1, <1>3, <2>2
  <2>4. QED
    BY <1>1, <1>3, <2>2, <2>3
<1>6. QED
  BY <1>4, <1>5

\* Merging leaves a path that covers what it covered.
LEMMA MergeSound ==
  ASSUME NEW Q, PathSound(Q)
  PROVE  PathSound(MergeAdjacent(Q))
<1>1. /\ Starts(Q) \subseteq Nat /\ Stops(Q) \subseteq Nat
      /\ \A x \in Starts(Q) \cup Stops(Q) : x <= GroundLength
      /\ Joins(Q) = (Stops(Q) \cap Starts(Q)) \ Breakpoints
      /\ \A c \in Starts(Q) \cup Stops(Q), s \in Q : ~(s[1] < c /\ c < s[2])
  BY EndFacts
<1>2. ASSUME NEW a \in Starts(Q) \ Joins(Q)
      PROVE  /\ a \in Nat /\ StopOf(Q, a) \in Nat /\ a < StopOf(Q, a) /\ StopOf(Q, a) <= GroundLength
             /\ <<a, StopOf(Q, a)>> \in (0..GroundLength) \X (0..GroundLength)
  <2>1. /\ a \in Nat /\ StopOf(Q, a) \in Nat /\ a < StopOf(Q, a) /\ StopOf(Q, a) <= GroundLength
        /\ a <= GroundLength
    BY <1>1, StopOfFacts
  <2>2. QED
    BY <2>1, GroundAssumption
<1>3. ASSUME NEW a \in Starts(Q) \ Joins(Q), NEW c \in Breakpoints, a < c, c < StopOf(Q, a)
      PROVE  FALSE
  <2>1. c \in Nat
    BY GroundAssumption
  <2>2. \A s \in Q : ~(s[1] < c /\ c < s[2])
    BY DEF PathSound
  <2>3. QED
    BY <1>1, <1>3, <2>1, <2>2, JointsBetween
<1>4. ASSUME NEW a \in Starts(Q) \ Joins(Q), NEW d \in Starts(Q) \ Joins(Q), a < d
      PROVE  StopOf(Q, a) <= d
  <2>1. SUFFICES ASSUME d < StopOf(Q, a) PROVE FALSE
    <3>1. d \in Nat /\ StopOf(Q, a) \in Nat
      BY <1>2
    <3>2. QED
      BY <3>1
  <2>2. d \in Nat /\ \A s \in Q : ~(s[1] < d /\ d < s[2])
    BY <1>1
  <2>3. QED
    BY <1>4, <2>1, <2>2, JointsBetween
<1>5. ASSUME NEW s \in MergeAdjacent(Q)
      PROVE  \E a \in Starts(Q) \ Joins(Q) : s = <<a, StopOf(Q, a)>> /\ s[1] = a /\ s[2] = StopOf(Q, a)
  BY MergeIs
<1>6. ASSUME NEW s \in MergeAdjacent(Q), NEW t \in MergeAdjacent(Q), s # t
      PROVE  s[2] <= t[1] \/ t[2] <= s[1]
  <2>1. PICK a \in Starts(Q) \ Joins(Q) : s = <<a, StopOf(Q, a)>> /\ s[1] = a /\ s[2] = StopOf(Q, a)
    BY <1>5
  <2>2. PICK d \in Starts(Q) \ Joins(Q) : t = <<d, StopOf(Q, d)>> /\ t[1] = d /\ t[2] = StopOf(Q, d)
    BY <1>5
  <2>3. a # d
    BY <1>6, <2>1, <2>2
  <2>4. a < d \/ d < a
    <3>1. a \in Nat /\ d \in Nat
      BY <1>1
    <3>2. QED
      BY <2>3, <3>1
  <2>5. QED
    BY <1>4, <2>1, <2>2, <2>4
<1>7. ASSUME NEW s \in MergeAdjacent(Q)
      PROVE  /\ s \in (0..GroundLength) \X (0..GroundLength)
             /\ s[1] < s[2] /\ \A c \in Breakpoints : ~(s[1] < c /\ c < s[2])
  <2>1. PICK a \in Starts(Q) \ Joins(Q) : s = <<a, StopOf(Q, a)>> /\ s[1] = a /\ s[2] = StopOf(Q, a)
    BY <1>5
  <2>2. QED
    BY <1>2, <1>3, <2>1
<1>8. QED
  BY <1>6, <1>7 DEF PathSound

\* Merging loses no step.
LEMMA MergeCovers ==
  ASSUME NEW Q, PathSound(Q), NEW x \in Cells(Q)
  PROVE  x \in Cells(MergeAdjacent(Q))
<1>1. /\ Starts(Q) \subseteq Nat /\ Stops(Q) \subseteq Nat
      /\ Joins(Q) = (Stops(Q) \cap Starts(Q)) \ Breakpoints
      /\ \A b \in Stops(Q) : \E s \in Q : s[2] = b /\ s[1] \in Starts(Q) /\ s[1] \in Nat /\ s[1] < b
      /\ \A c \in Starts(Q) \cup Stops(Q), s \in Q : ~(s[1] < c /\ c < s[2])
  BY EndFacts
<1>2. PICK p \in Q : p[1] <= x /\ x < p[2]
  BY DEF Cells
<1>3. x \in Nat /\ p[1] \in Starts(Q) /\ p[1] \in Nat /\ p[2] \in Nat
  BY PathFacts DEF Starts
<1> DEFINE Free == {a \in Starts(Q) \ Joins(Q) : a <= p[1]}
<1>4. Free # {}
  <2>1. PICK m \in Starts(Q) : \A s \in Starts(Q) : m <= s
    BY <1>1, <1>3, LeastNatural
  <2>2. m \notin Stops(Q)
    <3>1. SUFFICES ASSUME m \in Stops(Q) PROVE FALSE
      OBVIOUS
    <3>2. PICK s \in Starts(Q) : s < m
      BY <1>1, <3>1
    <3>3. m <= s /\ s \in Nat /\ m \in Nat
      BY <1>1, <2>1
    <3>4. QED
      BY <3>2, <3>3
  <2>3. m \in Free
    BY <1>1, <1>3, <2>1, <2>2
  <2>4. QED
    BY <2>3
<1>5. PICK a \in Free : \A d \in Free : d <= a
  <2>1. Free \subseteq Nat /\ \A d \in Free : d <= p[1]
    BY <1>1
  <2> HIDE DEF Free
  <2>2. QED
    BY <1>3, <1>4, <2>1, GreatestNatural
<1>6. /\ StopOf(Q, a) \in Stops(Q) \ Joins(Q) /\ StopOf(Q, a) > a /\ StopOf(Q, a) \in Nat
      /\ a \in Nat
  BY <1>1, <1>5, StopOfFacts
<1>7. x < StopOf(Q, a)
  <2>1. SUFFICES ASSUME StopOf(Q, a) <= x PROVE FALSE
    BY <1>3, <1>6
  <2> DEFINE b == StopOf(Q, a)
             StartsHere == {c \in Starts(Q) : b <= c /\ c <= p[1]}
  <2> HIDE DEF b
  <2>2. b \in Stops(Q) /\ b \notin Joins(Q) /\ b \in Nat /\ a < b /\ b <= x
    BY <1>6, <2>1 DEF b
  <2>3. b <= p[1]
    BY <1>1, <1>2, <1>3, <2>2
  <2>4. PICK c \in StartsHere : \A d \in StartsHere : c <= d
    <3>1. p[1] \in StartsHere /\ StartsHere \subseteq Nat
      BY <1>1, <1>3, <2>3
    <3> HIDE DEF StartsHere
    <3>2. QED
      BY <3>1, LeastNatural
  <2>5. c \in Nat /\ c \in Starts(Q) /\ b <= c /\ c <= p[1]
    BY <1>1, <2>4
  <2>6. c \in Joins(Q)
    <3>1. SUFFICES ASSUME c \notin Joins(Q) PROVE FALSE
      OBVIOUS
    <3>2. c \in Free
      BY <2>5, <3>1
    <3>3. c <= a
      BY <1>5, <3>2
    <3>4. QED
      BY <1>6, <2>2, <2>5, <3>3
  <2>7. c # b
    BY <2>2, <2>6
  <2>8. PICK u \in Q : u[2] = c /\ u[1] \in Starts(Q) /\ u[1] \in Nat /\ u[1] < c
    BY <1>1, <2>6
  <2>9. ~(u[1] < b /\ b < u[2])
    BY <1>1, <2>2
  <2>10. b <= u[1]
    BY <2>2, <2>5, <2>7, <2>8, <2>9
  <2>11. u[1] \in StartsHere
    BY <1>3, <2>5, <2>8, <2>10
  <2>12. c <= u[1]
    BY <2>4, <2>11
  <2>13. QED
    BY <2>5, <2>8, <2>12
<1>8. <<a, StopOf(Q, a)>> \in MergeAdjacent(Q)
  BY <1>5, MergeIs
<1>9. a <= x
  BY <1>2, <1>3, <1>5, <1>6
<1>10. QED
  BY <1>7, <1>8, <1>9 DEF Cells

\* Division rounds down.
LEMMA DivFacts ==
  ASSUME NEW a \in Nat, NEW d \in Nat \ {0}
  PROVE  a \div d \in Nat /\ d * (a \div d) <= a /\ a < d * (a \div d) + d
OBVIOUS

\* Factors and products are in the same order.
LEMMA ProductOrder ==
  ASSUME NEW d \in Nat \ {0}, NEW k \in Nat, NEW l \in Nat
  PROVE  (k <= l => d * k <= d * l) /\ (d * k < d * l => k < l)
<1>1. ASSUME k <= l PROVE d * k <= d * l
  <2>1. PICK e \in Nat : l = k + e
    <3>1. l - k \in Nat /\ l = k + (l - k)
      BY <1>1
    <3>2. QED
      BY <3>1
  <2>2. d * l = d * k + d * e /\ d * e \in Nat /\ d * k \in Nat
    BY <2>1
  <2>3. QED
    BY <2>2
<1>2. ASSUME NEW m \in Nat, NEW n \in Nat, n <= m PROVE d * n <= d * m
  <2>1. PICK e \in Nat : m = n + e
    <3>1. m - n \in Nat /\ m = n + (m - n)
      BY <1>2
    <3>2. QED
      BY <3>1
  <2>2. d * m = d * n + d * e /\ d * e \in Nat /\ d * n \in Nat
    BY <2>1
  <2>3. QED
    BY <2>2
<1>3. ASSUME d * k < d * l, ~(k < l) PROVE FALSE
  <2>1. d * l <= d * k
    BY <1>2, <1>3
  <2>2. d * l \in Nat /\ d * k \in Nat
    OBVIOUS
  <2>3. QED
    BY <1>3, <2>1, <2>2
<1>4. QED
  BY <1>1, <1>3

\* Quotients of numbers n divisors apart are at least n apart.
LEMMA DivSteps ==
  ASSUME NEW x \in Nat, NEW y \in Nat, NEW d \in Nat \ {0}, NEW n \in Nat, x + d * n <= y
  PROVE  (x \div d) + n <= y \div d
<1>1. PICK p \in Nat, q \in Nat : p = x \div d /\ q = y \div d /\ d * p <= x /\ y < d * q + d
  BY DivFacts
<1>2. d * (p + n) = d * p + d * n /\ d * (q + 1) = d * q + d
  OBVIOUS
<1>3. d * p \in Nat /\ d * n \in Nat /\ d * q \in Nat
  OBVIOUS
<1>4. d * (p + n) < d * (q + 1)
  BY <1>1, <1>2, <1>3
<1>5. p + n < q + 1
  BY <1>4, ProductOrder
<1>6. QED
  BY <1>1, <1>5

\* A quotient of at most n divisors is at most n.
LEMMA DivBelow ==
  ASSUME NEW x \in Nat, NEW d \in Nat \ {0}, NEW n \in Nat, x <= d * n
  PROVE  x \div d <= n
<1>1. PICK p \in Nat : p = x \div d /\ d * p <= x
  BY DivFacts
<1>2. d * (n + 1) = d * n + d /\ d * n \in Nat /\ d * p \in Nat
  OBVIOUS
<1>3. d * p < d * (n + 1)
  BY <1>1, <1>2
<1>4. p < n + 1
  BY <1>3, ProductOrder
<1>5. QED
  BY <1>1, <1>4

\* Divisions of a path whose length is at least n units each.
LEMMA BoundaryFacts ==
  ASSUME NEW T \in Nat, NEW d \in Nat \ {0}, NEW n \in Nat \ {0}, d * n <= T
  PROVE  /\ \A i \in 0..d : (i * T) \div d \in 0..T
         /\ \A i, j \in 0..d : i < j => ((i * T) \div d) + n <= (j * T) \div d
<1>1. ASSUME NEW i \in 0..d
      PROVE  (i * T) \div d \in 0..T
  <2>1. i * T = T * i /\ d * T = T * d /\ i * T \in Nat
    OBVIOUS
  <2>2. i * T <= d * T
    <3>1. CASE T = 0
      BY <3>1
    <3>2. CASE T # 0
      BY <2>1, <3>2, ProductOrder
    <3>3. QED
      BY <3>1, <3>2
  <2>3. QED
    BY <2>1, <2>2, DivFacts, DivBelow
<1>2. ASSUME NEW i \in 0..d, NEW j \in 0..d, i < j
      PROVE  ((i * T) \div d) + n <= (j * T) \div d
  <2>1. PICK e \in Nat : j = i + 1 + e
    <3>1. j - i - 1 \in Nat /\ j = i + 1 + (j - i - 1)
      BY <1>2
    <3>2. QED
      BY <3>1
  <2>2. j * T = i * T + T + e * T /\ e * T \in Nat /\ i * T \in Nat /\ j * T \in Nat
    BY <2>1
  <2>3. i * T + d * n <= j * T
    BY <2>2
  <2>4. QED
    BY <2>2, <2>3, DivSteps
<1>3. QED
  BY <1>1, <1>2

\* The midpoints of the divisions.
LEMMA MidpointFacts ==
  ASSUME NEW T \in Nat, NEW d \in Nat \ {0}, d <= T
  PROVE  /\ \A i \in 0..(d - 1) : ((2 * i + 1) * T) \div (2 * d) \in 0..T
         /\ \A i \in 0..(d - 1), j \in 0..(d - 1) :
              j = i + 1 => ((2 * i + 1) * T) \div (2 * d) < ((2 * j + 1) * T) \div (2 * d)
<1> DEFINE e == 2 * d
<1>0. e \in Nat \ {0}
  OBVIOUS
<1>1. ASSUME NEW i \in 0..(d - 1)
      PROVE  ((2 * i + 1) * T) \div e \in 0..T
  <2>1. PICK k \in Nat : k = 2 * i + 1 /\ k <= e
    OBVIOUS
  <2>2. k * T = T * k /\ e * T = T * e /\ k * T \in Nat
    BY <1>0
  <2> HIDE DEF e
  <2>3. k * T <= e * T
    <3>1. CASE T = 0
      BY <1>0, <3>1
    <3>2. CASE T # 0
      BY <1>0, <2>1, <2>2, <3>2, ProductOrder
    <3>3. QED
      BY <3>1, <3>2
  <2>4. (k * T) \div e \in Nat /\ (k * T) \div e <= T
    BY <1>0, <2>2, <2>3, DivFacts, DivBelow
  <2>5. QED
    BY <2>1, <2>4
<1>2. ASSUME NEW i \in 0..(d - 1), NEW j \in 0..(d - 1), j = i + 1
      PROVE  ((2 * i + 1) * T) \div e < ((2 * j + 1) * T) \div e
  <2>1. PICK k \in Nat, l \in Nat : k = 2 * i + 1 /\ l = 2 * j + 1 /\ l = k + 2
    BY <1>2
  <2>2. l * T = k * T + 2 * T /\ k * T \in Nat /\ l * T \in Nat
    BY <2>1
  <2>3. k * T + e * 1 <= l * T
    BY <2>2
  <2> HIDE DEF e
  <2>4. ((k * T) \div e) + 1 <= (l * T) \div e
    BY <1>0, <2>2, <2>3, DivSteps
  <2>5. (k * T) \div e \in Nat /\ (l * T) \div e \in Nat
    BY <1>0, <2>2, DivFacts
  <2>6. QED
    BY <2>1, <2>4, <2>5
<1>3. QED
  BY <1>1, <1>2

\* A path with a length has a segment.
LEMMA PathNotEmpty ==
  ASSUME NEW Q, PathSound(Q), TotalLength(Q) # 0
  PROVE  Q # {}
<1>1. SUFFICES ASSUME Q = {} PROVE FALSE
  OBVIOUS
<1>2. Cells(Q) = {}
  BY <1>1 DEF Cells
<1>3. QED
  BY <1>2, TotalIsCells, FS_EmptySet

\* The next path is one again, and no shorter than a division of the last.
LEMMA NextPathSound ==
  ASSUME NEW Q, PathSound(Q), NEW d \in Nat \ {0}, NEW n \in Nat \ {0}, d * n <= TotalLength(Q),
         NEW I \in SUBSET (0..(d - 1)), NEW i \in I
  PROVE  PathSound(NextPath(Q, d, I)) /\ n <= TotalLength(NextPath(Q, d, I))
<1>1. TotalLength(Q) \in Nat
  BY StepsToFacts
<1> DEFINE b == [j \in 0..d |-> Boundary(Q, d, j)]
<1>2. /\ \A j \in 0..d : Boundary(Q, d, j) \in 0..TotalLength(Q)
      /\ \A j, k \in 0..d : j < k => Boundary(Q, d, j) + n <= Boundary(Q, d, k)
  BY <1>1, BoundaryFacts DEF Boundary
<1>3. b \in [0..d -> 0..TotalLength(Q)] /\ d \in Nat
  BY <1>2
<1>4. ASSUME NEW j \in 0..d, NEW k \in 0..d, j < k
      PROVE  b[j] + n <= b[k] /\ b[j] < b[k] /\ b[j] \in Nat /\ b[k] \in Nat
  <2>1. b[j] \in 0..TotalLength(Q) /\ b[k] \in 0..TotalLength(Q) /\ b[j] + n <= b[k]
    BY <1>2, <1>4
  <2>2. QED
    BY <1>1, <2>1
<1>5. NextPath(Q, d, I) = MergeAdjacent(Extracted(Q, b, I))
  <2>1. \A j \in I : b[j] = Boundary(Q, d, j) /\ b[j + 1] = Boundary(Q, d, j + 1)
    OBVIOUS
  <2> HIDE DEF b
  <2>2. QED
    BY <2>1 DEF NextPath, Extracted
<1>6. TotalLength(Q) # 0
  <2>1. d * n \in Nat /\ d * n # 0
    OBVIOUS
  <2>2. QED
    BY <1>1, <2>1
<1>7. i \in 0..d /\ i + 1 \in 0..d /\ i < i + 1
  OBVIOUS
<1>8. n <= b[i + 1] - b[i]
  <2>1. b[i] + n <= b[i + 1] /\ b[i] \in Nat /\ b[i + 1] \in Nat
    BY <1>4, <1>7
  <2>2. QED
    BY <2>1
<1>9. \A j, k \in 0..d : j < k => b[j] < b[k]
  BY <1>4
<1>10. b[i + 1] - b[i] \in Int
  BY <1>4, <1>7
<1> HIDE DEF b
<1> DEFINE E == Extracted(Q, b, I)
<1>11. PathSound(E) /\ b[i + 1] - b[i] <= Cardinality(Cells(E))
  BY <1>3, <1>6, <1>9, PathNotEmpty, ExtractSound, ExtractCovers
<1>12. PathSound(MergeAdjacent(E)) /\ Cells(E) \subseteq Cells(MergeAdjacent(E))
  BY <1>11, MergeSound, MergeCovers
<1>13. Cardinality(Cells(E)) <= Cardinality(Cells(MergeAdjacent(E)))
  BY <1>12, PathFacts, FS_Subset
<1>14. TotalLength(MergeAdjacent(E)) = Cardinality(Cells(MergeAdjacent(E)))
  BY <1>12, TotalIsCells
<1>15. Cardinality(Cells(E)) \in Nat /\ Cardinality(Cells(MergeAdjacent(E))) \in Nat
  BY <1>11, <1>12, PathFacts
<1> HIDE DEF E
<1>16. n <= TotalLength(MergeAdjacent(E))
  BY <1>8, <1>10, <1>11, <1>13, <1>14, <1>15
<1>17. QED
  BY <1>5, <1>12, <1>16 DEF E

\* The first path is the whole ground.
LEMMA WholeGroundSound == PathSound(WholeGround) /\ TotalLength(WholeGround) = GroundLength
<1> DEFINE cuts == Breakpoints \cup {0, GroundLength}
<1>1. cuts \subseteq Nat /\ \A c \in cuts : c <= GroundLength
  BY GroundAssumption
<1>2. 0 \in cuts /\ GroundLength \in cuts /\ GroundLength \in Nat /\ Breakpoints \subseteq cuts
  BY GroundAssumption
<1>3. WholeGround = {s \in cuts \X cuts : s[1] < s[2] /\ \A c \in cuts : c <= s[1] \/ c >= s[2]}
  BY DEF WholeGround
<1> HIDE DEF cuts
<1>4. ASSUME NEW s \in WholeGround
      PROVE  /\ s[1] \in cuts /\ s[2] \in cuts /\ s[1] \in Nat /\ s[2] \in Nat /\ s[1] < s[2]
             /\ s = <<s[1], s[2]>> /\ s \in (0..GroundLength) \X (0..GroundLength)
             /\ \A c \in cuts : c <= s[1] \/ c >= s[2]
  <2>1. /\ s[1] \in cuts /\ s[2] \in cuts /\ s[1] < s[2] /\ s = <<s[1], s[2]>>
        /\ \A c \in cuts : c <= s[1] \/ c >= s[2]
    BY <1>3
  <2>2. s[1] \in 0..GroundLength /\ s[2] \in 0..GroundLength
    BY <1>1, <1>2, <2>1
  <2>3. QED
    BY <1>1, <2>1, <2>2
<1>5. ASSUME NEW s \in WholeGround, NEW t \in WholeGround, s # t
      PROVE  s[2] <= t[1] \/ t[2] <= s[1]
  <2>1. /\ s[1] \in Nat /\ s[2] \in Nat /\ t[1] \in Nat /\ t[2] \in Nat
        /\ s[1] < s[2] /\ t[1] < t[2]
        /\ t[1] <= s[1] \/ t[1] >= s[2]
        /\ t[2] <= s[1] \/ t[2] >= s[2]
        /\ s[1] <= t[1] \/ s[1] >= t[2]
        /\ s[2] <= t[1] \/ s[2] >= t[2]
    BY <1>4
  <2>2. s[1] # t[1] \/ s[2] # t[2]
    <3>1. s = <<s[1], s[2]>> /\ t = <<t[1], t[2]>>
      BY <1>4
    <3>2. QED
      BY <1>5, <3>1
  <2>3. QED
    BY <2>1, <2>2
<1>6. PathSound(WholeGround)
  <2>1. ASSUME NEW s \in WholeGround, NEW c \in Breakpoints, s[1] < c, c < s[2]
        PROVE  FALSE
    <3>1. c \in Nat /\ s[1] \in Nat /\ s[2] \in Nat /\ (c <= s[1] \/ c >= s[2])
      BY <1>1, <1>2, <1>4
    <3>2. QED
      BY <2>1, <3>1
  <2>2. QED
    BY <1>4, <1>5, <2>1 DEF PathSound
<1>7. ASSUME NEW x \in 0..(GroundLength - 1)
      PROVE  x \in Cells(WholeGround)
  <2> DEFINE below == {c \in cuts : c <= x}
             above == {c \in cuts : x < c}
  <2>0. x \in Nat /\ x < GroundLength /\ 0 <= x
    BY <1>2
  <2>1. PICK lo \in below : \A c \in below : c <= lo
    <3>1. below \subseteq Nat /\ \A c \in below : c <= x
      BY <1>1
    <3>2. 0 \in below
      BY <1>2, <2>0
    <3> HIDE DEF below
    <3>3. QED
      BY <2>0, <3>1, <3>2, GreatestNatural
  <2>2. PICK hi \in above : \A c \in above : hi <= c
    <3>1. above \subseteq Nat
      BY <1>1
    <3>2. GroundLength \in above
      BY <1>2, <2>0
    <3> HIDE DEF above
    <3>3. QED
      BY <3>1, <3>2, LeastNatural
  <2>3. lo \in cuts /\ hi \in cuts /\ lo <= x /\ x < hi /\ lo \in Nat /\ hi \in Nat /\ lo < hi
    BY <1>1, <2>1, <2>2
  <2>4. \A c \in cuts : c <= lo \/ c >= hi
    BY <1>1, <2>1, <2>2
  <2>5. <<lo, hi>> \in WholeGround
    BY <1>3, <2>3, <2>4
  <2>6. QED
    BY <2>3, <2>5 DEF Cells
<1>8. Cells(WholeGround) = 0..(GroundLength - 1)
  BY <1>7 DEF Cells
<1>9. Cardinality(0..(GroundLength - 1)) = GroundLength - 0
  BY <1>2, IntervalLength
<1>10. QED
  BY <1>2, <1>6, <1>8, <1>9, TotalIsCells

-----------------------------------------------------------------------------
(* Auto-refine                                                             *)

\* Circles through two points at a whole number of units are numbered surfaces, or none.
CirclesNumbered ==
  \A left, right \in Int, m \in Nat :
    CandidateOf(left, right, m) # NoSurface =>
      /\ CandidateOf(left, right, m) \in Int
      /\ FosOf(CandidateOf(left, right, m)) \subseteq 0..Invalid

-----------------------------------------------------------------------------
(* Auto-refine: averages                                                  *)

\* Averages as fractions, infinite ones included.
Averages == [sum : Nat, count : Nat]

\* The values of a batch add up to a number, by the order in which they are added, so that
\* an average stays one.
LEMMA AveragesWithValues ==
  ASSUME NEW values \in Averages, NEW answers, NEW batch, NEW V, V = ValidAt(answers, batch),
         IsFiniteSet(V), \A i \in V : answers[batch[i]] \in Nat
  PROVE  WithValues(values, answers, batch) \in Averages
<1> DEFINE h == [i \in V |-> answers[batch[i]]]
           Is(g) == g = [s \in SUBSET V |->
                           IF s = {} THEN 0
                           ELSE answers[batch[CHOOSE i \in s : TRUE]] + g[s \ {CHOOSE i \in s : TRUE}]]
<1>1. WithValues(values, answers, batch) =
        [sum |-> values.sum + (CHOOSE g : Is(g))[V], count |-> values.count + Cardinality(V)]
  BY DEF WithValues, MapThenSumSet, MapThenFoldSet
<1>2. \A g : Is(g) <=> AddsUp(g, h, V)
  BY DEF AddsUp
<1>3. \E g : AddsUp(g, h, V)
  BY SumExists
<1> HIDE DEF Is, h
<1>4. PICK g : AddsUp(g, h, V) /\ g = CHOOSE x : Is(x)
  BY <1>2, <1>3
<1> DEFINE Bad == {n \in Nat : \E s \in SUBSET V : Cardinality(s) = n /\ g[s] \notin Nat}
<1>5. Bad = {}
  <2>1. SUFFICES ASSUME Bad # {} PROVE FALSE
    OBVIOUS
  <2>2. PICK n \in Bad : \A m \in Bad : n <= m
    BY <2>1, LeastNatural
  <2>3. PICK s \in SUBSET V : Cardinality(s) = n /\ g[s] \notin Nat
    BY <2>2
  <2> DEFINE x == CHOOSE x \in s : TRUE
  <2>4. g[s] = IF s = {} THEN 0 ELSE h[x] + g[s \ {x}]
    BY <1>4 DEF AddsUp
  <2>5. s # {} /\ x \in s
    BY <2>3, <2>4
  <2> HIDE DEF x
  <2>6. h[x] \in Nat
    BY <2>5 DEF h
  <2>7. IsFiniteSet(s) /\ IsFiniteSet(s \ {x}) /\ Cardinality(s \ {x}) = Cardinality(s) - 1
    BY <2>5, FS_Subset, FS_RemoveElement
  <2>8. n \in Nat /\ n - 1 \in Nat /\ Cardinality(s \ {x}) = n - 1
    BY <2>3, <2>7, FS_CardinalityType
  <2>9. g[s \ {x}] \notin Nat
    BY <2>3, <2>4, <2>5, <2>6
  <2>10. n - 1 \in Bad
    BY <2>8, <2>9
  <2> HIDE DEF Bad
  <2>11. QED
    BY <2>2, <2>8, <2>10
<1>6. Cardinality(V) \in Nat
  BY FS_CardinalityType
<1>7. g[V] \in Nat
  BY <1>5, <1>6
<1>8. values.sum \in Nat /\ values.count \in Nat
  BY DEF Averages
<1>9. QED
  BY <1>1, <1>4, <1>6, <1>7, <1>8 DEF Averages

\* Fractions are in order: when one is below a third, it is below a second or the second below the third.
LEMMA FractionOrder ==
  ASSUME NEW s1 \in Nat, NEW s2 \in Nat, NEW s3 \in Nat,
         NEW c1 \in Nat \ {0}, NEW c2 \in Nat \ {0}, NEW c3 \in Nat \ {0}, s1 * c3 < s3 * c1
  PROVE  s1 * c2 < s2 * c1 \/ s2 * c3 < s3 * c2
<1>1. SUFFICES ASSUME s2 * c1 <= s1 * c2, s3 * c2 <= s2 * c3 PROVE FALSE
  <2>1. /\ s1 * c2 \in Nat /\ s2 * c1 \in Nat /\ s2 * c3 \in Nat /\ s3 * c2 \in Nat
    OBVIOUS
  <2>2. QED
    BY <2>1
<1> DEFINE a == s2 * c1
           b == s1 * c2
           d == s3 * c2
           e == s2 * c3
           f == s1 * c3
           g == s3 * c1
<1>2. a \in Nat /\ b \in Nat /\ d \in Nat /\ e \in Nat /\ f \in Nat /\ g \in Nat
  OBVIOUS
<1>3. c3 * a = c1 * e /\ c3 * b = c2 * f /\ c1 * d = c2 * g
  OBVIOUS
<1>4. a <= b /\ d <= e /\ f < g
  BY <1>1
<1> HIDE DEF a, b, d, e, f, g
<1>5. c3 * a <= c3 * b /\ c1 * d <= c1 * e
  BY <1>2, <1>4, ProductOrder
<1>6. c2 * g <= c2 * f
  <2>1. c3 * a \in Nat /\ c3 * b \in Nat /\ c1 * d \in Nat /\ c1 * e \in Nat
    BY <1>2
  <2>2. QED
    BY <1>3, <1>5, <2>1
<1>7. c2 * (f + 1) <= c2 * g
  BY <1>2, <1>4, ProductOrder
<1>8. c2 * (f + 1) = c2 * f + c2 /\ c2 * f \in Nat /\ c2 * g \in Nat
  BY <1>2
<1>9. QED
  BY <1>6, <1>7, <1>8

\* So are averages, the infinite ones included.
LEMMA AverageOrder ==
  ASSUME NEW a \in Averages, NEW b \in Averages, NEW c \in Averages
  PROVE  /\ LowerAverage(a, c) => LowerAverage(a, b) \/ LowerAverage(b, c)
         /\ ~(LowerAverage(a, b) /\ LowerAverage(b, a))
<1>1. /\ a.sum \in Nat /\ b.sum \in Nat /\ c.sum \in Nat
      /\ a.count \in Nat /\ b.count \in Nat /\ c.count \in Nat
  BY DEF Averages
<1>2. ASSUME LowerAverage(a, c) PROVE LowerAverage(a, b) \/ LowerAverage(b, c)
  <2>1. CASE b.count = 0 \/ c.count = 0
    BY <1>2, <2>1 DEF LowerAverage
  <2>2. CASE b.count # 0 /\ c.count # 0
    <3>1. a.count # 0 /\ a.sum * c.count < c.sum * a.count
      BY <1>2, <2>2 DEF LowerAverage
    <3>2. a.sum * b.count < b.sum * a.count \/ b.sum * c.count < c.sum * b.count
      BY <1>1, <2>2, <3>1, FractionOrder
    <3>3. QED
      BY <2>2, <3>1, <3>2 DEF LowerAverage
  <2>3. QED
    BY <2>1, <2>2
<1>3. ASSUME LowerAverage(a, b), LowerAverage(b, a) PROVE FALSE
  <2>1. a.sum * b.count < b.sum * a.count /\ b.sum * a.count < a.sum * b.count
    BY <1>3 DEF LowerAverage
  <2>2. a.sum * b.count \in Nat /\ b.sum * a.count \in Nat
    BY <1>1
  <2>3. QED
    BY <2>1, <2>2
<1>4. QED
  BY <1>2, <1>3

\* So some division has no lower average before it: else there would be a smallest set of
\* divisions without one.
LEMMA LowestAverage ==
  ASSUME NEW S, IsFiniteSet(S), S # {}, NEW f, \A i \in S : f[i] \in Averages
  PROVE  \E i \in S : \A j \in S : ~LowerAverage(f[j], f[i])
<1> DEFINE HasLowest(T) == \E i \in T : \A j \in T : ~LowerAverage(f[j], f[i])
           Bad == {n \in Nat : \E T \in SUBSET S : T # {} /\ Cardinality(T) = n /\ ~HasLowest(T)}
<1>1. SUFFICES ASSUME Bad # {} PROVE FALSE
  <2>1. Cardinality(S) \in Nat
    BY FS_CardinalityType
  <2>2. QED
    BY <1>1, <2>1
<1>2. PICK n \in Bad : \A m \in Bad : n <= m
  BY <1>1, LeastNatural
<1>3. PICK T \in SUBSET S : T # {} /\ Cardinality(T) = n /\ ~HasLowest(T)
  BY <1>2
<1>4. PICK x \in T : TRUE
  BY <1>3
<1>5. IsFiniteSet(T) /\ n \in Nat
  BY FS_Subset
<1>6. Cardinality(T \ {x}) = n - 1 /\ n - 1 \in Nat
  <2>1. IsFiniteSet(T \ {x}) /\ Cardinality(T \ {x}) = Cardinality(T) - 1
    BY <1>4, <1>5, FS_RemoveElement
  <2>2. QED
    BY <1>3, <2>1, FS_CardinalityType
<1>7. T \ {x} # {}
  <2>1. SUFFICES ASSUME T \ {x} = {} PROVE FALSE
    OBVIOUS
  <2>2. \A j \in T : j = x
    BY <2>1
  <2>3. ~LowerAverage(f[x], f[x])
    BY AverageOrder
  <2>4. QED
    BY <1>3, <2>2, <2>3
<1>8. n - 1 \notin Bad
  <2> HIDE DEF Bad
  <2>1. QED
    BY <1>2, <1>5, <1>6
<1>9. PICK z \in T \ {x} : \A j \in T \ {x} : ~LowerAverage(f[j], f[z])
  <2>1. HasLowest(T \ {x})
    BY <1>6, <1>7, <1>8
  <2>2. QED
    BY <2>1
<1>10. CASE LowerAverage(f[x], f[z])
  <2>1. ASSUME NEW j \in T PROVE ~LowerAverage(f[j], f[x])
    <3>1. f[j] \in Averages /\ f[x] \in Averages /\ f[z] \in Averages
      OBVIOUS
    <3>2. CASE j = x
      BY <3>1, <3>2, AverageOrder
    <3>3. CASE j # x
      <4>1. ~LowerAverage(f[j], f[z])
        BY <1>9, <3>3
      <4>2. ~LowerAverage(f[z], f[x])
        BY <1>10, <3>1, AverageOrder
      <4>3. QED
        BY <3>1, <4>1, <4>2, <1>10, AverageOrder
    <3>4. QED
      BY <3>2, <3>3
  <2>2. QED
    BY <1>3, <2>1
<1>11. CASE ~LowerAverage(f[x], f[z])
  BY <1>3, <1>9, <1>11
<1>12. QED
  BY <1>10, <1>11

\* and the first of those with the lowest is retained.
LEMMA SomeRetained ==
  ASSUME search \in AutoConfigurations, divisionFos \in [Divisions -> Averages]
  PROVE  \E i \in Divisions : i \in RetainedIndices
<1>1. search.divisions \in Nat \ {0} /\ search.keepCount \in Nat \ {0}
  BY AutoRefineAssumption DEF AutoConfigurationType
<1>2. IsFiniteSet(Divisions) /\ Divisions # {} /\ Divisions \subseteq Nat
  <2>1. 0 \in Int /\ search.divisions - 1 \in Int /\ 0 \in Divisions
    BY <1>1 DEF Divisions
  <2>2. QED
    BY <2>1, FS_Interval DEF Divisions
<1>3. \A i \in Divisions : divisionFos[i] \in Averages
  OBVIOUS
<1> DEFINE Lowest == {i \in Divisions : \A j \in Divisions : ~LowerAverage(divisionFos[j], divisionFos[i])}
<1>4. Lowest # {}
  BY <1>2, <1>3, LowestAverage
<1>5. PICK i \in Lowest : \A j \in Lowest : i <= j
  <2>1. Lowest \subseteq Nat
    BY <1>2
  <2> HIDE DEF Lowest
  <2>2. QED
    BY <1>4, <2>1, LeastNatural
<1>6. ASSUME NEW j \in Divisions, AverageBefore(j, i)
      PROVE  FALSE
  <2>1. ~LowerAverage(divisionFos[j], divisionFos[i])
    BY <1>5
  <2>2. ~LowerAverage(divisionFos[i], divisionFos[j]) /\ j < i
    BY <1>6, <2>1 DEF AverageBefore
  <2>3. j \in Lowest
    <3>1. ASSUME NEW k \in Divisions, LowerAverage(divisionFos[k], divisionFos[j]) PROVE FALSE
      <4>1. ~LowerAverage(divisionFos[k], divisionFos[i])
        BY <1>5
      <4>2. QED
        BY <1>3, <1>5, <2>2, <3>1, <4>1, AverageOrder
    <3>2. QED
      BY <3>1
  <2>4. i <= j /\ i \in Nat /\ j \in Nat
    BY <1>2, <1>5, <2>3
  <2>5. QED
    BY <2>2, <2>4
<1>7. {j \in Divisions \ {i} : AverageBefore(j, i)} = {}
  BY <1>6
<1>8. Cardinality({j \in Divisions \ {i} : AverageBefore(j, i)}) < search.keepCount
  BY <1>1, <1>7, FS_EmptySet
<1>9. QED
  BY <1>5, <1>8 DEF RetainedIndices

-----------------------------------------------------------------------------
(* Auto-refine: the inductive invariant                                    *)

\* Of all surfaces solved none has a lower factor of safety.
FosBeaten(best) == \A s \in DOMAIN solved : solved[s] # Invalid => best.fos <= solved[s]

\* No pass has begun.
Unrefined == passesLeft = AutoPasses /\ batches = 0

AutoSound ==
  /\ search \in AutoConfigurations /\ SolvedSound
  /\ winner \in Answers /\ running \in Answers /\ iterationBest \in Answers
  /\ passesLeft \in Seq(PassNames) /\ Len(passesLeft) <= Len(AutoPasses) /\ batches \in Nat
  /\ pair \in Nat \X Nat /\ pair[1] < pair[2]
  /\ \E S : iterations \in Seq(S)

\* The winner is the best of its iteration or of an earlier one, and of all surfaces.
IterationsSound ==
  /\ winner = NoWinner \/ winner.fos < Invalid
  /\ winner = iterationBest \/ BetterSurface(winner, iterationBest)
  /\ winner \in {iterations[i].minimum : i \in DOMAIN iterations} \cup {iterationBest}
  /\ SolvedBeaten(winner)

AutoInv ==
  /\ AutoSound
  /\ stage \notin {"refining", "done"} => Unrefined
  /\ Unrefined => IterationsSound
  /\ FosBeaten(StartOfPass)
  /\ stage = "done" => batches = 0

\* While pairs are tried there is a path, and each of its divisions is long enough for those
\* of the iterations to come.
PathInv ==
  stage = "pairs" =>
    /\ PathSound(path)
    /\ Len(iterations) < search.iterations
    /\ search.divisions ^ (search.iterations - Len(iterations)) <= TotalLength(path)
    /\ divisionFos \in [Divisions -> Averages]

\* The power of the divisions of this iteration and of those to come.
LEMMA DivisionPower ==
  ASSUME AutoInv, PathInv, stage = "pairs"
  PROVE  \E n \in Nat \ {0} : /\ n = search.divisions ^ (search.iterations - (Len(iterations) + 1))
                              /\ search.divisions * n <= TotalLength(path)
                              /\ search.divisions \in Nat \ {0} /\ Len(iterations) \in Nat
                              /\ search.iterations \in Nat
<1>1. search \in AutoConfigurations /\ Len(iterations) \in Nat
  BY DEF AutoInv, AutoSound
<1>2. search.divisions \in Nat \ {0} /\ search.iterations \in Nat
  BY <1>1, AutoRefineAssumption DEF AutoConfigurationType
<1>3. PICK k \in 0..(search.iterations - 1) : k = search.iterations - (Len(iterations) + 1)
                                             /\ k + 1 = search.iterations - Len(iterations)
  BY <1>1, <1>2 DEF PathInv
<1>4. /\ search.divisions ^ k \in Nat \ {0}
      /\ search.divisions ^ (k + 1) = search.divisions * search.divisions ^ k
  BY <1>1, PowerAssumption
<1>5. search.divisions ^ (k + 1) <= TotalLength(path)
  BY <1>3 DEF PathInv
<1>6. QED
  BY <1>1, <1>2, <1>3, <1>4, <1>5

\* Then what is sampled is on the path.
LEMMA SamplesSound ==
  ASSUME AutoInv, PathInv
  PROVE  SamplesOnRetainedGround
<1>1. SUFFICES ASSUME stage = "pairs"
      PROVE  /\ \A s, t \in path : s # t => s[2] <= t[1] \/ t[2] <= s[1]
             /\ \A s \in path : s[1] < s[2] /\ \A b \in Breakpoints : ~(s[1] < b /\ b < s[2])
             /\ \A i \in Divisions :
                  /\ \E s \in path : MidpointOf(path, search.divisions, i) \in s[1]..s[2]
                  /\ i > 0 => MidpointOf(path, search.divisions, i - 1) < MidpointOf(path, search.divisions, i)
  BY DEF SamplesOnRetainedGround
<1>2. PathSound(path)
  BY <1>1 DEF PathInv
<1>3. PICK d \in Nat \ {0}, T \in Nat : d = search.divisions /\ T = TotalLength(path) /\ d <= T
  <2>1. PICK n \in Nat \ {0} : search.divisions * n <= TotalLength(path) /\ search.divisions \in Nat \ {0}
    BY <1>1, DivisionPower
  <2>2. TotalLength(path) \in Nat
    BY <1>2, StepsToFacts
  <2>3. search.divisions * 1 <= search.divisions * n /\ search.divisions * n \in Nat
    BY <2>1, ProductOrder
  <2>4. QED
    BY <2>1, <2>2, <2>3
<1>4. path # {}
  BY <1>2, <1>3, PathNotEmpty
<1> DEFINE at(i) == ((2 * i + 1) * T) \div (2 * d)
<1>5. /\ \A i \in 0..(d - 1) : at(i) \in 0..T
      /\ \A i \in 0..(d - 1), j \in 0..(d - 1) : j = i + 1 => at(i) < at(j)
  BY <1>3, MidpointFacts
<1>6. \A i : MidpointOf(path, search.divisions, i) = PointAt(path, at(i))
  BY <1>3 DEF MidpointOf
<1> HIDE DEF at
<1>7. ASSUME NEW i \in Divisions
      PROVE  \E s \in path : MidpointOf(path, search.divisions, i) \in s[1]..s[2]
  <2>1. at(i) \in 0..TotalLength(path)
    BY <1>3, <1>5 DEF Divisions
  <2>2. PICK s \in path : s[1] <= PointAt(path, at(i)) /\ PointAt(path, at(i)) <= s[2]
    BY <1>2, <1>4, <2>1, PointAtOnPath
  <2>3. PointAt(path, at(i)) \in Nat /\ s[1] \in Nat /\ s[2] \in Nat
    BY <1>2, <1>4, <2>1, PointAtOnPath, PathFacts
  <2>4. QED
    BY <1>6, <2>2, <2>3
<1>8. ASSUME NEW i \in Divisions, i > 0
      PROVE  MidpointOf(path, search.divisions, i - 1) < MidpointOf(path, search.divisions, i)
  <2>1. i \in 0..(d - 1) /\ i - 1 \in 0..(d - 1) /\ i = (i - 1) + 1
    BY <1>3, <1>8 DEF Divisions
  <2>2. at(i - 1) \in 0..TotalLength(path) /\ at(i) \in 0..TotalLength(path) /\ at(i - 1) < at(i)
    BY <1>3, <1>5, <2>1
  <2>3. QED
    BY <1>2, <1>4, <1>6, <2>2, PointAtRises
<1>9. QED
  BY <1>2, <1>7, <1>8 DEF PathSound

\* The invariant holds before the first pair,
LEMMA AutoStarts ==
  ASSUME AutoInit
  PROVE  AutoInv
<1>1. /\ search \in AutoConfigurations /\ DOMAIN solved = {} /\ iterations = <<>>
      /\ winner = NoWinner /\ running = NoWinner /\ iterationBest = NoWinner
      /\ passesLeft = AutoPasses /\ batches = 0 /\ stage = "pairs" /\ pair = <<0, 1>>
  BY DEF AutoInit, RefinementInit, NoWinner, FirstPair
<1>2. NoWinner \in Answers
  BY PostRefinementAssumption DEF NoWinner, Answers
<1>3. AutoPasses \in Seq(PassNames) /\ Len(AutoPasses) \in Nat
  BY DEF AutoPasses, PassNames
<1>4. iterations \in Seq({})
  BY <1>1
<1>5. QED
  BY <1>1, <1>2, <1>3, <1>4 DEF AutoInv, AutoSound, SolvedSound, Unrefined, IterationsSound,
     SolvedBeaten, FosBeaten

\* The circles through two midpoints are a batch.
LEMMA PairBatch ==
  ASSUME CirclesNumbered, SamplesOnRetainedGround, stage = "pairs",
         search \in AutoConfigurations, NEW i \in Divisions, NEW j \in Divisions
  PROVE  \E n : BatchSound(PairCandidates(i, j), n)
<1> DEFINE left == MidpointOf(path, search.divisions, i)
           right == MidpointOf(path, search.divisions, j)
           n == IF left < right THEN search.circles ELSE 0
           batch == [m \in 1..n |-> CandidateOf(left, right, m)]
<1>1. PairCandidates(i, j) = batch
  BY DEF PairCandidates
<1>2. n \in Nat
  BY AutoRefineAssumption DEF AutoConfigurationType
<1>3. left \in Int /\ right \in Int
  BY DEF SamplesOnRetainedGround
<1> HIDE DEF left, right, n
<1>4. BatchSound(batch, n)
  BY <1>2, <1>3 DEF BatchSound, CirclesNumbered
<1>5. QED
  BY <1>1, <1>4

-----------------------------------------------------------------------------
(* Auto-refine: the steps                                                  *)

\* A pair of divisions: what the winner takes over the best of the iteration takes over
\* as well.
LEMMA EvaluatePairKeeps ==
  ASSUME CirclesNumbered, SamplesOnRetainedGround, AutoInv, EvaluatePair
  PROVE  AutoInv'
<1>0. PICK batch : batch = PairCandidates(pair[1], pair[2])
  OBVIOUS
<1>1. /\ stage = "pairs" /\ stage' = "pairs" /\ Solve(batch)
      /\ winner' = BestAfter(winner, solved', batch)
      /\ iterationBest' = BestAfter(iterationBest, solved', batch)
      /\ UNCHANGED <<search, running, passesLeft, batches, iterations>>
  BY <1>0 DEF EvaluatePair, refinementVars
<1>2. PICK n : BatchSound(batch, n)
  <2>1. search.divisions \in Nat /\ search \in AutoConfigurations
    BY AutoRefineAssumption DEF AutoInv, AutoSound, AutoConfigurationType
  <2>2. pair[1] \in Divisions /\ pair[2] \in Divisions
    BY <2>1 DEF AutoInv, AutoSound, EvaluatePair, MorePairs, Divisions
  <2>3. QED
    BY <1>0, <1>1, <2>1, <2>2, PairBatch
<1>3. AutoSound /\ SolvedSound /\ winner \in Answers /\ iterationBest \in Answers
  BY DEF AutoInv, AutoSound
<1>4. Unrefined /\ IterationsSound
  BY <1>1 DEF AutoInv
<1>5. /\ SolvedSound'
      /\ \A s \in DOMAIN solved : s \in DOMAIN solved' /\ solved'[s] = solved[s]
      /\ \A s \in DOMAIN solved' \ DOMAIN solved : \E i \in 1..n : batch[i] = s /\ s # NoSurface
  BY <1>1, <1>2, <1>3, BatchSolved
<1>6. /\ winner' \in Answers
      /\ winner = winner' \/ BetterSurface(winner', winner)
      /\ \A i \in ValidAt(solved', batch) :
           AnswerAt(batch, i)' = winner' \/ BetterSurface(winner', AnswerAt(batch, i)')
      /\ winner' = winner \/ \E i \in ValidAt(solved', batch) : winner' = AnswerAt(batch, i)'
  BY <1>1, <1>2, <1>3, BatchBest
<1>7. /\ iterationBest' \in Answers
      /\ \A i \in ValidAt(solved', batch) :
           AnswerAt(batch, i)' = iterationBest' \/ BetterSurface(iterationBest', AnswerAt(batch, i)')
      /\ iterationBest' = iterationBest \/ \E i \in ValidAt(solved', batch) : iterationBest' = AnswerAt(batch, i)'
  BY <1>1, <1>2, <1>3, BatchBest
<1>8. winner' = iterationBest' \/ BetterSurface(winner', iterationBest')
  <2>1. CASE iterationBest' = iterationBest
    <3>1. winner' = winner \/ BetterSurface(winner', winner)
      BY <1>6
    <3>2. winner = iterationBest \/ BetterSurface(winner, iterationBest)
      BY <1>4 DEF IterationsSound
    <3>3. QED
      BY <1>3, <1>6, <2>1, <3>1, <3>2, BetterTransitive
  <2>2. CASE \E i \in ValidAt(solved', batch) : iterationBest' = AnswerAt(batch, i)'
    BY <1>6, <2>2
  <2>3. QED
    BY <1>7, <2>1, <2>2
<1>9. winner' \in {iterations'[i].minimum : i \in DOMAIN iterations'} \cup {iterationBest'}
  <2>1. CASE winner' = winner
    <3>1. CASE winner = iterationBest
      BY <1>1, <3>1
    <3>2. CASE winner # iterationBest
      BY <1>1, <1>4, <2>1, <3>2 DEF IterationsSound
    <3>3. QED
      BY <3>1, <3>2
  <2>2. CASE \E i \in ValidAt(solved', batch) : winner' = AnswerAt(batch, i)'
    <3>1. winner' = iterationBest' \/ BetterSurface(iterationBest', winner')
      BY <1>7, <2>2
    <3>2. winner' = iterationBest'
      BY <1>6, <1>7, <1>8, <3>1 DEF BetterSurface, Answers
    <3>3. QED
      BY <3>2
  <2>3. QED
    BY <1>6, <2>1, <2>2
<1>10. winner' = NoWinner \/ winner'.fos < Invalid
  <2>1. CASE winner' = winner
    BY <1>4, <2>1 DEF IterationsSound
  <2>2. CASE \E i \in ValidAt(solved', batch) : winner' = AnswerAt(batch, i)'
    <3>1. PICK i \in ValidAt(solved', batch) : winner' = AnswerAt(batch, i)'
      BY <2>2
    <3>2. i \in 1..n /\ batch[i] # NoSurface /\ solved'[batch[i]] # Invalid
      BY <1>2, <3>1 DEF ValidAt, BatchSound
    <3>3. batch[i] \in DOMAIN solved'
      BY <1>1, <1>2, <1>3, <3>2, BatchSolved
    <3>4. solved'[batch[i]] \in 0..Invalid
      BY <1>5, <3>3 DEF SolvedSound
    <3>5. solved'[batch[i]] < Invalid
      BY <3>2, <3>4, PostRefinementAssumption
    <3>6. winner'.fos = solved'[batch[i]]
      BY <3>1 DEF AnswerAt
    <3>7. QED
      BY <3>5, <3>6
  <2>3. QED
    BY <1>6, <2>1, <2>2
<1>11. SolvedBeaten(winner)'
  <2> DEFINE answer(s) == [surface |-> s, fos |-> solved'[s]]
  <2>1. ASSUME NEW s \in DOMAIN solved', solved'[s] # Invalid
        PROVE  answer(s) = winner' \/ BetterSurface(winner', answer(s))
    <3>1. CASE s \in DOMAIN solved
      <4>1. answer(s) = winner \/ BetterSurface(winner, answer(s))
        BY <1>4, <1>5, <2>1, <3>1 DEF IterationsSound, SolvedBeaten
      <4>2. answer(s) \in Answers
        BY <1>5, PostRefinementAssumption DEF SolvedSound, Answers
      <4>3. QED
        BY <1>3, <1>6, <4>1, <4>2, BetterTransitive
    <3>2. CASE s \notin DOMAIN solved
      <4>1. PICK i \in 1..n : batch[i] = s /\ s # NoSurface
        BY <1>5, <3>2
      <4>2. i \in ValidAt(solved', batch)
        BY <1>2, <2>1, <4>1 DEF ValidAt, BatchSound
      <4>3. AnswerAt(batch, i)' = answer(s)
        BY <4>1 DEF AnswerAt
      <4>4. QED
        BY <1>6, <4>2, <4>3
    <3>3. QED
      BY <3>1, <3>2
  <2>2. QED
    BY <2>1 DEF SolvedBeaten
<1>12. AutoSound'
  <2>1. pair' \in Nat \X Nat /\ pair'[1] < pair'[2]
    BY <1>3 DEF EvaluatePair, NextPair, AutoSound
  <2>2. QED
    BY <1>1, <1>3, <1>5, <1>6, <1>7, <2>1 DEF AutoSound
<1>13. IterationsSound' /\ Unrefined'
  BY <1>1, <1>4, <1>8, <1>9, <1>10, <1>11 DEF IterationsSound, Unrefined
<1>14. StartOfPass' = winner'
  BY <1>13 DEF Unrefined, StartOfPass
<1>15. FosBeaten(winner)'
  <2>1. ASSUME NEW s \in DOMAIN solved', solved'[s] # Invalid
        PROVE  winner'.fos <= solved'[s]
    <3> DEFINE found == [surface |-> s, fos |-> solved'[s]]
    <3>1. found = winner' \/ BetterSurface(winner', found)
      BY <1>11, <2>1 DEF SolvedBeaten
    <3>2. solved'[s] \in Int /\ winner'.fos \in Int
      BY <1>5, <1>6, PostRefinementAssumption DEF SolvedSound, Answers
    <3>3. winner'.fos = found.fos \/ winner'.fos < found.fos
      BY <3>1 DEF BetterSurface
    <3>4. QED
      BY <3>2, <3>3
  <2>2. QED
    BY <2>1 DEF FosBeaten
<1>16. FosBeaten(StartOfPass)'
  BY <1>14, <1>15 DEF FosBeaten
<1>17. QED
  BY <1>1, <1>12, <1>13, <1>16 DEF AutoInv

\* The end of an iteration puts its best surface among the minima.
LEMMA RetainKeeps ==
  ASSUME AutoInv, RetainDivisions
  PROVE  AutoInv'
<1> DEFINE record == [active |-> path, minimum |-> iterationBest, retained |-> RetainedIndices,
                      generated |-> generated, valid |-> validGenerated]
<1>1. /\ stage = "pairs" /\ stage' \in {"pairs", "failed", "refining"}
      /\ iterations' = Append(iterations, record) /\ iterationBest' = NoWinner
      /\ UNCHANGED <<search, solved, winner, running, passesLeft, batches>>
  BY DEF RetainDivisions, refinementVars, NoWinner
<1>2. record.minimum = iterationBest
  OBVIOUS
<1> HIDE DEF record
<1>3. AutoSound /\ Unrefined /\ IterationsSound
  BY <1>1 DEF AutoInv
<1>4. PICK S : iterations \in Seq(S)
  BY <1>3 DEF AutoSound
<1>5. iterations \in Seq(S \cup {record}) /\ iterations' \in Seq(S \cup {record})
  BY <1>1, <1>4
<1>6. /\ \A i \in DOMAIN iterations : i \in DOMAIN iterations' /\ iterations'[i] = iterations[i]
      /\ \E i \in DOMAIN iterations' : iterations'[i] = record
  <2>1. Len(iterations) + 1 \in DOMAIN iterations' /\ iterations'[Len(iterations) + 1] = record
    BY <1>1, <1>5
  <2>2. QED
    BY <1>1, <1>5, <2>1
<1>7. winner' \in {iterations'[i].minimum : i \in DOMAIN iterations'} \cup {iterationBest'}
  <2>1. CASE winner = iterationBest
    BY <1>1, <1>2, <1>6, <2>1
  <2>2. CASE winner # iterationBest
    <3>1. PICK i \in DOMAIN iterations : winner = iterations[i].minimum
      BY <1>3, <2>2 DEF IterationsSound
    <3>2. QED
      BY <1>1, <1>6, <3>1
  <2>3. QED
    BY <2>1, <2>2
<1>8. winner' = iterationBest' \/ BetterSurface(winner', iterationBest')
  BY <1>1, <1>3 DEF IterationsSound, BetterSurface, NoWinner
<1>9. NoWinner \in Answers
  BY PostRefinementAssumption DEF NoWinner, Answers
<1>10. AutoSound'
  <2>1. pair' \in Nat \X Nat /\ pair'[1] < pair'[2]
    BY DEF RetainDivisions, FirstPair
  <2>2. QED
    BY <1>1, <1>3, <1>5, <1>9, <2>1 DEF AutoSound, SolvedSound
<1>11. IterationsSound' /\ Unrefined'
  BY <1>1, <1>3, <1>7, <1>8 DEF IterationsSound, Unrefined, SolvedBeaten
<1>12. FosBeaten(StartOfPass)'
  BY <1>1 DEF AutoInv, FosBeaten, StartOfPass
<1>13. QED
  BY <1>1, <1>10, <1>11, <1>12 DEF AutoInv

\* A batch of a pass only lowers the factor of safety of the best surface so far; the
\* local polish may turn that surface down, for one with no greater factor of safety.
LEMMA AutoRefineWinnerKeeps ==
  ASSUME AutoInv, RefineAutoWinner
  PROVE  AutoInv'
<1>1. /\ stage = "refining" /\ stage' = IF passesLeft' = <<>> THEN "done" ELSE stage
      /\ SweepBatch \/ EndPass
      /\ UNCHANGED <<search, pair, iterationBest, iterations>>
  BY DEF RefineAutoWinner, RefineWinner, Refine
<1>2. AutoSound /\ FosBeaten(StartOfPass) /\ StartOfPass \in Answers
  BY DEF AutoInv, AutoSound, StartOfPass
<1>3. CASE SweepBatch
  <2>1. PICK batch \in [1..BatchLength -> Candidates] :
          Solve(batch) /\ running' = BestAfter(StartOfPass, solved', batch)
    BY <1>3 DEF SweepBatch, Candidates
  <2>2. /\ passesLeft # <<>> /\ batches' = batches + 1
        /\ UNCHANGED <<winner, passesLeft>>
    BY <1>3 DEF SweepBatch
  <2>3. BatchSound(batch, BatchLength)
    BY SweepBatchSound
  <2>4. /\ SolvedSound'
        /\ \A s \in DOMAIN solved : s \in DOMAIN solved' /\ solved'[s] = solved[s]
        /\ \A s \in DOMAIN solved' \ DOMAIN solved :
             \E i \in 1..BatchLength : batch[i] = s /\ s # NoSurface
    BY <1>2, <2>1, <2>3, BatchSolved DEF AutoSound
  <2>5. /\ running' \in Answers
        /\ StartOfPass = running' \/ BetterSurface(running', StartOfPass)
        /\ \A i \in ValidAt(solved', batch) :
             AnswerAt(batch, i)' = running' \/ BetterSurface(running', AnswerAt(batch, i)')
    BY <1>2, <2>1, <2>3, BatchBest DEF AutoSound
  <2>6. batches \in Nat /\ batches' \in Nat /\ batches' # 0
    BY <1>2, <2>2 DEF AutoSound
  <2>7. AutoSound'
    BY <1>1, <1>2, <2>2, <2>4, <2>5, <2>6 DEF AutoSound
  <2>8. ~Unrefined' /\ StartOfPass' = running'
    BY <2>6 DEF Unrefined, StartOfPass
  <2>9. ASSUME NEW s \in DOMAIN solved', solved'[s] # Invalid
        PROVE  running'.fos <= solved'[s]
    <3>1. running'.fos \in Int /\ StartOfPass.fos \in Int /\ solved'[s] \in Int
      BY <1>2, <2>4, <2>5, PostRefinementAssumption DEF SolvedSound, Answers
    <3>2. CASE s \in DOMAIN solved
      <4>1. StartOfPass.fos <= solved'[s]
        BY <1>2, <2>4, <2>9, <3>2 DEF FosBeaten
      <4>2. running'.fos <= StartOfPass.fos
        BY <2>5, <3>1 DEF BetterSurface
      <4>3. QED
        BY <3>1, <4>1, <4>2
    <3>3. CASE s \notin DOMAIN solved
      <4>1. PICK i \in 1..BatchLength : batch[i] = s /\ s # NoSurface
        BY <2>4, <3>3
      <4>2. i \in ValidAt(solved', batch)
        BY <2>1, <2>9, <4>1 DEF ValidAt
      <4>3. AnswerAt(batch, i)' = [surface |-> s, fos |-> solved'[s]]
        BY <4>1 DEF AnswerAt
      <4>4. QED
        BY <2>5, <3>1, <4>2, <4>3 DEF BetterSurface
    <3>4. QED
      BY <3>2, <3>3
  <2>10. FosBeaten(StartOfPass)'
    BY <2>8, <2>9 DEF FosBeaten
  <2>11. stage' = "refining"
    BY <1>1, <2>2
  <2>12. QED
    BY <2>7, <2>8, <2>10, <2>11 DEF AutoInv
<1>4. CASE EndPass
  <2>1. /\ passesLeft # <<>> /\ passesLeft' = Tail(passesLeft) /\ batches' = 0
        /\ running' = NoWinner /\ UNCHANGED solved
        /\ winner' = StartOfPass \/ (winner' = winner /\ ~(StartOfPass.fos < winner.fos))
    BY <1>4 DEF EndPass, PassResult, NoWinner
  <2>2. /\ passesLeft' \in Seq(PassNames) /\ Len(passesLeft') < Len(AutoPasses) /\ Len(AutoPasses) \in Nat
    BY <1>2, <2>1, PostRefinementAssumption DEF AutoSound
  <2>3. ~Unrefined'
    BY <2>2 DEF Unrefined
  <2>4. StartOfPass' = winner' /\ winner' \in Answers
    BY <1>2, <2>1 DEF StartOfPass, AutoSound
  <2>5. NoWinner \in Answers
    BY PostRefinementAssumption DEF NoWinner, Answers
  <2>6. AutoSound'
    BY <1>1, <1>2, <2>1, <2>2, <2>4, <2>5 DEF AutoSound, SolvedSound
  <2>7. winner'.fos <= StartOfPass.fos /\ winner'.fos \in Int /\ StartOfPass.fos \in Int
    BY <1>2, <2>1, <2>4 DEF AutoSound, Answers
  <2>8. \A s \in DOMAIN solved' : solved'[s] # Invalid => winner'.fos <= solved'[s]
    <3>1. \A s \in DOMAIN solved : solved[s] \in Int
      BY <1>2, PostRefinementAssumption DEF AutoSound, SolvedSound
    <3>2. QED
      BY <1>2, <2>1, <2>7, <3>1 DEF FosBeaten
  <2>9. FosBeaten(StartOfPass)'
    BY <2>4, <2>8 DEF FosBeaten
  <2>10. stage' \in {"refining", "done"}
    BY <1>1
  <2>11. QED
    BY <2>1, <2>3, <2>6, <2>9, <2>10 DEF AutoInv
<1>5. QED
  BY <1>1, <1>3, <1>4

-----------------------------------------------------------------------------
(* Auto-refine: the path                                                  *)

\* The path is one at the start,
LEMMA PathStarts ==
  ASSUME AutoInit
  PROVE  PathInv
<1>1. search \in AutoConfigurations /\ path = WholeGround /\ iterations = <<>> /\ Len(iterations) = 0
      /\ divisionFos = [i \in Divisions |-> NoFos]
  BY DEF AutoInit
<1>2. search.iterations \in Nat \ {0} /\ search.iterations - 0 = search.iterations
  BY <1>1, AutoRefineAssumption DEF AutoConfigurationType
<1>3. divisionFos \in [Divisions -> Averages]
  <2>1. NoFos \in Averages
    BY DEF NoFos, Averages
  <2>2. QED
    BY <1>1, <2>1
<1>4. QED
  BY <1>1, <1>2, <1>3, WholeGroundSound, UnitAssumption DEF PathInv

\* trying a pair leaves it alone and adds values to two divisions,
LEMMA EvaluatePairKeepsPath ==
  ASSUME CirclesNumbered, AutoInv, PathInv, EvaluatePair
  PROVE  PathInv'
<1>0. PICK batch : batch = PairCandidates(pair[1], pair[2])
  OBVIOUS
<1>1. /\ stage = "pairs" /\ stage' = "pairs" /\ Solve(batch)
      /\ divisionFos' = [i \in Divisions |->
                           IF i \in {pair[1], pair[2]}
                             THEN WithValues(divisionFos[i], solved', batch) ELSE divisionFos[i]]
      /\ UNCHANGED <<search, path, iterations>>
  BY <1>0 DEF EvaluatePair, refinementVars
<1>2. PICK n : BatchSound(batch, n)
  <2>1. search.divisions \in Nat /\ search \in AutoConfigurations
    BY AutoRefineAssumption DEF AutoInv, AutoSound, AutoConfigurationType
  <2>2. pair[1] \in Divisions /\ pair[2] \in Divisions
    BY <2>1 DEF AutoInv, AutoSound, EvaluatePair, MorePairs, Divisions
  <2>3. QED
    BY <1>0, <1>1, <2>1, <2>2, SamplesSound, PairBatch
<1>3. /\ SolvedSound'
      /\ \A i \in 1..n : batch[i] # NoSurface => batch[i] \in DOMAIN solved'
  BY <1>1, <1>2, BatchSolved DEF AutoInv, AutoSound
<1> DEFINE valid == ValidAt(solved', batch)
<1>4. valid \subseteq 1..n /\ \A i \in valid : solved'[batch[i]] \in Nat
  <2>1. valid \subseteq 1..n /\ \A i \in valid : batch[i] # NoSurface
    BY <1>2 DEF ValidAt, BatchSound
  <2>2. QED
    BY <1>3, <2>1, PostRefinementAssumption DEF SolvedSound
<1>5. IsFiniteSet(valid) /\ Cardinality(valid) \in Nat
  <2>1. IsFiniteSet(1..n)
    BY <1>2, FS_Interval DEF BatchSound
  <2> HIDE DEF valid
  <2>2. QED
    BY <1>4, <2>1, FS_Subset, FS_CardinalityType
<1>6. ASSUME NEW values \in Averages
      PROVE  WithValues(values, solved', batch) \in Averages
  <2>1. PICK answers : answers = solved'
    OBVIOUS
  <2>2. PICK V : V = ValidAt(answers, batch)
    OBVIOUS
  <2>3. IsFiniteSet(V) /\ \A i \in V : answers[batch[i]] \in Nat
    BY <1>4, <1>5, <2>1, <2>2
  <2>4. WithValues(values, answers, batch) \in Averages
    BY <2>2, <2>3, AveragesWithValues
  <2>5. QED
    BY <2>1, <2>4
<1>7. divisionFos' \in [Divisions -> Averages] /\ Divisions' = Divisions
  BY <1>1, <1>6 DEF PathInv, Divisions
<1>8. QED
  BY <1>1, <1>7 DEF PathInv

\* and the next path has a division of this one at least.
LEMMA RetainKeepsPath ==
  ASSUME AutoInv, PathInv, RetainDivisions
  PROVE  PathInv'
<1>1. /\ stage = "pairs" /\ UNCHANGED search
      /\ path' = NextPath(path, search.divisions, RetainedIndices)
      /\ divisionFos' = [i \in Divisions |-> NoFos]
      /\ stage' = "pairs" => Len(iterations') < search.iterations
      /\ Len(iterations') = Len(iterations) + 1
  BY DEF RetainDivisions, AutoInv, AutoSound
<1>2. PICK n \in Nat \ {0} : /\ n = search.divisions ^ (search.iterations - (Len(iterations) + 1))
                            /\ search.divisions * n <= TotalLength(path)
                            /\ search.divisions \in Nat \ {0}
  BY <1>1, DivisionPower
<1>3. PICK i \in Divisions : i \in RetainedIndices
  BY <1>1, SomeRetained DEF PathInv, AutoInv, AutoSound
<1>4. RetainedIndices \in SUBSET (0..(search.divisions - 1))
  BY DEF RetainedIndices, Divisions
<1>5. PathSound(path') /\ n <= TotalLength(path')
  BY <1>1, <1>2, <1>3, <1>4, NextPathSound DEF PathInv
<1>6. divisionFos' \in [Divisions' -> Averages]
  BY <1>1 DEF NoFos, Averages, Divisions
<1>7. QED
  BY <1>1, <1>2, <1>5, <1>6 DEF PathInv, PathSound, TotalLength

\* So both invariants are kept by every step.
LEMMA AutoInvariant ==
  ASSUME CirclesNumbered
  PROVE  AutoSpec => [](AutoInv /\ PathInv)
<1>1. AutoInit => AutoInv /\ PathInv
  BY AutoStarts, PathStarts
<1>2. AutoInv /\ PathInv /\ [AutoNext]_autoVars => AutoInv' /\ PathInv'
  <2> SUFFICES ASSUME AutoInv, PathInv, [AutoNext]_autoVars PROVE AutoInv' /\ PathInv'
    OBVIOUS
  <2>1. CASE EvaluatePair
    BY <2>1, SamplesSound, EvaluatePairKeeps, EvaluatePairKeepsPath
  <2>2. CASE RetainDivisions
    BY <2>2, RetainKeeps, RetainKeepsPath
  <2>3. CASE RefineAutoWinner
    <3>1. stage' # "pairs"
      BY <2>3 DEF RefineAutoWinner, RefineWinner
    <3>2. QED
      BY <2>3, <3>1, AutoRefineWinnerKeeps DEF PathInv
  <2>4. CASE UNCHANGED autoVars
    <3>1. UNCHANGED <<search, pair, solved, winner, running, passesLeft, batches, iterationBest,
                      iterations, stage, path, divisionFos>>
      BY <2>4 DEF autoVars, autoSearchVars, refinementVars
    <3>2. AutoInv'
      BY <3>1 DEF AutoInv, AutoSound, SolvedSound, Unrefined, IterationsSound, SolvedBeaten,
         FosBeaten, StartOfPass
    <3>3. PathInv'
      BY <3>1 DEF PathInv, Divisions
    <3>4. QED
      BY <3>2, <3>3
  <2>5. QED
    BY <2>1, <2>2, <2>3, <2>4 DEF AutoNext
<1>3. QED
  BY <1>1, <1>2, PTL DEF AutoSpec

\* run_auto_refine_search(): whatever divisions the iterations retain, with gaps between
\* them or not, the segments of the path do not overlap and contain no bend of the ground,
\* every midpoint a circle is tried through lies on one of them, and the midpoints rise with
\* the division.
THEOREM AutoRefineSamplesSound ==
  ASSUME CirclesNumbered
  PROVE  AutoSpec => []SamplesOnRetainedGround
<1>1. AutoInv /\ PathInv => SamplesOnRetainedGround
  BY SamplesSound
<1>2. QED
  BY <1>1, AutoInvariant, PTL

\* run_auto_refine_search(): the winner is, before the passes, the best surface of all and
\* one of the minima reported for the iterations; after them no surface solved anywhere has
\* a lower factor of safety.
THEOREM AutoRefineWinnerIsBest ==
  ASSUME CirclesNumbered
  PROVE  AutoSpec => []WinnerIsBest
<1>1. ASSUME AutoInv
      PROVE  WinnerIsBest
  <2>1. ASSUME Unrefined
        PROVE  /\ \A s \in DOMAIN solved : solved[s] # Invalid =>
                    winner.surface = s \/ BetterSurface(winner, [surface |-> s, fos |-> solved[s]])
               /\ winner \in {iterations[i].minimum : i \in DOMAIN iterations} \cup {iterationBest}
    BY <1>1, <2>1 DEF AutoInv, IterationsSound, SolvedBeaten
  <2>2. ASSUME stage = "done"
        PROVE  \A s \in DOMAIN solved : solved[s] # Invalid => winner.fos <= solved[s]
    BY <1>1, <2>2 DEF AutoInv, FosBeaten, StartOfPass
  <2>3. QED
    BY <2>1, <2>2 DEF WinnerIsBest, Unrefined
<1>2. AutoInv => WinnerIsBest
  BY <1>1
<1>3. QED
  BY <1>2, AutoInvariant, PTL
=============================================================================
