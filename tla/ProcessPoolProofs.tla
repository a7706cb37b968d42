--------------------------- MODULE ProcessPoolProofs ---------------------------
(***************************************************************************)
(* What the steps of a process pool keep, whoever submits the tasks: the   *)
(* lemmas that SurfacePoolProofs and CaseRunnerProofs share.               *)
(***************************************************************************)
EXTENDS ProcessPool, TLAPS

\* The busy workers and the running tasks are matched one to one.
Matched ==
  /\ \A w \in Workers :
       IF w \in Busy
         THEN job[w] \in DOMAIN futures /\ futures[job[w]] = "running"
         ELSE job[w] = 0
  /\ \A i \in DOMAIN futures :
       futures[i] = "running" => \E w \in Workers : job[w] = i
  /\ \A v, w \in Busy : job[v] = job[w] => v = w

\* A task fails only with a worker.
FailuresExplained == \A i \in DOMAIN futures : futures[i] = "failed" => broken

PoolShape == ProcessTypeOK /\ Matched /\ FailuresExplained

\* Nothing runs or is about to.
Quiet == Undone = {} /\ Busy = {}

\* What is finished stays so.
Stands ==
  \A i \in DOMAIN futures : futures[i] = "finished" =>
     i \in DOMAIN futures' /\ futures'[i] = "finished"

WorkerMoves == \E w \in Workers : TakeTask(w) \/ FinishTask(w) \/ WorkerDies(w)

-----------------------------------------------------------------------------
LEMMA InitialShape == ProcessInit => PoolShape /\ Quiet /\ futures = <<>> /\ ~broken
<1> SUFFICES ASSUME ProcessInit PROVE PoolShape /\ Quiet
  BY DEF ProcessInit
<1>1. futures = <<>> /\ DOMAIN futures = {} /\ \A w \in Workers : status[w] = "unborn" /\ job[w] = 0
  BY DEF ProcessInit
<1>2. Undone = {} /\ Busy = {}
  BY <1>1 DEF Undone, Busy
<1>3. ProcessTypeOK
  <2>1. futures \in Seq(FutureStates)
    BY <1>1
  <2>2. QED BY <2>1 DEF ProcessInit, ProcessTypeOK
<1>4. QED BY <1>1, <1>2, <1>3 DEF PoolShape, Matched, FailuresExplained, Quiet

LEMMA Indices ==
  ASSUME ProcessTypeOK
  PROVE  Len(futures) \in Nat /\ DOMAIN futures = 1..Len(futures)
BY DEF ProcessTypeOK

LEMMA Appended ==
  ASSUME ProcessTypeOK, NEW f \in FutureStates, futures' = Append(futures, f)
  PROVE  /\ futures' \in Seq(FutureStates)
         /\ Len(futures') = Len(futures) + 1 /\ DOMAIN futures' = 1..(Len(futures) + 1)
         /\ \A i \in DOMAIN futures : i \in DOMAIN futures' /\ futures'[i] = futures[i]
         /\ \A i \in DOMAIN futures' : i \in DOMAIN futures \/ futures'[i] = f
BY DEF ProcessTypeOK

\* The tasks keep their number when each is given a state.
LEMMA Remade ==
  ASSUME ProcessTypeOK, NEW g, g = [i \in DOMAIN futures |-> g[i]],
         \A i \in DOMAIN futures : g[i] \in FutureStates
  PROVE  g \in Seq(FutureStates) /\ Len(g) = Len(futures) /\ DOMAIN g = DOMAIN futures
BY Indices

LEMMA ShapeUnchanged ==
  ASSUME PoolShape, UNCHANGED <<broken, status, job, futures>>,
         executor' \in {"none", "open", "closing", "closed"}
  PROVE  PoolShape' /\ (Quiet' <=> Quiet) /\ Stands
BY DEF PoolShape, ProcessTypeOK, Matched, FailuresExplained, Quiet, Undone, Busy, Stands

LEMMA ShapeConstruct ==
  ASSUME PoolShape, Construct
  PROVE  PoolShape' /\ (Quiet' <=> Quiet)
BY ShapeUnchanged DEF Construct

\* The tasks of a call that is over are forgotten.
LEMMA ShapeReset ==
  ASSUME PoolShape, Quiet, futures' = <<>>, UNCHANGED <<executor, broken, status, job>>
  PROVE  PoolShape'
<1>1. futures' \in Seq(FutureStates) /\ DOMAIN futures' = {} /\ Busy' = {}
  BY DEF Quiet, Busy
<1>2. \A w \in Workers : job[w] = 0
  BY DEF PoolShape, Matched, Quiet
<1>3. QED BY <1>1, <1>2 DEF PoolShape, ProcessTypeOK, Matched, FailuresExplained

LEMMA ShapeSubmit ==
  ASSUME PoolShape, Submit \/ SubmitWithoutProcess
  PROVE  PoolShape' /\ Len(futures') = Len(futures) + 1 /\ Stands
<1>1. futures' = Append(futures, "pending") /\ UNCHANGED <<executor, broken, job>>
  BY DEF Submit, SubmitWithoutProcess
<1>2. /\ futures' \in Seq(FutureStates)
      /\ Len(futures') = Len(futures) + 1
      /\ \A i \in DOMAIN futures : i \in DOMAIN futures' /\ futures'[i] = futures[i]
      /\ \A i \in DOMAIN futures' : i \in DOMAIN futures \/ futures'[i] = "pending"
  <2>1. "pending" \in FutureStates
    BY DEF FutureStates
  <2>2. QED BY <1>1, <2>1, Appended DEF PoolShape
<1>3. status' \in [Workers -> {"unborn", "idle", "busy", "dead"}] /\ Busy' = Busy
  <2>1. CASE SubmitWithoutProcess
    BY <2>1 DEF SubmitWithoutProcess, PoolShape, ProcessTypeOK, Busy
  <2>2. CASE Submit
    <3>1. PICK born \in SUBSET Unborn :
            status' = [w \in Workers |-> IF w \in born THEN "idle" ELSE status[w]]
      BY <2>2 DEF Submit
    <3>2. QED BY <3>1 DEF PoolShape, ProcessTypeOK, Busy, Unborn
  <2>3. QED BY <2>1, <2>2
<1>4. ProcessTypeOK'
  BY <1>1, <1>2, <1>3 DEF PoolShape, ProcessTypeOK
<1>5. Matched'
  BY <1>1, <1>2, <1>3 DEF PoolShape, Matched
<1>6. QED BY <1>1, <1>2, <1>4, <1>5 DEF PoolShape, FailuresExplained, Stands

LEMMA ShapeTake ==
  ASSUME PoolShape, NEW w \in Workers, TakeTask(w)
  PROVE  PoolShape' /\ Len(futures') = Len(futures) /\ Stands /\ Pending # {}
           /\ UNCHANGED <<executor, broken>>
<1>1. PICK i \in Pending : /\ job' = [job EXCEPT ![w] = i]
                           /\ futures' = [futures EXCEPT ![i] = "running"]
  BY DEF TakeTask
<1>2. status' = [status EXCEPT ![w] = "busy"] /\ UNCHANGED <<executor, broken>> /\ status[w] = "idle"
  BY DEF TakeTask
<1>3. ProcessTypeOK /\ i \in DOMAIN futures /\ futures[i] = "pending" /\ i \in Nat
  BY Indices DEF PoolShape, Pending
<1>4. futures' = [k \in DOMAIN futures |-> futures'[k]]
        /\ \A k \in DOMAIN futures : futures'[k] = IF k = i THEN "running" ELSE futures[k]
  BY <1>1, <1>3
<1>5. futures' \in Seq(FutureStates) /\ Len(futures') = Len(futures) /\ DOMAIN futures' = DOMAIN futures
  <2>1. \A k \in DOMAIN futures : futures[k] \in FutureStates
    BY <1>3 DEF ProcessTypeOK
  <2>2. \A k \in DOMAIN futures : futures'[k] \in FutureStates
    BY <1>4, <2>1 DEF FutureStates
  <2>3. QED BY <1>3, <1>4, <2>2, Remade
<1>6. ProcessTypeOK'
  BY <1>1, <1>2, <1>3, <1>5 DEF ProcessTypeOK
<1>7. Busy' = Busy \cup {w} /\ w \notin Busy
  BY <1>2, <1>3 DEF Busy, ProcessTypeOK
<1>8. job'[w] = i /\ \A v \in Workers \ {w} : job'[v] = job[v]
  BY <1>1, <1>3 DEF ProcessTypeOK
<1>9. \A v \in Busy : job[v] # i
  BY <1>3 DEF PoolShape, Matched, Busy
<1>10. Matched'
  <2>1. ASSUME NEW v \in Workers
        PROVE  IF v \in Busy' THEN job'[v] \in DOMAIN futures' /\ futures'[job'[v]] = "running"
               ELSE job'[v] = 0
    <3>1. CASE v = w
      BY <1>3, <1>4, <1>5, <1>7, <1>8, <3>1
    <3>2. CASE v # w
      BY <1>4, <1>5, <1>7, <1>8, <3>2 DEF PoolShape, Matched
    <3>3. QED BY <3>1, <3>2
  <2>2. ASSUME NEW k \in DOMAIN futures', futures'[k] = "running" PROVE \E v \in Workers : job'[v] = k
    <3>1. CASE k = i
      BY <1>8, <3>1
    <3>2. CASE k # i
      <4>1. PICK v \in Workers : job[v] = k
        BY <1>4, <1>5, <2>2, <3>2 DEF PoolShape, Matched
      <4>2. job[w] = 0 /\ k # 0
        BY <1>3, <1>5, <1>7, Indices DEF PoolShape, Matched
      <4>3. QED BY <1>8, <4>1, <4>2
    <3>3. QED BY <3>1, <3>2
  <2>3. \A u, v \in Busy' : job'[u] = job'[v] => u = v
    BY <1>7, <1>8, <1>9 DEF PoolShape, Matched, Busy
  <2>4. QED BY <2>1, <2>2, <2>3 DEF Matched
<1>11. FailuresExplained' /\ Stands
  BY <1>2, <1>3, <1>4, <1>5 DEF PoolShape, FailuresExplained, Stands
<1>12. QED BY <1>2, <1>3, <1>5, <1>6, <1>10, <1>11 DEF PoolShape, Pending

LEMMA ShapeFinish ==
  ASSUME PoolShape, NEW w \in Workers, FinishTask(w)
  PROVE  PoolShape' /\ Len(futures') = Len(futures) /\ Stands /\ Busy # {}
           /\ UNCHANGED <<executor, broken>>
<1>1. /\ futures' = [futures EXCEPT ![job[w]] = "finished"] /\ job' = [job EXCEPT ![w] = 0]
      /\ status' = [status EXCEPT ![w] = "idle"] /\ UNCHANGED <<executor, broken>>
  BY DEF FinishTask
<1> DEFINE i == job[w]
<1>2. ProcessTypeOK /\ w \in Busy /\ i \in DOMAIN futures /\ futures[i] = "running" /\ i # 0
  BY Indices DEF PoolShape, Matched, FinishTask, Busy
<1>3. futures' = [k \in DOMAIN futures |-> futures'[k]]
        /\ \A k \in DOMAIN futures : futures'[k] = IF k = i THEN "finished" ELSE futures[k]
  BY <1>1, <1>2
<1>4. futures' \in Seq(FutureStates) /\ Len(futures') = Len(futures) /\ DOMAIN futures' = DOMAIN futures
  <2>1. \A k \in DOMAIN futures : futures[k] \in FutureStates
    BY <1>2 DEF ProcessTypeOK
  <2>2. \A k \in DOMAIN futures : futures'[k] \in FutureStates
    BY <1>3, <2>1 DEF FutureStates
  <2>3. QED BY <1>2, <1>3, <2>2, Remade
<1>5. ProcessTypeOK'
  BY <1>1, <1>2, <1>4 DEF ProcessTypeOK
<1>6. Busy' = Busy \ {w}
  BY <1>1, <1>2 DEF Busy, ProcessTypeOK
<1>7. job'[w] = 0 /\ \A v \in Workers \ {w} : job'[v] = job[v]
  BY <1>1, <1>2 DEF ProcessTypeOK
<1>8. Matched'
  <2>1. ASSUME NEW v \in Workers
        PROVE  IF v \in Busy' THEN job'[v] \in DOMAIN futures' /\ futures'[job'[v]] = "running"
               ELSE job'[v] = 0
    <3>1. CASE v = w
      BY <1>6, <1>7, <3>1
    <3>2. CASE v \in Busy /\ v # w
      <4>1. job[v] # i /\ job[v] \in DOMAIN futures /\ futures[job[v]] = "running"
        BY <1>2, <3>2 DEF PoolShape, Matched
      <4>2. QED BY <1>3, <1>4, <1>6, <1>7, <3>2, <4>1
    <3>3. CASE v \notin Busy
      BY <1>6, <1>7, <3>3 DEF PoolShape, Matched
    <3>4. QED BY <3>1, <3>2, <3>3
  <2>2. ASSUME NEW k \in DOMAIN futures', futures'[k] = "running" PROVE \E v \in Workers : job'[v] = k
    <3>1. k # i /\ k \in DOMAIN futures /\ futures[k] = "running"
      BY <1>3, <1>4, <2>2
    <3>2. PICK v \in Workers : job[v] = k
      BY <3>1 DEF PoolShape, Matched
    <3>3. QED BY <1>7, <3>1, <3>2
  <2>3. \A u, v \in Busy' : job'[u] = job'[v] => u = v
    BY <1>6, <1>7 DEF PoolShape, Matched, Busy
  <2>4. QED BY <2>1, <2>2, <2>3 DEF Matched
<1>9. FailuresExplained' /\ Stands
  BY <1>1, <1>2, <1>3, <1>4 DEF PoolShape, FailuresExplained, Stands
<1>10. QED BY <1>1, <1>2, <1>4, <1>5, <1>8, <1>9 DEF PoolShape

LEMMA ShapeDies ==
  ASSUME PoolShape, NEW w \in Workers, WorkerDies(w)
  PROVE  PoolShape' /\ Len(futures') = Len(futures) /\ Stands /\ Quiet' /\ UNCHANGED executor
           /\ broken'
<1>1. /\ broken' = TRUE /\ UNCHANGED executor /\ job' = [v \in Workers |-> 0]
      /\ status' = [v \in Workers |-> IF v \in Live THEN "dead" ELSE status[v]]
      /\ futures' = [i \in DOMAIN futures |-> IF i \in Undone THEN "failed" ELSE futures[i]]
  BY DEF WorkerDies
<1>2. ProcessTypeOK
  BY DEF PoolShape
<1>3. futures' = [k \in DOMAIN futures |-> futures'[k]]
        /\ \A k \in DOMAIN futures : futures'[k] = IF k \in Undone THEN "failed" ELSE futures[k]
  BY <1>1
<1>4. futures' \in Seq(FutureStates) /\ Len(futures') = Len(futures) /\ DOMAIN futures' = DOMAIN futures
  <2>1. \A k \in DOMAIN futures : futures[k] \in FutureStates
    BY <1>2 DEF ProcessTypeOK
  <2>2. \A k \in DOMAIN futures : futures'[k] \in FutureStates
    BY <1>3, <2>1 DEF FutureStates
  <2>3. QED BY <1>2, <1>3, <2>2, Remade
<1>5. ProcessTypeOK'
  BY <1>1, <1>2, <1>4 DEF ProcessTypeOK
<1>6. Busy' = {}
  BY <1>1 DEF Busy, Live
<1>7. \A k \in DOMAIN futures' : futures'[k] \notin {"pending", "running"}
  BY <1>3, <1>4 DEF Undone
<1>8. Undone' = {}
  BY <1>7 DEF Undone
<1>9. Matched'
  BY <1>1, <1>6, <1>7 DEF Matched
<1>10. FailuresExplained' /\ Stands
  BY <1>1, <1>3, <1>4 DEF FailuresExplained, Stands, Undone
<1>11. QED BY <1>1, <1>4, <1>5, <1>6, <1>8, <1>9, <1>10 DEF PoolShape, Quiet

LEMMA ShapeWorker ==
  ASSUME PoolShape, WorkerMoves
  PROVE  PoolShape' /\ Len(futures') = Len(futures) /\ Stands /\ UNCHANGED executor
           /\ (Quiet => Quiet') /\ (broken => broken')
<1>1. Quiet => Pending = {} /\ Busy = {}
  BY DEF Quiet, Undone, Pending
<1>2. QED BY <1>1, ShapeTake, ShapeFinish, ShapeDies DEF WorkerMoves

LEMMA ShapeShutdown ==
  ASSUME PoolShape, NEW cancel \in BOOLEAN, BeginShutdown(cancel)
  PROVE  PoolShape' /\ Len(futures') = Len(futures) /\ Stands /\ executor' = "closing"
           /\ UNCHANGED broken /\ (Quiet => Quiet')
<1>1. PICK kept \in SUBSET Pending :
        futures' = [i \in DOMAIN futures |->
                      IF i \in Pending \ kept THEN "cancelled" ELSE futures[i]]
  BY DEF BeginShutdown
<1>2. UNCHANGED <<broken, status, job>> /\ executor' = "closing" /\ ProcessTypeOK
  BY DEF BeginShutdown, PoolShape
<1>3. futures' = [k \in DOMAIN futures |-> futures'[k]]
        /\ \A k \in DOMAIN futures :
              futures'[k] = IF k \in Pending \ kept THEN "cancelled" ELSE futures[k]
  BY <1>1
<1>4. futures' \in Seq(FutureStates) /\ Len(futures') = Len(futures) /\ DOMAIN futures' = DOMAIN futures
  <2>1. \A k \in DOMAIN futures : futures[k] \in FutureStates
    BY <1>2 DEF ProcessTypeOK
  <2>2. \A k \in DOMAIN futures : futures'[k] \in FutureStates
    BY <1>3, <2>1 DEF FutureStates
  <2>3. QED BY <1>2, <1>3, <2>2, Remade
<1>5. ProcessTypeOK'
  BY <1>2, <1>4 DEF ProcessTypeOK
<1>6. \A k \in DOMAIN futures : (futures'[k] = "running" <=> futures[k] = "running")
        /\ (futures'[k] = "finished" <=> futures[k] = "finished")
        /\ (futures'[k] = "failed" <=> futures[k] = "failed")
  BY <1>3 DEF Pending
<1>7. Matched'
  BY <1>2, <1>4, <1>6 DEF PoolShape, Matched, Busy
<1>8. Quiet => Quiet'
  BY <1>2, <1>3, <1>4 DEF Quiet, Undone, Busy
<1>9. QED BY <1>2, <1>4, <1>5, <1>6, <1>7, <1>8 DEF PoolShape, FailuresExplained, Stands

LEMMA ShapeClosed ==
  ASSUME PoolShape, EndShutdown(TRUE)
  PROVE  PoolShape' /\ UNCHANGED <<futures, broken>> /\ executor' = "closed" /\ Quiet'
<1>1. /\ Undone = {} /\ Busy = {} /\ executor' = "closed"
      /\ status' = [w \in Workers |-> IF status[w] = "idle" THEN "dead" ELSE status[w]]
      /\ UNCHANGED <<broken, job, futures>>
  BY DEF EndShutdown
<1>2. ProcessTypeOK'
  BY <1>1 DEF PoolShape, ProcessTypeOK
<1>3. Busy' = {} /\ Undone' = {}
  BY <1>1 DEF Busy, Undone
<1>4. Matched'
  BY <1>1, <1>3 DEF PoolShape, Matched
<1>5. QED BY <1>1, <1>2, <1>3, <1>4 DEF PoolShape, FailuresExplained, Quiet
=============================================================================
