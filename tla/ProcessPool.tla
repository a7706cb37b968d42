---------------------------- MODULE ProcessPool -----------------------------
(***************************************************************************)
(* concurrent.futures.ProcessPoolExecutor, as far as the code uses it: a   *)
(* task that is submitted gets a future; worker processes are started by   *)
(* the submits, take the tasks in order, finish them in any order and may  *)
(* die; a worker that dies breaks the pool, which fails every task not yet *)
(* done and terminates the other workers; a shutdown waits for the tasks   *)
(* it does not cancel.                                                     *)
(*                                                                         *)
(* A task is its position among the tasks submitted.  The module holds the *)
(* steps; who submits what, and what a task computes, is its user's.       *)
(***************************************************************************)
EXTENDS Integers, Sequences, FiniteSets

CONSTANTS Workers      \* the worker processes the pool may start: max_workers

ASSUME WorkersAssumption == IsFiniteSet(Workers) /\ Workers # {}

VARIABLES
  executor,      \* "none" (not constructed), "open", "closing" (in shutdown), "closed"
  broken,        \* the pool has lost a worker
  status,        \* of each worker: "unborn", "idle", "busy", "dead"
  job,           \* the task a busy worker runs; 0 for the others
  futures        \* "pending", "running", "finished", "failed", "cancelled"

processVars == <<executor, broken, status, job, futures>>

FutureStates == {"pending", "running", "finished", "failed", "cancelled"}

ProcessInit ==
  /\ executor = "none" /\ broken = FALSE
  /\ status = [w \in Workers |-> "unborn"] /\ job = [w \in Workers |-> 0]
  /\ futures = <<>>

Unborn == {w \in Workers : status[w] = "unborn"}
Live == {w \in Workers : status[w] \in {"idle", "busy"}}
Busy == {w \in Workers : status[w] = "busy"}
Pending == {i \in DOMAIN futures : futures[i] = "pending"}
Undone == {i \in DOMAIN futures : futures[i] \in {"pending", "running"}}

Construct ==
  /\ executor = "none" /\ executor' = "open"
  /\ UNCHANGED <<broken, status, job, futures>>

-----------------------------------------------------------------------------
(* submit *)

\* The submit starts the workers of `born'; the first submit starts at least
\* one.
Submit ==
  /\ executor = "open" /\ ~broken
  /\ futures' = Append(futures, "pending")
  /\ \E born \in SUBSET Unborn :
       /\ Live = {} => born # {}
       /\ status' = [w \in Workers |-> IF w \in born THEN "idle" ELSE status[w]]
  /\ UNCHANGED <<executor, broken, job>>

\* It raises OSError, since no process can be started.  The task has entered
\* the pool, its future is lost.
SubmitWithoutProcess ==
  /\ executor = "open" /\ ~broken /\ Unborn # {}
  /\ futures' = Append(futures, "pending")
  /\ UNCHANGED <<executor, broken, status, job>>

\* It raises BrokenProcessPool.
SubmitWhenBroken ==
  /\ executor = "open" /\ broken
  /\ UNCHANGED processVars

-----------------------------------------------------------------------------
(* The worker processes *)

TakeTask(w) ==
  /\ status[w] = "idle"
  /\ \E i \in Pending :
       /\ \A j \in Pending : i <= j
       /\ job' = [job EXCEPT ![w] = i]
       /\ futures' = [futures EXCEPT ![i] = "running"]
  /\ status' = [status EXCEPT ![w] = "busy"]
  /\ UNCHANGED <<executor, broken>>

FinishTask(w) ==
  /\ status[w] = "busy"
  /\ futures' = [futures EXCEPT ![job[w]] = "finished"]
  /\ status' = [status EXCEPT ![w] = "idle"]
  /\ job' = [job EXCEPT ![w] = 0]
  /\ UNCHANGED <<executor, broken>>

\* Every task not yet done fails, and the pool takes no more.
WorkerDies(w) ==
  /\ w \in Live
  /\ broken' = TRUE
  /\ status' = [v \in Workers |-> IF v \in Live THEN "dead" ELSE status[v]]
  /\ job' = [v \in Workers |-> 0]
  /\ futures' = [i \in DOMAIN futures |-> IF i \in Undone THEN "failed" ELSE futures[i]]
  /\ UNCHANGED executor

-----------------------------------------------------------------------------
(* shutdown(wait, cancel_futures=cancel) *)

\* The pool keeps at most this many tasks in the hands of its workers.
CallQueueSize == Cardinality(Workers) + 1

\* The pending tasks that a shutdown lets run: without cancellation all of
\* them, with it a first few, which the pool has already handed out.  A pool
\* that never had a worker runs none.
MayKeep(cancel, kept) ==
  /\ kept \subseteq Pending
  /\ Live = {} => kept = {}
  /\ Live # {} /\ ~cancel => kept = Pending
  /\ cancel => /\ Cardinality(kept) <= CallQueueSize
               /\ \A i \in kept, j \in Pending : j <= i => j \in kept

BeginShutdown(cancel) ==
  /\ executor = "open"
  /\ executor' = "closing"
  /\ \E kept \in SUBSET Pending :
       /\ MayKeep(cancel, kept)
       /\ futures' = [i \in DOMAIN futures |->
                        IF i \in Pending \ kept THEN "cancelled" ELSE futures[i]]
  /\ UNCHANGED <<broken, status, job>>

\* With wait, it returns when every task is done and every worker has ended;
\* without, busy workers go on.
EndShutdown(wait) ==
  /\ executor = "closing"
  /\ wait => Undone = {} /\ Busy = {}
  /\ executor' = "closed"
  /\ status' = [w \in Workers |-> IF status[w] = "idle" THEN "dead" ELSE status[w]]
  /\ UNCHANGED <<broken, job, futures>>

-----------------------------------------------------------------------------
ProcessTypeOK ==
  /\ executor \in {"none", "open", "closing", "closed"}
  /\ broken \in BOOLEAN
  /\ status \in [Workers -> {"unborn", "idle", "busy", "dead"}]
  /\ job \in [Workers -> Nat]
  /\ futures \in Seq(FutureStates)
=============================================================================
