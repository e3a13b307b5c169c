----------------------------- MODULE ThreadPool -----------------------------
(***************************************************************************)
(* The event loop's default ThreadPoolExecutor, as onnx.py uses it through *)
(* asyncio.to_thread: a FIFO of work items served by at most MaxWorkers    *)
(* threads.  A work item is named by the call that awaits it.  The module  *)
(* is a library of steps; OnnxRuntime says when they are taken.            *)
(***************************************************************************)
EXTENDS Integers, SequencesExt, FiniteSets

CONSTANTS
  Calls,        \* the calls that may hand work to a thread, one item each
  MaxWorkers    \* the executor's max_workers

ASSUME MaxWorkersAssumption == MaxWorkers \in Nat \ {0}

VARIABLES
  queue,        \* work items no thread has taken yet, oldest first
  running,      \* items a thread is executing
  outcome       \* the future of an item: pending, ok or failed

poolVars == <<queue, running, outcome>>

PoolTypeOK ==
  /\ queue \in Seq(Calls)
  /\ running \in SUBSET Calls /\ Cardinality(running) <= MaxWorkers
  /\ outcome \in [Calls -> {"pending", "ok", "failed"}]

PoolInit ==
  /\ queue = <<>>
  /\ running = {}
  /\ outcome = [c \in Calls |-> "pending"]

Submit(c) ==
  /\ queue' = Append(queue, c)
  /\ UNCHANGED <<running, outcome>>

\* MUTANT: an executor of a single thread, whatever MaxWorkers says.
StartWorkAlone ==
  /\ queue # <<>>
  /\ running = {}
  /\ running' = {Head(queue)}
  /\ queue' = Tail(queue)
  /\ UNCHANGED outcome

\* A free thread takes the oldest item.
StartWork ==
  /\ queue # <<>>
  /\ Cardinality(running) < MaxWorkers
  /\ running' = running \cup {Head(queue)}
  /\ queue' = Tail(queue)
  /\ UNCHANGED outcome

\* The function of item c returns or raises.
FinishWork(c, o) ==
  /\ c \in running
  /\ running' = running \ {c}
  /\ outcome' = [outcome EXCEPT ![c] = o]
  /\ UNCHANGED queue

\* An item still queued is dropped: its future was cancelled in time.
Withdraw(c) ==
  /\ \E i \in DOMAIN queue :
       /\ queue[i] = c
       /\ queue' = RemoveAt(queue, i)
  /\ UNCHANGED <<running, outcome>>
=============================================================================
