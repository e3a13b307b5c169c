-------------------------------- MODULE Churn --------------------------------
(***************************************************************************)
(* examples/live_swap/churn.py: measure() replaces a session at every step *)
(* and claims that only the active one is alive, by counting through weak  *)
(* references, and that none is once the owners are gone.                  *)
(*                                                                         *)
(* What keeps a session alive is a reference: the slot's (or the variable  *)
(* "direct"), a result on its way to the event loop, and whatever the      *)
(* executor's thread has not let go of yet.  A thread hands its result     *)
(* over before it drops its work item, so the loop runs ahead of it.       *)
(***************************************************************************)
EXTENDS Naturals, FiniteSets, Sequences

CONSTANT Steps      \* --steps

ASSUME ChurnAssumption == Steps \in Nat \ {0}

Strategies == {"fixed-small", "fixed-large", "swapping"}
Backends == {"temms", "direct"}

\* MUTANT: the executor has more than one thread, as asyncio's own has.
TwoWorkers == {1, 2}

Workers == {1}

None == 0     \* no session

VARIABLES
  plan,      \* the strategy and the backend of this process
  at,        \* where measure() and main() are
  step,
  models,    \* models[i]: the model session i was constructed for, in their order
  owner,     \* the session the slot, or "direct", has
  call,      \* the to_thread() call measure() awaits
  holds      \* holds[w]: the sessions worker w still refers to

vars == <<plan, at, step, models, owner, call, holds>>

Sessions == 0..Len(models)
Idle == [op |-> "none", state |-> "none", by |-> 0, result |-> None]

\* Refused: one of the program's own checks has raised.
Ends == {"refused", "failed", "done"}

TypeOK ==
  /\ plan \in [strategy : Strategies, backend : Backends]
  /\ at \in {"reconcile", "loading", "infer", "running", "barrier", "draining", "sample",
             "dropped"} \cup Ends
  /\ step \in 0..Steps /\ Len(models) <= Steps
  /\ owner \in Sessions
  /\ call.op \in {"none", "load", "run", "nothing"}
  /\ call.state \in {"none", "queued", "started", "ok", "failed"}
  /\ call.by \in Workers \cup {0} /\ call.result \in Sessions
  /\ \A w \in Workers : holds[w] \subseteq Sessions \ {None}

Init ==
  /\ plan \in [strategy : Strategies, backend : Backends]
  /\ at = "reconcile" /\ step = 0
  /\ models = <<>> /\ owner = None
  /\ call = Idle /\ holds = [w \in Workers |-> {}]
-----------------------------------------------------------------------------
\* Sessions somebody refers to: what the weak references still lead to.
Live == ({owner, call.result} \cup UNION {holds[w] : w \in Workers}) \ {None}

Model(s) ==
  CASE plan.strategy = "swapping"    -> s % 2
    [] plan.strategy = "fixed-small" -> 0
    [] plan.strategy = "fixed-large" -> 1

\* The direct control counts steps, TEMMS compares identities.
Replaces ==
  IF plan.backend = "direct" THEN step = 0 \/ plan.strategy = "swapping"
  ELSE IF owner = None THEN TRUE ELSE models[owner] # Model(step)

Await(op, then) ==
  /\ call' = [Idle EXCEPT !.op = op, !.state = "queued"]
  /\ at' = then
  /\ UNCHANGED <<plan, step, models, owner, holds>>

Reconcile ==
  /\ at = "reconcile"
  /\ IF Replaces THEN Await("load", "loading")
     ELSE at' = "infer" /\ UNCHANGED <<plan, step, models, owner, call, holds>>

Infer == at = "infer" /\ Await("run", "running")
Barrier == at = "barrier" /\ Await("nothing", "draining")

\* A thread that has let go of everything takes the call; the call of a session's
\* run() refers to the session.
Take(w) ==
  /\ call.state = "queued" /\ holds[w] = {}
  /\ call' = [call EXCEPT !.state = "started", !.by = w]
  /\ holds' = [holds EXCEPT ![w] = IF call.op = "run" THEN {owner} ELSE {}]
  /\ UNCHANGED <<plan, at, step, models, owner>>

\* A load comes back with a session, constructed and warmed up.
Loaded ==
  /\ call.state = "started" /\ call.op = "load"
  /\ models' = Append(models, Model(step))
  /\ call' = [call EXCEPT !.state = "ok", !.result = Len(models) + 1]
  /\ holds' = [holds EXCEPT ![call.by] = {Len(models) + 1}]
  /\ UNCHANGED <<plan, at, step, owner>>

Ran ==
  /\ call.state = "started" /\ call.op # "load"
  /\ call' = [call EXCEPT !.state = "ok"]
  /\ UNCHANGED <<plan, at, step, models, owner, holds>>

\* Construction, warm-up or inference raises.
Raises ==
  /\ call.state = "started" /\ call.op # "nothing"
  /\ call' = [call EXCEPT !.state = "failed"]
  /\ UNCHANGED <<plan, at, step, models, owner, holds>>

\* The thread drops its work item, some time after the result is out.
Release(w) ==
  /\ holds[w] # {} /\ (call.state = "started" => call.by # w)
  /\ holds' = [holds EXCEPT ![w] = {}]
  /\ UNCHANGED <<plan, at, step, models, owner, call>>

\* measure() goes on with the result; a new session takes the place of the old.
Resume ==
  /\ call.state = "ok"
  /\ owner' = IF call.op = "load" THEN call.result ELSE owner
  /\ at' = CASE at = "loading" -> "infer" [] at = "running" -> "barrier" [] at = "draining" -> "sample"
  /\ call' = Idle
  /\ UNCHANGED <<plan, step, models, holds>>

ResumeRaising ==
  /\ call.state = "failed"
  /\ at' = "failed" /\ call' = Idle
  /\ UNCHANGED <<plan, step, models, owner, holds>>

\* check_step() on a sample of this moment.
StepIsSound ==
  LET expected == IF plan.strategy = "swapping" THEN step + 1 ELSE 1 IN
  /\ models[owner] = Model(step)
  /\ Len(models) = expected /\ Live = {expected}

CheckStep ==
  /\ at = "sample"
  /\ IF ~StepIsSound THEN at' = "refused" /\ UNCHANGED <<step, owner>>
     ELSE IF step + 1 < Steps THEN at' = "reconcile" /\ step' = step + 1 /\ UNCHANGED owner
     ELSE at' = "dropped" /\ owner' = None /\ UNCHANGED step
  /\ UNCHANGED <<plan, models, call, holds>>

\* Runner and executor are closed, the thread is joined: the second check.
CheckDropped ==
  /\ at = "dropped" /\ \A w \in Workers : holds[w] = {}
  /\ at' = IF Live = {} THEN "done" ELSE "refused"
  /\ UNCHANGED <<plan, step, models, owner, call, holds>>

Next ==
  \/ Reconcile \/ Infer \/ Barrier \/ Loaded \/ Ran \/ Raises \/ Resume \/ ResumeRaising
  \/ CheckStep \/ CheckDropped
  \/ \E w \in Workers : Take(w) \/ Release(w)

Spec == Init /\ [][Next]_vars
-----------------------------------------------------------------------------
\* The program's claims about wrappers are about TEMMS and not about its own
\* bookkeeping: unless ONNX Runtime raises, no process of either backend fails its
\* checks, however far the executor's thread lags behind the loop
\* (churn.py 131-135, 194, 258-259).
SoundRunsAreNotRefused == at # "refused"

\* A replacement costs one session more, for as long as it lasts, never two.
OneSessionToSpare == Cardinality(Live) <= 2

ChurnInv == TypeOK /\ SoundRunsAreNotRefused /\ OneSessionToSpare
=============================================================================
