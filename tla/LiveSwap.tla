------------------------------ MODULE LiveSwap ------------------------------
(***************************************************************************)
(* examples/live_swap/compare.py: compare() runs one worker process for    *)
(* each strategy and repetition, which evaluates the strategy on the       *)
(* scenario of run.py, and it stops at the first that fails.  A worker's   *)
(* main coroutine serves the requests of a phase one by one; each phase    *)
(* starts with a reconciliation, which "adaptive-background" runs in a     *)
(* task of its own beside the requests.  In the phase with the injected    *)
(* fault the large model's file is renamed away, and it comes back on      *)
(* every way out of the phase.                                             *)
(*                                                                         *)
(* models(), state() and select() do not suspend, so the coroutine gives   *)
(* way only where Suspended says; the task publishes only there.           *)
(* Latencies, predictions and the wording of records are left out.         *)
(***************************************************************************)
EXTENDS Scenario, SequencesExt

CONSTANTS
  Strategies,   \* the strategies, in the order of the first repetition
  Repetitions,  \* runs of each strategy
  Files         \* requests in each phase

ASSUME FilesAssumption == Files \in Nat \ {0} /\ Repetitions \in Nat \ {0}
ASSUME StrategiesAssumption == Strategies \in Seq(ToSet(Strategies)) /\ Strategies # <<>>

Policies(strategy) ==
  CASE strategy = "fixed-small" -> << Policy(small) >>
    [] strategy = "fixed-large" -> << Policy(large) >>
    [] OTHER -> << Policy(small), Policy(large) >>

VARIABLES
  strategy,    \* the worker's strategy
  account,     \* what the worker's records say so far, and its sessions
  ended,       \* how the worker ended, or "no"
  summaries,   \* compare's summaries, one for each worker that succeeded
  phase,       \* index in Phases
  pc,          \* where the main coroutine is
  item,        \* requests of the phase already emitted
  preview,     \* the decision previewed at the start of the phase
  pending,     \* evaluate_phase's variable: it holds the background task
  activation,  \* evaluate_phase's variable: a record not yet emitted, or Nil
  task,        \* the reconciliation of the phase, in the coroutine or in a task
  loader,      \* the executor thread of its load
  captured,    \* the model of the request being served, or Nil
  inferring,   \* an executor thread runs an inference
  active,      \* the slot's model
  hidden,      \* the large model's file is renamed away
  tmp,         \* the temporary directory exists
  emitted      \* the records of this phase

run == <<strategy, account, ended, summaries>>

vars == <<strategy, account, ended, summaries, phase, pc, item, preview, pending,
          activation, task, loader, captured, inferring, active, hidden, tmp, emitted>>

Suspended == {"begin", "reconciling", "wait", "inferring", "drain", "cleanup"}
NoAccount == [served |-> 0, abstained |-> 0, published |-> 0, loads |-> 0, trouble |-> FALSE]
NoTask == [state |-> "none", phase |-> 0, selected |-> Nil, record |-> Nil]

Battery == Phases[phase].battery
Fault   == Phases[phase].fault
Background == strategy = "adaptive-background"

\* The two kinds of records of a trace.
ActivationRecord ==
  [event : {"activation"}, outcome : {"unchanged", "published", "failed"},
   unexpected : BOOLEAN, selected : Refs, active : Refs]
RequestRecord ==
  [event : {"request"}, item : 0..Files, outcome : {"ok", "abstained", "error"},
   serving : Refs, active : Refs]

ASSUME NilIsNoRecord == Nil \notin ActivationRecord

TypeOK ==
  /\ strategy \in ToSet(Strategies)
  /\ account \in [served : Nat, abstained : Nat, published : Nat, loads : Nat,
                  trouble : BOOLEAN]
  /\ ended \in {"no", "interrupted", "failed", "ok"}
  /\ Len(summaries) <= Repetitions * Len(Strategies)
  /\ phase \in DOMAIN Phases
  /\ pc \in Suspended \cup {"serve", "leave", "joining", "closed", "written"}
  /\ item \in 0..Files
  /\ pending \in BOOLEAN /\ inferring \in BOOLEAN /\ hidden \in BOOLEAN /\ tmp \in BOOLEAN
  /\ task.state \in {"none", "awaiting", "done", "cancelled"}
  /\ loader \in {"idle", "queued", "running", "ok", "failed", "unavailable"}
  /\ {captured, active, task.selected} \subseteq Refs
  /\ emitted \in Seq(ActivationRecord \cup RequestRecord)

\* The strategy of the n-th worker: each repetition starts one further.
Turn(n) == Strategies[((n \div Len(Strategies) + n) % Len(Strategies)) + 1]

Init ==
  /\ strategy = Turn(0)
  /\ account = NoAccount /\ ended = "no" /\ summaries = <<>>
  /\ phase = 1 /\ pc = "begin" /\ item = 0
  /\ preview = Nil /\ pending = FALSE /\ activation = Nil
  /\ task = NoTask /\ loader = "idle"
  /\ captured = Nil /\ inferring = FALSE /\ active = Nil
  /\ hidden = Fault /\ tmp = TRUE
  /\ emitted = <<>>
-----------------------------------------------------------------------------
(* The reconciliation of a phase.                                          *)

\* select(runtime, selector, battery)
SelectFor(battery) == Preview(Policies(strategy), active, battery)

Activation(outcome, unexpected, selected, now) ==
  [event |-> "activation", outcome |-> outcome, unexpected |-> unexpected,
   selected |-> selected, active |-> now]

\* reconcile() up to its first suspension: it returns, or a load is dispatched.
Reconcile(decision) ==
  LET selected == decision.selected IN
  IF selected = Nil \/ SameModel(active, selected)
  THEN /\ task' = [state |-> "done", phase |-> phase, selected |-> selected,
                   record |-> Activation("unchanged", FALSE, selected, active)]
       /\ UNCHANGED loader
  ELSE /\ task' = [state |-> "awaiting", phase |-> phase, selected |-> selected,
                   record |-> Nil]
       /\ loader' = "queued"

\* _load() looks for the file, then constructs and warms a session.
LoaderStarts ==
  /\ loader = "queued"
  /\ loader' = IF task.selected = large /\ hidden THEN "unavailable" ELSE "running"
  /\ UNCHANGED <<run, phase, pc, item, preview, pending, activation, task,
                 captured, inferring, active, hidden, tmp, emitted>>

LoaderEnds(outcome) ==
  /\ loader = "running"
  /\ loader' = IF task.state = "awaiting" THEN outcome ELSE "idle"
  /\ account' = [account EXCEPT !.loads = IF outcome = "ok" THEN @ + 1 ELSE @]
  /\ UNCHANGED <<strategy, ended, summaries, phase, pc, item, preview, pending,
                 activation, task, captured, inferring, active, hidden, tmp, emitted>>

\* The load's result reaches reconcile(), which publishes and makes its record.
TaskResumes ==
  LET ok  == loader = "ok"
      now == IF ok THEN task.selected ELSE active
  IN
  /\ pc \in Suspended
  /\ task.state = "awaiting"
  /\ loader \in {"ok", "failed", "unavailable"}
  /\ active' = now
  /\ task' = [task EXCEPT !.state = "done",
                !.record = Activation(IF ok THEN "published" ELSE "failed",
                             ~ok /\ ~(Fault /\ loader = "unavailable"),
                             task.selected, now)]
  /\ loader' = "idle"
  /\ UNCHANGED <<run, phase, pc, item, preview, pending, activation,
                 captured, inferring, hidden, tmp, emitted>>
-----------------------------------------------------------------------------
(* The main coroutine: evaluate, evaluate_phase, begin_phase and serve.    *)

\* MUTANT: a background load is never waited for before serving.
BeginEager ==
  /\ pc = "begin"
  /\ preview' = SelectFor(Battery)
  /\ Reconcile(SelectFor(Battery))
  /\ pending' = (Background)
  /\ activation' = IF Background THEN Nil ELSE task'.record
  /\ pc' = IF Background \/ task'.state = "done" THEN "serve" ELSE "reconciling"
  /\ UNCHANGED <<run, phase, item, captured, inferring, active, hidden, tmp, emitted>>

\* The first request of a phase arrives: begin_phase previews and reconciles,
\* and waits for the reconciliation unless it runs in the background and the
\* active model may serve meanwhile, or nothing may.  The code selects up to
\* three times (begin_phase's preview, reconcile()'s and TEMMS's own); until the load
\* is dispatched no other task or thread can change anything, so they are one here.
Begin ==
  LET decision == SelectFor(Battery)
      waits == IF Background
               THEN ~Feasible(active, decision) /\ decision.selected # Nil
               ELSE task'.state = "awaiting"
  IN
  /\ pc = "begin"
  /\ preview' = decision
  /\ Reconcile(decision)
  /\ pending' = (Background /\ ~waits)
  /\ activation' = IF Background THEN Nil ELSE task'.record
  /\ pc' = IF waits THEN "reconciling" ELSE "serve"
  /\ UNCHANGED <<run, phase, item, captured, inferring, active, hidden, tmp, emitted>>

Reconciled ==
  /\ pc = "reconciling"
  /\ task.state = "done"
  /\ activation' = task.record
  /\ pc' = "serve"
  /\ UNCHANGED <<run, phase, item, preview, pending, task, loader, captured,
                 inferring, active, hidden, tmp, emitted>>

\* The scheduled arrival of the next request.
Arrive ==
  /\ pc = "wait"
  /\ pc' = "serve"
  /\ UNCHANGED <<run, phase, item, preview, pending, activation, task, loader,
                 captured, inferring, active, hidden, tmp, emitted>>

\* The end of one turn of evaluate_phase's loop.
Emit(outcome, model, was) ==
  LET finished == pending /\ task.state = "done"
      record == IF finished THEN task.record ELSE activation
  IN
  /\ emitted' = emitted
       \o (IF record = Nil THEN <<>> ELSE <<record>>)
       \o << [event |-> "request", item |-> item, outcome |-> outcome,
              serving |-> model, active |-> was] >>
  /\ pending' = (pending /\ ~finished)
  /\ activation' = Nil
  /\ item' = item + 1
  /\ pc' = IF item + 1 < Files THEN "wait" ELSE "drain"
  /\ UNCHANGED <<run, phase, preview, task, loader, active, hidden, tmp>>

Abstain ==
  /\ pc = "serve"
  /\ ~Feasible(active, preview)
  /\ Emit("abstained", Nil, active)
  /\ UNCHANGED <<captured, inferring>>

\* preprocess() raises: the request fails, the trace goes on.
BadInput ==
  /\ pc = "serve"
  /\ Feasible(active, preview)
  /\ Emit("error", Nil, active)
  /\ UNCHANGED <<captured, inferring>>

\* MUTANT: a request is admitted as soon as something is feasible.
AdmitIfSomethingIsFeasible ==
  /\ pc = "serve"
  /\ active # Nil /\ preview.selected # Nil
  /\ captured' = active
  /\ inferring' = TRUE
  /\ pc' = "inferring"
  /\ UNCHANGED <<run, phase, item, preview, pending, activation, task, loader,
                 active, hidden, tmp, emitted>>

Admit ==
  /\ pc = "serve"
  /\ Feasible(active, preview)
  /\ captured' = active
  /\ inferring' = TRUE
  /\ pc' = "inferring"
  /\ UNCHANGED <<run, phase, item, preview, pending, activation, task, loader,
                 active, hidden, tmp, emitted>>

InferReturns(outcome) ==
  /\ pc = "inferring"
  /\ Emit(outcome, IF outcome = "ok" THEN captured ELSE Nil, captured)
  /\ inferring' = FALSE
  /\ captured' = Nil

\* MUTANT: the phase ends with its replacement still loading.
DrainWithoutWaiting ==
  /\ pc = "drain"
  /\ emitted' = IF pending /\ task.record # Nil THEN Append(emitted, task.record) ELSE emitted
  /\ pending' = FALSE
  /\ pc' = "leave"
  /\ UNCHANGED <<run, phase, item, preview, activation, task, loader, captured,
                 inferring, active, hidden, tmp>>

\* After the last request: await what is still pending.
Drain ==
  /\ pc = "drain"
  /\ pending => task.state = "done"
  /\ emitted' = IF pending THEN Append(emitted, task.record) ELSE emitted
  /\ pending' = FALSE
  /\ pc' = "leave"
  /\ UNCHANGED <<run, phase, item, preview, activation, task, loader, captured,
                 inferring, active, hidden, tmp>>

\* The records of the phase, as summarize() counts them.
With(outcome) == Cardinality({i \in DOMAIN emitted : emitted[i].outcome = outcome})

Accounted ==
  [account EXCEPT
     !.served = @ + With("ok"), !.abstained = @ + With("abstained"),
     !.published = @ + With("published"),
     !.trouble = @ \/ \E i \in DOMAIN emitted :
                        IF emitted[i].event = "request" THEN emitted[i].outcome = "error"
                                                        ELSE emitted[i].unexpected]

\* evaluate's "finally", and the next phase's fault.
EndPhase ==
  /\ pc = "leave"
  /\ phase < Len(Phases)
  /\ phase' = phase + 1
  /\ hidden' = Phases[phase + 1].fault
  /\ pc' = "begin"
  /\ item' = 0
  /\ emitted' = <<>>
  /\ account' = Accounted
  /\ UNCHANGED <<strategy, ended, summaries, preview, pending, activation, task, loader,
                 captured, inferring, active, tmp>>

Finish ==
  /\ pc = "leave"
  /\ phase = Len(Phases)
  /\ hidden' = FALSE
  /\ pc' = "joining"
  /\ account' = Accounted
  /\ UNCHANGED <<strategy, ended, summaries, phase, item, preview, pending, activation,
                 task, loader, captured, inferring, active, tmp, emitted>>
-----------------------------------------------------------------------------
(* Leaving early, and leaving.                                             *)

\* KeyboardInterrupt, or a record that cannot be written: the reconciliation
\* is cancelled, a load still queued is withdrawn unless a thread takes it first.
Interrupt ==
  /\ pc \in Suspended \ {"cleanup"}
  /\ pc' = "cleanup"
  /\ task' = IF task.state = "awaiting" THEN [task EXCEPT !.state = "cancelled"] ELSE task
  /\ \/ loader \in {"queued", "running"} /\ loader' = "running"
     \/ loader # "running" /\ loader' = "idle"
  /\ UNCHANGED <<run, phase, item, preview, pending, activation, captured,
                 inferring, active, hidden, tmp, emitted>>

\* The pending task is gathered, the file restored, the exception goes on.  A second
\* interrupt only ends the waiting for the task, on which nothing here depends.
Cleanup ==
  /\ pc = "cleanup"
  /\ hidden' = FALSE
  /\ pc' = "joining"
  /\ ended' = "interrupted"
  /\ UNCHANGED <<strategy, account, summaries, phase, item, preview, pending, activation,
                 task, loader, captured, inferring, active, tmp, emitted>>

\* An inference nobody waits for any more.
OrphanEnds ==
  /\ pc \in {"cleanup", "joining"}
  /\ inferring
  /\ inferring' = FALSE
  /\ UNCHANGED <<run, phase, pc, item, preview, pending, activation, task, loader,
                 captured, active, hidden, tmp, emitted>>

\* MUTANT: a worker fails for the errors of its requests only.
CloseForgivingLoads ==
  /\ pc = "joining"
  /\ loader \notin {"queued", "running"} /\ ~inferring
  /\ tmp' = FALSE
  /\ ended' = IF ended = "no" THEN "ok" ELSE ended
  /\ pc' = "closed"
  /\ UNCHANGED <<strategy, account, summaries, phase, item, preview, pending, activation,
                 task, loader, captured, inferring, active, hidden, emitted>>

\* worker(): the executor is shut down, then the directory removed; errors in the
\* records make a worker that was not interrupted fail.
Close ==
  /\ pc = "joining"
  /\ loader \notin {"queued", "running"} /\ ~inferring
  /\ tmp' = FALSE
  /\ ended' = IF ended = "interrupted" THEN ended
              ELSE IF account.trouble THEN "failed" ELSE "ok"
  /\ pc' = "closed"
  /\ UNCHANGED <<strategy, account, summaries, phase, item, preview, pending, activation,
                 task, loader, captured, inferring, active, hidden, emitted>>

\* compare(): a worker that succeeded is summarised and the next one starts, or
\* all summaries are written.
Collect ==
  /\ pc = "closed"
  /\ ended = "ok"
  /\ summaries' = Append(summaries, [strategy |-> strategy, account |-> account])
  /\ IF Len(summaries') = Repetitions * Len(Strategies)
     THEN /\ pc' = "written"
          /\ UNCHANGED <<strategy, account, ended, phase, item, preview, pending, activation,
                         task, loader, captured, inferring, active, hidden, tmp, emitted>>
     ELSE /\ strategy' = Turn(Len(summaries'))
          /\ account' = NoAccount /\ ended' = "no"
          /\ phase' = 1 /\ pc' = "begin" /\ item' = 0
          /\ preview' = Nil /\ pending' = FALSE /\ activation' = Nil
          /\ task' = NoTask /\ loader' = "idle"
          /\ captured' = Nil /\ inferring' = FALSE /\ active' = Nil
          /\ hidden' = Phases[1].fault /\ tmp' = TRUE
          /\ emitted' = <<>>

Main ==
  \/ Begin \/ Reconciled \/ Arrive \/ Abstain \/ BadInput \/ Admit
  \/ \E outcome \in {"ok", "error"} : InferReturns(outcome)
  \/ Drain \/ EndPhase \/ Finish \/ Cleanup \/ Close

Threads ==
  \/ LoaderStarts
  \/ \E outcome \in {"ok", "failed"} : LoaderEnds(outcome)
  \/ OrphanEnds

Next == Main \/ Threads \/ TaskResumes \/ Interrupt \/ Collect

Spec == Init /\ [][Next]_vars

-----------------------------------------------------------------------------
(* Properties.                                                             *)

Records(event) == {emitted[i] : i \in {j \in DOMAIN emitted : emitted[j].event = event}}

\* "no infeasible serving" (PROTOCOL's acceptance, compare.py 52): a request is
\* answered by the model active when it arrived, and the battery of its phase
\* allows that model, though a replacement may be published under it.
FeasibleServing ==
  \A r \in Records("request") : r.outcome = "ok" => MinimumBattery(r.serving) <= Battery

\* "serve feasible active model while replacement loads; otherwise wait"
\* (compare.py 40-43): a request is turned away only when no model is feasible
\* or the phase's activation has failed.
NoNeedlessAbstention ==
  \A r \in Records("request") : r.outcome = "abstained" =>
    \/ preview.selected = Nil
    \/ task.state = "done" /\ task.record.outcome = "failed"

\* "Drain before changing context or restoring the private fault artifact"
\* (compare.py 286): no reconciliation outlives its phase, and the large model's
\* file is away exactly in the phase that says so, whichever way it ends.
FaultStaysInPhase ==
  /\ task.state = "awaiting" => task.phase = phase
  /\ hidden = (Fault /\ pc \notin {"joining", "closed", "written"})

\* A phase that is not interrupted emits one record for each request, in order
\* of arrival, and one for its reconciliation somewhere among them.
TraceIsComplete ==
  pc = "leave" =>
    /\ Len(emitted) = Files + 1
    /\ \E k \in 1..(Files + 1) :
         /\ emitted[k].event = "activation"
         /\ \A i \in (1..(Files + 1)) \ {k} :
              /\ emitted[i].event = "request"
              /\ emitted[i].item = IF i < k THEN i - 1 ELSE i - 2

\* An executor thread never reads from a directory that is gone (the order of
\* worker()'s "with" statements, compare.py 361-408).
FilesOutliveWorkers == loader \in {"queued", "running"} \/ inferring => tmp

\* What a phase leaves behind, whichever way it ends: nothing of it in the next
\* phase, nothing of it missing in the trace, no reader of a removed file.
PhaseInv == TypeOK /\ FaultStaysInPhase /\ TraceIsComplete /\ FilesOutliveWorkers

\* What a stage adds for a strategy that finishes its replacement before the
\* stage's first request: the model then active, and the counts so far.
AfterStage(s, sum, st) ==
  LET decision == Preview(Policies(s), sum.active, st.battery)
      publishes == /\ decision.selected # Nil
                   /\ ~SameModel(sum.active, decision.selected)
                   /\ ~(st.fault /\ decision.selected = large)
      now == IF publishes THEN decision.selected ELSE sum.active
  IN [active    |-> now,
      published |-> sum.published + (IF publishes THEN 1 ELSE 0),
      served    |-> sum.served + (IF Feasible(now, decision) THEN Files ELSE 0)]

Undisturbed(s) ==
  LET after[n \in 0..Len(Phases)] ==
        IF n = 0 THEN [active |-> Nil, published |-> 0, served |-> 0]
        ELSE AfterStage(s, after[n - 1], Phases[n])
  IN after

\* "Counts pool three runs" (compare.py 471): whatever the order of loads and
\* requests, each worker that compare() accepts answers, abstains and publishes as
\* often as the scenario alone determines, with a session for each model published
\* and for no other.  So these four numbers, pooled over repetitions, say nothing
\* about timing, and replacing in the background costs no answer; how many answers
\* are late, and with them how many are useful, does depend on it.
RepetitionsAgree ==
  ended = "ok" =>
    LET sum == Undisturbed(strategy)[Len(Phases)] IN
    account = [served |-> sum.served, abstained |-> Len(Phases) * Files - sum.served,
               published |-> sum.published, loads |-> sum.published, trouble |-> FALSE]

=============================================================================
