------------------------------- MODULE Engine -------------------------------
(***************************************************************************)
(* engine.py: TEMMS.reconcile over ANY injected Runtime (the Protocol of   *)
(* runtime.py), where Temms.tla has it over the ONNX adapter.  A runtime   *)
(* may suspend in each of its four calls, so the reconciliation is cut at  *)
(* every await; it may raise at each; and it may break its contract, on    *)
(* some slots, in the ways listed in Faults.  The selection is arbitrary.  *)
(***************************************************************************)
EXTENDS ModelRefs, Sequences, SequencesExt

CONSTANTS
  Slots, Models, Reconciles,
  Cancellable,      \* the reconciliations somebody may cancel
  Faults            \* Faults[s]: how the runtime breaks its contract for slot s

AllFaults == {"misreports",      \* activate() returns another model than it published
              "misplaces",       \* activate() publishes another model than asked
              "forgets",         \* activate() returns and has published nothing
              "lingers",         \* a cancelled or failed activate() publishes later
              "stale state",     \* state() reports what it likes
              "other owner"}     \* somebody else changes the slot

ASSUME EngineAssumption ==
  /\ Nil \notin Models /\ Nil \notin Reconciles
  /\ Cancellable \subseteq Reconciles
  /\ Faults \in [Slots -> SUBSET AllFaults]

\* The slots for which it keeps the contract.
Honest == {s \in Slots : Faults[s] = {}}

VARIABLES
  actual,     \* actual[s]: the model the runtime really serves on s, or Nil
  job,        \* job[t]: what became of t's activate() inside the runtime
  holder, waiters,
  stage,      \* stage[t]: the await in which t is suspended
  slot, before, selected,
  report,     \* report[t]: the active_model activate() reported
  ending      \* ending[t]: how reconcile() came out

runtimeVars == <<actual, job>>
lockVars    == <<holder, waiters>>
vars == <<actual, job, holder, waiters, stage, slot, before, selected, report, ending>>

Stages == {"new", "queued", "models", "before", "activating", "after", "ended"}
Inside == {"models", "before", "activating", "after"}
Endings == {"none", "kept", "activated", "raised", "cancelled", "contract"}

TypeOK ==
  /\ actual \in [Slots -> Models \cup {Nil}]
  /\ job \in [Reconciles -> {"none", "pending", "published"}]
  /\ holder \in [Slots -> Reconciles \cup {Nil}]
  /\ waiters \in [Slots -> Seq(Reconciles)]
  /\ stage \in [Reconciles -> Stages]
  /\ slot \in [Reconciles -> Slots \cup {Nil}]
  /\ before \in [Reconciles -> Models \cup {Nil}]
  /\ selected \in [Reconciles -> Models \cup {Nil}]
  /\ report \in [Reconciles -> Models \cup {Nil}]
  /\ ending \in [Reconciles -> Endings]

Init ==
  /\ actual = [s \in Slots |-> Nil]
  /\ job = [t \in Reconciles |-> "none"]
  /\ holder = [s \in Slots |-> Nil]
  /\ waiters = [s \in Slots |-> <<>>]
  /\ stage = [t \in Reconciles |-> "new"]
  /\ slot = [t \in Reconciles |-> Nil]
  /\ before = [t \in Reconciles |-> Nil]
  /\ selected = [t \in Reconciles |-> Nil]
  /\ report = [t \in Reconciles |-> Nil]
  /\ ending = [t \in Reconciles |-> "none"]
-----------------------------------------------------------------------------
(* The slot's lock.                                                        *)

\* MUTANT: a lock that looks free to whoever finds nobody waiting.
LockFreeIgnoringHolder(s) == waiters[s] = <<>>

LockFree(s) == holder[s] = Nil /\ waiters[s] = <<>>

Await(t, await) == stage' = [stage EXCEPT ![t] = await]

CallAndEnter(t, s) ==
  /\ stage[t] = "new"
  /\ LockFree(s)
  /\ holder' = [holder EXCEPT ![s] = t]
  /\ slot' = [slot EXCEPT ![t] = s]
  /\ Await(t, "models")
  /\ UNCHANGED <<actual, job, waiters, before, selected, report, ending>>

CallAndWait(t, s) ==
  /\ stage[t] = "new"
  /\ ~LockFree(s)
  /\ waiters' = [waiters EXCEPT ![s] = Append(@, t)]
  /\ slot' = [slot EXCEPT ![t] = s]
  /\ Await(t, "queued")
  /\ UNCHANGED <<actual, job, holder, before, selected, report, ending>>

Enter(t) ==
  LET s == slot[t] IN
  /\ stage[t] = "queued"
  /\ holder[s] = Nil
  /\ waiters[s] # <<>> /\ Head(waiters[s]) = t
  /\ waiters' = [waiters EXCEPT ![s] = Tail(@)]
  /\ holder' = [holder EXCEPT ![s] = t]
  /\ Await(t, "models")
  /\ UNCHANGED <<actual, job, slot, before, selected, report, ending>>

\* MUTANT: the lock is released only where reconcile() returns a result.
LeaveOnResult(t, how) ==
  /\ Await(t, "ended")
  /\ ending' = [ending EXCEPT ![t] = how]
  /\ holder' = IF how \in {"kept", "activated"}
               THEN [holder EXCEPT ![slot[t]] = Nil] ELSE holder
  /\ UNCHANGED <<waiters, slot>>

\* Out of "async with", by whichever way.
Leave(t, how) ==
  /\ Await(t, "ended")
  /\ ending' = [ending EXCEPT ![t] = how]
  /\ holder' = [holder EXCEPT ![slot[t]] = Nil]
  /\ UNCHANGED <<waiters, slot>>
-----------------------------------------------------------------------------
(* The body of the transaction, from await to await.                       *)

\* What state() may report of slot s.
StateReports(s) ==
  IF "stale state" \in Faults[s] THEN Models \cup {Nil} ELSE {actual[s]}

ModelsReturn(t) ==
  /\ stage[t] = "models"
  /\ Await(t, "before")
  /\ UNCHANGED <<actual, job, holder, waiters, slot, before, selected, report, ending>>

\* MUTANT: nothing is compared with the active model.
KeepsOnNone(was, wanted) == wanted = Nil

Keeps(was, wanted) == wanted # Nil => SameModel(was, wanted)

\* state() returns, the selector decides: nothing to do, or activate().
BeforeReturns(t) ==
  /\ stage[t] = "before"
  /\ \E was \in StateReports(slot[t]), wanted \in Models \cup {Nil} :
       /\ before' = [before EXCEPT ![t] = was]
       /\ selected' = [selected EXCEPT ![t] = wanted]
       /\ \/ /\ Keeps(was, wanted)
             /\ Leave(t, "kept")
             /\ UNCHANGED job
          \/ /\ ~Keeps(was, wanted)
             /\ Await(t, "activating")
             /\ job' = [job EXCEPT ![t] = "pending"]
             /\ UNCHANGED <<holder, waiters, slot, ending>>
  /\ UNCHANGED <<actual, report>>

\* activate() returns, and its report is held against the selection.  An
\* honest report names the identity that was published; its metadata is the
\* runtime's own.
ActivateReturns(t) ==
  /\ stage[t] = "activating"
  /\ \/ job[t] = "published"
     \/ "forgets" \in Faults[slot[t]]
  /\ \E m \in IF "misreports" \in Faults[slot[t]] THEN Models ELSE {selected[t]} :
       /\ report' = [report EXCEPT ![t] = m]
       /\ IF SameModel(m, selected[t])
          THEN Await(t, "after") /\ UNCHANGED <<holder, waiters, slot, ending>>
          ELSE Leave(t, "contract")
  /\ UNCHANGED <<actual, job, before, selected>>

\* MUTANT: activate()'s report is enough.
AfterReturnsUnchecked(t) ==
  /\ stage[t] = "after"
  /\ Leave(t, "activated")
  /\ UNCHANGED <<actual, job, before, selected, report>>

\* The second state(), and its report against the selection.
AfterReturns(t) ==
  /\ stage[t] = "after"
  /\ \E m \in StateReports(slot[t]) :
       Leave(t, IF SameModel(m, selected[t]) THEN "activated" ELSE "contract")
  /\ UNCHANGED <<actual, job, before, selected, report>>

\* Any of the four calls, or the selector, raises.
Raise(t) ==
  /\ stage[t] \in Inside
  /\ Leave(t, "raised")
  /\ UNCHANGED <<actual, job, before, selected, report>>

\* Cancelled in one of the runtime's calls.
CancelInside(t) ==
  /\ t \in Cancellable
  /\ stage[t] \in Inside
  /\ Leave(t, "cancelled")
  /\ UNCHANGED <<actual, job, before, selected, report>>

\* Cancelled in lock.acquire().
CancelQueued(t) ==
  /\ t \in Cancellable
  /\ stage[t] = "queued"
  /\ \E i \in DOMAIN waiters[slot[t]] :
       /\ waiters[slot[t]][i] = t
       /\ waiters' = [waiters EXCEPT ![slot[t]] = RemoveAt(@, i)]
  /\ Await(t, "ended")
  /\ ending' = [ending EXCEPT ![t] = "cancelled"]
  /\ UNCHANGED <<actual, job, holder, slot, before, selected, report>>
-----------------------------------------------------------------------------
(* The runtime.                                                            *)

\* An activate() that somebody awaits makes its model active at one moment;
\* after its caller is gone only a faulty one does.
Publish(t) ==
  /\ job[t] = "pending"
  /\ stage[t] = "activating" \/ "lingers" \in Faults[slot[t]]
  /\ \E m \in Models :
       /\ "misplaces" \in Faults[slot[t]] \/ SameModel(m, selected[t])
       /\ actual' = [actual EXCEPT ![slot[t]] = m]
  /\ job' = [job EXCEPT ![t] = "published"]
  /\ UNCHANGED <<holder, waiters, stage, slot, before, selected, report, ending>>

Intrude(s) ==
  /\ "other owner" \in Faults[s]
  /\ \E m \in Models : actual' = [actual EXCEPT ![s] = m]
  /\ UNCHANGED <<job, holder, waiters, stage, slot, before, selected, report, ending>>

Next ==
  \/ \E t \in Reconciles :
       \/ \E s \in Slots : CallAndEnter(t, s) \/ CallAndWait(t, s)
       \/ Enter(t)
       \/ ModelsReturn(t)
       \/ BeforeReturns(t)
       \/ ActivateReturns(t)
       \/ AfterReturns(t)
       \/ Raise(t)
       \/ CancelInside(t)
       \/ CancelQueued(t)
       \/ Publish(t)
  \/ \E s \in Slots : Intrude(s)

Spec == Init /\ [][Next]_vars

\* Every call of the runtime returns or raises, and whoever gets the lock runs.
Resume(t) ==
  \/ Enter(t)
  \/ ModelsReturn(t)
  \/ BeforeReturns(t)
  \/ ActivateReturns(t)
  \/ AfterReturns(t)
  \/ Raise(t)

FairSpec == Spec /\ \A t \in Reconciles : WF_vars(Resume(t))
-----------------------------------------------------------------------------
(* Properties.                                                             *)

\* Whatever the runtime does, the lock of a slot is held exactly while one
\* reconciliation of that slot is between entering and leaving "async with".
LockSpansTransaction ==
  /\ \A t \in Reconciles : stage[t] \in Inside => holder[slot[t]] = t
  /\ \A s \in Slots : holder[s] # Nil =>
       stage[holder[s]] \in Inside /\ slot[holder[s]] = s

\* reconcile() reports success only for a selection that the runtime says it
\* activated and, as long as state() tells the truth, that the slot really has
\* at that moment, whatever else the runtime does wrong and whoever interferes.
SuccessIsTrue ==
  [][\A t \in Reconciles :
       stage[t] # "ended" /\ ending'[t] = "activated" =>
         /\ SameModel(report[t], selected[t])
         /\ "stale state" \notin Faults[slot[t]] => SameModel(actual[slot[t]], selected[t])]_vars

\* A runtime is never accused of breaking its contract for a slot where it keeps
\* it, however reconciliations, failures and cancellations interleave and whatever
\* happens to the other slots.
NoFalseAlarm == \A t \in Reconciles : ending[t] = "contract" => slot[t] \notin Honest

\* A cancellation or an exception that arrives after the publication does not
\* take it back, and one that arrives before it leaves the slot as it was read:
\* a pending activation decided on the very model the slot still has.
DecisionStaysFresh ==
  \A t \in Reconciles : stage[t] = "activating" /\ slot[t] \in Honest =>
      IF job[t] = "pending" THEN actual[slot[t]] = before[t]
                            ELSE SameModel(actual[slot[t]], selected[t])

\* However the runtime errs, as long as its calls return or raise, every
\* reconciliation ends and the slot is free for the next one.
ReconcileEnds == \A t \in Reconciles : stage[t] # "new" ~> stage[t] = "ended"

\* A transaction of SlotService is open from the decision to the publication,
\* or to the end of a reconciliation that did not come to one.
Opener(s) ==
  LET t == holder[s] IN
  IF t # Nil /\ stage[t] = "activating" /\ job[t] = "pending" THEN t ELSE Nil

Transaction(s) ==
  LET by == Opener(s) IN
  [by       |-> by,
   before   |-> IF by = Nil THEN Nil ELSE before[by],
   selected |-> IF by = Nil THEN Nil ELSE selected[by]]

Service == INSTANCE SlotService WITH
  Slots    <- Honest,
  Requests <- {},
  current  <- [s \in Honest |-> actual[s]],
  open     <- [s \in Honest |-> Transaction(s)],
  pinned   <- [r \in {} |-> Nil],
  answer   <- [r \in {} |-> Nil]

\* Where the runtime keeps its contract TEMMS implements SlotService, whatever it
\* does to the other slots: nothing of this depends on the ONNX adapter.
ImplementsSlotService == Service!Spec
=============================================================================
