------------------------------- MODULE Temms -------------------------------
(***************************************************************************)
(* engine.py: TEMMS.reconcile and TEMMS.infer over an OnnxRuntime, on one  *)
(* event loop.  Reconciliations of one slot take its asyncio.Lock in turn; *)
(* one that has to activate keeps the lock while a thread loads the model, *)
(* and may be cancelled while it waits for the lock or for the thread.     *)
(*                                                                         *)
(* With OnnxRuntime, models(), state() and select() run without suspending *)
(* once the lock is held, and so do the publication, the two checks of     *)
(* what became active and the release of the lock.  Each stretch is one    *)
(* action.  Direct calls of activate(), which the documentation forbids    *)
(* while TEMMS owns a slot, are the set Direct: empty except where a run   *)
(* asks what they would break.                                             *)
(***************************************************************************)
EXTENDS OnnxRuntime

CONSTANTS
  Reconciles,       \* calls of reconcile(); their activate() bears their name
  Direct,           \* calls of activate() that bypass TEMMS
  Cancellable,      \* the calls somebody may cancel
  Contexts,
  SelectedModel(_, _, _, _, _)
                    \* the injected Selector: selected_model of its decision for
                    \* a slot, its models, current, resources and context

ASSUME ReconcilesAssumption ==
  /\ Activations = Reconciles \cup Direct
  /\ Reconciles \cap Direct = {}
  /\ Cancellable \subseteq Calls

\* A selector returns a model or None; nothing makes it return one the
\* runtime has.
ASSUME SelectedModelAssumption ==
  \A s \in Slots, r \in Resources, c \in Contexts, cur \in Models \cup {Nil} :
    SelectedModel(s, Inventory[s], cur, r, c) \in Models \cup {Nil}

VARIABLES
  holder,     \* holder[s]: the reconciliation inside the slot's lock, or Nil
  waiters,    \* waiters[s]: reconciliations queued in lock.acquire()
  stage,      \* stage[t]: new, queued, activating or ended
  slot,       \* slot[t], context[t]: the arguments
  context,
  before,     \* before[t]: the active model read under the lock
  selected,   \* selected[t]: the decision's selected model
  ending      \* ending[t]: how reconcile() came out

engineVars == <<holder, waiters, stage, slot, context, before,
                selected, ending>>
vars == <<queue, running, outcome, active, resources, phase, target, config,
          changed, captured, result, holder, waiters, stage, slot, context,
          before, selected, ending>>

Stages  == {"new", "queued", "activating", "ended"}
Endings == {"none", "kept", "activated", "raised", "cancelled", "contract"}

EngineTypeOK ==
  /\ holder \in [Slots -> Reconciles \cup {Nil}]
  /\ waiters \in [Slots -> Seq(Reconciles)]
  /\ stage \in [Reconciles -> Stages]
  /\ slot \in [Reconciles -> Slots \cup {Nil}]
  /\ context \in [Reconciles -> Contexts \cup {Nil}]
  /\ before \in [Reconciles -> Models \cup {Nil}]
  /\ selected \in [Reconciles -> Models \cup {Nil}]
  /\ ending \in [Reconciles -> Endings]

TypeOK == AdapterTypeOK /\ EngineTypeOK

Init ==
  /\ PoolInit
  /\ OnnxInit
  /\ holder = [s \in Slots |-> Nil]
  /\ waiters = [s \in Slots |-> <<>>]
  /\ stage = [t \in Reconciles |-> "new"]
  /\ slot = [t \in Reconciles |-> Nil]
  /\ context = [t \in Reconciles |-> Nil]
  /\ before = [t \in Reconciles |-> Nil]
  /\ selected = [t \in Reconciles |-> Nil]
  /\ ending = [t \in Reconciles |-> "none"]
-----------------------------------------------------------------------------
(* The slot's lock: asyncio.Lock is fair, a released lock goes to the      *)
(* oldest waiter and a newcomer cannot overtake it.                        *)

\* MUTANT: one lock for every slot.
UnlockedEverywhere(s) == \A x \in Slots : holder[x] = Nil

Unlocked(s) == holder[s] = Nil

\* MUTANT: a lock that looks free to whoever finds nobody waiting.
LockFreeIgnoringHolder(s) == waiters[s] = <<>>

LockFree(s) == Unlocked(s) /\ waiters[s] = <<>>

-----------------------------------------------------------------------------
(* reconcile() from the moment it has the lock to its next suspension.     *)

Decision(s, c) == SelectedModel(s, Inventory[s], ActiveModel(s), resources, c)

\* models(), state() and select().
Decide(t, s, c) ==
  /\ slot' = [slot EXCEPT ![t] = s]
  /\ context' = [context EXCEPT ![t] = c]
  /\ before' = [before EXCEPT ![t] = ActiveModel(s)]
  /\ selected' = [selected EXCEPT ![t] = Decision(s, c)]

\* MUTANT: the active model is activated again.
NothingSelected(s, c) == Decision(s, c) = Nil

NothingToActivate(s, c) ==
  Decision(s, c) # Nil => SameModel(ActiveModel(s), Decision(s, c))

\* Nothing selected, or the active model: return with no activation.
Keep(t, s, c) ==
  /\ NothingToActivate(s, c)
  /\ Decide(t, s, c)
  /\ stage' = [stage EXCEPT ![t] = "ended"]
  /\ ending' = [ending EXCEPT ![t] = "kept"]
  /\ UNCHANGED holder
  /\ UNCHANGED onnxVars
  /\ UNCHANGED poolVars

\* MUTANT: an exception on the way out leaves the lock behind.
RefuseLeakingLock(t, s, c) ==
  /\ ~NothingToActivate(s, c)
  /\ ActivateUnavailable(t, s, Decision(s, c))
  /\ Decide(t, s, c)
  /\ stage' = [stage EXCEPT ![t] = "ended"]
  /\ ending' = [ending EXCEPT ![t] = "raised"]
  /\ holder' = [holder EXCEPT ![s] = t]

\* The runtime does not have the selected model: its exception propagates.
Refuse(t, s, c) ==
  /\ ~NothingToActivate(s, c)
  /\ ActivateUnavailable(t, s, Decision(s, c))
  /\ Decide(t, s, c)
  /\ stage' = [stage EXCEPT ![t] = "ended"]
  /\ ending' = [ending EXCEPT ![t] = "raised"]
  /\ UNCHANGED holder

\* The activation suspends with the lock held.
Start(t, s, c) ==
  /\ ~NothingToActivate(s, c)
  /\ ActivateBegin(t, s, Decision(s, c))
  /\ Decide(t, s, c)
  /\ stage' = [stage EXCEPT ![t] = "activating"]
  /\ holder' = [holder EXCEPT ![s] = t]
  /\ UNCHANGED ending

Transaction(t, s, c) == Keep(t, s, c) \/ Refuse(t, s, c) \/ Start(t, s, c)

-----------------------------------------------------------------------------
(* The steps of a reconciliation.                                          *)

\* reconcile(s, c) is called and finds the lock free.
CallAndEnter(t, s, c) ==
  /\ stage[t] = "new"
  /\ LockFree(s)
  /\ Transaction(t, s, c)
  /\ UNCHANGED waiters

\* reconcile(s, c) is called and has to wait for the lock.
CallAndWait(t, s, c) ==
  /\ stage[t] = "new"
  /\ ~LockFree(s)
  /\ stage' = [stage EXCEPT ![t] = "queued"]
  /\ slot' = [slot EXCEPT ![t] = s]
  /\ context' = [context EXCEPT ![t] = c]
  /\ waiters' = [waiters EXCEPT ![s] = Append(@, t)]
  /\ UNCHANGED <<holder, before, selected, ending>>
  /\ UNCHANGED onnxVars
  /\ UNCHANGED poolVars

\* The oldest waiter gets a free lock.
Enter(t) ==
  LET s == slot[t] IN
  /\ stage[t] = "queued"
  /\ Unlocked(s)
  /\ waiters[s] # <<>> /\ Head(waiters[s]) = t
  /\ waiters' = [waiters EXCEPT ![s] = Tail(@)]
  /\ Transaction(t, s, context[t])

\* Leaving "async with": the lock is released on every way out.
Leave(t, how) ==
  /\ stage[t] = "activating"
  /\ stage' = [stage EXCEPT ![t] = "ended"]
  /\ ending' = [ending EXCEPT ![t] = how]
  /\ holder' = [holder EXCEPT ![slot[t]] = Nil]
  /\ UNCHANGED <<waiters, slot, context, before, selected>>

\* activate() publishes and returns; what it reports and what state() then
\* reports are held against the selection.
Complete(t) ==
  LET agrees == /\ SameModel(config[t], selected[t])
                /\ SameModel(ModelOf(active'[slot[t]]), selected[t])
  IN  /\ ActivatePublish(t)
      /\ Leave(t, IF agrees THEN "activated" ELSE "contract")

\* The load raised.
Fail(t) == Raise(t) /\ Leave(t, "raised")

CancelActivating(t) ==
  /\ t \in Cancellable
  /\ Cancel(t)
  /\ Leave(t, "cancelled")

\* Cancelled in lock.acquire(): the waiter removes itself.
CancelQueued(t) ==
  LET s == slot[t] IN
  /\ t \in Cancellable
  /\ stage[t] = "queued"
  /\ \E i \in DOMAIN waiters[s] :
       /\ waiters[s][i] = t
       /\ waiters' = [waiters EXCEPT ![s] = RemoveAt(@, i)]
  /\ stage' = [stage EXCEPT ![t] = "ended"]
  /\ ending' = [ending EXCEPT ![t] = "cancelled"]
  /\ UNCHANGED <<holder, slot, context, before, selected>>
  /\ UNCHANGED onnxVars
  /\ UNCHANGED poolVars

-----------------------------------------------------------------------------
(* Everything else: inference, direct activations, the environment.        *)

\* TEMMS.infer only delegates.
Infer ==
  /\ \E r \in Requests :
       \/ \E s \in Slots : InferNoActiveModel(r, s) \/ InferAdmit(r, s)
       \/ InferReturn(r)
       \/ Raise(r)
       \/ r \in Cancellable /\ Cancel(r)
  /\ UNCHANGED engineVars

DirectActivate ==
  /\ \E t \in Direct :
       \/ \E s \in Slots, m \in Models :
            ActivateUnavailable(t, s, m) \/ ActivateBegin(t, s, m)
       \/ ActivatePublish(t)
       \/ Raise(t)
       \/ t \in Cancellable /\ Cancel(t)
  /\ UNCHANGED engineVars

Environment ==
  /\ \/ \E v \in Resources : UpdateResources(v)
     \/ StartThread
     \/ \E c \in Calls : WithdrawCancelled(c)
     \/ \E c \in Calls, o \in {"ok", "failed"} : FinishThread(c, o)
  /\ UNCHANGED engineVars

Next ==
  \/ \E t \in Reconciles :
       \/ \E s \in Slots, c \in Contexts : CallAndEnter(t, s, c) \/ CallAndWait(t, s, c)
       \/ Enter(t)
       \/ Complete(t)
       \/ Fail(t)
       \/ CancelActivating(t)
       \/ CancelQueued(t)
  \/ Infer
  \/ DirectActivate
  \/ Environment

Spec == Init /\ [][Next]_vars
-----------------------------------------------------------------------------
(* Fairness: the event loop runs every coroutine that is ready, and the    *)
(* executor's threads take work.  Whether native loads and runs end is for *)
(* a run to say.                                                           *)

Resume(t) == Enter(t) \/ Complete(t) \/ Fail(t)

ResumeInfer(r) == (InferReturn(r) \/ Raise(r)) /\ UNCHANGED engineVars

ThreadTakesWork == StartThread /\ UNCHANGED engineVars

ThreadEnds(c) == (\E o \in {"ok", "failed"} : FinishThread(c, o)) /\ UNCHANGED engineVars

EventLoopIsFair ==
  /\ \A t \in Reconciles : WF_vars(Resume(t))
  /\ \A r \in Requests : WF_vars(ResumeInfer(r))

-----------------------------------------------------------------------------
(***************************************************************************)
(* Safety properties.                                                      *)
(***************************************************************************)

\* The lock of a slot is held exactly while a reconciliation of that slot is
\* suspended in its activation: transactions of one slot never overlap, and
\* no way out (return, exception, cancellation) leaks the lock.
LockSpansTransaction ==
  /\ \A t \in Reconciles : stage[t] = "activating" => holder[slot[t]] = t
  /\ \A s \in Slots : holder[s] # Nil =>
        stage[holder[s]] = "activating" /\ slot[holder[s]] = s

\* The active model a reconciliation read before it decided is still the
\* active model when it publishes, however long the load takes: nothing else
\* publishes on the slot meanwhile (engine.py 39-50).
DecisionStaysFresh ==
  \A t \in Reconciles : stage[t] = "activating" => before[t] = ActiveModel(slot[t])

\* The runtime's reports never contradict the selection, so the two checks in
\* reconcile() never raise RuntimeContractError (engine.py 51 and 54).
ContractIsKept == \A t \in Reconciles : ending[t] # "contract"

\* A reconciliation that activated a model changed the slot's identity: it
\* never reloads what another one has already published (docs: "reconcile()
\* avoids that redundant activation").
ActivationIsAChange ==
  \A t \in Reconciles : ending[t] = "activated" => changed[t]

-----------------------------------------------------------------------------
\* Every admitted inference gets its result, its exception or its cancellation.
InferenceEnds == \A r \in Requests : phase[r] = "awaiting" ~> phase[r] # "awaiting"

-----------------------------------------------------------------------------
(* Temms over OnnxRuntime implements SlotService, when it owns its slots.  *)

Service == INSTANCE SlotService WITH
  current <- [s \in Slots |-> ActiveModel(s)],
  open    <- [s \in Slots |->
                LET by == holder[s] IN
                  [by       |-> by,
                   before   |-> IF by = Nil THEN Nil ELSE before[by],
                   selected |-> IF by = Nil THEN Nil ELSE selected[by]]],
  pinned  <- [r \in Requests |-> ModelOf(captured[r])],
  answer  <- result

\* Every step of the implementation is a step of the service or changes
\* nothing the service shows.
ImplementsSlotService == Service!Spec
=============================================================================
