----------------------------- MODULE OnnxRuntime -----------------------------
(***************************************************************************)
(* adapters/onnx.py: OnnxRuntime, between its callers on one event loop    *)
(* and the executor threads that load models and run inference.            *)
(*                                                                         *)
(* A segment of a coroutine between two suspensions is one action: nothing *)
(* else runs on the event loop meanwhile, and the adapter's RLock is taken *)
(* and dropped inside a segment.  The only suspensions are the two         *)
(* asyncio.to_thread awaits; models(), state(), the capture in infer() and *)
(* the publication in activate() do not suspend.                           *)
(*                                                                         *)
(* A call of activate() or infer() is named by the task that makes it, and *)
(* a session by the activate() call that loaded it, so two loads of one    *)
(* model are two sessions.                                                 *)
(***************************************************************************)
EXTENDS ModelRefs, ThreadPool

CONSTANTS
  Slots,
  Models,        \* ModelRefs, compared by id and digest only
  Inventory,     \* Inventory[s]: the refs configured for slot s
  Resources,     \* values update_resources may leave behind
  Activations,   \* calls of activate()
  Requests       \* calls of infer()

\* _validate_inventory refuses a slot with two entries of one identity.
ASSUME InventoryAssumption ==
  /\ Inventory \in [Slots -> SUBSET Models]
  /\ \A s \in Slots : \A m, n \in Inventory[s] : Identity(m) = Identity(n) => m = n

ASSUME CallsAssumption ==
  /\ Calls = Activations \cup Requests
  /\ Activations \cap Requests = {}

ASSUME NilAssumption == Nil \notin Models \cup Activations \cup Requests \cup Slots

VARIABLES
  active,     \* _active: the session serving each slot, or Nil
  resources,  \* _resources
  phase,      \* where each call is: idle, awaiting its thread, or how it ended
  target,     \* the slot a call is about
  config,     \* config[t]: the OnnxModel activation t found; its session's model
  changed,    \* ActivationResult.changed
  captured,   \* captured[r]: the session infer() call r admitted itself to
  result      \* InferenceResult of r: the model it names and the one that ran

onnxVars == <<active, resources, phase, target, config, changed, captured, result>>

Phases == {"idle", "awaiting", "returned", "raised", "cancelled"}

OnnxTypeOK ==
  /\ active \in [Slots -> Activations \cup {Nil}]
  /\ resources \in Resources
  /\ phase \in [Calls -> Phases]
  /\ target \in [Calls -> Slots \cup {Nil}]
  /\ config \in [Activations -> Models \cup {Nil}]
  /\ changed \in [Activations -> BOOLEAN]
  /\ captured \in [Requests -> Activations \cup {Nil}]
  /\ result \in [Requests -> [model : Models, output : Models] \cup {Nil}]

OnnxInit ==
  /\ active = [s \in Slots |-> Nil]
  /\ resources \in Resources
  /\ phase = [c \in Calls |-> "idle"]
  /\ target = [c \in Calls |-> Nil]
  /\ config = [t \in Activations |-> Nil]
  /\ changed = [t \in Activations |-> FALSE]
  /\ captured = [r \in Requests |-> Nil]
  /\ result = [r \in Requests |-> Nil]

ModelOf(session) == IF session = Nil THEN Nil ELSE config[session]

\* state().active_model
ActiveModel(s) == ModelOf(active[s])

-----------------------------------------------------------------------------
(* activate()                                                              *)

\* MUTANT: the inventory is searched by id alone.
FindById(s, m) ==
  LET found == {c \in Inventory[s] : c.id = m.id}
  IN  IF found = {} THEN Nil ELSE CHOOSE c \in found : TRUE

Find(s, m) ==
  LET found == {c \in Inventory[s] : Identity(c) = Identity(m)}
  IN  IF found = {} THEN Nil ELSE CHOOSE c \in found : TRUE

\* _find() raises before anything has changed.
ActivateUnavailable(t, s, m) ==
  /\ phase[t] = "idle"
  /\ Find(s, m) = Nil
  /\ phase' = [phase EXCEPT ![t] = "raised"]
  /\ target' = [target EXCEPT ![t] = s]
  /\ UNCHANGED <<active, resources, config, changed, captured, result>>
  /\ UNCHANGED poolVars

\* _find() succeeds and _load() is handed to a thread.
ActivateBegin(t, s, m) ==
  /\ phase[t] = "idle"
  /\ Find(s, m) # Nil
  /\ phase' = [phase EXCEPT ![t] = "awaiting"]
  /\ target' = [target EXCEPT ![t] = s]
  /\ config' = [config EXCEPT ![t] = Find(s, m)]
  /\ Submit(t)
  /\ UNCHANGED <<active, resources, changed, captured, result>>

\* MUTANT: a publication moves the slot's running inferences to the new session.
ActivatePublishMigrating(t) ==
  /\ phase[t] = "awaiting"
  /\ outcome[t] = "ok"
  /\ phase' = [phase EXCEPT ![t] = "returned"]
  /\ changed' = [changed EXCEPT ![t] = ~SameModel(ActiveModel(target[t]), config[t])]
  /\ active' = [active EXCEPT ![target[t]] = t]
  /\ captured' = [r \in Requests |->
                    IF phase[r] = "awaiting" /\ target[r] = target[t] THEN t ELSE captured[r]]
  /\ UNCHANGED <<resources, target, config, result>>
  /\ UNCHANGED poolVars

\* _load() returned: publish the session and return.
ActivatePublish(t) ==
  /\ phase[t] = "awaiting"
  /\ outcome[t] = "ok"
  /\ phase' = [phase EXCEPT ![t] = "returned"]
  /\ changed' = [changed EXCEPT ![t] = ~SameModel(ActiveModel(target[t]), config[t])]
  /\ active' = [active EXCEPT ![target[t]] = t]
  /\ UNCHANGED <<resources, target, config, captured, result>>
  /\ UNCHANGED poolVars

\* The awaiting coroutine is told that its thread raised: a missing file, a
\* session that cannot be built, a warmup that fails.
Raise(c) ==
  /\ phase[c] = "awaiting"
  /\ outcome[c] = "failed"
  /\ phase' = [phase EXCEPT ![c] = "raised"]
  /\ UNCHANGED <<active, resources, target, config, changed, captured, result>>
  /\ UNCHANGED poolVars

\* CancelledError is thrown into the await.  Its thread is not told.
Cancel(c) ==
  /\ phase[c] = "awaiting"
  /\ phase' = [phase EXCEPT ![c] = "cancelled"]
  /\ UNCHANGED <<active, resources, target, config, changed, captured, result>>
  /\ UNCHANGED poolVars

-----------------------------------------------------------------------------
(* infer()                                                                 *)

InferNoActiveModel(r, s) ==
  /\ phase[r] = "idle"
  /\ active[s] = Nil
  /\ phase' = [phase EXCEPT ![r] = "raised"]
  /\ target' = [target EXCEPT ![r] = s]
  /\ UNCHANGED <<active, resources, config, changed, captured, result>>
  /\ UNCHANGED poolVars

\* Admission: the session is captured and its run() handed to a thread.
InferAdmit(r, s) ==
  /\ phase[r] = "idle"
  /\ active[s] # Nil
  /\ phase' = [phase EXCEPT ![r] = "awaiting"]
  /\ target' = [target EXCEPT ![r] = s]
  /\ captured' = [captured EXCEPT ![r] = active[s]]
  /\ Submit(r)
  /\ UNCHANGED <<active, resources, config, changed, result>>

\* MUTANT: the result is attributed to whatever is active by now.
InferReturnLatest(r) ==
  /\ phase[r] = "awaiting"
  /\ outcome[r] = "ok"
  /\ phase' = [phase EXCEPT ![r] = "returned"]
  /\ result' = [result EXCEPT ![r] = [model  |-> ActiveModel(target[r]),
                                      output |-> config[captured[r]]]]
  /\ UNCHANGED <<active, resources, target, config, changed, captured>>
  /\ UNCHANGED poolVars

\* The output of the captured session, tagged with that session's ref.
InferReturn(r) ==
  /\ phase[r] = "awaiting"
  /\ outcome[r] = "ok"
  /\ phase' = [phase EXCEPT ![r] = "returned"]
  /\ result' = [result EXCEPT ![r] = [model  |-> config[captured[r]],
                                      output |-> config[captured[r]]]]
  /\ UNCHANGED <<active, resources, target, config, changed, captured>>
  /\ UNCHANGED poolVars

-----------------------------------------------------------------------------
(* The rest: resources and the executor's threads.                         *)

UpdateResources(v) ==
  /\ resources' = v
  /\ UNCHANGED <<active, phase, target, config, changed, captured, result>>
  /\ UNCHANGED poolVars

StartThread == StartWork /\ UNCHANGED onnxVars

\* MUTANT: the session is published by the thread that loaded it.
FinishThreadPublishing(c, o) ==
  /\ FinishWork(c, o)
  /\ active' = IF c \in Activations /\ o = "ok"
               THEN [active EXCEPT ![target[c]] = c] ELSE active
  /\ UNCHANGED <<resources, phase, target, config, changed, captured, result>>

FinishThread(c, o) == FinishWork(c, o) /\ UNCHANGED onnxVars

\* Cancelling the awaiting coroutine cancels an item no thread has taken; a
\* thread may take it first, since the two run concurrently.
WithdrawCancelled(c) ==
  /\ phase[c] = "cancelled"
  /\ Withdraw(c)
  /\ UNCHANGED onnxVars

-----------------------------------------------------------------------------
(* The adapter by itself, under callers that may do anything.              *)

OnnxNext ==
  \/ \E t \in Activations :
       \/ \E s \in Slots, m \in Models :
            ActivateUnavailable(t, s, m) \/ ActivateBegin(t, s, m)
       \/ ActivatePublish(t)
  \/ \E r \in Requests :
       \/ \E s \in Slots : InferNoActiveModel(r, s) \/ InferAdmit(r, s)
       \/ InferReturn(r)
  \/ \E c \in Calls :
       \/ Raise(c)
       \/ Cancel(c)
       \/ WithdrawCancelled(c)
       \/ \E o \in {"ok", "failed"} : FinishThread(c, o)
  \/ \E v \in Resources : UpdateResources(v)
  \/ StartThread

adapterVars == <<queue, running, outcome, active, resources, phase, target,
                 config, changed, captured, result>>

AdapterInit == PoolInit /\ OnnxInit

AdapterSpec == AdapterInit /\ [][OnnxNext]_adapterVars

-----------------------------------------------------------------------------
(***************************************************************************)
(* Properties.                                                             *)
(***************************************************************************)

AdapterTypeOK == PoolTypeOK /\ OnnxTypeOK

\* Whatever serves a slot was published by an activation that succeeded and
\* returned for that slot: a cancelled or failed one never publishes, even if
\* its thread finishes later (docs: "prevents that activation from publishing").
OnlyReturnedActivationsServe ==
  \A s \in Slots : active[s] # Nil =>
    /\ phase[active[s]] = "returned"
    /\ outcome[active[s]] = "ok"
    /\ target[active[s]] = s
    /\ config[active[s]] \in Inventory[s]

\* An inference result names the model whose session produced its output, and
\* that is the session captured at admission.
PinnedInference ==
  \A r \in Requests : result[r] # Nil =>
    /\ captured[r] # Nil
    /\ result[r] = [model |-> config[captured[r]], output |-> config[captured[r]]]

\* A captured session is one that was published on the request's slot.
CapturedWasPublished ==
  \A r \in Requests : captured[r] # Nil =>
    phase[captured[r]] = "returned" /\ target[captured[r]] = target[r]

\* Once admitted, a request stays with its session, and a session stays what
\* it is: neither another publication nor another load can exchange them
\* under a running inference.
SessionsAreKept ==
  \A r \in Requests : captured[r] # Nil =>
    captured'[r] = captured[r] /\ config'[captured[r]] = config[captured[r]]

CapturedForLife == [][SessionsAreKept]_adapterVars
==============================================================================
