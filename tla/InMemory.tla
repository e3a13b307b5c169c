------------------------------ MODULE InMemory ------------------------------
(***************************************************************************)
(* adapters/memory.py: TEMMS over an InMemoryRuntime, the adapter of tests *)
(* and prototypes.  Its models(), state() and activate() never suspend, so *)
(* a reconciliation is one step that nothing interrupts; infer() suspends  *)
(* in a handler that returns an awaitable, with the model it looked up.    *)
(* Unlike OnnxRuntime it accepts several entries of one identity, and      *)
(* entries nothing can serve: handlers are registered by digest, apart     *)
(* from the models.                                                        *)
(***************************************************************************)
EXTENDS Selector, SequencesExt

CONSTANTS
  Slots, Requests,
  Offered,     \* Offered[s]: the sequence models= of slot s
  Handlers,    \* the digests of handlers=
  Foreign      \* models a selector may name that the runtime does not have

Named == UNION {Range(Offered[s]) : s \in Slots} \cup Foreign

ASSUME InMemoryAssumption ==
  /\ Nil \notin Named \cup Requests
  /\ \A s \in Slots : Offered[s] \in Seq(Range(Offered[s]))

VARIABLES
  active,     \* active[s]: the ModelRef in _active, or Nil
  last,       \* how the last reconciliation ended, with what it selected
  phase,      \* phase[r]: new, awaiting its handler, or over
  looked,     \* looked[r]: the model infer() looked up
  output,     \* output[r]: the handler that answered (by digest), or Nil
  reply       \* reply[r]: the model the InferenceResult names, or Nil

vars == <<active, last, phase, looked, output, reply>>

Idle == [slot |-> Nil, selected |-> Nil, ending |-> "none"]

TypeOK ==
  /\ active \in [Slots -> Named \cup {Nil}]
  /\ last \in [slot : Slots \cup {Nil}, selected : Named \cup {Nil},
               ending : {"none", "kept", "activated", "unavailable", "contract"}]
  /\ phase \in [Requests -> {"new", "awaiting", "over"}]
  /\ looked \in [Requests -> Named \cup {Nil}]
  /\ output \in [Requests -> Handlers \cup {Nil}]
  /\ reply \in [Requests -> Named \cup {Nil}]

Init ==
  /\ active = [s \in Slots |-> Nil]
  /\ last = Idle
  /\ phase = [r \in Requests |-> "new"]
  /\ looked = [r \in Requests |-> Nil]
  /\ output = [r \in Requests |-> Nil]
  /\ reply = [r \in Requests |-> Nil]

\* MUTANT: a handler is not needed to become active.
ServableHere(s, m) == Available(Offered[s], m) # Nil

\* activate()'s two checks.
Servable(s, m) ==
  LET actual == Available(Offered[s], m)
  IN  actual # Nil /\ actual.digest \in Handlers

\* The entry activate() makes active: the last one with the identity.
Actual(s, m) == Available(Offered[s], m)

\* A direct activate(): it may also repeat the active model.
Activate(s, m) ==
  /\ Servable(s, m)
  /\ active' = [active EXCEPT ![s] = Actual(s, m)]
  /\ UNCHANGED <<last, phase, looked, output, reply>>

\* reconcile(), for whatever its selector selects.
Reconcile(s, selected) ==
  /\ \/ /\ selected # Nil => SameModel(active[s], selected)
        /\ last' = [slot |-> s, selected |-> selected, ending |-> "kept"]
        /\ UNCHANGED active
     \/ /\ selected # Nil /\ ~SameModel(active[s], selected)
        /\ ~Servable(s, selected)
        /\ last' = [slot |-> s, selected |-> selected, ending |-> "unavailable"]
        /\ UNCHANGED active
     \/ /\ selected # Nil /\ ~SameModel(active[s], selected)
        /\ Servable(s, selected)
        /\ active' = [active EXCEPT ![s] = Actual(s, selected)]
        /\ last' = [slot |-> s, selected |-> selected,
                    ending |-> IF SameModel(active'[s], selected)
                               THEN "activated" ELSE "contract"]
  /\ UNCHANGED <<phase, looked, output, reply>>

\* NoActiveModelError, or (were it possible) no handler for the active model.
InferRefused(r, s) ==
  /\ phase[r] = "new"
  /\ active[s] # Nil => active[s].digest \notin Handlers
  /\ phase' = [phase EXCEPT ![r] = "over"]
  /\ looked' = [looked EXCEPT ![r] = active[s]]
  /\ UNCHANGED <<active, last, output, reply>>

\* The handler is called; an awaitable suspends the request.
InferCall(r, s) ==
  /\ phase[r] = "new"
  /\ active[s] # Nil /\ active[s].digest \in Handlers
  /\ looked' = [looked EXCEPT ![r] = active[s]]
  /\ output' = [output EXCEPT ![r] = active[s].digest]
  /\ \/ /\ phase' = [phase EXCEPT ![r] = "awaiting"]
        /\ UNCHANGED reply
     \/ /\ phase' = [phase EXCEPT ![r] = "over"]
        /\ reply' = [reply EXCEPT ![r] = active[s]]
  /\ UNCHANGED <<active, last>>

\* MUTANT: the answer names the model active by now.
InferReturnLatest(r) ==
  /\ phase[r] = "awaiting"
  /\ phase' = [phase EXCEPT ![r] = "over"]
  /\ \E s \in Slots : active[s] # Nil /\ reply' = [reply EXCEPT ![r] = active[s]]
  /\ UNCHANGED <<active, last, looked, output>>

InferReturn(r) ==
  /\ phase[r] = "awaiting"
  /\ phase' = [phase EXCEPT ![r] = "over"]
  /\ reply' = [reply EXCEPT ![r] = looked[r]]
  /\ UNCHANGED <<active, last, looked, output>>

\* The handler raises, or the request is cancelled.
InferRaises(r) ==
  /\ phase[r] = "awaiting"
  /\ phase' = [phase EXCEPT ![r] = "over"]
  /\ UNCHANGED <<active, last, looked, output, reply>>

Next ==
  \/ \E s \in Slots :
       \/ \E m \in Named : Activate(s, m)
       \/ \E m \in Named \cup {Nil} : Reconcile(s, m)
  \/ \E r \in Requests :
       \/ \E s \in Slots : InferRefused(r, s) \/ InferCall(r, s)
       \/ InferReturn(r)
       \/ InferRaises(r)

Spec == Init /\ [][Next]_vars
-----------------------------------------------------------------------------
\* Whatever is active can serve: infer()'s error for an active model without a
\* handler (memory.py 68-73) is out of reach, though models and handlers are
\* given apart and nothing checks one against the other.
ActiveIsServable ==
  \A s \in Slots : active[s] # Nil =>
    /\ active[s].digest \in Handlers
    /\ active[s] = Available(Offered[s], active[s])

\* With duplicate identities and handlers shared by digest, reconcile() never
\* takes this runtime for one that misreports (engine.py 51, 54).
ContractIsKept == last.ending # "contract"

\* What holds of a slot and of the last reconciliation whatever was registered.
RuntimeInv == TypeOK /\ ActiveIsServable /\ ContractIsKept

\* An answer names the model whose handler computed it, the one that was active
\* when the request was made, whatever was activated while the handler ran.
AnswersAreAttributed ==
  \A r \in Requests : reply[r] # Nil =>
    reply[r] = looked[r] /\ output[r] = reply[r].digest
=============================================================================
