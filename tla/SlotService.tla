---------------------------- MODULE SlotService ----------------------------
(***************************************************************************)
(* What TEMMS promises about the slots it owns, with no lock, no thread    *)
(* and no session in sight (README and docs/architecture.md, "Concurrency  *)
(* contract"):                                                             *)
(*   - changes of a slot's model are transactions: at most one is open at  *)
(*     a time, and it commits against the very model it was decided on;    *)
(*   - a transaction that does not commit leaves the model as it was;      *)
(*   - an inference is served by the model current at its admission,       *)
(*     whatever happens to the slot meanwhile, and says so.                *)
(***************************************************************************)
EXTENDS ModelRefs

CONSTANTS Slots, Models, Reconciles, Requests

VARIABLES
  current,   \* current[s]: the model of slot s, or Nil
  open,      \* open[s]: the transaction open on s: who opened it (Nil: none is
             \* open), on which model, to replace it by which
  pinned,    \* pinned[r]: the model request r was admitted to, or Nil
  answer     \* answer[r]: the answer to request r, or Nil

serviceVars == <<current, open, pinned, answer>>

Closed == [by |-> Nil, before |-> Nil, selected |-> Nil]

Init ==
  /\ current = [s \in Slots |-> Nil]
  /\ open = [s \in Slots |-> Closed]
  /\ pinned = [r \in Requests |-> Nil]
  /\ answer = [r \in Requests |-> Nil]

Open(s) ==
  /\ open[s] = Closed
  /\ \E t \in Reconciles, m \in Models :
       /\ ~SameModel(current[s], m)
       /\ open' = [open EXCEPT ![s] = [by |-> t, before |-> current[s], selected |-> m]]
  /\ UNCHANGED <<current, pinned, answer>>

Commit(s) ==
  /\ open[s].by # Nil
  /\ current[s] = open[s].before
  /\ \E m \in Models : /\ Identity(m) = Identity(open[s].selected)
                       /\ current' = [current EXCEPT ![s] = m]
  /\ open' = [open EXCEPT ![s] = Closed]
  /\ UNCHANGED <<pinned, answer>>

Abort(s) ==
  /\ open[s].by # Nil
  /\ open' = [open EXCEPT ![s] = Closed]
  /\ UNCHANGED <<current, pinned, answer>>

Admit(r, s) ==
  /\ pinned[r] = Nil
  /\ current[s] # Nil
  /\ pinned' = [pinned EXCEPT ![r] = current[s]]
  /\ UNCHANGED <<current, open, answer>>

Answer(r) ==
  /\ pinned[r] # Nil
  /\ answer[r] = Nil
  /\ answer' = [answer EXCEPT ![r] = [model |-> pinned[r], output |-> pinned[r]]]
  /\ UNCHANGED <<current, open, pinned>>

Next ==
  \/ \E s \in Slots : Open(s) \/ Commit(s) \/ Abort(s)
  \/ \E r \in Requests : Answer(r) \/ \E s \in Slots : Admit(r, s)

Spec == Init /\ [][Next]_serviceVars
=============================================================================
