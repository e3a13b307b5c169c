--------------------------- MODULE InMemory_proofs ---------------------------
(***************************************************************************)
(* Proofs about InMemory, for any slots, inventories (duplicates and       *)
(* models without a handler included), handlers, requests and selections.  *)
(* They rest on what the dictionary of available models gives back: an     *)
(* entry of the inventory with the identity asked for, and itself when it  *)
(* is asked for again.                                                     *)
(***************************************************************************)
EXTENDS InMemory, SequenceTheorems, WellFoundedInduction, TLAPS

-----------------------------------------------------------------------------
(* The last entry with an identity.                                        *)

\* A set of places has a greatest one.
LEMMA GreatestPlace ==
  ASSUME NEW n \in Nat, NEW P, P \subseteq 1..n, P # {}
  PROVE  \E i \in P : \A j \in P : i >= j
<1> DEFINE Below == {ss \in Nat \X Nat : ss[1] < ss[2]}
           T == {k \in Nat : n - k \in P}
<1>1. IsWellFoundedOn(Below, Nat)
  BY NatLessThanWellFounded DEF OpToRel
<1>2. T \subseteq Nat /\ T # {}
  <2>1. PICK i \in P : TRUE
    OBVIOUS
  <2>2. n - i \in Nat /\ n - (n - i) = i
    OBVIOUS
  <2> QED
    BY <2>1, <2>2
<1>3. \E k \in T : \A l \in T : ~(<<l, k>> \in Below)
  <2> HIDE DEF Below, T
  <2> QED
    BY <1>1, <1>2, WFMin
<1>4. PICK k \in T : \A l \in T : ~(<<l, k>> \in Below)
  BY <1>3
<1>5. ASSUME NEW j \in P PROVE n - k >= j
  <2>1. n - j \in Nat /\ n - (n - j) = j /\ j \in Int
    OBVIOUS
  <2>2. ~(n - j < k)
    BY <1>4, <2>1
  <2> QED
    BY <2>1, <2>2
<1> QED
  BY <1>5
\* available.get(): an entry of the inventory, with the identity asked for.
LEMMA AvailableIsOffered ==
  ASSUME NEW s \in Slots, NEW m, Available(Offered[s], m) # Nil
  PROVE  /\ Available(Offered[s], m) \in Range(Offered[s])
         /\ Identity(Available(Offered[s], m)) = Identity(m)
<1> DEFINE offered == Offered[s]
           places == {i \in DOMAIN offered : Identity(offered[i]) = Identity(m)}
           last_one == CHOOSE i \in places : \A j \in places : i >= j
<1>1. DOMAIN offered = 1..Len(offered) /\ Len(offered) \in Nat
  BY InMemoryAssumption, LenProperties
<1>2. Available(offered, m) = IF places = {} THEN Nil ELSE offered[last_one]
  BY DEF Available
<1>3. places # {} /\ places \subseteq 1..Len(offered)
  BY <1>1, <1>2
<1>4. last_one \in places
  <2> HIDE DEF places
  <2>1. \E i \in places : \A j \in places : i >= j
    BY <1>1, <1>3, GreatestPlace
  <2> QED
    BY <2>1
<1> QED
  BY <1>2, <1>3, <1>4 DEF Range

\* Asked for by what it gave back, it gives that back again.
LEMMA AvailableAgain ==
  ASSUME NEW s \in Slots, NEW m, Available(Offered[s], m) # Nil
  PROVE  Available(Offered[s], Available(Offered[s], m)) = Available(Offered[s], m)
<1> DEFINE entry == Available(Offered[s], m)
           Places(x) == {i \in DOMAIN Offered[s] : Identity(Offered[s][i]) = Identity(x)}
<1>1. Identity(entry) = Identity(m)
  BY AvailableIsOffered
<1> HIDE DEF entry
<1>2. Places(entry) = Places(m)
  BY <1>1
<1> DEFINE EntryAt(P) == IF P = {} THEN Nil ELSE Offered[s][CHOOSE i \in P : \A j \in P : i >= j]
<1>3. Available(Offered[s], entry) = EntryAt(Places(entry))
  BY DEF Available
<1>4. entry = EntryAt(Places(m))
  BY DEF Available, entry
<1> HIDE DEF Places, EntryAt
<1>5. Available(Offered[s], entry) = entry
  BY <1>2, <1>3, <1>4
<1> QED
  BY <1>5 DEF entry

\* What activate() makes active is the model asked for, and can serve.
LEMMA ActualServes ==
  ASSUME NEW s \in Slots, NEW m, Servable(s, m)
  PROVE  /\ Actual(s, m) \in Named /\ Actual(s, m) # Nil
         /\ Actual(s, m).digest \in Handlers
         /\ Actual(s, m) = Available(Offered[s], Actual(s, m))
         /\ SameModel(Actual(s, m), m)
<1>1. Actual(s, m) # Nil /\ Actual(s, m).digest \in Handlers
  BY DEF Servable, Actual
<1>2. Actual(s, m) \in Range(Offered[s]) /\ Identity(Actual(s, m)) = Identity(m)
  BY <1>1, AvailableIsOffered DEF Actual
<1>3. Actual(s, m) = Available(Offered[s], Actual(s, m))
  BY <1>1, AvailableAgain DEF Actual
<1>4. Actual(s, m) \in Named
  BY <1>2 DEF Named
<1> QED
  BY <1>1, <1>2, <1>3, <1>4 DEF SameModel

-----------------------------------------------------------------------------
(* The invariant.                                                          *)

\* What is known of a request at each place of infer().
RequestInv(r) ==
  /\ phase[r] \in {"new", "awaiting"} => reply[r] = Nil
  /\ phase[r] = "awaiting" => looked[r] # Nil /\ output[r] = looked[r].digest
  /\ reply[r] # Nil => reply[r] = looked[r] /\ output[r] = reply[r].digest

IInv == RuntimeInv /\ \A r \in Requests : RequestInv(r)

\* An activation keeps the slots servable.
LEMMA ActivationStep ==
  ASSUME RuntimeInv, NEW s \in Slots, NEW m, Servable(s, m),
         active' = [active EXCEPT ![s] = Actual(s, m)]
  PROVE  active' \in [Slots -> Named \cup {Nil}] /\ ActiveIsServable'
<1>1. active \in [Slots -> Named \cup {Nil}]
  BY DEF RuntimeInv, TypeOK
<1>2. ASSUME NEW q \in Slots, active'[q] # Nil
      PROVE  /\ active'[q].digest \in Handlers
             /\ active'[q] = Available(Offered[q], active'[q])
  <2>1. CASE q = s
    BY <1>1, <2>1, ActualServes
  <2>2. CASE q # s
    BY <1>1, <1>2, <2>2 DEF RuntimeInv, ActiveIsServable
  <2> QED
    BY <2>1, <2>2
<1> QED
  BY <1>1, <1>2, ActualServes DEF ActiveIsServable

LEMMA InitInv == Init => IInv
<1> SUFFICES ASSUME Init PROVE IInv
  OBVIOUS
<1>1. RuntimeInv
  BY DEF Init, RuntimeInv, TypeOK, ActiveIsServable, ContractIsKept, Idle
<1>2. ASSUME NEW r \in Requests PROVE RequestInv(r)
  BY DEF Init, RequestInv
<1> QED
  BY <1>1, <1>2 DEF IInv

\* Reconciliations and activations leave the requests alone.
LEMMA ControlStep ==
  ASSUME IInv, NEW s \in Slots, NEW m \in Named \cup {Nil},
         Reconcile(s, m) \/ (m \in Named /\ Activate(s, m))
  PROVE  IInv'
<1> USE DEF IInv
<1>1. \A r \in Requests : RequestInv(r)'
  BY DEF Reconcile, Activate, RequestInv
<1>2. CASE m \in Named /\ Activate(s, m)
  BY <1>1, <1>2, ActivationStep DEF Activate, RuntimeInv, TypeOK, ContractIsKept
<1>3. CASE Reconcile(s, m)
  <2> DEFINE LastOK == last' \in [slot : Slots \cup {Nil}, selected : Named \cup {Nil},
                           ending : {"none", "kept", "activated", "unavailable"}]
  <2>1. CASE /\ UNCHANGED active
             /\ \E ending \in {"kept", "unavailable"} :
                  last' = [slot |-> s, selected |-> m, ending |-> ending]
    <3>1. LastOK
      BY <2>1
    <3> QED
      BY <1>1, <1>3, <2>1, <3>1 DEF Reconcile, RuntimeInv, TypeOK, ActiveIsServable, ContractIsKept
  <2>2. CASE /\ Servable(s, m)
             /\ active' = [active EXCEPT ![s] = Actual(s, m)]
             /\ last' = [slot |-> s, selected |-> m,
                         ending |-> IF SameModel(active'[s], m) THEN "activated" ELSE "contract"]
    <3>1. active'[s] = Actual(s, m)
      BY <2>2 DEF RuntimeInv, TypeOK
    <3>2. LastOK
      BY <2>2, <3>1, ActualServes
    <3> QED
      BY <1>1, <1>3, <2>2, <3>2, ActivationStep DEF Reconcile, RuntimeInv, TypeOK, ContractIsKept
  <2> QED
    BY <1>3, <2>1, <2>2 DEF Reconcile
<1> QED
  BY <1>2, <1>3

\* Requests leave the slots alone.
LEMMA InferStep ==
  ASSUME IInv, NEW r \in Requests,
         \/ \E s \in Slots : InferRefused(r, s) \/ InferCall(r, s)
         \/ InferReturn(r)
         \/ InferRaises(r)
  PROVE  IInv'
<1>1. ActiveIsServable' /\ ContractIsKept' /\ UNCHANGED <<active, last>>
  BY DEF IInv, RuntimeInv, ActiveIsServable, ContractIsKept, InferRefused, InferCall,
         InferReturn, InferRaises
<1>2. TypeOK'
  BY <1>1 DEF IInv, RuntimeInv, TypeOK, InferRefused, InferCall, InferReturn, InferRaises
<1>3. ASSUME NEW q \in Requests PROVE RequestInv(q)'
  <2>1. CASE q # r
    BY <2>1 DEF IInv, RuntimeInv, TypeOK, RequestInv, InferRefused, InferCall, InferReturn,
                InferRaises
  <2>2. CASE q = r
    BY <2>2 DEF IInv, RuntimeInv, TypeOK, RequestInv, InferRefused, InferCall, InferReturn,
                InferRaises
  <2> QED
    BY <2>1, <2>2
<1> QED
  BY <1>1, <1>2, <1>3 DEF IInv, RuntimeInv

LEMMA StepInv == IInv /\ [Next]_vars => IInv'
<1> SUFFICES ASSUME IInv, [Next]_vars PROVE IInv'
  OBVIOUS
<1>1. CASE UNCHANGED vars
  BY <1>1 DEF vars, IInv, RuntimeInv, TypeOK, ActiveIsServable, ContractIsKept, RequestInv
<1>2. CASE Next
  BY <1>2, ControlStep, InferStep DEF Next
<1> QED
  BY <1>1, <1>2

\* The strengthening of the properties that every step of memory.py preserves.
THEOREM Invariance == Spec => []IInv
  BY InitInv, StepInv, PTL DEF Spec

\* memory.py 51-73: whatever models and handlers are registered, with whatever
\* duplicates, and whatever is selected, an active model can serve and reconcile()
\* never reports a broken contract.
THEOREM RuntimeIsSound == Spec => []RuntimeInv
<1>1. IInv => RuntimeInv
  BY DEF IInv
<1> QED
  BY <1>1, Invariance, PTL

\* memory.py 66-81: an answer names the model whose handler computed it, however
\* many activations happen while the handler runs.
THEOREM AttributionIsRight == Spec => []AnswersAreAttributed
<1>1. IInv => AnswersAreAttributed
  BY DEF IInv, RequestInv, AnswersAreAttributed
<1> QED
  BY <1>1, Invariance, PTL
=============================================================================
