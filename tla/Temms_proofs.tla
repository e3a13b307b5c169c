---------------------------- MODULE Temms_proofs ----------------------------
(***************************************************************************)
(* Proofs about Temms: TEMMS.reconcile and TEMMS.infer over OnnxRuntime,   *)
(* for any number of slots, calls, threads, models and contexts, and for   *)
(* any selector.  The first part is about OnnxRuntime alone, whatever its  *)
(* callers do; its invariants then hold of Temms too, because every step   *)
(* of Temms is a step of the adapter.                                      *)
(***************************************************************************)
EXTENDS Temms, SequenceTheorems, FiniteSetTheorems, TLAPS

(***************************************************************************)
(* The adapter alone: the inductive invariant.                             *)
(***************************************************************************)

\* A call is in the executor at most once, only after it was made, and its
\* future is pending as long as it is there.
PoolInv ==
  /\ IsFiniteSet(running)
  /\ \A i, j \in 1..Len(queue) : queue[i] = queue[j] => i = j
  /\ \A i \in 1..Len(queue) :
       queue[i] \notin running /\ outcome[queue[i]] = "pending" /\ phase[queue[i]] # "idle"
  /\ \A c \in running : outcome[c] = "pending" /\ phase[c] # "idle"
  /\ \A c \in Calls : phase[c] = "idle" => outcome[c] = "pending"

\* An activation that got past _find() has a slot and one of its models; one
\* that returned was loaded.
LoadInv ==
  \A t \in Activations :
    /\ phase[t] \in {"awaiting", "returned"} =>
         target[t] \in Slots /\ config[t] \in Inventory[target[t]]
    /\ phase[t] = "returned" => outcome[t] = "ok"

\* A request that got past the capture has a session; one that has not
\* returned has no result.
CaptureInv ==
  \A r \in Requests :
    /\ phase[r] = "awaiting" => captured[r] # Nil
    /\ phase[r] = "idle" => captured[r] = Nil
    /\ result[r] # Nil => phase[r] = "returned"

AdapterInv ==
  /\ AdapterTypeOK
  /\ PoolInv
  /\ LoadInv
  /\ CaptureInv
  /\ OnlyReturnedActivationsServe
  /\ PinnedInference
  /\ CapturedWasPublished

-----------------------------------------------------------------------------
(* Lemmas about the operators.                                             *)

\* _find() answers with an entry of the slot's inventory that has the identity
\* asked for, or with nothing.
LEMMA FindProperties ==
  ASSUME NEW s \in Slots, NEW m
  PROVE  /\ Find(s, m) \in Inventory[s] \cup {Nil}
         /\ Find(s, m) # Nil => Find(s, m) \in Inventory[s] /\ Identity(Find(s, m)) = Identity(m)
BY DEF Find

\* The models of an inventory are models, and none of them is Nil.
LEMMA InventoryModels ==
  ASSUME NEW s \in Slots, NEW m \in Inventory[s]
  PROVE  m \in Models /\ m # Nil
BY InventoryAssumption, NilAssumption

LEMMA NilIsNobody ==
  /\ Nil \notin Slots /\ Nil \notin Activations /\ Nil \notin Requests /\ Nil \notin Models
  /\ Activations \subseteq Calls /\ Requests \subseteq Calls
  /\ \A t \in Activations : t \notin Requests
BY NilAssumption, CallsAssumption

-----------------------------------------------------------------------------
(* The executor's steps keep it in order.                                  *)

\* Handing over the work of a call just made.
LEMMA SubmitKeepsPool ==
  ASSUME PoolTypeOK, PoolInv, phase \in [Calls -> Phases],
         NEW c \in Calls, phase[c] = "idle", Submit(c),
         phase' = [phase EXCEPT ![c] = "awaiting"]
  PROVE  PoolTypeOK' /\ PoolInv'
<1> USE DEF PoolTypeOK, PoolInv, Submit
<1>1. /\ queue' \in Seq(Calls)
      /\ Len(queue') = Len(queue) + 1
      /\ \A i \in 1..Len(queue) : queue'[i] = queue[i]
      /\ queue'[Len(queue) + 1] = c
  BY AppendProperties
<1>2. \A i \in 1..Len(queue) : queue[i] # c /\ queue[i] \in Calls
  BY ElementOfSeq
<1>3. Len(queue) \in Nat
  BY LenProperties
<1>4. \A d \in Calls : phase'[d] = "idle" => phase[d] = "idle" /\ d # c
  OBVIOUS
<1>5. phase'[c] = "awaiting" /\ \A d \in Calls : phase[d] # "idle" => phase'[d] # "idle"
  OBVIOUS
<1>6. PoolTypeOK'
  BY <1>1
<1>7. \A i, j \in 1..Len(queue') : queue'[i] = queue'[j] => i = j
  BY <1>1, <1>2, <1>3
<1>8. \A i \in 1..Len(queue') : /\ queue'[i] \notin running'
                                /\ outcome'[queue'[i]] = "pending"
                                /\ phase'[queue'[i]] # "idle"
  BY <1>1, <1>2, <1>3, <1>5
<1> QED
  BY <1>4, <1>5, <1>6, <1>7, <1>8

\* A step that leaves the executor alone and makes no call idle again.
LEMMA IdlePool ==
  ASSUME PoolTypeOK, PoolInv, UNCHANGED poolVars,
         \A c \in Calls : phase[c] # "idle" => phase'[c] # "idle"
  PROVE  PoolTypeOK' /\ PoolInv'
<1>1. \A i \in 1..Len(queue) : queue[i] \in Calls
  BY ElementOfSeq DEF PoolTypeOK
<1> QED
  BY <1>1 DEF PoolTypeOK, PoolInv, poolVars

LEMMA StartWorkKeepsPool ==
  ASSUME PoolTypeOK, PoolInv, StartWork, UNCHANGED phase
  PROVE  PoolTypeOK' /\ PoolInv'
<1> USE DEF PoolTypeOK, PoolInv, StartWork
<1>1. /\ Head(queue) \in Calls
      /\ queue' \in Seq(Calls)
      /\ Len(queue') = Len(queue) - 1
      /\ \A i \in 1..Len(queue') : queue'[i] = queue[i + 1]
      /\ Head(queue) = queue[1]
  BY HeadTailProperties
<1>2. Len(queue) \in Nat /\ Len(queue) # 0
  BY LenProperties, EmptySeq
<1>3. Head(queue) \notin running
  BY <1>1, <1>2
<1>4. IsFiniteSet(running') /\ Cardinality(running') = Cardinality(running) + 1
  BY <1>3, FS_AddElement
<1>5. Cardinality(running') <= MaxWorkers
  BY <1>4, FS_CardinalityType, MaxWorkersAssumption
<1>6. PoolTypeOK'
  BY <1>1, <1>5
<1>7. \A i, j \in 1..Len(queue') : queue'[i] = queue'[j] => i = j
  BY <1>1, <1>2
<1>8. \A i \in 1..Len(queue') : queue'[i] # Head(queue) /\ queue'[i] \notin running
  BY <1>1, <1>2
<1>9. \A i \in 1..Len(queue') : outcome[queue'[i]] = "pending" /\ phase[queue'[i]] # "idle"
  BY <1>1, <1>2
<1>10. \A c \in running' : outcome[c] = "pending" /\ phase[c] # "idle"
  BY <1>1, <1>2
<1> QED
  BY <1>4, <1>6, <1>7, <1>8, <1>9, <1>10

LEMMA FinishWorkKeepsPool ==
  ASSUME PoolTypeOK, PoolInv, NEW c \in Calls, NEW o \in {"ok", "failed"},
         FinishWork(c, o), UNCHANGED phase
  PROVE  PoolTypeOK' /\ PoolInv'
<1> USE DEF PoolTypeOK, PoolInv, FinishWork
<1>1. IsFiniteSet(running') /\ Cardinality(running') = Cardinality(running) - 1
  BY FS_RemoveElement
<1>2. PoolTypeOK'
  BY <1>1, FS_CardinalityType, MaxWorkersAssumption
<1>3. \A i \in 1..Len(queue) : queue[i] # c /\ queue[i] \in Calls
  BY ElementOfSeq
<1> QED
  BY <1>1, <1>2, <1>3

\* Removing the i-th element of a sequence shifts the later ones down.
LEMMA RemoveAtProperties ==
  ASSUME NEW S, NEW q \in Seq(S), NEW i \in 1..Len(q)
  PROVE  /\ RemoveAt(q, i) \in Seq(S)
         /\ Len(RemoveAt(q, i)) = Len(q) - 1
         /\ \A j \in 1..(Len(q) - 1) :
              RemoveAt(q, i)[j] = IF j < i THEN q[j] ELSE q[j + 1]
<1> DEFINE front == SubSeq(q, 1, i - 1)
           back  == SubSeq(q, i + 1, Len(q))
<1>1. Len(q) \in Nat /\ \A j \in 1..Len(q) : q[j] \in S
  BY ElementOfSeq, LenProperties
<1>2. /\ front \in Seq(S)
      /\ Len(front) = i - 1
      /\ \A j \in 1..(i - 1) : front[j] = q[j]
  <2>1. \A j \in 1..(i - 1) : q[j] \in S
    BY <1>1
  <2> QED
    BY <1>1, <2>1, SubSeqProperties
<1>3. /\ back \in Seq(S)
      /\ Len(back) = Len(q) - i
      /\ \A j \in 1..(Len(q) - i) : back[j] = q[j + i]
  <2>1. \A j \in (i + 1)..Len(q) : q[j] \in S
    BY <1>1
  <2> QED
    BY <1>1, <2>1, SubSeqProperties
<1> HIDE DEF front, back
<1>4. RemoveAt(q, i) = front \o back
  BY DEF RemoveAt, front, back
<1>5. /\ front \o back \in Seq(S)
      /\ Len(front \o back) = Len(front) + Len(back)
      /\ \A j \in 1..(Len(front) + Len(back)) :
           (front \o back)[j] = IF j <= Len(front) THEN front[j] ELSE back[j - Len(front)]
  BY <1>2, <1>3, ConcatProperties
<1> DEFINE both == front \o back
<1>6. Len(both) = Len(q) - 1 /\ Len(front) + Len(back) = Len(q) - 1
  BY <1>1, <1>2, <1>3, <1>5
<1>7. ASSUME NEW j \in 1..(Len(q) - 1) PROVE both[j] = IF j < i THEN q[j] ELSE q[j + 1]
  <2>1. both[j] = IF j <= i - 1 THEN front[j] ELSE back[j - (i - 1)]
    BY <1>2, <1>5, <1>6
  <2>2. CASE j < i
    BY <1>1, <1>2, <2>1, <2>2
  <2>3. CASE ~(j < i)
    <3>1. j - (i - 1) \in 1..(Len(q) - i) /\ (j - (i - 1)) + i = j + 1
      BY <1>1, <2>3
    <3> QED
      BY <1>1, <1>3, <2>1, <2>3, <3>1
  <2> QED
    BY <2>2, <2>3
<1> QED
  BY <1>4, <1>5, <1>6, <1>7

LEMMA WithdrawKeepsPool ==
  ASSUME PoolTypeOK, PoolInv, NEW c \in Calls, Withdraw(c), UNCHANGED phase
  PROVE  PoolTypeOK' /\ PoolInv'
<1>0. queue \in Seq(Calls) /\ Len(queue) \in Nat
  BY LenProperties DEF PoolTypeOK
<1>1. PICK i \in 1..Len(queue) : queue' = RemoveAt(queue, i)
  BY <1>0 DEF Withdraw
<1>2. /\ queue' \in Seq(Calls)
      /\ Len(queue') = Len(queue) - 1
      /\ \A j \in 1..(Len(queue) - 1) : queue'[j] = IF j < i THEN queue[j] ELSE queue[j + 1]
  BY <1>0, <1>1, RemoveAtProperties
<1>3. \A j \in 1..Len(queue') : \E k \in 1..Len(queue) :
        queue'[j] = queue[k] /\ k = IF j < i THEN j ELSE j + 1
  BY <1>0, <1>2
<1>4. \A j, k \in 1..Len(queue') : queue'[j] = queue'[k] => j = k
  <2> SUFFICES ASSUME NEW j \in 1..Len(queue'), NEW k \in 1..Len(queue'),
                      queue'[j] = queue'[k]
               PROVE  j = k
    OBVIOUS
  <2>1. PICK a \in 1..Len(queue) : queue'[j] = queue[a] /\ a = IF j < i THEN j ELSE j + 1
    BY <1>3
  <2>2. PICK b \in 1..Len(queue) : queue'[k] = queue[b] /\ b = IF k < i THEN k ELSE k + 1
    BY <1>3
  <2>3. a = b
    BY <2>1, <2>2 DEF PoolInv
  <2>4. j \in Int /\ k \in Int /\ i \in Int
    BY <1>0, <1>2
  <2> QED
    BY <2>1, <2>2, <2>3, <2>4
<1>5. \A j \in 1..Len(queue') : /\ queue'[j] \notin running
                                /\ outcome[queue'[j]] = "pending"
                                /\ phase[queue'[j]] # "idle"
  BY <1>3 DEF PoolInv
<1>6. UNCHANGED <<running, outcome, phase>>
  BY DEF Withdraw
<1>7. PoolTypeOK'
  BY <1>2, <1>6 DEF PoolTypeOK
<1> QED
  BY <1>4, <1>5, <1>6, <1>7 DEF PoolInv

-----------------------------------------------------------------------------
(* The adapter's steps.                                                    *)

\* Initially the adapter's invariant holds.
LEMMA AdapterInitInv == AdapterInit => AdapterInv
<1> SUFFICES ASSUME AdapterInit PROVE AdapterInv
  OBVIOUS
<1> USE DEF AdapterInit, PoolInit, OnnxInit
<1>1. PoolTypeOK
  <2>1. Cardinality({}) = 0 /\ IsFiniteSet({})
    BY FS_EmptySet
  <2> QED
    BY <2>1, MaxWorkersAssumption, EmptySeq DEF PoolTypeOK
<1>2. OnnxTypeOK
  BY NilIsNobody DEF OnnxTypeOK, Phases
<1>3. PoolInv
  BY FS_EmptySet DEF PoolInv
<1> QED
  BY <1>1, <1>2, <1>3, NilIsNobody
  DEF AdapterInv, AdapterTypeOK, LoadInv, CaptureInv, OnlyReturnedActivationsServe,
      PinnedInference, CapturedWasPublished

LEMMA UnavailableStep ==
  ASSUME AdapterInv, NEW t \in Activations, NEW s \in Slots, NEW m,
         ActivateUnavailable(t, s, m)
  PROVE  AdapterInv'
<1> USE NilIsNobody DEF AdapterInv, AdapterTypeOK, ActivateUnavailable
<1>1. PoolTypeOK' /\ PoolInv'
  <2>1. \A c \in Calls : phase[c] # "idle" => phase'[c] # "idle"
    BY DEF OnnxTypeOK
  <2> QED
    BY <2>1, IdlePool
<1>2. OnnxTypeOK'
  BY DEF OnnxTypeOK, Phases
<1>3. LoadInv' /\ CaptureInv'
  BY DEF LoadInv, CaptureInv, OnnxTypeOK, poolVars
<1>4. OnlyReturnedActivationsServe' /\ PinnedInference' /\ CapturedWasPublished'
  BY DEF OnlyReturnedActivationsServe, PinnedInference, CapturedWasPublished,
         OnnxTypeOK, poolVars
<1> QED
  BY <1>1, <1>2, <1>3, <1>4

LEMMA BeginStep ==
  ASSUME AdapterInv, NEW t \in Activations, NEW s \in Slots, NEW m,
         ActivateBegin(t, s, m)
  PROVE  AdapterInv'
<1> USE NilIsNobody DEF AdapterInv, AdapterTypeOK, ActivateBegin
<1>1. PoolTypeOK' /\ PoolInv'
  BY SubmitKeepsPool DEF OnnxTypeOK
<1>2. Find(s, m) \in Inventory[s] /\ Find(s, m) \in Models
  BY FindProperties, InventoryModels
<1>3. OnnxTypeOK'
  BY <1>2 DEF OnnxTypeOK, Phases
<1>4. outcome' = outcome
  BY DEF Submit
<1>5. LoadInv' /\ CaptureInv'
  BY <1>2, <1>4 DEF LoadInv, CaptureInv, OnnxTypeOK
<1>6. OnlyReturnedActivationsServe' /\ PinnedInference' /\ CapturedWasPublished'
  BY <1>4 DEF OnlyReturnedActivationsServe, PinnedInference, CapturedWasPublished,
         OnnxTypeOK
<1> QED
  BY <1>1, <1>3, <1>5, <1>6

LEMMA PublishStep ==
  ASSUME AdapterInv, NEW t \in Activations, ActivatePublish(t)
  PROVE  AdapterInv'
<1> USE NilIsNobody DEF AdapterInv, AdapterTypeOK, ActivatePublish
<1>1. PoolTypeOK' /\ PoolInv'
  <2>1. \A c \in Calls : phase[c] # "idle" => phase'[c] # "idle"
    BY DEF OnnxTypeOK
  <2> QED
    BY <2>1, IdlePool
<1>2. target[t] \in Slots /\ config[t] \in Inventory[target[t]]
  BY DEF LoadInv
<1>3. OnnxTypeOK'
  BY <1>2 DEF OnnxTypeOK, Phases
<1>4. LoadInv' /\ CaptureInv'
  BY DEF LoadInv, CaptureInv, OnnxTypeOK, poolVars
<1>5. OnlyReturnedActivationsServe'
  BY <1>2 DEF OnlyReturnedActivationsServe, OnnxTypeOK, poolVars
<1>6. PinnedInference' /\ CapturedWasPublished'
  BY DEF PinnedInference, CapturedWasPublished, OnnxTypeOK
<1> QED
  BY <1>1, <1>3, <1>4, <1>5, <1>6

LEMMA RaiseStep ==
  ASSUME AdapterInv, NEW c \in Calls, Raise(c) \/ Cancel(c)
  PROVE  AdapterInv'
<1>1. /\ phase[c] = "awaiting"
      /\ phase' = [phase EXCEPT ![c] = "raised"] \/ phase' = [phase EXCEPT ![c] = "cancelled"]
      /\ UNCHANGED <<active, resources, target, config, changed, captured, result>>
      /\ UNCHANGED poolVars
  BY DEF Raise, Cancel
<1> USE <1>1, NilIsNobody DEF AdapterInv, AdapterTypeOK
<1>2. PoolTypeOK' /\ PoolInv'
  <2>1. \A d \in Calls : phase[d] # "idle" => phase'[d] # "idle"
    BY DEF OnnxTypeOK
  <2> QED
    BY <2>1, IdlePool
<1>3. OnnxTypeOK'
  BY DEF OnnxTypeOK, Phases
<1>4. LoadInv' /\ CaptureInv'
  BY DEF LoadInv, CaptureInv, OnnxTypeOK, poolVars
<1>5. OnlyReturnedActivationsServe' /\ PinnedInference' /\ CapturedWasPublished'
  BY DEF OnlyReturnedActivationsServe, PinnedInference, CapturedWasPublished,
         OnnxTypeOK, poolVars
<1> QED
  BY <1>2, <1>3, <1>4, <1>5

LEMMA NoActiveModelStep ==
  ASSUME AdapterInv, NEW r \in Requests, NEW s \in Slots, InferNoActiveModel(r, s)
  PROVE  AdapterInv'
<1> USE NilIsNobody DEF AdapterInv, AdapterTypeOK, InferNoActiveModel
<1>1. PoolTypeOK' /\ PoolInv'
  <2>1. \A c \in Calls : phase[c] # "idle" => phase'[c] # "idle"
    BY DEF OnnxTypeOK
  <2> QED
    BY <2>1, IdlePool
<1>2. OnnxTypeOK'
  BY DEF OnnxTypeOK, Phases
<1>3. LoadInv' /\ CaptureInv'
  BY DEF LoadInv, CaptureInv, OnnxTypeOK, poolVars
<1>4. OnlyReturnedActivationsServe' /\ PinnedInference' /\ CapturedWasPublished'
  BY DEF OnlyReturnedActivationsServe, PinnedInference, CapturedWasPublished, CaptureInv,
         OnnxTypeOK, poolVars
<1> QED
  BY <1>1, <1>2, <1>3, <1>4

LEMMA AdmitStep ==
  ASSUME AdapterInv, NEW r \in Requests, NEW s \in Slots, InferAdmit(r, s)
  PROVE  AdapterInv'
<1> USE NilIsNobody DEF AdapterInv, AdapterTypeOK, InferAdmit
<1>1. PoolTypeOK' /\ PoolInv'
  BY SubmitKeepsPool DEF OnnxTypeOK
<1>2. active[s] \in Activations /\ phase[active[s]] = "returned" /\ target[active[s]] = s
  BY DEF OnnxTypeOK, OnlyReturnedActivationsServe
<1>3. OnnxTypeOK'
  BY <1>2 DEF OnnxTypeOK, Phases
<1>4. outcome' = outcome
  BY DEF Submit
<1>5. LoadInv' /\ CaptureInv'
  BY <1>2, <1>4 DEF LoadInv, CaptureInv, OnnxTypeOK
<1>6. OnlyReturnedActivationsServe'
  BY <1>4 DEF OnlyReturnedActivationsServe, OnnxTypeOK
<1>7. PinnedInference'
  BY DEF PinnedInference, CaptureInv, OnnxTypeOK
<1>8. CapturedWasPublished'
  BY <1>2 DEF CapturedWasPublished, CaptureInv, OnnxTypeOK
<1> QED
  BY <1>1, <1>3, <1>5, <1>6, <1>7, <1>8

LEMMA ReturnStep ==
  ASSUME AdapterInv, NEW r \in Requests, InferReturn(r)
  PROVE  AdapterInv'
<1> USE NilIsNobody DEF AdapterInv, AdapterTypeOK, InferReturn
<1>1. PoolTypeOK' /\ PoolInv'
  <2>1. \A c \in Calls : phase[c] # "idle" => phase'[c] # "idle"
    BY DEF OnnxTypeOK
  <2> QED
    BY <2>1, IdlePool
<1>2. captured[r] \in Activations /\ config[captured[r]] \in Models
  <2>1. captured[r] \in Activations
    BY DEF CaptureInv, OnnxTypeOK
  <2>2. phase[captured[r]] = "returned"
    BY <2>1 DEF CapturedWasPublished
  <2> QED
    BY <2>1, <2>2, InventoryModels DEF LoadInv
<1>3. OnnxTypeOK'
  BY <1>2 DEF OnnxTypeOK, Phases
<1>4. LoadInv' /\ CaptureInv'
  BY DEF LoadInv, CaptureInv, OnnxTypeOK, poolVars
<1>5. OnlyReturnedActivationsServe' /\ CapturedWasPublished'
  BY DEF OnlyReturnedActivationsServe, CapturedWasPublished, OnnxTypeOK, poolVars
<1>6. PinnedInference'
  BY <1>2 DEF PinnedInference, OnnxTypeOK
<1> QED
  BY <1>1, <1>3, <1>4, <1>5, <1>6

\* The executor's threads touch nothing but the executor; the outcome of an
\* item that is over never changes again.
LEMMA ThreadStep ==
  ASSUME AdapterInv, UNCHANGED onnxVars, PoolTypeOK', PoolInv',
         \A c \in Calls : outcome[c] = "ok" => outcome'[c] = "ok"
  PROVE  AdapterInv'
<1> USE NilIsNobody DEF AdapterInv, AdapterTypeOK, onnxVars
<1>1. OnnxTypeOK'
  BY DEF OnnxTypeOK
<1>2. LoadInv' /\ CaptureInv'
  BY DEF LoadInv, CaptureInv
<1>3. OnlyReturnedActivationsServe'
  BY DEF OnlyReturnedActivationsServe, OnnxTypeOK
<1>4. PinnedInference' /\ CapturedWasPublished'
  BY DEF PinnedInference, CapturedWasPublished
<1> QED
  BY <1>1, <1>2, <1>3, <1>4

-----------------------------------------------------------------------------
(* The theorems about the adapter.                                         *)

\* Every step of the adapter, whoever makes the calls, keeps the invariant.
LEMMA AdapterStepInv == AdapterInv /\ [OnnxNext]_adapterVars => AdapterInv'
<1> SUFFICES ASSUME AdapterInv, [OnnxNext]_adapterVars PROVE AdapterInv'
  OBVIOUS
<1>1. ASSUME NEW t \in Activations, NEW s \in Slots, NEW m \in Models,
             ActivateUnavailable(t, s, m) \/ ActivateBegin(t, s, m)
      PROVE  AdapterInv'
  BY <1>1, UnavailableStep, BeginStep
<1>2. ASSUME NEW t \in Activations, ActivatePublish(t)
      PROVE  AdapterInv'
  BY <1>2, PublishStep
<1>3. ASSUME NEW r \in Requests, NEW s \in Slots,
             InferNoActiveModel(r, s) \/ InferAdmit(r, s)
      PROVE  AdapterInv'
  BY <1>3, NoActiveModelStep, AdmitStep
<1>4. ASSUME NEW r \in Requests, InferReturn(r)
      PROVE  AdapterInv'
  BY <1>4, ReturnStep
<1>5. ASSUME NEW c \in Calls, Raise(c) \/ Cancel(c)
      PROVE  AdapterInv'
  BY <1>5, RaiseStep
<1>6. ASSUME NEW c \in Calls, WithdrawCancelled(c)
      PROVE  AdapterInv'
  <2>1. PoolTypeOK' /\ PoolInv' /\ UNCHANGED onnxVars /\ outcome' = outcome
    BY <1>6, WithdrawKeepsPool
    DEF WithdrawCancelled, Withdraw, AdapterInv, AdapterTypeOK, onnxVars
  <2> QED
    BY <2>1, ThreadStep
<1>7. ASSUME NEW c \in Calls, NEW o \in {"ok", "failed"}, FinishThread(c, o)
      PROVE  AdapterInv'
  <2>1. PoolTypeOK' /\ PoolInv' /\ UNCHANGED onnxVars
    BY <1>7, FinishWorkKeepsPool DEF FinishThread, AdapterInv, AdapterTypeOK, onnxVars
  <2>2. outcome[c] = "pending" /\ outcome' = [outcome EXCEPT ![c] = o]
    BY <1>7 DEF FinishThread, FinishWork, AdapterInv, PoolInv
  <2>3. \A d \in Calls : outcome[d] = "ok" => outcome'[d] = "ok"
    BY <2>2 DEF AdapterInv, AdapterTypeOK, PoolTypeOK
  <2> QED
    BY <2>1, <2>3, ThreadStep
<1>8. ASSUME NEW v \in Resources, UpdateResources(v)
      PROVE  AdapterInv'
  BY <1>8 DEF UpdateResources, poolVars, AdapterInv, AdapterTypeOK, PoolTypeOK, OnnxTypeOK,
    PoolInv, LoadInv, CaptureInv, OnlyReturnedActivationsServe, PinnedInference,
    CapturedWasPublished
<1>9. CASE StartThread
  <2>1. PoolTypeOK' /\ PoolInv' /\ UNCHANGED onnxVars /\ outcome' = outcome
    BY <1>9, StartWorkKeepsPool
    DEF StartThread, StartWork, AdapterInv, AdapterTypeOK, onnxVars
  <2> QED
    BY <2>1, ThreadStep
<1>10. CASE UNCHANGED adapterVars
  BY <1>10 DEF adapterVars, AdapterInv, AdapterTypeOK, PoolTypeOK, OnnxTypeOK,
    PoolInv, LoadInv, CaptureInv, OnlyReturnedActivationsServe, PinnedInference,
    CapturedWasPublished
<1> QED
  BY <1>1, <1>2, <1>3, <1>4, <1>5, <1>6, <1>7, <1>8, <1>9, <1>10 DEF OnnxNext

\* The adapter's state always has its type, including the bound on threads.
THEOREM AdapterTyping == AdapterSpec => []AdapterTypeOK
<1>1. AdapterInv => AdapterTypeOK
  BY DEF AdapterInv
<1> QED
  BY <1>1, AdapterInitInv, AdapterStepInv, PTL DEF AdapterSpec

\* Whatever serves a slot was loaded for that slot by an activation that
\* returned: no cancelled or failed activation ever publishes.
THEOREM ServedSessionsWereReturned == AdapterSpec => []OnlyReturnedActivationsServe
<1>1. AdapterInv => OnlyReturnedActivationsServe
  BY DEF AdapterInv
<1> QED
  BY <1>1, AdapterInitInv, AdapterStepInv, PTL DEF AdapterSpec

\* Every inference result is the captured session's, by name and by output.
THEOREM InferenceIsPinned == AdapterSpec => [](PinnedInference /\ CapturedWasPublished)
<1>1. AdapterInv => PinnedInference /\ CapturedWasPublished
  BY DEF AdapterInv
<1> QED
  BY <1>1, AdapterInitInv, AdapterStepInv, PTL DEF AdapterSpec

\* A running inference keeps its session and the session its model.
THEOREM CaptureIsForLife == AdapterSpec => CapturedForLife
<1>1. AdapterInv /\ [OnnxNext]_adapterVars => [SessionsAreKept]_adapterVars
  <2> SUFFICES ASSUME AdapterInv, OnnxNext, NEW r \in Requests, captured[r] # Nil
               PROVE  captured'[r] = captured[r] /\ config'[captured[r]] = config[captured[r]]
    BY DEF SessionsAreKept
  <2> USE DEF AdapterInv, AdapterTypeOK, OnnxTypeOK
  <2>1. captured[r] \in Activations /\ phase[captured[r]] = "returned"
    BY NilIsNobody DEF CapturedWasPublished
  <2>2. phase[r] # "idle"
    BY DEF CaptureInv
  <2>3. ASSUME NEW t \in Activations, NEW s \in Slots, NEW m, ActivateBegin(t, s, m)
        PROVE  captured' = captured /\ config'[captured[r]] = config[captured[r]]
    BY <2>1, <2>3 DEF ActivateBegin
  <2>4. ASSUME NEW q \in Requests, NEW s \in Slots, InferAdmit(q, s)
        PROVE  captured'[r] = captured[r] /\ config' = config
    BY <2>2, <2>4 DEF InferAdmit
  <2>5. CASE UNCHANGED <<captured, config>>
    BY <2>5
  <2> QED
    BY <2>3, <2>4, <2>5
    DEF OnnxNext, ActivateUnavailable, ActivatePublish, InferNoActiveModel, InferReturn,
        Raise, Cancel, WithdrawCancelled, FinishThread, UpdateResources, StartThread, onnxVars
<1> QED
  BY <1>1, AdapterInitInv, AdapterStepInv, PTL DEF AdapterSpec, CapturedForLife


(***************************************************************************)
(* TEMMS over the adapter: the inductive invariant.                        *)
(***************************************************************************)

\* What a reconciliation is doing inside the runtime: it awaits a load exactly
\* while it is activating, for its slot and for the model it selected.
CallInv ==
  \A t \in Reconciles :
    /\ stage[t] # "new" => slot[t] \in Slots /\ context[t] \in Contexts
    /\ stage[t] = "activating" <=> phase[t] = "awaiting"
    /\ stage[t] = "activating" =>
         target[t] = slot[t] /\ SameModel(config[t], selected[t])

EngineInv ==
  /\ EngineTypeOK
  /\ CallInv
  /\ LockSpansTransaction
  /\ ContractIsKept

\* What holds beyond that when nobody activates behind the back of TEMMS.
OwnerInv ==
  /\ DecisionStaysFresh
  /\ \A t \in Reconciles : stage[t] = "activating" => ~SameModel(before[t], selected[t])
  /\ ActivationIsAChange

IInv == AdapterInv /\ EngineInv

-----------------------------------------------------------------------------
(* What a reconciliation reads and decides.                                *)

LEMMA ReconcilesAreActivations ==
  /\ Reconciles \subseteq Activations /\ Direct \subseteq Activations
  /\ Reconciles \subseteq Calls /\ Direct \subseteq Calls
  /\ \A t \in Reconciles : t \notin Direct /\ t \notin Requests /\ t # Nil
BY ReconcilesAssumption, CallsAssumption, NilAssumption

LEMMA ActiveModelType ==
  ASSUME AdapterInv, NEW s \in Slots
  PROVE  /\ ActiveModel(s) \in Models \cup {Nil}
         /\ active[s] # Nil => active[s] \in Activations /\ phase[active[s]] = "returned"
<1>1. active[s] # Nil => active[s] \in Activations /\ phase[active[s]] = "returned"
                         /\ config[active[s]] \in Inventory[s]
  BY DEF AdapterInv, AdapterTypeOK, OnnxTypeOK, OnlyReturnedActivationsServe
<1> QED
  BY <1>1, InventoryModels DEF ActiveModel, ModelOf

LEMMA DecisionType ==
  ASSUME AdapterInv, NEW s \in Slots, NEW c \in Contexts
  PROVE  /\ Decision(s, c) \in Models \cup {Nil}
         /\ ~NothingToActivate(s, c) =>
              Decision(s, c) \in Models /\ ~SameModel(ActiveModel(s), Decision(s, c))
BY ActiveModelType, SelectedModelAssumption
DEF Decision, NothingToActivate, AdapterInv, AdapterTypeOK, OnnxTypeOK

-----------------------------------------------------------------------------
(* Every step of Temms is a step of the adapter.                           *)

\* A transaction makes at most one activate() call, of a model that exists.
LEMMA TransactionIsAdapterStep ==
  ASSUME AdapterInv, NEW t \in Reconciles, NEW s \in Slots, NEW c \in Contexts,
         Transaction(t, s, c)
  PROVE  [OnnxNext]_adapterVars
<1>1. CASE Keep(t, s, c)
  BY <1>1 DEF Keep, onnxVars, poolVars, adapterVars
<1>2. CASE ~NothingToActivate(s, c) /\ (\/ ActivateUnavailable(t, s, Decision(s, c))
                                        \/ ActivateBegin(t, s, Decision(s, c)))
  BY <1>2, DecisionType, ReconcilesAreActivations DEF OnnxNext
<1> QED
  BY <1>1, <1>2 DEF Transaction, Refuse, Start

LEMMA NextIsAdapterStep == IInv /\ [Next]_vars => [OnnxNext]_adapterVars
<1> SUFFICES ASSUME IInv, [Next]_vars PROVE [OnnxNext]_adapterVars
  OBVIOUS
<1> USE ReconcilesAreActivations
<1>1. ASSUME NEW t \in Reconciles, NEW s \in Slots, NEW c \in Contexts, CallAndEnter(t, s, c)
      PROVE  [OnnxNext]_adapterVars
  BY <1>1, TransactionIsAdapterStep DEF CallAndEnter, IInv
<1>2. ASSUME NEW t \in Reconciles, Enter(t)
      PROVE  [OnnxNext]_adapterVars
  <2>1. slot[t] \in Slots /\ context[t] \in Contexts
    BY <1>2 DEF Enter, IInv, EngineInv, CallInv
  <2> QED
    BY <1>2, <2>1, TransactionIsAdapterStep DEF Enter, IInv
<1>3. ASSUME NEW t \in Reconciles, Complete(t) \/ Fail(t) \/ CancelActivating(t)
      PROVE  [OnnxNext]_adapterVars
  BY <1>3 DEF Complete, Fail, CancelActivating, OnnxNext
<1>4. ASSUME NEW t \in Reconciles,
             CancelQueued(t) \/ \E s \in Slots, c \in Contexts : CallAndWait(t, s, c)
      PROVE  [OnnxNext]_adapterVars
  BY <1>4 DEF CancelQueued, CallAndWait, onnxVars, poolVars, adapterVars
<1>5. CASE Infer
  BY <1>5, NilIsNobody DEF Infer, OnnxNext
<1>6. CASE DirectActivate
  BY <1>6 DEF DirectActivate, OnnxNext
<1>7. CASE Environment
  BY <1>7 DEF Environment, OnnxNext
<1>8. CASE UNCHANGED vars
  BY <1>8 DEF vars, adapterVars
<1> QED
  BY <1>1, <1>2, <1>3, <1>4, <1>5, <1>6, <1>7, <1>8 DEF Next

-----------------------------------------------------------------------------
(* The engine's steps.                                                     *)

\* A transaction that finds the lock free takes it if it suspends, and leaves
\* it free if it does not.
LEMMA TransactionStep ==
  ASSUME IInv, NEW t \in Reconciles, NEW s \in Slots, NEW c \in Contexts,
         stage[t] \in {"new", "queued"}, Unlocked(s), Transaction(t, s, c),
         waiters' \in [Slots -> Seq(Reconciles)]
  PROVE  EngineInv'
<1> USE ReconcilesAreActivations
    DEF IInv, EngineInv, EngineTypeOK, CallInv, LockSpansTransaction, ContractIsKept,
        Unlocked, Stages, Endings
<1>1. ActiveModel(s) \in Models \cup {Nil} /\ Decision(s, c) \in Models \cup {Nil}
  BY ActiveModelType, DecisionType
<1>2. /\ slot' = [slot EXCEPT ![t] = s]
      /\ context' = [context EXCEPT ![t] = c]
      /\ before' = [before EXCEPT ![t] = ActiveModel(s)]
      /\ selected' = [selected EXCEPT ![t] = Decision(s, c)]
  BY DEF Transaction, Keep, Refuse, Start, Decide
<1>3. CASE Keep(t, s, c)
  <2>1. UNCHANGED <<phase, target, config>>
    BY <1>3 DEF Keep, onnxVars
  <2>2. EngineTypeOK'
    BY <1>1, <1>2, <1>3 DEF Keep
  <2> QED
    BY <1>2, <1>3, <2>1, <2>2 DEF Keep
<1>4. CASE Refuse(t, s, c)
  <2>1. /\ phase' = [phase EXCEPT ![t] = "raised"]
        /\ target' = [target EXCEPT ![t] = s]
        /\ config' = config
        /\ phase \in [Calls -> Phases] /\ target \in [Calls -> Slots \cup {Nil}]
    BY <1>4 DEF Refuse, ActivateUnavailable, AdapterInv, AdapterTypeOK, OnnxTypeOK
  <2>2. EngineTypeOK'
    BY <1>1, <1>2, <1>4 DEF Refuse
  <2> QED
    BY <1>2, <1>4, <2>1, <2>2 DEF Refuse
<1>5. CASE Start(t, s, c)
  <2>1. /\ phase' = [phase EXCEPT ![t] = "awaiting"]
        /\ target' = [target EXCEPT ![t] = s]
        /\ config' = [config EXCEPT ![t] = Find(s, Decision(s, c))]
        /\ phase \in [Calls -> Phases] /\ target \in [Calls -> Slots \cup {Nil}]
        /\ config \in [Activations -> Models \cup {Nil}]
    BY <1>5 DEF Start, ActivateBegin, AdapterInv, AdapterTypeOK, OnnxTypeOK
  <2>2. SameModel(Find(s, Decision(s, c)), Decision(s, c))
    BY <1>5, FindProperties DEF Start, ActivateBegin, SameModel
  <2>3. EngineTypeOK'
    BY <1>1, <1>2, <1>5 DEF Start
  <2>4. CallInv'
    BY <1>2, <1>5, <2>1, <2>2 DEF Start
  <2>5. LockSpansTransaction'
    BY <1>2, <1>5 DEF Start
  <2> QED
    BY <1>5, <2>3, <2>4, <2>5 DEF Start
<1> QED
  BY <1>3, <1>4, <1>5 DEF Transaction

\* Leaving the transaction by any way gives the lock back.
LEMMA LeaveStep ==
  ASSUME IInv, NEW t \in Reconciles, NEW how \in Endings \ {"contract"}, Leave(t, how),
         NEW p \in Phases \ {"awaiting"}, phase' = [phase EXCEPT ![t] = p],
         UNCHANGED <<target, config>>
  PROVE  EngineInv'
<1> USE ReconcilesAreActivations
    DEF IInv, EngineInv, EngineTypeOK, Leave, Stages, Endings
<1>1. slot[t] \in Slots /\ holder[slot[t]] = t
  BY DEF CallInv, LockSpansTransaction
<1>2. EngineTypeOK'
  OBVIOUS
<1>3. CallInv'
  BY DEF CallInv, AdapterInv, AdapterTypeOK, OnnxTypeOK
<1>4. LockSpansTransaction'
  BY <1>1 DEF LockSpansTransaction, CallInv
<1>5. ContractIsKept'
  BY DEF ContractIsKept
<1> QED
  BY <1>2, <1>3, <1>4, <1>5

\* Steps of the adapter that leave the engine and its activations alone.
LEMMA AdapterOnlyStep ==
  ASSUME IInv, UNCHANGED engineVars,
         \A t \in Reconciles :
           phase'[t] = phase[t] /\ target'[t] = target[t] /\ config'[t] = config[t]
  PROVE  EngineInv'
BY DEF IInv, EngineInv, EngineTypeOK, CallInv, LockSpansTransaction, ContractIsKept, engineVars

\* A call that waits, and one that gives up waiting, only change the line.
LEMMA QueueStep ==
  ASSUME IInv, NEW t \in Reconciles, stage[t] \in {"new", "queued"},
         NEW g \in {"queued", "ended"}, stage' = [stage EXCEPT ![t] = g],
         NEW s \in Slots, slot' = [slot EXCEPT ![t] = s],
         NEW c \in Contexts, context' = [context EXCEPT ![t] = c],
         NEW e \in Endings \ {"contract"}, ending' = [ending EXCEPT ![t] = e],
         waiters' \in [Slots -> Seq(Reconciles)],
         UNCHANGED <<holder, before, selected, phase, target, config>>
  PROVE  EngineInv'
<1> USE ReconcilesAreActivations DEF IInv, EngineInv, EngineTypeOK, Stages, Endings
<1>1. EngineTypeOK'
  OBVIOUS
<1>2. CallInv'
  BY DEF CallInv
<1>3. LockSpansTransaction'
  BY DEF LockSpansTransaction
<1>4. ContractIsKept'
  BY DEF ContractIsKept
<1> QED
  BY <1>1, <1>2, <1>3, <1>4

\* No inference, direct activation or step of the environment touches a call
\* that TEMMS made.
LEMMA OthersLeaveReconciles ==
  ASSUME AdapterInv, Infer \/ DirectActivate \/ Environment
  PROVE  /\ UNCHANGED engineVars
         /\ \A t \in Reconciles :
              phase'[t] = phase[t] /\ target'[t] = target[t] /\ config'[t] = config[t]
              /\ changed'[t] = changed[t]
<1> USE ReconcilesAreActivations, NilIsNobody DEF AdapterInv, AdapterTypeOK, OnnxTypeOK
<1>1. CASE Infer
  BY <1>1 DEF Infer, InferNoActiveModel, InferAdmit, InferReturn, Raise, Cancel
<1>2. CASE DirectActivate
  BY <1>2
  DEF DirectActivate, ActivateUnavailable, ActivateBegin, ActivatePublish, Raise, Cancel
<1>3. CASE Environment
  BY <1>3
  DEF Environment, UpdateResources, StartThread, WithdrawCancelled, FinishThread, onnxVars
<1> QED
  BY <1>1, <1>2, <1>3

LEMMA EngineStepInv == IInv /\ [Next]_vars => EngineInv'
<1> SUFFICES ASSUME IInv, [Next]_vars PROVE EngineInv'
  OBVIOUS
<1>0. waiters \in [Slots -> Seq(Reconciles)] /\ ending \in [Reconciles -> Endings]
  BY DEF IInv, EngineInv, EngineTypeOK
<1>1. ASSUME NEW t \in Reconciles, NEW s \in Slots, NEW c \in Contexts, CallAndEnter(t, s, c)
      PROVE  EngineInv'
  BY <1>0, <1>1, TransactionStep DEF CallAndEnter, LockFree
<1>2. ASSUME NEW t \in Reconciles, NEW s \in Slots, NEW c \in Contexts, CallAndWait(t, s, c)
      PROVE  EngineInv'
  <2>1. waiters' \in [Slots -> Seq(Reconciles)]
    BY <1>0, <1>2, AppendProperties DEF CallAndWait
  <2>2. ending[t] \in Endings \ {"contract"} /\ ending' = [ending EXCEPT ![t] = ending[t]]
    BY <1>0, <1>2 DEF CallAndWait, IInv, EngineInv, ContractIsKept
  <2> QED
    BY <1>2, <2>1, <2>2, QueueStep DEF CallAndWait, onnxVars
<1>3. ASSUME NEW t \in Reconciles, Enter(t)
      PROVE  EngineInv'
  <2>1. slot[t] \in Slots /\ context[t] \in Contexts
    BY <1>3 DEF Enter, IInv, EngineInv, CallInv
  <2>2. Tail(waiters[slot[t]]) \in Seq(Reconciles)
    BY <1>0, <1>3, <2>1, HeadTailProperties DEF Enter
  <2>3. waiters' \in [Slots -> Seq(Reconciles)]
    BY <1>0, <1>3, <2>2 DEF Enter
  <2> QED
    BY <1>3, <2>1, <2>3, TransactionStep DEF Enter
<1>4. ASSUME NEW t \in Reconciles, Complete(t)
      PROVE  EngineInv'
  <2>1. stage[t] = "activating" /\ slot[t] \in Slots /\ target[t] = slot[t]
        /\ SameModel(config[t], selected[t])
    BY <1>4 DEF Complete, Leave, IInv, EngineInv, CallInv
  <2>2. active'[slot[t]] = t /\ t # Nil
    BY <1>4, <2>1, ReconcilesAreActivations
    DEF Complete, ActivatePublish, IInv, AdapterInv, AdapterTypeOK, OnnxTypeOK
  <2>3. SameModel(ModelOf(active'[slot[t]]), selected[t])
    BY <2>1, <2>2 DEF ModelOf
  <2>4. Leave(t, "activated")
    BY <1>4, <2>1, <2>3 DEF Complete
  <2> QED
    BY <1>4, <2>4, LeaveStep DEF Complete, ActivatePublish, Endings, Phases
<1>5. ASSUME NEW t \in Reconciles, Fail(t)
      PROVE  EngineInv'
  BY <1>5, LeaveStep DEF Fail, Raise, Endings, Phases
<1>6. ASSUME NEW t \in Reconciles, CancelActivating(t)
      PROVE  EngineInv'
  BY <1>6, LeaveStep DEF CancelActivating, Cancel, Endings, Phases
<1>7. ASSUME NEW t \in Reconciles, CancelQueued(t)
      PROVE  EngineInv'
  <2>1. slot[t] \in Slots
    BY <1>7 DEF CancelQueued, IInv, EngineInv, CallInv
  <2>2. waiters[slot[t]] \in Seq(Reconciles)
    BY <1>0, <2>1
  <2>3. PICK i \in 1..Len(waiters[slot[t]]) :
          waiters' = [waiters EXCEPT ![slot[t]] = RemoveAt(@, i)]
    BY <1>7, <2>2, LenProperties DEF CancelQueued
  <2>4. RemoveAt(waiters[slot[t]], i) \in Seq(Reconciles)
    BY <2>2, RemoveAtProperties
  <2>5. waiters' \in [Slots -> Seq(Reconciles)]
    BY <1>0, <2>3, <2>4
  <2>6. /\ slot' = [slot EXCEPT ![t] = slot[t]]
        /\ context[t] \in Contexts /\ context' = [context EXCEPT ![t] = context[t]]
    BY <1>7 DEF CancelQueued, IInv, EngineInv, EngineTypeOK, CallInv
  <2> QED
    BY <1>7, <2>1, <2>5, <2>6, QueueStep DEF CancelQueued, onnxVars, Endings
<1>8. CASE Infer \/ DirectActivate \/ Environment
  BY <1>8, OthersLeaveReconciles, AdapterOnlyStep DEF IInv
<1>9. CASE UNCHANGED vars
  BY <1>9, AdapterOnlyStep DEF vars, engineVars
<1> QED
  BY <1>1, <1>2, <1>3, <1>4, <1>5, <1>6, <1>7, <1>8, <1>9 DEF Next

LEMMA InitInv == Init => IInv
<1> SUFFICES ASSUME Init PROVE IInv
  OBVIOUS
<1>1. AdapterInv
  BY AdapterInitInv DEF Init, AdapterInit
<1>2. \A t \in Reconciles : phase[t] = "idle"
  BY ReconcilesAreActivations DEF Init, OnnxInit
<1>3. \A s \in Slots : waiters[s] \in Seq(Reconciles)
  BY EmptySeq DEF Init
<1> QED
  BY <1>1, <1>2, <1>3
  DEF Init, IInv, EngineInv, EngineTypeOK, CallInv, LockSpansTransaction, ContractIsKept,
      Stages, Endings

LEMMA StepInv == IInv /\ [Next]_vars => IInv'
BY NextIsAdapterStep, AdapterStepInv, EngineStepInv DEF IInv

-----------------------------------------------------------------------------
(* The theorems that hold even beside direct activations.                  *)

\* Every variable always has its type.
THEOREM Typing == Spec => []TypeOK
<1>1. IInv => TypeOK
  BY DEF IInv, AdapterInv, EngineInv, TypeOK
<1> QED
  BY <1>1, InitInv, StepInv, PTL DEF Spec

\* A slot's lock is held exactly during its transaction; no way out leaks it.
THEOREM LockIsHeldExactly == Spec => []LockSpansTransaction
<1>1. IInv => LockSpansTransaction
  BY DEF IInv, EngineInv
<1> QED
  BY <1>1, InitInv, StepInv, PTL DEF Spec

\* Over OnnxRuntime, reconcile() never raises RuntimeContractError.
THEOREM NoContractError == Spec => []ContractIsKept
<1>1. IInv => ContractIsKept
  BY DEF IInv, EngineInv
<1> QED
  BY <1>1, InitInv, StepInv, PTL DEF Spec

\* The adapter's guarantees survive the engine: no cancelled or failed
\* reconciliation publishes, and inference stays pinned across every swap.
THEOREM AdapterPromisesHold ==
  Spec => [](OnlyReturnedActivationsServe /\ PinnedInference /\ CapturedWasPublished)
<1>1. IInv => OnlyReturnedActivationsServe /\ PinnedInference /\ CapturedWasPublished
  BY DEF IInv, AdapterInv
<1> QED
  BY <1>1, InitInv, StepInv, PTL DEF Spec

-----------------------------------------------------------------------------
(* What holds when TEMMS owns its slots: nobody else activates.            *)

\* A step that neither publishes on a slot nor loads its session again leaves
\* the slot's model alone.
LEMMA ActiveModelKept ==
  ASSUME AdapterInv, NEW s \in Slots, active'[s] = active[s],
         \A u \in Activations : phase[u] = "returned" => config'[u] = config[u]
  PROVE  ActiveModel(s)' = ActiveModel(s)
BY ActiveModelType DEF ActiveModel, ModelOf

\* The only steps that change what a slot serves are completed reconciliations.
LEMMA OnlyCompletePublishes ==
  ASSUME Direct = {}, IInv, [Next]_vars
  PROVE  /\ \A u \in Activations : phase[u] = "returned" => config'[u] = config[u]
         /\ (\A t \in Reconciles : ~Complete(t)) => active' = active /\ changed' = changed
<1> USE DEF IInv, AdapterInv, AdapterTypeOK, OnnxTypeOK
<1>1. ASSUME NEW t \in Reconciles, NEW s \in Slots, NEW c \in Contexts, Transaction(t, s, c)
      PROVE  /\ \A u \in Activations : phase[u] = "returned" => config'[u] = config[u]
             /\ active' = active /\ changed' = changed
  BY <1>1
  DEF Transaction, Keep, Refuse, Start, ActivateUnavailable, ActivateBegin, onnxVars
<1>2. ASSUME NEW t \in Reconciles, Enter(t)
      PROVE  \E s \in Slots, c \in Contexts : Transaction(t, s, c)
  BY <1>2 DEF Enter, EngineInv, CallInv
<1>3. CASE \E t \in Reconciles : \/ Enter(t)
                                 \/ \E s \in Slots, c \in Contexts : CallAndEnter(t, s, c)
  BY <1>1, <1>2, <1>3 DEF CallAndEnter
<1>4. CASE \E t \in Reconciles : \/ Fail(t) \/ CancelActivating(t) \/ CancelQueued(t)
                                 \/ \E s \in Slots, c \in Contexts : CallAndWait(t, s, c)
  BY <1>4 DEF Fail, CancelActivating, CancelQueued, CallAndWait, Raise, Cancel, onnxVars
<1>5. CASE \E t \in Reconciles : Complete(t)
  BY <1>5 DEF Complete, ActivatePublish
<1>6. CASE Infer
  BY <1>6 DEF Infer, InferNoActiveModel, InferAdmit, InferReturn, Raise, Cancel
<1>7. CASE Environment
  BY <1>7
  DEF Environment, UpdateResources, StartThread, WithdrawCancelled, FinishThread, onnxVars
<1>8. CASE UNCHANGED vars
  BY <1>8 DEF vars
<1> QED
  BY <1>3, <1>4, <1>5, <1>6, <1>7, <1>8 DEF Next, DirectActivate

\* The reconciliation that starts reads the slot as it is and selects another
\* identity; what it read stays true because only the holder publishes.
LEMMA OwnerStepInv == ASSUME Direct = {}, IInv, OwnerInv, [Next]_vars PROVE OwnerInv'
<1> USE ReconcilesAreActivations DEF OwnerInv
<1>0. /\ stage \in [Reconciles -> Stages] /\ slot \in [Reconciles -> Slots \cup {Nil}]
      /\ before \in [Reconciles -> Models \cup {Nil}]
      /\ selected \in [Reconciles -> Models \cup {Nil}]
      /\ ending \in [Reconciles -> Endings]
      /\ active \in [Slots -> Activations \cup {Nil}]
      /\ changed \in [Activations -> BOOLEAN]
  BY DEF IInv, EngineInv, EngineTypeOK, AdapterInv, AdapterTypeOK, OnnxTypeOK
<1>1. \A t \in Reconciles : stage[t] = "activating" =>
        /\ slot[t] \in Slots /\ holder[slot[t]] = t /\ target[t] = slot[t]
        /\ SameModel(config[t], selected[t])
  BY DEF IInv, EngineInv, CallInv, LockSpansTransaction
<1>2. \A u \in Activations : phase[u] = "returned" => config'[u] = config[u]
  BY OnlyCompletePublishes
<1>3. \A s \in Slots : active'[s] = active[s] => ActiveModel(s)' = ActiveModel(s)
  BY <1>2, ActiveModelKept DEF IInv
<1>4. ASSUME NEW t \in Reconciles, NEW s \in Slots, NEW c \in Contexts, Transaction(t, s, c),
             stage[t] \in {"new", "queued"}
      PROVE  OwnerInv'
  <2>1. /\ active' = active /\ changed' = changed
        /\ slot' = [slot EXCEPT ![t] = s]
        /\ before' = [before EXCEPT ![t] = ActiveModel(s)]
        /\ selected' = [selected EXCEPT ![t] = Decision(s, c)]
    BY <1>4 DEF Transaction, Keep, Refuse, Start, Decide, ActivateUnavailable, ActivateBegin,
                onnxVars
  <2>2. \/ /\ stage' = [stage EXCEPT ![t] = "ended"]
           /\ ending'[t] # "activated"
        \/ /\ stage' = [stage EXCEPT ![t] = "activating"]
           /\ ~SameModel(ActiveModel(s), Decision(s, c)) /\ ending'[t] = ending[t]
    BY <1>0, <1>4, DecisionType DEF Transaction, Keep, Refuse, Start, IInv
  <2>3. \A u \in Reconciles : u # t => ending'[u] = ending[u]
    BY <1>0, <1>4 DEF Transaction, Keep, Refuse, Start
  <2>4. DecisionStaysFresh'
    BY <1>0, <1>1, <1>3, <2>1, <2>2 DEF DecisionStaysFresh
  <2>5. \A u \in Reconciles : stage'[u] = "activating" => ~SameModel(before'[u], selected'[u])
    BY <1>0, <2>1, <2>2
  <2>6. ActivationIsAChange'
    BY <1>0, <2>1, <2>2, <2>3 DEF ActivationIsAChange
  <2> QED
    BY <2>4, <2>5, <2>6
<1>5. ASSUME NEW t \in Reconciles, Complete(t)
      PROVE  OwnerInv'
  <2>1. /\ stage[t] = "activating" /\ stage' = [stage EXCEPT ![t] = "ended"]
        /\ UNCHANGED <<slot, before, selected, config>>
        /\ active' = [active EXCEPT ![slot[t]] = t]
        /\ changed' = [changed EXCEPT ![t] = ~SameModel(ActiveModel(slot[t]), config[t])]
        /\ \A u \in Reconciles : u # t => ending'[u] = ending[u]
    BY <1>0, <1>1, <1>5 DEF Complete, ActivatePublish, Leave
  <2>2. \A u \in Reconciles : stage'[u] = "activating" => u # t /\ slot[u] # slot[t]
    BY <1>0, <1>1, <2>1
  <2>3. DecisionStaysFresh'
    BY <1>0, <1>1, <1>3, <2>1, <2>2 DEF DecisionStaysFresh
  <2>4. ~SameModel(ActiveModel(slot[t]), config[t])
    BY <1>1, <2>1 DEF DecisionStaysFresh, SameModel
  <2>5. changed'[t] = TRUE /\ \A u \in Reconciles : u # t => changed'[u] = changed[u]
    BY <1>0, <2>1, <2>4
  <2>6. ActivationIsAChange'
    BY <2>1, <2>5 DEF ActivationIsAChange
  <2> QED
    BY <1>0, <2>1, <2>2, <2>3, <2>6
<1>6. ASSUME UNCHANGED <<before, selected, active, changed>>,
             \A t \in Reconciles :
               /\ stage'[t] = "activating" => stage[t] = "activating" /\ slot'[t] = slot[t]
               /\ ending'[t] = "activated" => ending[t] = "activated"
      PROVE  OwnerInv'
  BY <1>0, <1>1, <1>3, <1>6 DEF DecisionStaysFresh, ActivationIsAChange
<1>7. ASSUME NEW t \in Reconciles, \/ Fail(t) \/ CancelActivating(t) \/ CancelQueued(t)
                                   \/ \E s \in Slots, c \in Contexts : CallAndWait(t, s, c)
      PROVE  OwnerInv'
  <2>1. UNCHANGED <<before, selected, active, changed>>
    BY <1>7 DEF Fail, CancelActivating, CancelQueued, CallAndWait, Leave, Raise, Cancel, onnxVars
  <2>2. \A u \in Reconciles :
          /\ stage'[u] = "activating" => stage[u] = "activating" /\ slot'[u] = slot[u]
          /\ ending'[u] = "activated" => ending[u] = "activated"
    BY <1>0, <1>7 DEF Fail, CancelActivating, CancelQueued, CallAndWait, Leave
  <2> QED
    BY <1>6, <2>1, <2>2
<1>8. ASSUME UNCHANGED engineVars, \A t \in Reconciles : ~Complete(t)
      PROVE  OwnerInv'
  BY <1>6, <1>8, OnlyCompletePublishes DEF engineVars
<1>9. CASE Infer \/ Environment \/ UNCHANGED vars
  <2>1. UNCHANGED engineVars
    BY <1>9 DEF Infer, Environment, engineVars, vars
  <2>2. \A t \in Reconciles : ~Complete(t)
    BY <1>0, <2>1 DEF Complete, Leave, engineVars
  <2> QED
    BY <1>8, <2>1, <2>2
<1>10. ASSUME NEW t \in Reconciles, Enter(t)
       PROVE  OwnerInv'
  <2>1. slot[t] \in Slots /\ context[t] \in Contexts
    BY <1>10 DEF Enter, IInv, EngineInv, CallInv
  <2> QED
    BY <1>4, <1>10, <2>1 DEF Enter
<1> QED
  BY <1>4, <1>5, <1>7, <1>9, <1>10 DEF Next, DirectActivate, CallAndEnter

LEMMA InitOwner == Init => OwnerInv
BY ReconcilesAreActivations DEF Init, OwnerInv, DecisionStaysFresh, ActivationIsAChange

\* Ownership as an invariant: nobody but TEMMS activates.
LEMMA Owned == ASSUME Direct = {} PROVE Spec => [](IInv /\ OwnerInv)
<1>1. Init => IInv /\ OwnerInv
  BY InitInv, InitOwner
<1>2. IInv /\ OwnerInv /\ [Next]_vars => (IInv /\ OwnerInv)'
  BY StepInv, OwnerStepInv
<1> QED
  BY <1>1, <1>2, PTL DEF Spec

\* When TEMMS owns its slots, the active model a reconciliation read before it
\* decided is still the active one when it publishes (engine.py 36-47).
THEOREM OwnedSlotsStayFresh == ASSUME Direct = {} PROVE Spec => []DecisionStaysFresh
<1>1. IInv /\ OwnerInv => DecisionStaysFresh
  BY DEF OwnerInv
<1> QED
  BY <1>1, Owned, PTL

\* And what a reconciliation has activated is never what the slot already had,
\* whatever the reconciliations queued before it have published (engine.py 41-44).
THEOREM NoRedundantActivation == ASSUME Direct = {} PROVE Spec => []ActivationIsAChange
<1>1. IInv /\ OwnerInv => ActivationIsAChange
  BY DEF OwnerInv
<1> QED
  BY <1>1, Owned, PTL

-----------------------------------------------------------------------------
(* Temms implements SlotService.                                           *)

\* What the service shows of the state, as functions of the engine's.
Transacting(s) ==
  LET by == holder[s] IN
    [by       |-> by,
     before   |-> IF by = Nil THEN Nil ELSE before[by],
     selected |-> IF by = Nil THEN Nil ELSE selected[by]]

Pinned(r) == ModelOf(captured[r])

LEMMA StutterStep ==
  ASSUME \A s \in Slots : ActiveModel(s)' = ActiveModel(s),
         \A s \in Slots : Transacting(s)' = Transacting(s),
         \A r \in Requests : Pinned(r)' = Pinned(r),
         result' = result
  PROVE  UNCHANGED Service!serviceVars
BY DEF Service!serviceVars, Transacting, Pinned, ActiveModel

LEMMA OpenStep ==
  ASSUME NEW s \in Slots, NEW t \in Reconciles, NEW m \in Models,
         ~SameModel(ActiveModel(s), m), holder[s] = Nil,
         Transacting(s)' = [by |-> t, before |-> ActiveModel(s), selected |-> m],
         \A x \in Slots : ActiveModel(x)' = ActiveModel(x),
         \A x \in Slots : x # s => Transacting(x)' = Transacting(x),
         \A r \in Requests : Pinned(r)' = Pinned(r),
         result' = result
  PROVE  Service!Open(s)
<1> DEFINE tx == [by |-> t, before |-> ActiveModel(s), selected |-> m]
<1>1. Transacting(s) = Service!Closed
  BY DEF Transacting, Service!Closed
<1>2. [x \in Slots |-> Transacting(x)]' = [[x \in Slots |-> Transacting(x)] EXCEPT ![s] = tx]
  OBVIOUS
<1>3. ~Service!SameModel(ActiveModel(s), m)
  BY DEF Service!SameModel, Service!Identity, SameModel, Identity
<1>4. UNCHANGED <<[x \in Slots |-> ActiveModel(x)], [r \in Requests |-> Pinned(r)], result>>
  OBVIOUS
<1> QED
  BY <1>1, <1>2, <1>3, <1>4 DEF Service!Open, Transacting, Pinned

LEMMA CommitStep ==
  ASSUME NEW s \in Slots, holder[s] # Nil, before[holder[s]] = ActiveModel(s),
         ActiveModel(s)' \in Models,
         Identity(ActiveModel(s)') = Identity(selected[holder[s]]),
         holder'[s] = Nil,
         \A x \in Slots : x # s => ActiveModel(x)' = ActiveModel(x),
         \A x \in Slots : x # s => Transacting(x)' = Transacting(x),
         \A r \in Requests : Pinned(r)' = Pinned(r),
         result' = result
  PROVE  Service!Commit(s)
BY DEF Service!Commit, Service!Closed, Service!Identity, Identity, Transacting, Pinned, ActiveModel

LEMMA AbortStep ==
  ASSUME NEW s \in Slots, holder[s] # Nil, holder'[s] = Nil,
         \A x \in Slots : ActiveModel(x)' = ActiveModel(x),
         \A x \in Slots : x # s => Transacting(x)' = Transacting(x),
         \A r \in Requests : Pinned(r)' = Pinned(r),
         result' = result
  PROVE  Service!Abort(s)
BY DEF Service!Abort, Service!Closed, Transacting, Pinned, ActiveModel

LEMMA AdmitStepOfService ==
  ASSUME NEW r \in Requests, NEW s \in Slots, Pinned(r) = Nil, ActiveModel(s) # Nil,
         Pinned(r)' = ActiveModel(s), \A q \in Requests : q # r => Pinned(q)' = Pinned(q),
         \A x \in Slots : ActiveModel(x)' = ActiveModel(x),
         \A x \in Slots : Transacting(x)' = Transacting(x),
         result' = result
  PROVE  Service!Admit(r, s)
<1>1. [q \in Requests |-> Pinned(q)]'
        = [[q \in Requests |-> Pinned(q)] EXCEPT ![r] = ActiveModel(s)]
  OBVIOUS
<1>2. UNCHANGED <<[x \in Slots |-> ActiveModel(x)], [x \in Slots |-> Transacting(x)], result>>
  OBVIOUS
<1> QED
  BY <1>1, <1>2 DEF Service!Admit, Transacting, Pinned

LEMMA AnswerStepOfService ==
  ASSUME NEW r \in Requests, Pinned(r) # Nil, result[r] = Nil,
         result' = [result EXCEPT ![r] = [model |-> Pinned(r), output |-> Pinned(r)]],
         \A q \in Requests : Pinned(q)' = Pinned(q),
         \A x \in Slots : ActiveModel(x)' = ActiveModel(x),
         \A x \in Slots : Transacting(x)' = Transacting(x)
  PROVE  Service!Answer(r)
<1>1. UNCHANGED <<[x \in Slots |-> ActiveModel(x)], [x \in Slots |-> Transacting(x)],
                  [q \in Requests |-> Pinned(q)]>>
  OBVIOUS
<1> QED
  BY <1>1 DEF Service!Answer, Transacting, Pinned

\* No step loads a captured session again, and only an admission captures one.
LEMMA PinnedKept ==
  ASSUME Direct = {}, IInv, [Next]_vars, NEW r \in Requests, captured'[r] = captured[r]
  PROVE  Pinned(r)' = Pinned(r)
<1>1. captured[r] # Nil => captured[r] \in Activations /\ phase[captured[r]] = "returned"
  BY DEF IInv, AdapterInv, AdapterTypeOK, OnnxTypeOK, CapturedWasPublished
<1> QED
  BY <1>1, OnlyCompletePublishes DEF Pinned, ModelOf

\* Every step of Temms is a step of the service or shows nothing of itself.
LEMMA ServiceStep ==
  ASSUME Direct = {}, IInv, OwnerInv, [Next]_vars
  PROVE  [Service!Next]_(Service!serviceVars)
<1> USE ReconcilesAreActivations
<1>0. /\ stage \in [Reconciles -> Stages] /\ holder \in [Slots -> Reconciles \cup {Nil}]
      /\ before \in [Reconciles -> Models \cup {Nil}]
      /\ selected \in [Reconciles -> Models \cup {Nil}]
      /\ active \in [Slots -> Activations \cup {Nil}]
  BY DEF IInv, EngineInv, EngineTypeOK, AdapterInv, AdapterTypeOK, OnnxTypeOK
<1>1. \A t \in Reconciles : stage[t] = "activating" =>
        /\ slot[t] \in Slots /\ holder[slot[t]] = t /\ target[t] = slot[t]
        /\ SameModel(config[t], selected[t])
  BY DEF IInv, EngineInv, CallInv, LockSpansTransaction
<1>2. \A x \in Slots : holder[x] # Nil => stage[holder[x]] = "activating" /\ slot[holder[x]] = x
  BY DEF IInv, EngineInv, LockSpansTransaction
<1>3. \A x \in Slots : active'[x] = active[x] => ActiveModel(x)' = ActiveModel(x)
  BY OnlyCompletePublishes, ActiveModelKept DEF IInv
<1>4. \A r \in Requests : captured'[r] = captured[r] => Pinned(r)' = Pinned(r)
  BY PinnedKept
<1>5. \A x \in Slots :
        /\ holder'[x] = holder[x]
        /\ holder[x] # Nil => /\ before'[holder[x]] = before[holder[x]]
                              /\ selected'[holder[x]] = selected[holder[x]]
        => Transacting(x)' = Transacting(x)
  BY DEF Transacting
<1>6. ASSUME NEW t \in Reconciles, NEW s \in Slots, NEW c \in Contexts, Transaction(t, s, c),
             stage[t] \in {"new", "queued"}, Unlocked(s)
      PROVE  [Service!Next]_(Service!serviceVars)
  <2>1. /\ UNCHANGED <<active, captured, result>>
        /\ before' = [before EXCEPT ![t] = ActiveModel(s)]
        /\ selected' = [selected EXCEPT ![t] = Decision(s, c)]
    BY <1>6 DEF Transaction, Keep, Refuse, Start, Decide, ActivateUnavailable, ActivateBegin,
                onnxVars
  <2>2. \A x \in Slots : holder'[x] = holder[x] => Transacting(x)' = Transacting(x)
    BY <1>0, <1>2, <1>5, <1>6, <2>1
  <2>3. CASE Keep(t, s, c) \/ Refuse(t, s, c)
    <3>1. holder' = holder
      BY <2>3 DEF Keep, Refuse
    <3> QED
      BY <1>3, <1>4, <2>1, <2>2, <3>1, StutterStep
  <2>4. CASE Start(t, s, c)
    <3>1. holder' = [holder EXCEPT ![s] = t]
      BY <2>4 DEF Start
    <3>2. Decision(s, c) \in Models /\ ~SameModel(ActiveModel(s), Decision(s, c))
      BY <2>4, DecisionType DEF Start, IInv
    <3>3. Transacting(s)' = [by |-> t, before |-> ActiveModel(s), selected |-> Decision(s, c)]
      BY <1>0, <2>1, <3>1 DEF Transacting
    <3>4. Service!Open(s)
      BY <1>0, <1>3, <1>4, <1>6, <2>1, <2>2, <3>1, <3>2, <3>3, OpenStep DEF Unlocked
    <3> QED
      BY <3>4 DEF Service!Next
  <2> QED
    BY <1>6, <2>3, <2>4 DEF Transaction
<1>7. ASSUME NEW t \in Reconciles, Enter(t)
      PROVE  [Service!Next]_(Service!serviceVars)
  <2>1. slot[t] \in Slots /\ context[t] \in Contexts
    BY <1>7 DEF Enter, IInv, EngineInv, CallInv
  <2> QED
    BY <1>6, <1>7, <2>1 DEF Enter
<1>8. ASSUME NEW t \in Reconciles, NEW s \in Slots, slot[t] = s, NEW how, Leave(t, how),
             UNCHANGED <<captured, result>>
      PROVE  /\ holder[s] = t /\ t # Nil /\ holder'[s] = Nil
             /\ \A x \in Slots : x # s => Transacting(x)' = Transacting(x)
             /\ \A r \in Requests : Pinned(r)' = Pinned(r)
  BY <1>0, <1>1, <1>2, <1>4, <1>5, <1>8 DEF Leave
<1>9. ASSUME NEW t \in Reconciles, NEW s \in Slots, slot[t] = s, Complete(t)
      PROVE  [Service!Next]_(Service!serviceVars)
  <2>1. stage[t] = "activating" /\ UNCHANGED <<captured, result, config>>
        /\ active' = [active EXCEPT ![s] = t]
    BY <1>1, <1>9 DEF Complete, Leave, ActivatePublish
  <2>2. \E how : Leave(t, how)
    BY <1>9 DEF Complete
  <2>3. /\ holder[s] = t /\ t # Nil /\ holder'[s] = Nil
        /\ \A x \in Slots : x # s => Transacting(x)' = Transacting(x)
        /\ \A r \in Requests : Pinned(r)' = Pinned(r)
    BY <1>8, <1>9, <2>1, <2>2
  <2>4. config[t] \in Models
    <3>1. phase[t] = "awaiting"
      BY <1>9 DEF Complete, ActivatePublish
    <3> QED
      BY <3>1, InventoryModels DEF IInv, AdapterInv, LoadInv
  <2>5. ActiveModel(s)' = config[t]
    BY <1>0, <2>1, <2>3 DEF ActiveModel, ModelOf
  <2>6. Identity(config[t]) = Identity(selected[t]) /\ before[t] = ActiveModel(s)
    BY <1>1, <1>9, <2>1 DEF OwnerInv, DecisionStaysFresh, SameModel
  <2>7. \A x \in Slots : x # s => ActiveModel(x)' = ActiveModel(x)
    BY <1>0, <1>3, <2>1
  <2>8. Service!Commit(s)
    BY <2>1, <2>3, <2>4, <2>5, <2>6, <2>7, CommitStep
  <2> QED
    BY <2>8 DEF Service!Next
<1>10. ASSUME NEW t \in Reconciles, NEW s \in Slots, slot[t] = s, Fail(t) \/ CancelActivating(t)
       PROVE  [Service!Next]_(Service!serviceVars)
  <2>1. UNCHANGED <<active, captured, result>> /\ \E how : Leave(t, how)
    BY <1>10 DEF Fail, CancelActivating, Raise, Cancel
  <2>2. /\ holder[s] = t /\ t # Nil /\ holder'[s] = Nil
        /\ \A x \in Slots : x # s => Transacting(x)' = Transacting(x)
        /\ \A r \in Requests : Pinned(r)' = Pinned(r)
    BY <1>8, <1>10, <2>1
  <2>3. Service!Abort(s)
    BY <1>3, <2>1, <2>2, AbortStep
  <2> QED
    BY <2>3 DEF Service!Next
<1>11. ASSUME UNCHANGED <<holder, before, selected, active, captured, result>>
       PROVE  [Service!Next]_(Service!serviceVars)
  BY <1>3, <1>4, <1>5, <1>11, StutterStep
<1>12. ASSUME NEW t \in Reconciles,
              CancelQueued(t) \/ \E s \in Slots, c \in Contexts : CallAndWait(t, s, c)
       PROVE  [Service!Next]_(Service!serviceVars)
  BY <1>11, <1>12 DEF CancelQueued, CallAndWait, onnxVars
<1>13. CASE Environment \/ UNCHANGED vars
  BY <1>11, <1>13
  DEF Environment, UpdateResources, StartThread, WithdrawCancelled, FinishThread,
      onnxVars, engineVars, vars
<1>14. CASE Infer
  <2>1. /\ UNCHANGED <<holder, before, selected, active>>
        /\ captured \in [Requests -> Activations \cup {Nil}]
    BY <1>14
    DEF Infer, engineVars, InferNoActiveModel, InferAdmit, InferReturn, Raise, Cancel,
        IInv, AdapterInv, AdapterTypeOK, OnnxTypeOK
  <2>2. /\ \A x \in Slots : ActiveModel(x)' = ActiveModel(x)
        /\ \A x \in Slots : Transacting(x)' = Transacting(x)
    BY <1>3, <1>5, <2>1
  <2>3. ASSUME NEW r \in Requests, NEW s \in Slots, InferAdmit(r, s)
        PROVE  [Service!Next]_(Service!serviceVars)
    <3>1. captured' = [captured EXCEPT ![r] = active[s]] /\ result' = result
          /\ config' = config /\ active[s] # Nil /\ captured[r] = Nil
      BY <2>3 DEF InferAdmit, IInv, AdapterInv, CaptureInv
    <3>2. Pinned(r) = Nil /\ Pinned(r)' = ActiveModel(s)
      BY <2>1, <3>1 DEF Pinned, ActiveModel, ModelOf
    <3>3. ActiveModel(s) # Nil
      <4>1. config[active[s]] \in Inventory[s]
        BY <3>1 DEF IInv, AdapterInv, OnlyReturnedActivationsServe
      <4> QED
        BY <3>1, <4>1, InventoryModels DEF ActiveModel, ModelOf
    <3>4. \A q \in Requests : q # r => Pinned(q)' = Pinned(q)
      BY <1>4, <2>1, <3>1
    <3>5. Service!Admit(r, s)
      BY <2>2, <3>1, <3>2, <3>3, <3>4, AdmitStepOfService
    <3> QED
      BY <3>5 DEF Service!Next
  <2>4. ASSUME NEW r \in Requests, InferReturn(r)
        PROVE  [Service!Next]_(Service!serviceVars)
    <3>1. /\ captured' = captured /\ captured[r] # Nil /\ result[r] = Nil
          /\ result' = [result EXCEPT ![r] = [model  |-> config[captured[r]],
                                              output |-> config[captured[r]]]]
      BY <2>4 DEF InferReturn, IInv, AdapterInv, CaptureInv
    <3>2. Pinned(r) = config[captured[r]]
      BY <3>1 DEF Pinned, ModelOf
    <3>3. Pinned(r) # Nil
      <4>1. captured[r] \in Activations /\ phase[captured[r]] = "returned"
        BY <2>1, <3>1 DEF IInv, AdapterInv, CapturedWasPublished
      <4> QED
        BY <3>2, <4>1, InventoryModels DEF IInv, AdapterInv, LoadInv
    <3>4. Service!Answer(r)
      BY <1>4, <2>2, <3>1, <3>2, <3>3, AnswerStepOfService
    <3> QED
      BY <3>4 DEF Service!Next
  <2>5. ASSUME NEW r \in Requests,
               \/ Raise(r) \/ Cancel(r) \/ \E s \in Slots : InferNoActiveModel(r, s)
        PROVE  [Service!Next]_(Service!serviceVars)
    BY <1>11, <2>1, <2>5 DEF Raise, Cancel, InferNoActiveModel
  <2> QED
    BY <1>14, <2>3, <2>4, <2>5 DEF Infer
<1>15. ASSUME NEW t \in Reconciles, Complete(t) \/ Fail(t) \/ CancelActivating(t)
       PROVE  [Service!Next]_(Service!serviceVars)
  <2>1. slot[t] \in Slots
    BY <1>1, <1>15 DEF Complete, Fail, CancelActivating, Leave
  <2>2. PICK s \in Slots : slot[t] = s
    BY <2>1
  <2> QED
    BY <1>9, <1>10, <1>15, <2>2
<1> QED
  BY <1>6, <1>7, <1>12, <1>13, <1>14, <1>15
  DEF Next, DirectActivate, CallAndEnter, LockFree

LEMMA ServiceInit == Init => Service!Init
BY DEF Init, OnnxInit, Service!Init, Service!Closed, ActiveModel, ModelOf

\* TEMMS over OnnxRuntime, owning its slots, keeps the promise of SlotService:
\* every behaviour of the one is, by what it shows, a behaviour of the other.
THEOREM TemmsImplementsSlotService ==
  ASSUME Direct = {}
  PROVE  Spec => ImplementsSlotService
<1>1. Init => IInv /\ OwnerInv
  BY InitInv, InitOwner
<1>2. IInv /\ OwnerInv /\ [Next]_vars => (IInv /\ OwnerInv)'
  BY StepInv, OwnerStepInv
<1>3. IInv /\ OwnerInv /\ [Next]_vars => [Service!Next]_(Service!serviceVars)
  BY ServiceStep
<1> QED
  BY <1>1, <1>2, <1>3, ServiceInit, PTL DEF Spec, ImplementsSlotService, Service!Spec
=============================================================================
