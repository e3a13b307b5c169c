--------------------------- MODULE Engine_proofs ---------------------------
(***************************************************************************)
(* What engine.py guarantees over any runtime, for every set of slots,     *)
(* models and reconciliations.  One invariant carries everything: the lock *)
(* of a slot belongs to the one reconciliation inside it, and under a      *)
(* runtime that keeps its contract the slot has, before the publication,   *)
(* the model that reconciliation read and, after it, the one it selected.  *)
(***************************************************************************)
EXTENDS Engine, Integers, SequenceTheorems, TLAPS

\* The types the argument needs; the line of waiters is not among them.
CoreTypeOK ==
  /\ actual \in [Slots -> Models \cup {Nil}]
  /\ job \in [Reconciles -> {"none", "pending", "published"}]
  /\ holder \in [Slots -> Reconciles \cup {Nil}]
  /\ stage \in [Reconciles -> Stages]
  /\ slot \in [Reconciles -> Slots \cup {Nil}]
  /\ before \in [Reconciles -> Models \cup {Nil}]
  /\ selected \in [Reconciles -> Models \cup {Nil}]
  /\ report \in [Reconciles -> Models \cup {Nil}]
  /\ ending \in [Reconciles -> Endings]

\* Whoever was called knows its slot.
SlotKnown == \A t \in Reconciles : stage[t] # "new" => slot[t] \in Slots

\* activate() has been called by whoever awaits it, and by nobody who has not
\* come to it; it was called for a model, and not for the one it found.  No
\* reconciliation has come out before its end.
JobInv ==
  \A t \in Reconciles :
    /\ stage[t] # "ended" => ending[t] = "none"
    /\ stage[t] \in {"new", "queued", "models", "before"} => job[t] = "none"
    /\ stage[t] = "activating" => job[t] # "none"
    /\ stage[t] \in {"activating", "after"} =>
         selected[t] \in Models /\ ~Keeps(before[t], selected[t])
    /\ stage[t] = "after" => SameModel(report[t], selected[t])

\* Where the runtime is honest: before the publication what was read, afterwards what was
\* selected.
HonestInv ==
  \A t \in Reconciles : slot[t] \in Honest =>
    /\ stage[t] = "activating" /\ job[t] = "pending" => actual[slot[t]] = before[t]
    /\ stage[t] = "activating" /\ job[t] = "published" =>
         SameModel(actual[slot[t]], selected[t])
    /\ stage[t] = "after" => SameModel(actual[slot[t]], selected[t])
    /\ ending[t] # "contract"

IInv == CoreTypeOK /\ SlotKnown /\ LockSpansTransaction /\ JobInv /\ HonestInv
-----------------------------------------------------------------------------
LEMMA InitInv == Init => IInv
  BY EngineAssumption DEF Init, IInv, CoreTypeOK, SlotKnown, LockSpansTransaction, JobInv,
     HonestInv, Stages, Inside, Endings

\* Out of "async with" nobody holds the slot, and nobody else is touched.
LEMMA LeaveStep ==
  ASSUME CoreTypeOK, SlotKnown, LockSpansTransaction,
         NEW t \in Reconciles, NEW how \in Endings,
         stage[t] \in Inside, Leave(t, how)
  PROVE  /\ stage' \in [Reconciles -> Stages]
         /\ holder' \in [Slots -> Reconciles \cup {Nil}]
         /\ ending' \in [Reconciles -> Endings]
         /\ slot' = slot
         /\ SlotKnown'
         /\ LockSpansTransaction'
         /\ stage'[t] = "ended" /\ ending'[t] = how
         /\ \A u \in Reconciles : u # t => stage'[u] = stage[u] /\ ending'[u] = ending[u]
<1>1. slot[t] \in Slots
  BY DEF SlotKnown, Inside
<1>2. /\ stage' = [stage EXCEPT ![t] = "ended"]
      /\ ending' = [ending EXCEPT ![t] = how]
      /\ holder' = [holder EXCEPT ![slot[t]] = Nil]
      /\ slot' = slot
  BY DEF Leave, Await
<1>3. stage'[t] = "ended" /\ ending'[t] = how
  BY <1>2 DEF CoreTypeOK
<1>4. \A u \in Reconciles : u # t => stage'[u] = stage[u] /\ ending'[u] = ending[u]
  BY <1>2 DEF CoreTypeOK
<1>5. /\ stage' \in [Reconciles -> Stages]
      /\ holder' \in [Slots -> Reconciles \cup {Nil}]
      /\ ending' \in [Reconciles -> Endings]
  BY <1>1, <1>2 DEF CoreTypeOK, Stages
<1>6. SlotKnown'
  BY <1>1, <1>2, <1>3, <1>4 DEF SlotKnown
<1>7. LockSpansTransaction'
  <2>1. ASSUME NEW u \in Reconciles, stage'[u] \in Inside
        PROVE  holder'[slot'[u]] = u
    <3>1. u # t
      BY <1>3, <2>1 DEF Inside
    <3>2. stage[u] \in Inside /\ holder[slot[u]] = u /\ slot[u] \in Slots
      BY <1>4, <2>1, <3>1 DEF LockSpansTransaction, SlotKnown, Inside
    <3>3. slot[u] # slot[t]
      BY <3>1, <3>2 DEF LockSpansTransaction
    <3> QED BY <1>1, <1>2, <3>2, <3>3 DEF CoreTypeOK
  <2>2. ASSUME NEW s \in Slots, holder'[s] # Nil
        PROVE  stage'[holder'[s]] \in Inside /\ slot'[holder'[s]] = s
    <3>1. s # slot[t] /\ holder'[s] = holder[s]
      BY <1>1, <1>2, <2>2 DEF CoreTypeOK
    <3>2. /\ holder[s] \in Reconciles
          /\ stage[holder[s]] \in Inside /\ slot[holder[s]] = s
      BY <2>2, <3>1 DEF LockSpansTransaction, CoreTypeOK
    <3> QED BY <1>2, <1>4, <3>1, <3>2
  <2> QED BY <2>1, <2>2 DEF LockSpansTransaction
<1> QED BY <1>2, <1>3, <1>4, <1>5, <1>6, <1>7

\* Into "async with": a free slot gets its holder.
LEMMA EnterStep ==
  ASSUME CoreTypeOK, SlotKnown, LockSpansTransaction, Nil \notin Reconciles,
         NEW t \in Reconciles, NEW s \in Slots,
         stage[t] \notin Inside, holder[s] = Nil,
         holder' = [holder EXCEPT ![s] = t], Await(t, "models"),
         slot' = [slot EXCEPT ![t] = s]
  PROVE  /\ stage' \in [Reconciles -> Stages]
         /\ holder' \in [Slots -> Reconciles \cup {Nil}]
         /\ slot' \in [Reconciles -> Slots \cup {Nil}]
         /\ SlotKnown'
         /\ LockSpansTransaction'
<1>1. /\ stage'[t] = "models" /\ slot'[t] = s
      /\ \A u \in Reconciles : u # t => stage'[u] = stage[u] /\ slot'[u] = slot[u]
  BY DEF Await, CoreTypeOK
<1>2. /\ stage' \in [Reconciles -> Stages]
      /\ holder' \in [Slots -> Reconciles \cup {Nil}]
      /\ slot' \in [Reconciles -> Slots \cup {Nil}]
  BY DEF Await, CoreTypeOK, Stages
<1>3. SlotKnown'
  BY <1>1 DEF SlotKnown
<1>4. ASSUME NEW u \in Reconciles, stage'[u] \in Inside
      PROVE  holder'[slot'[u]] = u
  <2>1. CASE u = t
    BY <1>1, <2>1 DEF CoreTypeOK
  <2>2. CASE u # t
    <3>1. stage[u] \in Inside /\ holder[slot[u]] = u /\ slot[u] \in Slots
      BY <1>1, <1>4, <2>2 DEF LockSpansTransaction, SlotKnown, Inside
    <3>2. slot[u] # s
      BY <3>1
    <3> QED BY <1>1, <2>2, <3>1, <3>2 DEF CoreTypeOK
  <2> QED BY <2>1, <2>2
<1>5. ASSUME NEW r \in Slots, holder'[r] # Nil
      PROVE  stage'[holder'[r]] \in Inside /\ slot'[holder'[r]] = r
  <2>1. CASE r = s
    BY <1>1, <2>1 DEF CoreTypeOK, Inside
  <2>2. CASE r # s
    <3>1. /\ holder'[r] = holder[r] /\ holder[r] \in Reconciles
          /\ stage[holder[r]] \in Inside /\ slot[holder[r]] = r
      BY <1>5, <2>2 DEF LockSpansTransaction, CoreTypeOK
    <3> QED BY <1>1, <3>1
  <2> QED BY <2>1, <2>2
<1> QED BY <1>2, <1>3, <1>4, <1>5 DEF LockSpansTransaction

\* From await to await the lock stays where it is; and outside the lock
\* whatever a reconciliation does that leaves it outside changes nothing.
LEMMA MoveStep ==
  ASSUME CoreTypeOK, SlotKnown, LockSpansTransaction,
         NEW t \in Reconciles, NEW await \in Stages,
         stage[t] \in Inside <=> await \in Inside,
         Await(t, await), UNCHANGED holder,
         slot' \in [Reconciles -> Slots \cup {Nil}], slot'[t] \in Slots,
         stage[t] \in Inside => slot'[t] = slot[t],
         \A u \in Reconciles : u # t => slot'[u] = slot[u]
  PROVE  /\ stage' \in [Reconciles -> Stages]
         /\ SlotKnown'
         /\ LockSpansTransaction'
<1>1. /\ stage' \in [Reconciles -> Stages] /\ stage'[t] = await
      /\ \A u \in Reconciles : u # t => stage'[u] = stage[u]
  BY DEF Await, CoreTypeOK
<1>2. SlotKnown'
  BY <1>1 DEF SlotKnown
<1>3. ASSUME NEW u \in Reconciles, stage'[u] \in Inside
      PROVE  holder'[slot'[u]] = u
  BY <1>1, <1>3 DEF LockSpansTransaction
<1>4. ASSUME NEW r \in Slots, holder'[r] # Nil
      PROVE  stage'[holder'[r]] \in Inside /\ slot'[holder'[r]] = r
  <2>1. /\ holder[r] \in Reconciles
        /\ stage[holder[r]] \in Inside /\ slot[holder[r]] = r
    BY <1>4 DEF LockSpansTransaction, CoreTypeOK
  <2> QED BY <1>1, <2>1
<1> QED BY <1>1, <1>2, <1>3, <1>4 DEF LockSpansTransaction

\* What an unchanged runtime and an unchanged past of everybody else leave true.
LEMMA OthersStep ==
  ASSUME CoreTypeOK, JobInv, HonestInv,
         NEW t \in Reconciles, UNCHANGED actual,
         \A u \in Reconciles : u # t =>
           /\ stage'[u] = stage[u] /\ slot'[u] = slot[u] /\ job'[u] = job[u]
           /\ before'[u] = before[u] /\ selected'[u] = selected[u]
           /\ report'[u] = report[u] /\ ending'[u] = ending[u],
         \* and of t itself
         stage'[t] # "ended" => ending'[t] = "none",
         stage'[t] \in {"new", "queued", "models", "before"} => job'[t] = "none",
         stage'[t] = "activating" => job'[t] # "none",
         stage'[t] \in {"activating", "after"} =>
           selected'[t] \in Models /\ ~Keeps(before'[t], selected'[t]),
         stage'[t] = "after" => SameModel(report'[t], selected'[t]),
         slot'[t] \in Honest =>
           /\ stage'[t] = "activating" /\ job'[t] = "pending" => actual'[slot'[t]] = before'[t]
           /\ stage'[t] = "activating" /\ job'[t] = "published" =>
                SameModel(actual'[slot'[t]], selected'[t])
           /\ stage'[t] = "after" => SameModel(actual'[slot'[t]], selected'[t])
           /\ ending'[t] # "contract"
  PROVE  JobInv' /\ HonestInv'
<1>1. JobInv'
  <2> SUFFICES ASSUME NEW u \in Reconciles
               PROVE  /\ stage'[u] # "ended" => ending'[u] = "none"
                      /\ stage'[u] \in {"new", "queued", "models", "before"} => job'[u] = "none"
                      /\ stage'[u] = "activating" => job'[u] # "none"
                      /\ stage'[u] \in {"activating", "after"} =>
                           selected'[u] \in Models /\ ~Keeps(before'[u], selected'[u])
                      /\ stage'[u] = "after" => SameModel(report'[u], selected'[u])
    BY DEF JobInv, Keeps, SameModel
  <2>1. CASE u = t
    BY <2>1
  <2>2. CASE u # t
    BY <2>2 DEF JobInv, Keeps, SameModel
  <2> QED BY <2>1, <2>2
<1>2. HonestInv'
  <2> SUFFICES ASSUME NEW u \in Reconciles, slot'[u] \in Honest
               PROVE  /\ stage'[u] = "activating" /\ job'[u] = "pending" =>
                           actual'[slot'[u]] = before'[u]
                      /\ stage'[u] = "activating" /\ job'[u] = "published" =>
                           SameModel(actual'[slot'[u]], selected'[u])
                      /\ stage'[u] = "after" => SameModel(actual'[slot'[u]], selected'[u])
                      /\ ending'[u] # "contract"
    BY DEF HonestInv, SameModel
  <2>1. CASE u = t
    BY <2>1
  <2>2. CASE u # t
    BY <2>2 DEF HonestInv, SameModel
  <2> QED BY <2>1, <2>2
<1> QED BY <1>1, <1>2
-----------------------------------------------------------------------------
(* The steps, one lemma each for those that touch more than one part.      *)

LEMMA SlotOfCaller ==
  ASSUME IInv, NEW t \in Reconciles, stage[t] # "new"
  PROVE  /\ slot[t] \in Slots
         /\ StateReports(slot[t]) \subseteq Models \cup {Nil}
BY DEF IInv, SlotKnown, StateReports, CoreTypeOK

\* However t leaves, the invariant holds, provided the accusation is no lie.
LEMMA LeaveInv ==
  ASSUME IInv, NEW t \in Reconciles, NEW how \in Endings,
         stage[t] \in Inside, Leave(t, how),
         UNCHANGED <<actual, job>>,
         before' \in [Reconciles -> Models \cup {Nil}],
         selected' \in [Reconciles -> Models \cup {Nil}],
         report' \in [Reconciles -> Models \cup {Nil}],
         \A u \in Reconciles : u # t =>
           before'[u] = before[u] /\ selected'[u] = selected[u] /\ report'[u] = report[u],
         slot[t] \in Honest => how # "contract"
  PROVE  IInv'
<1>1. /\ stage' \in [Reconciles -> Stages]
      /\ holder' \in [Slots -> Reconciles \cup {Nil}]
      /\ ending' \in [Reconciles -> Endings]
      /\ slot' = slot /\ SlotKnown' /\ LockSpansTransaction'
      /\ stage'[t] = "ended" /\ ending'[t] = how
      /\ \A u \in Reconciles : u # t => stage'[u] = stage[u] /\ ending'[u] = ending[u]
  BY LeaveStep DEF IInv
<1>2. CoreTypeOK'
  BY <1>1 DEF CoreTypeOK, IInv
<1>3. JobInv' /\ HonestInv'
  BY <1>1, OthersStep DEF IInv
<1> QED
  BY <1>1, <1>2, <1>3 DEF IInv

\* From await to await inside the lock.
LEMMA MoveInv ==
  ASSUME IInv, NEW t \in Reconciles, NEW await \in Stages,
         stage[t] \in Inside <=> await \in Inside,
         stage[t] # "new", await # "new",
         Await(t, await), UNCHANGED <<actual, holder, slot>>,
         job' \in [Reconciles -> {"none", "pending", "published"}],
         before' \in [Reconciles -> Models \cup {Nil}],
         selected' \in [Reconciles -> Models \cup {Nil}],
         report' \in [Reconciles -> Models \cup {Nil}],
         ending' \in [Reconciles -> Endings],
         \A u \in Reconciles : u # t =>
           /\ job'[u] = job[u] /\ before'[u] = before[u] /\ selected'[u] = selected[u]
           /\ report'[u] = report[u] /\ ending'[u] = ending[u],
         await # "ended" => ending'[t] = "none",
         await \in {"new", "queued", "models", "before"} => job'[t] = "none",
         await = "activating" => job'[t] # "none",
         await \in {"activating", "after"} =>
           selected'[t] \in Models /\ ~Keeps(before'[t], selected'[t]),
         await = "after" => SameModel(report'[t], selected'[t]),
         slot[t] \in Honest =>
           /\ await = "activating" /\ job'[t] = "pending" => actual[slot[t]] = before'[t]
           /\ await = "activating" /\ job'[t] = "published" =>
                SameModel(actual[slot[t]], selected'[t])
           /\ await = "after" => SameModel(actual[slot[t]], selected'[t])
           /\ ending'[t] # "contract"
  PROVE  IInv'
<1>1. /\ stage'[t] = await
      /\ \A u \in Reconciles : u # t => stage'[u] = stage[u]
  BY DEF Await, IInv, CoreTypeOK
<1>2. slot[t] \in Slots /\ slot' \in [Reconciles -> Slots \cup {Nil}]
  BY SlotOfCaller DEF IInv, CoreTypeOK
<1>3. stage' \in [Reconciles -> Stages] /\ SlotKnown' /\ LockSpansTransaction'
  BY <1>2, MoveStep DEF IInv
<1>4. CoreTypeOK'
  BY <1>2, <1>3 DEF CoreTypeOK, IInv
<1>5. JobInv' /\ HonestInv'
  BY <1>1, OthersStep DEF IInv
<1> QED
  BY <1>3, <1>4, <1>5 DEF IInv

\* Into the lock, from wherever nobody has asked the runtime for anything yet.
LEMMA EnterInv ==
  ASSUME IInv, NEW t \in Reconciles, NEW s \in Slots,
         stage[t] \in {"new", "queued"}, holder[s] = Nil,
         holder' = [holder EXCEPT ![s] = t], Await(t, "models"),
         slot' = [slot EXCEPT ![t] = s],
         UNCHANGED <<actual, job, before, selected, report, ending>>
  PROVE  IInv'
<1>1. /\ stage'[t] = "models"
      /\ \A u \in Reconciles : u # t => stage'[u] = stage[u] /\ slot'[u] = slot[u]
  BY DEF Await, IInv, CoreTypeOK
<1>2. /\ stage' \in [Reconciles -> Stages]
      /\ holder' \in [Slots -> Reconciles \cup {Nil}]
      /\ slot' \in [Reconciles -> Slots \cup {Nil}]
      /\ SlotKnown' /\ LockSpansTransaction'
  BY EnterStep, EngineAssumption DEF IInv, Inside
<1>3. CoreTypeOK'
  BY <1>2 DEF CoreTypeOK, IInv
<1>4. job[t] = "none" /\ ending[t] = "none"
  BY DEF IInv, JobInv, HonestInv
<1>5. JobInv' /\ HonestInv'
  BY <1>1, <1>4, OthersStep DEF IInv
<1> QED
  BY <1>2, <1>3, <1>5 DEF IInv
LEMMA BeforeReturnsInv ==
  ASSUME IInv, NEW t \in Reconciles, BeforeReturns(t)
  PROVE  IInv'
<1>1. stage[t] = "before" /\ slot[t] \in Slots
  BY SlotOfCaller DEF BeforeReturns
<1>2. PICK was \in StateReports(slot[t]), wanted \in Models \cup {Nil} :
        /\ before' = [before EXCEPT ![t] = was]
        /\ selected' = [selected EXCEPT ![t] = wanted]
        /\ \/ Keeps(was, wanted) /\ Leave(t, "kept") /\ UNCHANGED job
           \/ /\ ~Keeps(was, wanted)
              /\ Await(t, "activating")
              /\ job' = [job EXCEPT ![t] = "pending"]
              /\ UNCHANGED <<holder, waiters, slot, ending>>
  BY DEF BeforeReturns
<1>3. was \in Models \cup {Nil} /\ (slot[t] \in Honest => was = actual[slot[t]])
  BY <1>1, SlotOfCaller DEF StateReports, Honest
<1>4. /\ before' \in [Reconciles -> Models \cup {Nil}]
      /\ selected' \in [Reconciles -> Models \cup {Nil}]
      /\ before'[t] = was /\ selected'[t] = wanted
      /\ \A u \in Reconciles : u # t => before'[u] = before[u] /\ selected'[u] = selected[u]
  BY <1>2, <1>3 DEF IInv, CoreTypeOK
<1>5. /\ UNCHANGED <<actual, report>>
      /\ report' \in [Reconciles -> Models \cup {Nil}]
  BY DEF BeforeReturns, IInv, CoreTypeOK
<1>6. CASE Leave(t, "kept") /\ UNCHANGED job
  BY <1>1, <1>4, <1>5, <1>6, LeaveInv DEF Inside, Endings
<1>7. CASE /\ ~Keeps(was, wanted)
           /\ Await(t, "activating")
           /\ job' = [job EXCEPT ![t] = "pending"]
           /\ UNCHANGED <<holder, waiters, slot, ending>>
  <2>1. /\ job' \in [Reconciles -> {"none", "pending", "published"}]
        /\ job'[t] = "pending"
        /\ \A u \in Reconciles : u # t => job'[u] = job[u]
    BY <1>7 DEF IInv, CoreTypeOK
  <2>2. wanted \in Models
    BY <1>7 DEF Keeps
  <2>3. ending' \in [Reconciles -> Endings] /\ ending'[t] = "none"
    BY <1>1, <1>7 DEF IInv, CoreTypeOK, JobInv
  <2> QED
    BY <1>1, <1>3, <1>4, <1>5, <1>7, <2>1, <2>2, <2>3, MoveInv DEF Inside, Stages
<1> QED
  BY <1>2, <1>6, <1>7

LEMMA ActivateReturnsInv ==
  ASSUME IInv, NEW t \in Reconciles, ActivateReturns(t)
  PROVE  IInv'
<1>1. /\ stage[t] = "activating"
      /\ selected[t] \in Models /\ ~Keeps(before[t], selected[t])
      /\ job[t] \in {"none", "pending", "published"}
      /\ slot[t] \in Honest => job[t] = "published" /\ SameModel(actual[slot[t]], selected[t])
      /\ ending[t] = "none"
      /\ UNCHANGED <<actual, job, before, selected>>
  BY DEF ActivateReturns, IInv, JobInv, HonestInv, CoreTypeOK, Honest
<1>2. PICK m \in IF "misreports" \in Faults[slot[t]] THEN Models ELSE {selected[t]} :
        /\ report' = [report EXCEPT ![t] = m]
        /\ IF SameModel(m, selected[t])
           THEN Await(t, "after") /\ UNCHANGED <<holder, waiters, slot, ending>>
           ELSE Leave(t, "contract")
  BY DEF ActivateReturns
<1>3. m \in Models /\ (slot[t] \in Honest => m = selected[t])
  BY <1>1, <1>2 DEF Honest
<1>4. /\ report' \in [Reconciles -> Models \cup {Nil}]
      /\ report'[t] = m
      /\ \A u \in Reconciles : u # t => report'[u] = report[u]
      /\ before' \in [Reconciles -> Models \cup {Nil}]
      /\ selected' \in [Reconciles -> Models \cup {Nil}]
      /\ job' \in [Reconciles -> {"none", "pending", "published"}]
      /\ ending \in [Reconciles -> Endings]
  BY <1>1, <1>2, <1>3 DEF IInv, CoreTypeOK
<1>5. CASE SameModel(m, selected[t])
  BY <1>1, <1>2, <1>4, <1>5, MoveInv DEF Inside, Stages
<1>6. CASE ~SameModel(m, selected[t])
  <2>1. slot[t] \notin Honest
    BY <1>1, <1>3, <1>6, EngineAssumption DEF SameModel
  <2> QED
    BY <1>1, <1>2, <1>4, <1>6, <2>1, LeaveInv DEF Inside, Endings
<1> QED
  BY <1>5, <1>6

LEMMA AfterReturnsInv ==
  ASSUME IInv, NEW t \in Reconciles, AfterReturns(t)
  PROVE  IInv'
<1>1. stage[t] = "after" /\ slot[t] \in Slots
  BY SlotOfCaller DEF AfterReturns
<1>2. PICK m \in StateReports(slot[t]) :
        Leave(t, IF SameModel(m, selected[t]) THEN "activated" ELSE "contract")
  BY DEF AfterReturns
<1>3. slot[t] \in Honest => SameModel(m, selected[t])
  BY <1>1, <1>2 DEF StateReports, IInv, HonestInv, Honest
<1>4. PICK how \in Endings : Leave(t, how) /\ (slot[t] \in Honest => how # "contract")
  BY <1>2, <1>3 DEF Endings
<1> QED
  BY <1>1, <1>4, LeaveInv DEF AfterReturns, Inside, IInv, CoreTypeOK

\* Nobody else is between its activation and its end on the slot t publishes to.
LEMMA PublishInv ==
  ASSUME IInv, NEW t \in Reconciles, Publish(t)
  PROVE  IInv'
<1>1. PICK m \in Models :
        /\ "misplaces" \in Faults[slot[t]] \/ SameModel(m, selected[t])
        /\ actual' = [actual EXCEPT ![slot[t]] = m]
  BY DEF Publish
<1>2. /\ job[t] = "pending" /\ job' = [job EXCEPT ![t] = "published"]
      /\ UNCHANGED <<holder, stage, slot, before, selected, report, ending>>
      /\ stage[t] = "activating" \/ slot[t] \notin Honest
  BY DEF Publish, Honest
<1>3. stage[t] # "new" /\ slot[t] \in Slots
  BY <1>2, SlotOfCaller DEF IInv, JobInv
<1>4. /\ job' \in [Reconciles -> {"none", "pending", "published"}]
      /\ job'[t] = "published"
      /\ \A u \in Reconciles : u # t => job'[u] = job[u]
      /\ actual' \in [Slots -> Models \cup {Nil}]
      /\ actual'[slot[t]] = m
      /\ \A s \in Slots : s # slot[t] => actual'[s] = actual[s]
  BY <1>1, <1>2, <1>3 DEF IInv, CoreTypeOK
<1>5. CoreTypeOK' /\ SlotKnown' /\ LockSpansTransaction'
  BY <1>2, <1>4 DEF IInv, CoreTypeOK, SlotKnown, LockSpansTransaction
<1>6. JobInv'
  <2> SUFFICES ASSUME NEW u \in Reconciles
               PROVE  /\ stage[u] # "ended" => ending[u] = "none"
                      /\ stage[u] \in {"new", "queued", "models", "before"} => job'[u] = "none"
                      /\ stage[u] = "activating" => job'[u] # "none"
                      /\ stage[u] \in {"activating", "after"} =>
                           selected[u] \in Models /\ ~Keeps(before[u], selected[u])
                      /\ stage[u] = "after" => SameModel(report[u], selected[u])
    BY <1>2 DEF JobInv, Keeps, SameModel
  <2> QED
    BY <1>2, <1>4 DEF IInv, JobInv
<1>7. HonestInv'
  <2> SUFFICES ASSUME NEW u \in Reconciles, slot[u] \in Honest
               PROVE  /\ stage[u] = "activating" /\ job'[u] = "pending" =>
                           actual'[slot[u]] = before[u]
                      /\ stage[u] = "activating" /\ job'[u] = "published" =>
                           SameModel(actual'[slot[u]], selected[u])
                      /\ stage[u] = "after" => SameModel(actual'[slot[u]], selected[u])
                      /\ ending[u] # "contract"
    BY <1>2 DEF HonestInv, SameModel
  <2>1. slot[t] \in Honest =>
          stage[t] = "activating" /\ SameModel(m, selected[t]) /\ holder[slot[t]] = t
    BY <1>1, <1>2 DEF IInv, LockSpansTransaction, Inside, Honest
  <2>2. CASE u = t
    BY <1>4, <2>1, <2>2 DEF IInv, HonestInv
  <2>3. CASE u # t /\ stage[u] \in {"activating", "after"}
    <3>1. holder[slot[u]] = u /\ slot[u] \in Slots
      BY <2>3 DEF IInv, LockSpansTransaction, SlotKnown, Inside
    <3>2. slot[u] # slot[t]
      BY <2>1, <2>3, <3>1
    <3>3. actual'[slot[u]] = actual[slot[u]] /\ job'[u] = job[u]
      BY <1>4, <2>3, <3>1, <3>2
    <3> QED
      BY <3>3 DEF IInv, HonestInv
  <2>4. CASE stage[u] \notin {"activating", "after"}
    BY <2>4 DEF IInv, HonestInv
  <2> QED
    BY <2>2, <2>3, <2>4
<1> QED
  BY <1>5, <1>6, <1>7 DEF IInv

LEMMA StepInv == IInv /\ [Next]_vars => IInv'
<1> SUFFICES ASSUME IInv, [Next]_vars PROVE IInv'
  OBVIOUS
<1>1. ASSUME NEW t \in Reconciles, NEW s \in Slots, CallAndEnter(t, s)
      PROVE  IInv'
  BY <1>1, EnterInv DEF CallAndEnter, LockFree
<1>2. ASSUME NEW t \in Reconciles, NEW s \in Slots, CallAndWait(t, s)
      PROVE  IInv'
  <2>1. /\ stage[t] = "new" /\ stage' = [stage EXCEPT ![t] = "queued"]
        /\ slot' = [slot EXCEPT ![t] = s]
        /\ UNCHANGED <<actual, job, holder, before, selected, report, ending>>
    BY <1>2 DEF CallAndWait, Await
  <2>2. /\ stage'[t] = "queued" /\ slot'[t] = s
        /\ \A u \in Reconciles : u # t => stage'[u] = stage[u] /\ slot'[u] = slot[u]
        /\ slot' \in [Reconciles -> Slots \cup {Nil}]
    BY <2>1 DEF IInv, CoreTypeOK
  <2>3. stage' \in [Reconciles -> Stages] /\ SlotKnown' /\ LockSpansTransaction'
    BY <1>2, <2>1, <2>2, MoveStep DEF CallAndWait, IInv, Inside, Stages
  <2>4. CoreTypeOK'
    BY <2>1, <2>2, <2>3 DEF CoreTypeOK, IInv
  <2>5. job[t] = "none" /\ ending[t] = "none"
    BY <2>1 DEF IInv, JobInv
  <2>6. JobInv' /\ HonestInv'
    BY <2>1, <2>2, <2>5, OthersStep DEF IInv
  <2> QED
    BY <2>3, <2>4, <2>6 DEF IInv
<1>3. ASSUME NEW t \in Reconciles, Enter(t)
      PROVE  IInv'
  <2>1. /\ stage[t] = "queued" /\ slot[t] \in Slots /\ holder[slot[t]] = Nil
        /\ holder' = [holder EXCEPT ![slot[t]] = t]
    BY <1>3, SlotOfCaller DEF Enter
  <2>2. slot' = [slot EXCEPT ![t] = slot[t]]
    BY <1>3 DEF Enter, IInv, CoreTypeOK
  <2> QED
    BY <1>3, <2>1, <2>2, EnterInv DEF Enter
<1>4. ASSUME NEW t \in Reconciles, ModelsReturn(t)
      PROVE  IInv'
  <2>1. job[t] = "none" /\ ending[t] = "none"
    BY <1>4 DEF ModelsReturn, IInv, JobInv
  <2> QED
    BY <1>4, <2>1, MoveInv DEF ModelsReturn, IInv, CoreTypeOK, Inside, Stages
<1>5. ASSUME NEW t \in Reconciles,
             Raise(t) \/ CancelInside(t)
      PROVE  IInv'
  <2>1. PICK how \in {"raised", "cancelled"} : Leave(t, how)
    BY <1>5 DEF Raise, CancelInside
  <2>2. /\ stage[t] \in Inside
        /\ UNCHANGED <<actual, job, before, selected, report>>
    BY <1>5 DEF Raise, CancelInside
  <2> QED
    BY <2>1, <2>2, LeaveInv DEF Endings, IInv, CoreTypeOK
<1>6. ASSUME NEW t \in Reconciles, CancelQueued(t)
      PROVE  IInv'
  <2>1. /\ stage[t] = "queued" /\ slot[t] \in Slots /\ Await(t, "ended")
        /\ ending' = [ending EXCEPT ![t] = "cancelled"]
        /\ UNCHANGED <<actual, job, holder, slot, before, selected, report>>
    BY <1>6, SlotOfCaller DEF CancelQueued
  <2>2. /\ ending' \in [Reconciles -> Endings]
        /\ ending'[t] = "cancelled"
        /\ \A u \in Reconciles : u # t => ending'[u] = ending[u]
    BY <2>1 DEF IInv, CoreTypeOK, Endings
  <2> QED
    BY <2>1, <2>2, MoveInv DEF IInv, CoreTypeOK, Inside, Stages
<1>7. ASSUME NEW s \in Slots, Intrude(s)
      PROVE  IInv'
  <2>1. /\ s \notin Honest /\ actual' \in [Slots -> Models \cup {Nil}]
        /\ \A x \in Honest : actual'[x] = actual[x]
    BY <1>7 DEF Intrude, IInv, CoreTypeOK, Honest
  <2>2. UNCHANGED <<job, holder, waiters, stage, slot, before, selected, report, ending>>
    BY <1>7 DEF Intrude
  <2> QED
    BY <2>1, <2>2
    DEF IInv, CoreTypeOK, SlotKnown, LockSpansTransaction, JobInv, HonestInv, Keeps, SameModel
<1>8. CASE UNCHANGED vars
  BY <1>8 DEF vars, IInv, CoreTypeOK, SlotKnown, LockSpansTransaction, JobInv, HonestInv,
     Keeps, SameModel
<1> QED
  BY <1>1, <1>2, <1>3, <1>4, <1>5, <1>6, <1>7, <1>8,
     BeforeReturnsInv, ActivateReturnsInv, AfterReturnsInv, PublishInv
  DEF Next

-----------------------------------------------------------------------------
(* The theorems.                                                           *)

\* The inductive invariant holds in every state of the engine (engine.py 31-79).
THEOREM Invariance == Spec => []IInv
  BY InitInv, StepInv, PTL DEF Spec

-----------------------------------------------------------------------------
(* The type invariant, waiters included.                                   *)

\* Removing the i-th element of a sequence shifts the later ones down.
LEMMA RemoveAtProperties ==
  ASSUME NEW S, NEW q \in Seq(S), NEW i \in 1..Len(q)
  PROVE  /\ RemoveAt(q, i) \in Seq(S)
         /\ Len(RemoveAt(q, i)) = Len(q) - 1
         /\ \A j \in 1..(Len(q) - 1) :
              RemoveAt(q, i)[j] = IF j < i THEN q[j] ELSE q[j + 1]
<1> DEFINE front == SubSeq(q, 1, i - 1)
           back  == SubSeq(q, i + 1, Len(q))
<1>1. Len(q) \in Nat /\ \A j \in 1..Len(q) : q[j] \in S
  BY ElementOfSeq, LenProperties
<1>2. /\ front \in Seq(S)
      /\ Len(front) = i - 1
      /\ \A j \in 1..(i - 1) : front[j] = q[j]
  <2>1. \A j \in 1..(i - 1) : q[j] \in S
    BY <1>1
  <2> QED
    BY <1>1, <2>1, SubSeqProperties
<1>3. /\ back \in Seq(S)
      /\ Len(back) = Len(q) - i
      /\ \A j \in 1..(Len(q) - i) : back[j] = q[j + i]
  <2>1. \A j \in (i + 1)..Len(q) : q[j] \in S
    BY <1>1
  <2> QED
    BY <1>1, <2>1, SubSeqProperties
<1> HIDE DEF front, back
<1>4. RemoveAt(q, i) = front \o back
  BY DEF RemoveAt, front, back
<1>5. /\ front \o back \in Seq(S)
      /\ Len(front \o back) = Len(front) + Len(back)
      /\ \A j \in 1..(Len(front) + Len(back)) :
           (front \o back)[j] = IF j <= Len(front) THEN front[j] ELSE back[j - Len(front)]
  BY <1>2, <1>3, ConcatProperties
<1> DEFINE both == front \o back
<1>6. Len(both) = Len(q) - 1 /\ Len(front) + Len(back) = Len(q) - 1
  BY <1>1, <1>2, <1>3, <1>5
<1>7. ASSUME NEW j \in 1..(Len(q) - 1) PROVE both[j] = IF j < i THEN q[j] ELSE q[j + 1]
  <2>1. both[j] = IF j <= i - 1 THEN front[j] ELSE back[j - (i - 1)]
    BY <1>2, <1>5, <1>6
  <2>2. CASE j < i
    BY <1>1, <1>2, <2>1, <2>2
  <2>3. CASE ~(j < i)
    <3>1. j - (i - 1) \in 1..(Len(q) - i) /\ (j - (i - 1)) + i = j + 1
      BY <1>1, <2>3
    <3> QED
      BY <1>1, <1>3, <2>1, <2>3, <3>1
  <2> QED
    BY <2>2, <2>3
<1> QED
  BY <1>4, <1>5, <1>6, <1>7

\* A reconciliation joins its slot's line at the end, leaves it from the front
\* when it gets the lock and from anywhere when it is cancelled.
LEMMA WaitersStep ==
  ASSUME IInv, waiters \in [Slots -> Seq(Reconciles)], [Next]_vars
  PROVE  waiters' \in [Slots -> Seq(Reconciles)]
<1>1. ASSUME NEW t \in Reconciles, NEW s \in Slots, CallAndWait(t, s)
      PROVE  waiters' \in [Slots -> Seq(Reconciles)]
  <2>1. Append(waiters[s], t) \in Seq(Reconciles)
    BY AppendProperties
  <2> QED
    BY <1>1, <2>1 DEF CallAndWait
<1>2. ASSUME NEW t \in Reconciles, Enter(t)
      PROVE  waiters' \in [Slots -> Seq(Reconciles)]
  <2>1. slot[t] \in Slots /\ waiters[slot[t]] # <<>>
    BY <1>2, SlotOfCaller DEF Enter
  <2>2. Tail(waiters[slot[t]]) \in Seq(Reconciles)
    BY <2>1, HeadTailProperties
  <2> QED
    BY <1>2, <2>1, <2>2 DEF Enter
<1>3. ASSUME NEW t \in Reconciles, CancelQueued(t)
      PROVE  waiters' \in [Slots -> Seq(Reconciles)]
  <2>1. slot[t] \in Slots /\ waiters[slot[t]] \in Seq(Reconciles)
    BY <1>3, SlotOfCaller DEF CancelQueued
  <2>2. PICK i \in 1..Len(waiters[slot[t]]) :
          waiters' = [waiters EXCEPT ![slot[t]] = RemoveAt(@, i)]
    BY <1>3, <2>1, LenProperties DEF CancelQueued
  <2>3. RemoveAt(waiters[slot[t]], i) \in Seq(Reconciles)
    BY <2>1, RemoveAtProperties
  <2> QED
    BY <2>1, <2>2, <2>3
<1>4. ASSUME waiters' = waiters
      PROVE  waiters' \in [Slots -> Seq(Reconciles)]
  BY <1>4
<1>5. waiters' = waiters \/ \E t \in Reconciles :
        Enter(t) \/ CancelQueued(t) \/ \E s \in Slots : CallAndWait(t, s)
  BY DEF Next, vars, CallAndEnter, ModelsReturn, BeforeReturns, ActivateReturns, AfterReturns,
     Raise, CancelInside, Publish, Intrude, Leave
<1> QED
  BY <1>1, <1>2, <1>3, <1>4, <1>5

\* The engine stays well typed over any runtime.
THEOREM EngineTyping == Spec => []TypeOK
<1> DEFINE WaitersOK == waiters \in [Slots -> Seq(Reconciles)]
<1>1. Init => WaitersOK
  <2>1. <<>> \in Seq(Reconciles)
    BY EmptySeq
  <2> QED
    BY <2>1 DEF Init
<1>2. IInv /\ WaitersOK /\ [Next]_vars => WaitersOK'
  BY WaitersStep
<1>3. IInv /\ WaitersOK => TypeOK
  BY DEF IInv, CoreTypeOK, TypeOK
<1> HIDE DEF WaitersOK
<1> QED
  BY <1>1, <1>2, <1>3, Invariance, PTL DEF Spec

-----------------------------------------------------------------------------
\* Whatever the runtime does wrong, a slot's lock is held exactly by the
\* reconciliation inside "async with", from entering to leaving it by any way.
THEOREM LockIsHeldOverAnyRuntime == Spec => []LockSpansTransaction
<1>1. IInv => LockSpansTransaction
  BY DEF IInv
<1> QED
  BY <1>1, Invariance, PTL

\* reconcile() raises RuntimeContractError over no runtime that keeps its contract.
THEOREM HonestRuntimeIsNotAccused == Spec => []NoFalseAlarm
<1>1. IInv => NoFalseAlarm
  BY DEF IInv, HonestInv, NoFalseAlarm
<1> QED
  BY <1>1, Invariance, PTL

\* Over such a runtime a decision is never older than the model it replaces,
\* though the runtime suspends between the two.
THEOREM DecisionsStayFresh == Spec => []DecisionStaysFresh
<1>1. IInv => DecisionStaysFresh
  <2> SUFFICES ASSUME IInv, NEW t \in Reconciles, stage[t] = "activating", slot[t] \in Honest
               PROVE  IF job[t] = "pending" THEN actual[slot[t]] = before[t]
                      ELSE SameModel(actual[slot[t]], selected[t])
    BY DEF DecisionStaysFresh
  <2>1. job[t] \in {"pending", "published"}
    BY DEF IInv, JobInv, CoreTypeOK
  <2> QED
    BY <2>1 DEF IInv, HonestInv
<1> QED
  BY <1>1, Invariance, PTL

\* The step that ends a reconciliation "activated" is the return of the second
\* state(), after a report that named the selection.
LEMMA SuccessStep ==
  ASSUME IInv, [Next]_vars, NEW t \in Reconciles,
         stage[t] # "ended", ending'[t] = "activated"
  PROVE  /\ SameModel(report[t], selected[t])
         /\ "stale state" \notin Faults[slot[t]] => SameModel(actual[slot[t]], selected[t])
<1>1. ending[t] = "none" /\ ending \in [Reconciles -> Endings]
  BY DEF IInv, JobInv, CoreTypeOK
<1>2. PICK u \in Reconciles, how \in Endings :
        ending' = [ending EXCEPT ![u] = how] /\ (how = "activated" => AfterReturns(u))
  <2>1. ~UNCHANGED ending
    BY <1>1
  <2>2. PICK u \in Reconciles :
          \/ BeforeReturns(u) \/ ActivateReturns(u) \/ AfterReturns(u)
          \/ Raise(u) \/ CancelInside(u) \/ CancelQueued(u)
    BY <2>1 DEF Next, vars, CallAndEnter, CallAndWait, Enter, ModelsReturn, Publish, Intrude
  <2>3. CASE BeforeReturns(u)
    BY <2>1, <2>3 DEF BeforeReturns, Leave, Endings
  <2>4. CASE ActivateReturns(u)
    BY <2>1, <2>4 DEF ActivateReturns, Leave, Endings
  <2>5. CASE AfterReturns(u)
    BY <2>5 DEF AfterReturns, Leave, Endings
  <2>6. CASE Raise(u) \/ CancelInside(u) \/ CancelQueued(u)
    BY <2>6 DEF Raise, CancelInside, CancelQueued, Leave, Endings
  <2> QED
    BY <2>2, <2>3, <2>4, <2>5, <2>6
<1>3. u = t /\ how = "activated"
  BY <1>1, <1>2
<1>4. PICK m \in StateReports(slot[t]) :
        Leave(t, IF SameModel(m, selected[t]) THEN "activated" ELSE "contract")
  BY <1>2, <1>3 DEF AfterReturns
<1>5. SameModel(m, selected[t])
  BY <1>1, <1>4 DEF Leave
<1>6. stage[t] = "after"
  BY <1>2, <1>3 DEF AfterReturns
<1> QED
  BY <1>4, <1>5, <1>6 DEF StateReports, IInv, JobInv

\* reconcile() reports success only when activate() said so and, unless state()
\* itself lies, the slot really has the selected model.
THEOREM SuccessIsNeverFeigned == Spec => SuccessIsTrue
<1>1. IInv /\ [Next]_vars =>
        [\A t \in Reconciles :
           stage[t] # "ended" /\ ending'[t] = "activated" =>
             /\ SameModel(report[t], selected[t])
             /\ "stale state" \notin Faults[slot[t]] => SameModel(actual[slot[t]], selected[t])]_vars
  BY SuccessStep
<1> QED
  BY <1>1, Invariance, PTL DEF Spec, SuccessIsTrue-----------------------------------------------------------------------------
(* Where the runtime keeps its contract TEMMS implements SlotService.      *)

\* t has called activate() and its model is not published yet.
Opening(t) == stage[t] = "activating" /\ job[t] = "pending"

\* What t leaves alone when it does something to its own slot.
OnlyTouches(t) ==
  /\ \A u \in Reconciles : u # t =>
       /\ stage'[u] = stage[u] /\ job'[u] = job[u]
       /\ before'[u] = before[u] /\ selected'[u] = selected[u]
  /\ \A x \in Slots : holder'[x] # holder[x] => {holder[x], holder'[x]} \subseteq {t, Nil}

\* The transactions of the slots that t neither holds nor takes stay as they are.
LEMMA OtherTransactions ==
  ASSUME IInv, NEW t \in Reconciles, OnlyTouches(t),
         NEW x \in Slots, holder[x] # t, holder'[x] # t
  PROVE  Transaction(x)' = Transaction(x)
<1>1. holder'[x] = holder[x]
  BY DEF OnlyTouches
<1>2. holder[x] \in Reconciles \cup {Nil}
  BY DEF IInv, CoreTypeOK
<1>3. CASE holder[x] = Nil
  BY <1>1, <1>3 DEF Transaction, Opener
<1>4. CASE holder[x] \in Reconciles
  <2>1. PICK u \in Reconciles : holder[x] = u /\ u # t
    BY <1>4
  <2>2. /\ stage'[u] = stage[u] /\ job'[u] = job[u]
        /\ before'[u] = before[u] /\ selected'[u] = selected[u]
    BY <2>1 DEF OnlyTouches
  <2>3. Opener(x)' = Opener(x) /\ Opener(x) \in {u, Nil}
    BY <1>1, <2>1, <2>2 DEF Opener
  <2> QED
    BY <2>2, <2>3 DEF Transaction
<1> QED
  BY <1>2, <1>3, <1>4

\* A slot held by nobody, or by one who is not opening, has no transaction.
LEMMA ClosedTransaction ==
  ASSUME NEW x \in Slots, holder[x] = Nil \/ ~Opening(holder[x])
  PROVE  Transaction(x) = Service!Closed
<1>1. Opener(x) = Nil
  BY DEF Opener, Opening
<1> QED
  BY <1>1 DEF Transaction, Service!Closed

LEMMA ClosedTransactionNext ==
  ASSUME NEW x \in Slots, holder'[x] = Nil \/ ~(Opening(holder[x])')
  PROVE  Transaction(x)' = Service!Closed
<1>1. Opener(x)' = Nil
  BY DEF Opener, Opening
<1> QED
  BY <1>1 DEF Transaction, Service!Closed

\* Away from activate() a reconciliation shows nothing to the service.
LEMMA QuietStep ==
  ASSUME IInv, NEW t \in Reconciles, OnlyTouches(t), ~Opening(t), ~(Opening(t)'),
         UNCHANGED actual
  PROVE  UNCHANGED Service!serviceVars
<1>1. ASSUME NEW x \in Slots
      PROVE  Transaction(x)' = Transaction(x)
  <2>1. CASE holder[x] = t \/ holder'[x] = t
    <3>1. holder[x] \in {t, Nil} /\ holder'[x] \in {t, Nil}
      BY <2>1 DEF OnlyTouches
    <3>2. holder[x] = Nil \/ ~Opening(holder[x])
      BY <3>1
    <3>3. holder'[x] = Nil \/ ~(Opening(holder[x])')
      BY <3>1 DEF Opening
    <3> QED
      BY <3>2, <3>3, ClosedTransaction, ClosedTransactionNext
  <2>2. CASE holder[x] # t /\ holder'[x] # t
    BY <2>2, OtherTransactions
  <2> QED
    BY <2>1, <2>2
<1> QED
  BY <1>1 DEF Service!serviceVars, Honest

\* Nor does one whose slot is not honest, whatever it does there.
LEMMA ForeignStep ==
  ASSUME IInv, NEW t \in Reconciles, NEW s \in Slots \ Honest, OnlyTouches(t),
         \A x \in Slots : x # s => holder[x] # t /\ holder'[x] # t,
         \A x \in Slots : x # s => actual'[x] = actual[x]
  PROVE  UNCHANGED Service!serviceVars
<1>1. \A x \in Honest : Transaction(x)' = Transaction(x) /\ actual'[x] = actual[x]
  BY OtherTransactions DEF Honest
<1> QED
  BY <1>1 DEF Service!serviceVars

\* Leaving while opening is an abort, leaving otherwise is nothing.
LEMMA LeaveOfService ==
  ASSUME IInv, NEW t \in Reconciles, stage[t] \in Inside, NEW how \in Endings, Leave(t, how),
         UNCHANGED actual, UNCHANGED job,
         \A u \in Reconciles : u # t => before'[u] = before[u] /\ selected'[u] = selected[u]
  PROVE  [Service!Next]_(Service!serviceVars)
<1>1. PICK s \in Slots : slot[t] = s
  BY DEF IInv, SlotKnown, Inside
<1>2. /\ stage'[t] = "ended" /\ \A u \in Reconciles : u # t => stage'[u] = stage[u]
      /\ holder' = [holder EXCEPT ![s] = Nil] /\ holder[s] = t /\ t # Nil
      /\ \A x \in Slots : x # s => holder'[x] = holder[x] /\ holder[x] # t
  <2>1. stage'[t] = "ended" /\ \A u \in Reconciles : u # t => stage'[u] = stage[u]
    BY DEF Leave, Await, IInv, CoreTypeOK
  <2>2. holder' = [holder EXCEPT ![s] = Nil] /\ holder[s] = t /\ t # Nil
    BY <1>1, EngineAssumption DEF Leave, IInv, LockSpansTransaction
  <2>3. \A x \in Slots : x # s => holder'[x] = holder[x] /\ holder[x] # t
    BY <1>1, <2>2 DEF IInv, CoreTypeOK, LockSpansTransaction
  <2> QED
    BY <2>1, <2>2, <2>3
<1>3. OnlyTouches(t)
  BY <1>2 DEF OnlyTouches, IInv, CoreTypeOK
<1>4. ~(Opening(t)')
  BY <1>2 DEF Opening
<1>5. CASE ~Opening(t)
  BY <1>3, <1>4, <1>5, QuietStep
<1>6. CASE Opening(t) /\ s \notin Honest
  <2>1. \A x \in Slots : x # s => holder'[x] # t
    BY <1>2
  <2> QED
    BY <1>2, <1>3, <1>6, <2>1, ForeignStep
<1>7. CASE Opening(t) /\ s \in Honest
  <2>1. Transaction(s).by = t
    BY <1>2, <1>7 DEF Transaction, Opener, Opening
  <2>2. holder'[s] = Nil
    BY <1>2 DEF IInv, CoreTypeOK
  <2>3. Transaction(s)' = Service!Closed
    BY <2>2, ClosedTransactionNext
  <2>4. \A x \in Slots : x # s => Transaction(x)' = Transaction(x)
    BY <1>2, <1>3, OtherTransactions
  <2>5. [x \in Honest |-> Transaction(x)]'
          = [[x \in Honest |-> Transaction(x)] EXCEPT ![s] = Service!Closed]
    BY <2>3, <2>4 DEF Honest
  <2>6. Service!Abort(s)
    BY <1>2, <1>7, <2>1, <2>5 DEF Service!Abort
  <2> QED
    BY <1>7, <2>6 DEF Service!Next
<1> QED
  BY <1>5, <1>6, <1>7

\* Calling activate() opens a transaction.
LEMMA OpenOfService ==
  ASSUME IInv, NEW t \in Reconciles, BeforeReturns(t)
  PROVE  [Service!Next]_(Service!serviceVars)
<1>1. stage[t] = "before" /\ UNCHANGED actual
  BY DEF BeforeReturns
<1>2. PICK s \in Slots : slot[t] = s
  BY <1>1, SlotOfCaller
<1>3. PICK was \in StateReports(s), wanted \in Models \cup {Nil} :
        /\ before' = [before EXCEPT ![t] = was]
        /\ selected' = [selected EXCEPT ![t] = wanted]
        /\ \/ Leave(t, "kept") /\ UNCHANGED job
           \/ /\ ~Keeps(was, wanted)
              /\ Await(t, "activating")
              /\ job' = [job EXCEPT ![t] = "pending"]
              /\ UNCHANGED holder
  BY <1>2 DEF BeforeReturns
<1>4. /\ s \in Honest => was = actual[s]
      /\ was \in Models \cup {Nil}
      /\ before'[t] = was /\ selected'[t] = wanted
      /\ \A u \in Reconciles : u # t => before'[u] = before[u] /\ selected'[u] = selected[u]
  <2>1. was \in Models \cup {Nil}
    BY <1>1, <1>2, <1>3, SlotOfCaller
  <2> QED
    BY <1>2, <1>3, <2>1 DEF StateReports, Honest, IInv, CoreTypeOK
<1>5. CASE Leave(t, "kept") /\ UNCHANGED job
  BY <1>1, <1>4, <1>5, LeaveOfService DEF Inside, Endings
<1>6. CASE /\ ~Keeps(was, wanted)
           /\ Await(t, "activating")
           /\ job' = [job EXCEPT ![t] = "pending"]
           /\ UNCHANGED holder
  <2>1. /\ stage'[t] = "activating" /\ job'[t] = "pending"
        /\ \A u \in Reconciles : u # t => stage'[u] = stage[u] /\ job'[u] = job[u]
    BY <1>6 DEF Await, IInv, CoreTypeOK
  <2>2. OnlyTouches(t)
    BY <1>4, <1>6, <2>1 DEF OnlyTouches
  <2>3. holder[s] = t /\ holder'[s] = t /\ t # Nil
    BY <1>1, <1>2, <1>6, EngineAssumption DEF IInv, LockSpansTransaction, Inside
  <2>4. \A x \in Slots : x # s => holder[x] # t
    BY <1>2, <2>3, EngineAssumption DEF IInv, LockSpansTransaction
  <2>5. \A x \in Slots : x # s => Transaction(x)' = Transaction(x)
    BY <1>6, <2>2, <2>4, OtherTransactions
  <2>6. CASE s \notin Honest
    BY <1>1, <2>2, <2>4, <2>6, <1>6, ForeignStep
  <2>7. CASE s \in Honest
    <3>1. Transaction(s) = Service!Closed
      BY <1>1, <2>3, ClosedTransaction DEF Opening
    <3>2. Transaction(s)' = [by |-> t, before |-> actual[s], selected |-> wanted]
      BY <1>4, <2>1, <2>3, <2>7 DEF Transaction, Opener
    <3>3. wanted \in Models /\ ~Service!SameModel(actual[s], wanted)
      BY <1>4, <1>6, <2>7 DEF Keeps, SameModel, Identity, Service!SameModel, Service!Identity
    <3>4. [x \in Honest |-> Transaction(x)]'
            = [[x \in Honest |-> Transaction(x)] EXCEPT
                 ![s] = [by |-> t, before |-> actual[s], selected |-> wanted]]
      BY <2>5, <3>2 DEF Honest
    <3>5. Service!Open(s)
      BY <1>1, <2>7, <3>1, <3>3, <3>4 DEF Service!Open
    <3> QED
      BY <2>7, <3>5 DEF Service!Next
  <2> QED
    BY <2>6, <2>7
<1> QED
  BY <1>3, <1>5, <1>6

\* The publication commits it.
LEMMA CommitOfService ==
  ASSUME IInv, NEW t \in Reconciles, NEW s \in Honest, slot[t] = s, Publish(t)
  PROVE  [Service!Next]_(Service!serviceVars)
<1>1. /\ stage[t] = "activating" /\ job[t] = "pending"
      /\ job' = [job EXCEPT ![t] = "published"]
      /\ UNCHANGED <<holder, stage, before, selected>>
  BY DEF Publish, Honest
<1>2. s \in Slots
  BY DEF Honest
<1>3. PICK m \in Models : SameModel(m, selected[t]) /\ actual' = [actual EXCEPT ![s] = m]
  BY DEF Publish, Honest
<1>4. holder[s] = t /\ t # Nil /\ actual[s] = before[t]
  BY <1>1, <1>2, EngineAssumption DEF IInv, LockSpansTransaction, HonestInv, Inside
<1>5. Transaction(s) = [by |-> t, before |-> before[t], selected |-> selected[t]]
  BY <1>1, <1>4 DEF Transaction, Opener
<1>6. job'[t] = "published" /\ \A u \in Reconciles : u # t => job'[u] = job[u]
  BY <1>1 DEF IInv, CoreTypeOK
<1>7. OnlyTouches(t)
  BY <1>1, <1>6 DEF OnlyTouches
<1>8. Transaction(s)' = Service!Closed
  BY <1>1, <1>2, <1>4, <1>6, ClosedTransactionNext DEF Opening
<1>9. \A x \in Slots : x # s => Transaction(x)' = Transaction(x)
  <2>1. \A x \in Slots : x # s => holder[x] # t
    BY <1>4, EngineAssumption DEF IInv, LockSpansTransaction
  <2> QED
    BY <1>1, <1>7, <2>1, OtherTransactions
<1>10. [x \in Honest |-> Transaction(x)]'
         = [[x \in Honest |-> Transaction(x)] EXCEPT ![s] = Service!Closed]
  BY <1>8, <1>9 DEF Honest
<1>11. [x \in Honest |-> actual[x]]' = [[x \in Honest |-> actual[x]] EXCEPT ![s] = m]
  BY <1>2, <1>3 DEF Honest, IInv, CoreTypeOK
<1>12. Service!Identity(m) = Service!Identity(selected[t])
  BY <1>3 DEF SameModel, Identity, Service!Identity
<1>13. Service!Commit(s)
  <2> DEFINE open == [x \in Honest |-> Transaction(x)]
             current == [x \in Honest |-> actual[x]]
  <2>1. open[s].by # Nil /\ current[s] = open[s].before /\ open[s].selected = selected[t]
    BY <1>4, <1>5
  <2>2. \E n \in Models : /\ Service!Identity(n) = Service!Identity(open[s].selected)
                          /\ current' = [current EXCEPT ![s] = n]
    BY <1>3, <1>11, <1>12, <2>1
  <2> QED
    BY <1>10, <2>1, <2>2 DEF Service!Commit
<1> QED
  BY <1>13 DEF Service!Next

\* A publication for a slot that is not honest shows nothing.
LEMMA ForeignPublication ==
  ASSUME IInv, NEW t \in Reconciles, slot[t] \notin Honest, Publish(t)
  PROVE  UNCHANGED Service!serviceVars
<1>1. PICK s \in Slots : slot[t] = s
  BY SlotOfCaller DEF Publish, IInv, JobInv
<1>2. /\ UNCHANGED <<holder, stage, before, selected>>
      /\ \A u \in Reconciles : u # t => job'[u] = job[u]
      /\ \A x \in Slots : x # s => actual'[x] = actual[x]
  BY <1>1 DEF Publish, IInv, CoreTypeOK
<1>3. ASSUME NEW x \in Honest
      PROVE  Transaction(x)' = Transaction(x)
  <2>1. x \in Slots /\ x # s
    BY <1>1 DEF Honest
  <2>2. holder[x] # t
    BY <1>1, <2>1, EngineAssumption DEF IInv, LockSpansTransaction
  <2> QED
    BY <1>2, <2>1, <2>2, OtherTransactions DEF OnlyTouches
<1> QED
  BY <1>1, <1>2, <1>3 DEF Service!serviceVars, Honest

\* Every step of the engine is one of the service, or shows nothing.
LEMMA ServiceStep ==
  ASSUME IInv, [Next]_vars
  PROVE  [Service!Next]_(Service!serviceVars)
<1>1. ASSUME NEW t \in Reconciles,
             \/ Enter(t) \/ ModelsReturn(t) \/ CancelQueued(t)
             \/ \E s \in Slots : CallAndEnter(t, s) \/ CallAndWait(t, s)
      PROVE  [Service!Next]_(Service!serviceVars)
  <2>1. /\ stage[t] \in {"new", "queued", "models"}
        /\ \E await \in Stages \ {"activating"} : Await(t, await)
        /\ UNCHANGED <<actual, job, before, selected>>
    BY <1>1 DEF Enter, ModelsReturn, CancelQueued, CallAndEnter, CallAndWait, Stages
  <2>2. /\ stage'[t] # "activating"
        /\ \A u \in Reconciles : u # t => stage'[u] = stage[u]
    BY <2>1 DEF Await, IInv, CoreTypeOK
  <2>3. \A x \in Slots : holder'[x] # holder[x] => {holder[x], holder'[x]} \subseteq {t, Nil}
    BY <1>1 DEF Enter, ModelsReturn, CancelQueued, CallAndEnter, CallAndWait, LockFree,
       IInv, CoreTypeOK
  <2> QED
    BY <2>1, <2>2, <2>3, QuietStep DEF OnlyTouches, Opening
<1>2. ASSUME NEW t \in Reconciles, ActivateReturns(t)
      PROVE  [Service!Next]_(Service!serviceVars)
  <2>1. stage[t] = "activating" /\ UNCHANGED <<actual, job, before, selected>>
    BY <1>2 DEF ActivateReturns
  <2>2. CASE Await(t, "after") /\ UNCHANGED holder
    <3>1. stage'[t] = "after" /\ \A u \in Reconciles : u # t => stage'[u] = stage[u]
      BY <2>2 DEF Await, IInv, CoreTypeOK
    <3>2. OnlyTouches(t) /\ ~(Opening(t)')
      BY <2>1, <2>2, <3>1 DEF OnlyTouches, Opening
    <3>3. CASE ~Opening(t)
      BY <2>1, <3>2, <3>3, QuietStep
    <3>4. CASE Opening(t)
      <4>1. PICK s \in Slots : slot[t] = s
        BY <2>1, SlotOfCaller
      <4>2. s \notin Honest
        BY <1>2, <3>4, <4>1 DEF ActivateReturns, Honest, Opening
      <4>3. \A x \in Slots : x # s => holder[x] # t
        BY <4>1, EngineAssumption DEF IInv, LockSpansTransaction
      <4> QED
        BY <2>1, <2>2, <3>2, <4>2, <4>3, ForeignStep
    <3> QED
      BY <3>3, <3>4
  <2>3. CASE Leave(t, "contract")
    BY <2>1, <2>3, LeaveOfService DEF Inside, Endings
  <2> QED
    BY <1>2, <2>2, <2>3 DEF ActivateReturns
<1>3. ASSUME NEW t \in Reconciles, AfterReturns(t) \/ Raise(t) \/ CancelInside(t)
      PROVE  [Service!Next]_(Service!serviceVars)
  <2>1. /\ stage[t] \in Inside /\ UNCHANGED <<actual, job, before, selected>>
        /\ \E how \in Endings : Leave(t, how)
    BY <1>3 DEF AfterReturns, Raise, CancelInside, Inside, Endings
  <2> QED
    BY <2>1, LeaveOfService
<1>4. ASSUME NEW s \in Slots, Intrude(s)
      PROVE  UNCHANGED Service!serviceVars
  <2>1. /\ s \notin Honest /\ UNCHANGED <<job, holder, stage, before, selected>>
        /\ \A x \in Honest : actual'[x] = actual[x]
    BY <1>4 DEF Intrude, Honest, IInv, CoreTypeOK
  <2>2. \A x \in Honest : Transaction(x)' = Transaction(x)
    BY <2>1 DEF Transaction, Opener
  <2> QED
    BY <2>1, <2>2 DEF Service!serviceVars
<1>5. CASE UNCHANGED vars
  <2>1. \A x \in Honest : Transaction(x)' = Transaction(x)
    BY <1>5 DEF vars, Transaction, Opener
  <2> QED
    BY <1>5, <2>1 DEF vars, Service!serviceVars
<1>6. ASSUME NEW t \in Reconciles, Publish(t)
      PROVE  [Service!Next]_(Service!serviceVars)
  BY <1>6, CommitOfService, ForeignPublication
<1> QED
  BY <1>1, <1>2, <1>3, <1>4, <1>5, <1>6, OpenOfService DEF Next

\* Where the runtime keeps its contract, whatever it suspends in and whatever it
\* does to other slots, TEMMS implements SlotService: no promise about slots
\* depends on the ONNX adapter.
THEOREM EngineImplementsSlotService == Spec => ImplementsSlotService
<1>1. Init => Service!Init
  <2>1. ASSUME Init, NEW s \in Honest
        PROVE  s \in Slots /\ Transaction(s) = Service!Closed
    BY <2>1, ClosedTransaction DEF Init, Honest
  <2> QED
    BY <2>1 DEF Init, Service!Init
<1>2. IInv /\ [Next]_vars => [Service!Next]_(Service!serviceVars)
  BY ServiceStep
<1> QED
  BY <1>1, <1>2, Invariance, PTL DEF Spec, ImplementsSlotService, Service!Spec
=============================================================================
