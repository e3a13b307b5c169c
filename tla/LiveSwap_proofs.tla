--------------------------- MODULE LiveSwap_proofs ---------------------------
(***************************************************************************)
(* Proofs about LiveSwap, for any strategies, repetitions and requests per *)
(* phase, with interrupts, failing loads and bad inputs anywhere.  The     *)
(* records of a phase are made of a decision taken at its start, of what   *)
(* was active when a request arrived, and of a reconciliation that may     *)
(* publish in between; the invariant says, for each place of the           *)
(* coroutine, which of these belong to the phase and agree.  A second one  *)
(* follows what a worker counts from phase to phase.  The proofs           *)
(* about Replay and Churn, other programs of the example, follow: each is  *)
(* instantiated here, Replay with its names that LiveSwap has too renamed, *)
(* and what is proved of the scenario's decisions serves both.             *)
(***************************************************************************)
EXTENDS LiveSwap, SequenceTheorems, FiniteSetTheorems, TLAPS

\* Where a phase is under way: requests are served, or its loop is over.
Serving == {"serve", "wait", "inferring", "drain"}
Underway == Serving \cup {"reconciling", "leave"}
Left == {"cleanup", "joining", "closed", "written"}

TaskType ==
  /\ task \in [state : {"none", "awaiting", "done", "cancelled"}, phase : Nat,
               selected : Refs, record : ActivationRecord \cup {Nil}]
  /\ task.state = "done" => task.record \in ActivationRecord

Total == Repetitions * Len(Strategies)

\* compare() goes on as long as a summary is missing.
WorkersInv ==
  /\ summaries \in Seq([strategy : ToSet(Strategies), account : [served : Nat,
                        abstained : Nat, published : Nat, loads : Nat, trouble : BOOLEAN]])
  /\ pc # "written" => Len(summaries) < Total

\* The reconciliation of a phase: it is under way or over while requests are
\* served, over when they are not, and is waited for unless "pending" holds it.
TaskInv ==
  /\ pc = "begin" => task.phase < phase /\ task.state \in {"none", "done"}
  /\ pc \in Underway => task.phase = phase /\ task.state \in {"awaiting", "done"}
  /\ pc \in Serving \cup {"leave"} /\ ~pending => task.state = "done"
  /\ pc \in Left => task.state # "awaiting"
  /\ task.state = "awaiting" => task.selected = preview.selected
  /\ pc \in {"reconciling", "leave"} => ~pending

\* The records of n requests, in order of arrival, and the same with the record
\* of an activation somewhere among them.
Unreported(e, n) ==
  /\ Len(e) = n
  /\ \A i \in 1..n : e[i].event = "request" /\ e[i].item = i - 1

Reported(e, n) ==
  /\ Len(e) = n + 1
  /\ \E k \in 1..(n + 1) :
       /\ e[k].event = "activation"
       /\ \A i \in (1..(n + 1)) \ {k} :
            /\ e[i].event = "request"
            /\ e[i].item = IF i < k THEN i - 1 ELSE i - 2

TraceInv ==
  /\ pc \in {"begin", "reconciling"} => item = 0 /\ emitted = <<>>
  /\ pc \in {"serve", "wait", "inferring"} => item < Files
  /\ pc \in {"drain", "leave"} => item = Files /\ activation = Nil
  /\ pc \in Serving \cup {"leave"} =>
       /\ ~(pending /\ activation # Nil)
       /\ IF pending \/ activation # Nil THEN Unreported(emitted, item)
                                        ELSE Reported(emitted, item)

\* What a decision promises for a battery.
Decides(decision, battery) ==
  /\ decision.selected \in Refs
  /\ decision.selected # Nil => Feasible(decision.selected, decision)
  /\ \A m \in {small, large} : Feasible(m, decision) => MinimumBattery(m) <= battery

\* Requests are judged by the phase's own decision: while they are served something
\* feasible is active, unless nothing is or the activation has failed.
ServeInv ==
  /\ pc \in Underway => Decides(preview, Battery)
  /\ pc \in Serving => \/ preview.selected = Nil
                       \/ Feasible(active, preview)
                       \/ task.state = "done" /\ task.record.outcome = "failed"
  /\ pc = "inferring" => captured # Nil /\ MinimumBattery(captured) <= Battery

RecordsInv ==
  \A i \in DOMAIN emitted : emitted[i].event = "request" =>
    /\ emitted[i].outcome = "ok" => MinimumBattery(emitted[i].serving) <= Battery
    /\ emitted[i].outcome = "abstained" =>
         \/ preview.selected = Nil
         \/ task.state = "done" /\ task.record.outcome = "failed"

\* The directory goes when no thread needs it any more.
ThreadsInv ==
  /\ tmp = (pc \notin {"closed", "written"})
  /\ pc \in {"closed", "written"} => loader \notin {"queued", "running"} /\ ~inferring

\* What the phase publishes is what its preview selects: both come of one decision.
DecisionIsPreviewed ==
  task.state = "done" /\ task.phase = phase =>
    /\ task.record.selected = preview.selected
    /\ task.record.outcome # "failed" =>
         preview.selected = Nil \/ SameModel(active, preview.selected)

TypeInv == TypeOK /\ TaskType /\ activation \in ActivationRecord \cup {Nil} /\ WorkersInv

IInv ==
  /\ TypeInv
  /\ TaskInv
  /\ TraceInv
  /\ ServeInv
  /\ RecordsInv
  /\ ThreadsInv
  /\ DecisionIsPreviewed
  /\ FaultStaysInPhase

-----------------------------------------------------------------------------
(* The scenario and its decisions.                                         *)

LEMMA ModelsDiffer ==
  /\ small # Nil /\ large # Nil /\ small # large
  /\ \A a, b \in Refs : SameModel(a, b) /\ b # Nil => a = b
  BY NilIsNoModel DEF small, large, Refs, SameModel, Identity

LEMMA PhasesType ==
  /\ Len(Phases) = 7 /\ DOMAIN Phases = 1..7
  /\ \A p \in 1..7 : Phases[p].battery \in Nat /\ Phases[p].fault \in BOOLEAN
<1>1. Len(Phases) = 7 /\ DOMAIN Phases = 1..7
  BY DEF Phases
<1>2. ASSUME NEW n, NEW b \in Nat, NEW f \in BOOLEAN
      PROVE  Stage(n, b, f).battery \in Nat /\ Stage(n, b, f).fault \in BOOLEAN
  BY DEF Stage
<1> DEFINE Typed(p) == Phases[p].battery \in Nat /\ Phases[p].fault \in BOOLEAN
<1>3. Typed(1) /\ Typed(2) /\ Typed(3) /\ Typed(4)
  BY <1>2 DEF Phases
<1>4. Typed(5) /\ Typed(6) /\ Typed(7)
  BY <1>2 DEF Phases
<1>5. ASSUME NEW p \in 1..7 PROVE Typed(p)
  <2>1. p = 1 \/ p = 2 \/ p = 3 \/ p = 4 \/ p = 5 \/ p = 6 \/ p = 7
    OBVIOUS
  <2> HIDE DEF Typed
  <2> QED
    BY <1>3, <1>4, <2>1
<1> QED
  BY <1>1, <1>5

\* available.get() finds both models.
LEMMA BothAvailable ==
  ASSUME NEW m \in {small, large} PROVE Available(<<small, large>>, m) = m
<1> DEFINE models == <<small, large>>
           at == {i \in DOMAIN models : Identity(models[i]) = Identity(m)}
<1>1. DOMAIN models = {1, 2} /\ models[1] = small /\ models[2] = large
  OBVIOUS
<1>2. Identity(small) # Identity(large)
  BY DEF small, large, Identity
<1>3. at = {IF m = small THEN 1 ELSE 2}
  BY <1>1, <1>2
<1>4. (CHOOSE i \in at : \A j \in at : i >= j) = (IF m = small THEN 1 ELSE 2)
  <2> DEFINE k == IF m = small THEN 1 ELSE 2
  <2>1. \A j \in {k} : k >= j
    OBVIOUS
  <2> HIDE DEF k, at
  <2>2. at = {k}
    BY <1>3 DEF k
  <2>3. (CHOOSE i \in at : \A j \in at : i >= j) = k
    BY <2>1, <2>2
  <2> QED
    BY <2>3 DEF k
<1> QED
  BY <1>1, <1>3, <1>4 DEF Available

\* What an evaluation says of its policy and its model.
LEMMA EvaluateIs ==
  ASSUME NEW place, NEW policy, NEW model, NEW context, NEW resources
  PROVE  LET e == Evaluate(place, policy, model, context, resources)
         IN  /\ e.place = place /\ e.priority = policy.priority
             /\ model # Nil => e.model = model
             /\ e.feasible <=> /\ model # Nil
                               /\ \A i \in DOMAIN policy.constraints :
                                    Satisfied(policy.constraints[i], context, resources)
  BY DEF Evaluate

\* What the evaluation of a model says: it is feasible from its minimum battery on.
Evaluated(place, m, battery) ==
  Evaluate(place, Policy(m), Available(<<small, large>>, m), [battery |-> Num(battery)], <<>>)

LEMMA EvaluatedIs ==
  ASSUME NEW place, NEW m \in {small, large}, NEW battery \in Nat
  PROVE  LET e == Evaluated(place, m, battery)
         IN  /\ e.place = place /\ e.model = m
             /\ e.priority = IF m = small THEN 10 ELSE 20
             /\ e.feasible <=> MinimumBattery(m) <= battery
<1> DEFINE context == [battery |-> Num(battery)]
           c == [source |-> "context", key |-> "battery", operator |-> "gte",
                 expected |-> Num(MinimumBattery(m))]
<1>1. Satisfied(c, context, <<>>) <=> MinimumBattery(m) <= battery
  <2>1. "battery" \in DOMAIN context
    OBVIOUS
  <2>2. context["battery"] = Num(battery)
    OBVIOUS
  <2>3. Compare(Num(battery), "gte", Num(MinimumBattery(m))) <=> MinimumBattery(m) <= battery
    <3>1. \A x : Num(x).kind = "num" /\ Num(x).v = x
      BY DEF Num
    <3>2. MinimumBattery(m) \in Nat
      BY DEF MinimumBattery
    <3> DEFINE n == MinimumBattery(m)
    <3> HIDE DEF n
    <3>3. Compare(Num(battery), "gte", Num(n)) <=> battery >= n
      BY <3>1 DEF Compare, AtLeast, Orderable
    <3> QED
      BY <3>2, <3>3 DEF n
  <2>4. /\ c.source = "context" /\ c.key = "battery" /\ c.operator = "gte"
        /\ c.expected = Num(MinimumBattery(m))
    OBVIOUS
  <2> HIDE DEF c, context
  <2> QED
    BY <2>1, <2>2, <2>3, <2>4 DEF Satisfied
<1>2. /\ Policy(m).constraints = <<c>>
      /\ Policy(m).priority = IF m = small THEN 10 ELSE 20
  <2>1. Policy(m).constraints = <<c>>
    BY DEF Policy
  <2>2. Policy(m).priority = IF m = small THEN 10 ELSE 20
    BY DEF Policy
  <2> QED
    BY <2>1, <2>2
<1> HIDE DEF c, context
<1>3. (\A i \in DOMAIN Policy(m).constraints :
         Satisfied(Policy(m).constraints[i], context, <<>>)) <=> MinimumBattery(m) <= battery
  <2>1. DOMAIN <<c>> = {1} /\ <<c>>[1] = c
    OBVIOUS
  <2> QED
    BY <1>1, <1>2, <2>1
<1> DEFINE e == Evaluate(place, Policy(m), m, context, <<>>)
<1>4. /\ e.place = place /\ e.model = m /\ e.priority = Policy(m).priority
      /\ e.feasible <=> \A i \in DOMAIN Policy(m).constraints :
                           Satisfied(Policy(m).constraints[i], context, <<>>)
  BY ModelsDiffer, EvaluateIs
<1>5. Evaluated(place, m, battery) = e
  BY BothAvailable DEF Evaluated, context
<1> HIDE DEF e
<1> QED
  BY <1>2, <1>3, <1>4, <1>5

\* The policies of a strategy are those of one model, or of both.
LEMMA PoliciesAre ==
  ASSUME NEW s
  PROVE  \/ \E m \in {small, large} : Policies(s) = <<Policy(m)>>
         \/ Policies(s) = <<Policy(small), Policy(large)>>
  BY DEF Policies

\* The evaluations and the selection of Preview.
Evaluations(s, battery) ==
  {Evaluate(i, Policies(s)[i], Available(<<small, large>>, Policies(s)[i].model),
            [battery |-> Num(battery)], <<>>) : i \in DOMAIN Policies(s)}

LEMMA PreviewIs ==
  ASSUME NEW s, NEW active_, NEW battery
  PROVE  /\ Preview(Policies(s), active_, battery).evaluations = Evaluations(s, battery)
         /\ Preview(Policies(s), active_, battery).selected =
              Rank(Evaluations(s, battery), active_)
  BY DEF Preview, Select, Evaluations

\* Each evaluation is the one of a model, and at most one for each model.
LEMMA BothEvaluated ==
  ASSUME NEW s, NEW battery, Policies(s) = <<Policy(small), Policy(large)>>
  PROVE  Evaluations(s, battery) = {Evaluated(1, small, battery), Evaluated(2, large, battery)}
<1>1. \A m : Policy(m).model = m
  BY DEF Policy
<1>2. DOMAIN Policies(s) = {1, 2} /\ Policies(s)[1] = Policy(small)
      /\ Policies(s)[2] = Policy(large)
  OBVIOUS
<1> QED
  BY <1>1, <1>2 DEF Evaluations, Evaluated

LEMMA EvaluationsAre ==
  ASSUME NEW s, NEW battery \in Nat
  PROVE  \/ \E m \in {small, large} : Evaluations(s, battery) = {Evaluated(1, m, battery)}
         \/ Evaluations(s, battery) =
              {Evaluated(1, small, battery), Evaluated(2, large, battery)}
<1>0. \A m : Policy(m).model = m
  BY DEF Policy
<1>1. ASSUME NEW m \in {small, large}, Policies(s) = <<Policy(m)>>
      PROVE  Evaluations(s, battery) = {Evaluated(1, m, battery)}
  <2>1. DOMAIN Policies(s) = {1} /\ Policies(s)[1] = Policy(m)
    BY <1>1
  <2> QED
    BY <1>0, <2>1 DEF Evaluations, Evaluated
<1> QED
  BY <1>1, BothEvaluated, PoliciesAre

\* The two models differ in priority, so ties do not come up.
LEMMA LargeIsBetter ==
  ASSUME NEW battery \in Nat, NEW current,
         NEW a \in {small, large}, NEW b \in {small, large},
         NEW i, NEW j
  PROVE  Better(Evaluated(i, a, battery), Evaluated(j, b, battery), current)
           <=> a = large /\ b = small
<1> DEFINE x == Evaluated(i, a, battery)
           y == Evaluated(j, b, battery)
<1>1. /\ x.model = a /\ y.model = b
      /\ x.priority = IF a = small THEN 10 ELSE 20
      /\ y.priority = IF b = small THEN 10 ELSE 20
  BY EvaluatedIs
<1>2. ~PairLess(Identity(a), Identity(a))
  BY DEF PairLess, Identity, small, large
<1> HIDE DEF x, y
<1>3. CASE a = b
  <2>1. x.priority = y.priority /\ ~(x.priority > y.priority)
    BY <1>1, <1>3
  <2> QED
    BY <1>1, <1>2, <1>3, <2>1, ModelsDiffer DEF Better, x, y
<1>4. CASE a # b
  <2>1. CASE a = large /\ b = small
    BY <1>1, <2>1, ModelsDiffer DEF Better, x, y
  <2>2. CASE a = small /\ b = large
    BY <1>1, <2>2, ModelsDiffer DEF Better, x, y
  <2> QED
    BY <1>4, <2>1, <2>2
<1> QED
  BY <1>3, <1>4

\* With a single best evaluation there is no choice.
LEMMA RankOfOneBest ==
  ASSUME NEW E, NEW current, NEW w \in E, w.feasible, w.place \in Nat,
         \A f \in E : f.feasible => ~Better(f, w, current),
         \A e \in E : e.feasible /\ e # w => Better(w, e, current)
  PROVE  Rank(E, current) = w.model
<1> DEFINE feasible == {e \in E : e.feasible}
           best == {e \in feasible : \A f \in feasible : ~Better(f, e, current)}
<1>1. w \in feasible /\ best = {w}
  OBVIOUS
<1>2. Rank(E, current) = (CHOOSE e \in best : \A f \in best : e.place <= f.place).model
  BY <1>1 DEF Rank
<1> HIDE DEF best
<1>3. (CHOOSE e \in best : \A f \in best : e.place <= f.place) = w
  BY <1>1
<1> QED
  BY <1>2, <1>3

\* With both policies the large model is selected from its battery on, and the
\* small one below; with one, that one or none.
LEMMA RankIsDetermined ==
  ASSUME NEW s, NEW battery \in Nat, NEW current
  PROVE  LET E == Evaluations(s, battery)
             ev(i, m) == Evaluated(i, m, battery)
         IN  /\ (\A e \in E : ~e.feasible) => Rank(E, current) = Nil
             /\ \A m \in {small, large} :
                  E = {ev(1, m)} /\ ev(1, m).feasible => Rank(E, current) = m
             /\ E = {ev(1, small), ev(2, large)} =>
                  /\ ev(2, large).feasible => Rank(E, current) = large
                  /\ ev(1, small).feasible /\ ~ev(2, large).feasible => Rank(E, current) = small
<1> DEFINE E == Evaluations(s, battery)
           ev(i, m) == Evaluated(i, m, battery)
<1>0. /\ \A i \in {1, 2}, m \in {small, large} : ev(i, m).place = i /\ ev(i, m).model = m
      /\ \A i, j \in {1, 2}, a, b \in {small, large} :
           Better(ev(i, a), ev(j, b), current) <=> a = large /\ b = small
      /\ 1 \in Nat /\ 2 \in Nat
  BY EvaluatedIs, LargeIsBetter
<1> HIDE DEF ev
<1>1. ASSUME \A e \in E : ~e.feasible PROVE Rank(E, current) = Nil
  BY <1>1 DEF Rank
<1>2. ASSUME NEW i \in {1, 2}, NEW m \in {small, large}, ev(i, m) \in E, ev(i, m).feasible,
             \A f \in E : f.feasible => ~Better(f, ev(i, m), current),
             \A e \in E : e.feasible /\ e # ev(i, m) => Better(ev(i, m), e, current)
      PROVE  Rank(E, current) = m
  <2>1. ev(i, m).place \in Nat /\ ev(i, m).model = m
    BY <1>0
  <2> HIDE DEF E
  <2> QED
    BY <1>2, <2>1, RankOfOneBest
<1>3. ASSUME NEW m \in {small, large}, E = {ev(1, m)}, ev(1, m).feasible
      PROVE  Rank(E, current) = m
  BY <1>0, <1>2, <1>3, ModelsDiffer
<1>4. ASSUME E = {ev(1, small), ev(2, large)}, ev(2, large).feasible
      PROVE  Rank(E, current) = large
  BY <1>0, <1>2, <1>4, ModelsDiffer
<1>5. ASSUME E = {ev(1, small), ev(2, large)}, ev(1, small).feasible, ~ev(2, large).feasible
      PROVE  Rank(E, current) = small
  BY <1>0, <1>2, <1>5, ModelsDiffer
<1> HIDE DEF E
<1> QED
  BY <1>1, <1>3, <1>4, <1>5 DEF ev, E

\* What is selected is the model of a feasible evaluation.
LEMMA RankIsFeasible ==
  ASSUME NEW s, NEW battery \in Nat, NEW current
  PROVE  \/ Rank(Evaluations(s, battery), current) = Nil
         \/ \E m \in {small, large}, i \in {1, 2} :
              /\ Evaluated(i, m, battery) \in Evaluations(s, battery)
              /\ Evaluated(i, m, battery).feasible
              /\ Rank(Evaluations(s, battery), current) = m
<1> DEFINE E == Evaluations(s, battery)
           ev(i, m) == Evaluated(i, m, battery)
<1>1. CASE \A e \in E : ~e.feasible
  BY <1>1, RankIsDetermined
<1>2. CASE \E e \in E : e.feasible
  <2>1. \/ \E m \in {small, large} : E = {ev(1, m)}
        \/ E = {ev(1, small), ev(2, large)}
    BY EvaluationsAre
  <2> HIDE DEF E, ev
  <2>2. /\ \A m \in {small, large} : E = {ev(1, m)} /\ ev(1, m).feasible => Rank(E, current) = m
        /\ E = {ev(1, small), ev(2, large)} =>
             /\ ev(2, large).feasible => Rank(E, current) = large
             /\ ev(1, small).feasible /\ ~ev(2, large).feasible => Rank(E, current) = small
    BY RankIsDetermined DEF E, ev
  <2>3. CASE \E m \in {small, large} : E = {ev(1, m)}
    BY <1>2, <2>2, <2>3 DEF ev, E
  <2>4. CASE E = {ev(1, small), ev(2, large)}
    BY <1>2, <2>2, <2>4 DEF ev, E
  <2> QED
    BY <2>1, <2>3, <2>4
<1> QED
  BY <1>1, <1>2

\* With both policies the decision is a function of the battery.
Choice(battery) == IF battery >= 40 THEN large ELSE IF battery >= 10 THEN small ELSE Nil

LEMMA BothPoliciesChoose ==
  ASSUME NEW current, NEW battery \in Nat
  PROVE  LET d == Preview(<<Policy(small), Policy(large)>>, current, battery)
         IN  /\ d.selected = Choice(battery)
             /\ \A m \in {small, large} : Feasible(m, d) <=> MinimumBattery(m) <= battery
<1> DEFINE s == "adaptive-background"
           d == Preview(Policies(s), current, battery)
           E == Evaluations(s, battery)
           ev(i, m) == Evaluated(i, m, battery)
<1>1. Policies(s) = <<Policy(small), Policy(large)>>
  BY DEF Policies
<1>2. d.evaluations = E /\ d.selected = Rank(E, current)
  BY PreviewIs
<1>3. E = {ev(1, small), ev(2, large)}
  BY <1>1, BothEvaluated
<1>4. \A i \in {1, 2}, m \in {small, large} :
        ev(i, m).model = m /\ (ev(i, m).feasible <=> MinimumBattery(m) <= battery)
  BY EvaluatedIs
<1>5. MinimumBattery(small) = 10 /\ MinimumBattery(large) = 40
  BY ModelsDiffer DEF MinimumBattery
<1>6. /\ (\A e \in E : ~e.feasible) => Rank(E, current) = Nil
      /\ E = {ev(1, small), ev(2, large)} =>
           /\ ev(2, large).feasible => Rank(E, current) = large
           /\ ev(1, small).feasible /\ ~ev(2, large).feasible => Rank(E, current) = small
  BY RankIsDetermined
<1> HIDE DEF d, E, ev
<1>7. d.selected = Choice(battery)
  BY <1>2, <1>3, <1>4, <1>5, <1>6 DEF Choice
<1>8. ASSUME NEW m \in {small, large} PROVE Feasible(m, d) <=> MinimumBattery(m) <= battery
  <2>1. m # Nil /\ \A n \in {small, large} : SameModel(m, n) <=> m = n
    BY ModelsDiffer DEF Refs, SameModel
  <2> QED
    BY <1>2, <1>3, <1>4, <2>1 DEF Feasible
<1> QED
  BY <1>1, <1>7, <1>8 DEF d

\* A decision is made for its battery: what it selects may serve, and what may
\* serve has the battery it needs.
LEMMA PreviewDecides ==
  ASSUME NEW s, NEW current, NEW battery \in Nat
  PROVE  Decides(Preview(Policies(s), current, battery), battery)
<1> DEFINE d == Preview(Policies(s), current, battery)
           E == Evaluations(s, battery)
<1>1. d.evaluations = E /\ d.selected = Rank(E, current)
  BY PreviewIs
<1> HIDE DEF d
<1>2. d.selected \in Refs /\ (d.selected # Nil => Feasible(d.selected, d))
  <2>1. CASE d.selected = Nil
    BY <2>1 DEF Refs
  <2>2. ASSUME NEW m \in {small, large}, NEW i \in {1, 2}, Evaluated(i, m, battery) \in E,
               Evaluated(i, m, battery).feasible, d.selected = m
        PROVE  d.selected \in Refs /\ Feasible(d.selected, d)
    <3>1. Evaluated(i, m, battery).model = m /\ m # Nil
      BY EvaluatedIs, ModelsDiffer
    <3> QED
      BY <1>1, <2>2, <3>1 DEF Refs, Feasible, SameModel
  <2> QED
    BY <1>1, <2>1, <2>2, RankIsFeasible
<1>3. ASSUME NEW m \in {small, large}, Feasible(m, d)
      PROVE  MinimumBattery(m) <= battery
  <2>1. PICK e \in E : e.feasible /\ SameModel(m, e.model)
    BY <1>1, <1>3 DEF Feasible
  <2>2. \E i \in {1, 2}, n \in {small, large} : e = Evaluated(i, n, battery)
    BY EvaluationsAre
  <2>3. PICK i \in {1, 2}, n \in {small, large} : e = Evaluated(i, n, battery)
    BY <2>2
  <2>4. e.model = n /\ (e.feasible <=> MinimumBattery(n) <= battery)
    BY <2>3, EvaluatedIs
  <2>5. m = n
    BY <2>1, <2>4, ModelsDiffer DEF Refs
  <2> QED
    BY <2>1, <2>4, <2>5
<1> QED
  BY <1>2, <1>3 DEF Decides, d
-----------------------------------------------------------------------------
(* Numbers, workers and traces.                                            *)

LEMMA Bounds ==
  /\ Files \in Nat /\ Files >= 1
  /\ Len(Strategies) \in Nat /\ Len(Strategies) >= 1
  /\ Total \in Nat /\ Total >= 1
<1>1. Files \in Nat /\ Files >= 1 /\ Repetitions \in Nat /\ Repetitions >= 1
  BY FilesAssumption
<1>2. Len(Strategies) \in Nat /\ Len(Strategies) >= 1
  <2>1. Len(Strategies) \in Nat /\ Len(Strategies) # 0
    BY StrategiesAssumption, EmptySeq, LenProperties
  <2> QED
    BY <2>1
<1>3. \A r, n \in Nat : r >= 1 /\ n >= 1 => r * n \in Nat /\ r * n >= 1
  OBVIOUS
<1> QED
  BY <1>1, <1>2, <1>3 DEF Total

\* Each worker has one of the strategies.
LEMMA TurnIsAStrategy ==
  ASSUME NEW n \in Nat PROVE Turn(n) \in ToSet(Strategies)
<1> DEFINE len == Len(Strategies)
           place == ((n \div len + n) % len) + 1
<1>1. len \in Nat /\ len >= 1 /\ DOMAIN Strategies = 1..len
  BY Bounds, StrategiesAssumption, LenProperties
<1>2. place \in 1..len
  <2> HIDE DEF len
  <2>1. n \div len \in Nat
    BY <1>1
  <2>2. (n \div len + n) % len \in 0..(len - 1)
    BY <1>1, <2>1
  <2> QED
    BY <1>1, <2>2
<1> HIDE DEF place
<1>3. Strategies[place] \in ToSet(Strategies)
  BY <1>1, <1>2 DEF ToSet
<1> QED
  BY <1>3 DEF Turn, place

LEMMA OneMore ==
  ASSUME NEW T, NEW e \in Seq(T), NEW x \in T
  PROVE  /\ e \o <<x>> \in Seq(T)
         /\ Len(e \o <<x>>) = Len(e) + 1
         /\ \A i \in 1..(Len(e) + 1) : (e \o <<x>>)[i] = IF i <= Len(e) THEN e[i] ELSE x
<1>1. <<x>> \in Seq(T) /\ Len(<<x>>) = 1 /\ <<x>>[1] = x
  OBVIOUS
<1>2. /\ e \o <<x>> \in Seq(T)
      /\ Len(e \o <<x>>) = Len(e) + Len(<<x>>)
      /\ \A i \in 1..(Len(e) + Len(<<x>>)) :
           (e \o <<x>>)[i] = IF i <= Len(e) THEN e[i] ELSE <<x>>[i - Len(e)]
  BY <1>1, ConcatProperties
<1>3. Len(e) \in Nat
  BY LenProperties
<1>4. ASSUME NEW i \in 1..(Len(e) + 1), ~(i <= Len(e)) PROVE i - Len(e) = 1
  BY <1>3, <1>4
<1> QED
  BY <1>1, <1>2, <1>3, <1>4

\* Traces that grow by a request, by an activation, or by both.
LEMMA RequestAdded ==
  ASSUME NEW T, NEW e \in Seq(T), NEW n \in Nat, NEW r \in T, r.event = "request", r.item = n
  PROVE  /\ Unreported(e, n) => Unreported(e \o <<r>>, n + 1)
         /\ Reported(e, n) => Reported(e \o <<r>>, n + 1)
<1> DEFINE f == e \o <<r>>
<1>1. Len(f) = Len(e) + 1 /\ \A i \in 1..(Len(e) + 1) : f[i] = IF i <= Len(e) THEN e[i] ELSE r
  BY OneMore
<1> HIDE DEF f
<1>2. ASSUME Unreported(e, n) PROVE Unreported(f, n + 1)
  <2>1. ASSUME NEW i \in 1..(n + 1) PROVE f[i].event = "request" /\ f[i].item = i - 1
    <3>1. CASE i <= n
      BY <1>1, <1>2, <3>1 DEF Unreported
    <3>2. CASE i = n + 1
      BY <1>1, <1>2, <3>2 DEF Unreported
    <3> QED
      BY <3>1, <3>2
  <2> QED
    BY <1>1, <1>2, <2>1 DEF Unreported
<1>3. ASSUME Reported(e, n) PROVE Reported(f, n + 1)
  <2>1. PICK k \in 1..(n + 1) :
          /\ e[k].event = "activation"
          /\ \A i \in (1..(n + 1)) \ {k} :
               e[i].event = "request" /\ e[i].item = IF i < k THEN i - 1 ELSE i - 2
    BY <1>3 DEF Reported
  <2>2. Len(f) = (n + 1) + 1 /\ Len(e) = n + 1
    BY <1>1, <1>3 DEF Reported
  <2>3. k \in 1..((n + 1) + 1) /\ f[k].event = "activation"
    BY <1>1, <2>1, <2>2
  <2>4. ASSUME NEW i \in (1..((n + 1) + 1)) \ {k}
        PROVE  f[i].event = "request" /\ f[i].item = IF i < k THEN i - 1 ELSE i - 2
    <3>1. CASE i <= n + 1
      BY <1>1, <2>1, <2>2, <3>1
    <3>2. CASE i = n + 2
      BY <1>1, <2>1, <2>2, <3>2
    <3> QED
      BY <3>1, <3>2
  <2> QED
    BY <2>2, <2>3, <2>4 DEF Reported
<1> QED
  BY <1>2, <1>3 DEF f

LEMMA ActivationAdded ==
  ASSUME NEW T, NEW e \in Seq(T), NEW n \in Nat, NEW a \in T, a.event = "activation",
         Unreported(e, n)
  PROVE  Reported(e \o <<a>>, n)
<1> DEFINE f == e \o <<a>>
<1>1. Len(f) = n + 1 /\ \A i \in 1..(n + 1) : f[i] = IF i <= n THEN e[i] ELSE a
  BY OneMore DEF Unreported
<1> HIDE DEF f
<1>2. n + 1 \in 1..(n + 1) /\ f[n + 1].event = "activation"
  BY <1>1
<1>3. ASSUME NEW i \in (1..(n + 1)) \ {n + 1}
      PROVE  f[i].event = "request" /\ f[i].item = IF i < n + 1 THEN i - 1 ELSE i - 2
  <2>1. i \in 1..n /\ i < n + 1 /\ f[i] = e[i]
    BY <1>1
  <2> QED
    BY <2>1 DEF Unreported
<1> QED
  BY <1>1, <1>2, <1>3 DEF Reported, f

\* The records of a trace are typed, and summarize() counts them.
LEMMA CountsAreNumbers == ASSUME TypeOK PROVE \A o : With(o) \in Nat
<1>1. DOMAIN emitted = 1..Len(emitted) /\ Len(emitted) \in Nat
  BY LenProperties DEF TypeOK
<1>2. IsFiniteSet(1..Len(emitted))
  BY <1>1, FS_Interval
<1>3. ASSUME NEW o PROVE With(o) \in Nat
  <2> DEFINE S == {i \in DOMAIN emitted : emitted[i].outcome = o}
  <2>1. IsFiniteSet(S)
    BY <1>1, <1>2, FS_Subset
  <2>2. Cardinality(S) \in Nat
    BY <2>1, FS_CardinalityType
  <2> QED
    BY <2>2 DEF With
<1> QED
  BY <1>3

LEMMA AccountedType ==
  ASSUME TypeOK
  PROVE  Accounted \in [served : Nat, abstained : Nat, published : Nat, loads : Nat,
                        trouble : BOOLEAN]
<1> DEFINE Account == [served : Nat, abstained : Nat, published : Nat, loads : Nat,
                       trouble : BOOLEAN]
           trouble == \E i \in DOMAIN emitted :
                        IF emitted[i].event = "request" THEN emitted[i].outcome = "error"
                                                        ELSE emitted[i].unexpected
<1>1. /\ account \in Account
      /\ account.served + With("ok") \in Nat
      /\ account.abstained + With("abstained") \in Nat
      /\ account.published + With("published") \in Nat
  BY CountsAreNumbers DEF TypeOK
<1>2. ASSUME NEW a \in Nat, NEW b \in Nat, NEW c \in Nat, NEW d \in BOOLEAN
      PROVE  [account EXCEPT !.served = a, !.abstained = b, !.published = c, !.trouble = d]
               \in Account
  BY <1>1
<1>3. (account.trouble \/ trouble) \in BOOLEAN
  OBVIOUS
<1>4. Accounted = [account EXCEPT !.served = account.served + With("ok"),
                     !.abstained = account.abstained + With("abstained"),
                     !.published = account.published + With("published"),
                     !.trouble = (account.trouble \/ trouble)]
  BY DEF Accounted
<1> HIDE DEF trouble, Account
<1> QED
  BY <1>1, <1>2, <1>3, <1>4 DEF Account

-----------------------------------------------------------------------------
(* Init, and the next worker.                                              *)

\* The state a worker starts in.
Fresh ==
  /\ account = NoAccount /\ ended = "no"
  /\ phase = 1 /\ pc = "begin" /\ item = 0
  /\ preview = Nil /\ pending = FALSE /\ activation = Nil
  /\ task = NoTask /\ loader = "idle"
  /\ captured = Nil /\ inferring = FALSE /\ active = Nil
  /\ hidden = Phases[1].fault /\ tmp = TRUE
  /\ emitted = <<>>

Starting ==
  Fresh /\ strategy \in ToSet(Strategies) /\ WorkersInv /\ Len(summaries) < Total

LEMMA FreshInv == Starting => IInv
<1> SUFFICES ASSUME Starting, Fresh, WorkersInv PROVE IInv
  BY DEF Starting
<1>1. TypeOK
  <2>1. 0 \in 0..Files /\ 1 \in DOMAIN Phases /\ Phases[1].fault \in BOOLEAN
    BY Bounds, PhasesType
  <2>2. Len(summaries) <= Total
    BY Bounds, LenProperties DEF Starting, WorkersInv
  <2>3. emitted \in Seq(ActivationRecord \cup RequestRecord)
    BY EmptySeq DEF Fresh
  <2>4. strategy \in ToSet(Strategies)
    BY DEF Starting
  <2> QED
    BY <2>1, <2>2, <2>3, <2>4 DEF Fresh, TypeOK, NoAccount, NoTask, Suspended, Refs, Total
<1>2. TaskType /\ activation \in ActivationRecord \cup {Nil}
  BY DEF Fresh, TaskType, NoTask, Refs
<1>3. TaskInv
  BY DEF Fresh, TaskInv, NoTask, Underway, Serving, Left
<1>4. TraceInv /\ ServeInv /\ ThreadsInv
  BY DEF Fresh, TraceInv, ServeInv, ThreadsInv, Underway, Serving
<1>5. RecordsInv
  <2>1. DOMAIN emitted = {}
    BY EmptySeq DEF Fresh
  <2> QED
    BY <2>1 DEF RecordsInv
<1>6. DecisionIsPreviewed /\ FaultStaysInPhase
  <2>1. hidden = Phases[1].fault /\ phase = 1 /\ pc = "begin" /\ task.state = "none"
    BY DEF Fresh, NoTask
  <2>2. Phases[1].fault \in BOOLEAN
    BY PhasesType
  <2> QED
    BY <2>1, <2>2 DEF DecisionIsPreviewed, FaultStaysInPhase, Fault
<1> QED
  BY <1>1, <1>2, <1>3, <1>4, <1>5, <1>6 DEF IInv, TypeInv

LEMMA FreshNextInv == Starting' => IInv'
  BY FreshInv, PTL

LEMMA InitInv == Init => IInv
<1> SUFFICES ASSUME Init PROVE IInv
  OBVIOUS
<1>1. WorkersInv /\ Len(summaries) < Total
  BY Bounds, EmptySeq DEF Init, WorkersInv
<1>2. strategy \in ToSet(Strategies)
  BY TurnIsAStrategy DEF Init
<1>3. Fresh
  BY DEF Init, Fresh, Fault
<1> QED
  BY <1>1, <1>2, <1>3, FreshInv DEF Starting

LEMMA CollectInv == ASSUME IInv, Collect PROVE IInv'
<1> DEFINE Account == [served : Nat, abstained : Nat, published : Nat, loads : Nat,
                       trouble : BOOLEAN]
           Summary == [strategy : ToSet(Strategies), account : Account]
           summary == [strategy |-> strategy, account |-> account]
<1>1. /\ summaries \in Seq(Summary) /\ Len(summaries) \in Nat /\ Len(summaries) < Total
      /\ TypeOK
  BY LenProperties DEF IInv, TypeInv, WorkersInv, Collect
<1>2. summaries' \in Seq(Summary) /\ Len(summaries') = Len(summaries) + 1
  <2>1. summary \in Summary
    BY <1>1 DEF TypeOK
  <2>2. summaries' = Append(summaries, summary)
    BY DEF Collect
  <2> HIDE DEF summary, Summary
  <2> QED
    BY <1>1, <2>1, <2>2, AppendProperties
<1>3. CASE Len(summaries') = Total
  <2>1. /\ pc' = "written" /\ pc = "closed"
        /\ UNCHANGED <<strategy, account, ended, phase, item, preview, pending, activation,
                       task, loader, captured, inferring, active, hidden, tmp, emitted>>
    BY <1>3 DEF Collect, Total
  <2>2. TypeOK'
    BY <1>1, <1>2, <1>3, <2>1, Bounds DEF TypeOK, Suspended, Total
  <2>3. TaskType' /\ (activation \in ActivationRecord \cup {Nil})'
    BY <2>1 DEF IInv, TypeInv, TaskType
  <2>4. WorkersInv'
    BY <1>2, <2>1 DEF WorkersInv
  <2>5. TaskInv'
    BY <2>1 DEF IInv, TaskInv, Underway, Serving, Left
  <2>6. TraceInv' /\ ServeInv' /\ ThreadsInv'
    BY <2>1 DEF IInv, TraceInv, ServeInv, ThreadsInv, Underway, Serving
  <2>7. RecordsInv'
    BY <2>1 DEF IInv, RecordsInv, Battery
  <2>8. DecisionIsPreviewed' /\ FaultStaysInPhase'
    BY <2>1 DEF IInv, DecisionIsPreviewed, FaultStaysInPhase, Fault
  <2> QED
    BY <2>2, <2>3, <2>4, <2>5, <2>6, <2>7, <2>8 DEF IInv, TypeInv
<1>4. CASE Len(summaries') # Total
  <2>1. strategy' = Turn(Len(summaries')) /\ Fresh'
    BY <1>4 DEF Collect, Fresh, Total
  <2>2. (strategy \in ToSet(Strategies))'
    BY <1>1, <1>2, <2>1, TurnIsAStrategy
  <2>3. (Len(summaries) < Total)'
    BY <1>1, <1>2, <1>4, Bounds
  <2>4. WorkersInv'
    BY <1>2, <2>3 DEF WorkersInv
  <2> QED
    BY <2>1, <2>2, <2>3, <2>4, FreshNextInv DEF Starting
<1> QED
  BY <1>3, <1>4

-----------------------------------------------------------------------------
(* Steps that neither decide, publish nor record.                          *)

\* Where such a step takes the coroutine.
Moves ==
  \/ pc' = pc
  \/ pc \in {"wait", "serve"} /\ pc' \in {"serve", "inferring"}
  \/ pc # "written" /\ pc' \in Left \ {"written"}

LEMMA QuietStep ==
  ASSUME IInv, Moves, TypeOK', ThreadsInv',
         UNCHANGED <<strategy, summaries, phase, item, preview, pending, activation,
                     active, emitted>>,
         \/ task' = task
         \/ /\ task.state = "awaiting" /\ pc' = "cleanup"
            /\ task' = [task EXCEPT !.state = "cancelled"],
         pc' \in Left => task'.state # "awaiting",
         pc' = "inferring" => captured' # Nil /\ MinimumBattery(captured') <= Battery,
         hidden' = (Fault /\ pc' \notin {"joining", "closed", "written"})
  PROVE  IInv'
<1>1. TaskType' /\ (activation \in ActivationRecord \cup {Nil})'
  BY DEF IInv, TypeInv, TaskType
<1>2. WorkersInv'
  BY DEF IInv, TypeInv, WorkersInv, Moves, Left
<1>3. \/ task'.state = task.state
      \/ task.state = "awaiting" /\ task'.state = "cancelled" /\ pc' = "cleanup"
  BY DEF IInv, TypeInv, TaskType
<1>4. task'.phase = task.phase /\ task'.selected = task.selected /\ task'.record = task.record
  BY DEF IInv, TypeInv, TaskType
<1>5. TaskInv'
  BY <1>3, <1>4 DEF IInv, TaskInv, Moves, Underway, Serving, Left
<1>6. TraceInv'
  BY DEF IInv, TraceInv, Moves, Serving, Left, Unreported, Reported
<1>7. ServeInv'
  BY <1>3, <1>4 DEF IInv, ServeInv, Moves, Underway, Serving, Left, Battery
<1>8. RecordsInv'
  BY <1>3, <1>4 DEF IInv, RecordsInv, Battery
<1>9. DecisionIsPreviewed'
  BY <1>3, <1>4 DEF IInv, DecisionIsPreviewed
<1>10. FaultStaysInPhase'
  BY <1>3, <1>4 DEF IInv, FaultStaysInPhase, Fault
<1> QED
  BY <1>1, <1>2, <1>5, <1>6, <1>7, <1>8, <1>9, <1>10 DEF IInv, TypeInv

\* The threads, and an inference nobody waits for.
LEMMA ThreadsStep == ASSUME IInv, Threads PROVE IInv'
<1>1. UNCHANGED <<strategy, summaries, phase, item, preview, pending, activation,
                  active, emitted, pc, task, captured, hidden, ended, tmp>>
  BY DEF Threads, LoaderStarts, LoaderEnds, OrphanEnds, run
<1>2. TypeOK'
  <2>1. account' \in [served : Nat, abstained : Nat, published : Nat, loads : Nat,
                      trouble : BOOLEAN]
    BY DEF IInv, TypeInv, TypeOK, Threads, LoaderStarts, LoaderEnds, OrphanEnds, run
  <2>2. loader' \in {"idle", "queued", "running", "ok", "failed", "unavailable"}
        /\ inferring' \in BOOLEAN
    BY DEF IInv, TypeInv, TypeOK, Threads, LoaderStarts, LoaderEnds, OrphanEnds
  <2> QED
    BY <1>1, <2>1, <2>2 DEF IInv, TypeInv, TypeOK, Suspended
<1>3. ThreadsInv'
  BY <1>1 DEF IInv, ThreadsInv, Threads, LoaderStarts, LoaderEnds, OrphanEnds
<1>4. pc' \in Left => task'.state # "awaiting"
  BY <1>1 DEF IInv, TaskInv
<1>5. pc' = "inferring" => captured' # Nil /\ MinimumBattery(captured') <= Battery
  BY <1>1 DEF IInv, ServeInv
<1>6. hidden' = (Fault /\ pc' \notin {"joining", "closed", "written"})
  BY <1>1 DEF IInv, FaultStaysInPhase
<1>7. Moves
  BY <1>1 DEF Moves
<1> QED
  BY <1>1, <1>2, <1>3, <1>4, <1>5, <1>6, <1>7, QuietStep

LEMMA ArriveInv == ASSUME IInv, Arrive PROVE IInv'
<1>1. TypeOK' /\ ThreadsInv' /\ Moves
  BY DEF IInv, TypeInv, TypeOK, ThreadsInv, Moves, Arrive, run, Suspended
<1>2. hidden' = (Fault /\ pc' \notin {"joining", "closed", "written"})
  BY DEF IInv, FaultStaysInPhase, Arrive
<1> QED
  BY <1>1, <1>2, QuietStep DEF Arrive, run, Left

LEMMA AdmitInv == ASSUME IInv, Admit PROVE IInv'
<1>1. TypeOK' /\ ThreadsInv' /\ Moves
  BY DEF IInv, TypeInv, TypeOK, ThreadsInv, Moves, Admit, run, Suspended
<1>2. hidden' = (Fault /\ pc' \notin {"joining", "closed", "written"})
  BY DEF IInv, FaultStaysInPhase, Admit
<1>3. captured' # Nil /\ MinimumBattery(captured') <= Battery
  <2>1. active # Nil /\ active \in Refs /\ Feasible(active, preview)
    BY DEF Admit, Feasible, IInv, TypeInv, TypeOK
  <2>2. Decides(preview, Battery)
    BY DEF IInv, ServeInv, Admit, Underway, Serving
  <2> QED
    BY <2>1, <2>2 DEF Admit, Decides, Refs
<1> QED
  BY <1>1, <1>2, <1>3, QuietStep DEF Admit, run, Left

LEMMA InterruptInv == ASSUME IInv, Interrupt PROVE IInv'
<1>1. \/ task' = task /\ task.state # "awaiting"
      \/ task.state = "awaiting" /\ task' = [task EXCEPT !.state = "cancelled"]
  BY DEF Interrupt
<1>2. TypeOK'
  <2>1. task'.state \in {"none", "awaiting", "done", "cancelled"} /\ task'.selected \in Refs
    BY <1>1 DEF IInv, TypeInv, TaskType
  <2> QED
    BY <2>1 DEF IInv, TypeInv, TypeOK, Interrupt, run, Suspended
<1>3. ThreadsInv' /\ Moves /\ pc' = "cleanup"
  BY DEF IInv, ThreadsInv, Moves, Interrupt, Suspended, Left
<1>4. task'.state # "awaiting"
  BY <1>1 DEF IInv, TypeInv, TaskType
<1>5. hidden' = (Fault /\ pc' \notin {"joining", "closed", "written"})
  BY DEF IInv, FaultStaysInPhase, Interrupt, Suspended
<1> QED
  BY <1>1, <1>2, <1>3, <1>4, <1>5, QuietStep DEF Interrupt, run

\* The ways out of a worker.
LEMMA LeavingInv == ASSUME IInv, Finish \/ Cleanup \/ Close PROVE IInv'
<1>1. /\ UNCHANGED <<strategy, summaries, phase, item, preview, pending, activation, active,
                     emitted, task, loader, captured, inferring>>
      /\ pc \in {"leave", "cleanup", "joining"}
      /\ pc' \in {"joining", "closed"}
      /\ Moves
  BY DEF Finish, Cleanup, Close, Moves, Left
<1>2. account' \in [served : Nat, abstained : Nat, published : Nat, loads : Nat,
                    trouble : BOOLEAN]
  BY AccountedType DEF IInv, TypeInv, TypeOK, Finish, Cleanup, Close
<1>3. TypeOK'
  <2>1. ended' \in {"no", "interrupted", "failed", "ok"}
    BY DEF IInv, TypeInv, TypeOK, Finish, Cleanup, Close
  <2>2. hidden' \in BOOLEAN /\ tmp' \in BOOLEAN
    BY DEF IInv, TypeInv, TypeOK, Finish, Cleanup, Close
  <2> QED
    BY <1>1, <1>2, <2>1, <2>2 DEF IInv, TypeInv, TypeOK, Suspended
<1>4. ThreadsInv'
  <2>1. CASE Finish \/ Cleanup
    BY <2>1 DEF IInv, ThreadsInv, Finish, Cleanup, run
  <2>2. CASE Close
    BY <2>2 DEF IInv, ThreadsInv, Close
  <2> QED
    BY <2>1, <2>2
<1>5. task'.state # "awaiting"
  BY <1>1 DEF IInv, TaskInv, Left
<1>6. hidden' = (Fault /\ pc' \notin {"joining", "closed", "written"})
  BY DEF IInv, FaultStaysInPhase, Finish, Cleanup, Close
<1> QED
  BY <1>1, <1>3, <1>4, <1>5, <1>6, QuietStep

-----------------------------------------------------------------------------
(* The reconciliation and what it publishes.                               *)

\* The load's result reaches reconcile() while requests may be served.
LEMMA TaskResumesInv == ASSUME IInv, TaskResumes PROVE IInv'
<1>1. /\ UNCHANGED <<strategy, account, ended, summaries, phase, pc, item, preview, pending,
                     activation, captured, inferring, hidden, tmp, emitted>>
      /\ pc \in Suspended /\ task.state = "awaiting" /\ loader' = "idle"
  BY DEF TaskResumes, run
<1>2. pc \in Underway /\ task.phase = phase /\ task.selected = preview.selected
      /\ task.selected \in Refs /\ active \in Refs
  BY <1>1 DEF IInv, TypeInv, TaskType, TypeOK, TaskInv, Suspended, Underway, Serving, Left
<1>3. /\ task'.state = "done" /\ task'.phase = phase /\ task'.selected = task.selected
      /\ task'.record.selected = preview.selected
      /\ \/ task'.record.outcome = "published" /\ active' = preview.selected
         \/ task'.record.outcome = "failed" /\ active' = active
  BY <1>2 DEF TaskResumes, Activation, IInv, TypeInv, TaskType
<1>4. active' \in Refs /\ task'.record \in ActivationRecord
  BY <1>2 DEF TaskResumes, Activation, ActivationRecord, IInv, TypeInv, TaskType
<1>5. TaskType'
  BY <1>2, <1>4 DEF TaskResumes, IInv, TypeInv, TaskType
<1>6. TypeOK'
  BY <1>1, <1>2, <1>3, <1>4 DEF IInv, TypeInv, TypeOK, Suspended
<1>7. TypeInv'
  BY <1>1, <1>5, <1>6 DEF IInv, TypeInv, WorkersInv
<1>8. TaskInv'
  BY <1>1, <1>2, <1>3 DEF IInv, TaskInv, Underway, Serving, Left
<1>9. TraceInv'
  BY <1>1 DEF IInv, TraceInv, Unreported, Reported
<1>10. ServeInv'
  BY <1>1, <1>2, <1>3 DEF IInv, ServeInv, Decides, Battery, Underway, Serving
<1>11. RecordsInv'
  BY <1>1 DEF IInv, RecordsInv, Battery
<1>12. ThreadsInv'
  BY <1>1 DEF IInv, ThreadsInv
<1>13. DecisionIsPreviewed'
  BY <1>1, <1>3, ModelsDiffer DEF DecisionIsPreviewed, SameModel
<1>14. FaultStaysInPhase'
  BY <1>1, <1>3 DEF IInv, FaultStaysInPhase, Fault
<1> QED
  BY <1>7, <1>8, <1>9, <1>10, <1>11, <1>12, <1>13, <1>14 DEF IInv

LEMMA ReconciledInv == ASSUME IInv, Reconciled PROVE IInv'
<1>1. /\ UNCHANGED <<strategy, account, ended, summaries, phase, item, preview, pending, task,
                     loader, captured, inferring, active, hidden, tmp, emitted>>
      /\ pc = "reconciling" /\ pc' = "serve" /\ task.state = "done"
      /\ activation' = task.record /\ task.record \in ActivationRecord
  BY DEF Reconciled, run, IInv, TypeInv, TaskType
<1>2. TypeInv'
  BY <1>1 DEF IInv, TypeInv, TypeOK, TaskType, WorkersInv, Suspended
<1>3. TaskInv'
  BY <1>1 DEF IInv, TaskInv, Underway, Serving, Left
<1>4. TraceInv'
  <2>1. item = 0 /\ emitted = <<>> /\ ~pending
    BY <1>1 DEF IInv, TraceInv, TaskInv
  <2>2. Unreported(emitted, item) /\ 0 < Files
    BY <2>1, Bounds, EmptySeq DEF Unreported
  <2>3. activation' # Nil
    BY <1>1, NilIsNoRecord
  <2> QED
    BY <1>1, <2>1, <2>2, <2>3 DEF TraceInv, Serving, Unreported
<1>5. ServeInv'
  <2>1. Decides(preview, Battery) /\ task.phase = phase
    BY <1>1 DEF IInv, ServeInv, TaskInv, Underway
  <2>2. \/ preview.selected = Nil
        \/ task.record.outcome = "failed"
        \/ SameModel(active, preview.selected)
    BY <1>1, <2>1 DEF IInv, DecisionIsPreviewed
  <2>3. SameModel(active, preview.selected) /\ preview.selected # Nil
        => Feasible(active, preview)
    BY <2>1, ModelsDiffer DEF IInv, TypeInv, TypeOK, Decides
  <2> QED
    BY <1>1, <2>1, <2>2, <2>3 DEF ServeInv, Battery
<1>6. RecordsInv'
  BY <1>1 DEF IInv, RecordsInv, Battery
<1>7. ThreadsInv' /\ DecisionIsPreviewed' /\ FaultStaysInPhase'
  BY <1>1 DEF IInv, ThreadsInv, DecisionIsPreviewed, FaultStaysInPhase, Fault
<1> QED
  BY <1>2, <1>3, <1>4, <1>5, <1>6, <1>7 DEF IInv

\* The first request of a phase: what it decides, and whether it waits.
LEMMA BeginInv == ASSUME IInv, Begin PROVE IInv'
<1> DEFINE decision == SelectFor(Battery)
<1>1. /\ UNCHANGED <<strategy, account, ended, summaries, phase, item, captured, inferring,
                     active, hidden, tmp, emitted>>
      /\ pc = "begin" /\ preview' = decision
  BY DEF Begin, run
<1>2. Battery \in Nat
  BY PhasesType DEF IInv, TypeInv, TypeOK, Battery
<1>3. Decides(decision, Battery) /\ decision.selected \in Refs /\ active \in Refs
  BY <1>2, PreviewDecides DEF SelectFor, Decides, IInv, TypeInv, TypeOK
<1> HIDE DEF decision
<1>4. /\ task'.phase = phase /\ task'.selected = decision.selected
      /\ \/ /\ task'.state = "awaiting" /\ task'.record = Nil
            /\ decision.selected # Nil /\ ~SameModel(active, decision.selected)
         \/ /\ task'.state = "done" /\ task'.record.outcome = "unchanged"
            /\ task'.record.selected = decision.selected
            /\ task'.record \in ActivationRecord
            /\ decision.selected = Nil \/ SameModel(active, decision.selected)
  <2>1. CASE decision.selected = Nil \/ SameModel(active, decision.selected)
    <3>1. task' = [state |-> "done", phase |-> phase, selected |-> decision.selected,
                   record |-> Activation("unchanged", FALSE, decision.selected, active)]
      BY <2>1 DEF Begin, Reconcile, decision
    <3>2. Activation("unchanged", FALSE, decision.selected, active) \in ActivationRecord
      BY <1>3 DEF Activation, ActivationRecord
    <3> QED
      BY <2>1, <3>1, <3>2 DEF Activation
  <2>2. CASE ~(decision.selected = Nil \/ SameModel(active, decision.selected))
    <3>1. task' = [state |-> "awaiting", phase |-> phase, selected |-> decision.selected,
                   record |-> Nil]
      BY <2>2 DEF Begin, Reconcile, decision
    <3> QED
      BY <2>2, <3>1
  <2> QED
    BY <2>1, <2>2
<1>5. TaskType'
  <2>1. phase \in Nat
    <3>1. phase \in DOMAIN Phases
      BY DEF IInv, TypeInv, TypeOK
    <3> QED
      BY <3>1, PhasesType
  <2>2. task' \in [state : {"none", "awaiting", "done", "cancelled"}, phase : Nat,
                   selected : Refs, record : ActivationRecord \cup {Nil}]
    <3>1. \E st, rec : task' = [state |-> st, phase |-> phase,
                                selected |-> decision.selected, record |-> rec]
      BY DEF Begin, Reconcile, decision
    <3> QED
      BY <1>3, <1>4, <2>1, <3>1
  <2> QED
    BY <1>4, <2>2 DEF TaskType
<1>6. loader' \in {"idle", "queued", "running", "ok", "failed", "unavailable"}
  BY DEF Begin, Reconcile, IInv, TypeInv, TypeOK
<1>7. \/ /\ pc' = "reconciling" /\ ~pending'
         /\ (Background => ~Feasible(active, decision) /\ decision.selected # Nil)
         /\ (~Background => task'.state = "awaiting")
      \/ /\ pc' = "serve"
         /\ pending' <=> Background
         /\ (Background => Feasible(active, decision) \/ decision.selected = Nil)
         /\ (~Background => task'.state # "awaiting")
  BY DEF Begin, decision
<1>8. activation' = (IF Background THEN Nil ELSE task'.record) /\ pending' \in BOOLEAN
  BY DEF Begin, Background
<1>9. TypeOK'
  BY <1>1, <1>3, <1>4, <1>6, <1>7, <1>8 DEF IInv, TypeInv, TypeOK, Suspended
<1>10. TypeInv'
  <2>1. (activation \in ActivationRecord \cup {Nil})'
    BY <1>4, <1>8
  <2>2. WorkersInv'
    BY <1>1 DEF IInv, TypeInv, WorkersInv
  <2> QED
    BY <1>5, <1>9, <2>1, <2>2 DEF TypeInv
<1>11. TaskInv'
  BY <1>1, <1>4, <1>7 DEF TaskInv, Underway, Serving, Left
<1>12. TraceInv'
  <2>1. item = 0 /\ emitted = <<>>
    BY <1>1 DEF IInv, TraceInv
  <2>2. Unreported(emitted, item) /\ 0 < Files
    BY <2>1, Bounds, EmptySeq DEF Unreported
  <2>3. Unreported(emitted, item)'
    BY <1>1, <2>2 DEF Unreported
  <2>4. pc' = "serve" => ~(pending' /\ activation' # Nil) /\ (pending' \/ activation' # Nil)
    BY <1>4, <1>7, <1>8, NilIsNoRecord
  <2> QED
    BY <1>1, <1>7, <2>1, <2>2, <2>3, <2>4 DEF TraceInv, Serving
<1>13. ServeInv'
  <2>1. SameModel(active, decision.selected) /\ decision.selected # Nil
        => Feasible(active, decision)
    BY <1>3, ModelsDiffer DEF Decides
  <2>2. pc' = "serve" => decision.selected = Nil \/ Feasible(active, decision)
    BY <1>4, <1>7, <2>1
  <2>3. /\ Decides(preview, Battery)' <=> Decides(decision, Battery)
        /\ Feasible(active, preview)' <=> Feasible(active, decision)
    BY <1>1 DEF Battery
  <2> QED
    BY <1>1, <1>3, <1>7, <2>2, <2>3 DEF ServeInv, Serving
<1>14. RecordsInv'
  <2>1. DOMAIN emitted = {}
    BY <1>1, EmptySeq DEF IInv, TraceInv
  <2> QED
    BY <1>1, <2>1 DEF RecordsInv
<1>15. ThreadsInv'
  BY <1>1, <1>7 DEF IInv, ThreadsInv
<1>16. DecisionIsPreviewed'
  BY <1>1, <1>4 DEF DecisionIsPreviewed
<1>17. FaultStaysInPhase'
  BY <1>1, <1>4, <1>7 DEF IInv, FaultStaysInPhase, Fault
<1> QED
  BY <1>10, <1>11, <1>12, <1>13, <1>14, <1>15, <1>16, <1>17 DEF IInv

-----------------------------------------------------------------------------
(* Steps that record.                                                      *)

\* The end of a turn: the request's record, and the activation's when there is one.
LEMMA EmitInv ==
  ASSUME IInv, pc \in {"serve", "inferring"},
         NEW outcome \in {"ok", "abstained", "error"}, NEW model \in Refs, NEW was \in Refs,
         Emit(outcome, model, was), captured' \in Refs, inferring' \in BOOLEAN,
         outcome = "ok" => MinimumBattery(model) <= Battery,
         outcome = "abstained" => \/ preview.selected = Nil
                                  \/ task.state = "done" /\ task.record.outcome = "failed"
  PROVE  IInv'
<1> DEFINE request == [event |-> "request", item |-> item, outcome |-> outcome,
                       serving |-> model, active |-> was]
           finished == pending /\ task.state = "done"
           record == IF finished THEN task.record ELSE activation
           AnyRecord == ActivationRecord \cup RequestRecord
<1>1. /\ UNCHANGED <<strategy, account, ended, summaries, phase, preview, task, loader, active,
                     hidden, tmp>>
      /\ pending' = (pending /\ ~finished) /\ activation' = Nil /\ item' = item + 1
      /\ pc' = IF item + 1 < Files THEN "wait" ELSE "drain"
  BY DEF Emit, run
<1>2. emitted' = (emitted \o (IF record = Nil THEN <<>> ELSE <<record>>)) \o <<request>>
  BY DEF Emit
<1>3. item \in Nat /\ item < Files /\ Files \in Nat
  BY Bounds DEF IInv, TypeInv, TypeOK, TraceInv
<1>4. emitted \in Seq(AnyRecord)
  BY DEF IInv, TypeInv, TypeOK
<1>5. /\ request \in AnyRecord /\ request.event = "request" /\ request.item = item
      /\ request.outcome = outcome /\ request.serving = model
  BY <1>3 DEF RequestRecord
<1>6. record = Nil \/ record \in ActivationRecord
  BY DEF IInv, TypeInv, TaskType
<1>7. pending \in BOOLEAN /\ ~(pending /\ activation # Nil)
      /\ IF pending \/ activation # Nil THEN Unreported(emitted, item)
                                        ELSE Reported(emitted, item)
  BY DEF IInv, TypeInv, TypeOK, TraceInv, Serving
<1>8. record # Nil <=> finished \/ activation # Nil
  BY NilIsNoRecord DEF IInv, TypeInv, TaskType
<1>9. ~pending => task.state = "done"
  BY DEF IInv, TaskInv, Serving
<1> DEFINE before == emitted \o (IF record = Nil THEN <<>> ELSE <<record>>)
<1> DEFINE Grown ==
              /\ before \in Seq(AnyRecord)
              /\ IF pending' THEN Unreported(before, item) ELSE Reported(before, item)
              /\ \A i \in 1..Len(before) : \/ i \in DOMAIN emitted /\ before[i] = emitted[i]
                                           \/ before[i].event = "activation"
<1>10. ASSUME record = Nil PROVE Grown
  <2>1. before = emitted
    BY <1>4, <1>10, ConcatEmptySeq
  <2>2. /\ before \in Seq(AnyRecord)
        /\ IF pending' THEN Unreported(before, item) ELSE Reported(before, item)
        /\ \A i \in 1..Len(before) : i \in DOMAIN emitted /\ before[i] = emitted[i]
    <3>1. DOMAIN emitted = 1..Len(emitted)
      BY <1>4, LenProperties
    <3> HIDE DEF before
    <3>2. pending' <=> pending \/ activation # Nil
      BY <1>1, <1>7, <1>8, <1>10
    <3> QED
      BY <1>4, <1>7, <2>1, <3>1, <3>2
  <2> QED
    BY <2>2
<1>11. ASSUME record # Nil PROVE Grown
  <2> DEFINE a == record
  <2>1. before = emitted \o <<a>> /\ a \in AnyRecord /\ a.event = "activation"
    BY <1>6, <1>11 DEF ActivationRecord
  <2> HIDE DEF a, before, AnyRecord
  <2>2. before \in Seq(AnyRecord) /\ Len(before) = Len(emitted) + 1
        /\ \A i \in 1..(Len(emitted) + 1) :
             before[i] = IF i <= Len(emitted) THEN emitted[i] ELSE a
    BY <1>4, <2>1, OneMore
  <2>3. ~pending' /\ Unreported(emitted, item)
    BY <1>1, <1>7, <1>8, <1>11
  <2>4. Reported(before, item)
    BY <1>3, <1>4, <2>1, <2>3, ActivationAdded
  <2>5. DOMAIN emitted = 1..Len(emitted) /\ Len(emitted) \in Nat
    BY <1>4, LenProperties
  <2>6. ASSUME NEW i \in 1..Len(before)
        PROVE  \/ i \in DOMAIN emitted /\ before[i] = emitted[i]
               \/ before[i].event = "activation"
    BY <2>1, <2>2, <2>5
  <2> QED
    BY <2>2, <2>3, <2>4, <2>6
<1>12. Grown
  BY <1>10, <1>11
<1>13. emitted' = before \o <<request>>
  BY <1>2
<1> HIDE DEF before, request, AnyRecord
<1>14. /\ emitted' \in Seq(AnyRecord) /\ Len(emitted') = Len(before) + 1
       /\ \A i \in 1..(Len(before) + 1) :
            emitted'[i] = IF i <= Len(before) THEN before[i] ELSE request
  BY <1>5, <1>12, <1>13, OneMore
<1>15. IF pending' THEN Unreported(emitted', item') ELSE Reported(emitted', item')
  BY <1>1, <1>3, <1>5, <1>12, <1>13, RequestAdded
<1>16. TypeOK'
  <2>1. item' \in 0..Files
    BY <1>1, <1>3
  <2>2. emitted' \in Seq(ActivationRecord \cup RequestRecord)
    BY <1>14 DEF AnyRecord
  <2> QED
    BY <1>1, <2>1, <2>2 DEF IInv, TypeInv, TypeOK, Suspended
<1>17. TypeInv'
  BY <1>1, <1>16 DEF IInv, TypeInv, TaskType, WorkersInv
<1>18. TaskInv'
  BY <1>1, <1>9 DEF IInv, TaskInv, Underway, Serving, Left
<1>19. TraceInv'
  <2>1. pc' = "wait" => item' < Files
    BY <1>1, <1>3
  <2>2. pc' = "drain" => item' = Files
    BY <1>1, <1>3
  <2> QED
    BY <1>1, <1>15, <2>1, <2>2 DEF TraceInv
<1>20. ServeInv'
  BY <1>1 DEF IInv, ServeInv, Decides, Battery, Underway, Serving
<1>21. RecordsInv'
  <2>1. Len(before) \in Nat /\ DOMAIN emitted' = 1..(Len(before) + 1)
    BY <1>12, <1>14, LenProperties
  <2>2. ASSUME NEW i \in DOMAIN emitted', emitted'[i].event = "request"
        PROVE  /\ emitted'[i].outcome = "ok" => MinimumBattery(emitted'[i].serving) <= Battery
               /\ emitted'[i].outcome = "abstained" =>
                    \/ preview.selected = Nil
                    \/ task.state = "done" /\ task.record.outcome = "failed"
    <3>1. CASE i <= Len(before)
      <4>1. i \in 1..Len(before) /\ i \in 1..(Len(before) + 1)
        BY <2>1, <2>2, <3>1
      <4>2. emitted'[i] = before[i]
        BY <1>14, <3>1, <4>1
      <4>3. i \in DOMAIN emitted /\ emitted'[i] = emitted[i]
        BY <1>12, <2>2, <4>1, <4>2
      <4> QED
        BY <2>2, <4>3 DEF IInv, RecordsInv
    <3>2. CASE ~(i <= Len(before))
      BY <1>5, <1>14, <2>1, <3>2
    <3> QED
      BY <3>1, <3>2
  <2>3. Battery' = Battery
    BY <1>1 DEF Battery
  <2> QED
    BY <1>1, <2>2, <2>3 DEF RecordsInv
<1>22. ThreadsInv'
  BY <1>1 DEF IInv, ThreadsInv
<1>23. DecisionIsPreviewed' /\ FaultStaysInPhase'
  BY <1>1 DEF IInv, DecisionIsPreviewed, FaultStaysInPhase, Fault
<1> QED
  BY <1>17, <1>18, <1>19, <1>20, <1>21, <1>22, <1>23 DEF IInv

LEMMA RequestsInv ==
  ASSUME IInv, Abstain \/ BadInput \/ \E outcome \in {"ok", "error"} : InferReturns(outcome)
  PROVE  IInv'
<1>1. active \in Refs /\ captured \in Refs /\ Nil \in Refs /\ inferring \in BOOLEAN
  BY DEF IInv, TypeInv, TypeOK, Refs
<1>2. CASE Abstain
  <2>1. \/ preview.selected = Nil
        \/ task.state = "done" /\ task.record.outcome = "failed"
    <3>1. pc = "serve" /\ ~Feasible(active, preview)
      BY <1>2 DEF Abstain
    <3> QED
      BY <3>1 DEF IInv, ServeInv, Serving
  <2> QED
    BY <1>1, <1>2, <2>1, EmitInv DEF Abstain
<1>3. CASE BadInput
  BY <1>1, <1>3, EmitInv DEF BadInput
<1>4. ASSUME NEW outcome \in {"ok", "error"}, InferReturns(outcome) PROVE IInv'
  <2> DEFINE model == IF outcome = "ok" THEN captured ELSE Nil
  <2>1. MinimumBattery(captured) <= Battery
    BY <1>4 DEF InferReturns, IInv, ServeInv
  <2>2. model \in Refs /\ (outcome = "ok" => MinimumBattery(model) <= Battery)
    BY <1>1, <2>1
  <2>3. /\ pc = "inferring" /\ Emit(outcome, model, captured)
        /\ captured' = Nil /\ inferring' = FALSE
    BY <1>4 DEF InferReturns
  <2> HIDE DEF model
  <2> QED
    BY <1>1, <1>4, <2>2, <2>3, EmitInv
<1> QED
  BY <1>2, <1>3, <1>4

\* The loop over the requests ends: what is pending is awaited and recorded.
LEMMA DrainInv == ASSUME IInv, Drain PROVE IInv'
<1> DEFINE AnyRecord == ActivationRecord \cup RequestRecord
           a == task.record
<1>1. /\ UNCHANGED <<strategy, account, ended, summaries, phase, item, preview, activation, task,
                     loader, captured, inferring, active, hidden, tmp>>
      /\ pc = "drain" /\ pc' = "leave" /\ pending' = FALSE
      /\ emitted' = IF pending THEN Append(emitted, a) ELSE emitted
  BY DEF Drain, run
<1>2. task.state = "done" /\ a \in ActivationRecord /\ a.event = "activation"
  BY DEF Drain, IInv, TypeInv, TaskType, TaskInv, Serving, ActivationRecord
<1>3. /\ item = Files /\ Files \in Nat /\ activation = Nil /\ pending \in BOOLEAN
      /\ IF pending THEN Unreported(emitted, item) ELSE Reported(emitted, item)
      /\ emitted \in Seq(AnyRecord)
  BY <1>1, Bounds DEF IInv, TypeInv, TypeOK, TraceInv, Serving
<1>4. a \in AnyRecord
  BY <1>2
<1> HIDE DEF a, AnyRecord
<1>5. /\ emitted' \in Seq(AnyRecord) /\ Reported(emitted', item)
      /\ \A i \in DOMAIN emitted' : \/ i \in DOMAIN emitted /\ emitted'[i] = emitted[i]
                                    \/ emitted'[i].event = "activation"
  <2>1. CASE pending
    <3>1. emitted' = emitted \o <<a>>
      BY <1>1, <1>3, <1>4, <2>1, AppendIsConcat
    <3>2. /\ emitted \o <<a>> \in Seq(AnyRecord) /\ Len(emitted \o <<a>>) = Len(emitted) + 1
          /\ \A i \in 1..(Len(emitted) + 1) :
               (emitted \o <<a>>)[i] = IF i <= Len(emitted) THEN emitted[i] ELSE a
      BY <1>3, <1>4, OneMore
    <3>3. Reported(emitted \o <<a>>, item)
      BY <1>2, <1>3, <1>4, <2>1, ActivationAdded
    <3>4. DOMAIN emitted = 1..Len(emitted) /\ Len(emitted) \in Nat
          /\ DOMAIN emitted' = 1..Len(emitted')
      BY <1>3, <3>1, <3>2, LenProperties
    <3> QED
      BY <1>2, <3>1, <3>2, <3>3, <3>4
  <2>2. CASE ~pending
    BY <1>1, <1>3, <2>2
  <2> QED
    BY <2>1, <2>2
<1>6. TypeInv'
  <2>1. TypeOK'
    BY <1>1, <1>5 DEF IInv, TypeInv, TypeOK, Suspended, AnyRecord
  <2> QED
    BY <1>1, <2>1 DEF IInv, TypeInv, TaskType, WorkersInv
<1>7. TaskInv'
  BY <1>1, <1>2 DEF IInv, TaskInv, Underway, Serving, Left
<1>8. TraceInv'
  BY <1>1, <1>3, <1>5 DEF TraceInv, Serving
<1>9. ServeInv'
  BY <1>1 DEF IInv, ServeInv, Decides, Battery, Underway, Serving
<1>10. RecordsInv'
  <2>1. Battery' = Battery
    BY <1>1 DEF Battery
  <2> QED
    BY <1>1, <1>5, <2>1 DEF IInv, RecordsInv
<1>11. ThreadsInv' /\ DecisionIsPreviewed' /\ FaultStaysInPhase'
  BY <1>1 DEF IInv, ThreadsInv, DecisionIsPreviewed, FaultStaysInPhase, Fault
<1> QED
  BY <1>6, <1>7, <1>8, <1>9, <1>10, <1>11 DEF IInv

\* The phase is over with its reconciliation.
LEMMA EndPhaseInv == ASSUME IInv, EndPhase PROVE IInv'
<1>1. /\ UNCHANGED <<strategy, ended, summaries, preview, pending, activation, task, loader,
                     captured, inferring, active, tmp>>
      /\ pc = "leave" /\ pc' = "begin" /\ phase' = phase + 1 /\ item' = 0 /\ emitted' = <<>>
      /\ phase < Len(Phases) /\ hidden' = Phases[phase + 1].fault /\ account' = Accounted
  BY DEF EndPhase
<1>2. phase \in 1..7 /\ phase + 1 \in 1..7
  <2>1. phase \in DOMAIN Phases
    BY DEF IInv, TypeInv, TypeOK
  <2> QED
    BY <1>1, <2>1, PhasesType
<1>3. task.state = "done" /\ task.phase = phase
  BY <1>1 DEF IInv, TaskInv, Underway
<1>4. TypeInv'
  <2>1. account' \in [served : Nat, abstained : Nat, published : Nat, loads : Nat,
                      trouble : BOOLEAN]
    BY <1>1, AccountedType DEF IInv, TypeInv
  <2>2. hidden' \in BOOLEAN /\ phase' \in DOMAIN Phases
    BY <1>1, <1>2, PhasesType
  <2>3. emitted' \in Seq(ActivationRecord \cup RequestRecord) /\ item' \in 0..Files
    BY <1>1, Bounds
  <2>4. TypeOK'
    BY <1>1, <2>1, <2>2, <2>3 DEF IInv, TypeInv, TypeOK, Suspended
  <2> QED
    BY <1>1, <2>4 DEF IInv, TypeInv, TaskType, WorkersInv
<1>5. TaskInv'
  BY <1>1, <1>2, <1>3 DEF TaskInv, Underway, Serving, Left
<1>6. TraceInv' /\ ServeInv'
  BY <1>1 DEF TraceInv, ServeInv, Serving, Underway
<1>7. RecordsInv'
  <2>1. DOMAIN emitted' = {}
    BY <1>1, EmptySeq
  <2> QED
    BY <2>1 DEF RecordsInv
<1>8. ThreadsInv'
  BY <1>1 DEF IInv, ThreadsInv
<1>9. DecisionIsPreviewed'
  BY <1>1, <1>2, <1>3 DEF DecisionIsPreviewed
<1>10. FaultStaysInPhase'
  <2>1. Fault' = Phases[phase + 1].fault /\ Fault' \in BOOLEAN
    BY <1>1, <1>2, PhasesType DEF Fault
  <2> QED
    BY <1>1, <1>3, <2>1 DEF FaultStaysInPhase
<1> QED
  BY <1>4, <1>5, <1>6, <1>7, <1>8, <1>9, <1>10 DEF IInv

-----------------------------------------------------------------------------
(* The theorems.                                                           *)

LEMMA StepInv == IInv /\ [Next]_vars => IInv'
<1> SUFFICES ASSUME IInv, [Next]_vars PROVE IInv'
  OBVIOUS
<1>1. CASE Main
  BY <1>1, BeginInv, ReconciledInv, ArriveInv, RequestsInv, AdmitInv, DrainInv, EndPhaseInv,
     LeavingInv DEF Main
<1>2. CASE Threads
  BY <1>2, ThreadsStep
<1>3. CASE TaskResumes \/ Interrupt \/ Collect
  BY <1>3, TaskResumesInv, InterruptInv, CollectInv
<1>4. CASE UNCHANGED vars
  <2>1. TypeInv'
    BY <1>4 DEF vars, IInv, TypeInv, TypeOK, TaskType, WorkersInv
  <2>2. TaskInv'
    BY <1>4 DEF vars, IInv, TaskInv
  <2>3. TraceInv'
    BY <1>4 DEF vars, IInv, TraceInv
  <2>4. ServeInv' /\ RecordsInv' /\ ThreadsInv'
    BY <1>4 DEF vars, IInv, ServeInv, RecordsInv, ThreadsInv, Battery
  <2>5. DecisionIsPreviewed' /\ FaultStaysInPhase'
    BY <1>4 DEF vars, IInv, DecisionIsPreviewed, FaultStaysInPhase, Fault
  <2> QED
    BY <2>1, <2>2, <2>3, <2>4, <2>5 DEF IInv
<1> QED
  BY <1>1, <1>2, <1>3, <1>4 DEF Next

\* What a phase has decided, served and recorded so far agrees, wherever the
\* coroutine, its background task and the executor threads are (evaluate_phase,
\* begin_phase and serve, compare.py 86-287).
THEOREM Invariance == Spec => []IInv
  BY InitInv, StepInv, PTL DEF Spec

\* No infeasible serving (compare.py 52): whatever is published while a request is
\* under way, the model that answers it had the battery of its phase.
THEOREM ServingIsFeasible == Spec => []FeasibleServing
<1>1. IInv => FeasibleServing
  BY DEF IInv, RecordsInv, FeasibleServing, Records
<1> QED
  BY <1>1, Invariance, PTL

\* A request is turned away only when the phase selected nothing or its activation
\* failed: waiting at its start is enough, for either kind of strategy (begin_phase,
\* compare.py 40-43).
THEOREM AbstentionIsNeeded == Spec => []NoNeedlessAbstention
<1>1. IInv => NoNeedlessAbstention
  BY DEF IInv, RecordsInv, NoNeedlessAbstention, Records
<1> QED
  BY <1>1, Invariance, PTL

\* Phases are kept apart, and a phase that is not interrupted has a complete trace:
\* the file is away in the phase of the fault only, no reconciliation outlives its
\* phase, what is published is what was previewed, each request has its record in
\* order and the activation its own, and no thread reads from a directory that is
\* gone (evaluate_phase's drain, evaluate's "finally", worker()'s "with").
THEOREM PhasesAreKeptApart == Spec => []PhaseInv
<1>1. IInv => TraceIsComplete
  <2> SUFFICES ASSUME IInv, pc = "leave"
               PROVE  /\ Len(emitted) = Files + 1
                      /\ \E k \in 1..(Files + 1) :
                           /\ emitted[k].event = "activation"
                           /\ \A i \in (1..(Files + 1)) \ {k} :
                                /\ emitted[i].event = "request"
                                /\ emitted[i].item = IF i < k THEN i - 1 ELSE i - 2
    BY DEF TraceIsComplete
  <2>1. item = Files /\ Reported(emitted, item)
    BY DEF IInv, TraceInv, TaskInv, Serving
  <2> QED
    BY <2>1 DEF Reported
<1>2. IInv => FilesOutliveWorkers
  BY DEF IInv, ThreadsInv, FilesOutliveWorkers
<1>3. IInv => PhaseInv
  BY <1>1, <1>2 DEF IInv, TypeInv, PhaseInv
<1> QED
  BY <1>3, Invariance, PTL
-----------------------------------------------------------------------------
(* What the workers count.  Nothing of a phase depends on when its load    *)
(* ends, as long as no record has an error.                                *)

LEMMA UndisturbedIs ==
  ASSUME NEW s
  PROVE  /\ Undisturbed(s)[0] = [active |-> Nil, published |-> 0, served |-> 0]
         /\ \A n \in 1..7 : Undisturbed(s)[n] = AfterStage(s, Undisturbed(s)[n - 1], Phases[n])
<1> DEFINE a0 == [active |-> Nil, published |-> 0, served |-> 0]
           Next_(n, sum) == AfterStage(s, sum, Phases[n])
           a1 == Next_(1, a0)
           a2 == Next_(2, a1)
           a3 == Next_(3, a2)
           a4 == Next_(4, a3)
           a5 == Next_(5, a4)
           a6 == Next_(6, a5)
           Unfolded(h) == [n \in 0..7 |-> IF n = 0 THEN a0 ELSE Next_(n, h[n - 1])]
           g == [n \in 0..7 |-> IF n = 0 THEN a0 ELSE
                                Next_(n, CASE n = 1 -> a0 [] n = 2 -> a1 [] n = 3 -> a2
                                           [] n = 4 -> a3 [] n = 5 -> a4 [] n = 6 -> a5
                                           [] OTHER -> a6)]
<1>1. Len(Phases) = 7
  BY PhasesType
<1>2. Undisturbed(s) = CHOOSE h : h = Unfolded(h)
  BY <1>1 DEF Undisturbed
<1>3. g = Unfolded(g)
  <2>1. g[0] = a0 /\ g[1] = a1 /\ g[2] = a2 /\ g[3] = a3 /\ g[4] = a4 /\ g[5] = a5 /\ g[6] = a6
    <3> HIDE DEF Next_, a0
    <3> QED
      OBVIOUS
  <2> HIDE DEF Next_, a0, a1, a2, a3, a4, a5, a6
  <2>2. ASSUME NEW n \in 0..7 PROVE g[n] = Unfolded(g)[n]
    <3>1. n \in {0, 1, 2, 3, 4, 5, 6, 7}
      OBVIOUS
    <3> HIDE DEF g
    <3>2. g[n] = IF n = 0 THEN a0 ELSE
                                Next_(n, CASE n = 1 -> a0 [] n = 2 -> a1 [] n = 3 -> a2
                                           [] n = 4 -> a3 [] n = 5 -> a4 [] n = 6 -> a5
                                           [] OTHER -> a6)
      BY DEF g
    <3> QED
      BY <2>1, <3>1, <3>2
  <2> QED
    BY <2>2
<1> HIDE DEF Unfolded, g
<1>4. Undisturbed(s) = Unfolded(Undisturbed(s))
  BY <1>2, <1>3
<1> QED
  BY <1>4 DEF Unfolded

LEMMA UndisturbedType ==
  ASSUME NEW s, NEW n \in 0..7
  PROVE  /\ Undisturbed(s)[n].active \in Refs
         /\ Undisturbed(s)[n].published \in Nat
         /\ Undisturbed(s)[n].served \in Nat
<1> DEFINE Typed(k) == /\ Undisturbed(s)[k].active \in Refs
                       /\ Undisturbed(s)[k].published \in Nat
                       /\ Undisturbed(s)[k].served \in Nat
<1>1. Typed(0)
  BY UndisturbedIs DEF Refs
<1>2. ASSUME NEW k \in 1..7, Typed(k - 1) PROVE Typed(k)
  <2> DEFINE sum == Undisturbed(s)[k - 1]
             decision == Preview(Policies(s), sum.active, Phases[k].battery)
  <2>1. Undisturbed(s)[k] = AfterStage(s, sum, Phases[k])
    BY UndisturbedIs
  <2>2. decision.selected \in Refs
    BY PreviewDecides, PhasesType DEF Decides
  <2> HIDE DEF decision
  <2>3. /\ AfterStage(s, sum, Phases[k]).active \in {decision.selected, sum.active}
        /\ AfterStage(s, sum, Phases[k]).published \in {sum.published, sum.published + 1}
        /\ AfterStage(s, sum, Phases[k]).served \in {sum.served, sum.served + Files}
    BY <1>2 DEF AfterStage, decision
  <2> HIDE DEF sum
  <2> QED
    BY <1>2, <2>1, <2>2, <2>3, Bounds DEF sum
<1> HIDE DEF Typed
<1>3. Typed(1) /\ Typed(2) /\ Typed(3) /\ Typed(4) /\ Typed(5) /\ Typed(6) /\ Typed(7)
  BY <1>1, <1>2
<1>4. Typed(n)
  BY <1>1, <1>3
<1> QED
  BY <1>4 DEF Typed

\* What the strategy has done after n phases if nothing disturbs it.
Expected(n) == Undisturbed(strategy)[n]

\* The phase's reconciliation is over; it publishes, and its requests are answered,
\* whenever its load ends.
Settled == pc \in Underway /\ task.state = "done"
Publishing ==
  /\ preview.selected # Nil
  /\ ~SameModel(Expected(phase - 1).active, preview.selected)
  /\ ~(Fault /\ preview.selected = large)
Answering == Feasible(Expected(phase).active, preview)

\* An error that the worker's records have, or will have.
IsTrouble(r) == IF r.event = "request" THEN r.outcome = "error" ELSE r.unexpected
Troubled ==
  \/ account.trouble
  \/ \E r \in ToSet(emitted) : IsTrouble(r)
  \/ Settled /\ task.record.unexpected

\* How a worker that is being judged has ended.
EndedInv ==
  /\ ended # "no" => pc \in {"joining", "closed", "written"}
  /\ ended \in {"failed", "ok"} => pc \in {"closed", "written"}
  /\ ended = "ok" => ~account.trouble

\* The load belongs to the reconciliation that awaits it, and finds the file unless
\* it is the missing one.
LoadInv ==
  /\ pc # "cleanup" /\ ended # "interrupted" /\ task.state # "awaiting" => loader = "idle"
  /\ pc \in Underway /\ task.state = "awaiting" =>
       /\ loader # "idle" /\ task.selected # Nil /\ ~SameModel(active, task.selected)
       /\ loader = "unavailable" => Fault /\ task.selected = large
       /\ loader \in {"running", "ok", "failed"} => ~(Fault /\ task.selected = large)

\* The activation that is recorded is the reconciliation's.
ReportInv ==
  pc \in Underway =>
    /\ activation # Nil => task.state = "done" /\ activation = task.record
    /\ \A r \in ToSet(emitted) :
         r.event = "activation" => task.state = "done" /\ r = task.record

\* What the phases before have added up to, and what this one has loaded.
PhaseCounts ==
  /\ account.served = Expected(phase - 1).served
  /\ account.abstained = (phase - 1) * Files - account.served
  /\ account.published = Expected(phase - 1).published
  /\ account.loads = account.published +
       (IF loader = "ok" \/ (Settled /\ task.record.outcome = "published") THEN 1 ELSE 0)
  /\ active = Expected(IF Settled THEN phase ELSE phase - 1).active

\* What this phase's records will add.
PhaseRecords ==
  /\ preview = Preview(Policies(strategy), Expected(phase - 1).active, Battery)
  /\ Settled => (task.record.outcome = "published" <=> Publishing)
  /\ \A r \in ToSet(emitted) :
       r.event = "request" => r.outcome = IF Answering THEN "ok" ELSE "abstained"
  /\ pc = "inferring" => Answering

WorkerCounts ==
  account = [served |-> Expected(7).served, abstained |-> 7 * Files - Expected(7).served,
             published |-> Expected(7).published, loads |-> Expected(7).published,
             trouble |-> FALSE]

CountsInv ==
  /\ pc = "begin" /\ ~Troubled => PhaseCounts
  /\ pc \in Underway /\ ~Troubled => PhaseCounts /\ PhaseRecords
  /\ pc \in {"joining", "closed", "written"} /\ ended \in {"no", "ok"} /\ ~account.trouble =>
       WorkerCounts

WorkInv == IInv /\ EndedInv /\ LoadInv /\ ReportInv /\ CountsInv

\* What a phase adds, in the terms of its preview.
InStage ==
  phase \in 1..7 /\ preview = Preview(Policies(strategy), Expected(phase - 1).active, Battery)
StageAdds ==
  /\ Expected(phase).active =
       IF Publishing THEN preview.selected ELSE Expected(phase - 1).active
  /\ Expected(phase).published = Expected(phase - 1).published + (IF Publishing THEN 1 ELSE 0)
  /\ Expected(phase).served = Expected(phase - 1).served + (IF Answering THEN Files ELSE 0)

LEMMA StageEffect == InStage => StageAdds
<1> SUFFICES ASSUME InStage PROVE StageAdds
  OBVIOUS
<1> DEFINE sum == Expected(phase - 1)
           now == IF Publishing THEN preview.selected ELSE sum.active
<1>1. Expected(phase) = AfterStage(strategy, sum, Phases[phase])
  BY UndisturbedIs DEF Expected, InStage
<1>2. preview = Preview(Policies(strategy), sum.active, Phases[phase].battery)
  BY DEF Battery, InStage
<1>3. Publishing <=> /\ preview.selected # Nil
                     /\ ~SameModel(sum.active, preview.selected)
                     /\ ~(Phases[phase].fault /\ preview.selected = large)
  BY DEF Publishing, Fault
<1> HIDE DEF sum
<1>4. AfterStage(strategy, sum, Phases[phase]) =
        [active    |-> now,
         published |-> sum.published + (IF Publishing THEN 1 ELSE 0),
         served    |-> sum.served + (IF Feasible(now, preview) THEN Files ELSE 0)]
  BY <1>2, <1>3 DEF AfterStage
<1> HIDE DEF now
<1>5. Expected(phase).active = now
  BY <1>1, <1>4
<1> QED
  BY <1>1, <1>4, <1>5 DEF Answering, StageAdds, sum, now

LEMMA StageEffectNext == InStage' => StageAdds'
  BY StageEffect, PTL

\* The elements of a trace that grows.
LEMMA OneMoreElement ==
  ASSUME NEW T, NEW e \in Seq(T), NEW x \in T
  PROVE  ToSet(e \o <<x>>) = ToSet(e) \cup {x}
<1> DEFINE f == e \o <<x>>
<1>1. /\ f \in Seq(T) /\ Len(f) = Len(e) + 1
      /\ \A i \in 1..(Len(e) + 1) : f[i] = IF i <= Len(e) THEN e[i] ELSE x
  BY OneMore
<1>2. DOMAIN e = 1..Len(e) /\ Len(e) \in Nat
  BY LenProperties
<1> HIDE DEF f
<1>3. DOMAIN f = 1..(Len(e) + 1)
  BY <1>1, LenProperties
<1>4. \A i \in DOMAIN f : f[i] \in ToSet(e) \cup {x}
  BY <1>1, <1>2, <1>3 DEF ToSet
<1>5. \A i \in DOMAIN e : i \in DOMAIN f /\ f[i] = e[i]
  BY <1>1, <1>2, <1>3
<1>6. Len(e) + 1 \in DOMAIN f /\ f[Len(e) + 1] = x
  BY <1>1, <1>2, <1>3
<1> QED
  BY <1>4, <1>5, <1>6 DEF ToSet, f

\* What a turn of the loop over the requests records.
LEMMA EmitAdds ==
  ASSUME IInv, pc \in {"serve", "inferring"},
         NEW outcome \in {"ok", "abstained", "error"}, NEW model \in Refs, NEW was \in Refs,
         Emit(outcome, model, was)
  PROVE  LET request == [event |-> "request", item |-> item, outcome |-> outcome,
                         serving |-> model, active |-> was]
             record == IF pending /\ task.state = "done" THEN task.record ELSE activation
         IN  /\ record \in ActivationRecord \cup {Nil}
             /\ ToSet(emitted') = ToSet(emitted) \cup {request}
                                    \cup (IF record = Nil THEN {} ELSE {record})
<1> DEFINE request == [event |-> "request", item |-> item, outcome |-> outcome,
                       serving |-> model, active |-> was]
           record == IF pending /\ task.state = "done" THEN task.record ELSE activation
           AnyRecord == ActivationRecord \cup RequestRecord
           before == emitted \o (IF record = Nil THEN <<>> ELSE <<record>>)
<1>1. emitted' = before \o <<request>>
  BY DEF Emit
<1>2. emitted \in Seq(AnyRecord) /\ record \in ActivationRecord \cup {Nil}
  BY DEF IInv, TypeInv, TypeOK, TaskType
<1>3. request \in AnyRecord
  BY DEF RequestRecord, IInv, TypeInv, TypeOK
<1> HIDE DEF request, record
<1>4. /\ before \in Seq(AnyRecord)
      /\ ToSet(before) = ToSet(emitted) \cup (IF record = Nil THEN {} ELSE {record})
  <2>1. CASE record = Nil
    <3>1. before = emitted
      BY <1>2, <2>1, ConcatEmptySeq
    <3> QED
      BY <1>2, <2>1, <3>1
  <2>2. CASE record # Nil
    <3>1. before = emitted \o <<record>> /\ record \in AnyRecord
      BY <1>2, <2>2
    <3> HIDE DEF before, AnyRecord
    <3> QED
      BY <1>2, <2>2, <3>1, OneMore, OneMoreElement
  <2> QED
    BY <2>1, <2>2
<1> HIDE DEF before, AnyRecord
<1>5. ToSet(emitted') = ToSet(before) \cup {request}
  BY <1>1, <1>3, <1>4, OneMoreElement
<1> QED
  BY <1>2, <1>4, <1>5 DEF request, record

LEMMA DrainAdds ==
  ASSUME IInv, Drain
  PROVE  ToSet(emitted') = ToSet(emitted) \cup (IF pending THEN {task.record} ELSE {})
<1> DEFINE AnyRecord == ActivationRecord \cup RequestRecord
<1>1. CASE pending
  <2>1. emitted \in Seq(AnyRecord) /\ task.record \in AnyRecord
    BY <1>1 DEF Drain, IInv, TypeInv, TypeOK, TaskType
  <2>2. emitted' = Append(emitted, task.record)
    BY <1>1 DEF Drain
  <2> HIDE DEF AnyRecord
  <2>3. emitted' = emitted \o <<task.record>>
    BY <2>1, <2>2, AppendIsConcat
  <2> QED
    BY <1>1, <2>1, <2>3, OneMoreElement
<1>2. CASE ~pending
  BY <1>2 DEF Drain
<1> QED
  BY <1>1, <1>2

\* What the first request of a phase does to the reconciliation.
LEMMA BeginDoes ==
  ASSUME Begin
  PROVE  LET decision == SelectFor(Battery) IN
         /\ pc = "begin" /\ pc' \in {"serve", "reconciling"} /\ preview' = decision
         /\ UNCHANGED <<strategy, account, ended, phase, item, active, emitted>>
         /\ \/ /\ decision.selected # Nil /\ ~SameModel(active, decision.selected)
               /\ task'.state = "awaiting" /\ task'.selected = decision.selected
               /\ loader' = "queued" /\ activation' = Nil
            \/ /\ decision.selected = Nil \/ SameModel(active, decision.selected)
               /\ task'.state = "done" /\ activation' \in {Nil, task'.record}
               /\ task'.record.outcome = "unchanged" /\ ~task'.record.unexpected
               /\ task'.record.event = "activation"
               /\ loader' = loader
<1> DEFINE decision == SelectFor(Battery)
<1>1. /\ pc = "begin" /\ pc' \in {"serve", "reconciling"} /\ preview' = decision
      /\ UNCHANGED <<strategy, account, ended, phase, item, active, emitted>>
      /\ activation' = IF Background THEN Nil ELSE task'.record
  BY DEF Begin, run
<1>2. Reconcile(decision)
  BY DEF Begin
<1> HIDE DEF decision
<1>3. CASE decision.selected = Nil \/ SameModel(active, decision.selected)
  <2>1. /\ task' = [state |-> "done", phase |-> phase, selected |-> decision.selected,
                    record |-> Activation("unchanged", FALSE, decision.selected, active)]
        /\ loader' = loader
    BY <1>2, <1>3 DEF Reconcile
  <2>2. /\ task'.state = "done"
        /\ task'.record = Activation("unchanged", FALSE, decision.selected, active)
    BY <2>1
  <2>3. /\ task'.record.outcome = "unchanged" /\ ~task'.record.unexpected
        /\ task'.record.event = "activation"
    BY <2>2 DEF Activation
  <2> QED
    BY <1>1, <1>3, <2>1, <2>2, <2>3 DEF decision
<1>4. CASE ~(decision.selected = Nil \/ SameModel(active, decision.selected))
  <2>1. /\ task' = [state |-> "awaiting", phase |-> phase, selected |-> decision.selected,
                    record |-> Nil]
        /\ loader' = "queued"
    BY <1>2, <1>4 DEF Reconcile
  <2>2. task'.state = "awaiting" /\ task'.selected = decision.selected /\ task'.record = Nil
    BY <2>1
  <2> QED
    BY <1>1, <1>4, <2>1, <2>2 DEF decision
<1> QED
  BY <1>3, <1>4

LEMMA EndedStep == ASSUME IInv, EndedInv, [Next]_vars PROVE EndedInv'
<1>1. CASE Main
  <2>1. CASE Close
    BY <2>1 DEF EndedInv, Close
  <2>2. CASE Cleanup
    BY <2>2 DEF EndedInv, Cleanup
  <2>3. CASE ~Close /\ ~Cleanup
    <3>1. ended = "no" /\ ended' = ended
      BY <1>1, <2>3
         DEF EndedInv, Main, Begin, Reconciled, Arrive, Abstain, BadInput, Admit, InferReturns,
             Emit, Drain, EndPhase, Finish, run
    <3> QED
      BY <3>1 DEF EndedInv
  <2> QED
    BY <2>1, <2>2, <2>3
<1>2. CASE Threads \/ TaskResumes
  <2>1. pc' = pc /\ ended' = ended /\ account'.trouble = account.trouble
    BY <1>2 DEF Threads, LoaderStarts, LoaderEnds, OrphanEnds, TaskResumes, run, IInv, TypeInv, TypeOK
  <2> QED
    BY <2>1 DEF EndedInv
<1>3. CASE Interrupt
  BY <1>3 DEF EndedInv, Interrupt, run, Suspended
<1>4. CASE Collect
  BY <1>4 DEF EndedInv, Collect
<1>5. CASE UNCHANGED vars
  BY <1>5 DEF EndedInv, vars
<1> QED
  BY <1>1, <1>2, <1>3, <1>4, <1>5 DEF Next

LEMMA LoadStep == ASSUME IInv, EndedInv, LoadInv, [Next]_vars PROVE LoadInv'
<1>1. CASE Main
  <2>1. CASE Begin
    <3> DEFINE decision == SelectFor(Battery)
    <3>1. /\ pc = "begin" /\ pc' \in Underway /\ active' = active /\ phase' = phase
          /\ \/ /\ decision.selected # Nil /\ ~SameModel(active, decision.selected)
                /\ task'.state = "awaiting" /\ task'.selected = decision.selected
                /\ loader' = "queued"
             \/ task'.state = "done" /\ loader' = loader
      BY <2>1, BeginDoes DEF Underway, Serving
    <3>2. loader = "idle"
      BY <3>1 DEF LoadInv, EndedInv, IInv, TaskInv
    <3> HIDE DEF decision
    <3> QED
      BY <3>1, <3>2 DEF LoadInv
  <2>2. CASE ~Begin
    <3>1. UNCHANGED <<task, loader, active>>
      BY <1>1, <2>2
         DEF Main, Reconciled, Arrive, Abstain, BadInput, Admit, InferReturns,
             Emit, Drain, EndPhase, Finish, Cleanup, Close, run
    <3>2. CASE EndPhase \/ Finish \/ Cleanup \/ Close
      BY <3>1, <3>2 DEF LoadInv, EndPhase, Finish, Cleanup, Close, Underway, Serving
    <3>3. CASE ~(EndPhase \/ Finish \/ Cleanup \/ Close)
      <4>1. pc \in Underway /\ pc' \in Underway /\ UNCHANGED <<phase, ended>>
        BY <1>1, <2>2, <3>3
           DEF Main, Reconciled, Arrive, Abstain, BadInput, Admit, InferReturns,
               Emit, Drain, run, Underway, Serving
      <4> QED
        BY <3>1, <4>1 DEF LoadInv, Fault, Underway, Serving
    <3> QED
      BY <3>2, <3>3
  <2> QED
    BY <2>1, <2>2
<1>2. CASE Threads
  <2>1. UNCHANGED <<pc, ended, task, active, phase, hidden>>
    BY <1>2 DEF Threads, LoaderStarts, LoaderEnds, OrphanEnds, run
  <2>2. pc \in Underway => (hidden <=> Fault)
    BY DEF IInv, FaultStaysInPhase, Underway, Serving, TypeInv, TypeOK
  <2>3. CASE LoaderStarts
    BY <2>1, <2>2, <2>3 DEF LoadInv, LoaderStarts, Fault
  <2>4. ASSUME NEW outcome \in {"ok", "failed"}, LoaderEnds(outcome) PROVE LoadInv'
    BY <2>1, <2>4 DEF LoadInv, LoaderEnds, Fault
  <2>5. CASE OrphanEnds
    BY <2>1, <2>5 DEF LoadInv, OrphanEnds, Fault
  <2> QED
    BY <1>2, <2>3, <2>4, <2>5 DEF Threads
<1>3. CASE TaskResumes
  <2>1. task'.state = "done" /\ loader' = "idle"
    BY <1>3 DEF TaskResumes, IInv, TypeInv, TaskType
  <2> QED
    BY <2>1 DEF LoadInv
<1>4. CASE Interrupt
  BY <1>4 DEF LoadInv, Interrupt, Underway, Serving
<1>5. CASE Collect
  BY <1>5 DEF LoadInv, Collect, Underway, Serving
<1>6. CASE UNCHANGED vars
  BY <1>6 DEF LoadInv, vars, Fault
<1> QED
  BY <1>1, <1>2, <1>3, <1>4, <1>5, <1>6 DEF Next

LEMMA ReportStep == ASSUME IInv, ReportInv, [Next]_vars PROVE ReportInv'
<1>1. CASE Begin
  <2>1. emitted' = <<>>
    BY <1>1, BeginDoes DEF IInv, TraceInv
  <2>2. ToSet(emitted') = {}
    BY <2>1, EmptySeq DEF ToSet
  <2>3. activation' # Nil => task'.state = "done" /\ activation' = task'.record
    BY <1>1, BeginDoes
  <2> QED
    BY <2>2, <2>3 DEF ReportInv
<1>2. ASSUME pc \in {"serve", "inferring"}, NEW outcome \in {"ok", "abstained", "error"},
             NEW model \in Refs, NEW was \in Refs, Emit(outcome, model, was)
      PROVE  ReportInv'
  <2> DEFINE request == [event |-> "request", item |-> item, outcome |-> outcome,
                         serving |-> model, active |-> was]
             record == IF pending /\ task.state = "done" THEN task.record ELSE activation
  <2>1. /\ record \in ActivationRecord \cup {Nil}
        /\ ToSet(emitted') = ToSet(emitted) \cup {request}
                               \cup (IF record = Nil THEN {} ELSE {record})
    BY <1>2, EmitAdds
  <2>2. pc \in Underway /\ activation' = Nil /\ task' = task /\ request.event = "request"
    BY <1>2 DEF Emit, Underway, Serving
  <2>3. record # Nil => task.state = "done" /\ record = task.record
    BY <2>2 DEF ReportInv
  <2> HIDE DEF record, request
  <2>4. \A r \in ToSet(emitted') : r.event = "activation" =>
          task.state = "done" /\ r = task.record
    BY <2>1, <2>2, <2>3 DEF ReportInv
  <2> QED
    BY <2>2, <2>4 DEF ReportInv
<1>3. CASE Abstain \/ BadInput \/ \E outcome \in {"ok", "error"} : InferReturns(outcome)
  <2>1. active \in Refs /\ captured \in Refs /\ Nil \in Refs
    BY DEF IInv, TypeInv, TypeOK, Refs
  <2> QED
    BY <1>2, <1>3, <2>1 DEF Abstain, BadInput, InferReturns
<1>4. CASE Drain
  <2>1. ToSet(emitted') = ToSet(emitted) \cup (IF pending THEN {task.record} ELSE {})
    BY <1>4, DrainAdds
  <2>2. pc \in Underway /\ UNCHANGED <<activation, task>> /\ (pending => task.state = "done")
    BY <1>4 DEF Drain, Underway, Serving
  <2> QED
    BY <2>1, <2>2 DEF ReportInv
<1>5. CASE Reconciled \/ Arrive \/ Admit
  BY <1>5 DEF ReportInv, Reconciled, Arrive, Admit, Underway, Serving
<1>6. CASE EndPhase \/ Finish \/ Cleanup \/ Close \/ Interrupt \/ Collect
  <2>1. pc' \notin Underway
    <3>1. CASE Collect
      <4>1. pc' \in {"begin", "written"}
        BY <3>1 DEF Collect
      <4> QED
        BY <4>1 DEF Underway, Serving
    <3>2. CASE EndPhase \/ Finish \/ Cleanup \/ Close \/ Interrupt
      BY <3>2 DEF EndPhase, Finish, Cleanup, Close, Interrupt, Underway, Serving
    <3> QED
      BY <1>6, <3>1, <3>2
  <2> QED
    BY <2>1 DEF ReportInv
<1>7. CASE Threads
  BY <1>7 DEF ReportInv, Threads, LoaderStarts, LoaderEnds, OrphanEnds
<1>8. CASE TaskResumes
  <2>1. UNCHANGED <<pc, activation, emitted>> /\ task.state # "done"
    BY <1>8 DEF TaskResumes
  <2> QED
    BY <2>1 DEF ReportInv
<1>9. CASE UNCHANGED vars
  BY <1>9 DEF ReportInv, vars
<1> QED
  BY <1>1, <1>3, <1>4, <1>5, <1>6, <1>7, <1>8, <1>9 DEF Next, Main

LEMMA PhaseType == ASSUME IInv PROVE phase \in 1..7 /\ phase \in Nat
<1>1. phase \in DOMAIN Phases
  BY DEF IInv, TypeInv, TypeOK
<1>2. phase \in 1..7
  BY <1>1, PhasesType
<1> QED
  BY <1>2

\* A worker that starts has counted nothing.
LEMMA FreshCounts == Fresh => CountsInv
<1> SUFFICES ASSUME Fresh PROVE CountsInv
  OBVIOUS
<1>1. /\ pc = "begin" /\ phase - 1 = 0 /\ active = Nil /\ loader = "idle"
      /\ account.served = 0 /\ account.abstained = 0 /\ account.published = 0
      /\ account.loads = 0
  BY DEF Fresh, NoAccount
<1>2. Expected(0).active = Nil /\ Expected(0).published = 0 /\ Expected(0).served = 0
  BY UndisturbedIs DEF Expected
<1>3. ~Settled
  BY <1>1 DEF Settled, Underway, Serving
<1>4. 0 * Files - 0 = 0
  BY Bounds
<1>5. PhaseCounts
  BY <1>1, <1>2, <1>3, <1>4 DEF PhaseCounts
<1> QED
  BY <1>1, <1>5 DEF CountsInv, Underway, Serving

LEMMA FreshCountsNext == Fresh' => CountsInv'
  BY FreshCounts, PTL

\* A request finds a feasible model just when it would with the load already over.
LEMMA CanServe ==
  ASSUME WorkInv, pc \in Serving, ~Troubled PROVE Feasible(active, preview) <=> Answering
<1>1. PhaseCounts /\ PhaseRecords
  BY DEF WorkInv, CountsInv, Underway
<1>2. CASE Settled
  BY <1>1, <1>2 DEF PhaseCounts, Answering
<1>3. CASE ~Settled
  <2>1. /\ task.state = "awaiting" /\ preview.selected # Nil
        /\ Feasible(active, preview) /\ Feasible(preview.selected, preview)
    BY <1>3 DEF WorkInv, IInv, TaskInv, LoadInv, ServeInv, Decides, Settled, Underway
  <2>2. active = Expected(phase - 1).active
    BY <1>1, <1>3 DEF PhaseCounts
  <2>3. StageAdds
    BY <1>1, PhaseType, StageEffect DEF PhaseRecords, InStage, WorkInv
  <2> QED
    BY <2>1, <2>2, <2>3 DEF StageAdds, Answering
<1> QED
  BY <1>2, <1>3

\* Steps that leave the phase's decision, its reconciliation and its records alone.
LEMMA SameDecision ==
  ASSUME UNCHANGED <<strategy, phase, preview>>
  PROVE  /\ (Expected(phase) = Expected(phase)') /\ (Expected(phase - 1) = Expected(phase - 1)')
         /\ Battery' = Battery /\ Fault' = Fault /\ Policies(strategy)' = Policies(strategy)
         /\ Answering' <=> Answering
<1>1. Expected(phase)' = Expected(phase) /\ Expected(phase - 1)' = Expected(phase - 1)
  BY DEF Expected
<1> QED
  BY <1>1 DEF Battery, Fault, Answering

LEMMA SamePublishing ==
  ASSUME UNCHANGED <<strategy, phase, preview>> PROVE Publishing' <=> Publishing
<1>1. Expected(phase - 1)' = Expected(phase - 1) /\ Fault' = Fault
  BY SameDecision
<1> QED
  BY <1>1 DEF Publishing

LEMMA QuietCounts ==
  ASSUME WorkInv, UNCHANGED <<strategy, phase, preview, task, active, emitted>>,
         pc \in Underway, pc' \in Underway,
         pc' = "inferring" => pc = "inferring" \/ (pc \in Serving /\ Feasible(active, preview)),
         /\ account'.served = account.served /\ account'.abstained = account.abstained
         /\ account'.published = account.published /\ account'.trouble = account.trouble,
         \/ account'.loads = account.loads /\ (loader' = "ok" <=> loader = "ok")
         \/ /\ account'.loads = account.loads + 1 /\ ~Settled
            /\ loader # "ok" /\ loader' = "ok"
  PROVE  CountsInv'
<1>1. Settled' <=> Settled
  BY DEF Settled
<1>2. Troubled' <=> Troubled
  BY <1>1 DEF Troubled
<1>3. ASSUME ~Troubled' PROVE PhaseCounts' /\ PhaseRecords'
  <2>1. PhaseCounts /\ PhaseRecords
    BY <1>2, <1>3 DEF WorkInv, CountsInv
  <2>2. account.published \in Nat
    BY DEF WorkInv, IInv, TypeInv, TypeOK
  <2>3. PhaseCounts'
    BY <1>1, <2>1, <2>2, SameDecision DEF PhaseCounts
  <2>4. pc' = "inferring" => Answering
    BY <1>2, <1>3, <2>1, CanServe DEF PhaseRecords
  <2>5. PhaseRecords'
    BY <1>1, <2>1, <2>4, SameDecision, SamePublishing DEF PhaseRecords
  <2> QED
    BY <2>3, <2>5
<1>4. pc' \notin {"begin", "joining", "closed", "written"}
  BY DEF Underway, Serving
<1> QED
  BY <1>3, <1>4 DEF CountsInv

\* What the first request of a phase decides is the decision of the undisturbed
\* strategy, whose replacement it dispatches or does not need.
LEMMA BeginCounts == ASSUME WorkInv, Begin PROVE CountsInv'
<1> DEFINE decision == SelectFor(Battery)
<1>1. /\ pc = "begin" /\ pc' \in {"serve", "reconciling"} /\ preview' = decision
      /\ UNCHANGED <<strategy, account, ended, phase, item, active, emitted>>
      /\ \/ /\ decision.selected # Nil /\ ~SameModel(active, decision.selected)
            /\ task'.state = "awaiting" /\ loader' = "queued"
         \/ /\ decision.selected = Nil \/ SameModel(active, decision.selected)
            /\ task'.state = "done" /\ task'.record.outcome = "unchanged"
            /\ ~task'.record.unexpected /\ loader' = loader
  BY BeginDoes
<1>2. loader = "idle" /\ emitted = <<>> /\ ~Settled
  BY <1>1 DEF WorkInv, LoadInv, EndedInv, IInv, TaskInv, TraceInv, Settled, Underway, Serving
<1>3. ASSUME ~Troubled' PROVE PhaseCounts' /\ PhaseRecords'
  <2>1. ~Troubled
    BY <1>1, <1>2, <1>3 DEF Troubled
  <2>2. PhaseCounts
    BY <1>1, <2>1 DEF WorkInv, CountsInv
  <2>3. active = Expected(phase - 1).active /\ loader' # "ok"
    BY <1>1, <1>2, <2>2 DEF PhaseCounts
  <2>4. /\ Expected(phase - 1)' = Expected(phase - 1) /\ Battery' = Battery
        /\ Policies(strategy)' = Policies(strategy) /\ phase' = phase
    BY <1>1 DEF Expected, Battery
  <2>5. preview' = Preview(Policies(strategy)', Expected(phase - 1)'.active, Battery')
    BY <1>1, <2>3, <2>4 DEF SelectFor
  <2>6. InStage'
    BY <2>4, <2>5, PhaseType DEF InStage, WorkInv
  <2>7. StageAdds'
    BY <2>6, StageEffectNext
  <2>8. Settled' => task'.record.outcome = "unchanged" /\ ~Publishing'
    <3>1. Settled' => task'.record.outcome = "unchanged"
                      /\ (preview'.selected = Nil \/ SameModel(active, preview'.selected))
      BY <1>1 DEF Settled
    <3> QED
      BY <2>3, <2>4, <3>1 DEF Publishing
  <2>9. PhaseCounts'
    <3>1. active' = IF Settled' THEN Expected(phase)'.active ELSE Expected(phase - 1)'.active
      BY <1>1, <2>3, <2>4, <2>7, <2>8 DEF StageAdds
    <3>2. account.loads = account.published + 0
      BY <1>2, <2>2 DEF PhaseCounts
    <3> QED
      BY <1>1, <2>2, <2>3, <2>4, <2>8, <3>1, <3>2 DEF PhaseCounts
  <2>10. PhaseRecords'
    <3>1. ToSet(emitted') = {}
      BY <1>1, <1>2, EmptySeq DEF ToSet
    <3> QED
      BY <1>1, <2>5, <2>8, <3>1 DEF PhaseRecords
  <2> QED
    BY <2>9, <2>10
<1>4. pc' \notin {"begin", "joining", "closed", "written"}
  BY <1>1
<1> QED
  BY <1>3, <1>4 DEF CountsInv

\* A load publishes just when it should, or its error is recorded.
LEMMA ResumeCounts == ASSUME WorkInv, TaskResumes PROVE CountsInv'
<1> DEFINE unexpected == loader # "ok" /\ ~(Fault /\ loader = "unavailable")
<1>1. /\ UNCHANGED <<strategy, account, ended, phase, pc, preview, emitted>>
      /\ task.state = "awaiting" /\ loader' = "idle"
      /\ loader \in {"ok", "failed", "unavailable"}
      /\ active' = IF loader = "ok" THEN task.selected ELSE active
      /\ task'.state = "done"
      /\ task'.record = Activation(IF loader = "ok" THEN "published" ELSE "failed",
                             unexpected, task.selected, active')
  BY DEF TaskResumes, run, WorkInv, IInv, TypeInv, TaskType
<1>2. /\ task'.record.outcome = (IF loader = "ok" THEN "published" ELSE "failed")
      /\ task'.record.unexpected = unexpected
  <2> HIDE DEF unexpected
  <2> QED
    BY <1>1 DEF Activation
<1>3. pc \in Underway /\ task.selected = preview.selected
  BY <1>1 DEF TaskResumes, Suspended, WorkInv, IInv, TaskInv, TypeInv, TypeOK, Left, Underway,
              Serving
<1>4. ~Settled /\ Settled'
  BY <1>1, <1>3 DEF Settled
<1>5. ASSUME ~Troubled' PROVE PhaseCounts' /\ PhaseRecords'
  <2>1. ~Troubled /\ ~task'.record.unexpected
    BY <1>1, <1>4, <1>5 DEF Troubled
  <2>2. PhaseCounts /\ PhaseRecords
    BY <1>3, <2>1 DEF WorkInv, CountsInv
  <2>3. active = Expected(phase - 1).active /\ StageAdds
    BY <1>4, <2>2, PhaseType, StageEffect DEF PhaseCounts, PhaseRecords, InStage, WorkInv
  <2>4. Publishing <=> loader = "ok"
    <3>1. /\ preview.selected # Nil /\ ~SameModel(active, preview.selected)
          /\ loader = "unavailable" => Fault /\ preview.selected = large
          /\ loader = "ok" => ~(Fault /\ preview.selected = large)
      BY <1>1, <1>3 DEF WorkInv, LoadInv
    <3>2. loader # "ok" => Fault /\ loader = "unavailable"
      BY <1>2, <2>1
    <3> QED
      BY <2>3, <3>1, <3>2 DEF Publishing
  <2>5. /\ Expected(phase)' = Expected(phase) /\ Expected(phase - 1)' = Expected(phase - 1)
        /\ Battery' = Battery /\ Policies(strategy)' = Policies(strategy)
        /\ (Answering' <=> Answering) /\ (Publishing' <=> Publishing)
    BY <1>1, SameDecision, SamePublishing
  <2>6. PhaseCounts'
    <3>1. active' = Expected(phase).active
      BY <1>1, <1>3, <2>3, <2>4 DEF StageAdds
    <3>2. account.loads = account.published + (IF loader = "ok" THEN 1 ELSE 0)
      BY <1>4, <2>2 DEF PhaseCounts
    <3>3. task'.record.outcome = "published" <=> loader = "ok"
      BY <1>2
    <3> QED
      BY <1>1, <1>4, <2>2, <2>5, <3>1, <3>2, <3>3 DEF PhaseCounts
  <2>7. PhaseRecords'
    <3>1. task'.record.outcome = "published" <=> Publishing'
      BY <1>2, <2>4, <2>5
    <3> QED
      BY <1>1, <2>2, <2>5, <3>1 DEF PhaseRecords
  <2> QED
    BY <2>6, <2>7
<1>6. pc' \notin {"begin", "joining", "closed", "written"}
  BY <1>1, <1>3 DEF Underway, Serving
<1> QED
  BY <1>5, <1>6 DEF CountsInv

\* A turn of the loop records the outcome that the phase is to have, or an error.
LEMMA EmitCounts ==
  ASSUME WorkInv, pc \in {"serve", "inferring"},
         NEW outcome \in {"ok", "abstained", "error"}, NEW model \in Refs, NEW was \in Refs,
         Emit(outcome, model, was),
         ~Troubled /\ outcome # "error" => outcome = IF Answering THEN "ok" ELSE "abstained"
  PROVE  CountsInv'
<1> DEFINE request == [event |-> "request", item |-> item, outcome |-> outcome,
                       serving |-> model, active |-> was]
           record == IF pending /\ task.state = "done" THEN task.record ELSE activation
<1>1. /\ UNCHANGED <<strategy, account, ended, phase, preview, task, loader, active>>
      /\ pc \in Underway /\ pc' \in {"wait", "drain"}
  BY DEF Emit, run, Underway, Serving
<1>2. /\ record \in ActivationRecord \cup {Nil}
      /\ ToSet(emitted') = ToSet(emitted) \cup {request}
                             \cup (IF record = Nil THEN {} ELSE {record})
  BY EmitAdds DEF WorkInv
<1>3. request.event = "request" /\ request.outcome = outcome
  OBVIOUS
<1> HIDE DEF request, record
<1>4. record # Nil => record.event = "activation"
  BY <1>2 DEF ActivationRecord
<1>5. (Settled' <=> Settled) /\ pc' \in Underway
  BY <1>1 DEF Settled, Underway, Serving
<1>6. ASSUME ~Troubled' PROVE PhaseCounts' /\ PhaseRecords'
  <2>1. ~Troubled
    BY <1>1, <1>2, <1>5, <1>6 DEF Troubled
  <2>2. ~IsTrouble(request)
    BY <1>2, <1>6 DEF Troubled
  <2>3. outcome = IF Answering THEN "ok" ELSE "abstained"
    BY <1>3, <2>1, <2>2 DEF IsTrouble
  <2>4. PhaseCounts /\ PhaseRecords
    BY <1>1, <2>1 DEF WorkInv, CountsInv
  <2>5. PhaseCounts'
    BY <1>1, <1>5, <2>4, SameDecision DEF PhaseCounts
  <2>6. \A r \in ToSet(emitted') :
          r.event = "request" => r.outcome = IF Answering THEN "ok" ELSE "abstained"
    BY <1>2, <1>3, <1>4, <2>3, <2>4 DEF PhaseRecords
  <2>7. PhaseRecords'
    BY <1>1, <1>5, <2>4, <2>6, SameDecision, SamePublishing DEF PhaseRecords
  <2> QED
    BY <2>5, <2>7
<1>7. pc' \notin {"begin", "joining", "closed", "written"}
  BY <1>1
<1> QED
  BY <1>6, <1>7 DEF CountsInv

LEMMA RequestsCount ==
  ASSUME WorkInv, Abstain \/ BadInput \/ \E outcome \in {"ok", "error"} : InferReturns(outcome)
  PROVE  CountsInv'
<1>1. active \in Refs /\ captured \in Refs /\ Nil \in Refs
  BY DEF WorkInv, IInv, TypeInv, TypeOK, Refs
<1>2. CASE Abstain
  <2>1. pc = "serve" /\ ~Feasible(active, preview) /\ Emit("abstained", Nil, active)
    BY <1>2 DEF Abstain
  <2>2. ~Troubled => ~Answering
    BY <2>1, CanServe DEF Serving
  <2> QED
    BY <1>1, <2>1, <2>2, EmitCounts
<1>3. CASE BadInput
  BY <1>1, <1>3, EmitCounts DEF BadInput
<1>4. ASSUME NEW outcome \in {"ok", "error"}, InferReturns(outcome) PROVE CountsInv'
  <2> DEFINE model == IF outcome = "ok" THEN captured ELSE Nil
  <2>1. pc = "inferring" /\ Emit(outcome, model, captured) /\ model \in Refs
    BY <1>1, <1>4 DEF InferReturns
  <2> HIDE DEF model
  <2>2. ~Troubled => Answering
    BY <2>1 DEF WorkInv, CountsInv, PhaseRecords, Underway, Serving
  <2> QED
    BY <1>1, <2>1, <2>2, EmitCounts
<1> QED
  BY <1>2, <1>3, <1>4

LEMMA DrainCounts == ASSUME WorkInv, Drain PROVE CountsInv'
<1>1. /\ UNCHANGED <<strategy, account, ended, phase, preview, task, loader, active>>
      /\ pc = "drain" /\ pc' = "leave"
  BY DEF Drain, run
<1>2. task.state = "done" /\ task.record \in ActivationRecord
  BY DEF Drain, WorkInv, IInv, TypeInv, TaskType, TaskInv, Serving
<1>3. /\ ToSet(emitted') = ToSet(emitted) \cup (IF pending THEN {task.record} ELSE {})
      /\ task.record.event = "activation"
  BY <1>2, DrainAdds DEF WorkInv, ActivationRecord
<1>4. Settled' /\ Settled
  BY <1>1, <1>2 DEF Settled, Underway, Serving
<1>5. ASSUME ~Troubled' PROVE PhaseCounts' /\ PhaseRecords'
  <2>1. ~Troubled
    BY <1>1, <1>3, <1>4, <1>5 DEF Troubled
  <2>2. PhaseCounts /\ PhaseRecords
    BY <1>1, <2>1 DEF WorkInv, CountsInv, Underway, Serving
  <2>3. PhaseCounts'
    BY <1>1, <1>4, <2>2, SameDecision DEF PhaseCounts
  <2>4. \A r \in ToSet(emitted') :
          r.event = "request" => r.outcome = IF Answering THEN "ok" ELSE "abstained"
    BY <1>3, <2>2 DEF PhaseRecords
  <2>5. PhaseRecords'
    BY <1>1, <1>4, <2>2, <2>4, SameDecision, SamePublishing DEF PhaseRecords
  <2> QED
    BY <2>3, <2>5
<1>6. pc' \notin {"begin", "joining", "closed", "written"}
  BY <1>1
<1> QED
  BY <1>5, <1>6 DEF CountsInv

\* The records of a phase that is over: those of its requests all have the outcome
\* that the phase is to have, and the one of its activation is the reconciliation's.
LEMMA PhaseAdds ==
  ASSUME WorkInv, pc = "leave"
  PROVE  /\ Accounted.trouble <=> Troubled
         /\ ~Troubled =>
              /\ With("ok") = IF Answering THEN Files ELSE 0
              /\ With("abstained") = IF Answering THEN 0 ELSE Files
              /\ With("published") = IF Publishing THEN 1 ELSE 0
<1> DEFINE D == 1..(Files + 1)
<1>1. /\ Settled /\ task.record \in ActivationRecord
      /\ \A r \in ToSet(emitted) : r.event = "activation" => r = task.record
  BY DEF WorkInv, IInv, TypeInv, TaskType, TaskInv, ReportInv, Settled, Underway
<1>2. /\ DOMAIN emitted = D
      /\ \E k \in D : /\ emitted[k].event = "activation"
                      /\ \A i \in D \ {k} : emitted[i].event = "request"
  <2>1. Reported(emitted, Files)
    BY DEF WorkInv, IInv, TraceInv, TaskInv
  <2>2. DOMAIN emitted = 1..Len(emitted)
    BY LenProperties DEF WorkInv, IInv, TypeInv, TypeOK
  <2> QED
    BY <2>1, <2>2 DEF Reported
<1>3. PICK k \in D : /\ emitted[k].event = "activation"
                     /\ \A i \in D \ {k} : emitted[i].event = "request"
  BY <1>2
<1>4. \A r : r \in ToSet(emitted) <=> \E i \in D : r = emitted[i]
  BY <1>2 DEF ToSet
<1>5. emitted[k] = task.record
  BY <1>1, <1>3, <1>4
<1> HIDE DEF D
<1>6. Accounted.trouble <=> Troubled
  <2> DEFINE trouble == \E i \in DOMAIN emitted :
                          IF emitted[i].event = "request" THEN emitted[i].outcome = "error"
                                                          ELSE emitted[i].unexpected
             found == account.trouble \/ trouble
  <2>1. trouble <=> \E r \in ToSet(emitted) : IsTrouble(r)
    BY <1>2, <1>4 DEF IsTrouble
  <2>2. task.record.unexpected => trouble
    BY <1>2, <1>3, <1>5
  <2>3. account \in [served : Nat, abstained : Nat, published : Nat, loads : Nat,
                     trouble : BOOLEAN]
    BY DEF WorkInv, IInv, TypeInv, TypeOK
  <2>4. Accounted = [account EXCEPT !.served = account.served + With("ok"),
                       !.abstained = account.abstained + With("abstained"),
                       !.published = account.published + With("published"),
                       !.trouble = found]
    BY DEF Accounted
  <2> HIDE DEF trouble
  <2>5. found <=> Troubled
    BY <1>1, <2>1, <2>2 DEF Troubled
  <2> HIDE DEF found
  <2>6. Accounted.trouble = found
    BY <2>3, <2>4
  <2> QED
    BY <2>5, <2>6
<1>7. ASSUME ~Troubled
      PROVE  /\ With("ok") = IF Answering THEN Files ELSE 0
             /\ With("abstained") = IF Answering THEN 0 ELSE Files
             /\ With("published") = IF Publishing THEN 1 ELSE 0
  <2> DEFINE At(o) == {i \in DOMAIN emitted : emitted[i].outcome = o}
             answered == IF Answering THEN "ok" ELSE "abstained"
  <2>1. \A i \in D \ {k} : emitted[i].outcome = answered
    BY <1>3, <1>4, <1>7 DEF WorkInv, CountsInv, PhaseRecords, Underway
  <2>2. /\ emitted[k].outcome \in {"unchanged", "published", "failed"}
        /\ emitted[k].outcome = "published" <=> Publishing
    BY <1>1, <1>5, <1>7 DEF WorkInv, CountsInv, PhaseRecords, Underway, ActivationRecord
  <2>3. /\ At(answered) = D \ {k}
        /\ \A o \in {"ok", "abstained"} : o # answered => At(o) = {}
        /\ At("published") = IF Publishing THEN {k} ELSE {}
    BY <1>2, <2>1, <2>2
  <2>4. \A o : With(o) = Cardinality(At(o))
    BY DEF With
  <2> HIDE DEF At
  <2>5. Cardinality(D \ {k}) = Files
    <3>1. Files \in Nat
      BY Bounds
    <3>2. IsFiniteSet(D) /\ Cardinality(D) = Files + 1
      BY <3>1, FS_Interval DEF D
    <3>3. Cardinality(D \ {k}) = Cardinality(D) - 1
      BY <1>3, <3>2, FS_RemoveElement
    <3> QED
      BY <3>1, <3>2, <3>3
  <2>6. Cardinality({}) = 0 /\ Cardinality({k}) = 1
    BY FS_EmptySet, FS_Singleton
  <2> QED
    BY <2>3, <2>4, <2>5, <2>6
<1> QED
  BY <1>6, <1>7

\* So a phase that is over leaves the counts of the undisturbed strategy.
LEMMA PhaseEnds ==
  ASSUME WorkInv, pc = "leave"
  PROVE  /\ loader = "idle" /\ (Accounted.trouble <=> Troubled)
         /\ ~Troubled => /\ active = Expected(phase).active
                         /\ Accounted.served = Expected(phase).served
                         /\ Accounted.abstained = phase * Files - Expected(phase).served
                         /\ Accounted.published = Expected(phase).published
                         /\ Accounted.loads = Expected(phase).published
<1>1. loader = "idle" /\ Settled
  BY DEF WorkInv, LoadInv, EndedInv, IInv, TaskInv, Settled, Underway
<1>2. account \in [served : Nat, abstained : Nat, published : Nat, loads : Nat,
                   trouble : BOOLEAN]
  BY DEF WorkInv, IInv, TypeInv, TypeOK
<1>3. /\ Accounted.served = account.served + With("ok")
      /\ Accounted.abstained = account.abstained + With("abstained")
      /\ Accounted.published = account.published + With("published")
      /\ Accounted.loads = account.loads
  BY <1>2 DEF Accounted
<1>4. ASSUME ~Troubled
      PROVE  /\ active = Expected(phase).active
             /\ Accounted.served = Expected(phase).served
             /\ Accounted.abstained = phase * Files - Expected(phase).served
             /\ Accounted.published = Expected(phase).published
             /\ Accounted.loads = Expected(phase).published
  <2>1. PhaseCounts /\ PhaseRecords
    BY <1>4 DEF WorkInv, CountsInv, Underway
  <2>2. StageAdds
    BY <2>1, PhaseType, StageEffect DEF PhaseRecords, InStage, WorkInv
  <2>3. /\ With("ok") = (IF Answering THEN Files ELSE 0)
        /\ With("abstained") = (IF Answering THEN 0 ELSE Files)
        /\ With("published") = (IF Publishing THEN 1 ELSE 0)
    BY <1>4, PhaseAdds
  <2>4. task.record.outcome = "published" <=> Publishing
    BY <1>1, <2>1 DEF PhaseRecords
  <2>5. phase \in Nat /\ Files \in Nat /\ (phase - 1) * Files + Files = phase * Files
    <3>1. \A p, f \in Nat : (p - 1) * f + f = p * f
      OBVIOUS
    <3> QED
      BY <3>1, PhaseType, Bounds DEF WorkInv
  <2>6. active = Expected(phase).active
    BY <1>1, <2>1 DEF PhaseCounts
  <2>7. Accounted.served = Expected(phase).served
    BY <1>3, <2>1, <2>2, <2>3 DEF PhaseCounts, StageAdds
  <2>8. Accounted.abstained = phase * Files - Expected(phase).served
    <3>1. /\ account.abstained = (phase - 1) * Files - account.served
          /\ Expected(phase).served = account.served + With("ok")
          /\ With("ok") + With("abstained") = Files
      BY <1>3, <2>1, <2>3, <2>5, <2>7 DEF PhaseCounts
    <3>2. \A p, q, s, w, a \in Int :
            p + w + a = q => (p - s) + a = q - (s + w)
      OBVIOUS
    <3>3. (phase - 1) * Files \in Int /\ phase * Files \in Int /\ account.served \in Int
          /\ With("ok") \in Int /\ With("abstained") \in Int
      BY <1>2, <2>3, <2>5
    <3>4. (phase - 1) * Files + With("ok") + With("abstained") = phase * Files
      BY <2>5, <3>1, <3>3
    <3> QED
      BY <1>3, <3>1, <3>2, <3>3, <3>4
  <2>9. Accounted.published = Expected(phase).published
    BY <1>3, <2>1, <2>2, <2>3 DEF PhaseCounts, StageAdds
  <2>10. Accounted.loads = Expected(phase).published
    BY <1>1, <1>2, <1>3, <2>1, <2>2, <2>4 DEF PhaseCounts, StageAdds
  <2> QED
    BY <2>6, <2>7, <2>8, <2>9, <2>10
<1> QED
  BY <1>1, <1>4, PhaseAdds

LEMMA EndPhaseCounts == ASSUME WorkInv, EndPhase PROVE CountsInv'
<1>1. /\ pc = "leave" /\ pc' = "begin" /\ phase' = phase + 1 /\ account' = Accounted
      /\ strategy' = strategy /\ active' = active /\ loader' = loader
  BY DEF EndPhase
<1>2. phase' - 1 = phase
  BY <1>1, PhaseType DEF WorkInv
<1>3. ~Settled'
  BY <1>1 DEF Settled, Underway, Serving
<1>4. ASSUME ~Troubled' PROVE PhaseCounts'
  <2>1. ~Accounted.trouble
    BY <1>1, <1>4 DEF Troubled
  <2>2. /\ loader = "idle" /\ active = Expected(phase).active
        /\ Accounted.served = Expected(phase).served
        /\ Accounted.abstained = phase * Files - Expected(phase).served
        /\ Accounted.published = Expected(phase).published
        /\ Accounted.loads = Expected(phase).published
    BY <1>1, <2>1, PhaseEnds
  <2>3. Expected(phase - 1)' = Expected(phase)
    BY <1>1, <1>2 DEF Expected
  <2>4. Expected(phase).published + 0 = Expected(phase).published
    BY PhaseType, UndisturbedType DEF WorkInv, Expected
  <2> QED
    BY <1>1, <1>2, <1>3, <2>2, <2>3, <2>4 DEF PhaseCounts
<1> QED
  BY <1>1, <1>4 DEF CountsInv, Underway, Serving

LEMMA FinishCounts == ASSUME WorkInv, Finish PROVE CountsInv'
<1>1. /\ pc = "leave" /\ pc' = "joining" /\ phase = 7 /\ account' = Accounted
      /\ strategy' = strategy
  BY PhasesType DEF Finish
<1>2. ASSUME ~account'.trouble PROVE WorkerCounts'
  <2>1. /\ ~Troubled
        /\ Accounted.served = Expected(7).served
        /\ Accounted.abstained = 7 * Files - Expected(7).served
        /\ Accounted.published = Expected(7).published
        /\ Accounted.loads = Expected(7).published
    BY <1>1, <1>2, PhaseEnds
  <2>2. /\ Accounted \in [served : Nat, abstained : Nat, published : Nat, loads : Nat,
                          trouble : BOOLEAN]
        /\ Accounted.trouble = FALSE
    BY <1>1, <1>2, AccountedType DEF WorkInv, IInv, TypeInv
  <2>3. Accounted = [served |-> Expected(7).served,
                     abstained |-> 7 * Files - Expected(7).served,
                     published |-> Expected(7).published, loads |-> Expected(7).published,
                     trouble |-> FALSE]
    BY <2>1, <2>2
  <2>4. Expected(7)' = Expected(7)
    BY <1>1 DEF Expected
  <2> QED
    BY <1>1, <2>3, <2>4 DEF WorkerCounts
<1> QED
  BY <1>1, <1>2 DEF CountsInv, Underway, Serving

\* The threads run for a phase under way, or for a worker that is not judged.
LEMMA ThreadsCount == ASSUME WorkInv, Threads PROVE CountsInv'
<1>1. UNCHANGED <<strategy, ended, phase, preview, task, active, emitted, pc>>
  BY DEF Threads, LoaderStarts, LoaderEnds, OrphanEnds, run
<1>2. account \in [served : Nat, abstained : Nat, published : Nat, loads : Nat,
                   trouble : BOOLEAN]
  BY DEF WorkInv, IInv, TypeInv, TypeOK
<1>3. CASE OrphanEnds
  <2>1. /\ UNCHANGED <<account, loader>>
        /\ pc \in {"cleanup", "joining"}
    BY <1>3 DEF OrphanEnds, run
  <2>2. Expected(7)' = Expected(7)
    BY <1>1 DEF Expected
  <2> QED
    BY <1>1, <2>1, <2>2 DEF WorkInv, CountsInv, WorkerCounts, Underway, Serving
<1>4. CASE loader \in {"queued", "running"} /\ ~OrphanEnds
  <2>1. \/ pc \in Underway /\ task.state = "awaiting"
        \/ pc = "cleanup" \/ ended = "interrupted"
    BY <1>4 DEF WorkInv, LoadInv, IInv, TypeInv, TypeOK, TaskInv, Suspended, Underway, Serving, Left
  <2>2. CASE pc \in Underway /\ task.state = "awaiting"
    <3>1. /\ account'.served = account.served /\ account'.abstained = account.abstained
          /\ account'.published = account.published /\ account'.trouble = account.trouble
          /\ \/ account'.loads = account.loads /\ (loader' = "ok" <=> loader = "ok")
             \/ account'.loads = account.loads + 1 /\ loader # "ok" /\ loader' = "ok"
      BY <1>2, <1>4, <2>2 DEF Threads, LoaderStarts, LoaderEnds, run
    <3>2. ~Settled
      BY <2>2 DEF Settled
    <3> QED
      BY <1>1, <2>2, <3>1, <3>2, QuietCounts
  <2>3. CASE pc = "cleanup" \/ ended = "interrupted"
    BY <1>1, <2>3 DEF WorkInv, EndedInv, CountsInv, Underway, Serving
  <2> QED
    BY <2>1, <2>2, <2>3
<1> QED
  BY <1>3, <1>4 DEF Threads, LoaderStarts, LoaderEnds

LEMMA CountsStep == ASSUME WorkInv, [Next]_vars PROVE CountsInv'
<1>1. CASE Reconciled \/ Arrive \/ Admit
  <2>1. /\ UNCHANGED <<strategy, phase, preview, task, active, emitted, account, loader>>
        /\ pc \in Underway /\ pc' \in Underway
        /\ pc' = "inferring" => pc \in Serving /\ Feasible(active, preview)
    BY <1>1 DEF Reconciled, Arrive, Admit, run, Underway, Serving
  <2> QED
    BY <2>1, QuietCounts
<1>2. CASE Interrupt \/ Cleanup
  <2>1. pc' = "cleanup" \/ (pc' = "joining" /\ ended' = "interrupted")
    BY <1>2 DEF Interrupt, Cleanup
  <2> QED
    BY <2>1 DEF CountsInv, Underway, Serving
<1>3. CASE Close
  <2>1. /\ pc = "joining" /\ pc' = "closed" /\ UNCHANGED <<strategy, account>>
        /\ ended' \in {"no", "ok"} => ended = "no"
    BY <1>3 DEF Close, WorkInv, EndedInv, IInv, TypeInv, TypeOK
  <2>2. Expected(7)' = Expected(7)
    BY <2>1 DEF Expected
  <2> QED
    BY <2>1, <2>2 DEF WorkInv, CountsInv, WorkerCounts, Underway, Serving
<1>4. CASE Collect
  <2>1. CASE Len(summaries') = Total
    <3>1. /\ pc = "closed" /\ pc' = "written" /\ UNCHANGED <<strategy, account, ended>>
      BY <1>4, <2>1 DEF Collect, Total
    <3>2. Expected(7)' = Expected(7)
      BY <3>1 DEF Expected
    <3> QED
      BY <3>1, <3>2 DEF WorkInv, CountsInv, WorkerCounts, Underway, Serving
  <2>2. CASE Len(summaries') # Total
    <3>1. Fresh'
      BY <1>4, <2>2 DEF Collect, Fresh, Total
    <3> QED
      BY <3>1, FreshCountsNext
  <2> QED
    BY <2>1, <2>2
<1>5. CASE UNCHANGED vars
  <2>1. /\ (Troubled' <=> Troubled) /\ (Settled' <=> Settled)
        /\ Expected(7)' = Expected(7)
    BY <1>5 DEF vars, Troubled, Settled, Expected
  <2>2. /\ Expected(phase)' = Expected(phase) /\ Expected(phase - 1)' = Expected(phase - 1)
        /\ Battery' = Battery /\ Policies(strategy)' = Policies(strategy)
        /\ (Answering' <=> Answering) /\ (Publishing' <=> Publishing)
    BY <1>5, SameDecision, SamePublishing DEF vars
  <2>3. (PhaseCounts' <=> PhaseCounts) /\ (WorkerCounts' <=> WorkerCounts)
    BY <1>5, <2>1, <2>2 DEF vars, PhaseCounts, WorkerCounts
  <2>4. PhaseRecords' <=> PhaseRecords
    BY <1>5, <2>1, <2>2 DEF vars, PhaseRecords
  <2> QED
    BY <1>5, <2>1, <2>3, <2>4 DEF vars, WorkInv, CountsInv
<1> QED
  BY <1>1, <1>2, <1>3, <1>4, <1>5, BeginCounts, RequestsCount, DrainCounts, EndPhaseCounts,
     FinishCounts, ThreadsCount, ResumeCounts DEF Next, Main

\* A worker's counts follow its phases: at the start of each, and until its records
\* hold an error, they are those of the strategy that nothing disturbs, and what the
\* phase has recorded is what its decision determines (evaluate, compare.py).
THEOREM CountsFollowPhases == Spec => []WorkInv
<1>1. Init => WorkInv
  <2> SUFFICES ASSUME Init PROVE WorkInv
    OBVIOUS
  <2>1. Fresh
    BY DEF Init, Fresh, Fault
  <2>2. EndedInv /\ LoadInv /\ ReportInv
    BY <2>1 DEF Fresh, NoTask, EndedInv, LoadInv, ReportInv, Underway, Serving
  <2> QED
    BY <2>1, <2>2, InitInv, FreshCounts DEF WorkInv
<1>2. WorkInv /\ [Next]_vars => WorkInv'
  BY StepInv, EndedStep, LoadStep, ReportStep, CountsStep DEF WorkInv
<1> QED
  BY <1>1, <1>2, PTL DEF Spec

\* "Counts pool three runs" (compare.py 471): every worker that compare() accepts has
\* served, abstained, published and loaded as often as its strategy alone determines,
\* whenever its loads end and whichever requests they meet.  How many of its answers
\* are late, useful or correct is not said.
THEOREM AcceptedCountsAgree == Spec => []RepetitionsAgree
<1>1. WorkInv => RepetitionsAgree
  <2> SUFFICES ASSUME WorkInv, ended = "ok" PROVE RepetitionsAgree
    BY DEF RepetitionsAgree
  <2>1. WorkerCounts
    BY DEF WorkInv, EndedInv, CountsInv
  <2> QED
    BY <2>1, PhasesType DEF WorkerCounts, Expected, RepetitionsAgree
<1> QED
  BY <1>1, CountsFollowPhases, PTL

\* What a worker with a strategy counts.
Tally(s) == [served |-> Undisturbed(s)[7].served,
             abstained |-> 7 * Files - Undisturbed(s)[7].served,
             published |-> Undisturbed(s)[7].published,
             loads |-> Undisturbed(s)[7].published, trouble |-> FALSE]

\* It is in the policies, not in the way they are carried out.
LEMMA TallyOfPolicies ==
  ASSUME NEW s, NEW t, Policies(s) = Policies(t) PROVE Tally(s) = Tally(t)
<1> DEFINE Same(n) == Undisturbed(s)[n] = Undisturbed(t)[n]
<1>1. \A sum, st : AfterStage(s, sum, st) = AfterStage(t, sum, st)
  BY DEF AfterStage
<1>2. Same(0)
  BY UndisturbedIs
<1>3. ASSUME NEW n \in 1..7, Same(n - 1) PROVE Same(n)
  BY <1>1, <1>3, UndisturbedIs
<1> HIDE DEF Same
<1>4. Same(1) /\ Same(2) /\ Same(3) /\ Same(4) /\ Same(5) /\ Same(6) /\ Same(7)
  BY <1>2, <1>3
<1> QED
  BY <1>4 DEF Same, Tally

TalliesInv == \A i \in DOMAIN summaries : summaries[i].account = Tally(summaries[i].strategy)

LEMMA TalliesStep == ASSUME WorkInv, TalliesInv, [Next]_vars PROVE TalliesInv'
<1>1. CASE Collect
  <2> DEFINE summary == [strategy |-> strategy, account |-> account]
  <2>1. summaries' = Append(summaries, summary) /\ ended = "ok" /\ pc = "closed"
    BY <1>1 DEF Collect
  <2>2. account = Tally(strategy)
    BY <2>1 DEF WorkInv, EndedInv, CountsInv, WorkerCounts, Expected, Tally
  <2>3. summary.account = Tally(summary.strategy)
    BY <2>2
  <2>4. summaries \in Seq([strategy : ToSet(Strategies), account : [served : Nat,
                        abstained : Nat, published : Nat, loads : Nat, trouble : BOOLEAN]])
    BY DEF WorkInv, IInv, TypeInv, WorkersInv
  <2>5. /\ DOMAIN summaries = 1..Len(summaries) /\ Len(summaries) \in Nat
        /\ DOMAIN summaries' = 1..(Len(summaries) + 1)
        /\ \A i \in 1..Len(summaries) : summaries'[i] = summaries[i]
        /\ summaries'[Len(summaries) + 1] = summary
    <3>1. strategy \in ToSet(Strategies)
          /\ account \in [served : Nat, abstained : Nat, published : Nat, loads : Nat,
                          trouble : BOOLEAN]
      BY DEF WorkInv, IInv, TypeInv, TypeOK
    <3>2. summary \in [strategy : ToSet(Strategies), account : [served : Nat,
                        abstained : Nat, published : Nat, loads : Nat, trouble : BOOLEAN]]
      BY <3>1
    <3> HIDE DEF summary
    <3> QED
      BY <2>1, <2>4, <3>2, AppendProperties, LenProperties
  <2> HIDE DEF summary
  <2>6. ASSUME NEW i \in DOMAIN summaries'
        PROVE  summaries'[i].account = Tally(summaries'[i].strategy)
    <3>1. CASE i \in DOMAIN summaries
      BY <2>5, <3>1 DEF TalliesInv
    <3>2. CASE i = Len(summaries) + 1
      BY <2>3, <2>5, <3>2
    <3> QED
      BY <2>5, <3>1, <3>2
  <2>7. TalliesInv' <=> \A i \in DOMAIN summaries' :
                           summaries'[i].account = Tally(summaries'[i].strategy)
    BY DEF TalliesInv, Tally
  <2> QED
    BY <2>6, <2>7
<1>2. CASE ~Collect
  <2>1. summaries' = summaries
    BY <1>2 DEF Next, Main, Threads, LoaderStarts, LoaderEnds, OrphanEnds, TaskResumes, Interrupt,
                Begin, Reconciled, Arrive, Abstain, BadInput, Admit, InferReturns, Emit, Drain,
                EndPhase, Finish, Cleanup, Close, run, vars
  <2> QED
    BY <2>1 DEF TalliesInv, Tally
<1> QED
  BY <1>1, <1>2

\* The summaries that compare() puts side by side: strategies with the same policies
\* (the repetitions of one; "adaptive" and "adaptive-background") serve and turn away
\* as many requests, and publish and load as many models; what differs between them is
\* when and by which model they answer (compare(), compare.py 429-471).
THEOREM SummariesAgree ==
  Spec => [](\A i, j \in DOMAIN summaries :
               Policies(summaries[i].strategy) = Policies(summaries[j].strategy)
                 => summaries[i].account = summaries[j].account)
<1>1. Init => TalliesInv
  <2>1. Init => DOMAIN summaries = {}
    BY EmptySeq DEF Init
  <2> QED
    BY <2>1 DEF TalliesInv
<1>2. WorkInv /\ TalliesInv /\ [Next]_vars => TalliesInv'
  BY TalliesStep
<1>3. TalliesInv => \A i, j \in DOMAIN summaries :
                      Policies(summaries[i].strategy) = Policies(summaries[j].strategy)
                        => summaries[i].account = summaries[j].account
  BY TallyOfPolicies DEF TalliesInv
<1> QED
  BY <1>1, <1>2, <1>3, CountsFollowPhases, PTL DEF Spec

-----------------------------------------------------------------------------
(* Replay: the demonstration on the same scenario.  How its transition     *)
(* ends in each stage is settled beforehand (the Report and the Entries    *)
(* below); when it ends is not, and each record reads the status and the   *)
(* slot at other moments than the next.                                    *)

CONSTANTS Frames, Inputs
VARIABLES stage, rPc, frame, rPreview, previous, status, rTask, rLoader, rActive, rCaptured,
          admission, evidence, scenes, rHidden, timely, tally

Shown == INSTANCE Replay WITH
  pc <- rPc, preview <- rPreview, task <- rTask, loader <- rLoader, active <- rActive,
  captured <- rCaptured, hidden <- rHidden

\* Its scenario and its selector are those of LiveSwap.
LEMMA SameSelector ==
  /\ Shown!small = small /\ Shown!large = large /\ Shown!Refs = Refs /\ Shown!Phases = Phases
  /\ \A m, n : Shown!SameModel(m, n) <=> SameModel(m, n)
  /\ \A m : Shown!MinimumBattery(m) = MinimumBattery(m) /\ Shown!Policy(m) = Policy(m)
<1>1. Shown!small = small /\ Shown!large = large
  BY DEF Shown!small, small, Shown!large, large
<1>2. Shown!Phases = Phases
  BY DEF Shown!Phases, Phases, Shown!Stage, Stage
<1>3. \A m, n : Shown!SameModel(m, n) <=> SameModel(m, n)
  BY DEF Shown!SameModel, SameModel, Shown!Identity, Identity
<1>4. \A m : Shown!MinimumBattery(m) = MinimumBattery(m)
  BY <1>1 DEF Shown!MinimumBattery, MinimumBattery
<1>5. \A m : Shown!Policy(m) = Policy(m)
  BY <1>1, <1>4 DEF Shown!Policy, Policy, Shown!Num, Num
<1> QED
  BY <1>1, <1>2, <1>3, <1>4, <1>5 DEF Shown!Refs, Refs

LEMMA SameEvaluation ==
  ASSUME NEW place, NEW policy, NEW model, NEW context, NEW resources
  PROVE  Shown!Evaluate(place, policy, model, context, resources)
           = Evaluate(place, policy, model, context, resources)
<1>1. \A a, op, b : Shown!Compare(a, op, b) <=> Compare(a, op, b)
  BY DEF Shown!Compare, Compare, Shown!PyEqual, PyEqual, Shown!Orderable, Orderable,
         Shown!Less, Less, Shown!AtLeast, AtLeast,
         Shown!IsIn, IsIn
<1>2. \A c, x, y : Shown!Satisfied(c, x, y) <=> Satisfied(c, x, y)
  BY <1>1 DEF Shown!Satisfied, Satisfied
<1> QED
  BY <1>2 DEF Shown!Evaluate, Evaluate

LEMMA SameRank ==
  ASSUME NEW E, NEW current PROVE Shown!Rank(E, current) = Rank(E, current)
<1>1. \A m, n : /\ Shown!SameModel(m, n) <=> SameModel(m, n)
                /\ Shown!PairLess(m, n) <=> PairLess(m, n)
                /\ Shown!Identity(m) = Identity(m)
  BY SameSelector DEF Shown!PairLess, PairLess, Shown!Identity, Identity
<1>2. ASSUME NEW a, NEW b PROVE Shown!Better(a, b, current) <=> Better(a, b, current)
  <2>1. (Shown!SameModel(current, a.model) = Shown!SameModel(current, b.model))
          <=> (SameModel(current, a.model) = SameModel(current, b.model))
    BY Zenon DEF Shown!SameModel, SameModel, Shown!Identity, Identity
  <2> QED
    BY <1>1, <2>1 DEF Shown!Better, Better
<1> DEFINE feasible == {e \in E : e.feasible}
           best == {e \in feasible : \A f \in feasible : ~Better(f, e, current)}
           shown == {e \in feasible : \A f \in feasible : ~Shown!Better(f, e, current)}
           First(S) == (CHOOSE e \in S : \A f \in S : e.place <= f.place).model
<1>3. shown = best
  BY <1>2
<1>4. Rank(E, current) = IF feasible = {} THEN Nil ELSE First(best)
  BY DEF Rank
<1>5. Shown!Rank(E, current) = IF feasible = {} THEN Nil ELSE First(shown)
  BY DEF Shown!Rank
<1> HIDE DEF feasible, best, shown, First
<1> QED
  BY <1>3, <1>4, <1>5

LEMMA SameAvailable ==
  ASSUME NEW m \in {small, large} PROVE Shown!Available(<<small, large>>, m) = m
<1> DEFINE both == <<small, large>>
           places == {i \in DOMAIN both : Identity(both[i]) = Identity(m)}
           shown == {i \in DOMAIN both : Shown!Identity(both[i]) = Shown!Identity(m)}
           Latest(S) == both[CHOOSE i \in S : \A j \in S : i >= j]
<1>1. shown = places
  BY DEF Shown!Identity, Identity
<1>2. Available(both, m) = IF places = {} THEN Nil ELSE Latest(places)
  BY DEF Available
<1>3. Shown!Available(both, m) = IF shown = {} THEN Nil ELSE Latest(shown)
  BY DEF Shown!Available
<1> HIDE DEF places, shown, Latest
<1> QED
  BY <1>1, <1>2, <1>3, BothAvailable

LEMMA SamePreview ==
  ASSUME NEW current, NEW battery
  PROVE  LET d == Shown!Preview(Shown!Policies, current, battery)
             p == Preview(<<Policy(small), Policy(large)>>, current, battery)
         IN  d.selected = p.selected /\ d.evaluations = p.evaluations
<1> DEFINE policies == <<Policy(small), Policy(large)>>
           context == [battery |-> Num(battery)]
           E == {Evaluate(i, policies[i], Available(<<small, large>>, policies[i].model),
                          context, <<>>) : i \in DOMAIN policies}
           F == {Shown!Evaluate(i, policies[i],
                                Shown!Available(<<small, large>>, policies[i].model),
                                context, <<>>) : i \in DOMAIN policies}
<1>1. Shown!Policies = policies /\ Shown!Num(battery) = Num(battery)
  BY SameSelector DEF Shown!Policies, Shown!Num, Num
<1>2. \A i \in DOMAIN policies :
        Shown!Available(<<small, large>>, policies[i].model)
          = Available(<<small, large>>, policies[i].model)
  <2>1. \A i \in DOMAIN policies : policies[i].model \in {small, large}
    BY DEF Policy
  <2> QED
    BY <2>1, SameAvailable, BothAvailable
<1>3. F = E
  BY <1>2, SameEvaluation
<1>4. /\ Preview(policies, current, battery).evaluations = E
      /\ Preview(policies, current, battery).selected = Rank(E, current)
  BY DEF Preview, Select
<1>5. /\ Shown!Preview(Shown!Policies, current, battery).evaluations = F
      /\ Shown!Preview(Shown!Policies, current, battery).selected = Shown!Rank(F, current)
  BY <1>1, SameSelector DEF Shown!Preview, Shown!Select
<1> HIDE DEF policies, context, E, F
<1> QED
  BY <1>3, <1>4, <1>5, SameRank DEF policies

\* Where frames are offered, or the stage is about to end.
Offering == {"offer", "inferring", "pacing", "awaiting", "leave"}

\* What each stage selects, what is active at its start, and after the last.
Chosen(s) == Choice(Phases[s].battery)
Entries == <<Nil, small, large, small, small, large, large, small>>

\* How the transition of a stage ends when it reports, and which stages are over.
Report(s) == CASE s = 4 -> "failed" [] s = 6 -> "unchanged" [] OTHER -> "published"
Over(s) == s < stage \/ rPc = "summary"

DemoType ==
  /\ rPc \in {"begin", "offer", "inferring", "pacing", "awaiting", "leave", "summary",
             "cleanup", "closed"}
  /\ previous \in Refs /\ rActive \in Refs /\ rCaptured \in Refs
  /\ status \in {"pending", "failed", "published", "unchanged"}
  /\ admission \in {"pending", "failed", "published", "unchanged"}
  /\ rTask \in {"none", "created", "awaiting", "done", "raised", "cancelled"}
  /\ rLoader \in {"idle", "queued", "running", "ok", "failed", "unavailable"}
  /\ evidence \in [activation : BOOLEAN, frame : BOOLEAN, invalid : BOOLEAN]
  /\ rHidden \in BOOLEAN /\ timely \in BOOLEAN
  /\ tally \in [inputs : SUBSET (0..(Inputs - 1)), mismatched : BOOLEAN, late : BOOLEAN]

StagesInv ==
  /\ stage \in 1..7 /\ frame \in 0..Frames
  /\ rPc = "summary" => stage = 7
  /\ rPc \in {"offer", "inferring"} => frame < Frames
  /\ rPc \in {"awaiting", "leave"} => frame = Frames
  /\ rPc = "begin" => rActive = Entries[stage] /\ rLoader = "idle"
  /\ rPc \in Offering =>
       /\ previous = Entries[stage] /\ rPreview.selected = Chosen(stage)
       /\ \A m \in {small, large} :
            Shown!Feasible(m, rPreview) <=> MinimumBattery(m) <= Phases[stage].battery
       /\ rHidden <=> stage = 4
  /\ rHidden => stage = 4
  /\ rPc \in {"begin", "summary", "closed"} => ~rHidden

\* A transition that has not reported has changed nothing but, where it raised, the
\* slot; one that has reported has done what the stage is about.
TransitionInv ==
  /\ rPc \notin Offering => rTask \notin {"created", "awaiting"}
  /\ rPc = "leave" => rTask = "done"
  /\ rPc \in Offering =>
       /\ rTask \in {"created", "awaiting", "done", "raised"}
       /\ rTask # "awaiting" <=> rLoader = "idle"
       /\ rTask # "done" => status = "pending" /\ ~evidence.activation
       /\ rTask \in {"created", "awaiting"} => rActive = previous
       /\ rTask \in {"awaiting", "raised"} => Chosen(stage) # Nil
       /\ rLoader = "unavailable" => stage = 4
       /\ rTask = "raised" => rActive \in {previous, Chosen(stage)}
       /\ rTask = "done" => /\ evidence.activation /\ status = Report(stage)
                            /\ rActive = Entries[stage + 1]

\* A frame that was admitted after the transition is served by what is active still.
FramesInv ==
  /\ rPc = "inferring" =>
       /\ rCaptured \in {small, large} /\ MinimumBattery(rCaptured) <= Phases[stage].battery
       /\ admission # "pending" => admission = status /\ rCaptured = rActive
  /\ rPc \in Offering =>
       /\ timely /\ ~evidence.invalid => evidence.frame
       /\ evidence.invalid => tally.mismatched

\* What a stage that was not found observed leaves behind, and an output that differed.
VerdictsInv ==
  /\ scenes \subseteq {s \in 1..7 : Over(s)}
  /\ \A s \in 1..7 : Over(s) => s \in scenes \/ tally.mismatched \/ tally.late
  /\ tally.mismatched /\ rPc \notin {"cleanup", "closed"} =>
       \/ rPc \in Offering /\ evidence.invalid
       \/ \E s \in 1..7 : Over(s) /\ s \notin scenes

\* The fourth and the fifth stage are served from their first frame on, so they go
\* through 2 * Frames successive inputs.
Offered == IF rPc = "begin" THEN 0 ELSE frame
Covered ==
  CASE stage < 4 -> 0
    [] stage = 4 -> Offered
    [] stage = 5 -> Frames + Offered
    [] OTHER -> 2 * Frames

CoverInv ==
  ~tally.mismatched =>
    \A n \in 0..(Covered - 1) : (3 * Frames + n) % Inputs \in tally.inputs

DemoInv == DemoType /\ StagesInv /\ TransitionInv /\ FramesInv /\ VerdictsInv /\ CoverInv

LEMMA ScenarioFacts ==
  ASSUME NEW s \in 1..7
  PROVE  /\ Phases[s].battery \in Nat /\ (Phases[s].fault <=> s = 4)
         /\ Phases[s].name = "injected-missing-artifact" <=> s = 4
         /\ Phases[s].name = "no-feasible-model" <=> s = 6
         /\ Phases[s].name = "start-small" <=> s = 1
         /\ Chosen(s) \in Refs /\ (Chosen(s) = Nil <=> s = 6)
         /\ Entries[s] \in Refs /\ (Entries[s] = Nil <=> s = 1)
         /\ Chosen(s) # Entries[s] /\ (s = 4 => Chosen(s) = large)
         /\ Entries[s + 1] = IF s \in {4, 6} THEN Entries[s] ELSE Chosen(s)
         /\ s # 6 => MinimumBattery(Chosen(s)) <= Phases[s].battery
         /\ s \in {4, 5} => \A m \in {small, large} : MinimumBattery(m) <= Phases[s].battery
         /\ s = 6 => \A m \in {small, large} : ~(MinimumBattery(m) <= Phases[s].battery)
<1>1. /\ Choice(80) = large /\ Choice(20) = small /\ Choice(5) = Nil
      /\ MinimumBattery(small) = 10 /\ MinimumBattery(large) = 40
  BY ModelsDiffer DEF Choice, MinimumBattery
<1>2. /\ Entries[1] = Nil /\ Entries[2] = small /\ Entries[3] = large /\ Entries[4] = small
      /\ Entries[5] = small /\ Entries[6] = large /\ Entries[7] = large /\ Entries[8] = small
  BY DEF Entries
<1> DEFINE Is(k, name, battery, fault, chosen, entry, exit) ==
             /\ Phases[k].name = name /\ Phases[k].battery = battery /\ Phases[k].fault = fault
             /\ Chosen(k) = chosen /\ Entries[k] = entry /\ Entries[k + 1] = exit
<1>5. Is(1, "start-small", 20, FALSE, small, Nil, small)
  <2>1. Phases[1] = Stage("start-small", 20, FALSE)
    BY DEF Phases
  <2> QED
    BY <1>1, <1>2, <2>1 DEF Chosen, Stage
<1>6. Is(2, "more-capacity", 80, FALSE, large, small, large)
  <2>1. Phases[2] = Stage("more-capacity", 80, FALSE)
    BY DEF Phases
  <2> QED
    BY <1>1, <1>2, <2>1 DEF Chosen, Stage
<1>7. Is(3, "less-capacity", 20, FALSE, small, large, small)
  <2>1. Phases[3] = Stage("less-capacity", 20, FALSE)
    BY DEF Phases
  <2> QED
    BY <1>1, <1>2, <2>1 DEF Chosen, Stage
<1>8. Is(4, "injected-missing-artifact", 80, TRUE, large, small, small)
  <2>1. Phases[4] = Stage("injected-missing-artifact", 80, TRUE)
    BY DEF Phases
  <2> QED
    BY <1>1, <1>2, <2>1 DEF Chosen, Stage
<1>9. Is(5, "retry-restored-artifact", 80, FALSE, large, small, large)
  <2>1. Phases[5] = Stage("retry-restored-artifact", 80, FALSE)
    BY DEF Phases
  <2> QED
    BY <1>1, <1>2, <2>1 DEF Chosen, Stage
<1>10. Is(6, "no-feasible-model", 5, FALSE, Nil, large, large)
  <2>1. Phases[6] = Stage("no-feasible-model", 5, FALSE)
    BY DEF Phases
  <2> QED
    BY <1>1, <1>2, <2>1 DEF Chosen, Stage
<1>11. Is(7, "recover", 20, FALSE, small, large, small)
  <2>1. Phases[7] = Stage("recover", 20, FALSE)
    BY DEF Phases
  <2> QED
    BY <1>1, <1>2, <2>1 DEF Chosen, Stage
<1>12. CASE s = 1
  BY <1>1, <1>5, <1>12, ModelsDiffer DEF Refs
<1>13. CASE s = 2
  BY <1>1, <1>6, <1>13, ModelsDiffer DEF Refs
<1>14. CASE s = 3
  BY <1>1, <1>7, <1>14, ModelsDiffer DEF Refs
<1>15. CASE s = 4
  BY <1>1, <1>8, <1>15, ModelsDiffer DEF Refs
<1>16. CASE s = 5
  BY <1>1, <1>9, <1>16, ModelsDiffer DEF Refs
<1>17. CASE s = 6
  BY <1>1, <1>10, <1>17, ModelsDiffer DEF Refs
<1>18. CASE s = 7
  BY <1>1, <1>11, <1>18, ModelsDiffer DEF Refs
<1> QED
  BY <1>12, <1>13, <1>14, <1>15, <1>16, <1>17, <1>18

\* The stage at hand, in the terms of Replay.
LEMMA Moment ==
  ASSUME stage \in 1..7
  PROVE  /\ Shown!Battery = Phases[stage].battery /\ Shown!Fault \in BOOLEAN /\ (Shown!Fault <=> stage = 4)
         /\ Shown!Name = "injected-missing-artifact" <=> stage = 4
         /\ Shown!Name = "no-feasible-model" <=> stage = 6
         /\ Shown!Name = "start-small" <=> stage = 1
         /\ Shown!Selected = rPreview.selected
  BY ScenarioFacts, PhasesType, SameSelector DEF Shown!Battery, Shown!Fault, Shown!Name, Shown!Selected

\* What reconcile() and the preview decide, whatever is active.
LEMMA StageDecision ==
  ASSUME NEW current, stage \in 1..7
  PROVE  LET d == Shown!Preview(Shown!Policies, current, Shown!Battery)
         IN  /\ d.selected = Chosen(stage)
             /\ \A m \in {small, large} :
                  Shown!Feasible(m, d) <=> MinimumBattery(m) <= Phases[stage].battery
<1> DEFINE b == Phases[stage].battery
           d == Shown!Preview(Shown!Policies, current, b)
           p == Preview(<<Policy(small), Policy(large)>>, current, b)
<1>1. b \in Nat /\ Shown!Battery = b
  BY ScenarioFacts, Moment
<1>2. d.selected = p.selected /\ d.evaluations = p.evaluations
  BY SamePreview
<1>3. /\ p.selected = Choice(b)
      /\ \A m \in {small, large} : Feasible(m, p) <=> MinimumBattery(m) <= b
  BY <1>1, BothPoliciesChoose
<1> HIDE DEF d, p
<1>4. \A m : Shown!Feasible(m, d) <=> Feasible(m, p)
  BY <1>2, SameSelector DEF Shown!Feasible, Feasible
<1> QED
  BY <1>1, <1>2, <1>3, <1>4 DEF Chosen, d


LEMMA DemoInitInv ==
  ASSUME Frames \in Nat \ {0}, Inputs \in Nat \ {0} PROVE Shown!Init => DemoInv
<1> SUFFICES ASSUME Shown!Init PROVE DemoInv
  OBVIOUS
<1>1. /\ stage = 1 /\ rPc = "begin" /\ frame = 0 /\ rPreview = Nil /\ previous = Nil
      /\ status = "pending" /\ rTask = "none" /\ rLoader = "idle" /\ rActive = Nil
      /\ rCaptured = Nil /\ admission = "pending" /\ scenes = {} /\ rHidden = FALSE
      /\ timely = FALSE
  BY DEF Shown!Init
<1>2. /\ evidence = [activation |-> FALSE, frame |-> FALSE, invalid |-> FALSE]
      /\ tally = [inputs |-> {}, mismatched |-> FALSE, late |-> FALSE]
  BY DEF Shown!Init, Shown!NoEvidence
<1>3. DemoType
  <2>1. /\ evidence \in [activation : BOOLEAN, frame : BOOLEAN, invalid : BOOLEAN]
        /\ tally \in [inputs : SUBSET (0..(Inputs - 1)), mismatched : BOOLEAN, late : BOOLEAN]
    BY <1>2
  <2> QED
    BY <1>1, <2>1 DEF DemoType, Refs
<1>4. StagesInv
  BY <1>1, ScenarioFacts DEF StagesInv, Offering
<1>5. TransitionInv /\ FramesInv
  BY <1>1 DEF TransitionInv, FramesInv, Offering
<1>6. VerdictsInv
  BY <1>1, <1>2 DEF VerdictsInv, Over
<1>7. CoverInv
  BY <1>1 DEF CoverInv, Covered
<1> QED
  BY <1>3, <1>4, <1>5, <1>6, <1>7 DEF DemoInv

-----------------------------------------------------------------------------
(* The steps of the demonstration.                                         *)

LEMMA BeginStageInv ==
  ASSUME Frames \in Nat \ {0}, Inputs \in Nat \ {0}, DemoInv, Shown!BeginStage PROVE DemoInv'
<1> DEFINE d == Shown!Preview(Shown!Policies, rActive, Shown!Battery)
<1>1. /\ rPc = "begin" /\ rPreview' = d /\ previous' = rActive /\ status' = "pending"
      /\ rHidden' = Shown!Fault /\ rTask' = "created" /\ frame' = 0 /\ timely' = FALSE
      /\ rPc' = "offer"
      /\ UNCHANGED <<stage, rLoader, rActive, rCaptured, admission, scenes, tally>>
      /\ evidence' = [activation |-> FALSE, frame |-> FALSE, invalid |-> FALSE]
  BY DEF Shown!BeginStage, Shown!NoEvidence
<1>2. stage \in 1..7 /\ rActive = Entries[stage] /\ rLoader = "idle"
  BY <1>1 DEF DemoInv, StagesInv
<1>3. /\ d.selected = Chosen(stage)
      /\ \A m \in {small, large} :
           Shown!Feasible(m, d) <=> MinimumBattery(m) <= Phases[stage].battery
  BY <1>2, StageDecision
<1> HIDE DEF d
<1>4. DemoType'
  <2>1. evidence' \in [activation : BOOLEAN, frame : BOOLEAN, invalid : BOOLEAN]
    BY <1>1
  <2>2. rHidden' \in BOOLEAN
    BY <1>1, <1>2, Moment
  <2> QED
    BY <1>1, <2>1, <2>2 DEF DemoInv, DemoType
<1>5. StagesInv'
  BY <1>1, <1>2, <1>3, Moment DEF DemoInv, StagesInv, Offering
<1>6. TransitionInv' /\ FramesInv'
  BY <1>1, <1>2 DEF TransitionInv, FramesInv, Offering
<1>7. VerdictsInv'
  BY <1>1 DEF DemoInv, VerdictsInv, Over, Offering
<1>8. CoverInv'
  BY <1>1 DEF DemoInv, CoverInv, Covered, Offered
<1> QED
  BY <1>4, <1>5, <1>6, <1>7, <1>8 DEF DemoInv

\* A frame finds something feasible but where the stage has nothing feasible, or
\* waits for its transition.
LEMMA FeasibleAtOffer ==
  ASSUME DemoInv, rPc \in Offering
  PROVE  /\ Shown!Feasible(rActive, rPreview) <=>
              rActive # Nil /\ MinimumBattery(rActive) <= Phases[stage].battery
         /\ stage \in {4, 5} => Shown!Feasible(rActive, rPreview)
         /\ stage = 6 => ~Shown!Feasible(rActive, rPreview)
         /\ rTask = "done" /\ stage # 6 => Shown!Feasible(rActive, rPreview)
<1>1. /\ stage \in 1..7 /\ previous = Entries[stage]
      /\ \A m \in {small, large} :
           Shown!Feasible(m, rPreview) <=> MinimumBattery(m) <= Phases[stage].battery
  BY DEF DemoInv, StagesInv
<1>2. /\ rTask \in {"created", "awaiting", "raised"} => rActive \in {previous, Chosen(stage)}
      /\ rTask = "done" => rActive = Entries[stage + 1]
      /\ rTask \in {"created", "awaiting", "raised", "done"}
  BY DEF DemoInv, TransitionInv
<1>3. ~Shown!Feasible(Nil, rPreview)
  BY DEF Shown!Feasible
<1>4. rActive \in {Nil, small, large}
  BY DEF DemoInv, DemoType, Refs
<1>5. Shown!Feasible(rActive, rPreview) <=>
        rActive # Nil /\ MinimumBattery(rActive) <= Phases[stage].battery
  BY <1>1, <1>3, <1>4, ModelsDiffer
<1>6. stage \in {4, 5} => rActive # Nil
  BY <1>1, <1>2, ScenarioFacts
<1>7. stage \in {4, 5} => Shown!Feasible(rActive, rPreview)
  BY <1>1, <1>4, <1>5, <1>6, ScenarioFacts
<1>8. stage = 6 => ~Shown!Feasible(rActive, rPreview)
  BY <1>1, <1>4, <1>5, ScenarioFacts
<1>9. rTask = "done" /\ stage # 6 => Shown!Feasible(rActive, rPreview)
  BY <1>1, <1>2, <1>5, <1>7, ScenarioFacts
<1> QED
  BY <1>5, <1>7, <1>8, <1>9

LEMMA DeclineInv ==
  ASSUME Frames \in Nat \ {0}, Inputs \in Nat \ {0}, DemoInv, Shown!Decline PROVE DemoInv'
<1> DEFINE outcome == IF Shown!Selected = Nil THEN "abstained" ELSE "waiting"
<1>1. /\ rPc = "offer" /\ frame' = frame + 1 /\ timely' = (timely \/ status # "pending")
      /\ rPc' = "pacing" /\ ~Shown!Feasible(rActive, rPreview)
      /\ UNCHANGED <<stage, rPreview, previous, status, rTask, rLoader, rActive, rCaptured,
                     admission, scenes, rHidden, tally>>
      /\ Shown!ObserveFrame(outcome, Nil, FALSE)
  BY DEF Shown!Decline
<1>2. /\ stage \in 1..7 /\ frame \in 0..Frames /\ frame < Frames /\ frame + 1 \in 0..Frames
      /\ rPreview.selected = Chosen(stage) /\ rPc \in Offering
  BY <1>1 DEF DemoInv, StagesInv, Offering
<1>3. evidence' = [evidence EXCEPT
        !.frame = @ \/ (/\ Shown!SceneObserved(outcome, Nil, FALSE, admission)
                        /\ evidence.activation \/ Shown!Name = "no-feasible-model"),
        !.invalid = @ \/ (/\ outcome = "ok"
                          /\ Shown!Name = "no-feasible-model" \/ ~FALSE)]
  BY <1>1 DEF Shown!ObserveFrame
<1>4. outcome # "ok"
  OBVIOUS
<1>5. /\ evidence' \in [activation : BOOLEAN, frame : BOOLEAN, invalid : BOOLEAN]
      /\ evidence'.activation = evidence.activation /\ (evidence'.invalid <=> evidence.invalid)
      /\ evidence.frame => evidence'.frame
  <2> HIDE DEF outcome
  <2> QED
    BY <1>3, <1>4 DEF DemoInv, DemoType
<1>6. stage = 6 => evidence'.frame
  <2>1. ASSUME stage = 6 PROVE Shown!SceneObserved(outcome, Nil, FALSE, admission)
    <3>1. Shown!Selected = Nil /\ Shown!Name = "no-feasible-model"
      BY <1>2, <2>1, Moment, ScenarioFacts
    <3>2. outcome = "abstained"
      BY <3>1
    <3>3. Shown!SceneObserved("abstained", Nil, FALSE, admission)
      BY <3>1 DEF Shown!SceneObserved
    <3> QED
      BY <3>2, <3>3
  <2> HIDE DEF outcome
  <2> QED
    BY <1>2, <1>3, <2>1, Moment DEF DemoInv, DemoType
<1>7. status # "pending" => stage = 6
  BY <1>1, <1>2, FeasibleAtOffer DEF DemoInv, TransitionInv
<1> HIDE DEF outcome
<1>8. DemoType'
  BY <1>1, <1>5 DEF DemoInv, DemoType
<1>9. StagesInv'
  BY <1>1, <1>2 DEF DemoInv, StagesInv, Offering
<1>10. TransitionInv'
  BY <1>1, <1>5 DEF DemoInv, TransitionInv, Offering
<1>11. FramesInv'
  BY <1>1, <1>5, <1>6, <1>7 DEF DemoInv, FramesInv, Offering
<1>12. VerdictsInv'
  BY <1>1, <1>5 DEF DemoInv, VerdictsInv, Over, Offering
<1>13. CoverInv'
  <2>1. Covered' = Covered
    BY <1>1, <1>2, FeasibleAtOffer DEF Covered
  <2> QED
    BY <1>1, <2>1 DEF DemoInv, CoverInv
<1> QED
  BY <1>8, <1>9, <1>10, <1>11, <1>12, <1>13 DEF DemoInv

LEMMA FrameAdmitInv ==
  ASSUME Frames \in Nat \ {0}, Inputs \in Nat \ {0}, DemoInv, Shown!Admit PROVE DemoInv'
<1>1. /\ rPc = "offer" /\ rPc' = "inferring" /\ Shown!Feasible(rActive, rPreview)
      /\ rCaptured' = rActive /\ admission' = status
      /\ UNCHANGED <<stage, frame, rPreview, previous, status, rTask, rLoader, rActive,
                     evidence, scenes, rHidden, timely, tally>>
  BY DEF Shown!Admit
<1>2. rActive # Nil /\ MinimumBattery(rActive) <= Phases[stage].battery
  BY <1>1, FeasibleAtOffer DEF Offering
<1>3. DemoType'
  BY <1>1 DEF DemoInv, DemoType
<1>4. StagesInv'
  BY <1>1 DEF DemoInv, StagesInv, Offering
<1>5. TransitionInv'
  BY <1>1 DEF DemoInv, TransitionInv, Offering
<1>6. FramesInv'
  BY <1>1, <1>2 DEF DemoInv, DemoType, FramesInv, Offering, Refs
<1>7. VerdictsInv'
  BY <1>1 DEF DemoInv, VerdictsInv, Over, Offering
<1>8. CoverInv'
  BY <1>1 DEF DemoInv, CoverInv, Covered, Offered
<1> QED
  BY <1>3, <1>4, <1>5, <1>6, <1>7, <1>8 DEF DemoInv

LEMMA InferReturnsInv ==
  ASSUME Frames \in Nat \ {0}, Inputs \in Nat \ {0}, DemoInv,
         NEW matches \in BOOLEAN, Shown!InferReturns(matches)
  PROVE  DemoInv'
<1>1. /\ rPc = "inferring" /\ rPc' = "pacing" /\ frame' = frame + 1
      /\ tally' = IF matches THEN [tally EXCEPT !.inputs = @ \cup {Shown!Input}]
                  ELSE [tally EXCEPT !.mismatched = TRUE]
      /\ timely' = (timely \/ admission # "pending")
      /\ rCaptured' = Nil /\ admission' = "pending"
      /\ UNCHANGED <<stage, rPreview, previous, status, rTask, rLoader, rActive, scenes, rHidden>>
      /\ Shown!ObserveFrame("ok", rCaptured, matches)
  BY DEF Shown!InferReturns
<1>2. /\ stage \in 1..7 /\ frame \in 0..Frames /\ frame < Frames /\ frame + 1 \in 0..Frames
      /\ previous = Entries[stage] /\ rPreview.selected = Chosen(stage) /\ rPc \in Offering
      /\ rCaptured \in {small, large} /\ MinimumBattery(rCaptured) <= Phases[stage].battery
  BY <1>1 DEF DemoInv, StagesInv, FramesInv, Offering
<1>3. stage # 6
  BY <1>2, ScenarioFacts
<1>4. evidence' = [evidence EXCEPT
        !.frame = @ \/ (/\ Shown!SceneObserved("ok", rCaptured, matches, admission)
                        /\ evidence.activation \/ Shown!Name = "no-feasible-model"),
        !.invalid = @ \/ (/\ "ok" = "ok"
                          /\ Shown!Name = "no-feasible-model" \/ ~matches)]
  BY <1>1 DEF Shown!ObserveFrame
<1>5. /\ evidence' \in [activation : BOOLEAN, frame : BOOLEAN, invalid : BOOLEAN]
      /\ evidence'.activation = evidence.activation
      /\ evidence'.invalid <=> evidence.invalid \/ ~matches
      /\ evidence.frame => evidence'.frame
      /\ Shown!SceneObserved("ok", rCaptured, matches, admission) /\ evidence.activation =>
           evidence'.frame
  BY <1>2, <1>3, <1>4, Moment DEF DemoInv, DemoType
<1>6. /\ tally' \in [inputs : SUBSET (0..(Inputs - 1)), mismatched : BOOLEAN, late : BOOLEAN]
      /\ tally'.late = tally.late /\ (tally'.mismatched <=> tally.mismatched \/ ~matches)
      /\ tally'.inputs = IF matches THEN tally.inputs \cup {Shown!Input} ELSE tally.inputs
  <2>1. tally \in [inputs : SUBSET (0..(Inputs - 1)), mismatched : BOOLEAN, late : BOOLEAN]
    BY DEF DemoInv, DemoType
  <2>2. Shown!Input \in 0..(Inputs - 1)
    <3>1. \A k \in Nat : k % Inputs \in 0..(Inputs - 1)
      OBVIOUS
    <3>2. stage - 1 \in Nat /\ frame \in Nat /\ (stage - 1) * Frames \in Nat
      BY <1>2
    <3>3. (stage - 1) * Frames + frame \in Nat
      BY <3>2
    <3> QED
      BY <3>1, <3>3 DEF Shown!Input
  <2> QED
    BY <1>1, <2>1, <2>2
<1>7. admission # "pending" /\ matches =>
        Shown!SceneObserved("ok", rCaptured, matches, admission) /\ evidence.activation
  <2> SUFFICES ASSUME admission # "pending", matches
               PROVE  Shown!SceneObserved("ok", rCaptured, matches, admission)
                      /\ evidence.activation
    OBVIOUS
  <2>1. admission = status /\ rCaptured = rActive /\ rTask = "done"
    BY <1>1, <1>2 DEF DemoInv, FramesInv, TransitionInv
  <2>2. evidence.activation /\ status = Report(stage) /\ rActive = Entries[stage + 1]
    BY <1>2, <2>1 DEF DemoInv, TransitionInv
  <2>3. CASE stage = 4
    <3>1. /\ Shown!Name = "injected-missing-artifact" /\ admission = "failed"
          /\ previous # Nil /\ Shown!Selected # previous /\ rActive = previous
      BY <1>2, <2>1, <2>2, <2>3, Moment, ScenarioFacts DEF Report
    <3> QED
      BY <2>1, <2>2, <3>1 DEF Shown!SceneObserved
  <2>4. CASE stage # 4
    <3>1. /\ Shown!Name # "injected-missing-artifact" /\ Shown!Name # "no-feasible-model"
          /\ admission = "published" /\ Shown!Selected # Nil /\ rActive = Shown!Selected
      BY <1>2, <1>3, <2>1, <2>2, <2>4, Moment, ScenarioFacts DEF Report
    <3> QED
      BY <2>1, <2>2, <3>1 DEF Shown!SceneObserved, Shown!Allowed
  <2> QED
    BY <2>3, <2>4
<1>8. DemoType'
  <2>1. rPc' = "pacing" /\ admission' = "pending" /\ rCaptured' \in Refs /\ timely' \in BOOLEAN
    BY <1>1 DEF DemoInv, DemoType, Refs
  <2>2. UNCHANGED <<previous, status, rTask, rLoader, rActive, rHidden>>
    BY <1>1
  <2> QED
    BY <1>5, <1>6, <2>1, <2>2 DEF DemoInv, DemoType
<1>9. StagesInv'
  BY <1>1, <1>2 DEF DemoInv, StagesInv, Offering
<1>10. TransitionInv'
  BY <1>1, <1>5 DEF DemoInv, TransitionInv, Offering
<1>11. FramesInv'
  BY <1>1, <1>2, <1>5, <1>6, <1>7 DEF DemoInv, FramesInv, Offering
<1>12. VerdictsInv'
  BY <1>1, <1>2, <1>5, <1>6 DEF DemoInv, VerdictsInv, Over, Offering
<1>13. CoverInv'
  <2> SUFFICES ASSUME ~tally'.mismatched
               PROVE  \A n \in 0..(Covered' - 1) : (3 * Frames + n) % Inputs \in tally'.inputs
    BY DEF CoverInv
  <2>1. /\ \A n \in 0..(Covered - 1) : (3 * Frames + n) % Inputs \in tally.inputs
        /\ tally'.inputs = tally.inputs \cup {Shown!Input}
    BY <1>6 DEF DemoInv, CoverInv
  <2>2. CASE stage \notin {4, 5}
    <3>1. Covered' = Covered
      BY <1>1, <2>2 DEF Covered
    <3> QED
      BY <2>1, <3>1
  <2>3. CASE stage = 4
    <3>1. Covered = frame /\ Covered' = frame + 1
      BY <1>1, <2>3 DEF Covered, Offered
    <3>2. Shown!Input = (3 * Frames + frame) % Inputs
      BY <2>3 DEF Shown!Input
    <3>3. ASSUME NEW n \in 0..(Covered' - 1) PROVE (3 * Frames + n) % Inputs \in tally'.inputs
      <4>1. n \in 0..(Covered - 1) \/ n = frame
        BY <1>2, <3>1
      <4> QED
        BY <2>1, <3>2, <4>1
    <3> QED
      BY <3>3
  <2>4. CASE stage = 5
    <3>1. Covered = Frames + frame /\ Covered' = Frames + (frame + 1)
      BY <1>1, <2>4 DEF Covered, Offered
    <3>2. Shown!Input = (3 * Frames + (Frames + frame)) % Inputs
      <4>1. (5 - 1) * Frames + frame = 3 * Frames + (Frames + frame)
        BY <1>2
      <4> QED
        BY <2>4, <4>1 DEF Shown!Input
    <3>3. ASSUME NEW n \in 0..(Covered' - 1) PROVE (3 * Frames + n) % Inputs \in tally'.inputs
      <4>1. n \in 0..(Covered - 1) \/ n = Frames + frame
        BY <1>2, <3>1
      <4> QED
        BY <2>1, <3>2, <4>1
    <3> QED
      BY <3>3
  <2> QED
    BY <2>2, <2>3, <2>4
<1> QED
  BY <1>8, <1>9, <1>10, <1>11, <1>12, <1>13 DEF DemoInv

LEMMA PaceInv ==
  ASSUME Frames \in Nat \ {0}, Inputs \in Nat \ {0}, DemoInv, Shown!Pace PROVE DemoInv'
<1>1. /\ rPc = "pacing" /\ rPc' = IF frame < Frames THEN "offer" ELSE "awaiting"
      /\ UNCHANGED <<stage, frame, rPreview, previous, status, rTask, rLoader, rActive,
                     rCaptured, admission, evidence, scenes, rHidden, timely, tally>>
  BY DEF Shown!Pace
<1>2. DemoType'
  BY <1>1 DEF DemoInv, DemoType
<1>3. StagesInv'
  BY <1>1 DEF DemoInv, StagesInv, Offering
<1>4. TransitionInv' /\ FramesInv'
  BY <1>1 DEF DemoInv, TransitionInv, FramesInv, Offering
<1>5. VerdictsInv'
  BY <1>1 DEF DemoInv, VerdictsInv, Over, Offering
<1>6. CoverInv'
  BY <1>1 DEF DemoInv, CoverInv, Covered, Offered
<1> QED
  BY <1>2, <1>3, <1>4, <1>5, <1>6 DEF DemoInv

LEMMA AwaitTaskInv ==
  ASSUME Frames \in Nat \ {0}, Inputs \in Nat \ {0}, DemoInv, Shown!AwaitTask PROVE DemoInv'
<1>1. /\ rPc = "awaiting" /\ rTask \in {"done", "raised"}
      /\ rPc' = IF rTask = "done" THEN "leave" ELSE "cleanup"
      /\ UNCHANGED <<stage, frame, rPreview, previous, status, rTask, rLoader, rActive,
                     rCaptured, admission, evidence, scenes, rHidden, timely, tally>>
  BY DEF Shown!AwaitTask
<1>2. DemoType'
  BY <1>1 DEF DemoInv, DemoType
<1>3. StagesInv'
  BY <1>1 DEF DemoInv, StagesInv, Offering
<1>4. TransitionInv' /\ FramesInv'
  BY <1>1 DEF DemoInv, TransitionInv, FramesInv, Offering
<1>5. VerdictsInv'
  BY <1>1 DEF DemoInv, VerdictsInv, Over, Offering
<1>6. CoverInv'
  BY <1>1 DEF DemoInv, CoverInv, Covered, Offered
<1> QED
  BY <1>2, <1>3, <1>4, <1>5, <1>6 DEF DemoInv

\* The verdict on the stage that ends here.
LEMMA VerdictIsExplained ==
  ASSUME DemoInv, rPc = "leave", ~Shown!Observed PROVE evidence.invalid \/ ~timely
<1>1. evidence.activation /\ (timely /\ ~evidence.invalid => evidence.frame)
  BY DEF DemoInv, TransitionInv, FramesInv, Offering
<1> QED
  BY <1>1 DEF Shown!Observed

LEMMA EndStageInv ==
  ASSUME Frames \in Nat \ {0}, Inputs \in Nat \ {0}, DemoInv, Shown!EndStage PROVE DemoInv'
<1>1. /\ rPc = "leave" /\ rHidden' = FALSE
      /\ tally' = [tally EXCEPT !.late = @ \/ ~timely]
      /\ scenes' = IF Shown!Observed THEN scenes \cup {stage} ELSE scenes
      /\ UNCHANGED <<frame, rPreview, previous, status, rTask, rLoader, rActive, rCaptured,
                     admission, evidence, timely>>
      /\ IF stage = 7 THEN rPc' = "summary" /\ stage' = stage
         ELSE rPc' = "begin" /\ stage' = stage + 1
  BY SameSelector, PhasesType DEF Shown!EndStage
<1>2. /\ stage \in 1..7 /\ frame = Frames /\ rTask = "done" /\ rLoader = "idle"
      /\ rActive = Entries[stage + 1] /\ evidence.activation
      /\ evidence.invalid => tally.mismatched
  BY <1>1 DEF DemoInv, StagesInv, TransitionInv, FramesInv, Offering
<1>3. /\ tally' \in [inputs : SUBSET (0..(Inputs - 1)), mismatched : BOOLEAN, late : BOOLEAN]
      /\ tally'.inputs = tally.inputs /\ tally'.mismatched = tally.mismatched
      /\ tally'.late <=> tally.late \/ ~timely
  <2>1. tally \in [inputs : SUBSET (0..(Inputs - 1)), mismatched : BOOLEAN, late : BOOLEAN]
        /\ timely \in BOOLEAN
    BY DEF DemoInv, DemoType
  <2> QED
    BY <1>1, <2>1
<1>4. DemoType'
  <2>1. rPc' \in {"summary", "begin"} /\ rHidden' \in BOOLEAN
    BY <1>1
  <2> QED
    BY <1>1, <1>3, <2>1 DEF DemoInv, DemoType
<1>5. StagesInv'
  BY <1>1, <1>2 DEF DemoInv, StagesInv, Offering
<1>6. TransitionInv' /\ FramesInv'
  BY <1>1, <1>2 DEF TransitionInv, FramesInv, Offering
<1>7. \A s \in 1..7 : Over(s)' <=> Over(s) \/ s = stage
  BY <1>1, <1>2 DEF Over
<1>8. ~Over(stage)
  BY <1>1, <1>2 DEF Over
<1>9. VerdictsInv'
  <2>1. scenes' \subseteq {s \in 1..7 : Over(s)'}
    BY <1>1, <1>2, <1>7 DEF DemoInv, VerdictsInv
  <2>2. \A s \in 1..7 : Over(s)' => s \in scenes' \/ tally'.mismatched \/ tally'.late
    BY <1>1, <1>2, <1>3, <1>7, VerdictIsExplained DEF DemoInv, VerdictsInv
  <2>3. tally'.mismatched => \E s \in 1..7 : Over(s)' /\ s \notin scenes'
    <3>1. CASE evidence.invalid
      <4>1. scenes' = scenes /\ stage \notin scenes
        BY <1>1, <1>8, <3>1 DEF Shown!Observed, DemoInv, VerdictsInv
      <4> QED
        BY <1>2, <1>7, <4>1
    <3>2. CASE ~evidence.invalid
      BY <1>1, <1>3, <1>7, <1>8, <3>2 DEF DemoInv, VerdictsInv
    <3> QED
      BY <3>1, <3>2
  <2> QED
    BY <2>1, <2>2, <2>3 DEF VerdictsInv
<1>10. CoverInv'
  <2>1. Covered' = Covered
    BY <1>1, <1>2 DEF Covered, Offered
  <2> QED
    BY <1>3, <2>1 DEF DemoInv, CoverInv
<1> QED
  BY <1>4, <1>5, <1>6, <1>9, <1>10 DEF DemoInv

\* A transition that reports what its stage is about is observed as its activation.
LEMMA ReportIsObserved ==
  ASSUME stage \in 1..7, previous = Entries[stage], rPreview.selected = Chosen(stage)
  PROVE  Shown!ActivationObserved(Report(stage), Chosen(stage), Entries[stage + 1])
<1>1. CASE stage = 4
  <2>1. /\ Shown!Name = "injected-missing-artifact" /\ Report(stage) = "failed"
        /\ Entries[stage + 1] = previous /\ previous # Nil /\ Shown!Selected # Nil
        /\ Shown!Selected # previous
    BY <1>1, Moment, ScenarioFacts DEF Report
  <2> QED
    BY <2>1 DEF Shown!ActivationObserved
<1>2. CASE stage = 6
  <2>1. /\ Shown!Name = "no-feasible-model" /\ Report(stage) = "unchanged"
        /\ Entries[stage + 1] = previous /\ Shown!Selected = Nil /\ Chosen(stage) = Nil
    BY <1>2, Moment, ScenarioFacts DEF Report
  <2> QED
    BY <2>1 DEF Shown!ActivationObserved
<1>3. CASE stage \notin {4, 6}
  <2>1. /\ Shown!Name # "injected-missing-artifact" /\ Shown!Name # "no-feasible-model"
        /\ Report(stage) = "published" /\ Shown!Selected # Nil
        /\ Chosen(stage) = Shown!Selected /\ Entries[stage + 1] = Shown!Selected
    BY <1>3, Moment, ScenarioFacts DEF Report
  <2> QED
    BY <2>1 DEF Shown!ActivationObserved, Shown!Allowed
<1> QED
  BY <1>1, <1>2, <1>3

\* What such a report leaves: the evidence of the activation, and nothing else of it.
LEMMA Reporting ==
  ASSUME DemoInv, rPc \in Offering,
         Shown!Report(Report(stage), Chosen(stage), Entries[stage + 1])
  PROVE  /\ status' = Report(stage) /\ evidence'.activation
         /\ evidence' \in [activation : BOOLEAN, frame : BOOLEAN, invalid : BOOLEAN]
         /\ evidence'.frame = evidence.frame /\ evidence'.invalid = evidence.invalid
<1>1. stage \in 1..7 /\ previous = Entries[stage] /\ rPreview.selected = Chosen(stage)
      /\ evidence \in [activation : BOOLEAN, frame : BOOLEAN, invalid : BOOLEAN]
  BY DEF DemoInv, DemoType, StagesInv
<1> DEFINE observed == Shown!ActivationObserved(Report(stage), Chosen(stage), Entries[stage + 1])
<1>2. observed
  BY <1>1, ReportIsObserved
<1>3. status' = Report(stage) /\ evidence' = [evidence EXCEPT !.activation = observed]
  BY DEF Shown!Report
<1> HIDE DEF observed
<1>4. (observed <=> TRUE) /\ observed \in BOOLEAN
  BY <1>2 DEF observed, Shown!ActivationObserved
<1> QED
  BY <1>1, <1>3, <1>4

\* A turn of the task that reports nothing, or what the stage is about.
LEMMA TaskTurnInv ==
  ASSUME DemoInv, rPc \in Shown!Suspended \ {"cleanup"}, rTask \in {"created", "awaiting"},
         rTask' \in {"awaiting", "done", "raised"},
         rLoader' \in {"idle", "queued"}, rTask' # "awaiting" <=> rLoader' = "idle",
         rTask' # "done" => UNCHANGED <<status, evidence>> /\ Chosen(stage) # Nil,
         rTask' = "done" => /\ Shown!Report(Report(stage), Chosen(stage), Entries[stage + 1])
                            /\ rActive' = Entries[stage + 1],
         rTask' = "awaiting" => rActive' = rActive,
         rActive' \in {rActive, Chosen(stage)},
         UNCHANGED <<stage, rPc, frame, rPreview, previous, rCaptured, admission, scenes,
                     rHidden, timely, tally>>
  PROVE  DemoInv'
<1>1. /\ rPc \in Offering /\ rPc \notin {"leave", "begin"} /\ stage \in 1..7
      /\ status = "pending" /\ ~evidence.activation /\ rActive = previous
      /\ Chosen(stage) \in Refs
  BY ScenarioFacts DEF Shown!Suspended, Offering, DemoInv, StagesInv, TransitionInv
<1>2. /\ evidence' \in [activation : BOOLEAN, frame : BOOLEAN, invalid : BOOLEAN]
      /\ evidence'.frame = evidence.frame /\ evidence'.invalid = evidence.invalid
      /\ rTask' = "done" => status' = Report(stage) /\ evidence'.activation
      /\ rTask' # "done" => status' = status /\ evidence' = evidence
  BY <1>1, Reporting DEF DemoInv, DemoType
<1>3. DemoType'
  BY <1>1, <1>2 DEF DemoInv, DemoType, Report
<1>4. StagesInv'
  BY <1>1 DEF DemoInv, StagesInv, Offering
<1>5. TransitionInv'
  BY <1>1, <1>2 DEF DemoInv, TransitionInv, Offering
<1>6. FramesInv'
  BY <1>1, <1>2 DEF DemoInv, FramesInv, Offering
<1>7. VerdictsInv'
  BY <1>1, <1>2 DEF DemoInv, VerdictsInv, Over, Offering
<1>8. CoverInv'
  BY <1>1 DEF DemoInv, CoverInv, Covered, Offered
<1> QED
  BY <1>3, <1>4, <1>5, <1>6, <1>7, <1>8 DEF DemoInv

LEMMA TaskStartsInv ==
  ASSUME Frames \in Nat \ {0}, Inputs \in Nat \ {0}, DemoInv, Shown!TaskStarts PROVE DemoInv'
<1> DEFINE decided == Shown!Preview(Shown!Policies, rActive, Shown!Battery).selected
<1>1. /\ rPc \in Shown!Suspended \ {"cleanup"} /\ rTask = "created"
      /\ UNCHANGED <<stage, rPc, frame, rPreview, previous, rActive, rCaptured, admission,
                     scenes, rHidden, timely, tally>>
  BY DEF Shown!TaskStarts
<1>2. IF decided = Nil \/ Shown!SameModel(rActive, decided)
      THEN /\ rTask' = IF Shown!Fault THEN "raised" ELSE "done"
           /\ IF Shown!Fault THEN UNCHANGED <<status, evidence>>
              ELSE Shown!Report("unchanged", decided, rActive)
           /\ UNCHANGED rLoader
      ELSE rTask' = "awaiting" /\ rLoader' = "queued" /\ UNCHANGED <<status, evidence>>
  BY Zenon DEF Shown!TaskStarts
<1>3. /\ stage \in 1..7 /\ rPc \in Offering /\ rActive = Entries[stage] /\ rLoader = "idle"
  BY <1>1 DEF DemoInv, StagesInv, TransitionInv, Shown!Suspended, Offering
<1>4. decided = Chosen(stage)
  BY <1>3, StageDecision
<1> HIDE DEF decided
<1>5. ~Shown!SameModel(rActive, decided) \/ decided = Nil
  BY <1>3, <1>4, ScenarioFacts, SameSelector, ModelsDiffer
<1>6. CASE stage = 6
  <2>1. /\ decided = Nil /\ ~Shown!Fault /\ Report(stage) = "unchanged"
        /\ rActive = Entries[stage + 1]
    BY <1>3, <1>4, <1>6, Moment, ScenarioFacts DEF Report
  <2>2. /\ rTask' = "done" /\ rLoader' = "idle"
        /\ Shown!Report(Report(stage), Chosen(stage), Entries[stage + 1])
    BY <1>2, <1>3, <1>4, <2>1
  <2> QED
    BY <1>1, <2>1, <2>2, TaskTurnInv
<1>7. CASE stage # 6
  <2>1. rTask' = "awaiting" /\ rLoader' = "queued" /\ UNCHANGED <<status, evidence>>
        /\ Chosen(stage) # Nil
    BY <1>2, <1>3, <1>4, <1>5, <1>7, ScenarioFacts
  <2> QED
    BY <1>1, <2>1, TaskTurnInv
<1> QED
  BY <1>6, <1>7

LEMMA TransitionResumesInv ==
  ASSUME Frames \in Nat \ {0}, Inputs \in Nat \ {0}, DemoInv, Shown!TaskResumes PROVE DemoInv'
<1>1. /\ rPc \in Shown!Suspended /\ rTask = "awaiting"
      /\ rLoader \in {"ok", "failed", "unavailable"}
      /\ rActive' = IF rLoader = "ok" THEN Shown!Selected ELSE rActive
      /\ rTask' = IF rLoader = (IF Shown!Fault THEN "unavailable" ELSE "ok")
                  THEN "done" ELSE "raised"
      /\ rLoader' = "idle"
      /\ UNCHANGED <<stage, rPc, frame, rPreview, previous, rCaptured, admission, scenes,
                     rHidden, timely, tally>>
  BY DEF Shown!TaskResumes
<1>2. /\ rLoader = "ok" /\ ~Shown!Fault => Shown!Report("published", Shown!Selected, rActive')
      /\ rLoader = "unavailable" => Shown!Report("failed", Shown!Selected, rActive)
      /\ ~(rLoader = "ok" /\ ~Shown!Fault) /\ rLoader # "unavailable" =>
           UNCHANGED <<status, evidence>>
  BY DEF Shown!TaskResumes
<1>3. rPc \in Shown!Suspended \ {"cleanup"} /\ rPc \in Offering
  BY <1>1 DEF DemoInv, TransitionInv, Shown!Suspended, Offering
<1>4. /\ stage \in 1..7 /\ Shown!Selected = Chosen(stage) /\ Chosen(stage) # Nil
      /\ rLoader = "unavailable" => stage = 4
      /\ rActive = Entries[stage] /\ (Shown!Fault <=> stage = 4) /\ stage # 6
  BY <1>1, <1>3, Moment, ScenarioFacts DEF DemoInv, StagesInv, TransitionInv
<1>5. CASE rLoader = "ok" /\ stage # 4
  <2>1. /\ rTask' = "done" /\ rActive' = Chosen(stage) /\ Report(stage) = "published"
        /\ Entries[stage + 1] = Chosen(stage)
    BY <1>1, <1>4, <1>5, ScenarioFacts DEF Report
  <2>2. Shown!Report(Report(stage), Chosen(stage), Entries[stage + 1])
    BY <1>2, <1>4, <1>5, <2>1
  <2> QED
    BY <1>1, <1>3, <2>1, <2>2, TaskTurnInv
<1>6. CASE rLoader = "unavailable"
  <2>1. /\ rTask' = "done" /\ rActive' = rActive /\ Report(stage) = "failed"
        /\ Entries[stage + 1] = rActive
    BY <1>1, <1>4, <1>6, ScenarioFacts DEF Report
  <2>2. Shown!Report(Report(stage), Chosen(stage), Entries[stage + 1])
    BY <1>2, <1>4, <1>6, <2>1
  <2> QED
    BY <1>1, <1>3, <2>1, <2>2, TaskTurnInv
<1>7. CASE rLoader # "unavailable" /\ ~(rLoader = "ok" /\ stage # 4)
  <2>1. rTask' = "raised" /\ UNCHANGED <<status, evidence>>
        /\ rActive' \in {rActive, Chosen(stage)}
    BY <1>1, <1>2, <1>4, <1>7
  <2> QED
    BY <1>1, <1>3, <1>4, <2>1, TaskTurnInv
<1> QED
  BY <1>5, <1>6, <1>7

LEMMA LoaderInv ==
  ASSUME Frames \in Nat \ {0}, Inputs \in Nat \ {0}, DemoInv, Shown!Threads PROVE DemoInv'
<1>1. /\ rLoader \in {"queued", "running"}
      /\ UNCHANGED <<stage, rPc, frame, rPreview, previous, status, rTask, rActive, rCaptured,
                     admission, evidence, scenes, rHidden, timely, tally>>
  BY DEF Shown!Threads, Shown!LoaderStarts, Shown!LoaderEnds
<1>2. /\ rLoader' \in {"idle", "running", "ok", "failed", "unavailable"}
      /\ rLoader' = "unavailable" => rHidden
      /\ rLoader' = "idle" => rTask # "awaiting"
      /\ rLoader = "queued" => rLoader' # "idle"
      /\ rLoader = "running" /\ rTask # "awaiting" => rLoader' = "idle"
  BY DEF Shown!Threads, Shown!LoaderStarts, Shown!LoaderEnds
<1>3. rPc # "begin"
  BY <1>1 DEF DemoInv, StagesInv
<1>4. DemoType'
  BY <1>1, <1>2 DEF DemoInv, DemoType
<1>5. StagesInv'
  BY <1>1, <1>3 DEF DemoInv, StagesInv, Offering
<1>6. TransitionInv'
  <2>1. rHidden => stage = 4
    BY DEF DemoInv, StagesInv
  <2> QED
    BY <1>1, <1>2, <2>1 DEF DemoInv, TransitionInv, Offering
<1>7. FramesInv'
  BY <1>1 DEF DemoInv, FramesInv, Offering
<1>8. VerdictsInv'
  BY <1>1 DEF DemoInv, VerdictsInv, Over, Offering
<1>9. CoverInv'
  BY <1>1 DEF DemoInv, CoverInv, Covered, Offered
<1> QED
  BY <1>4, <1>5, <1>6, <1>7, <1>8, <1>9 DEF DemoInv

LEMMA AbandonInv ==
  ASSUME Frames \in Nat \ {0}, Inputs \in Nat \ {0}, DemoInv, Shown!Abandon PROVE DemoInv'
<1>1. /\ rPc \in Shown!Suspended \ {"cleanup"} /\ rPc' = "cleanup"
      /\ rTask' = IF rTask \in {"created", "awaiting"} THEN "cancelled" ELSE rTask
      /\ rLoader' \in {"idle", "running"}
      /\ UNCHANGED <<stage, frame, rPreview, previous, status, rActive, rCaptured, admission,
                     evidence, scenes, rHidden, timely, tally>>
  BY DEF Shown!Abandon
<1>2. DemoType'
  BY <1>1 DEF DemoInv, DemoType
<1>3. StagesInv'
  BY <1>1 DEF DemoInv, StagesInv, Offering
<1>4. TransitionInv' /\ FramesInv'
  BY <1>1 DEF TransitionInv, FramesInv, Offering
<1>5. VerdictsInv'
  BY <1>1 DEF DemoInv, VerdictsInv, Over, Offering, Shown!Suspended
<1>6. CoverInv'
  BY <1>1 DEF DemoInv, CoverInv, Covered, Offered, Shown!Suspended
<1> QED
  BY <1>2, <1>3, <1>4, <1>5, <1>6 DEF DemoInv

LEMMA FinallyInv ==
  ASSUME Frames \in Nat \ {0}, Inputs \in Nat \ {0}, DemoInv, Shown!Cleanup PROVE DemoInv'
<1>1. /\ rPc = "cleanup" /\ rPc' = "closed" /\ rHidden' = FALSE
      /\ UNCHANGED <<stage, frame, rPreview, previous, status, rTask, rLoader, rActive,
                     rCaptured, admission, evidence, scenes, timely, tally>>
  BY DEF Shown!Cleanup
<1>2. DemoType'
  <2>1. rHidden' \in BOOLEAN
    BY <1>1
  <2> QED
    BY <1>1, <2>1 DEF DemoInv, DemoType
<1>3. StagesInv'
  BY <1>1 DEF DemoInv, StagesInv, Offering
<1>4. TransitionInv' /\ FramesInv'
  BY <1>1 DEF DemoInv, TransitionInv, FramesInv, Offering
<1>5. VerdictsInv'
  BY <1>1 DEF DemoInv, VerdictsInv, Over, Offering
<1>6. CoverInv'
  BY <1>1 DEF DemoInv, CoverInv, Covered, Offered
<1> QED
  BY <1>2, <1>3, <1>4, <1>5, <1>6 DEF DemoInv

LEMMA DemoStepInv ==
  ASSUME Frames \in Nat \ {0}, Inputs \in Nat \ {0}
  PROVE  DemoInv /\ [Shown!Next]_(Shown!vars) => DemoInv'
<1> SUFFICES ASSUME DemoInv, [Shown!Next]_(Shown!vars) PROVE DemoInv'
  OBVIOUS
<1>1. CASE Shown!Main
  BY <1>1, BeginStageInv, DeclineInv, FrameAdmitInv, InferReturnsInv, PaceInv, AwaitTaskInv,
     EndStageInv, FinallyInv DEF Shown!Main
<1>2. CASE Shown!Threads
  BY <1>2, LoaderInv
<1>3. CASE Shown!Task
  BY <1>3, TaskStartsInv, TransitionResumesInv DEF Shown!Task
<1>4. CASE Shown!Abandon
  BY <1>4, AbandonInv
<1>5. CASE UNCHANGED Shown!vars
  BY <1>5 DEF Shown!vars, DemoInv, DemoType, StagesInv, TransitionInv, FramesInv, VerdictsInv,
              Over, CoverInv, Covered, Offered
<1> QED
  BY <1>1, <1>2, <1>3, <1>4, <1>5 DEF Shown!Next

\* The remainders of as many successive numbers as there are inputs are all of them.
LEMMA EveryRemainder ==
  ASSUME NEW k \in Nat \ {0}, NEW a \in Nat, NEW i \in 0..(k - 1)
  PROVE  \E n \in 0..(k - 1) : (a + n) % k = i
<1> DEFINE q == a \div k
           r == a % k
<1>1. q \in Nat /\ r \in 0..(k - 1) /\ a = k * q + r
  OBVIOUS
<1>2. ASSUME NEW m \in Nat PROVE (k * m + i) % k = i
  <2> DEFINE x == k * m + i
  <2>0. x \in Nat
    OBVIOUS
  <2> HIDE DEF x
  <2>1. x \div k \in Int /\ x % k \in 0..(k - 1) /\ x = k * (x \div k) + (x % k)
    BY <2>0
  <2>2. ASSUME NEW d \in Int, NEW s \in 0..(k - 1), k * d + s = i PROVE s = i
    <3>1. CASE d >= 1
      <4>1. k * d >= k
        BY <3>1
      <4> QED
        BY <2>2, <4>1
    <3>2. CASE d <= -1
      <4>1. k * d <= -k
        BY <3>2
      <4> QED
        BY <2>2, <4>1
    <3>3. CASE d = 0
      BY <2>2, <3>3
    <3> QED
      BY <3>1, <3>2, <3>3
  <2>3. ASSUME NEW d \in Int, NEW s \in 0..(k - 1), k * m + i = k * d + s PROVE s = i
    <3>1. k * (d - m) + s = i
      BY <2>3
    <3> QED
      BY <2>2, <3>1
  <2>4. x % k = i
    BY <2>1, <2>3 DEF x
  <2> QED
    BY <2>4 DEF x
<1> HIDE DEF q, r
<1>3. CASE i >= r
  <2>1. i - r \in 0..(k - 1) /\ a + (i - r) = k * q + i
    BY <1>1, <1>3
  <2> QED
    BY <1>1, <1>2, <2>1
<1>4. CASE i < r
  <2>1. i - r + k \in 0..(k - 1) /\ a + (i - r + k) = k * (q + 1) + i /\ q + 1 \in Nat
    BY <1>1, <1>4
  <2>2. (a + (i - r + k)) % k = i
    BY <1>2, <2>1
  <2> QED
    BY <2>1, <2>2
<1> QED
  BY <1>1, <1>3, <1>4

\* The demonstration's records, its transition and the slot agree at every place of
\* the coroutine, for any number of frames and inputs (run.py 120-330).
THEOREM DemoInvariance == ASSUME Shown!FramesAssumption PROVE Shown!Spec => []DemoInv
<1>1. Frames \in Nat \ {0} /\ Inputs \in Nat \ {0}
  BY DEF Shown!FramesAssumption
<1>2. Shown!Init => DemoInv
  BY <1>1, DemoInitInv
<1>3. DemoInv /\ [Shown!Next]_(Shown!vars) => DemoInv'
  BY <1>1, DemoStepInv
<1> QED
  BY <1>2, <1>3, PTL DEF Shown!Spec

\* When a frame first counts as the scene's, the stage's transition is over, the slot
\* holds what the scene is about and the frame was served by it (run.py 149-211).
THEOREM EvidenceIsSound == ASSUME Shown!FramesAssumption PROVE Shown!Spec => Shown!EvidenceIsTrue
<1>1. ASSUME DemoInv, [Shown!Next]_(Shown!vars), ~evidence.frame, evidence'.frame
      PROVE  Shown!SceneIsReal
  <2>0. evidence \in [activation : BOOLEAN, frame : BOOLEAN, invalid : BOOLEAN]
        /\ stage \in 1..7
    BY <1>1 DEF DemoInv, DemoType, StagesInv
  <2>1. PICK outcome, served, matches :
          /\ rPc \in {"offer", "inferring"}
          /\ outcome = "ok" => served = rCaptured
          /\ Shown!ObserveFrame(outcome, served, matches)
    <3>1. CASE Shown!Decline
      <4>1. Shown!ObserveFrame(IF Shown!Selected = Nil THEN "abstained" ELSE "waiting", Nil, FALSE)
        BY <3>1 DEF Shown!Decline
      <4>2. PICK o, m : o # "ok" /\ m = FALSE /\ Shown!ObserveFrame(o, Nil, m)
        <5>1. CASE Shown!Selected = Nil
          BY <4>1, <5>1
        <5>2. CASE Shown!Selected # Nil
          BY <4>1, <5>2
        <5> QED
          BY <5>1, <5>2
      <4> QED
        BY <3>1, <4>2 DEF Shown!Decline
    <3>2. CASE \E matches \in BOOLEAN : Shown!InferReturns(matches)
      <4>1. PICK m \in BOOLEAN : rPc = "inferring" /\ Shown!ObserveFrame("ok", rCaptured, m)
        BY <3>2 DEF Shown!InferReturns
      <4> QED
        BY <4>1
    <3>3. CASE Shown!BeginStage
      BY <1>1, <3>3 DEF Shown!BeginStage, Shown!NoEvidence
    <3>4. CASE Shown!Task
      BY <1>1, <2>0, <3>4 DEF Shown!Task, Shown!TaskStarts, Shown!TaskResumes, Shown!Report
    <3>5. CASE UNCHANGED evidence
      BY <1>1, <3>5
    <3> QED
      BY <1>1, <3>1, <3>2, <3>3, <3>4, <3>5
         DEF Shown!Next, Shown!Main, Shown!Threads, Shown!LoaderStarts, Shown!LoaderEnds,
             Shown!Admit, Shown!Pace, Shown!AwaitTask, Shown!EndStage, Shown!Cleanup,
             Shown!Abandon, Shown!vars
  <2>2. /\ Shown!SceneObserved(outcome, served, matches, admission)
        /\ evidence.activation \/ Shown!Name = "no-feasible-model"
    BY <1>1, <2>0, <2>1 DEF Shown!ObserveFrame
  <2>3. /\ rPc \in Offering /\ previous = Entries[stage]
        /\ Shown!Selected = Chosen(stage) /\ (rHidden <=> stage = 4)
        /\ rTask \in {"created", "awaiting", "done", "raised"}
    BY <1>1, <2>0, <2>1, Moment DEF DemoInv, StagesInv, TransitionInv, Offering
  <2>4. CASE stage = 6
    <3>1. Shown!Preview(Shown!Policies, rActive, Shown!Battery).selected = Nil
      BY <2>0, <2>4, StageDecision, ScenarioFacts
    <3>2. rActive = previous
      BY <1>1, <2>0, <2>3, <2>4, ScenarioFacts DEF DemoInv, TransitionInv
    <3> QED
      BY <2>0, <2>4, <3>1, <3>2, Moment DEF Shown!SceneIsReal
  <2>5. CASE stage # 6
    <3>1. /\ rTask = "done" /\ rActive = Entries[stage + 1] /\ served = rCaptured
          /\ outcome = "ok"
      BY <1>1, <2>0, <2>1, <2>2, <2>3, <2>5, Moment
         DEF DemoInv, TransitionInv, Shown!SceneObserved
    <3>2. CASE stage = 4
      <4>1. /\ Shown!Name = "injected-missing-artifact" /\ rActive = previous
            /\ rCaptured = previous /\ Shown!Selected # previous /\ rHidden
        BY <2>0, <2>2, <2>3, <3>1, <3>2, Moment, ScenarioFacts DEF Shown!SceneObserved
      <4> QED
        BY <3>1, <4>1 DEF Shown!SceneIsReal
    <3>3. CASE stage # 4
      <4>1. /\ Shown!Name # "injected-missing-artifact" /\ Shown!Name # "no-feasible-model"
            /\ rActive = Shown!Selected /\ rCaptured = Shown!Selected
        BY <2>0, <2>2, <2>3, <2>5, <3>1, <3>3, Moment, ScenarioFacts DEF Shown!SceneObserved
      <4> QED
        BY <3>1, <4>1 DEF Shown!SceneIsReal
    <3> QED
      BY <3>2, <3>3
  <2> QED
    BY <2>4, <2>5
<1>2. DemoInv /\ [Shown!Next]_(Shown!vars) =>
        [~evidence.frame /\ evidence'.frame => Shown!SceneIsReal]_(Shown!vars)
  BY <1>1
<1>3. Shown!Spec => []DemoInv
  BY DemoInvariance
<1> QED
  BY <1>2, <1>3, PTL DEF Shown!Spec, Shown!EvidenceIsTrue

\* A stage that misses had a wrong output or no frame after its transition, and so had
\* a run that is not complete; where two stages' frames are enough for every input,
\* none is left out for any other reason (run.py 260-269, 316-320).
THEOREM MissesAreExplained ==
  ASSUME Shown!FramesAssumption, Inputs <= 2 * Frames
  PROVE  Shown!Spec => []Shown!NoFalseMiss
<1>1. DemoInv => Shown!NoFalseMiss
  <2> SUFFICES ASSUME DemoInv PROVE Shown!NoFalseMiss
    OBVIOUS
  <2>1. Shown!StageMissIsExplained
    BY VerdictIsExplained DEF Shown!StageMissIsExplained
  <2>2. ASSUME rPc = "summary", ~tally.mismatched PROVE Shown!MissingInputs = {}
    <3>1. Covered = 2 * Frames
      BY <2>2 DEF DemoInv, StagesInv, Covered
    <3>2. ASSUME NEW i \in 0..(Inputs - 1) PROVE i \in tally.inputs
      <4>0. Inputs \in Nat \ {0} /\ 3 * Frames \in Nat
        BY DEF Shown!FramesAssumption
      <4>1. PICK n \in 0..(Inputs - 1) : (3 * Frames + n) % Inputs = i
        BY <4>0, EveryRemainder
      <4>2. n \in 0..(Covered - 1)
        BY <3>1 DEF Shown!FramesAssumption
      <4> QED
        BY <2>2, <4>1, <4>2 DEF DemoInv, CoverInv
    <3> QED
      BY <3>2 DEF Shown!MissingInputs
  <2>3. ASSUME rPc = "summary", ~tally.mismatched, ~Shown!complete PROVE tally.late
    <3>1. \A s \in 1..7 : Over(s)
      BY <2>3 DEF Over
    <3>2. scenes # 1..7
      BY <2>2, <2>3, SameSelector, PhasesType DEF Shown!complete
    <3> QED
      BY <2>3, <3>1, <3>2 DEF DemoInv, VerdictsInv
  <2> QED
    BY <2>1, <2>2, <2>3 DEF Shown!NoFalseMiss, Shown!RunMissIsExplained
<1>2. Shown!Spec => []DemoInv
  BY DemoInvariance
<1> QED
  BY <1>1, <1>2, PTL

\* The fault and the transition stay in their stage, frames are served by models the
\* battery allows, and exit status 0 is given to no run with a wrong output
\* (run.py 262-271, 289-330).
THEOREM DemoIsSound == ASSUME Shown!FramesAssumption PROVE Shown!Spec => []Shown!StageInv
<1>1. DemoInv => Shown!StageInv
  <2> SUFFICES ASSUME DemoInv PROVE Shown!StageInv
    OBVIOUS
  <2>1. DOMAIN Shown!Phases = 1..7
    BY SameSelector, PhasesType
  <2>2. Shown!TypeOK
    <3>1. scenes \subseteq DOMAIN Shown!Phases /\ stage \in DOMAIN Shown!Phases
      BY <2>1 DEF DemoInv, StagesInv, VerdictsInv
    <3>2. {previous, rActive, rCaptured} \subseteq Shown!Refs /\ frame \in 0..Frames
      BY SameSelector DEF DemoInv, DemoType, StagesInv
    <3> QED
      BY <3>1, <3>2 DEF DemoInv, DemoType, Shown!TypeOK, Shown!Suspended
  <2>3. Shown!FaultStaysInStage
    BY Moment, ScenarioFacts
       DEF DemoInv, DemoType, StagesInv, TransitionInv, Offering, Shown!FaultStaysInStage
  <2>4. Shown!FeasibleFrames
    BY SameSelector, Moment DEF DemoInv, StagesInv, FramesInv, Shown!FeasibleFrames
  <2>5. Shown!CompleteIsClean
    BY <2>1 DEF DemoInv, VerdictsInv, Offering, Shown!CompleteIsClean, Shown!complete
  <2> QED
    BY <2>2, <2>3, <2>4, <2>5 DEF Shown!StageInv
<1>2. Shown!Spec => []DemoInv
  BY DemoInvariance
<1> QED
  BY <1>1, <1>2, PTL

-----------------------------------------------------------------------------
(* Churn: the sessions that churn.py counts.  Its executor's only thread   *)
(* lets go of what it holds before it takes the next call, so the empty    *)
(* call of the barrier leaves nothing but the owner's reference.           *)

CONSTANT Steps
VARIABLES plan, at, step, models, owner, call, holds

Measured == INSTANCE Churn

\* Sessions there are before and after a step's reconciliation.
Before == IF plan.strategy = "swapping" THEN step ELSE IF step = 0 THEN 0 ELSE 1
After == IF plan.strategy = "swapping" THEN step + 1 ELSE 1

CallType ==
  /\ plan \in [strategy : Measured!Strategies, backend : Measured!Backends]
  /\ call \in [op : {"none", "load", "run", "nothing"},
               state : {"none", "queued", "started", "ok", "failed"},
               by : {0, 1}, result : Nat]
  /\ holds \in [{1} -> SUBSET Nat]
  /\ models \in Seq({0, 1}) /\ owner \in Nat
  /\ step \in Nat /\ step < Steps
  /\ at \in {"reconcile", "loading", "infer", "running", "barrier", "draining", "sample",
             "dropped", "failed", "done"}

\* A call is awaited where its kind is made, and by one thread once it has started.
CallInv ==
  /\ at = "loading" => call.op = "load"
  /\ at = "running" => call.op = "run"
  /\ at = "draining" => call.op = "nothing" /\ call.state # "failed"
  /\ at \in {"loading", "running", "draining"} => call.state # "none"
  /\ at \notin {"loading", "running", "draining"} => call.op = "none" /\ call.state = "none"
  /\ call.state = "started" => call.by = 1
  /\ call.result # 0 => call.op = "load" /\ call.state = "ok"

\* The owner has the last session, each for its step's model.
OwnerInv ==
  /\ \A i \in 1..Len(models) : models[i] = Measured!Model(i - 1)
  /\ at = "reconcile" => Len(models) = Before /\ owner = Before
  /\ at = "loading" => /\ owner = Before /\ After = Before + 1
                       /\ Len(models) = IF call.state = "ok" THEN After ELSE Before
                       /\ call.state = "ok" => call.result = After
  /\ at \in {"infer", "running", "barrier", "draining", "sample"} =>
       Len(models) = After /\ owner = After
  /\ at \in {"dropped", "done"} => owner = 0
  /\ Len(models) <= After /\ owner <= Len(models)

\* What the thread still refers to: one session, the newest if it is on its way,
\* and none from the barrier on.
HoldsInv ==
  /\ holds[1] = {} \/ \E s \in 1..Len(models) : holds[1] = {s}
  /\ call.result # 0 => holds[1] \subseteq {call.result}
  /\ at \in {"sample", "reconcile", "dropped", "done"} => holds[1] = {}
  /\ at = "loading" /\ call.state # "ok" => holds[1] = {}
  /\ at = "draining" /\ call.state # "queued" => holds[1] = {}

SessionsInv == CallType /\ CallInv /\ OwnerInv /\ HoldsInv

LEMMA ModelsAlternate ==
  ASSUME plan \in [strategy : Measured!Strategies, backend : Measured!Backends]
  PROVE  /\ \A n \in Nat : Measured!Model(n) \in {0, 1}
         /\ plan.strategy = "swapping" => \A n \in Nat : Measured!Model(n + 1) # Measured!Model(n)
         /\ plan.strategy # "swapping" => \A n, m \in Nat : Measured!Model(n) = Measured!Model(m)
<1>1. plan.strategy \in {"fixed-small", "fixed-large", "swapping"}
  BY DEF Measured!Strategies
<1>2. \A n \in Nat : n % 2 \in {0, 1} /\ (n + 1) % 2 # n % 2
  OBVIOUS
<1>3. CASE plan.strategy = "swapping"
  BY <1>2, <1>3 DEF Measured!Model
<1>4. CASE plan.strategy = "fixed-small"
  BY <1>4 DEF Measured!Model
<1>5. CASE plan.strategy = "fixed-large"
  BY <1>5 DEF Measured!Model
<1> QED
  BY <1>1, <1>3, <1>4, <1>5

LEMMA ChurnInitInv == ASSUME Steps \in Nat \ {0}, Measured!Init PROVE SessionsInv
<1> USE DEF Measured!Init, Measured!Idle, Measured!None, Measured!Workers
<1>1. CallType
  BY EmptySeq DEF CallType
<1>2. CallInv /\ HoldsInv
  BY DEF CallInv, HoldsInv
<1>3. OwnerInv
  <2>1. Len(models) = 0
    BY EmptySeq
  <2> QED
    BY <2>1 DEF OwnerInv, Before, After
<1> QED
  BY <1>1, <1>2, <1>3 DEF SessionsInv

\* The coroutine submits a call, or has a session that will do.
LEMMA AwaitInv ==
  ASSUME SessionsInv, Measured!Reconcile \/ Measured!Infer \/ Measured!Barrier
  PROVE  SessionsInv'
<1> USE DEF Measured!Reconcile, Measured!Infer, Measured!Barrier, Measured!Await
<1>1. /\ UNCHANGED <<plan, step, models, owner, holds>>
      /\ at \in {"reconcile", "infer", "barrier"}
      /\ \/ /\ at' = "infer" /\ at = "reconcile" /\ call' = call /\ ~Measured!Replaces
         \/ /\ \E op \in {"load", "run", "nothing"} :
                 /\ call' = [op |-> op, state |-> "queued", by |-> 0, result |-> 0]
                 /\ \/ op = "load" /\ at = "reconcile" /\ at' = "loading" /\ Measured!Replaces
                    \/ op = "run" /\ at = "infer" /\ at' = "running"
                    \/ op = "nothing" /\ at = "barrier" /\ at' = "draining"
  BY DEF Measured!Idle, Measured!None
<1>2. CallType'
  BY <1>1 DEF SessionsInv, CallType
<1>3. CallInv'
  BY <1>1 DEF SessionsInv, CallInv
<1>4. at = "reconcile" => (Measured!Replaces <=> After = Before + 1) /\ (~Measured!Replaces <=> After = Before)
  <2> SUFFICES ASSUME at = "reconcile"
               PROVE  IF Measured!Replaces THEN After = Before + 1 ELSE After = Before
    BY DEF SessionsInv, CallType, After, Before
  <2>1. /\ owner = Before /\ Len(models) = Before /\ step \in Nat
        /\ plan.backend \in {"temms", "direct"}
        /\ \A i \in 1..Len(models) : models[i] = Measured!Model(i - 1)
    BY DEF SessionsInv, CallType, OwnerInv, Measured!Backends
  <2>2. CASE owner = 0
    <3>1. step = 0
      BY <2>1, <2>2 DEF Before
    <3> QED
      BY <2>1, <2>2, <3>1 DEF Measured!Replaces, Measured!None, Before, After
  <2>3. CASE owner # 0
    <3>1. step # 0 /\ models[owner] = Measured!Model(owner - 1)
      BY <2>1, <2>3 DEF Before
    <3>2. CASE plan.strategy = "swapping"
      <4>1. owner - 1 \in Nat /\ owner = step /\ (owner - 1) + 1 = step
        BY <2>1, <3>1, <3>2 DEF Before
      <4>2. Measured!Model(step) # Measured!Model(owner - 1)
        BY <3>2, <4>1, ModelsAlternate DEF SessionsInv, CallType
      <4>3. Measured!Replaces
        BY <2>1, <2>3, <3>1, <3>2, <4>2 DEF Measured!Replaces, Measured!None
      <4> QED
        BY <2>1, <3>2, <4>3 DEF Before, After
    <3>3. CASE plan.strategy # "swapping"
      <4>1. owner - 1 \in Nat
        BY <2>1, <3>1, <3>3 DEF Before
      <4>2. Measured!Model(step) = Measured!Model(owner - 1)
        BY <2>1, <3>3, <4>1, ModelsAlternate DEF SessionsInv, CallType
      <4>3. ~Measured!Replaces
        BY <2>1, <2>3, <3>1, <3>3, <4>2 DEF Measured!Replaces, Measured!None
      <4> QED
        BY <3>1, <3>3, <4>3 DEF Before, After
    <3> QED
      BY <3>2, <3>3
  <2> QED
    BY <2>2, <2>3
<1>5. OwnerInv'
  BY <1>1, <1>4 DEF SessionsInv, CallType, OwnerInv, Before, After, Measured!Model
<1>6. HoldsInv'
  BY <1>1 DEF SessionsInv, HoldsInv
<1> QED
  BY <1>2, <1>3, <1>5, <1>6 DEF SessionsInv

\* The thread takes a call, carries it out and lets go.
LEMMA ThreadInv ==
  ASSUME SessionsInv,
         \/ Measured!Ran \/ Measured!Raises
         \/ \E w \in Measured!Workers : Measured!Take(w) \/ Measured!Release(w)
  PROVE  SessionsInv'
<1> USE DEF Measured!Workers, Measured!None
<1>1. /\ UNCHANGED <<plan, at, step, models, owner>>
      /\ call'.op = call.op /\ call'.result = call.result
      /\ \/ /\ call.state = "queued" /\ holds[1] = {} /\ call'.state = "started" /\ call'.by = 1
            /\ holds' = [holds EXCEPT ![1] = IF call.op = "run" THEN {owner} ELSE {}]
         \/ /\ call.state = "started" /\ call.op # "load" /\ call'.state = "ok" /\ holds' = holds
            /\ call'.by = call.by
         \/ /\ call.state = "started" /\ call.op # "nothing" /\ call'.state = "failed"
            /\ holds' = holds /\ call'.by = call.by
         \/ call' = call /\ holds' = [holds EXCEPT ![1] = {}]
  BY DEF Measured!Ran, Measured!Raises, Measured!Take, Measured!Release, SessionsInv, CallType
<1>2. /\ holds' \in [{1} -> SUBSET Nat]
      /\ \/ holds'[1] = {} \/ holds'[1] = holds[1]
         \/ holds'[1] = {owner} /\ call.op = "run" /\ call.state = "queued"
      /\ call.state = "queued" /\ call.op # "run" => holds'[1] = {}
  BY <1>1 DEF SessionsInv, CallType
<1>3. CallType'
  <2>1. call' \in [op : {"none", "load", "run", "nothing"},
                   state : {"none", "queued", "started", "ok", "failed"},
                   by : {0, 1}, result : Nat]
    BY DEF Measured!Ran, Measured!Raises, Measured!Take, Measured!Release, SessionsInv, CallType
  <2> QED
    BY <1>1, <1>2, <2>1 DEF SessionsInv, CallType
<1>4. CallInv'
  BY <1>1 DEF SessionsInv, CallInv
<1>5. OwnerInv'
  BY <1>1 DEF SessionsInv, CallInv, OwnerInv, Before, After, Measured!Model
<1>6. HoldsInv'
  <2>1. call.op = "run" => at = "running"
    BY DEF SessionsInv, CallInv
  <2>2. at = "running" => owner \in 1..Len(models)
    BY DEF SessionsInv, CallType, OwnerInv, After
  <2> QED
    BY <1>1, <1>2, <2>1, <2>2 DEF SessionsInv, CallType, CallInv, HoldsInv
<1> QED
  BY <1>3, <1>4, <1>5, <1>6 DEF SessionsInv

\* A load hands its session over while the thread has it too.
LEMMA LoadedInv == ASSUME SessionsInv, Measured!Loaded PROVE SessionsInv'
<1> DEFINE n == Len(models) + 1
<1>1. /\ UNCHANGED <<plan, at, step, owner>>
      /\ call.state = "started" /\ call.op = "load" /\ at = "loading" /\ call.by = 1
      /\ call' = [call EXCEPT !.state = "ok", !.result = n]
      /\ holds' = [holds EXCEPT ![1] = {n}]
      /\ models' = Append(models, Measured!Model(step))
  BY DEF Measured!Loaded, SessionsInv, CallInv, CallType
<1>2. Measured!Model(step) \in {0, 1} /\ models \in Seq({0, 1}) /\ Len(models) \in Nat
      /\ step \in Nat
  BY ModelsAlternate, LenProperties DEF SessionsInv, CallType
<1>3. /\ models' \in Seq({0, 1}) /\ Len(models') = n
      /\ \A i \in 1..Len(models) : models'[i] = models[i]
      /\ models'[n] = Measured!Model(step)
  BY <1>1, <1>2, AppendProperties
<1>4. /\ Len(models) = Before /\ owner = Before /\ After = Before + 1
  BY <1>1 DEF SessionsInv, OwnerInv
<1>5. CallType'
  <2>1. n \in Nat
    BY <1>2
  <2> HIDE DEF n
  <2>2. call' \in [op : {"none", "load", "run", "nothing"},
                   state : {"none", "queued", "started", "ok", "failed"},
                   by : {0, 1}, result : Nat]
    BY <1>1, <2>1 DEF SessionsInv, CallType
  <2>3. holds' \in [{1} -> SUBSET Nat]
    BY <1>1, <2>1 DEF SessionsInv, CallType
  <2> QED
    BY <1>1, <1>3, <2>2, <2>3 DEF SessionsInv, CallType
<1>6. call'.op = "load" /\ call'.state = "ok" /\ call'.by = 1 /\ call'.result = n /\ holds'[1] = {n}
  BY <1>1 DEF SessionsInv, CallType
<1>7. CallInv'
  BY <1>1, <1>6 DEF SessionsInv, CallInv
<1>8. OwnerInv'
  <2>1. Measured!Model(step) = Measured!Model(n - 1)
    <3>1. CASE plan.strategy = "swapping"
      BY <1>2, <1>4, <3>1 DEF Before
    <3>2. CASE plan.strategy # "swapping"
      BY <1>2, <3>2, ModelsAlternate DEF SessionsInv, CallType
    <3> QED
      BY <3>1, <3>2
  <2>2. \A i \in 1..n : models'[i] = Measured!Model(i - 1)
    <3>1. ASSUME NEW i \in 1..n PROVE models'[i] = Measured!Model(i - 1)
      <4>1. CASE i = n
        BY <1>3, <2>1, <4>1
      <4>2. CASE i # n
        <5>1. i \in 1..Len(models)
          BY <1>2, <4>2
        <5> QED
          BY <1>3, <5>1 DEF SessionsInv, OwnerInv
      <4> QED
        BY <4>1, <4>2
    <3> QED
      BY <3>1
  <2>3. \A k \in Nat : Measured!Model(k)' = Measured!Model(k)
    BY <1>1 DEF Measured!Model
  <2>4. After' = After /\ Before' = Before
    BY <1>1 DEF After, Before
  <2>5. \A i \in 1..Len(models') : models'[i] = Measured!Model(i - 1)'
    BY <1>2, <1>3, <2>2, <2>3
  <2>6. owner' <= Len(models') /\ Len(models') <= After'
    BY <1>1, <1>2, <1>3, <1>4, <2>4
  <2> QED
    BY <1>1, <1>3, <1>4, <1>6, <2>4, <2>5, <2>6 DEF OwnerInv
<1>9. HoldsInv'
  <2>1. n \in 1..Len(models')
    BY <1>2, <1>3
  <2> QED
    BY <1>1, <1>6, <2>1 DEF HoldsInv
<1> QED
  BY <1>5, <1>7, <1>8, <1>9 DEF SessionsInv

\* The coroutine has the result of its call.
LEMMA ResumeInv ==
  ASSUME SessionsInv, Measured!Resume \/ Measured!ResumeRaising PROVE SessionsInv'
<1> DEFINE idle == [op |-> "none", state |-> "none", by |-> 0, result |-> 0]
<1>1. /\ UNCHANGED <<plan, step, models, holds>> /\ call' = idle
      /\ \/ /\ call.state = "ok"
            /\ \/ at = "loading" /\ at' = "infer" /\ owner' = call.result
               \/ at = "running" /\ at' = "barrier" /\ owner' = owner
               \/ at = "draining" /\ at' = "sample" /\ owner' = owner
         \/ call.state = "failed" /\ at' = "failed" /\ owner' = owner
  BY DEF Measured!Resume, Measured!ResumeRaising, Measured!Idle, Measured!None,
         SessionsInv, CallInv
<1>2. CallType'
  BY <1>1 DEF SessionsInv, CallType
<1>3. CallInv'
  BY <1>1 DEF SessionsInv, CallInv
<1>4. OwnerInv'
  BY <1>1 DEF SessionsInv, CallType, CallInv, OwnerInv, Before, After, Measured!Model
<1>5. HoldsInv'
  BY <1>1 DEF SessionsInv, HoldsInv
<1> QED
  BY <1>2, <1>3, <1>4, <1>5 DEF SessionsInv

\* The program's checks find what they expect.
LEMMA ChecksInv ==
  ASSUME Steps \in Nat \ {0}, SessionsInv, Measured!CheckStep \/ Measured!CheckDropped
  PROVE  SessionsInv'
<1> USE DEF Measured!Workers, Measured!None
<1>1. /\ at \in {"sample", "dropped"} /\ holds[1] = {} /\ call.result = 0 /\ call.op = "none"
      /\ UNCHANGED <<plan, models, call, holds>>
  BY DEF Measured!CheckStep, Measured!CheckDropped, SessionsInv, CallInv, HoldsInv
<1>2. Measured!Live = {owner} \ {0}
  <2>1. UNION {holds[w] : w \in {1}} = {}
    BY <1>1
  <2> QED
    BY <1>1, <2>1 DEF Measured!Live
<1>3. at = "sample" => Measured!StepIsSound
  <2> SUFFICES ASSUME at = "sample" PROVE Measured!StepIsSound
    OBVIOUS
  <2>1. /\ Len(models) = After /\ owner = After /\ step \in Nat /\ After \in Nat /\ After >= 1
        /\ models[After] = Measured!Model(After - 1)
    BY DEF SessionsInv, CallType, OwnerInv, After
  <2>2. Measured!Model(After - 1) = Measured!Model(step)
    <3>1. CASE plan.strategy = "swapping"
      BY <2>1, <3>1 DEF After
    <3>2. CASE plan.strategy # "swapping"
      BY <2>1, <3>2, ModelsAlternate DEF SessionsInv, CallType, After
    <3> QED
      BY <3>1, <3>2
  <2>3. Measured!Live = {After}
    BY <1>2, <2>1
  <2> QED
    BY <2>1, <2>2, <2>3 DEF Measured!StepIsSound, After
<1>4. CASE Measured!CheckStep /\ step + 1 < Steps
  <2>1. at = "sample" /\ at' = "reconcile" /\ step' = step + 1 /\ owner' = owner
    BY <1>3, <1>4 DEF Measured!CheckStep
  <2>2. CallType' /\ CallInv' /\ HoldsInv'
    BY <1>1, <1>4, <2>1 DEF SessionsInv, CallType, CallInv, HoldsInv
  <2>3. Before' = After /\ After' >= After /\ After \in Nat
    BY <1>1, <2>1 DEF SessionsInv, CallType, Before, After
  <2>4. OwnerInv'
    <3>1. After' \in Nat /\ Len(models) = After /\ owner = After
      BY <1>1, <2>1 DEF SessionsInv, CallType, OwnerInv, After
    <3>2. \A i \in 1..Len(models) : models[i] = Measured!Model(i - 1)'
      BY <1>1 DEF SessionsInv, OwnerInv, Measured!Model
    <3> QED
      BY <1>1, <2>1, <2>3, <3>1, <3>2 DEF OwnerInv
  <2> QED
    BY <2>2, <2>4 DEF SessionsInv
<1>5. CASE Measured!CheckStep /\ ~(step + 1 < Steps)
  <2>1. at = "sample" /\ at' = "dropped" /\ step' = step /\ owner' = 0
    BY <1>3, <1>5 DEF Measured!CheckStep
  <2>2. CallType' /\ CallInv' /\ HoldsInv'
    BY <1>1, <2>1 DEF SessionsInv, CallType, CallInv, HoldsInv
  <2>3. OwnerInv'
    <3>1. Len(models) \in Nat /\ Len(models) <= After /\ After' = After
      BY <2>1, <1>1, LenProperties DEF SessionsInv, CallType, OwnerInv, After
    <3>2. \A i \in 1..Len(models) : models[i] = Measured!Model(i - 1)'
      BY <1>1 DEF SessionsInv, OwnerInv, Measured!Model
    <3> QED
      BY <1>1, <2>1, <3>1, <3>2 DEF OwnerInv
  <2> QED
    BY <2>2, <2>3 DEF SessionsInv
<1>6. CASE Measured!CheckDropped
  <2>1. owner = 0 /\ at = "dropped"
    BY <1>6 DEF Measured!CheckDropped, SessionsInv, OwnerInv
  <2>2. Measured!Live = {}
    BY <1>2, <2>1
  <2>3. at' = "done" /\ UNCHANGED <<step, owner>>
    BY <1>6, <2>2 DEF Measured!CheckDropped
  <2>4. CallType' /\ CallInv' /\ HoldsInv'
    BY <1>1, <2>1, <2>3 DEF SessionsInv, CallType, CallInv, HoldsInv
  <2>5. OwnerInv'
    BY <1>1, <2>1, <2>3 DEF SessionsInv, CallType, OwnerInv, Before, After, Measured!Model
  <2> QED
    BY <2>4, <2>5 DEF SessionsInv
<1> QED
  BY <1>4, <1>5, <1>6

LEMMA ChurnStepInv ==
  ASSUME Steps \in Nat \ {0}
  PROVE  SessionsInv /\ [Measured!Next]_(Measured!vars) => SessionsInv'
<1> SUFFICES ASSUME SessionsInv, [Measured!Next]_(Measured!vars) PROVE SessionsInv'
  OBVIOUS
<1>1. CASE Measured!Reconcile \/ Measured!Infer \/ Measured!Barrier
  BY <1>1, AwaitInv
<1>2. CASE \/ Measured!Ran \/ Measured!Raises
           \/ \E w \in Measured!Workers : Measured!Take(w) \/ Measured!Release(w)
  BY <1>2, ThreadInv
<1>3. CASE Measured!Loaded
  BY <1>3, LoadedInv
<1>4. CASE Measured!Resume \/ Measured!ResumeRaising
  BY <1>4, ResumeInv
<1>5. CASE Measured!CheckStep \/ Measured!CheckDropped
  BY <1>5, ChecksInv
<1>6. CASE UNCHANGED Measured!vars
  BY <1>6 DEF Measured!vars, SessionsInv, CallType, CallInv, OwnerInv, HoldsInv, Before, After,
              Measured!Model
<1> QED
  BY <1>1, <1>2, <1>3, <1>4, <1>5, <1>6 DEF Measured!Next

\* Nothing but the owner, a result and one session in the thread's hands is alive.
LEMMA TwoAtMost == ASSUME Steps \in Nat \ {0}, SessionsInv PROVE Measured!OneSessionToSpare
<1> USE DEF Measured!Workers, Measured!None
<1>1. UNION {holds[w] : w \in {1}} = holds[1]
  OBVIOUS
<1>2. \E s, t : Measured!Live \subseteq {s, t}
  <2>1. CASE call.result = 0
    <3>1. PICK s : holds[1] \subseteq {s}
      BY <2>1 DEF SessionsInv, HoldsInv
    <3>2. Measured!Live \subseteq {owner, s}
      BY <1>1, <2>1, <3>1 DEF Measured!Live
    <3> QED
      BY <3>2
  <2>2. CASE call.result # 0
    BY <1>1, <2>2 DEF Measured!Live, SessionsInv, HoldsInv
  <2> QED
    BY <2>1, <2>2
<1>3. PICK s, t : Measured!Live \subseteq {s, t}
  BY <1>2
<1>4. IsFiniteSet({s, t}) /\ Cardinality({s, t}) <= 2
  <2>1. CASE s = t
    BY <2>1, FS_Singleton
  <2>2. CASE s # t
    <3>1. IsFiniteSet({s}) /\ Cardinality({s}) = 1
      BY FS_Singleton
    <3>2. IsFiniteSet({s} \cup {t})
          /\ Cardinality({s} \cup {t}) = IF t \in {s} THEN Cardinality({s}) ELSE Cardinality({s}) + 1
      BY <3>1, FS_AddElement
    <3>3. {s} \cup {t} = {s, t}
      OBVIOUS
    <3> QED
      BY <2>2, <3>1, <3>2, <3>3
  <2> QED
    BY <2>1, <2>2
<1>5. Cardinality(Measured!Live) \in Nat /\ Cardinality(Measured!Live) <= Cardinality({s, t})
      /\ Cardinality({s, t}) \in Nat
  BY <1>3, <1>4, FS_Subset, FS_CardinalityType
<1>6. \A m, n \in Nat : m <= n /\ n <= 2 => m <= 2
  OBVIOUS
<1>7. Cardinality(Measured!Live) <= 2
  BY <1>4, <1>5, <1>6
<1>8. Measured!Cardinality(Measured!Live) = Cardinality(Measured!Live)
  BY DEF Measured!Cardinality, Cardinality
<1> QED
  BY <1>7, <1>8 DEF Measured!OneSessionToSpare

\* For any number of steps: unless ONNX Runtime raises, neither backend's process
\* fails its own checks, however far the thread lags behind the loop, and a
\* replacement costs one session more, never two (churn.py 131-135, 194, 258-259).
THEOREM SoundRunsPass == ASSUME Measured!ChurnAssumption PROVE Measured!Spec => []Measured!ChurnInv
<1>1. Steps \in Nat \ {0}
  BY DEF Measured!ChurnAssumption
<1>2. Measured!Init => SessionsInv
  BY <1>1, ChurnInitInv
<1>3. SessionsInv /\ [Measured!Next]_(Measured!vars) => SessionsInv'
  BY <1>1, ChurnStepInv
<1>4. SessionsInv => Measured!ChurnInv
  <2> SUFFICES ASSUME SessionsInv PROVE Measured!ChurnInv
    OBVIOUS
  <2>1. Measured!TypeOK
    <3>1. /\ step \in 0..Steps /\ Len(models) <= Steps /\ Len(models) \in Nat
          /\ owner \in 0..Len(models) /\ call.result \in 0..Len(models)
      BY <1>1, LenProperties DEF SessionsInv, CallType, CallInv, OwnerInv, After
    <3>2. holds[1] \subseteq (0..Len(models)) \ {0}
      BY <3>1 DEF SessionsInv, HoldsInv
    <3> QED
      BY <3>1, <3>2 DEF Measured!TypeOK, Measured!Ends, Measured!Workers, Measured!None,
                        Measured!Sessions, SessionsInv, CallType
  <2>2. Measured!SoundRunsAreNotRefused
    BY DEF SessionsInv, CallType, Measured!SoundRunsAreNotRefused
  <2>3. Measured!OneSessionToSpare
    BY <1>1, TwoAtMost
  <2> QED
    BY <2>1, <2>2, <2>3 DEF Measured!ChurnInv
<1> QED
  BY <1>2, <1>3, <1>4, PTL DEF Measured!Spec
=============================================================================
