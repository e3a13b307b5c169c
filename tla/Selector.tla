------------------------------ MODULE Selector ------------------------------
(***************************************************************************)
(* selector.py and the values of types.py it works on: pure selection of   *)
(* the best feasible model.                                                *)
(*                                                                         *)
(* The strings id and digest of a ModelRef are natural numbers standing    *)
(* for their places in the lexicographic order, which is all the selector  *)
(* compares them by.                                                       *)
(*                                                                         *)
(* A policy is [model, priority, constraints]; a constraint is             *)
(* [source, key, operator, expected].  A value is [kind, v]: "num" covers  *)
(* bool, int and float, which Python compares with one another (True = 1); *)
(* a float NaN has a kind of its own, and its v tells one NaN object from  *)
(* another.  "coll" is a non-string container, a record of its elements.   *)
(***************************************************************************)
EXTENDS ModelRefs, Integers, Sequences, FiniteSets

Num(n)  == [kind |-> "num", v |-> n]
Str(n)  == [kind |-> "str", v |-> n]
NaN     == [kind |-> "nan", v |-> 0]
Coll(S) == [kind |-> "coll", elements |-> S]

-----------------------------------------------------------------------------
(***************************************************************************)
(* Constraints.  A comparison Python rejects (ordering a string against a  *)
(* number, IN without a container) raises inside _compare and is caught in *)
(* _constraint_failure, so here it is simply not satisfied.                *)
(***************************************************************************)

\* Values of different kinds are unequal, and NaN is unequal to itself.
PyEqual(a, b) == a = b /\ a.kind # "nan"

Orderable(a, b) == a.kind = b.kind /\ a.kind \in {"num", "str"}

Less(a, b) == Orderable(a, b) /\ a.v < b.v

\* MUTANT: "at least" as "not less", which is true of NaN.
AtLeastUnlessLess(a, b) ==
  (Orderable(a, b) \/ {a.kind, b.kind} \subseteq {"num", "nan"}) /\ ~Less(a, b)

AtLeast(a, b) == Orderable(a, b) /\ a.v >= b.v

\* A container is searched for the object itself before an equal one, so that a NaN
\* is found where it is that very object.
IsIn(coll, a) == a \in coll.elements

Compare(actual, op, expected) ==
  \/ op = "eq"     /\ PyEqual(actual, expected)
  \/ op = "ne"     /\ ~PyEqual(actual, expected)
  \/ op = "gt"     /\ Less(expected, actual)
  \/ op = "gte"    /\ AtLeast(actual, expected)
  \/ op = "lt"     /\ Less(actual, expected)
  \/ op = "lte"    /\ AtLeast(expected, actual)
  \/ op = "in"     /\ expected.kind = "coll" /\ IsIn(expected, actual)
  \/ op = "not_in" /\ expected.kind = "coll" /\ ~IsIn(expected, actual)

\* MUTANT: a key missing from the context is looked up among the resources.
SatisfiedFallingBack(c, context, resources) ==
  LET values == IF c.source = "context" /\ c.key \in DOMAIN context
                THEN context ELSE resources
  IN  c.key \in DOMAIN values /\ Compare(values[c.key], c.operator, c.expected)

\* The negation of _constraint_failure.
Satisfied(c, context, resources) ==
  LET values == IF c.source = "context" THEN context ELSE resources
  IN  c.key \in DOMAIN values /\ Compare(values[c.key], c.operator, c.expected)

-----------------------------------------------------------------------------
(***************************************************************************)
(* Evaluation and ranking.                                                 *)
(***************************************************************************)

\* BestFeasibleSelector.__init__ refuses anything else.
ValidPolicies(policies) ==
  \A i, j \in DOMAIN policies :
    Identity(policies[i].model) = Identity(policies[j].model) => i = j

\* available.get(identity): the dict keeps the last entry with an identity.
Available(models, model) ==
  LET at == {i \in DOMAIN models : Identity(models[i]) = Identity(model)}
  IN  IF at = {} THEN Nil ELSE models[CHOOSE i \in at : \A j \in at : i >= j]

\* An evaluation carries the place of its policy, so a set of them stands for
\* the tuple of evaluations.
Evaluate(place, policy, model, context, resources) ==
  [place    |-> place,
   model    |-> IF model = Nil THEN policy.model ELSE model,
   priority |-> policy.priority,
   feasible |-> /\ model # Nil
                /\ \A i \in DOMAIN policy.constraints :
                     Satisfied(policy.constraints[i], context, resources)]

\* Lexicographic order on pairs of numbers.
PairLess(p, q) == p[1] < q[1] \/ (p[1] = q[1] /\ p[2] < q[2])

\* MUTANT: no preference for the current model.
BetterIgnoringCurrent(a, b, current) ==
  \/ a.priority > b.priority
  \/ a.priority = b.priority /\ PairLess(Identity(a.model), Identity(b.model))

\* MUTANT: the preference for the current model before the priority.
BetterCurrentFirst(a, b, current) ==
  \/ SameModel(current, a.model) /\ ~SameModel(current, b.model)
  \/ /\ SameModel(current, a.model) = SameModel(current, b.model)
     /\ \/ a.priority > b.priority
        \/ a.priority = b.priority /\ PairLess(Identity(a.model), Identity(b.model))

\* MUTANT: ids alone break ties, so policy order decides between digests.
BetterById(a, b, current) ==
  \/ a.priority > b.priority
  \/ /\ a.priority = b.priority
     /\ \/ SameModel(current, a.model) /\ ~SameModel(current, b.model)
        \/ /\ SameModel(current, a.model) = SameModel(current, b.model)
           /\ a.model.id < b.model.id

\* The key of a is smaller than the key of b.
Better(a, b, current) ==
  \/ a.priority > b.priority
  \/ /\ a.priority = b.priority
     /\ \/ SameModel(current, a.model) /\ ~SameModel(current, b.model)
        \/ /\ SameModel(current, a.model) = SameModel(current, b.model)
           /\ PairLess(Identity(a.model), Identity(b.model))

\* min(feasible, key = ...): the first item that no other item is better than.
Rank(evaluations, current) ==
  LET feasible == {e \in evaluations : e.feasible}
      best == {e \in feasible : \A f \in feasible : ~Better(f, e, current)}
  IN  IF feasible = {} THEN Nil
      ELSE (CHOOSE e \in best : \A f \in best : e.place <= f.place).model

Reason(selected, current, evaluations) ==
  IF evaluations = {} THEN "no policies"
  ELSE IF selected = Nil THEN "no feasible model"
  ELSE IF SameModel(current, selected) THEN "current remains"
  ELSE "selected"

\* BestFeasibleSelector(policies).select(models, runtime, context).
Select(policies, models, active, resources, context) ==
  LET evaluations == {Evaluate(i, policies[i], Available(models, policies[i].model),
                               context, resources) : i \in DOMAIN policies}
      selected == Rank(evaluations, active)
  IN  [selected |-> selected, current |-> active, evaluations |-> evaluations,
       reason |-> Reason(selected, active, evaluations)]
=============================================================================
