------------------------------ MODULE Scenario ------------------------------
(***************************************************************************)
(* What the two programs of examples/live_swap share: two models, a policy *)
(* on the battery, and the scenario of run.py, whose fourth phase renames  *)
(* the large model's file away.                                            *)
(***************************************************************************)
EXTENDS Selector

small == [id |-> 1, digest |-> 1]    \* mobilenetv2
large == [id |-> 2, digest |-> 2]    \* resnet18

\* What a variable that may name a model holds.
Refs == {Nil, small, large}

ASSUME NilIsNoModel == Nil \notin {small, large}

Stage(name, battery, fault) == [name |-> name, battery |-> battery, fault |-> fault]

\* run.py's SCENARIO.
Phases ==
  << Stage("start-small", 20, FALSE),
     Stage("more-capacity", 80, FALSE),
     Stage("less-capacity", 20, FALSE),
     Stage("injected-missing-artifact", 80, TRUE),
     Stage("retry-restored-artifact", 80, FALSE),
     Stage("no-feasible-model", 5, FALSE),
     Stage("recover", 20, FALSE) >>

MinimumBattery(m) == IF m = small THEN 10 ELSE 40

Policy(m) ==
  [model |-> m, priority |-> IF m = small THEN 10 ELSE 20, constraints |->
     << [source |-> "context", key |-> "battery", operator |-> "gte",
         expected |-> Num(MinimumBattery(m))] >>]

\* The decision for a battery, with both models in the runtime's inventory.
Preview(policies, active, battery) ==
  Select(policies, <<small, large>>, active, <<>>, [battery |-> Num(battery)])

\* A model that may serve under a decision.
Feasible(m, decision) ==
  m # Nil /\ \E e \in decision.evaluations : e.feasible /\ SameModel(m, e.model)
=============================================================================
