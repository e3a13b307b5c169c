------------------------------ MODULE MCTemms ------------------------------
(***************************************************************************)
(* Instances of Temms with the selector of Selector.tla: a large model     *)
(* that needs memory, a small one that does not serve scene 1, and one     *)
(* with the id of the first but another digest, which no policy names.     *)
(***************************************************************************)
EXTENDS Temms, TLC

Sel == INSTANCE Selector

Ref(i, d) == [id |-> i, digest |-> d]
large    == Ref(1, 2)
retagged == Ref(1, 1)
small    == Ref(2, 1)

MCModels == {large, retagged, small}

MCPolicies ==
  << [model |-> large, priority |-> 2, constraints |->
       <<[source |-> "resource", key |-> "mb", operator |-> "gte",
          expected |-> Sel!Num(2)]>>],
     [model |-> small, priority |-> 1, constraints |->
       <<[source |-> "context", key |-> "scene", operator |-> "not_in",
          expected |-> Sel!Coll({Sel!Num(1)})]>>] >>

\* What BestFeasibleSelector(MCPolicies) selects, whatever is current.
MCSelect(s, inventory, current, mb, scene) ==
  IF mb >= 2 THEN large ELSE IF scene # 1 THEN small ELSE Nil

ASSUME MCSelectIsTheSelector ==
  \A current \in MCModels \cup {Nil}, mb \in Resources, scene \in Contexts :
    MCSelect(Nil, MCModels, current, mb, scene) =
      Sel!Select(MCPolicies, <<large, retagged, small>>, current,
                 [mb |-> Sel!Num(mb)], [scene |-> Sel!Num(scene)]).selected

\* A selector of another make: with memory to spare it names for scene 1 a
\* model that the runtime need not have.
MCForeignSelect(s, inventory, current, mb, scene) ==
  IF mb >= 2 /\ scene = 1 THEN retagged
  ELSE MCSelect(s, inventory, current, mb, scene)

MCPartialInventory == [s \in Slots |-> {large, small}]

\* One where both models of an id are there.
MCRetaggedInventory == [s \in Slots |-> {large, retagged}]

MCActivations == Reconciles \cup Direct
MCCalls == MCActivations \cup Requests

Symmetry == Permutations(Reconciles) \cup Permutations(Requests)
=============================================================================
